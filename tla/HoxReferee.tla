----------------------------- MODULE HoxReferee -----------------------------
(***************************************************************************)
(* The referee of a table: hoxReferee and BoardInfoAPI::Board              *)
(* (server/hoxReferee.cpp).  It keeps the board twice, as cells that point *)
(* to pieces and as pieces that know their position, tries every move on   *)
(* it, and takes back those that leave the own king in danger.             *)
(*                                                                         *)
(* A position is a pair <<x, y>>, BLACK's side at y = 0.  A move comes as  *)
(* four characters, "xyXY", each minus '0', so its target may lie beside   *)
(* the board: Targets reaches as far over the edge as a leap does.         *)
(***************************************************************************)
EXTENDS Integers, FiniteSets

CONSTANTS
    Pieces,         \* the pieces of a game
    type,           \* the type of each piece
    color,          \* its color
    Starts,         \* positions a game is taken up from: [Pieces -> Squares]
    MaxMoves,       \* bound: moves played from there
    None            \* NULL

Colors  == {"Red", "Black"}
Types   == {"King", "Advisor", "Elephant", "Chariot", "Horse", "Cannon", "Pawn"}
Squares == (0..8) \X (0..9)
Targets == (-2..10) \X (-2..11)

Opponent(c) == IF c = "Red" THEN "Black" ELSE "Red"
WinOf(c)    == IF c = "Red" THEN "RedWin" ELSE "BlackWin"
IsKing(p, c) == type[p] = "King" /\ color[p] = c

ASSUME PiecesAssumption ==
    /\ type \in [Pieces -> Types] /\ color \in [Pieces -> Colors]
    /\ None \notin Pieces
    /\ \A c \in Colors : \E p \in Pieces : IsKing(p, c) /\ \A r \in Pieces : IsKing(r, c) => r = p
ASSUME BoundAssumption == MaxMoves \in Nat

VARIABLES
    board,          \* m_cells, the positions of the pieces, m_pieces, m_deadPieces
    nextColor,      \* m_nextColor
    status,         \* what validateMove answered last
    moves           \* moves accepted since the start

vars == <<board, nextColor, status, moves>>

Boards == [cells  : [Squares -> Pieces \cup {None}],
           pos    : [Pieces -> Squares],
           active : SUBSET Pieces,
           dead   : SUBSET Pieces]

TypeOK ==
    /\ board \in Boards
    /\ nextColor \in Colors
    /\ status \in {"InProgress", "RedWin", "BlackWin"}
    /\ moves \in 0..MaxMoves

-----------------------------------------------------------------------------
(* Cells and pieces.                                                       *)

PieceAt(b, q)    == IF q \in Squares THEN b.cells[q] ELSE None
HasPieceAt(b, q) == PieceAt(b, q) # None

(* Every hoxCHECK that fails returns, and leaves the rest undone.          *)
Unset(b, p) ==
    IF b.cells[b.pos[p]] = p THEN [b EXCEPT !.cells[b.pos[p]] = None] ELSE b

Set(b, p) ==
    IF b.cells[b.pos[p]] = None THEN [b EXCEPT !.cells[b.pos[p]] = p] ELSE b

(* Mutant: a captured piece goes on checking the king.                     *)
CaptureCellOnly(b, p) == Unset(b, p)

Capture(b, p) ==
    IF p \in b.active /\ p \notin b.dead
    THEN [Unset(b, p) EXCEPT !.active = @ \ {p}, !.dead = @ \cup {p}]
    ELSE Unset(b, p)

(* Mutant: the position is adjusted before it is looked at.                *)
MovePieceToEarly(b, p, to) ==
    LET moved == [Unset(b, p) EXCEPT !.pos[p] = to]
    IN  IF to \in Squares THEN Set(moved, p) ELSE moved

MovePieceTo(b, p, to) ==
    IF to \in Squares THEN Set([Unset(b, p) EXCEPT !.pos[p] = to], p) ELSE b

(* Mutant: the captured piece stays dead.                                  *)
PutbackNot(b, p) == b

Putback(b, p) ==
    IF p \in b.dead
    THEN Set([cells |-> b.cells, pos |-> b.pos,
              active |-> b.active \cup {p}, dead |-> b.dead \ {p}], p)
    ELSE b

(* _RecordMove: the piece at the target, if any, is captured first.        *)
Record(b, from, to) ==
    LET captured == PieceAt(b, to)
        cleared  == IF captured = None THEN b ELSE Capture(b, captured)
    IN  MovePieceTo(cleared, PieceAt(cleared, from), to)

(* _UndoMove                                                               *)
Undo(b, from, to, captured) ==
    IF ~HasPieceAt(b, to) \/ b.pos[PieceAt(b, to)] # to THEN b
    ELSE LET back == MovePieceTo(b, PieceAt(b, to), from)
         IN  IF captured = None THEN back
             ELSE Putback([back EXCEPT !.pos[captured] = to], captured)

-----------------------------------------------------------------------------
(* The pieces.                                                             *)

Distance(i, j) == IF i < j THEN j - i ELSE i - j

InPalace(q, c)  == q[1] \in 3..5 /\ q[2] \in (IF c = "Black" THEN 0..2 ELSE 7..9)
InCountry(q, c) == q[2] \in (IF c = "Black" THEN 0..4 ELSE 5..9)
Forward(y, c)   == IF c = "Black" THEN y + 1 ELSE y - 1

Straight(a, b) == (a[1] = b[1]) # (a[2] = b[2])

(* Mutant: the square next to the piece is not looked at.                  *)
MiddleShort(a, b) ==
    {<<a[1], y>> : y \in (b[2] + 1)..(a[2] - 2) \cup (a[2] + 2)..(b[2] - 1)}
      \cup {<<x, a[2]>> : x \in (b[1] + 1)..(a[1] - 2) \cup (a[1] + 2)..(b[1] - 1)}

(* middlePieces of a straight move.                                        *)
Middle(a, b) ==
    {<<a[1], y>> : y \in (b[2] + 1)..(a[2] - 1) \cup (a[2] + 1)..(b[2] - 1)}
      \cup {<<x, a[2]>> : x \in (b[1] + 1)..(a[1] - 1) \cup (a[1] + 1)..(b[1] - 1)}

InTheWay(b, from, to) == Cardinality({q \in Middle(from, to) : HasPieceAt(b, q)})

KingMoves(b, p, from, to) ==
    InPalace(to, color[p]) /\ Distance(from[1], to[1]) + Distance(from[2], to[2]) = 1

AdvisorMoves(b, p, from, to) ==
    InPalace(to, color[p]) /\ Distance(from[1], to[1]) = 1 /\ Distance(from[2], to[2]) = 1

ElephantMoves(b, p, from, to) ==
    /\ InCountry(to, color[p])
    /\ Distance(from[1], to[1]) = 2 /\ Distance(from[2], to[2]) = 2
    /\ ~HasPieceAt(b, <<(from[1] + to[1]) \div 2, (from[2] + to[2]) \div 2>>)

ChariotMoves(b, p, from, to) == Straight(from, to) /\ InTheWay(b, from, to) = 0

HorseMoves(b, p, from, to) ==
    \/ /\ Distance(from[2], to[2]) = 2 /\ Distance(from[1], to[1]) = 1
       /\ ~HasPieceAt(b, <<from[1], (from[2] + to[2]) \div 2>>)
    \/ /\ Distance(from[1], to[1]) = 2 /\ Distance(from[2], to[2]) = 1
       /\ ~HasPieceAt(b, <<(from[1] + to[1]) \div 2, from[2]>>)

CannonMoves(b, p, from, to) ==
    /\ Straight(from, to)
    /\ \/ InTheWay(b, from, to) = 0 /\ ~HasPieceAt(b, to)
       \/ /\ InTheWay(b, from, to) = 1
          /\ HasPieceAt(b, to) /\ color[PieceAt(b, to)] # color[p]

PawnMoves(b, p, from, to) ==
    \/ to[1] = from[1] /\ to[2] = Forward(from[2], color[p])
    \/ ~InCountry(to, color[p]) /\ to[2] = from[2] /\ Distance(from[1], to[1]) = 1

CanMoveTo(b, p, to) ==
    LET from == b.pos[p]
    IN  CASE type[p] = "King"     -> KingMoves(b, p, from, to)
          [] type[p] = "Advisor"  -> AdvisorMoves(b, p, from, to)
          [] type[p] = "Elephant" -> ElephantMoves(b, p, from, to)
          [] type[p] = "Chariot"  -> ChariotMoves(b, p, from, to)
          [] type[p] = "Horse"    -> HorseMoves(b, p, from, to)
          [] type[p] = "Cannon"   -> CannonMoves(b, p, from, to)
          [] type[p] = "Pawn"     -> PawnMoves(b, p, from, to)

IsValidMove(b, p, to) ==
    /\ CanMoveTo(b, p, to)
    /\ HasPieceAt(b, to) => color[PieceAt(b, to)] # color[p]

(* Mutant: a king does not look to its right.                              *)
PotentialLeft(p, q) == {r \in Squares : IF type[p] = "King" THEN r[1] <= q[1] ELSE r # q}

(* GetPotentialNextPositions, those on the board.                          *)
Potential(p, q) ==
    LET Near(D) == {<<q[1] + d[1], q[2] + d[2]>> : d \in D}
    IN  Squares \cap
        CASE type[p] \in {"King", "Pawn"} -> Near({<<0, -1>>, <<0, 1>>, <<-1, 0>>, <<1, 0>>})
          [] type[p] = "Advisor"  -> Near({-1, 1} \X {-1, 1})
          [] type[p] = "Elephant" -> Near({-2, 2} \X {-2, 2})
          [] type[p] = "Horse"    -> Near(({-1, 1} \X {-2, 2}) \cup ({-2, 2} \X {-1, 1}))
          [] type[p] \in {"Chariot", "Cannon"} -> {r \in Squares : Straight(q, r)}

-----------------------------------------------------------------------------
(* Danger for a king.                                                      *)

(* Mutant: chariots are not looked at.                                     *)
InCheckByOthers(b, c) ==
    \E king, p \in b.active :
        /\ IsKing(king, c) /\ color[p] # c /\ type[p] # "Chariot"
        /\ IsValidMove(b, p, b.pos[king])

(* _IsKingBeingChecked of the king that _GetKing returns.                  *)
InCheck(b, c) ==
    \E king, p \in b.active :
        IsKing(king, c) /\ color[p] # c /\ IsValidMove(b, p, b.pos[king])

(* _IsKingFaceKing: no other piece in the column of the kings.             *)
KingFacesKing(b) ==
    \E red, black \in b.active :
        /\ IsKing(red, "Red") /\ IsKing(black, "Black")
        /\ b.pos[red][1] = b.pos[black][1]
        /\ \A p \in b.active \ {red, black} : b.pos[p][1] # b.pos[red][1]

Safe(b, c) == ~InCheck(b, c) /\ ~KingFacesKing(b)

(* Simulation_IsValidMove; its undoing leaves the board as it was.         *)
SimulatedValid(b, p, to) ==
    IsValidMove(b, p, to) /\ Safe(Record(b, b.pos[p], to), color[p])

(* _DoesNextMoveExist                                                      *)
NextMoveExists(b, c) ==
    \E p \in b.active : /\ color[p] = c
                        /\ \E q \in Potential(p, b.pos[p]) : SimulatedValid(b, p, q)

-----------------------------------------------------------------------------
(* The requests.                                                           *)

BoardOf(s) ==
    [cells  |-> [q \in Squares |-> IF \E p \in Pieces : s[p] = q
                                   THEN CHOOSE p \in Pieces : s[p] = q ELSE None],
     pos    |-> s,
     active |-> Pieces,
     dead   |-> {}]

(* The side that has just moved is not in check.                           *)
ASSUME StartsAssumption ==
    \A s \in Starts :
        /\ s \in [Pieces -> Squares]
        /\ \A p, r \in Pieces : s[p] = s[r] => p = r
        /\ ~InCheck(BoardOf(s), "Black")

Init ==
    /\ nextColor = "Red"
    /\ board \in {BoardOf(s) : s \in Starts}
    /\ status = "InProgress"
    /\ moves = 0

(* stringToMove has found a piece, and it is that side's turn.             *)
Requested(from, to) ==
    /\ status = "InProgress"
    /\ HasPieceAt(board, from)
    /\ color[PieceAt(board, from)] = nextColor
    /\ IsValidMove(board, PieceAt(board, from), to)

(* ValidateMove, the move is accepted.                                     *)
Accept(from, to) ==
    /\ moves < MaxMoves
    /\ Requested(from, to)
    /\ LET after == Record(board, from, to)
       IN  /\ Safe(after, nextColor)
           /\ board' = after
           /\ nextColor' = Opponent(nextColor)
           /\ status' = IF NextMoveExists(after, Opponent(nextColor)) THEN "InProgress"
                        ELSE WinOf(nextColor)
           /\ moves' = moves + 1

(* ValidateMove, the move is undone and refused.                           *)
Refuse(from, to) ==
    /\ Requested(from, to)
    /\ LET after == Record(board, from, to)
       IN  /\ ~Safe(after, nextColor)
           /\ board' = Undo(after, from, to, PieceAt(board, to))
    /\ UNCHANGED <<nextColor, status, moves>>

(* resetGame, and the moves up to the position the game is taken up from.  *)
ResetGame ==
    /\ board' \in {BoardOf(s) : s \in Starts}
    /\ nextColor' = "Red"
    /\ status' = "InProgress"
    /\ moves' = 0

Next ==
    \/ \E from \in Squares, to \in Targets : Accept(from, to) \/ Refuse(from, to)
    \/ ResetGame

Spec == Init /\ [][Next]_vars

-----------------------------------------------------------------------------
(* Correctness.                                                            *)

(* The two books of the board agree: a cell points to a piece exactly when *)
(* the piece is active and has its position there, and no piece is both    *)
(* active and dead, whatever was captured, undone and put back.            *)
Agrees(b) ==
    /\ b.active \cap b.dead = {} /\ b.active \cup b.dead = Pieces
    /\ \A q \in Squares, p \in Pieces :
           b.cells[q] = p <=> p \in b.active /\ b.pos[p] = q
BoardAgrees == Agrees(board)

(* No king is ever captured ("A King of any color should exist."): the     *)
(* check looks from the king for pieces that reach it, the move looks from *)
(* the piece, and _GetKing's NULL would be followed.                       *)
KingsLive == \A p \in Pieces : type[p] = "King" => p \in board.active

(* A refused move leaves no trace (_UndoMove), nor does one that is only   *)
(* simulated: the board changes with the turn or when a game is taken up.  *)
NoTrace == [][board' = board \/ nextColor' # nextColor \/ moves' = 0]_vars

(* The moves of a piece, step by step as the rules tell them: along a ray, *)
(* over its leg, within its palace or its half of the board.               *)
Dirs == {<<0, 1>>, <<0, -1>>, <<1, 0>>, <<-1, 0>>}
Diagonals == {-1, 1} \X {-1, 1}
Walk(q, d, n) == <<q[1] + n * d[1], q[2] + n * d[2]>>
Rank(q, c)    == IF c = "Black" THEN q[2] ELSE 9 - q[2]
Occupied(q)   == \E p \in board.active : board.pos[p] = q
Jumped(q, d, n) == {k \in 1..(n - 1) : Occupied(Walk(q, d, k))}
Palace(c)     == {q \in Squares : q[1] \in 3..5 /\ Rank(q, c) <= 2}

Reach(p) ==
    LET q == board.pos[p]
        c == color[p]
    IN  CASE type[p] = "King"     -> {Walk(q, d, 1) : d \in Dirs} \cap Palace(c)
          [] type[p] = "Advisor"  -> {Walk(q, d, 1) : d \in Diagonals} \cap Palace(c)
          [] type[p] = "Elephant" -> {Walk(q, d, 2) : d \in {e \in Diagonals : ~Occupied(Walk(q, e, 1))}}
                                       \cap {r \in Squares : Rank(r, c) <= 4}
          [] type[p] = "Horse"    -> {Walk(Walk(q, d[1], 1), d[2], 1) :
                                        d \in {e \in Dirs \X Diagonals :
                                                 /\ ~Occupied(Walk(q, e[1], 1))
                                                 /\ e[1][1] \in {0, e[2][1]} /\ e[1][2] \in {0, e[2][2]}}}
          [] type[p] = "Chariot"  -> {r \in Squares : \E d \in Dirs, n \in 1..9 :
                                        r = Walk(q, d, n) /\ Jumped(q, d, n) = {}}
          [] type[p] = "Cannon"   -> {r \in Squares : \E d \in Dirs, n \in 1..9 :
                                        /\ r = Walk(q, d, n)
                                        /\ Cardinality(Jumped(q, d, n)) = (IF Occupied(r) THEN 1 ELSE 0)}
          [] type[p] = "Pawn"     -> {r \in {Walk(q, d, 1) : d \in Dirs} :
                                        \/ Rank(r, c) = Rank(q, c) + 1
                                        \/ Rank(r, c) = Rank(q, c) /\ Rank(q, c) > 4}

(* On the board, a piece may go where the rules let it, and nowhere else.  *)
RulesOfPieces ==
    \A p \in board.active, q \in Squares :
        IsValidMove(board, p, q) <=>
            q \in Reach(p) /\ \A r \in board.active : board.pos[r] = q => color[r] # color[p]

(* A game is declared won exactly when the other side has no move left     *)
(* ("checking to see if the opponent can make ANY valid Move at all"),     *)
(* though only positions each kind of piece may think of are tried.        *)
MateIsRight ==
    moves > 0 =>
        (status = "InProgress" <=>
            \E p \in board.active, q \in Squares :
                color[p] = nextColor /\ SimulatedValid(board, p, q))

(* A move that is accepted is played ("At this point, the Move is valid.   *)
(* Record this move", hoxReferee.cpp).                                     *)
MovesArePlayed == [][nextColor' # nextColor /\ moves' > 0 => board' # board]_vars

(* The kings never face each other with nothing between them ("check if    *)
(* there is any piece in between", hoxReferee.cpp).                        *)
KingsApart ==
    \A red, black \in board.active :
        IsKing(red, "Red") /\ IsKing(black, "Black") =>
            InTheWay(board, board.pos[red], board.pos[black]) > 0
              \/ board.pos[red][1] # board.pos[black][1]
=============================================================================
