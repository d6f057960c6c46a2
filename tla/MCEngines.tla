------------------------------ MODULE MCEngines ------------------------------
(***************************************************************************)
(* The engines of the AI plugins follow a game and play it: endgames with  *)
(* pieces of all kinds, under the rules by which the game is refereed.     *)
(*                                                                         *)
(* A square is a pair <<x, y>>, Black's side at y = 0; a man is a pair     *)
(* <<color, kind>>; a board is the function of its occupied squares.       *)
(***************************************************************************)
EXTENDS Integers, Sequences, FiniteSets, TLC

CONSTANTS
    MaxPlies,       \* bound: moves of a game
    MaxPlays,       \* bound: of these, moves that are not an engine's
    DeepPlies,      \* bound: moves searched to depth 2, those after them to depth 1
    Thinkers        \* the engines that are asked for moves

VARIABLES
    board, turn,    \* the game
    plies,          \* moves made
    last,           \* who made the last one
    xpos, xresult,          \* XQWLight
    qpos, qmove, qkiller,   \* HaQiKi D
    tpos, ttable, tmove,    \* TSITO
    fpos, fhash, fkillers, fmove    \* Folium
vars == <<board, turn, plies, last, xpos, xresult, qpos, qmove, qkiller, tpos, ttable, tmove,
          fpos, fhash, fkillers, fmove>>

-----------------------------------------------------------------------------
(* The rules.                                                              *)
Opponent(c) == IF c = "Red" THEN "Black" ELSE "Red"
Squares == (0..8) \X (0..9)
Dirs == {<<0, 1>>, <<0, -1>>, <<1, 0>>, <<-1, 0>>}
Diagonals == {-1, 1} \X {-1, 1}
Walk(q, d, n) == <<q[1] + n * d[1], q[2] + n * d[2]>>
Rank(q, c) == IF c = "Black" THEN q[2] ELSE 9 - q[2]
Palace(c) == {q \in Squares : q[1] \in 3..5 /\ Rank(q, c) <= 2}
Taken(b, q) == q \in DOMAIN b
Jumped(b, q, d, n) == Cardinality({k \in 1..(n - 1) : Taken(b, Walk(q, d, k))})

Reach(b, q) ==
    LET c == b[q][1]
        kind == b[q][2]
    IN  Squares \cap
        CASE kind = "King"     -> {Walk(q, d, 1) : d \in Dirs} \cap Palace(c)
          [] kind = "Advisor"  -> {Walk(q, d, 1) : d \in Diagonals} \cap Palace(c)
          [] kind = "Elephant" -> {Walk(q, d, 2) : d \in {e \in Diagonals : ~Taken(b, Walk(q, e, 1))}}
                                    \cap {r \in Squares : Rank(r, c) <= 4}
          [] kind = "Horse"    -> {Walk(Walk(q, d[1], 1), d[2], 1) :
                                     d \in {e \in Dirs \X Diagonals :
                                              /\ ~Taken(b, Walk(q, e[1], 1))
                                              /\ e[1][1] \in {0, e[2][1]} /\ e[1][2] \in {0, e[2][2]}}}
          [] kind = "Chariot"  -> UNION {{Walk(q, d, n) : n \in {k \in 1..9 : Jumped(b, q, d, k) = 0}} : d \in Dirs}
          [] kind = "Cannon"   -> UNION {{Walk(q, d, n) : n \in {k \in 1..9 :
                                     Jumped(b, q, d, k) = (IF Taken(b, Walk(q, d, k)) THEN 1 ELSE 0)}} : d \in Dirs}
          [] kind = "Pawn"     -> {r \in {Walk(q, d, 1) : d \in Dirs} :
                                     \/ Rank(r, c) = Rank(q, c) + 1
                                     \/ Rank(r, c) = Rank(q, c) /\ Rank(q, c) > 4}

Men(b, c) == {q \in DOMAIN b : b[q][1] = c}
Moves(b, c) == UNION {{<<q, r>> : r \in {s \in Reach(b, q) : s \notin Men(b, c)}} : q \in Men(b, c)}
After(b, m) == (m[2] :> b[m[1]]) @@ [q \in (DOMAIN b) \ {m[1]} |-> b[q]]

KingOf(b, c) == CHOOSE q \in DOMAIN b : b[q] = <<c, "King">>
KingsFace(b) ==
    LET r == KingOf(b, "Red")
        k == KingOf(b, "Black")
    IN  r[1] = k[1] /\ \A y \in (k[2] + 1)..(r[2] - 1) : ~Taken(b, <<r[1], y>>)
Attacked(b, c) == \E q \in Men(b, Opponent(c)) : KingOf(b, c) \in Reach(b, q)
Endangered(b, c) == KingsFace(b) \/ Attacked(b, c)

LegalMoves(b, c) == {m \in Moves(b, c) : ~Endangered(After(b, m), c)}

-----------------------------------------------------------------------------
Reds(f) == [q \in DOMAIN f |-> <<"Red", f[q]>>]
Blacks(f) == [q \in DOMAIN f |-> <<"Black", f[q]>>]

BackRank == <<"Chariot", "Horse", "Elephant", "Advisor", "King", "Advisor", "Elephant", "Horse", "Chariot">>
Opening ==
    LET Army(back, cannons, pawns) ==
            [q \in ((0..8) \X {back}) \cup ({1, 7} \X {cannons}) \cup ({0, 2, 4, 6, 8} \X {pawns}) |->
                IF q[2] = back THEN BackRank[q[1] + 1] ELSE IF q[2] = cannons THEN "Cannon" ELSE "Pawn"]
    IN  Reds(Army(9, 7, 6)) @@ Blacks(Army(0, 2, 3))

-----------------------------------------------------------------------------
(* The engines, and how they name what is on the board.                    *)
Kinds == <<"King", "Advisor", "Elephant", "Horse", "Chariot", "Cannon", "Pawn">>
KindIndex(man) == CHOOSE k \in 0..6 : Kinds[k + 1] = man[2]

XSq(q) == 3 + q[1] + 16 * (3 + q[2])
XMove(m) == <<XSq(m[1]), XSq(m[2])>>

(* A book of the opening: two moves, one of no weight, one that is illegal. *)
XBook ==
    LET lock == {<<XSq(q), KindIndex(Opening[q]) + (IF Opening[q][1] = "Red" THEN 8 ELSE 16)>> :
                    q \in DOMAIN Opening}
        Item(from, to, vl) == [lock |-> lock, mv |-> XMove(<<from, to>>), vl |-> vl]
    IN  {Item(<<7, 7>>, <<4, 7>>, 3), Item(<<2, 6>>, <<2, 5>>, 1),
         Item(<<0, 6>>, <<0, 5>>, 0), Item(<<1, 9>>, <<3, 8>>, 2)}

X == INSTANCE HoxXQWLight WITH pos <- xpos, mvResult <- xresult,
                               Book <- XBook, Noises <- {-7, 7}
Q == INSTANCE HoxHaQiKiD WITH pos <- qpos, move <- qmove, killer <- qkiller, Stray <- FALSE,
                              Garbage <- {3}, Jitter <- {-8, 7}

T == INSTANCE HoxTsito WITH pos <- tpos, table <- ttable, move <- tmove, Wide <- FALSE

F == INSTANCE HoxFolium WITH pos <- fpos, hash <- fhash, killers <- fkillers, move <- fmove

(* A board, with the squares and the men named as sq and man tell.         *)
Renamed(sq, man) ==
    [s \in {sq[q] : q \in DOMAIN man} |-> man[CHOOSE q \in DOMAIN man : sq[q] = s]]

XBoard(b) ==
    Renamed([q \in Squares |-> XSq(q)],
            [q \in DOMAIN b |-> X!Piece(IF b[q][1] = "Red" THEN 0 ELSE 1, KindIndex(b[q]))])

QSq(q) == q[1] + 20 * (9 - q[2])
QMove(m) == <<QSq(m[1]), QSq(m[2])>>
QFirst == [King |-> 0, Chariot |-> 1, Cannon |-> 3, Horse |-> 5, Advisor |-> 7, Elephant |-> 9,
           Pawn |-> 11]
QBoard(b) ==
    Renamed([q \in Squares |-> QSq(q)],
            [q \in DOMAIN b |-> (IF b[q][1] = "Red" THEN 16 ELSE 32) + QFirst[b[q][2]]
                                 + Cardinality({r \in DOMAIN b : b[r] = b[q] /\ QSq(r) < QSq(q)})])
(* The kinds of the pieces of a board of HaQiKi D.                         *)
QKinds(b) == [s \in DOMAIN b |-> <<Q!Color(b[s]), Q!KindOf(b[s])>>]

TSq(q) == q[1] + 9 * q[2]
TMove(m) == <<TSq(m[1]), TSq(m[2])>>
TSide(c) == IF c = "Red" THEN T!RED ELSE T!BLUE
TKinds == [Pawn |-> T!ZU, Cannon |-> T!PAO, Chariot |-> T!CHE, Horse |-> T!MA,
           Elephant |-> T!XIANG, Advisor |-> T!SHI, King |-> T!JIANG]
TBoard(b) ==
    Renamed([q \in Squares |-> TSq(q)], [q \in DOMAIN b |-> TSide(b[q][1]) + TKinds[b[q][2]]])

FSq(q) == 89 - (q[1] + 9 * q[2])
FMove(m) == <<FSq(m[1]), FSq(m[2])>>
FFirst == [King |-> 0, Advisor |-> 1, Elephant |-> 3, Chariot |-> 5, Horse |-> 7, Cannon |-> 9,
           Pawn |-> 11]
FBoard(b) ==
    Renamed([q \in Squares |-> FSq(q)],
            [q \in DOMAIN b |-> (IF b[q][1] = "Red" THEN 0 ELSE 16) + FFirst[b[q][2]]
                                 + Cardinality({r \in DOMAIN b : b[r] = b[q] /\ FSq(r) < FSq(q)})])
(* The kinds of the pieces of a board of Folium.                           *)
FKinds(b) == [s \in DOMAIN b |-> <<F!Color(b[s]), F!Kind(b[s])>>]

-----------------------------------------------------------------------------
Endgames == {
    Reds(<<3, 9>> :> "King" @@ <<4, 8>> :> "Advisor" @@ <<0, 5>> :> "Chariot" @@ <<2, 2>> :> "Horse")
      @@ Blacks(<<4, 0>> :> "King" @@ <<8, 2>> :> "Elephant" @@ <<7, 6>> :> "Pawn" @@ <<7, 7>> :> "Cannon"),
    Reds(<<4, 9>> :> "King" @@ <<8, 1>> :> "Chariot" @@ <<6, 7>> :> "Horse" @@ <<0, 1>> :> "Pawn" @@ <<2, 9>> :> "Elephant")
      @@ Blacks(<<3, 0>> :> "King" @@ <<6, 5>> :> "Cannon" @@ <<4, 7>> :> "Pawn" @@ <<1, 4>> :> "Chariot")}

Init ==
    /\ board \in Endgames \cup {Opening}
    /\ turn = "Red" /\ plies = (IF board = Opening THEN MaxPlies - 1 ELSE 0) /\ last = "start"
    /\ X!Start(XBoard(board), 0)
    /\ Q!Start(IF board = Opening THEN Q!InitGame ELSE Q!Reached(QBoard(board), 16, 30))
    /\ T!Start(TBoard(board), T!RED)
    /\ F!Start(FBoard(board), F!Red)

Advance(m) ==
    /\ board' = After(board, m)
    /\ turn' = Opponent(turn) /\ plies' = plies + 1

(* The other players' moves, any that the rules allow.                     *)
Play ==
    /\ plies < MaxPlays
    /\ last' = "played"
    /\ \E m \in LegalMoves(board, turn) :
        /\ Advance(m)
        /\ X!OnHumanMove(XMove(m))
        /\ Q!OnOpponentMove(QMove(m))
        /\ T!OnHumanMove(TMove(m))
        /\ F!OnHumanMove(FMove(m))

(* An engine is asked for the move to make, and the others are told it.    *)
Asked(e) ==
    /\ e \in Thinkers /\ plies < MaxPlies
    /\ LegalMoves(board, turn) # {}
    /\ last' = e
Depth == IF plies < DeepPlies THEN 2 ELSE 1
Meant(mv, sq) == [k \in 1..2 |-> CHOOSE q \in Squares : sq[q] = mv[k]]

XThink ==
    /\ Asked("X")
    /\ X!GenerateMove(Depth)
    /\ LET m == Meant(xresult', [q \in Squares |-> XSq(q)]) IN Advance(m) /\ Q!OnOpponentMove(QMove(m)) /\ T!OnHumanMove(TMove(m)) /\ F!OnHumanMove(FMove(m))

QThink ==
    /\ Asked("Q")
    /\ \E tried \in (IF Depth = 1 THEN {99} ELSE {1, 99}) : Q!GenerateNextMove(<<Depth, tried>>)
    /\ LET m == Meant(qmove', [q \in Squares |-> QSq(q)]) IN Advance(m) /\ X!OnHumanMove(XMove(m)) /\ T!OnHumanMove(TMove(m)) /\ F!OnHumanMove(FMove(m))

(* TSITO always searches two moves deep; it is asked (bound) at the start  *)
(* and after an engine's move.                                             *)
TThink ==
    /\ Asked("T") /\ last # "played"
    /\ T!GenerateMove
    /\ LET m == Meant(tmove', [q \in Squares |-> TSq(q)])
       IN  Advance(m) /\ X!OnHumanMove(XMove(m)) /\ Q!OnOpponentMove(QMove(m)) /\ F!OnHumanMove(FMove(m))

(* Folium searches three rounds at least; here (bound) two, which see the  *)
(* mates of the reply and try null moves.                                  *)
Rounds == 2
FThink ==
    /\ Asked("F")
    /\ F!GenerateMove(Rounds)
    /\ LET m == Meant(fmove', [q \in Squares |-> FSq(q)])
       IN  Advance(m) /\ X!OnHumanMove(XMove(m)) /\ Q!OnOpponentMove(QMove(m)) /\ T!OnHumanMove(TMove(m))

Next == Play \/ XThink \/ QThink \/ TThink \/ FThink
Spec == Init /\ [][Next]_vars

-----------------------------------------------------------------------------
(* Correctness.                                                            *)

(* Each engine, from its own board, finds the moves of the rules and no    *)
(* others, and lets the same of them through its tests of a king in check: *)
(* XQWLight by two functions that must agree (GenerateMoves, LegalMove)    *)
(* and by taking moves back, HaQiKi D by looking at the squares of the     *)
(* last move only (GivesCheck, LeavesKing in Search), TSITO by looking for *)
(* attackers all around (underAttack).  One corner is TSITO's own: horses  *)
(* and pawns do not find it, it being the square 0 (dest > 0).             *)
EnginesKnowRules ==
    LET moves == Moves(board, turn)
        legal == LegalMoves(board, turn)
        Overlooked == {m \in moves : m[2] = <<0, 0>> /\ board[m[1]][2] \in {"Horse", "Pawn"}}
    IN  /\ {XMove(m) : m \in moves} = X!GenerateMoves(xpos, FALSE)
        /\ {XMove(m) : m \in legal} = X!Playable(xpos)
        /\ X!Checked(xpos) = Endangered(board, turn)
        /\ X!MovesAgree(xpos)
        /\ {QMove(m) : m \in moves} = Q!ToSet(Q!Generated(qpos))
        /\ {QMove(m) : m \in legal} = Q!Legal(qpos)
        /\ {TMove(m) : m \in moves \ Overlooked} = T!ToSet(T!GenerateMoves(tpos))
        /\ {TMove(m) : m \in legal \ Overlooked} = T!Legal(tpos)
        /\ T!InCheck(tpos, TSide(turn)) = Endangered(board, turn)
        /\ {FMove(m) : m \in moves} = F!ToSet(F!GenerateMoves(fpos, "all"))
        /\ {FMove(m) : m \in legal} = F!Legal(fpos)
        /\ F!PlayerInCheck(fpos, fpos.player) = Endangered(board, turn)
        /\ F!MovesAgree(fpos)

(* Whoever made the moves of the game (onHumanMove, generateNextMove), the *)
(* board of each engine is that of the game, and what it changes with      *)
(* every move, values, material and keys, is what the board gives.         *)
EnginesFollow ==
    /\ xpos.squares = XBoard(board)
    /\ X!BooksAgree(xpos)
    /\ QKinds(qpos.board) = QKinds(QBoard(board))
    /\ Q!BooksAgree(qpos)
    /\ tpos.board = TBoard(board) /\ tpos.side = TSide(turn)
    /\ T!BooksAgree(tpos)
    /\ FKinds(fpos.squares) = FKinds(FBoard(board)) /\ (fpos.player = F!Red <=> turn = "Red")
    /\ F!BooksAgree(fpos)

Mates(b, c) ==
    {m \in LegalMoves(b, c) :
        LET a == After(b, m)
        IN  Attacked(a, Opponent(c)) /\ LegalMoves(a, Opponent(c)) = {}}

(* What the search of an engine answers (SearchMain, Search): a move that  *)
(* the rules allow; one that ends the game when there is a mate; and, when *)
(* the opponent's replies are searched to the end of their exchanges, no   *)
(* move that allows a mate unless each of them does.                       *)
AnswersSound ==
    [][last' \in Thinkers =>
        /\ board' \in {After(board, m) : m \in LegalMoves(board, turn)}
        /\ Mates(board, turn) # {} => LegalMoves(board', turn') = {}
        /\ (Depth = 2 \/ last' = "F") /\ last' # "T" /\ Mates(board', turn') # {} =>
              \A m \in LegalMoves(board, turn) : Mates(After(board, m), Opponent(turn)) # {}]_vars
=============================================================================
