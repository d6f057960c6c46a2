----------------------------- MODULE HoxXQWLight -----------------------------
(***************************************************************************)
(* The engine plugins/AI_XQWLight/XQWLight.cpp: its position, kept board,  *)
(* values, key and history in step by each move, the generator of moves,   *)
(* and the search for the move it plays.                                   *)
(*                                                                         *)
(* A square is a number x + 16 y of a board with borders, a piece is a     *)
(* side tag (8 or 16) plus its kind, a move is a pair of squares.  A board *)
(* is the function of its occupied squares.  The exclusive-or of random    *)
(* Zobrist words is a symmetric difference of sets: two keys are equal     *)
(* only when what they stand for is.                                       *)
(***************************************************************************)
EXTENDS HoxPieceSquares, FiniteSets, TLC

CONSTANTS
    Noises,         \* bound: noise added to the value of a move at the root
    Book            \* Search.BookTable: records [lock, mv, vl]

-----------------------------------------------------------------------------
(* Squares.                                                                *)
FileX(sq) == sq % 16
RankY(sq) == sq \div 16
InBoard(sq) == FileX(sq) \in 3..11 /\ RankY(sq) \in 3..12
InFort(sq) == FileX(sq) \in 6..8 /\ RankY(sq) \in (3..5) \cup (10..12)
SquareFlip(sq) == 254 - sq
MirrorSquare(sq) == (14 - FileX(sq)) + 16 * RankY(sq)
SquareForward(sq, sd) == sq - 16 + 32 * sd
AwayHalf(sq, sd) == sq \div 128 = sd
HomeHalf(sq, sd) == ~AwayHalf(sq, sd)
SameHalf(a, b) == a \div 128 = b \div 128

KingDelta == {-16, -1, 1, 16}
AdvisorDelta == {-17, -15, 15, 17}
KnightDelta == [d \in KingDelta |-> CASE d = -16 -> {-33, -31} [] d = -1 -> {-18, 14}
                                      [] d = 1 -> {-14, 18} [] d = 16 -> {31, 33}]
KnightCheckDelta == [d \in AdvisorDelta |-> CASE d = -17 -> {-33, -18} [] d = -15 -> {-31, -14}
                                              [] d = 15 -> {14, 31} [] d = 17 -> {18, 33}]

(* ccLegalSpan and ccKnightPin, by the difference of two squares.          *)
KingSpan(from, to) == to - from \in KingDelta
AdvisorSpan(from, to) == to - from \in AdvisorDelta
BishopSpan(from, to) == to - from \in {2 * d : d \in AdvisorDelta}
BishopPin(from, to) == (from + to) \div 2
KnightPin(from, to) ==
    IF \E d \in KingDelta : to - from \in KnightDelta[d]
    THEN from + (CHOOSE d \in KingDelta : to - from \in KnightDelta[d]) ELSE from

(* How many steps by d lead from sq to the edge.                           *)
Steps(sq, d) ==
    CASE d = 1 -> 11 - FileX(sq) [] d = -1 -> FileX(sq) - 3
      [] d = 16 -> 12 - RankY(sq) [] d = -16 -> RankY(sq) - 3

-----------------------------------------------------------------------------
(* Pieces, and what they are worth.                                        *)
King == 0
Advisor == 1
Bishop == 2
Knight == 3
Rook == 4
Cannon == 5
Pawn == 6
Kind(pc) == pc % 8
Side(pc) == pc \div 8 - 1
Piece(sd, kind) == 8 + 8 * sd + kind

Value(pc, sq) ==
    LET at == IF Side(pc) = 0 THEN sq ELSE SquareFlip(sq)
    IN  SquareValue(Kind(pc), RankY(at) - 3, FileX(at) - 3)

-----------------------------------------------------------------------------
(* The position.                                                           *)
NoMove == <<0, 0>>
PlayerKey == <<0, 0>>           \* Zobrist.Player
Xor(a, b) == (a \ b) \cup (b \ a)

Occupied(b, sq) == sq \in DOMAIN b
At(b, sq) == IF Occupied(b, sq) THEN b[sq] ELSE 0
Owned(b, sq, sd) == Occupied(b, sq) /\ Side(b[sq]) = sd

EmptyPosition ==
    [sd |-> 0, squares |-> <<>>, vl |-> <<0, 0>>, zobr |-> {}, distance |-> 0, list |-> <<>>]

AddPiece(p, sq, pc) ==
    [p EXCEPT !.squares = (sq :> pc) @@ @,
              !.vl[Side(pc) + 1] = @ + Value(pc, sq),
              !.zobr = Xor(@, {<<sq, pc>>})]

(* Mutant: the piece is taken off the board and left in the values.        *)
DelPieceUnvalued(p, sq) ==
    [p EXCEPT !.squares = [s \in DOMAIN @ \ {sq} |-> @[s]],
              !.zobr = Xor(@, {<<sq, p.squares[sq]>>})]

DelPiece(p, sq) ==
    LET pc == p.squares[sq]
    IN  [p EXCEPT !.squares = [s \in DOMAIN @ \ {sq} |-> @[s]],
                  !.vl[Side(pc) + 1] = @ - Value(pc, sq),
                  !.zobr = Xor(@, {<<sq, pc>>})]

ChangeSide(p) == [p EXCEPT !.sd = 1 - @, !.zobr = Xor(@, {PlayerKey})]

RECURSIVE Placed(_, _)
Placed(p, b) ==
    IF b = <<>> THEN p
    ELSE LET sq == CHOOSE s \in DOMAIN b : TRUE
         IN  Placed(AddPiece(p, sq, b[sq]), [s \in DOMAIN b \ {sq} |-> b[s]])

MovePiece(p, mv) ==
    LET cleared == IF Occupied(p.squares, mv[2]) THEN DelPiece(p, mv[2]) ELSE p
    IN  AddPiece(DelPiece(cleared, mv[1]), mv[2], p.squares[mv[1]])

UndoMovePiece(p, mv, captured) ==
    LET back == AddPiece(DelPiece(p, mv[2]), mv[1], p.squares[mv[2]])
    IN  IF captured = 0 THEN back ELSE AddPiece(back, mv[2], captured)

-----------------------------------------------------------------------------
(* Rays: the steps at which something stands, nearest first.               *)
Blockers(b, sq, d) == {k \in 1..Steps(sq, d) : Occupied(b, sq + k * d)}
Nearest(K, none) == IF K = {} THEN none ELSE CHOOSE k \in K : \A j \in K : k <= j

RookReach(b, sq, d) ==
    {sq + k * d : k \in 1..Nearest(Blockers(b, sq, d), Steps(sq, d))}
CannonReach(b, sq, d) ==
    LET B == Blockers(b, sq, d)
        screen == Nearest(B, Steps(sq, d) + 1)
        target == Nearest(B \ {screen}, 0)
    IN  {sq + k * d : k \in 1..(screen - 1)} \cup (IF target = 0 THEN {} ELSE {sq + target * d})

(* Mutant: the leg of a knight is not looked at.                           *)
KnightReachFree(b, sq) == UNION {{sq + e : e \in KnightDelta[d]} : d \in KingDelta}

KnightReach(b, sq) ==
    UNION {{sq + e : e \in KnightDelta[d]} : d \in {k \in KingDelta : ~Occupied(b, sq + k)}}

(* The squares GenerateMoves tries, by the kind of piece.                  *)
Reach(b, sq, sd) ==
    LET kind == Kind(b[sq])
    IN  CASE kind = King    -> {t \in {sq + d : d \in KingDelta} : InFort(t)}
          [] kind = Advisor -> {t \in {sq + d : d \in AdvisorDelta} : InFort(t)}
          [] kind = Bishop  -> {sq + 2 * d : d \in {e \in AdvisorDelta :
                                    /\ InBoard(sq + e) /\ HomeHalf(sq + e, sd)
                                    /\ ~Occupied(b, sq + e)}}
          [] kind = Knight  -> {t \in KnightReach(b, sq) : InBoard(t)}
          [] kind = Rook    -> UNION {RookReach(b, sq, d) : d \in KingDelta}
          [] kind = Cannon  -> UNION {CannonReach(b, sq, d) : d \in KingDelta}
          [] kind = Pawn    -> {t \in {SquareForward(sq, sd)}
                                      \cup (IF AwayHalf(sq, sd) THEN {sq - 1, sq + 1} ELSE {}) :
                                    InBoard(t)}

GenerateMoves(p, capture) ==
    LET b == p.squares
    IN  UNION {{<<sq, t>> : t \in {u \in Reach(b, sq, p.sd) :
                    IF capture THEN Owned(b, u, 1 - p.sd) ELSE ~Owned(b, u, p.sd)}} :
               sq \in {s \in DOMAIN b : Side(b[s]) = p.sd}}

(* LegalMove: the squares between two of one rank or file, from the first. *)
SameRank(a, c) == RankY(a) = RankY(c)
SameFile(a, c) == FileX(a) = FileX(c)
Between(a, c) ==
    LET d == (IF SameRank(a, c) THEN 1 ELSE 16) * (IF c < a THEN -1 ELSE 1)
    IN  {a + k * d : k \in 1..((c - a) \div d - 1)}

LegalMove(p, mv) ==
    LET b == p.squares
        from == mv[1]
        to == mv[2]
        kind == Kind(b[from])
        screens == Cardinality(Between(from, to) \cap DOMAIN b)
    IN  /\ Owned(b, from, p.sd) /\ ~Owned(b, to, p.sd)
        /\ CASE kind = King    -> InFort(to) /\ KingSpan(from, to)
             [] kind = Advisor -> InFort(to) /\ AdvisorSpan(from, to)
             [] kind = Bishop  -> /\ SameHalf(from, to) /\ BishopSpan(from, to)
                                  /\ ~Occupied(b, BishopPin(from, to))
             [] kind = Knight  -> LET pin == KnightPin(from, to)
                                  IN  pin # from /\ ~Occupied(b, pin)
             [] kind = Rook    -> (SameRank(from, to) \/ SameFile(from, to)) /\ screens = 0
             [] kind = Cannon  -> /\ SameRank(from, to) \/ SameFile(from, to)
                                  /\ screens = (IF Occupied(b, to) THEN 1 ELSE 0)
             [] kind = Pawn    -> \/ AwayHalf(to, p.sd) /\ to \in {from - 1, from + 1}
                                  \/ to = SquareForward(from, p.sd)

(* Checked: is the king of the side to move attacked, looked at from him?  *)
Checked(p) ==
    LET b == p.squares
        opp == 1 - p.sd
        Is(sq, kind) == At(b, sq) = Piece(opp, kind)
    IN  \E sq \in DOMAIN b :
          /\ b[sq] = Piece(p.sd, King)
          /\ \/ \E t \in {SquareForward(sq, p.sd), sq - 1, sq + 1} : Is(t, Pawn)
             \/ \E d \in AdvisorDelta : /\ ~Occupied(b, sq + d)
                                        /\ \E e \in KnightCheckDelta[d] : Is(sq + e, Knight)
             \/ \E d \in KingDelta :
                  LET B == Blockers(b, sq, d)
                      first == Nearest(B, 0)
                      second == Nearest(B \ {first}, 0)
                  IN  \/ first # 0 /\ (Is(sq + first * d, Rook) \/ Is(sq + first * d, King))
                      \/ second # 0 /\ Is(sq + second * d, Cannon)

-----------------------------------------------------------------------------
(* Moves, and the list of moves made.                                      *)
Entry(mv, captured, check, key) ==
    [mv |-> mv, captured |-> captured, check |-> check, key |-> key]
Last(p) == p.list[Len(p.list)]
InCheck(p) == Last(p).check

SetIrrev(p) == [p EXCEPT !.list = <<Entry(NoMove, 0, Checked(p), p.zobr)>>]

(* MakeMove; a move that leaves the own king attacked is taken back.       *)
MakeMove(p, mv) ==
    LET captured == At(p.squares, mv[2])
        moved == MovePiece(p, mv)
    IN  IF Checked(moved) THEN [made |-> FALSE, pos |-> UndoMovePiece(moved, mv, captured)]
        ELSE LET after == ChangeSide(moved)
             IN  [made |-> TRUE,
                  pos |-> [after EXCEPT !.distance = @ + 1,
                              !.list = Append(@, Entry(mv, captured, Checked(after), p.zobr))]]

Shortened(p) == [p EXCEPT !.distance = @ - 1, !.list = SubSeq(@, 1, Len(@) - 1)]

UndoMakeMove(p) == UndoMovePiece(ChangeSide(Shortened(p)), Last(p).mv, Last(p).captured)

NullMove(p) ==
    [ChangeSide(p) EXCEPT !.distance = @ + 1, !.list = Append(@, Entry(NoMove, 0, FALSE, p.zobr))]
UndoNullMove(p) == ChangeSide(Shortened(p))

(* Startup, then the side of the FEN: init_game.                           *)
Startup(b) == SetIrrev(Placed(EmptyPosition, b))
InitGame(b, sd) == IF sd = 1 THEN ChangeSide(Startup(b)) ELSE Startup(b)

Mirror(p) ==
    LET M == [sq \in {MirrorSquare(s) : s \in DOMAIN p.squares} |-> p.squares[MirrorSquare(sq)]]
        placed == Placed(EmptyPosition, M)
    IN  SetIrrev(IF p.sd = 1 THEN ChangeSide(placed) ELSE placed)

-----------------------------------------------------------------------------
(* Values, and repetitions.                                                *)
LimitDepth == 64
MateValue == 10000
BanValue == MateValue - 100
WinValue == MateValue - 200
DrawScore == 20
AdvancedValue == 3
NullMargin == 400
NullDepth == 2

Evaluate(p) == p.vl[p.sd + 1] - p.vl[2 - p.sd] + AdvancedValue
NullOkay(p) == p.vl[p.sd + 1] > NullMargin
DrawValue(p) == IF p.distance % 2 = 0 THEN -DrawScore ELSE DrawScore

(* RepStatus: back to the last capture or null move, the recur-th time the *)
(* key was the same with the same side to move, and whether one of the     *)
(* sides has given check with every move since.                            *)
NotRepeated == [again |-> FALSE, self |-> FALSE, opp |-> FALSE]
RepStatus(p, recur) ==
    LET n == Len(p.list)
        L == p.list
        Quiet(k) == \A j \in k..n : L[j].mv # NoMove /\ L[j].captured = 0
        Same == {k \in 1..(n - 1) : (n - k) % 2 = 1 /\ L[k].key = p.zobr /\ Quiet(k)}
        Checks(k, parity) == \A j \in k..n : (n - j) % 2 = parity => L[j].check
    IN  IF Cardinality(Same) < recur THEN NotRepeated
        ELSE LET k == CHOOSE i \in Same : Cardinality({j \in Same : j >= i}) = recur
             IN  [again |-> TRUE, self |-> Checks(k, 1), opp |-> Checks(k, 0)]
RepValue(p, rep) ==
    LET vl == (IF rep.self THEN p.distance - BanValue ELSE 0)
                + (IF rep.opp THEN BanValue - p.distance ELSE 0)
    IN  IF vl = 0 THEN DrawValue(p) ELSE vl

-----------------------------------------------------------------------------
(* The tables of a search: history, killers, hash.                         *)
Cleared(mv) == [result |-> mv, history |-> <<>>, killers |-> <<>>, hash |-> <<>>]
History(t, mv) == IF mv \in DOMAIN t.history THEN t.history[mv] ELSE 0
Killers(t, dist) == IF dist \in DOMAIN t.killers THEN t.killers[dist] ELSE <<NoMove, NoMove>>

(* ProbeHash: -MateValue when the entry is of no use.                      *)
ProbeHash(p, alpha, beta, depth, t) ==
    IF p.zobr \notin DOMAIN t.hash THEN [vl |-> -MateValue, mv |-> NoMove]
    ELSE LET h == t.hash[p.zobr]
             mate == h.vl > WinValue \/ h.vl < -WinValue
             vl == IF h.vl > WinValue THEN h.vl - p.distance
                   ELSE IF h.vl < -WinValue THEN h.vl + p.distance ELSE h.vl
             unstable == mate /\ h.vl > -BanValue /\ h.vl < BanValue
             usable == /\ ~unstable /\ (h.depth >= depth \/ mate)
                       /\ h.flag = "beta" => vl >= beta
                       /\ h.flag = "alpha" => vl <= alpha
         IN  [vl |-> IF usable THEN vl ELSE -MateValue, mv |-> h.mv]

RecordHash(p, flag, vl, depth, mv, t) ==
    LET deeper == p.zobr \in DOMAIN t.hash /\ t.hash[p.zobr].depth > depth
        unstable == /\ mv = NoMove
                    /\ \/ vl > WinValue /\ vl <= BanValue
                       \/ vl < -WinValue /\ vl >= -BanValue
        stored == IF vl > WinValue THEN vl + p.distance
                  ELSE IF vl < -WinValue THEN vl - p.distance ELSE vl
    IN  IF deeper \/ unstable THEN t
        ELSE [t EXCEPT !.hash = (p.zobr :> [depth |-> depth, flag |-> flag,
                                            vl |-> stored, mv |-> mv]) @@ @]

SetBestMove(p, mv, depth, t) ==
    LET k == Killers(t, p.distance)
    IN  [t EXCEPT !.history = (mv :> History(t, mv) + depth * depth) @@ @,
                  !.killers = IF k[1] = mv THEN @
                              ELSE (p.distance :> <<mv, k[1]>>) @@ @]

(* The order of moves: by a rank; qsort leaves the order of equals open.   *)
Best(M, rank) == CHOOSE m \in M : \A n \in M : rank[m] >= rank[n]
Worth == <<5, 1, 1, 3, 4, 3, 2>>
MvvLva(p, mv) ==
    8 * (IF Occupied(p.squares, mv[2]) THEN Worth[Kind(p.squares[mv[2]]) + 1] ELSE 0)
      - Worth[Kind(p.squares[mv[1]]) + 1]

(* SortStruct: the moves tried before any is generated.                    *)
FirstMoves(p, mvHash, t) ==
    LET k == Killers(t, p.distance)
        Useful(m) == m # mvHash /\ m # NoMove /\ LegalMove(p, m)
    IN  (IF mvHash = NoMove THEN <<>> ELSE <<mvHash>>) \o SelectSeq(k, Useful)
LaterMoves(p, mvHash, t) ==
    GenerateMoves(p, FALSE) \ {mvHash, Killers(t, p.distance)[1], Killers(t, p.distance)[2]}

-----------------------------------------------------------------------------
(* SearchQuiesc: captures, and all moves when in check.                    *)
RECURSIVE SearchQuiesc(_, _, _, _)
RECURSIVE TryQuiesc(_, _, _, _, _, _)

QuiescReply(m, alpha, beta, best, t) ==
    IF m.made THEN -SearchQuiesc(m.pos, -beta, -alpha, t) ELSE best
QuiescNext(p, M, alpha, beta, best, t, vl) ==
    IF vl > best /\ vl >= beta THEN vl
    ELSE TryQuiesc(p, M, IF vl > best /\ vl > alpha THEN vl ELSE alpha, beta,
                   IF vl > best THEN vl ELSE best, t)
TryQuiesc(p, M, alpha, beta, best, t) ==
    LET mv == Best(M, [m \in M |-> IF InCheck(p) THEN History(t, m) ELSE MvvLva(p, m)])
    IN  IF M = {} THEN best
        ELSE QuiescNext(p, M \ {mv}, alpha, beta, best, t,
                        QuiescReply(MakeMove(p, mv), alpha, beta, best, t))

Mated(p, best) == IF best = -MateValue THEN p.distance - MateValue ELSE best
SearchQuiesc(p, alpha, beta, t) ==
    LET rep == RepStatus(p, 1)
        vl == Evaluate(p)
        quiet == ~InCheck(p)
    IN  IF rep.again THEN RepValue(p, rep)
        ELSE IF p.distance = LimitDepth \/ (quiet /\ vl >= beta) THEN vl
        ELSE Mated(p, TryQuiesc(p, GenerateMoves(p, quiet), IF quiet /\ vl > alpha THEN vl ELSE alpha,
                                beta, IF quiet THEN vl ELSE -MateValue, t))

(* SearchFull and SearchRoot return a value and the tables.  A search is   *)
(* handed as a parameter to what is done with its answer.                  *)
RECURSIVE SearchFull(_, _, _, _, _, _)
RECURSIVE TryMoves(_, _, _, _)

Answer(vl, t) == [vl |-> vl, t |-> t]
(* Mutant: the value is taken for that of the other side.                  *)
Unnegated(r) == r
Negated(r) == Answer(-r.vl, r.t)

(* The moves of a node still to be tried, and the next one: those generated *)
(* are ordered by the history as it was when they were.                    *)
Untried(p, mvHash, t) ==
    [first |-> FirstMoves(p, mvHash, t), later |-> LaterMoves(p, mvHash, t),
     sorted |-> FALSE, history |-> <<>>]
Picked(o, t) ==
    LET h == IF o.sorted THEN o.history ELSE t.history
        mv == Best(o.later, [m \in o.later |-> IF m \in DOMAIN h THEN h[m] ELSE 0])
    IN  IF o.first # <<>> THEN [mv |-> Head(o.first), rest |-> [o EXCEPT !.first = Tail(@)]]
        ELSE [mv |-> mv, rest |-> [o EXCEPT !.later = @ \ {mv}, !.sorted = TRUE, !.history = h]]

(* One move of the loop: s holds the window, the best so far, the tables.  *)
Deeper(p, depth) == IF InCheck(p) THEN depth ELSE depth - 1
Weighed(mv, s, r) ==
    IF r.vl <= s.best THEN [s EXCEPT !.t = r.t]
    ELSE IF r.vl >= s.beta
         THEN [s EXCEPT !.t = r.t, !.best = r.vl, !.mv = mv, !.flag = "beta"]
    ELSE IF r.vl > s.alpha
         THEN [s EXCEPT !.t = r.t, !.best = r.vl, !.mv = mv, !.flag = "pv", !.alpha = r.vl]
    ELSE [s EXCEPT !.t = r.t, !.best = r.vl]
Widened(p, d, s, r) ==
    IF s.best # -MateValue /\ r.vl > s.alpha /\ r.vl < s.beta
    THEN Negated(SearchFull(p, -s.beta, -s.alpha, d, FALSE, r.t)) ELSE r
Tried(m, mv, depth, s) ==
    LET d == Deeper(m.pos, depth)
        low == IF s.best = -MateValue THEN -s.beta ELSE -s.alpha - 1
    IN  IF ~m.made THEN s
        ELSE Weighed(mv, s, Widened(m.pos, d, s, Negated(SearchFull(m.pos, low, -s.alpha, d, FALSE, s.t))))

TryPicked(p, next, depth, s) ==
    TryMoves(p, next.rest, depth, Tried(MakeMove(p, next.mv), next.mv, depth, s))
TryMoves(p, o, depth, s) ==
    IF s.flag = "beta" \/ (o.first = <<>> /\ o.later = {}) THEN s
    ELSE TryPicked(p, Picked(o, s.t), depth, s)

Concluded(p, depth, s) ==
    LET recorded == RecordHash(p, s.flag, s.best, depth, s.mv, s.t)
    IN  IF s.best = -MateValue THEN Answer(p.distance - MateValue, s.t)
        ELSE Answer(s.best, IF s.mv = NoMove THEN recorded ELSE SetBestMove(p, s.mv, depth, recorded))
AfterNull(p, alpha, beta, depth, mvHash, null) ==
    IF null.vl >= beta THEN null
    ELSE Concluded(p, depth,
                   TryMoves(p, Untried(p, mvHash, null.t), depth,
                            [alpha |-> alpha, beta |-> beta, best |-> -MateValue, mv |-> NoMove,
                             flag |-> "alpha", t |-> null.t]))
SearchFull(p, alpha, beta, depth, noNull, t) ==
    LET rep == RepStatus(p, 1)
        probe == ProbeHash(p, alpha, beta, depth, t)
    IN  IF depth <= 0 THEN Answer(SearchQuiesc(p, alpha, beta, t), t)
        ELSE IF rep.again THEN Answer(RepValue(p, rep), t)
        ELSE IF p.distance = LimitDepth THEN Answer(Evaluate(p), t)
        ELSE IF probe.vl > -MateValue THEN Answer(probe.vl, t)
        ELSE AfterNull(p, alpha, beta, depth, probe.mv,
                       IF ~noNull /\ ~InCheck(p) /\ NullOkay(p)
                       THEN Negated(SearchFull(NullMove(p), -beta, 1 - beta, depth - NullDepth - 1, TRUE, t))
                       ELSE Answer(beta - 1, t))

-----------------------------------------------------------------------------
(* SearchRoot: a better move gets noise, the difference of two draws of    *)
(* rand() & RANDOM_MASK, unless it decides the game.                       *)
RECURSIVE TryRoot(_, _, _, _, _)
WeighedAtRoot(mv, noise, s, r) ==
    IF r.vl <= s.best THEN [s EXCEPT !.t = r.t]
    ELSE [best |-> IF r.vl > -WinValue /\ r.vl < WinValue THEN r.vl + noise ELSE r.vl,
          t |-> [r.t EXCEPT !.result = mv]]
WidenedAtRoot(p, d, s, r) ==
    IF s.best # -MateValue /\ r.vl > s.best
    THEN Negated(SearchFull(p, -MateValue, -s.best, d, TRUE, r.t)) ELSE r
TriedAtRoot(m, mv, depth, noise, s) ==
    LET d == Deeper(m.pos, depth)
        first == s.best = -MateValue
        low == IF first THEN s.best ELSE -s.best - 1
    IN  IF ~m.made THEN s
        ELSE WeighedAtRoot(mv, noise, s,
                 WidenedAtRoot(m.pos, d, s, Negated(SearchFull(m.pos, low, -s.best, d, first, s.t))))

TryPickedAtRoot(p, next, depth, noise, s) ==
    TryRoot(p, next.rest, depth, noise, TriedAtRoot(MakeMove(p, next.mv), next.mv, depth, noise, s))
TryRoot(p, o, depth, noise, s) ==
    IF o.first = <<>> /\ o.later = {} THEN s
    ELSE TryPickedAtRoot(p, Picked(o, s.t), depth, noise, s)

ConcludedAtRoot(p, depth, s) ==
    Answer(s.best, SetBestMove(p, s.t.result, depth,
                               RecordHash(p, "pv", s.best, depth, s.t.result, s.t)))
SearchRoot(p, depth, noise, t) ==
    ConcludedAtRoot(p, depth, TryRoot(p, Untried(p, t.result, t), depth, noise,
                                      [best |-> -MateValue, t |-> t]))

(* SearchBook: the moves of the position, or the mirrored moves of its     *)
(* mirror image, those that are legal and have a weight.                   *)
MirrorMove(mv) == <<MirrorSquare(mv[1]), MirrorSquare(mv[2])>>
BookMoves(p) ==
    LET Of(key) == {e \in Book : e.lock = key}
        mirrored == Of(p.zobr) = {}
        moves == IF mirrored
                 THEN {[mv |-> MirrorMove(e.mv), vl |-> e.vl] : e \in Of(Mirror(p).zobr)}
                 ELSE {[mv |-> e.mv, vl |-> e.vl] : e \in Of(p.zobr)}
    IN  {e.mv : e \in {x \in moves : x.vl > 0 /\ LegalMove(p, x.mv)}}

(* SearchMain: a book move that does not repeat the position a third time, *)
(* the only move, or the best of the last depth that was finished in time. *)
RECURSIVE Deepened(_, _, _, _, _)
FinishedOrDeeper(p, depth, last, noise, r) ==
    IF depth = last \/ r.vl > WinValue \/ r.vl < -WinValue THEN r.t.result
    ELSE Deepened(p, depth + 1, last, noise, r.t)
Deepened(p, depth, last, noise, t) ==
    FinishedOrDeeper(p, depth, last, noise, SearchRoot(p, depth, noise, t))

Playable(p) == {mv \in GenerateMoves(p, FALSE) : MakeMove(p, mv).made}

BookAnswers(p) == {mv \in BookMoves(p) : ~RepStatus(MakeMove(p, mv).pos, 3).again}

SearchMain(p, last, noise) ==
    LET M == Playable(p)
        some == CHOOSE mv \in M : TRUE
    IN  IF Cardinality(M) = 1 THEN some ELSE Deepened(p, 1, last, noise, Cleared(some))

-----------------------------------------------------------------------------
(* The engine.                                                             *)
VARIABLES
    pos,            \* pos
    mvResult        \* Search.mvResult

vars == <<pos, mvResult>>

Start(b, sd) == pos = InitGame(b, sd) /\ mvResult = NoMove

(* on_human_move: a move the position does not allow is passed over.       *)
OnHumanMove(mv) ==
    /\ mvResult' = mv
    /\ pos' = MakeMove(pos, mv).pos

(* SearchMain starts with pos.nDistance = 0; depth is that of the last     *)
(* search finished in time, s_search_depth at most.                        *)
Answers(depth) ==
    LET p == [pos EXCEPT !.distance = 0]
    IN  IF BookAnswers(p) # {} THEN BookAnswers(p)
        ELSE {SearchMain(p, depth, noise) : noise \in Noises}

(* generate_move; not asked for when the game is over.                     *)
GenerateMove(depth) ==
    /\ Playable(pos) # {}
    /\ mvResult' \in Answers(depth)
    /\ pos' = MakeMove([pos EXCEPT !.distance = 0], mvResult').pos

-----------------------------------------------------------------------------
(* Correctness.                                                            *)

(* The values and the key, changed with every piece put on or taken off    *)
(* the board, are those of the board; each entry of the history knows      *)
(* whether its move gave check; taking a move back leaves no trace.        *)
BooksAgree(p) ==
    LET fresh == Placed(EmptyPosition, p.squares)
    IN  /\ p.vl = fresh.vl
        /\ p.zobr = Xor(fresh.zobr, IF p.sd = 1 THEN {PlayerKey} ELSE {})
        /\ Len(p.list) > 1 => InCheck(p) = Checked(p)
        /\ UndoNullMove(NullMove(p)) = p
        /\ \A mv \in GenerateMoves(p, FALSE) :
             LET m == MakeMove(p, mv)
             IN  IF m.made THEN UndoMakeMove(m.pos) = p ELSE m.pos = p

(* LegalMove, which lets killers and book moves through, admits the moves  *)
(* that GenerateMoves finds and no others; captures are those that take.   *)
(* The mirrored position has the mirrored moves, and the same value.       *)
MovesAgree(p) ==
    LET M == GenerateMoves(p, FALSE)
        mirror == Mirror(p)
    IN  /\ M = {mv \in (DOMAIN p.squares) \X {sq \in 0..255 : InBoard(sq)} : LegalMove(p, mv)}
        /\ GenerateMoves(p, TRUE) = {mv \in M : Occupied(p.squares, mv[2])}
        /\ GenerateMoves(mirror, FALSE) = {MirrorMove(mv) : mv \in M}
        /\ Evaluate(mirror) = Evaluate(p) /\ Checked(mirror) = Checked(p)
=============================================================================
