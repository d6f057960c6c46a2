------------------------------ MODULE HoxFolium ------------------------------
(***************************************************************************)
(* The engine plugins/AI_Folium as the plugin sets it up: a board with its *)
(* inverse and a bitmap of its ranks and files (XQ, Bitmap), the values,   *)
(* keys and checks of each ply (folEngine), a search deepened by checks    *)
(* and cut by null moves, with killers, a history and a hash table of two  *)
(* searches (folSearch, hash), and a choice among the best moves.          *)
(*                                                                         *)
(* A square is x + 9 y, y = 0 being Red's side; a piece is its index 0..31 *)
(* (the king, two each of advisors, bishops, rooks, knights and cannons,   *)
(* five pawns, Black's from 16 on); a board is the function of its         *)
(* occupied squares; a move is a pair of squares.  A hash key is the set   *)
(* of what is exclusive-ored into it; m_keys and m_locks are one.          *)
(***************************************************************************)
EXTENDS HoxPieceSquares, FiniteSets, SequencesExt, TLC

Red == 0
Black == 1
EmptyIndex == 32
InvaildSquare == 90
NoMove == <<0, 0>>

Kinds == <<"K", "A", "A", "B", "B", "R", "R", "N", "N", "C", "C", "P", "P", "P", "P", "P">>
Kind(piece) == Kinds[(piece % 16) + 1]
Color(piece) == piece \div 16
KingIndex(color) == 16 * color
SimpleValues == [K |-> 5, A |-> 1, B |-> 1, R |-> 4, N |-> 3, C |-> 3, P |-> 2]

-----------------------------------------------------------------------------
(* Squares and the tables of xq_data.                                      *)
X(sq) == sq % 9
Y(sq) == sq \div 9
Rank(color, sq) == IF color = Red THEN Y(sq) ELSE 9 - Y(sq)
Moved(sq, d) ==
    IF X(sq) + d[1] \in 0..8 /\ Y(sq) + d[2] \in 0..9 THEN sq + d[1] + 9 * d[2] ELSE InvaildSquare

(* Left, right, down, up: the squares of a line from sq.                   *)
Lines == 1..4
Line == [sq \in 0..89, i \in Lines |->
            LET step == <<-1, 1, -9, 9>>[i]
                n == <<X(sq), 8 - X(sq), Y(sq), 9 - Y(sq)>>[i]
            IN  [k \in 1..n |-> sq + k * step]]

Offsets == [K |-> <<<<0, -1>>, <<0, 1>>, <<-1, 0>>, <<1, 0>>>>,
            P |-> <<<<0, -1>>, <<0, 1>>, <<-1, 0>>, <<1, 0>>>>,
            A |-> <<<<-1, -1>>, <<1, -1>>, <<-1, 1>>, <<1, 1>>>>,
            B |-> <<<<2, -2>>, <<-2, -2>>, <<2, 2>>, <<-2, 2>>>>,
            N |-> <<<<-1, -2>>, <<1, -2>>, <<-1, 2>>, <<1, 2>>, <<-2, -1>>, <<-2, 1>>, <<2, -1>>, <<2, 1>>>>]
StepAllowed(color, kind, from, to) ==
    CASE kind \in {"K", "A"} -> X(to) \in 3..5 /\ Rank(color, to) <= 2
      [] kind = "B" -> Rank(color, to) <= 4
      [] kind = "N" -> TRUE
      [] kind = "P" -> \/ Rank(color, to) = Rank(color, from) + 1
                       \/ Rank(color, to) = Rank(color, from) /\ Rank(color, from) >= 5
(* The squares a piece steps to, in the order of g_red_king_pawn_moves,    *)
(* g_black_king_pawn_moves, g_advisor_bishop_moves and g_kinght_moves.     *)
Steps == [color \in {Red, Black}, kind \in DOMAIN Offsets, from \in 0..89 |->
             LET to == [k \in 1..Len(Offsets[kind]) |-> Moved(from, Offsets[kind][k])]
             IN  SelectSeq(to, LAMBDA sq : sq # InvaildSquare /\ StepAllowed(color, kind, from, sq))]

KnightLeg(src, dst) ==
    LET dx == X(dst) - X(src)
        dy == Y(dst) - Y(src)
    IN  CASE src = InvaildSquare -> InvaildSquare
          [] dx \in {-2, 2} /\ dy \in {-1, 1} -> src + (dx \div 2)
          [] dx \in {-1, 1} /\ dy \in {-2, 2} -> src + 9 * (dy \div 2)
          [] OTHER -> InvaildSquare

(* The values of Red's pieces are those of XQWLight, moved a little, but   *)
(* the pawns'; Black's are their opposites, the board turned round.        *)
PawnValues == <<<<7, 0, 7, 0, 15>>, <<12, 0, 13, 0, 16>>, <<19, 27, 31, 44, 49>>, <<29, 36, 39, 49, 51>>,
                <<29, 39, 54, 64, 64>>, <<29, 39, 59, 74, 79>>, <<9, 9, 9, 11, 13>>>>
RedValue(kind, sq) ==
    LET Shared(k) == SquareValue(k, 9 - Y(sq), X(sq))
    IN  CASE kind = "K" -> 4990 + Shared(0)
          [] kind = "A" -> 20 + Shared(1)
          [] kind = "B" -> 20 + Shared(2)
          [] kind = "N" -> Shared(3)
          [] kind = "R" -> IF sq \in {9, 17} THEN 205 ELSE Shared(4)
          [] kind = "C" -> Shared(5)
          [] kind = "P" -> IF sq = 60 THEN 44
                           ELSE PawnValues[Y(sq) - 2][1 + IF X(sq) <= 4 THEN X(sq) ELSE 8 - X(sq)]
PieceValue(piece, sq) ==
    IF Color(piece) = Red THEN RedValue(Kind(piece), sq) ELSE -RedValue(Kind(piece), 89 - sq)

-----------------------------------------------------------------------------
(* XQ and Bitmap: squares, pieces (their inverse), bits, player.           *)
Xor(a, b) == (a \ b) \cup (b \ a)

Square(q, sq) == IF sq \in DOMAIN q.squares THEN q.squares[sq] ELSE EmptyIndex
Piece(q, i) == IF i \in DOMAIN q.pieces THEN q.pieces[i] ELSE InvaildSquare
Is(q, sq, color, kinds) ==
    sq \in DOMAIN q.squares /\ Color(q.squares[sq]) = color /\ Kind(q.squares[sq]) \in kinds

Hits(q, sq, i) == SelectSeq(Line[sq, i], LAMBDA s : s \in q.bits)
(* nonempty_left_1, nonempty_left_2, ...                                   *)
Nonempty(q, sq, i, n) == LET hits == Hits(q, sq, i) IN IF Len(hits) >= n THEN hits[n] ELSE InvaildSquare

(* How many pieces are between two squares of a line; more than any number *)
(* of them if there is none.                                               *)
Distance(q, src, dst) ==
    LET low == IF src < dst THEN src ELSE dst
        high == src + dst - low
        between == IF Y(low) = Y(high) THEN (low + 1)..(high - 1)
                   ELSE {low + 9 * k : k \in 1..(Y(high) - Y(low) - 1)}
    IN  IF src = dst \/ (X(src) # X(dst) /\ Y(src) # Y(dst)) THEN 10
        ELSE Cardinality(between \cap q.bits)

Blocked(q, kind, src, dst) ==
    \/ kind = "B" /\ (src + dst) \div 2 \in DOMAIN q.squares
    \/ kind = "N" /\ KnightLeg(src, dst) \in DOMAIN q.squares
StepsTo(q, piece, src, dst) ==
    /\ \E k \in DOMAIN Steps[Color(piece), Kind(piece), src] : Steps[Color(piece), Kind(piece), src][k] = dst
    /\ ~Blocked(q, Kind(piece), src, dst)

IsLegalMove(q, m) ==
    LET piece == q.squares[m[1]]
        distance == Distance(q, m[1], m[2])
    IN  /\ m[1] \in DOMAIN q.squares
        /\ m[2] \in DOMAIN q.squares => Color(q.squares[m[2]]) # Color(piece)
        /\ CASE Kind(piece) = "R" -> distance = 0
             [] Kind(piece) = "C" -> distance + (IF m[2] \in DOMAIN q.squares THEN 0 ELSE 1) = 1
             [] Kind(piece) = "K" -> \/ StepsTo(q, piece, m[1], m[2])
                                     \/ Is(q, m[2], 1 - Color(piece), {"K"}) /\ distance = 0
             [] OTHER -> StepsTo(q, piece, m[1], m[2])

PlayerInCheck(q, player) ==
    LET kp == Piece(q, KingIndex(player))
        opp == 1 - player
        ahead == IF player = Red THEN <<0, 1>> ELSE <<0, -1>>
        Leg(i) == KnightLeg(Piece(q, KingIndex(opp) + i), kp)
    IN  \/ \E d \in {ahead, <<-1, 0>>, <<1, 0>>} : Is(q, Moved(kp, d), opp, {"P"})
        \/ \E i \in Lines : \/ Is(q, Nonempty(q, kp, i, 1), opp, {"R", "K"})
                            \/ Is(q, Nonempty(q, kp, i, 2), opp, {"C"})
        \/ \E i \in {7, 8} : Leg(i) \notin DOMAIN q.squares \cup {InvaildSquare}

(* A capture is good if the piece taken is worth more or nothing, as far   *)
(* as one looks, guards it.                                                *)
Guards(q, piece, m) ==
    LET src == q.pieces[piece]
        distance == Distance(q, src, m[2])
        aside == Distance(q, src, m[1])
    IN  CASE Kind(piece) = "R" -> distance = 0 \/ (distance = 1 /\ aside = 0)
          [] Kind(piece) = "C" -> (distance = 1 /\ aside # 0) \/ (distance = 2 /\ aside < 2)
          [] OTHER -> StepsTo(q, piece, src, m[2])
IsGoodCap(q, m) ==
    /\ m[2] \in DOMAIN q.squares
    /\ \/ SimpleValues[Kind(q.squares[m[1]])] < SimpleValues[Kind(q.squares[m[2]])]
       \/ \A piece \in DOMAIN q.pieces : Color(piece) # q.player => ~Guards(q, piece, m)

(* The two halves of do_move, which takes a move back that leaves the king *)
(* in check.                                                               *)
Change(q, m) ==
    LET piece == q.squares[m[1]]
        captured == Square(q, m[2])
    IN  [q EXCEPT !.bits = Xor(@, {m[1]}) \cup {m[2]},
                  !.squares = (m[2] :> piece) @@ [sq \in DOMAIN @ \ {m[1]} |-> @[sq]],
                  !.pieces = (piece :> m[2]) @@ [i \in DOMAIN @ \ {captured} |-> @[i]],
                  !.player = 1 - @]
UndoMove(q, m, captured) ==
    LET piece == q.squares[m[2]]
    IN  [q EXCEPT !.bits = Xor(Xor(@, IF captured = EmptyIndex THEN {m[2]} ELSE {}), {m[1]}),
                  !.squares = [sq \in (DOMAIN @ \ (IF captured = EmptyIndex THEN {m[2]} ELSE {})) \cup {m[1]} |->
                                  IF sq = m[1] THEN piece ELSE IF sq = m[2] THEN captured ELSE @[sq]],
                  !.pieces = (piece :> m[1])
                               @@ (IF captured = EmptyIndex THEN @ ELSE (captured :> m[2]) @@ @),
                  !.player = 1 - @]

-----------------------------------------------------------------------------
(* The moves of a piece: "all" of them in the order of the search, "root"  *)
(* in that of the root, or the "captures".                                 *)
Taken(q, src, i, n) ==
    LET sq == Nonempty(q, src, i, n)
    IN  IF sq # InvaildSquare /\ Color(q.squares[sq]) # q.player THEN <<sq>> ELSE <<>>
Unoccupied(q, src, i) ==
    LET sq == Nonempty(q, src, i, 1)
    IN  SelectSeq(Line[src, i],
                  LAMBDA s : sq = InvaildSquare \/ (i \in {1, 3} /\ s > sq) \/ (i \in {2, 4} /\ s < sq))
Destinations(q, piece, of) ==
    LET src == q.pieces[piece]
        kind == Kind(piece)
        taken == [i \in Lines |-> Taken(q, src, i, IF kind = "R" THEN 1 ELSE 2)]
        free == [i \in Lines |-> Unoccupied(q, src, i)]
        Open(sq) == /\ IF sq \in DOMAIN q.squares THEN Color(q.squares[sq]) # q.player ELSE of # "captures"
                    /\ ~Blocked(q, kind, src, sq)
    IN  IF kind \notin {"R", "C"} THEN SelectSeq(Steps[Color(piece), kind, src], Open)
        ELSE CASE of = "captures" -> FlattenSeq(taken)
               [] of = "root" -> FlattenSeq(taken \o free)
               [] of = "all" -> FlattenSeq([i \in Lines |-> taken[i] \o free[i]])

GenerateMoves(q, of) ==
    LET order == <<0, 11, 12, 13, 14, 15, 1, 2, 3, 4, 5, 6, 7, 8, 9, 10>>
        own == SelectSeq([k \in 1..16 |-> KingIndex(q.player) + order[k]], LAMBDA i : i \in DOMAIN q.pieces)
        From(piece) == LET to == Destinations(q, piece, of)
                       IN  [k \in 1..Len(to) |-> <<q.pieces[piece], to[k]>>]
    IN  FlattenSeq([k \in 1..Len(own) |-> From(own[k])])

-----------------------------------------------------------------------------
(* folEngine: the position and, of each ply of the game, the key, value,   *)
(* check and move, the position before the first ply being entry 1;        *)
(* null and start are set where a search starts.                           *)
INVAILDVALUE == 2000
WINSCORE == 1000
MATEVALUE == 900
LIMIT_DEPTH == 64

Zobrist(piece, sq) == IF piece = EmptyIndex THEN {} ELSE {<<Color(piece), Kind(piece), sq>>}
Worth(piece, sq) == IF piece = EmptyIndex THEN 0 ELSE PieceValue(piece, sq)

Ply(p) == Len(p.trace) - 1
Now(p) == p.trace[Len(p.trace)]

Key(b) == UNION {Zobrist(b[sq], sq) : sq \in DOMAIN b}
Value(p) == (IF p.player = Red THEN Now(p).value ELSE -Now(p).value) + 4

Reset(b, player) ==
    LET q == [squares |-> b, player |-> player, bits |-> DOMAIN b,
              pieces |-> [i \in {b[sq] : sq \in DOMAIN b} |-> CHOOSE sq \in DOMAIN b : b[sq] = i],
              trace |-> <<>>, null |-> 0, start |-> 0]
        value == FoldSet(LAMBDA sq, sum : PieceValue(b[sq], sq) + sum, 0, DOMAIN b)
    IN  [q EXCEPT !.trace = <<[key |-> Key(b), value |-> value, check |-> PlayerInCheck(q, player),
                               move |-> NoMove]>>]

(* A move refused leaves everything as it is.                              *)
Traced(p, m, q) ==
    LET piece == p.squares[m[1]]
        captured == Square(p, m[2])
        key == Xor(Xor(Xor(Now(p).key, Zobrist(piece, m[1])), Zobrist(piece, m[2])), Zobrist(captured, m[2]))
        value == Now(p).value + Worth(piece, m[2]) - Worth(piece, m[1]) - Worth(captured, m[2])
    IN  IF PlayerInCheck(q, p.player) THEN p
        ELSE [q EXCEPT !.trace = Append(@, [key |-> key, value |-> value,
                                            check |-> PlayerInCheck(q, q.player), move |-> m])]
MakeMove(p, m) == Traced(p, m, Change(p, m))
Refused(p, q) == Len(p.trace) = Len(q.trace)

(* The trace of a null move keeps the ply of the one before, which is not  *)
(* read for a check: there is no move.                                     *)
DoNull(p) ==
    [p EXCEPT !.trace = Append(@, [Now(p) EXCEPT !.check = FALSE, !.move = NoMove]),
              !.null = Ply(p) + 1, !.player = 1 - @]

(* A position that was there four plies ago in this search: perpetual      *)
(* check loses.                                                            *)
LoopValue(p, ply) ==
    LET Check(k) == p.trace[Len(p.trace) - k].check
        mine == Check(1) /\ Check(3)
        his == Check(0) /\ Check(2)
        v == Value(p)
    IN  IF Ply(p) - p.null < 4 \/ Now(p).key # p.trace[Len(p.trace) - 4].key THEN INVAILDVALUE
        ELSE IF his = mine THEN IF v < 0 THEN -((-9 * v) \div 10) ELSE (9 * v) \div 10
        ELSE IF his THEN INVAILDVALUE - (ply - 1) ELSE (ply - 1) - INVAILDVALUE

-----------------------------------------------------------------------------
(* History, Killer, HashTable.                                             *)
Score(history, m) == IF m \in DOMAIN history THEN history[m] ELSE 0
UpdateHistory(history, m, depth) ==
    LET score == Score(history, m) + depth * depth
        updated == (m :> score) @@ history
    IN  IF score >= 131072 THEN [n \in DOMAIN updated |-> updated[n] \div 2] ELSE updated

(* Moves are sorted as numbers, by their scores, then by their squares.    *)
(* The scores of captures (g_capture_scores) are shifted a second time,    *)
(* which leaves one bit of them: whether no advisor takes or is taken.     *)
Coded(score, m) == score * 16384 + m[2] * 128 + m[1]
Decoded(code) == <<code % 128, (code \div 128) % 128>>
CaptureScore(q, m) == IF "A" \in {Kind(q.squares[m[1]]), Kind(q.squares[m[2]])} THEN 0 ELSE 1
Sorted(codes) ==
    LET sorted == SortSeq(codes, LAMBDA a, b : a > b) IN [k \in 1..Len(sorted) |-> Decoded(sorted[k])]
ByHistory(L, history) == Sorted([k \in 1..Len(L) |-> Coded(Score(history, L[k]), L[k])])
ByCapture(q, L) == Sorted([k \in 1..Len(L) |-> Coded(CaptureScore(q, L[k]), L[k])])

KillersAt(killers, ply) == IF ply \in DOMAIN killers THEN killers[ply] ELSE <<NoMove, NoMove>>
Push(killers, ply, m) ==
    LET k == KillersAt(killers, ply) IN IF m = k[1] THEN killers ELSE (ply :> <<m, k[1]>>) @@ killers

ALPHA == 1
BETA == 2
PV == 3
(* A record is of the search that stored it, fresh, and of the next one.   *)
Cleared(hash) == [k \in {k \in DOMAIN hash : hash[k].fresh} |-> [hash[k] EXCEPT !.fresh = FALSE]]
Slot(p) == <<p.player, Now(p).key>>
Recorded(p, hash) == Slot(p) \in DOMAIN hash /\ IsLegalMove(p, hash[Slot(p)].move)
Probed(r, depth, ply, alpha, beta) ==
    CASE r.score = INVAILDVALUE -> INVAILDVALUE
      [] r.score \in (MATEVALUE + 1)..(INVAILDVALUE - 1) -> r.score - ply
      [] r.score < -MATEVALUE -> r.score + ply
      [] OTHER -> IF /\ r.depth >= depth
                     /\ \/ r.flag = ALPHA /\ r.score <= alpha
                        \/ r.flag = BETA /\ r.score >= beta
                        \/ r.flag = PV
                  THEN r.score ELSE INVAILDVALUE

(* Scores of mates are kept as seen from the position.                     *)
Kept(flag, score, ply) ==
    CASE score > (IF flag = ALPHA THEN MATEVALUE ELSE WINSCORE) -> INVAILDVALUE
      [] score < (IF flag = BETA THEN -MATEVALUE ELSE -WINSCORE) -> INVAILDVALUE
      [] score \in (MATEVALUE + 1)..WINSCORE -> score + ply
      [] score \in (-WINSCORE)..(-MATEVALUE - 1) -> score - ply
      [] OTHER -> score
Store(p, hash, flag, depth, ply, score, m) ==
    LET deeper == Slot(p) \in DOMAIN hash /\ hash[Slot(p)].fresh /\ hash[Slot(p)].depth > depth
    IN  IF deeper THEN hash
        ELSE (Slot(p) :> [flag |-> flag, fresh |-> TRUE, depth |-> depth, move |-> m,
                          score |-> Kept(flag, score, ply)]) @@ hash

-----------------------------------------------------------------------------
(* The search at its leaves: captures, or all moves of a player in check.  *)
(* It leaves no trace.                                                     *)
RECURSIVE Quies(_, _, _, _)
RECURSIVE QuietTry(_, _)

QuietTried(n, s, q) ==
    LET rest == [s EXCEPT !.list = Tail(@)]
    IN  IF Refused(n.p, q) THEN rest
        ELSE LET score == -Quies(q, -n.beta, -s.alpha, n.history)
             IN  IF score >= n.beta THEN [rest EXCEPT !.best = n.beta, !.list = <<>>]
                 ELSE IF score <= s.best THEN rest
                 ELSE [rest EXCEPT !.best = score, !.alpha = IF score > @ THEN score ELSE @]
QuietTry(n, s) ==
    IF s.list = <<>> THEN s.best ELSE QuietTry(n, QuietTried(n, s, MakeMove(n.p, Head(s.list))))

(* The value of the position stands in for the moves not searched, if it   *)
(* is more than being mated.                                               *)
Captures(p) == ByCapture(p, GenerateMoves(p, "captures"))
Standing(n, worst, alpha) ==
    LET stand == Value(n.p)
    IN  IF stand <= worst THEN [list |-> Captures(n.p), best |-> worst, alpha |-> alpha]
        ELSE [list |-> Captures(n.p), best |-> stand,
              alpha |-> IF n.quiet /\ stand > alpha THEN stand ELSE alpha]
Leaf(p, ply, alpha, beta, history) ==
    LET n == [p |-> p, beta |-> beta, history |-> history, quiet |-> FALSE]
    IN  QuietTry(n, Standing(n, ply - WINSCORE, alpha))

Quiet(n, worst, alpha) ==
    IF ~Now(n.p).check /\ Value(n.p) >= n.beta THEN Value(n.p)
    ELSE QuietTry(n, IF Now(n.p).check
                     THEN [list |-> ByHistory(GenerateMoves(n.p, "all"), n.history),
                           alpha |-> alpha, best |-> worst]
                     ELSE Standing(n, worst, alpha))
QuietBelow(p, ply, alpha, beta, history, loop) ==
    IF loop # INVAILDVALUE THEN loop
    ELSE IF ply - WINSCORE >= beta THEN ply - WINSCORE
    ELSE IF ply = LIMIT_DEPTH THEN Value(p)
    ELSE Quiet([p |-> p, beta |-> beta, history |-> history, quiet |-> TRUE], ply - WINSCORE, alpha)
Quies(p, alpha, beta, history) ==
    QuietBelow(p, Ply(p) - p.start, alpha, beta, history, LoopValue(p, Ply(p) - p.start))

-----------------------------------------------------------------------------
(* The full search.  What it hands on: hash, killers, history.             *)
Result(vl, t) == [vl |-> vl, t |-> t]
Negated(r) == Result(-r.vl, r.t)

(* The moves of a node in their order, once its hash move was searched (it *)
(* comes again): good captures, killers, and the others by their history.  *)
Ordered(n, t, L) ==
    LET killers == SelectSeq(KillersAt(t.killers, n.ply),
                             LAMBDA m : /\ m # NoMove /\ m[1] \in DOMAIN n.p.squares
                                        /\ Color(n.p.squares[m[1]]) = n.p.player
                                        /\ IsLegalMove(n.p, m))
    IN  SelectSeq(L, LAMBDA m : IsGoodCap(n.p, m)) \o killers
          \o ByHistory(SelectSeq(L, LAMBDA m : ~IsGoodCap(n.p, m)), t.history)

RECURSIVE Full(_, _, _, _, _)
RECURSIVE Searched(_, _, _, _, _, _)
RECURSIVE Try(_, _)

(* The moves after the first are tried with a narrow window, then again.   *)
Researched(q, depth, windows, low, high, r) ==
    IF windows = <<>> \/ r.vl <= low \/ r.vl >= high THEN r
    ELSE Searched(q, depth, windows, low, high, r.t)
Searched(q, depth, windows, low, high, t) ==
    Researched(q, depth, Tail(windows), low, high,
               Negated(Full(q, depth, windows[1][1], windows[1][2], t)))
Windows(n, s) ==
    (IF s.found THEN << <<-1 - s.alpha, -s.alpha>> >> ELSE <<>>) \o << <<-n.beta, -s.alpha>> >>
Judged(n, s, m, r) ==
    LET better == [s EXCEPT !.t = r.t, !.best = r.vl, !.move = m]
    IN  IF r.vl <= s.best THEN [s EXCEPT !.t = r.t]
        ELSE IF r.vl >= n.beta THEN [better EXCEPT !.cut = TRUE]
        ELSE IF r.vl > s.alpha THEN [better EXCEPT !.alpha = r.vl, !.found = TRUE]
        ELSE better
Tried(n, s, m, q) == IF Refused(n.p, q) THEN s ELSE Judged(n, s, m, Searched(q, n.depth - 1, Windows(n, s), s.alpha, n.beta, s.t))
Try(n, s) ==
    IF s.cut \/ (s.list = <<>> /\ s.generated) THEN s
    ELSE IF s.list = <<>>
    THEN Try(n, [s EXCEPT !.list = Ordered(n, s.t, GenerateMoves(n.p, "all")), !.generated = TRUE])
    ELSE Try(n, Tried(n, [s EXCEPT !.list = Tail(@)], Head(s.list), MakeMove(n.p, Head(s.list))))

Finished(n, s) ==
    LET flag == IF s.cut THEN BETA ELSE IF s.found THEN PV ELSE ALPHA
    IN  IF s.move = NoMove THEN Result(s.best, s.t)
        ELSE Result(s.best,
                    [s.t EXCEPT !.history = UpdateHistory(@, s.move, n.depth),
                                !.hash = Store(n.p, @, flag, n.depth, n.ply, s.best, s.move),
                                !.killers = IF s.cut /\ IsGoodCap(n.p, s.move) THEN @
                                            ELSE Push(@, n.ply, s.move)])

AfterNull(n, mv, null) ==
    IF null.vl >= n.beta THEN null
    ELSE Finished(n, Try(n, [list |-> mv, generated |-> FALSE, best |-> n.ply - WINSCORE,
                             move |-> NoMove, alpha |-> n.alpha, found |-> FALSE, cut |-> FALSE,
                             t |-> null.t]))
Null(n, t) ==
    IF /\ n.depth >= 2 /\ Now(n.p).move # NoMove /\ ~n.extended
       /\ Value(n.p) - n.beta > 4 /\ n.beta \in (1 - MATEVALUE)..(MATEVALUE - 1)
    THEN Negated(Full(DoNull(n.p), n.depth - 2, -n.beta, 1 - n.beta, t))
    ELSE Result(n.beta - 1, t)
Expanded(n, t, hit) ==
    LET r == t.hash[Slot(n.p)]
        score == Probed(r, n.depth, n.ply, n.alpha, n.beta)
        cleared == [t EXCEPT !.killers = ((n.ply + 1) :> <<NoMove, NoMove>>) @@ @]
    IN  IF hit /\ score # INVAILDVALUE THEN Result(score, t)
        ELSE AfterNull(n, IF hit THEN <<r.move>> ELSE <<>>, Null(n, cleared))

(* A check is worth another ply.                                           *)
Extended(n, t) ==
    IF n.depth > 0 THEN Expanded(n, t, Recorded(n.p, t.hash))
    ELSE IF Value(n.p) >= n.beta THEN Result(Value(n.p), t)
    ELSE Result(Leaf(n.p, n.ply, n.alpha, n.beta, t.history), t)
Below(p, ply, depth, alpha, beta, t, loop) ==
    LET extended == Now(p).move # NoMove /\ Now(p).check
        deeper == IF depth < 0 THEN 1 ELSE depth + 1
    IN  IF loop # INVAILDVALUE THEN Result(loop, t)
        ELSE IF ply - WINSCORE >= beta THEN Result(ply - WINSCORE, t)
        ELSE IF ply = LIMIT_DEPTH THEN Result(Value(p), t)
        ELSE Extended([p |-> p, ply |-> ply, alpha |-> alpha, beta |-> beta, extended |-> extended,
                       depth |-> IF extended THEN deeper ELSE depth], t)
Full(p, depth, alpha, beta, t) ==
    Below(p, Ply(p) - p.start, depth, alpha, beta, t, LoopValue(p, Ply(p) - p.start))

-----------------------------------------------------------------------------
(* The root.  Moves are dropped when they lose; the best of a round are    *)
(* searched first in the next, and all that equal the best of them kept.   *)
GenerateRootMove(p) ==
    LET L == GenerateMoves(p, "root")
        kings == SelectSeq(L, LAMBDA m : m[2] \in DOMAIN p.squares /\ Kind(p.squares[m[2]]) = "K")
    IN  IF kings # <<>> THEN <<kings[1]>> ELSE SelectSeq(L, LAMBDA m : ~Refused(p, MakeMove(p, m)))

RECURSIVE Roots(_, _, _)
RECURSIVE Rounds(_, _, _)

RootWindows(c, best) ==
    IF best = -WINSCORE THEN << <<-WINSCORE, WINSCORE>> >>
    ELSE << <<-1 - best, c.width - best>>, <<-WINSCORE, c.high - best>> >>
RootJudged(c, s, m, r) ==
    LET next == [s EXCEPT !.t = r.t, !.moves = IF c.old THEN @ ELSE Append(@, m)]
    IN  IF r.vl > s.best THEN [next EXCEPT !.best = r.vl, !.bests = <<m>>]
        ELSE IF c.old /\ r.vl = s.best /\ m \notin ToSet(s.bests) THEN [next EXCEPT !.bests = Append(@, m)]
        ELSE IF ~c.old /\ r.vl < -MATEVALUE THEN [s EXCEPT !.t = r.t]
        ELSE next
(* The old best moves, L, then all moves, s.rest.                          *)
Roots(c, s, L) ==
    IF L = <<>> /\ ~c.old THEN s
    ELSE IF L = <<>> THEN Roots([c EXCEPT !.old = FALSE, !.width = 0, !.high = 0], s, c.rest)
    ELSE Roots(c, RootJudged(c, s, Head(L),
                             Searched(MakeMove(c.p, Head(L)), c.round, RootWindows(c, s.best),
                                      s.best, INVAILDVALUE + 1, s.t)), Tail(L))

Round(p, round, s) ==
    Roots([p |-> p, round |-> round, old |-> TRUE, width |-> 1, high |-> -1, rest |-> s.moves],
          [s EXCEPT !.best = -WINSCORE, !.bests = <<>>, !.moves = <<>>], s.bests)
Ended(rounds, p, round, s) ==
    IF s.best > MATEVALUE \/ s.best < -MATEVALUE THEN s ELSE Rounds(rounds, [p |-> p, round |-> round + 1], s)
Rounds(rounds, c, s) ==
    IF c.round > rounds \/ s.moves = <<>> THEN s
    ELSE IF Len(s.moves) = 1 THEN [s EXCEPT !.bests = s.moves]
    ELSE Ended(rounds, c.p, c.round, Round(c.p, c.round, s))

-----------------------------------------------------------------------------
(* The engine.                                                             *)
VARIABLES
    pos,            \* m_xq, m_keys, m_values, m_traces
    hash,           \* m_hash
    killers,        \* killers, of all engines of the program
    move            \* the move last given out, NoMove for none

vars == <<pos, hash, killers, move>>

Start(b, player) ==
    /\ pos = Reset(b, player)
    /\ hash = <<>> /\ killers = <<>> /\ move = NoMove

OnHumanMove(m) ==
    /\ pos' = MakeMove(pos, m)
    /\ UNCHANGED <<hash, killers, move>>

(* The clock chooses among the best moves, and how many rounds there are:  *)
(* the depth of the plugin, 3, up to twice as many.                        *)
Answered(s) ==
    /\ hash' = s.t.hash /\ killers' = s.t.killers
    /\ IF s.bests = <<>> THEN move' = NoMove /\ pos' = pos
       ELSE \E m \in ToSet(s.bests) : move' = m /\ pos' = MakeMove(pos, m)
GenerateMove(rounds) ==
    LET p == [pos EXCEPT !.null = Ply(pos), !.start = Ply(pos)]
    IN  Answered(Rounds(rounds, [p |-> p, round |-> 1],
                        [best |-> -WINSCORE, bests |-> <<>>, moves |-> GenerateRootMove(p),
                         t |-> [hash |-> Cleared(hash), killers |-> killers, history |-> <<>>]]))

-----------------------------------------------------------------------------
(* Correctness.                                                            *)

(* The moves that do_move does not take back.                              *)
Legal(p) == ToSet(GenerateRootMove(p))

(* The three generators and the test of one move agree.                    *)
MovesAgree(p) ==
    LET moves == ToSet(GenerateMoves(p, "all"))
    IN  /\ ToSet(GenerateMoves(p, "root")) = moves
        /\ ToSet(GenerateMoves(p, "captures")) = {m \in moves : m[2] \in DOMAIN p.squares}
        /\ {m \in {sq \in DOMAIN p.squares : Color(p.squares[sq]) = p.player} \X (0..89) :
               IsLegalMove(p, m)} = moves

(* What moves change step by step is what the board gives, and taking any  *)
(* of them back restores it.                                               *)
BooksAgree(p) ==
    /\ Reset(p.squares, p.player).pieces = p.pieces
    /\ p.bits = DOMAIN p.squares
    /\ LET now == Reset(p.squares, p.player).trace[1]
       IN  now.key = Now(p).key /\ now.value = Now(p).value /\ now.check = Now(p).check
    /\ \A m \in ToSet(GenerateMoves(p, "all")) : UndoMove(Change(p, m), m, Square(p, m[2])) = p
=============================================================================
