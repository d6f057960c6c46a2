------------------------------ MODULE HoxTsito ------------------------------
(***************************************************************************)
(* The engine plugins/AI_TSITO as the plugin sets it up: a search of two   *)
(* moves, without opening book, quiescence and iteration (tsiEngine), over *)
(* a board that keeps lists of its pieces (Board), with the moves from a   *)
(* bounding box of 13 columns (Lawyer), and a table of positions that      *)
(* lasts from search to search (Transposition).                            *)
(*                                                                         *)
(* A square is x + 9 y, y = 0 being Blue's side; a man is its kind, plus   *)
(* RED; a board is the function of its occupied squares; a move is a pair  *)
(* of squares.  A hash key is the set of what is exclusive-ored into it.   *)
(***************************************************************************)
EXTENDS Integers, Sequences, SequencesExt, TLC

CONSTANTS
    Wide            \* unsigned long, the type of the board's keys, has 64 bits

RED == 8
BLUE == 0
Opponent(c) == RED - c
ZU == 1         \* pawn
PAO == 2        \* cannon
CHE == 3        \* chariot
MA == 4         \* horse
XIANG == 5      \* elephant
SHI == 6        \* advisor
JIANG == 7      \* king
Kind(man) == man % 8
Color(man) == man - Kind(man)

At(b, sq) == IF sq \in DOMAIN b THEN b[sq] ELSE 0
Free(b, sq, c) == sq \notin DOMAIN b \/ Color(b[sq]) # c

-----------------------------------------------------------------------------
(* Lawyer: where pieces may stand, as bits, for the side at the top, and   *)
(* the bounding box.                                                       *)
LegalPositions == <<
    <<2, 2, 6, 10, 10, 10, 6, 2, 2>>,
    <<2, 2, 2, 10, 10, 10, 2, 2, 2>>,
    <<6, 2, 2, 10, 14, 10, 2, 2, 6>>,
    <<3, 2, 3, 2, 3, 2, 3, 2, 3>>,
    <<3, 2, 7, 2, 3, 2, 7, 2, 3>>>>
PieceMasks == <<1, 2, 2, 2, 4, 8, 8>>
LegalTop(kind, sq) ==
    LET bits == IF sq < 45 THEN LegalPositions[(sq \div 9) + 1][(sq % 9) + 1] ELSE 3
    IN  (bits \div PieceMasks[kind]) % 2 = 1
MayStand(kind, c, sq) == LegalTop(kind, IF c = RED THEN 89 - sq ELSE sq)

(* The square an offset of the box leads to; off the board it is -1.       *)
Box(sq, offset) ==
    LET k == (sq % 9) + 13 * (sq \div 9) + offset
    IN  IF k % 13 <= 8 /\ k \in 0..125 THEN (k % 13) + 9 * (k \div 13) ELSE -1

KnightOffsets == <<-11, -15, -25, -27, 11, 15, 25, 27>>
KnightBlock == <<1, -1, -9, -9, -1, 1, 9, 9>>
ReverseKnightBlocks == <<-8, -10, -8, -10, 8, 10, 8, 10>>
ElephantOffsets == <<-28, -24, 24, 28>>
ElephantEye == <<-10, -8, 8, 10>>
GuardOffsets == <<-14, -12, 12, 14>>

(* The squares from sq along a line, and those of them that are occupied.  *)
Line == [sq \in 0..89, offset \in {-13, -1, 1, 13} |->
            LET n == CHOOSE n \in 0..9 : /\ \A k \in 1..n : Box(sq, k * offset) # -1
                                         /\ Box(sq, (n + 1) * offset) = -1
            IN  [k \in 1..n |-> Box(sq, k * offset)]]
Hits(b, sq, offset) == SelectSeq(Line[sq, offset], LAMBDA s : s \in DOMAIN b)
Before(line, sq) == SubSeq(line, 1, (CHOOSE k \in DOMAIN line : line[k] = sq) - 1)

(* Does a man of the other color attack the man on loc?                    *)
UnderAttack(b, loc) ==
    LET opponent == Opponent(Color(b[loc]))
        Is(sq, kind) == sq \in DOMAIN b /\ b[sq] = opponent + kind
        backwards == IF opponent = RED THEN -13 ELSE 13
        OnLine(offset) ==
            LET hits == Hits(b, loc, offset)
            IN  \/ Len(hits) >= 1 /\ (Is(hits[1], JIANG) \/ Is(hits[1], CHE))
                \/ /\ Len(hits) >= 1 /\ Is(hits[1], ZU)
                   /\ hits[1] = Box(loc, offset) /\ offset # backwards
                   /\ MayStand(ZU, opponent, hits[1])
                \/ Len(hits) >= 2 /\ Is(hits[2], PAO)
    IN  \/ \E offset \in {-1, 1, -13, 13} : OnLine(offset)
        \/ \E i \in 1..8 : /\ Is(Box(loc, KnightOffsets[i]), MA)
                           /\ loc + ReverseKnightBlocks[i] \notin DOMAIN b
        \/ LegalTop(XIANG, loc) /\ \E i \in 1..4 : /\ Is(Box(loc, ElephantOffsets[i]), XIANG)
                                                   /\ loc + ElephantEye[i] \notin DOMAIN b
        \/ LegalTop(SHI, loc) /\ \E i \in 1..4 : Is(Box(loc, GuardOffsets[i]), SHI)

(* A step by one of the offsets, to where the man may stand unless the     *)
(* square it would pass is occupied.  The square 0 is taken for one off    *)
(* the board.                                                              *)
Steps(b, from, offsets, passed) ==
    LET man == b[from]
        dest == [i \in DOMAIN offsets |-> Box(from, offsets[i])]
        taken == SelectSeq([i \in 1..Len(offsets) |-> i],
                           LAMBDA i : /\ dest[i] > 0 /\ Free(b, dest[i], Color(man))
                                      /\ MayStand(Kind(man), Color(man), dest[i])
                                      /\ from + passed[i] \notin DOMAIN b \ {from})
    IN  [k \in 1..Len(taken) |-> dest[taken[k]]]
Over0 == [i \in 1..8 |-> 0]

RookMoves(b, from, offset) ==
    LET line == Line[from, offset]
        hits == Hits(b, from, offset)
    IN  IF hits = <<>> THEN line
        ELSE Before(line, hits[1]) \o (IF Free(b, hits[1], Color(b[from])) THEN <<hits[1]>> ELSE <<>>)
CanonMoves(b, from, offset) ==
    LET line == Line[from, offset]
        hits == Hits(b, from, offset)
    IN  IF hits = <<>> THEN line
        ELSE Before(line, hits[1])
               \o (IF Len(hits) > 1 /\ Free(b, hits[2], Color(b[from])) THEN <<hits[2]>> ELSE <<>>)

(* Along a free file a king takes the other, which tells that the move     *)
(* before was illegal.                                                     *)
KingTaken(b, from) ==
    LET c == Color(b[from])
        hits == Hits(b, from, IF c = RED THEN -13 ELSE 13)
    IN  IF hits # <<>> /\ b[hits[1]] = Opponent(c) + JIANG THEN <<hits[1]>> ELSE <<>>

Lines == <<-1, -13, 13, 1>>
Destinations(b, from) ==
    LET c == Color(b[from])
        kind == Kind(b[from])
        forward == IF c = RED THEN -1 ELSE 1
    IN  CASE kind = ZU    -> Steps(b, from, <<-forward, 13 * forward, forward>>, Over0)
          [] kind = PAO   -> FlattenSeq([k \in 1..4 |-> CanonMoves(b, from, Lines[k])])
          [] kind = CHE   -> FlattenSeq([k \in 1..4 |-> RookMoves(b, from, Lines[k])])
          [] kind = MA    -> Steps(b, from, KnightOffsets, KnightBlock)
          [] kind = XIANG -> Steps(b, from, ElephantOffsets, ElephantEye)
          [] kind = SHI   -> Steps(b, from, GuardOffsets, Over0)
          [] kind = JIANG -> Steps(b, from, <<-1, -13, 1, 13>>, Over0) \o KingTaken(b, from)

-----------------------------------------------------------------------------
(* Board: the board, the side to move, the squares of the pieces of each   *)
(* color and kind, in the order in which they are tried, the kings, and    *)
(* the key, with the upper half that setPosition gives it where the key is *)
(* wider than an int and Red is to move (8 << 28 is negative).             *)
Xor(a, b) == (a \ b) \cup (b \ a)
Zobrist(b, sq) == IF sq \in DOMAIN b THEN {<<b[sq], sq>>} ELSE {}
ColorSwitchKey == <<0, 0>>

Key(b, side) == {<<b[sq], sq>> : sq \in DOMAIN b} \cup IF side = RED THEN {ColorSwitchKey} ELSE {}
Listed(b, man) == {sq \in DOMAIN b : b[sq] = man}

SetPosition(b, side) ==
    [board |-> b, side |-> side, key |-> Key(b, side), upper |-> Wide /\ side = RED,
     pieces |-> [man \in (1..7) \cup (9..15) |-> SetToSortSeq(Listed(b, man), <)],
     king |-> [c \in {RED, BLUE} |-> CHOOSE sq \in DOMAIN b : b[sq] = c + JIANG]]

PieceMoved(p, from, to) ==
    LET man == p.board[from]
    IN  [p EXCEPT
            !.pieces[man] = [k \in DOMAIN @ |-> IF @[k] = from THEN to ELSE @[k]],
            !.king[Color(man)] = IF Kind(man) = JIANG THEN to ELSE @,
            !.board = (to :> man) @@ [sq \in DOMAIN @ \ {from} |-> @[sq]],
            !.side = Opponent(@),
            !.key = Xor(Xor(Xor(@, {<<man, from>>}), {<<man, to>>}), {ColorSwitchKey})]

MakeMove(p, m) ==
    LET captured == At(p.board, m[2])
        moved == PieceMoved(p, m[1], m[2])
    IN  IF captured = 0 THEN moved
        ELSE [moved EXCEPT !.key = Xor(@, {<<captured, m[2]>>}),
                           !.pieces[captured] = SelectSeq(@, LAMBDA sq : sq # m[2])]

(* A captured piece returns to the end of its list.                        *)
UnmakeMove(p, m, captured) ==
    LET moved == PieceMoved(p, m[2], m[1])
    IN  IF captured = 0 THEN moved
        ELSE [moved EXCEPT !.key = Xor(@, {<<captured, m[2]>>}),
                           !.board = (m[2] :> captured) @@ @,
                           !.pieces[captured] = Append(@, m[2])]

InCheck(p, c) == UnderAttack(p.board, p.king[c])

GenerateMoves(p) ==
    LET From(sq) == LET to == Destinations(p.board, sq) IN [k \in 1..Len(to) |-> <<sq, to[k]>>]
        Of(kind) == LET squares == p.pieces[p.side + kind]
                    IN  FlattenSeq([k \in 1..Len(squares) |-> From(squares[k])])
    IN  FlattenSeq([kind \in 1..7 |-> Of(kind)])

-----------------------------------------------------------------------------
(* Evaluator.  A row of the tables is given up to its middle file: left    *)
(* and right are alike, and so are the tables of the colors, turned round. *)
(* The side to move always counts its pieces as Blue's.                    *)
PieceValues == <<10, 45, 90, 40, 20, 20, 1500>>
PieceValue(man) == IF man = 0 THEN 0 ELSE PieceValues[Kind(man)]

Zero == <<0, 0, 0, 0, 0>>
Fifty == <<50, 50, 50, 50, 50>>
PieceValuesByLoc == <<
    <<Zero, Zero, Zero, <<10, 0, 12, 0, 15>>, <<10, 0, 13, 0, 10>>, <<20, 20, 20, 20, 20>>,
      <<20, 21, 21, 22, 22>>, <<20, 21, 21, 23, 23>>, <<20, 21, 21, 23, 22>>, <<11, 12, 13, 14, 14>>>>,
    <<Fifty, Fifty, <<50, 51, 53, 53, 55>>, <<50, 51, 50, 50, 50>>, <<50, 51, 51, 51, 51>>,
      <<50, 51, 50, 50, 50>>, <<50, 51, 50, 50, 50>>, <<50, 51, 50, 50, 50>>, <<50, 51, 50, 50, 50>>, Fifty>>,
    <<<<89, 92, 90, 90, 90>>, <<91, 92, 90, 93, 90>>, <<90, 92, 90, 91, 90>>, <<90, 91, 90, 91, 90>>,
      <<90, 94, 90, 94, 90>>, <<90, 93, 90, 91, 90>>, <<90, 91, 90, 91, 90>>, <<90, 91, 90, 90, 90>>,
      <<90, 92, 91, 91, 90>>, <<90, 90, 90, 90, 90>>>>,
    <<<<40, 35, 40, 40, 40>>, <<40, 41, 42, 40, 20>>, <<40, 42, 43, 40, 40>>, <<40, 42, 43, 43, 43>>,
      <<40, 43, 44, 44, 44>>, <<40, 43, 44, 44, 44>>, <<40, 43, 44, 44, 44>>, <<40, 43, 44, 44, 44>>,
      <<40, 41, 42, 42, 42>>, <<40, 40, 40, 40, 40>>>>,
    <<<<0, 0, 25, 0, 0>>, Zero, <<23, 0, 0, 0, 28>>, Zero, <<0, 0, 22, 0, 0>>,
      Zero, Zero, Zero, Zero, Zero>>,
    <<<<0, 0, 0, 20, 0>>, <<0, 0, 0, 0, 22>>, <<0, 0, 0, 19, 0>>,
      Zero, Zero, Zero, Zero, Zero, Zero, Zero>>,
    <<<<0, 0, 0, 30, 35>>, <<0, 0, 0, 15, 15>>, <<0, 0, 0, 1, 1>>,
      Zero, Zero, Zero, Zero, Zero, Zero, Zero>>>>
ValueByLoc(kind, sq, turned) ==
    LET x == sq % 9
        y == IF turned THEN 9 - (sq \div 9) ELSE sq \div 9
    IN  PieceValuesByLoc[kind][y + 1][(IF x > 4 THEN 8 - x ELSE x) + 1]

EvaluatePosition(p) ==
    LET Worth(sq) == LET man == p.board[sq]
                     IN  IF Color(man) = p.side THEN ValueByLoc(Kind(man), sq, FALSE)
                         ELSE -ValueByLoc(Kind(man), sq, TRUE)
    IN  FoldSet(LAMBDA sq, total : Worth(sq) + total, 0, DOMAIN p.board)
          + IF InCheck(p, Opponent(p.side)) THEN 100 ELSE IF InCheck(p, p.side) THEN -100 ELSE 0

-----------------------------------------------------------------------------
(* tsiEngine.  What a search hands on: killer1, killer2 and the table, the *)
(* function of the keys stored.                                            *)
INFIN == 3000
CHECKMATE == -2000
MaxPly == 2
NoMove == <<0, 0>>

Flush(table) == [key \in DOMAIN table |-> [table[key] EXCEPT !.stale = TRUE]]

(* A key whose upper half is not zero equals none of those stored, which   *)
(* have 32 bits.                                                           *)
Found(p, t) == ~p.upper /\ p.key \in DOMAIN t.table
Touched(p, t) == IF Found(p, t) THEN [t EXCEPT !.table[p.key].stale = FALSE] ELSE t

TableSet(p, ply, depth, alpha, beta, mv, score, t) ==
    LET node == [mv |-> mv, score |-> score, depth |-> depth - ply, stale |-> TRUE,
                 flag |-> IF score < alpha THEN "upper" ELSE IF score < beta THEN "exact" ELSE "lower"]
        keep == /\ p.key \in DOMAIN t.table
                /\ ~t.table[p.key].stale /\ t.table[p.key].depth > node.depth
    IN  IF keep THEN t ELSE [t EXCEPT !.table = (p.key :> node) @@ @]

(* A killer is meant for its level, ply; the lists are filled from their   *)
(* beginnings whatever the level, and the level above reads them.          *)
NewKiller(mv, ply, t) ==
    IF Len(t.killer1) > ply
    THEN [t EXCEPT !.killer1[ply + 1] = mv,
                   !.killer2 = IF Len(@) > ply THEN [@ EXCEPT ![ply + 1] = t.killer1[ply + 1]]
                               ELSE Append(@, mv)]
    ELSE [t EXCEPT !.killer1 = Append(@, mv)]
SetUpKillers(ply, t) ==
    LET Above(killer) == IF ply > 0 /\ Len(killer) > ply - 1 THEN <<killer[ply]>> ELSE <<>>
    IN  Above(t.killer1) \o Above(t.killer2)

(* CompareMovesInBoard: first the moves of the priority table, then all    *)
(* but the king's, the most valuable victims first; of captures those by   *)
(* the least valuable attacker, of quiet moves those by the most valuable. *)
Rank(p, priority, m) ==
    LET listed == {k \in DOMAIN priority : priority[k] = m}
        index == IF listed = {} THEN 9 ELSE CHOOSE k \in listed : \A j \in listed : j <= k
        man == p.board[m[1]]
        attacker == PieceValue(man)
        victim == PieceValue(At(p.board, m[2]))
    IN  <<index, IF Kind(man) = JIANG THEN 1 ELSE 0, -victim, IF victim = 0 THEN -attacker ELSE attacker>>
Precedes(r, s) ==
    \E k \in 1..4 : r[k] < s[k] /\ \A j \in 1..(k - 1) : r[j] = s[j]
Sorted(p, priority, moves) ==
    LET rank == [i \in 1..Len(moves) |-> Rank(p, priority, moves[i])]
        order == SortSeq([i \in 1..Len(moves) |-> i],
                         LAMBDA i, j : Precedes(rank[i], rank[j]) \/ (rank[i] = rank[j] /\ i < j))
    IN  [k \in 1..Len(moves) |-> moves[order[k]]]

RECURSIVE Search(_, _, _, _, _, _)
RECURSIVE AlphaBeta(_, _)

(* The loop over the moves of a node c, in the state s; a search gives the *)
(* position back with its lists in another order.                          *)
Tried(s, m, alpha, r) ==
    LET next == [s EXCEPT !.moves = Tail(@), !.alpha = alpha, !.t = r.t,
                          !.p = UnmakeMove(r.p, m, At(s.p.board, m[2]))]
    IN  IF -r.vl > -INFIN /\ -r.vl > s.best THEN [next EXCEPT !.best = -r.vl, !.mv = m] ELSE next
AlphaBeta(c, s) ==
    LET m == Head(s.moves)
        alpha == IF s.best > s.alpha THEN s.best ELSE s.alpha
    IN  IF s.moves = <<>> \/ s.best >= c.beta THEN s
        ELSE AlphaBeta(c, Tried(s, m, alpha,
                                Search(MakeMove(s.p, m), -c.beta, -alpha, c.ply + 1, c.depth, s.t)))

Result(vl, mv, p, t) == [vl |-> vl, mv |-> mv, p |-> p, t |-> t]
Recorded(c, e) ==
    LET killed == IF e.best > c.beta THEN NewKiller(e.mv, c.ply, e.t) ELSE e.t
    IN  IF e.best = -INFIN THEN Result(CHECKMATE, NoMove, e.p, e.t)
        ELSE Result(e.best, e.mv, e.p,
                    TableSet(e.p, c.ply, c.depth, c.alpha, c.beta, e.mv, e.best, killed))
Expand(c, p, priority, t, moves) ==
    IF moves = <<>> THEN Result(CHECKMATE + c.ply, NoMove, p, t)
    ELSE Recorded(c, AlphaBeta(c, [p |-> p, moves |-> Sorted(p, priority, moves), best |-> -INFIN,
                                   alpha |-> c.alpha, mv |-> NoMove, t |-> t]))

(* Null moves are tried in searches that have more than two moves to go,   *)
(* which is none.                                                          *)
Search(p, alpha, beta, ply, depth, t) ==
    LET node == t.table[p.key]
        priority == (IF Found(p, t) THEN <<node.mv>> ELSE <<>>) \o SetUpKillers(ply, t)
    IN  IF InCheck(p, Opponent(p.side)) THEN Result(INFIN, NoMove, p, t)
        ELSE IF ply >= depth THEN Result(EvaluatePosition(p) - ply, NoMove, p, t)
        ELSE IF Found(p, t) /\ node.depth > depth - ply /\ (ply > 0 \/ node.flag = "exact")
             THEN Result(node.score, node.mv, p, Touched(p, t))
        ELSE Expand([ply |-> ply, depth |-> depth, alpha |-> alpha, beta |-> beta],
                    p, priority, Touched(p, t), GenerateMoves(p))

-----------------------------------------------------------------------------
(* The engine.                                                             *)
VARIABLES
    pos,            \* m_board
    table,          \* _transposTable
    move            \* the move last given out, NoMove for none

vars == <<pos, table, move>>

Start(b, side) == pos = SetPosition(b, side) /\ table = <<>> /\ move = NoMove

OnHumanMove(m) == pos' = MakeMove(pos, m) /\ UNCHANGED <<table, move>>

(* Without a move that keeps the king no move is made and none given out.  *)
Answered(r) ==
    /\ table' = r.t.table
    /\ move' = r.mv
    /\ pos' = IF r.mv = NoMove THEN r.p ELSE MakeMove(r.p, r.mv)
GenerateMove ==
    Answered(Search(pos, -INFIN, INFIN, 0, MaxPly,
                    [killer1 |-> <<>>, killer2 |-> <<>>, table |-> Flush(table)]))

-----------------------------------------------------------------------------
(* Correctness.                                                            *)

(* The moves after which the search does not find the king taken.          *)
Legal(p) == {m \in ToSet(GenerateMoves(p)) : ~InCheck(MakeMove(p, m), p.side)}

(* What changes with every move made and taken back is what the board      *)
(* gives, the order of the lists apart.                                    *)
BooksAgree(p) ==
    /\ \A man \in DOMAIN p.pieces : /\ ToSet(p.pieces[man]) = Listed(p.board, man)
                                    /\ IsInjective(p.pieces[man])
    /\ \A c \in {RED, BLUE} : p.pieces[c + JIANG] = <<p.king[c]>>
    /\ p.key = Key(p.board, p.side)
=============================================================================
