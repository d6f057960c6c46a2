----------------------------- MODULE HoxHaQiKiD -----------------------------
(***************************************************************************)
(* The engine plugins/AI_HaQiKiD/haqikidHOX.cpp, built without its hash    *)
(* table (HASH is commented out): a mailbox board and a piece list, moves  *)
(* from tables of directions by kind of square, legality and check found   *)
(* out from the last move alone, and the search.                           *)
(*                                                                         *)
(* A square is x + 20 y, y = 0 being White's; a piece is its index in the  *)
(* piece list, 16.. white, 32.. black: the king, two each of chariots,     *)
(* cannons, horses, advisors and elephants, five pawns.  A move is a pair  *)
(* of squares.  A hash key is the set of what is exclusive-ored into it.   *)
(***************************************************************************)
EXTENDS HoxPieceSquares, FiniteSets, SequencesExt, TLC

CONSTANTS
    Stray,          \* what lies past the board's array, where Evaluate reads, is 39
    Garbage,        \* the levels at which hashMove, never set, is not zero
    Jitter          \* bound: the random part of the value of the first moves of a game

INF == 10000
EMPTY == 0
WHITE == 16
BLACK == 32
Guard == 48
Other(side) == WHITE + BLACK - side
NullPly == <<60, 60>>           \* 0x3C3C

-----------------------------------------------------------------------------
(* Pieces.                                                                 *)
Color(piece) == IF piece >= BLACK THEN BLACK ELSE WHITE
KindOf(piece) ==
    LET i == piece % 16
    IN  CASE i = 0 -> "K" [] i \in 1..2 -> "R" [] i \in 3..4 -> "C" [] i \in 5..6 -> "H"
          [] i \in 7..8 -> "A" [] i \in 9..10 -> "E" [] i \in 11..15 -> "P"

PST(piece, sq) ==
    LET far == IF Color(piece) = WHITE THEN 9 - (sq \div 20) ELSE sq \div 20
        kind == CASE KindOf(piece) = "K" -> 0 [] KindOf(piece) = "A" -> 1
                  [] KindOf(piece) = "E" -> 2 [] KindOf(piece) = "H" -> 3
                  [] KindOf(piece) = "R" -> 4 [] KindOf(piece) = "C" -> 5
                  [] KindOf(piece) = "P" -> 6
    IN  IF piece = EMPTY THEN 0 ELSE SquareValue(kind, far, sq % 20)

(* Zobrist: pieces of one kind and color share their words; no piece, none. *)
Zobrist(piece, sq) == IF piece = EMPTY THEN {} ELSE {<<Color(piece), KindOf(piece), sq>>}
Xor(a, b) == (a \ b) \cup (b \ a)

(* The index of a side's material counts its attackers and the other       *)
(* side's defenders.                                                       *)
Mval(piece, side) ==
    LET kind == KindOf(piece)
    IN  IF piece = EMPTY THEN 0
        ELSE IF Color(piece) = side
        THEN CASE kind = "R" -> 81 [] kind = "C" -> 27 [] kind = "H" -> 9
               [] kind = "P" -> 243 [] OTHER -> 0
        ELSE CASE kind = "A" -> 3 [] kind = "E" -> 1 [] OTHER -> 0

MaterialTable(i) ==
    LET nE == i % 3
        nA == (i \div 3) % 3
        nH == (i \div 9) % 3
        nC == (i \div 27) % 3
        nR == (i \div 81) % 3
        nP == i \div 243
        pieces == nA + nE + nP + 2 * (nR + nC + nH) - 20
        attack == 13 - (nP + nC + nH + 2 * nR)
        superfluous == 2 * nA + 2 * nE - (8 * nR + 4 * nH + 2 * nC + 3 * nP)
    IN  nC * (10 - (pieces * pieces) \div 10) + nR * 10 + nP * 5
          + (nA + nE) * ((attack * attack) \div 10 - 5)
          + (IF superfluous > 0 THEN 6 * superfluous ELSE 0)

-----------------------------------------------------------------------------
(* The tables of the move generator: lists of steps, ended by 0, the       *)
(* squares where a step is blocked, and where the list of a kind of piece  *)
(* on a square begins.                                                     *)
Steps == <<
    -39,-41,-22,-18,18,39,41,22,0, 39,-41,41,22,-18,-39,0, 22,18,-18,-39,-41,-22,0,
    -39,41,-41,-22,18,39,0, 38,42,-38,-42,0, -42,38,0, 38,42,0, 42,-38,0,
    1,20,-1,-20,0, -1,-20,1,0, -20,1,20,0, 1,20,-1,0, 19,21,-19,-21,0, -19,0, 21,0, 19,0, 1,-1,0,
    1,20,-1,-20,0, -1,-20,1,0, -20,1,20,0, 1,20,-1,0, 1,20,-1,-20,0, -1,-20,1,0, -20,1,20,0, 1,20,-1,0>>
Block == <<
    -20,-20,-1,1,-1,20,20,1,0, 20,-20,20,1,1,-20,0, 1,-1,1,-20,-20,-1,0, -20,20,-20,-1,-1,20,0,
    19,21,-19,-21,0, -21,19,0, 19,21,0, 21,-19,0>>
FirstDirTab == <<
    <<85,88,88,88,88,88,88,88,89,8,102,105,105,105,105,105,105,105,106,8>>,
    <<84,75,75,75,75,75,75,75,76,8,101,92,92,92,92,92,92,92,93,8>>,
    <<84,75,75,75,75,75,75,75,76,8,101,92,92,92,92,92,92,92,93,8>>,
    <<84,75,75,75,75,75,75,75,76,8,101,92,92,92,92,92,92,92,93,8>>,
    <<84,75,75,75,75,75,75,75,76,8,101,92,92,92,92,92,92,92,93,8>>,
    <<84,75,75,75,75,75,75,75,76,8,101,92,92,92,92,92,92,92,93,8>>,
    <<84,75,75,75,75,75,75,75,76,8,101,92,92,92,92,92,92,92,93,8>>,
    <<84,75,75,75,75,75,75,75,76,8,101,92,92,92,92,92,92,92,93,8>>,
    <<84,75,75,75,75,75,75,75,76,8,101,92,92,92,92,92,92,92,93,8>>,
    <<81,80,80,80,80,80,80,80,77,8,98,97,97,97,97,97,97,97,94,8>>,
    <<6,5,4,4,4,4,4,4,27,8,51,72,72,72,72,72,72,72,59,8>>,
    <<11,3,2,2,2,2,2,24,26,8,50,49,49,49,49,49,49,49,46,8>>,
    <<11,9,0,0,0,0,0,23,25,8,50,49,49,49,49,49,49,49,46,8>>,
    <<11,9,0,0,0,0,0,23,25,8,50,49,49,49,49,49,49,49,46,8>>,
    <<11,9,0,0,0,0,0,23,25,8,50,49,49,49,49,49,49,49,46,8>>,
    <<11,9,0,0,0,0,0,23,25,8,47,55,47,55,47,55,47,55,47,55>>,
    <<11,9,0,0,0,0,0,23,25,8,47,55,47,55,47,55,47,55,47,55>>,
    <<11,9,0,0,0,0,0,23,25,8,8,54,57,57,57,57,57,57,57,58>>,
    <<12,10,16,16,16,16,16,17,25,8,8,54,57,57,57,57,57,57,57,58>>,
    <<13,18,18,18,18,18,18,19,20,8,8,54,57,57,57,57,57,57,57,58>>,
    <<8,8,38,8,8,8,38,8,8,8,8,54,57,57,57,57,57,57,57,58>>,
    <<8,8,8,8,8,8,8,8,8,8,8,51,72,72,72,72,72,72,72,59>>,
    <<41,8,8,8,30,8,8,8,35,8,54,57,58,8,68,8,70,8,8,8>>,
    <<8,8,8,8,8,8,8,8,8,8,53,44,45,8,8,61,8,8,8,8>>,
    <<8,8,32,8,8,8,32,8,8,8,50,49,46,8,66,8,64>> >>
FirstDir(piece) ==
    LET white == Color(piece) = WHITE
    IN  CASE KindOf(piece) = "R" -> 0 [] KindOf(piece) = "C" -> 10 [] KindOf(piece) = "H" -> 200
          [] KindOf(piece) = "K" -> IF white THEN 447 ELSE 307
          [] KindOf(piece) = "A" -> IF white THEN 451 ELSE 311
          [] KindOf(piece) = "E" -> IF white THEN 400 ELSE 300
          [] KindOf(piece) = "P" -> IF white THEN 251 ELSE 210

StepAt(dir) == Steps[dir + 1]
BlockAt(dir) == IF dir < Len(Block) THEN Block[dir + 1] ELSE 0
Sliding(dir) == dir >= 75
Cannon(dir) == dir >= 92
(* The directions of a piece on a square, in order.                        *)
Dirs(piece, from) ==
    LET i == FirstDir(piece) + from
        first == FirstDirTab[(i \div 20) + 1][(i % 20) + 1]
        n == CHOOSE k \in 0..8 : StepAt(first + k) = 0 /\ \A j \in 0..(k - 1) : StepAt(first + j) # 0
    IN  [k \in 1..n |-> first + k - 1]

-----------------------------------------------------------------------------
(* The board: 48 all around, and rays over it.                             *)
OnBoard(sq) == sq >= 0 /\ sq \div 20 <= 9 /\ sq % 20 <= 8
At(p, sq) == IF sq \in DOMAIN p.board THEN p.board[sq] ELSE IF OnBoard(sq) THEN EMPTY ELSE Guard

(* The first square on from sq by v that is not empty.                     *)
Hit(p, sq, v) ==
    LET k == CHOOSE n \in 1..10 : /\ At(p, sq + n * v) # EMPTY
                                  /\ \A j \in 1..(n - 1) : At(p, sq + j * v) = EMPTY
    IN  sq + k * v

(* !(board[x] & side), with the kinds of piece asked for.                  *)
Enemy(p, sq, side, kinds) ==
    At(p, sq) \notin {EMPTY, Guard} /\ Color(At(p, sq)) # side /\ KindOf(At(p, sq)) \in kinds

(* The squares a piece goes to by one direction, in order.                 *)
Ray(p, from, dir, side) ==
    LET step == StepAt(dir)
        hit == Hit(p, from, step)
        free == [k \in 1..(((hit - from) \div step) - 1) |-> from + k * step]
        target == IF Cannon(dir) THEN IF At(p, hit) = Guard THEN hit ELSE Hit(p, hit, step) ELSE hit
        Taken(sq) == IF At(p, sq) # Guard /\ Color(At(p, sq)) # side THEN <<sq>> ELSE <<>>
    IN  IF BlockAt(dir) # 0 /\ At(p, from + BlockAt(dir)) # EMPTY THEN <<>>
        ELSE IF Sliding(dir) THEN free \o Taken(target)
        ELSE IF At(p, from + step) = EMPTY THEN <<from + step>> ELSE Taken(from + step)

(* All moves, in the order they are found.                                 *)
MovesOfPiece(p, piece) ==
    LET from == p.pos[piece]
        D == Dirs(piece, from)
        ends == FlattenSeq([k \in 1..Len(D) |-> Ray(p, from, D[k], p.side)])
    IN  [k \in 1..Len(ends) |-> <<from, ends[k]>>]
Generated(p) ==
    LET own == SelectSeq([k \in 1..16 |-> p.side + 16 - k], LAMBDA piece : piece \in DOMAIN p.pos)
    IN  FlattenSeq([k \in 1..Len(own) |-> MovesOfPiece(p, own[k])])

-----------------------------------------------------------------------------
(* Is a piece of this side on this square attacked?  A look all around.    *)
StupidInCheck(p, side, to) ==
    \/ \E v \in {1, -1, 20, -20} :
          LET x == Hit(p, to, v)
              behind == Hit(p, x, v)
          IN  \/ Enemy(p, x, side, {"K", "R"})
              \/ x = to + v /\ Enemy(p, x, side, {"P"}) /\ v # (IF side = WHITE THEN -20 ELSE 20)
              \/ Enemy(p, behind, side, {"C"})
    \/ \E v \in {21, -21, 19, -19} :
          /\ At(p, to + v) = EMPTY
          /\ \E h \in {22, 41, -22, -41, 18, 39, -18, -39} :
                h - v \in {1, -1, 20, -20} /\ Enemy(p, to + h, side, {"H"})

(* captCode and deltaVec: how two squares are aligned, and the step by     *)
(* which one leads to the other.                                           *)
Orthogonal(d) == d # 0 /\ (d % 20 = 0 \/ d \in -8..8)
Diagonal(d) == d \in {19, 21, -19, -21}
Hippogonal(d) == d \in {18, 22, 39, 41, -18, -22, -39, -41}
StepTo(d) ==
    CASE d \in 1..8 -> 1 [] d \in -8..-1 -> -1
      [] d > 8 -> 20 [] d < -8 -> -20
Across(d) == IF d \in {19, -21} THEN -1 ELSE 1          \* deltaVec[d + 51]
Along(d) == IF d > 0 THEN 20 ELSE -20                   \* deltaVec[d + 42], d diagonal
Leg(d) ==                                               \* deltaVec[d + 42], d hippogonal
    CASE d \in {-39, -41} -> -20 [] d \in {39, 41} -> 20
      [] d \in {-22, 18} -> -1 [] d \in {22, -18} -> 1

(* Does the move that led to p give check, by its mover, or by a cannon    *)
(* over it, or by what stood behind it?                                    *)
GivesCheck(p, ply) ==
    LET king == p.pos[p.side]
        from == ply[1]
        to == ply[2]
        ByRay(v, near) ==
            LET x == Hit(p, king, v)
            IN  \/ Enemy(p, x, p.side, {"R"})
                \/ near /\ x = king + v /\ Enemy(p, x, p.side, {"P"})
                     /\ v # (IF p.side = WHITE THEN -20 ELSE 20)
                \/ Enemy(p, Hit(p, x, v), p.side, {"C"})
        Opened(v) == Enemy(p, from + v, p.side, {"H"})
    IN  \/ Orthogonal(to - king) /\ ByRay(StepTo(to - king), TRUE)
        \/ /\ Hippogonal(to - king)
           /\ At(p, to) # EMPTY /\ KindOf(At(p, to)) = "H"
           /\ At(p, to + Leg(king - to)) = EMPTY
        \/ Orthogonal(from - king) /\ ByRay(StepTo(from - king), FALSE)
        \/ Diagonal(from - king) /\ (Opened(Across(from - king)) \/ Opened(Along(from - king)))

(* Does it leave the mover's king attacked?  Only where StupidInCheck was  *)
(* not asked: he was not in check, and did not move his king.              *)
LeavesKing(p, ply) ==
    LET xking == p.pos[Other(p.side)]
        king == p.pos[p.side]
        from == ply[1]
        to == ply[2]
        Behind(kinds, sq) == Enemy(p, sq, Other(p.side), kinds)
        Opened(v) == Behind({"H"}, from + v)
    IN  \/ /\ Orthogonal(to - xking)
           /\ LET v == StepTo(to - xking)
              IN  Behind({"C"}, Hit(p, to, v)) /\ Hit(p, xking, v) = to
        \/ /\ Orthogonal(from - xking)
           /\ LET v == StepTo(from - xking)
                  x == Hit(p, xking, v)
              IN  x = king \/ Behind({"R"}, x) \/ Behind({"C"}, Hit(p, x, v))
        \/ Diagonal(from - xking) /\ (Opened(Across(from - xking)) \/ Opened(Along(from - xking)))

-----------------------------------------------------------------------------
(* The value of a position for the side to move.                           *)
Light(p, sq) == At(p, sq) = Guard \/ KindOf(At(p, sq)) \in {"K", "R", "C", "H"}
Penalty(p, sq, near) ==
    IF Light(p, sq) THEN IF near THEN 30 ELSE 20 ELSE IF near THEN 10 ELSE 0

(* The danger to a king at home from what stands on his file: a cannon     *)
(* behind nothing, a pinned piece, a piece that is a screen.               *)
Danger(p, side, home, v) ==
    LET x1 == Hit(p, home, v)
        x2 == Hit(p, x1, v)
        penalty == Penalty(p, x1, x1 = home + v)
        rook == Enemy(p, x2, side, {"R"})
        screen == IF rook THEN 20 ELSE penalty + (IF Light(p, x2) THEN 20 ELSE 0)
    IN  IF Enemy(p, x1, side, {"C"}) THEN 30
        ELSE (IF rook THEN penalty ELSE 0)
               + (IF x2 \in 21..179 /\ Enemy(p, Hit(p, x2, v), side, {"C"}) THEN screen ELSE 0)

Advised(p, sq, side) == At(p, sq) \in {side + 7, side + 8}

(* One piece between the kings, seen from White's: nothing else counts.    *)
KingsPinned(p) ==
    LET y == Hit(p, 4, 20)
    IN  p.pos[WHITE] = 4 /\ ~Enemy(p, y, WHITE, {"C"}) /\ At(p, Hit(p, y, 20)) = BLACK
PinScore(p) ==
    LET y == Hit(p, 4, 20)
    IN  IF Color(At(p, y)) = BLACK THEN Penalty(p, y, Hit(p, y, 20) = 164)
        ELSE -Penalty(p, y, y = 24)

(* board[644], meant to be 164, is past the end of the array.              *)
Evaluate(p, side) ==
    LET white == IF p.pos[WHITE] # 4 THEN 0
                 ELSE (IF Advised(p, 24, WHITE) THEN 10 ELSE 0)
                        + IF KingsPinned(p) THEN PinScore(p) ELSE -Danger(p, WHITE, 4, 20)
        black == IF p.pos[BLACK] # 184 \/ KingsPinned(p) THEN 0
                 ELSE (IF Stray \/ At(p, 164) = 40 THEN -10 ELSE 0) + Danger(p, BLACK, 184, -20)
    IN  MaterialTable(p.material[side]) - MaterialTable(p.material[Other(side)])
          + IF side = WHITE THEN white + black ELSE -(white + black)

-----------------------------------------------------------------------------
(* The position: Side, board, pos, difEval, hashKeyL, materialIndex,       *)
(* revMovCnt, the repetition stack, last pushed first, gameMove, GamePtr.  *)
Array == <<1, 5, 9, 7, 0, 8, 10, 6, 2>>
Opening ==
    [sq \in (0..8) \cup (180..188) |-> Array[(sq % 180) + 1] + (IF sq < 20 THEN WHITE ELSE BLACK)]
      @@ [sq \in {60 + 2 * k : k \in 0..4} |-> WHITE + 11 + ((sq - 60) \div 2)]
      @@ [sq \in {120 + 2 * k : k \in 0..4} |-> BLACK + 11 + ((sq - 120) \div 2)]
      @@ (41 :> WHITE + 3 @@ 47 :> WHITE + 4 @@ 141 :> BLACK + 3 @@ 147 :> BLACK + 4)

SumOf(f) == FoldFunction(LAMBDA x, sum : x + sum, 0, f)
(* What the counters are for this board: InitGame's constants are those of *)
(* the opening.                                                            *)
DifEval(b, side) == SumOf([sq \in DOMAIN b |-> IF Color(b[sq]) = side THEN PST(b[sq], sq) ELSE -PST(b[sq], sq)])
Material(b) == [side \in {WHITE, BLACK} |-> SumOf([sq \in DOMAIN b |-> Mval(b[sq], side)])]
HashKey(b) == UNION {Zobrist(b[sq], sq) : sq \in DOMAIN b}

Position(b, side, moves) ==
    [side |-> side, board |-> b,
     pos |-> [piece \in {b[sq] : sq \in DOMAIN b} |-> CHOOSE sq \in DOMAIN b : b[sq] = piece],
     dif |-> DifEval(b, side), key |-> HashKey(b), material |-> Material(b),
     rev |-> 0, rep |-> <<>>, ply |-> NullPly, moves |-> moves]

(* Mutant: the captured piece is left in the material.                     *)
MadeUncounted(p, m, check, jitter) ==
    LET piece == p.board[m[1]]
        victim == At(p, m[2])
        key == Xor(p.key, Xor(Xor(Zobrist(piece, m[1]), Zobrist(piece, m[2])), Zobrist(victim, m[2])))
    IN  [side |-> Other(p.side),
         board |-> (m[2] :> piece) @@ [sq \in DOMAIN p.board \ {m[1]} |-> p.board[sq]],
         pos |-> (piece :> m[2]) @@ [x \in DOMAIN p.pos \ {victim} |-> p.pos[x]],
         dif |-> -p.dif - PST(victim, m[2]) - PST(piece, m[2]) + PST(piece, m[1]) + jitter,
         key |-> key,
         material |-> p.material,
         rev |-> p.rev + 1, rep |-> <<[key |-> key, check |-> check]>> \o p.rep,
         ply |-> m, moves |-> p.moves + 1]

(* A move made: by MakeMove, and in the search, which counts pawn moves    *)
(* ahead as irreversible too and adds its jitter.                          *)
Made(p, m, check, jitter) ==
    LET piece == p.board[m[1]]
        victim == At(p, m[2])
        key == Xor(p.key, Xor(Xor(Zobrist(piece, m[1]), Zobrist(piece, m[2])), Zobrist(victim, m[2])))
    IN  [side |-> Other(p.side),
         board |-> (m[2] :> piece) @@ [sq \in DOMAIN p.board \ {m[1]} |-> p.board[sq]],
         pos |-> (piece :> m[2]) @@ [x \in DOMAIN p.pos \ {victim} |-> p.pos[x]],
         dif |-> -p.dif - PST(victim, m[2]) - PST(piece, m[2]) + PST(piece, m[1]) + jitter,
         key |-> key,
         material |-> [side \in DOMAIN p.material |-> p.material[side] - Mval(victim, side)],
         rev |-> IF victim = EMPTY THEN p.rev + 1 ELSE 0,
         rep |-> <<[key |-> key, check |-> check]>> \o p.rep,
         ply |-> m, moves |-> p.moves + 1]

MakeMove(p, m) == Made(p, m, StupidInCheck(p, p.side, p.pos[p.side]), 0)

(* Is the move tried, or is it a repetition with a value of its own: lost, *)
(* or drawn when both sides or neither gave check all along?               *)
Irreversible(p, m) ==
    \/ At(p, m[2]) # EMPTY
    \/ KindOf(p.board[m[1]]) = "P" /\ m[2] - m[1] \in {-20, 20}
Repetition(p, m, inCheck) ==
    LET key == Made(p, m, inCheck, 0).key
        Perpetual(from) == \A j \in 0..from : (from - j) % 2 = 0 => p.rep[j + 1].check
        Mine(i) == Perpetual(i - 1)
        His(i) == inCheck /\ Perpetual(i - 2)
        Again == {i \in 3..p.rev : i % 2 = 1 /\ i < Len(p.rep) /\ p.rep[i + 1].key = key}
        first == CHOOSE i \in Again : \A k \in Again : i <= k
    IN  IF Irreversible(p, m) \/ Again = {} \/ (His(first) /\ ~Mine(first)) THEN {}
        ELSE {IF Mine(first) # His(first) THEN -INF ELSE 0}

-----------------------------------------------------------------------------
(* The moves of a node: numbers with a key above their squares, so that    *)
(* they sort by their keys; a key is a byte.                               *)
Coded(p, m) ==
    LET piece == p.board[m[1]]
        victim == At(p, m[2])
        key == IF victim = EMPTY THEN PST(piece, m[2]) - PST(piece, m[1]) + 128
               ELSE PST(victim, m[2]) - (PST(piece, m[1]) \div 16)
    IN  (key % 256) * 65536 + m[1] * 256 + m[2]
Decoded(n) == <<(n \div 256) % 256, n % 256>>

Captures(p, L) == SelectSeq(L, LAMBDA m : At(p, m[2]) # EMPTY)
Quiets(p, L) == SelectSeq(L, LAMBDA m : At(p, m[2]) = EMPTY)
CodedSeq(p, L) == [k \in 1..Len(L) |-> Coded(p, L[k])]
TakesKing(p, L) == \E k \in 1..Len(L) : At(p, L[k][2]) = Other(p.side)

Swapped(L, i, j) == [L EXCEPT ![i] = L[j], ![j] = L[i]]

(* The next move is sought as late as possible: the capture of the highest *)
(* key, the killers of the level, then the good moves sorted, the others   *)
(* as they are (up to the swaps that separate them).                       *)
Ordered(s, killers) ==
    LET L == s.list
        late == {i \in s.cur..Len(L) : L[i] \in {killers[1], killers[2]}}
        best == CHOOSE i \in s.cur..Len(L) : \A j \in s.cur..Len(L) : L[i] >= L[j]
        capture == CHOOSE i \in s.cur..s.captures : \A j \in s.cur..s.captures : L[i] >= L[j]
        Good(n) == n > L[best] - 8 * 65536
        rest == SubSeq(L, s.cur, Len(L))
        sorted == SubSeq(L, 1, s.cur - 1)
                    \o SortSeq(SelectSeq(rest, Good), LAMBDA m, n : m > n)
                    \o SelectSeq(rest, LAMBDA n : ~Good(n))
    IN  IF s.must = 0 THEN s
        ELSE IF s.cur <= s.captures THEN [s EXCEPT !.list = Swapped(L, s.cur, capture)]
        ELSE IF s.must > 1 /\ late # {}
             THEN [s EXCEPT !.list = Swapped(L, s.cur, CHOOSE i \in late : \A j \in late : i <= j),
                            !.must = @ - 1]
        ELSE [s EXCEPT !.list = sorted, !.must = 0]

(* The value of a node, and what a search leaves: killers, and the move.   *)
Value(vl, t) == [vl |-> vl, t |-> t]
KillersAt(t, level) == IF level \in DOMAIN t.killers THEN t.killers[level] ELSE <<0, 0>>

RECURSIVE Search(_, _, _, _, _, _, _)
RECURSIVE Iterate(_, _)
RECURSIVE Try(_, _)

(* One move of a node c after the other, in the iteration s.  A search is  *)
(* handed as a parameter to what is done with its value.                   *)
Moved(c, m) ==
    LET p == c.p
        jitter == IF c.root /\ p.moves < 8 /\ m[2] % 2 = 0 THEN c.jitter ELSE 0
    IN  [Made(p, m, c.check, jitter) EXCEPT !.rev = IF Irreversible(p, m) THEN 0 ELSE p.rev + 1]
Negated(v) == Value(-v.vl, v.t)
Explored(c, o, m, q, repeated) ==
    IF repeated # {} THEN Value(CHOOSE vl \in repeated : TRUE, o.t)
    ELSE IF /\ c.check \/ KindOf(c.p.board[m[1]]) = "K"
            /\ StupidInCheck(q, c.p.side, q.pos[c.p.side])
    THEN Value(-INF, o.t)
    ELSE Negated(Search(q, -c.beta, -o.alpha, IF o.must # 0 THEN o.first ELSE -1,
                        o.iter - 1, c.level + 1, o.t))
Judged(c, o, r) ==
    LET code == o.list[o.cur]
        k == KillersAt(r.t, c.level)
        killed == [r.t EXCEPT !.killers = (c.level :> <<code, IF code # k[1] THEN k[1] ELSE k[2]>>) @@ @]
        next == [o EXCEPT !.cur = @ + 1, !.first = 0, !.t = r.t]
        better == [next EXCEPT !.best = r.vl, !.bestAt = o.cur]
    IN  IF r.vl <= o.best THEN next
        ELSE IF r.vl < c.beta THEN [better EXCEPT !.alpha = IF r.vl <= @ THEN @ ELSE r.vl]
        ELSE [better EXCEPT !.cut = TRUE, !.t = IF o.cur > o.captures THEN killed ELSE r.t]
TryOrdered(c, o) ==
    LET m == Decoded(o.list[o.cur])
    IN  Judged(c, o, Explored(c, o, m, Moved(c, m), Repetition(c.p, m, c.check)))
Try(c, s) ==
    IF s.cut \/ s.cur > s.last \/ (c.root /\ s.iter = c.stop[1] /\ s.cur > c.stop[2]) THEN s
    ELSE Try(c, TryOrdered(c, Ordered(s, KillersAt(s.t, c.level))))

(* Iterative deepening, in each node; the best move is tried first in the  *)
(* next iteration, unless it ended in a cutoff.                            *)
Iterated(c, e) ==
    LET done == c.root /\ (e.iter = c.stop[1] \/ e.iter >= 2 * (INF - e.best) - 1
                                              \/ e.iter >= 2 * (e.best + INF))
        front == IF e.cut \/ e.iter >= c.depth \/ e.bestAt > Len(e.list) THEN e
                 ELSE [e EXCEPT !.list = <<e.list[e.bestAt]>> \o RemoveAt(@, e.bestAt),
                                !.bestAt = 1]
        reached == IF e.iter < c.depth - 1 /\ ~c.root /\ c.pv = 0 THEN c.depth - 1 ELSE e.iter
        iter == reached + IF c.root \/ c.pv = 0 THEN 1 ELSE 2
    IN  IF done \/ iter > c.depth THEN e ELSE Iterate(c, [front EXCEPT !.iter = iter])
Iterate(c, s) ==
    Iterated(c, Try(c, [s EXCEPT !.cur = 1, !.best = c.start, !.alpha = c.alpha, !.first = 2,
                                 !.cut = FALSE]))

Nulled(p) == [p EXCEPT !.side = Other(@), !.dif = -@, !.rev = 0, !.ply = NullPly]

(* The value of a node is worth more the later it is reached, if a loss.   *)
Later(n, best, t) == Value(best + (IF best < n.value THEN 1 ELSE 0), t)
Found(n, e) ==
    Later(n, e.best, IF n.root /\ e.bestAt <= Len(e.list)
                     THEN [e.t EXCEPT !.move = Decoded(e.list[e.bestAt])] ELSE e.t)
Listed(n, t, captures, quiets) ==
    LET list == Reverse(CodedSeq(n.p, captures)) \o CodedSeq(n.p, quiets)
        depth == IF n.quiet THEN 1 ELSE n.depth
        c == [n EXCEPT !.depth = depth, !.pv = IF @ < 0 THEN 0 ELSE @,
                       !.alpha = IF n.quiet /\ n.value > @ THEN n.value ELSE @]
        iter == IF n.root THEN 1 ELSE IF n.level \in Garbage THEN depth
                ELSE IF c.pv # 0 THEN 2 - (depth % 2) ELSE IF depth > 2 THEN 1 ELSE depth
    IN  Iterate(c, [list |-> list, captures |-> Len(captures),
                    last |-> IF n.quiet THEN Len(captures) ELSE Len(list),
                    must |-> 3, t |-> t, iter |-> iter, cur |-> 1, best |-> n.start,
                    bestAt |-> Len(captures) + 1, alpha |-> c.alpha, first |-> 2, cut |-> FALSE])
Generate(n, t, L) ==
    IF TakesKing(n.p, L) THEN Later(n, INF, t)
    ELSE Found(n, Listed(n, t, Captures(n.p, L), Quiets(n.p, L)))
AfterNull(n, null) ==
    IF null.vl >= n.beta THEN Later(n, n.beta, null.t)
    ELSE Generate(n, null.t, Generated(n.p))

(* At depth 0 only captures are searched, and the value of the position    *)
(* stands.                                                                 *)
Node(n, t) ==
    LET reduced == n.depth - 3 - IF n.pv < 0 THEN 1 ELSE 0
    IN  IF n.start >= n.beta THEN Later(n, n.start, t)
        ELSE IF LeavesKing(n.p, n.p.ply) THEN Later(n, INF, t)
        ELSE AfterNull(n, IF ~n.quiet /\ ~n.check /\ n.value >= n.beta
                          THEN Negated(Search(Nulled(n.p), -n.beta, 1 - n.beta, 0,
                                              IF reduced < 0 THEN 0 ELSE reduced, n.level + 1, t))
                          ELSE Value(n.beta - 1, t))

(* A check is worth another ply.                                           *)
Valued(p, alpha, beta, pv, depth0, level, t, value, check) ==
    LET depth == depth0 + IF check THEN 1 ELSE 0
    IN  Node([p |-> p, value |-> value, check |-> check, level |-> level, pv |-> pv,
              alpha |-> IF alpha < value THEN alpha - 1 ELSE alpha,
              beta |-> IF beta <= value THEN beta - 1 ELSE beta,
              depth |-> depth, quiet |-> depth <= 0, start |-> IF depth <= 0 THEN value ELSE -INF,
              root |-> depth0 = 1000, stop |-> t.stop, jitter |-> t.jitter], t)
Search(p, alpha, beta, pv, depth, level, t) ==
    Valued(p, alpha, beta, pv, depth, level, t,
           p.dif + Evaluate(p, p.side) + 3, GivesCheck(p, p.ply))

-----------------------------------------------------------------------------
(* The engine.                                                             *)
VARIABLES
    pos,            \* the globals of the position
    move,           \* the move last given out
    killer          \* killer, which lasts from search to search

vars == <<pos, move, killer>>

(* InitGame sets up the opening position, whatever position it is given;   *)
(* in another one the game has come by a capture.                          *)
InitGame == [Position(Opening, WHITE, 0) EXCEPT !.ply = <<0, 0>>]
Reached(b, side, moves) ==
    [Position(b, side, moves) EXCEPT !.rep = <<[key |-> HashKey(b), check |-> FALSE]>>]

Start(p) == pos = p /\ move = NullPly /\ killer = <<>>

OnOpponentMove(m) ==
    /\ pos' = MakeMove(pos, m)
    /\ UNCHANGED <<move, killer>>

(* Without a move that does not lose at once the engine resigns: it prints *)
(* so, makes no move, and gives out the move it gave out before; gameMove  *)
(* is the one found all the same.  A search stops in its iteration         *)
(* stop[1], MaxDepth or one that lasts too long, after stop[2] moves of    *)
(* the root.                                                               *)
Answered(r) ==
    /\ killer' = r.t.killers
    /\ IF r.vl > 1 - INF THEN move' = r.t.move /\ pos' = MakeMove(pos, move')
       ELSE pos' = [pos EXCEPT !.ply = r.t.move] /\ UNCHANGED move
GenerateNextMove(stop) ==
    \E jitter \in (IF pos.moves < 8 THEN Jitter ELSE {0}) :
        Answered(Search(pos, -INF, INF, 0, 1000, 1,
                        [killers |-> killer, move |-> pos.ply, stop |-> stop, jitter |-> jitter]))

-----------------------------------------------------------------------------
(* Correctness.                                                            *)

(* The moves let through by the tests of the last move: at a node, before  *)
(* and after the move.                                                     *)
Legal(p) ==
    {m \in ToSet(Generated(p)) :
        LET q == MakeMove(p, m)
        IN  /\ (GivesCheck(p, p.ply) \/ KindOf(p.board[m[1]]) = "K")
                 => ~StupidInCheck(q, p.side, q.pos[p.side])
            /\ ~LeavesKing(q, q.ply)}

(* What moves change step by step is what the board gives; and the check   *)
(* found from the last move alone is the one a look all around finds.      *)
BooksAgree(p) ==
    /\ p.pos = [piece \in {p.board[sq] : sq \in DOMAIN p.board} |->
                   CHOOSE sq \in DOMAIN p.board : p.board[sq] = piece]
    /\ p.dif = DifEval(p.board, p.side)
    /\ p.material = Material(p.board)
    /\ p.key = HashKey(p.board)
    /\ GivesCheck(p, p.ply) = StupidInCheck(p, p.side, p.pos[p.side])
=============================================================================
