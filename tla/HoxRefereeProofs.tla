-------------------------- MODULE HoxRefereeProofs --------------------------
(***************************************************************************)
(* Theorems about HoxReferee, for any set of pieces with two kings and any *)
(* positions a game is taken up from.                                      *)
(***************************************************************************)
EXTENDS HoxReferee, FiniteSetTheorems, TLAPS

-----------------------------------------------------------------------------
(* What a move does to a board whose two books agree, in one expression.   *)

Moved(b, p, from, to, c) ==
    [cells  |-> [q \in Squares |-> IF q = to THEN p ELSE IF q = from THEN None ELSE b.cells[q]],
     pos    |-> [b.pos EXCEPT ![p] = to],
     active |-> b.active \ {c},
     dead   |-> b.dead \cup ({c} \ {None})]

(* A cell that is not empty points to an active piece, which is there.     *)
LEMMA PieceThere ==
    ASSUME NEW b \in Boards, Agrees(b), NEW q \in Squares, HasPieceAt(b, q)
    PROVE  /\ PieceAt(b, q) \in Pieces
           /\ PieceAt(b, q) \in b.active
           /\ b.cells[q] = PieceAt(b, q)
           /\ b.pos[PieceAt(b, q)] = q
BY PiecesAssumption DEF Boards, Agrees, HasPieceAt, PieceAt

(* _CapturePiece unsets the piece and moves it to the dead ones.            *)
LEMMA CaptureForm ==
    ASSUME NEW b \in Boards, Agrees(b), NEW q \in Squares, HasPieceAt(b, q)
    PROVE  Capture(b, PieceAt(b, q)) =
               [cells  |-> [b.cells EXCEPT ![q] = None],
                pos    |-> b.pos,
                active |-> b.active \ {PieceAt(b, q)},
                dead   |-> b.dead \cup {PieceAt(b, q)}]
<1> DEFINE p == PieceAt(b, q)
<1>1. p \in Pieces /\ p \in b.active /\ b.cells[q] = p /\ b.pos[p] = q
  BY PieceThere
<1>2. p \notin b.dead
  BY <1>1 DEF Agrees
<1>3. Unset(b, p) = [b EXCEPT !.cells[q] = None]
  BY <1>1 DEF Unset
<1> HIDE DEF p
<1> QED
  BY <1>1, <1>2, <1>3 DEF Capture, Boards, p

(* A piece moves to an empty cell.                                          *)
LEMMA MoveForm ==
    ASSUME NEW b \in Boards, NEW p \in Pieces, NEW to \in Squares,
           b.cells[b.pos[p]] = p, b.cells[to] = None
    PROVE  MovePieceTo(b, p, to) =
               [cells  |-> [b.cells EXCEPT ![b.pos[p]] = None, ![to] = p],
                pos    |-> [b.pos EXCEPT ![p] = to],
                active |-> b.active,
                dead   |-> b.dead]
<1> DEFINE gone == [Unset(b, p) EXCEPT !.pos[p] = to]
<1>1. gone = [cells  |-> [b.cells EXCEPT ![b.pos[p]] = None],
              pos    |-> [b.pos EXCEPT ![p] = to],
              active |-> b.active,
              dead   |-> b.dead]
  <2>1. Unset(b, p) = [cells  |-> [b.cells EXCEPT ![b.pos[p]] = None],
                       pos    |-> b.pos,
                       active |-> b.active,
                       dead   |-> b.dead]
    BY DEF Unset, Boards
  <2> QED
    BY <2>1
<1>2. b.pos \in [Pieces -> Squares] /\ b.cells \in [Squares -> Pieces \cup {None}]
  BY DEF Boards
<1>3. gone.pos[p] = to /\ gone.cells[to] = None
  BY <1>1, <1>2, PiecesAssumption
<1>4. Set(gone, p) = [gone EXCEPT !.cells[to] = p]
  BY <1>3 DEF Set
<1>5. MovePieceTo(b, p, to) = Set(gone, p)
  BY DEF MovePieceTo
<1> HIDE DEF gone
<1> QED
  BY <1>1, <1>4, <1>5

(* A dead piece is put back where it was captured.                          *)
LEMMA PutbackForm ==
    ASSUME NEW b \in Boards, NEW p \in Pieces, p \in b.dead, b.cells[b.pos[p]] = None
    PROVE  Putback(b, p) =
               [cells  |-> [b.cells EXCEPT ![b.pos[p]] = p],
                pos    |-> b.pos,
                active |-> b.active \cup {p},
                dead   |-> b.dead \ {p}]
<1> DEFINE alive == [cells  |-> b.cells,
                     pos    |-> b.pos,
                     active |-> b.active \cup {p},
                     dead   |-> b.dead \ {p}]
<1>1. Putback(b, p) = Set(alive, p)
  BY DEF Putback
<1>2. Set(alive, p) = [alive EXCEPT !.cells[b.pos[p]] = p]
  BY DEF Set
<1> QED
  BY <1>1, <1>2

(* _RecordMove of a piece to another place.                                 *)
LEMMA RecordForm ==
    ASSUME NEW b \in Boards, Agrees(b), NEW from \in Squares, NEW to \in Squares,
           from # to, HasPieceAt(b, from)
    PROVE  Record(b, from, to) = Moved(b, PieceAt(b, from), from, to, PieceAt(b, to))
<1> DEFINE p == PieceAt(b, from)
           c == PieceAt(b, to)
<1>1. p \in Pieces /\ p \in b.active /\ b.cells[from] = p /\ b.pos[p] = from
  BY PieceThere
<1>2. None \notin Pieces /\ c = b.cells[to] /\ c \in Pieces \cup {None}
  BY PiecesAssumption DEF PieceAt, Boards
<1>3. /\ b.cells \in [Squares -> Pieces \cup {None}]
      /\ b.pos \in [Pieces -> Squares]
      /\ b.active \subseteq Pieces /\ b.dead \subseteq Pieces
  BY DEF Boards
<1>4. CASE c = None
  <2>1. Record(b, from, to) = MovePieceTo(b, p, to)
    BY <1>4 DEF Record
  <2>2. MovePieceTo(b, p, to) =
            [cells  |-> [b.cells EXCEPT ![from] = None, ![to] = p],
             pos    |-> [b.pos EXCEPT ![p] = to],
             active |-> b.active,
             dead   |-> b.dead]
    <3> HIDE DEF p, c
    <3> QED
      BY <1>1, <1>2, <1>4, MoveForm
  <2>3. [b.cells EXCEPT ![from] = None, ![to] = p] =
            [q \in Squares |-> IF q = to THEN p ELSE IF q = from THEN None ELSE b.cells[q]]
    <3> HIDE DEF p, c
    <3> QED
      BY <1>3
  <2>4. b.active \ {c} = b.active /\ b.dead \cup ({c} \ {None}) = b.dead
    BY <1>2, <1>3, <1>4
  <2> QED
    BY <2>1, <2>2, <2>3, <2>4 DEF Moved
<1>5. CASE c # None
  <2> DEFINE d == [cells  |-> [b.cells EXCEPT ![to] = None],
                   pos    |-> b.pos,
                   active |-> b.active \ {c},
                   dead   |-> b.dead \cup {c}]
  <2>1. Capture(b, c) = d
    BY <1>5, CaptureForm DEF HasPieceAt
  <2>2. c \in Pieces
    BY <1>2, <1>5
  <2>3. d \in Boards /\ d.cells[from] = p /\ d.cells[to] = None /\ d.pos[p] = from
    <3> HIDE DEF p, c
    <3> QED
      BY <1>1, <1>2, <1>3, <2>2 DEF Boards
  <2>4. Record(b, from, to) = MovePieceTo(d, p, to)
    <3>1. PieceAt(d, from) = p
      BY <2>3 DEF PieceAt
    <3> QED
      BY <1>5, <2>1, <3>1 DEF Record
  <2>5. MovePieceTo(d, p, to) =
            [cells  |-> [d.cells EXCEPT ![from] = None, ![to] = p],
             pos    |-> [d.pos EXCEPT ![p] = to],
             active |-> d.active,
             dead   |-> d.dead]
    <3> HIDE DEF p, c, d
    <3> QED
      BY <1>1, <2>3, MoveForm
  <2>6. [d.cells EXCEPT ![from] = None, ![to] = p] =
            [q \in Squares |-> IF q = to THEN p ELSE IF q = from THEN None ELSE b.cells[q]]
    <3> HIDE DEF p, c
    <3> QED
      BY <1>3
  <2>7. {c} \ {None} = {c}
    BY <1>5
  <2> QED
    BY <2>4, <2>5, <2>6, <2>7 DEF Moved
<1> QED
  BY <1>4, <1>5

(* The board after a move has its types and its two books agree.            *)
LEMMA MovedAgrees ==
    ASSUME NEW b \in Boards, Agrees(b), NEW from \in Squares, NEW to \in Squares,
           from # to, HasPieceAt(b, from)
    PROVE  LET r == Moved(b, PieceAt(b, from), from, to, PieceAt(b, to))
           IN  r \in Boards /\ Agrees(r)
<1> DEFINE p == PieceAt(b, from)
           c == PieceAt(b, to)
           r == Moved(b, p, from, to, c)
<1>1. p \in Pieces /\ p \in b.active /\ b.cells[from] = p /\ b.pos[p] = from
  BY PieceThere
<1>2. None \notin Pieces /\ c = b.cells[to] /\ c \in Pieces \cup {None}
  BY PiecesAssumption DEF PieceAt, Boards
<1>3. /\ b.cells \in [Squares -> Pieces \cup {None}]
      /\ b.pos \in [Pieces -> Squares]
      /\ b.active \subseteq Pieces /\ b.dead \subseteq Pieces
  BY DEF Boards
<1>4. c # None => c \in Pieces /\ c \in b.active /\ b.pos[c] = to
  BY PieceThere DEF HasPieceAt
<1>5. /\ b.active \cap b.dead = {} /\ b.active \cup b.dead = Pieces
      /\ \A q \in Squares, m \in Pieces : b.cells[q] = m <=> m \in b.active /\ b.pos[m] = q
  BY DEF Agrees
<1> HIDE DEF p, c
<1>6. r \in Boards
  BY <1>1, <1>2, <1>3 DEF Moved, Boards
<1>7. r.active \cap r.dead = {} /\ r.active \cup r.dead = Pieces
  BY <1>2, <1>4, <1>5 DEF Moved
<1>8. \A q \in Squares, m \in Pieces : r.cells[q] = m <=> m \in r.active /\ r.pos[m] = q
  <2> SUFFICES ASSUME NEW q \in Squares, NEW m \in Pieces
               PROVE  r.cells[q] = m <=> m \in r.active /\ r.pos[m] = q
    OBVIOUS
  <2>1. /\ r.cells[q] = IF q = to THEN p ELSE IF q = from THEN None ELSE b.cells[q]
        /\ r.pos[m] = IF m = p THEN to ELSE b.pos[m]
        /\ r.active = b.active \ {c}
    BY <1>3 DEF Moved
  <2>2. p # c
    BY <1>1, <1>2, <1>4
  <2> HIDE DEF r
  <2>3. CASE m = p
    BY <1>1, <1>2, <1>5, <2>1, <2>2, <2>3
  <2>4. CASE m # p
    BY <1>1, <1>2, <1>4, <1>5, <2>1, <2>4
  <2> QED
    BY <2>3, <2>4
<1> QED
  BY <1>6, <1>7, <1>8 DEF Agrees, p, c

(* No piece moves to where it stands, on the board or beside it.            *)
LEMMA MovesAway ==
    ASSUME NEW b \in Boards, NEW p \in Pieces, NEW to \in Targets, CanMoveTo(b, p, to)
    PROVE  to # b.pos[p]
<1> SUFFICES ASSUME to = b.pos[p] PROVE FALSE
  OBVIOUS
<1>1. to[1] \in Int /\ to[2] \in Int
  BY DEF Targets
<1>2. Distance(to[1], to[1]) = 0 /\ Distance(to[2], to[2]) = 0
  BY <1>1 DEF Distance
<1>3. ~Straight(to, to) /\ to[2] # Forward(to[2], color[p])
  BY <1>1 DEF Straight, Forward
<1>4. ~KingMoves(b, p, to, to) /\ ~AdvisorMoves(b, p, to, to) /\ ~ElephantMoves(b, p, to, to)
  BY <1>2 DEF KingMoves, AdvisorMoves, ElephantMoves
<1>5. ~ChariotMoves(b, p, to, to) /\ ~CannonMoves(b, p, to, to)
  BY <1>3 DEF ChariotMoves, CannonMoves
<1>6. ~HorseMoves(b, p, to, to) /\ ~PawnMoves(b, p, to, to)
  BY <1>2, <1>3 DEF HorseMoves, PawnMoves
<1>7. type[p] \in Types
  BY PiecesAssumption
<1> QED
  BY <1>4, <1>5, <1>6, <1>7 DEF CanMoveTo, Types

(* A move beside the board leaves the board as it is.                       *)
LEMMA BesideTheBoard ==
    ASSUME NEW b, NEW from, NEW to, to \notin Squares
    PROVE  Record(b, from, to) = b /\ Undo(b, from, to, PieceAt(b, to)) = b
BY DEF Record, Undo, PieceAt, HasPieceAt, MovePieceTo

(* _UndoMove takes back what _RecordMove did, to the last cell and list.    *)
LEMMA UndoRestores ==
    ASSUME NEW b \in Boards, Agrees(b), NEW from \in Squares, NEW to \in Squares,
           from # to, HasPieceAt(b, from)
    PROVE  Undo(Record(b, from, to), from, to, PieceAt(b, to)) = b
<1> DEFINE p == PieceAt(b, from)
           c == PieceAt(b, to)
           r == Moved(b, p, from, to, c)
           back == [cells  |-> [r.cells EXCEPT ![to] = None, ![from] = p],
                    pos    |-> [r.pos EXCEPT ![p] = from],
                    active |-> r.active,
                    dead   |-> r.dead]
<1>1. p \in Pieces /\ p \in b.active /\ b.cells[from] = p /\ b.pos[p] = from
  BY PieceThere
<1>2. None \notin Pieces /\ c = b.cells[to] /\ c \in Pieces \cup {None}
  BY PiecesAssumption DEF PieceAt, Boards
<1>3. /\ b.cells \in [Squares -> Pieces \cup {None}]
      /\ b.pos \in [Pieces -> Squares]
      /\ b.active \subseteq Pieces /\ b.dead \subseteq Pieces
      /\ b = [cells |-> b.cells, pos |-> b.pos, active |-> b.active, dead |-> b.dead]
  BY DEF Boards
<1>4. c # None => c \in Pieces /\ c \in b.active /\ b.pos[c] = to /\ c \notin b.dead
  BY PieceThere DEF HasPieceAt, Agrees
<1>5. p # c
  BY <1>1, <1>2, <1>4
<1>6. Record(b, from, to) = r /\ r \in Boards
  BY RecordForm, MovedAgrees
<1>7. /\ r.cells = [q \in Squares |-> IF q = to THEN p ELSE IF q = from THEN None ELSE b.cells[q]]
      /\ r.pos = [b.pos EXCEPT ![p] = to]
      /\ r.active = b.active \ {c}
      /\ r.dead = b.dead \cup ({c} \ {None})
  BY DEF Moved
<1> HIDE DEF p, c, r
<1>8. PieceAt(r, to) = p /\ r.cells[to] = p /\ r.cells[from] = None /\ r.pos[p] = to
  BY <1>1, <1>3, <1>7 DEF PieceAt
<1>9. MovePieceTo(r, p, from) = back
  BY <1>1, <1>6, <1>8, MoveForm
<1>10. Undo(r, from, to, c) =
           IF c = None THEN back ELSE Putback([back EXCEPT !.pos[c] = to], c)
  BY <1>1, <1>2, <1>8, <1>9 DEF Undo, HasPieceAt
<1>11. back.pos = b.pos
  <2>1. back.pos = [b.pos EXCEPT ![p] = from]
    BY <1>1, <1>3, <1>7
  <2> QED
    BY <1>1, <1>3, <2>1
<1>12. back.cells = [b.cells EXCEPT ![to] = None]
  BY <1>1, <1>3, <1>7
<1>13. CASE c = None
  <2>1. back.cells = b.cells
    <3>1. b.cells[to] = None
      BY <1>2, <1>13
    <3> QED
      BY <1>3, <1>12, <3>1
  <2>2. r.active = b.active /\ r.dead = b.dead
    BY <1>2, <1>3, <1>7, <1>13
  <2> QED
    BY <1>3, <1>6, <1>10, <1>11, <1>13, <2>1, <2>2 DEF p, c
<1>14. CASE c # None
  <2> DEFINE e == [cells  |-> [b.cells EXCEPT ![to] = None],
                   pos    |-> b.pos,
                   active |-> b.active \ {c},
                   dead   |-> b.dead \cup {c}]
  <2>1. c \in Pieces /\ b.pos[c] = to /\ b.cells[to] = c /\ c \in b.active /\ c \notin b.dead
    BY <1>2, <1>4, <1>14
  <2>2. [b.pos EXCEPT ![c] = to] = b.pos
    BY <1>3, <2>1
  <2>3. {c} \ {None} = {c}
    BY <1>14
  <2>4. [back EXCEPT !.pos[c] = to] = e
    BY <1>7, <1>11, <1>12, <2>2, <2>3
  <2>5. e \in Boards
    BY <1>3, <2>1 DEF Boards
  <2>6. c \in e.dead /\ e.pos[c] = to /\ e.cells[to] = None
    BY <1>3, <2>1
  <2>7. Putback(e, c) = [cells  |-> [e.cells EXCEPT ![to] = c],
                         pos    |-> e.pos,
                         active |-> e.active \cup {c},
                         dead   |-> e.dead \ {c}]
    <3> HIDE DEF e
    <3> QED
      BY <2>1, <2>5, <2>6, PutbackForm
  <2>8. [e.cells EXCEPT ![to] = c] = b.cells
    BY <1>3, <2>1
  <2>9. e.active \cup {c} = b.active /\ e.dead \ {c} = b.dead /\ e.pos = b.pos
    BY <2>1
  <2> HIDE DEF e
  <2>10. Putback(e, c) = b
    BY <1>3, <2>7, <2>8, <2>9, Zenon
  <2> QED
    BY <1>6, <1>10, <1>14, <2>4, <2>10 DEF p, c
<1> QED
  BY <1>13, <1>14

-----------------------------------------------------------------------------
(* What a request finds.                                                    *)

(* The board of a position has its types and its two books agree.           *)
LEMMA StartAgrees ==
    ASSUME NEW s \in Starts
    PROVE  /\ BoardOf(s) \in Boards /\ Agrees(BoardOf(s))
           /\ BoardOf(s).active = Pieces
           /\ ~InCheck(BoardOf(s), "Black")
<1> DEFINE cells == [q \in Squares |-> IF \E p \in Pieces : s[p] = q
                                       THEN CHOOSE p \in Pieces : s[p] = q ELSE None]
<1>1. /\ s \in [Pieces -> Squares]
      /\ \A p, r \in Pieces : s[p] = s[r] => p = r
      /\ ~InCheck(BoardOf(s), "Black")
  BY StartsAssumption
<1>2. BoardOf(s) = [cells |-> cells, pos |-> s, active |-> Pieces, dead |-> {}]
  BY DEF BoardOf
<1>3. cells \in [Squares -> Pieces \cup {None}]
  OBVIOUS
<1>4. \A q \in Squares, p \in Pieces : cells[q] = p <=> s[p] = q
  BY <1>1, PiecesAssumption
<1> HIDE DEF cells
<1> QED
  BY <1>1, <1>2, <1>3, <1>4 DEF Boards, Agrees

(* What validateMove records: the move of a piece to another place.         *)
LEMMA RequestedMove ==
    ASSUME TypeOK, BoardAgrees, NEW from \in Squares, NEW to \in Targets, Requested(from, to)
    PROVE  /\ PieceAt(board, from) \in Pieces
           /\ PieceAt(board, from) \in board.active
           /\ board.pos[PieceAt(board, from)] = from
           /\ from # to
           /\ HasPieceAt(board, from)
<1>1. board \in Boards /\ Agrees(board)
  BY DEF TypeOK, BoardAgrees
<1>2. HasPieceAt(board, from) /\ CanMoveTo(board, PieceAt(board, from), to)
  BY DEF Requested, IsValidMove
<1> QED
  BY <1>1, <1>2, PieceThere, MovesAway

-----------------------------------------------------------------------------
(* The inductive invariant: besides the types and the books, the side that *)
(* has just moved is not in check, so that no move can reach a king.       *)

MoverSafe == ~InCheck(board, Opponent(nextColor))

RefereeInv == TypeOK /\ BoardAgrees /\ MoverSafe /\ KingsLive

(* The board that an accepted move leads to.                                *)
LEMMA RecordKeeps ==
    ASSUME TypeOK, BoardAgrees, NEW from \in Squares, NEW to \in Targets, Requested(from, to)
    PROVE  Record(board, from, to) \in Boards /\ Agrees(Record(board, from, to))
<1>1. board \in Boards /\ Agrees(board)
  BY DEF TypeOK, BoardAgrees
<1>2. CASE to \in Squares
  BY <1>1, <1>2, RequestedMove, RecordForm, MovedAgrees
<1>3. CASE to \notin Squares
  BY <1>1, <1>3, BesideTheBoard
<1> QED
  BY <1>2, <1>3

(* No move takes a king: the side to move would have had it in check.       *)
LEMMA KingsKept ==
    ASSUME RefereeInv, NEW from \in Squares, NEW to \in Targets, Requested(from, to),
           NEW k \in Pieces, type[k] = "King"
    PROVE  k \in Record(board, from, to).active
<1>1. board \in Boards /\ Agrees(board) /\ k \in board.active /\ nextColor \in Colors
  BY DEF RefereeInv, TypeOK, BoardAgrees, KingsLive
<1> DEFINE p == PieceAt(board, from)
<1>2. p \in board.active /\ board.pos[p] = from /\ from # to /\ HasPieceAt(board, from)
  BY RequestedMove DEF RefereeInv
<1>3. color[p] = nextColor /\ IsValidMove(board, p, to)
  BY DEF Requested
<1>4. CASE to \in Squares /\ k = PieceAt(board, to)
  <2>1. HasPieceAt(board, to) /\ board.pos[k] = to
    BY <1>1, <1>4, PiecesAssumption, PieceThere DEF HasPieceAt
  <2>2. color[k] # color[p] /\ color[k] \in Colors
    BY <1>3, <1>4, <2>1, PiecesAssumption DEF IsValidMove
  <2>3. IsKing(k, Opponent(nextColor)) /\ color[p] # Opponent(nextColor)
    BY <1>1, <1>3, <2>2 DEF IsKing, Opponent, Colors
  <2>4. InCheck(board, Opponent(nextColor))
    <3> HIDE DEF p
    <3> QED
      BY <1>1, <1>2, <1>3, <2>1, <2>3 DEF InCheck
  <2> QED
    BY <2>4 DEF RefereeInv, MoverSafe
<1>5. CASE to \in Squares /\ k # PieceAt(board, to)
  <2>1. Record(board, from, to) = Moved(board, p, from, to, PieceAt(board, to))
    BY <1>1, <1>2, <1>5, RecordForm
  <2> QED
    BY <1>1, <1>5, <2>1 DEF Moved
<1>6. CASE to \notin Squares
  BY <1>1, <1>6, BesideTheBoard
<1> QED
  BY <1>4, <1>5, <1>6

(* A refused move is undone.                                                *)
LEMMA RefuseKeeps ==
    ASSUME TypeOK, BoardAgrees, NEW from \in Squares, NEW to \in Targets, Refuse(from, to)
    PROVE  board' = board
<1>1. board \in Boards /\ Agrees(board)
  BY DEF TypeOK, BoardAgrees
<1>2. Requested(from, to)
  BY DEF Refuse
<1>3. board' = Undo(Record(board, from, to), from, to, PieceAt(board, to))
  BY DEF Refuse
<1>4. CASE to \in Squares
  BY <1>1, <1>2, <1>3, <1>4, RequestedMove, UndoRestores
<1>5. CASE to \notin Squares
  BY <1>3, <1>5, BesideTheBoard
<1> QED
  BY <1>4, <1>5

(* A game that is taken up satisfies the invariant.                         *)
LEMMA RefereeInvInit == Init => RefereeInv
<1> SUFFICES ASSUME Init PROVE RefereeInv
  OBVIOUS
<1>1. PICK s \in Starts : board = BoardOf(s)
  BY DEF Init
<1>2. Opponent(nextColor) = "Black"
  BY DEF Init, Opponent
<1> QED
  BY <1>1, <1>2, StartAgrees, BoundAssumption
  DEF Init, RefereeInv, TypeOK, BoardAgrees, MoverSafe, KingsLive, Colors

(* Every request keeps it.                                                  *)
LEMMA RefereeInvNext == RefereeInv /\ [Next]_vars => RefereeInv'
<1> SUFFICES ASSUME RefereeInv, [Next]_vars PROVE RefereeInv'
  OBVIOUS
<1>0. /\ board \in Boards /\ Agrees(board) /\ nextColor \in Colors
      /\ status \in {"InProgress", "RedWin", "BlackWin"} /\ moves \in 0..MaxMoves
      /\ TypeOK /\ BoardAgrees
  BY DEF RefereeInv, TypeOK, BoardAgrees
<1>1. ASSUME NEW from \in Squares, NEW to \in Targets, Accept(from, to) PROVE RefereeInv'
  <2>1. Requested(from, to) /\ board' = Record(board, from, to)
    BY <1>1 DEF Accept
  <2>2. board' \in Boards /\ Agrees(board')
    BY <1>0, <2>1, RecordKeeps
  <2>3. /\ nextColor' = Opponent(nextColor)
        /\ status' \in {"InProgress", WinOf(nextColor)}
        /\ moves' = moves + 1 /\ moves < MaxMoves
        /\ ~InCheck(board', nextColor)
    BY <1>1, <2>1 DEF Accept, Safe
  <2>4. Opponent(nextColor') = nextColor /\ nextColor' \in Colors
    BY <1>0, <2>3 DEF Opponent, Colors
  <2>5. status' \in {"InProgress", "RedWin", "BlackWin"} /\ moves' \in 0..MaxMoves
    BY <1>0, <2>3, BoundAssumption DEF WinOf
  <2>6. TypeOK' /\ BoardAgrees'
    BY <2>2, <2>4, <2>5 DEF TypeOK, BoardAgrees
  <2>7. MoverSafe'
    BY <2>3, <2>4 DEF MoverSafe
  <2>8. KingsLive'
    BY <2>1, KingsKept DEF KingsLive
  <2> QED
    BY <2>6, <2>7, <2>8 DEF RefereeInv
<1>2. ASSUME NEW from \in Squares, NEW to \in Targets, Refuse(from, to) PROVE RefereeInv'
  <2>1. board' = board
    BY <1>0, <1>2, RefuseKeeps
  <2>2. nextColor' = nextColor /\ status' = status /\ moves' = moves
    BY <1>2 DEF Refuse
  <2> QED
    BY <2>1, <2>2 DEF RefereeInv, TypeOK, BoardAgrees, MoverSafe, KingsLive
<1>3. CASE ResetGame
  <2>1. PICK s \in Starts : board' = BoardOf(s)
    BY <1>3 DEF ResetGame
  <2>2. nextColor' = "Red" /\ status' = "InProgress" /\ moves' = 0
    BY <1>3 DEF ResetGame
  <2>3. Opponent(nextColor') = "Black"
    BY <2>2 DEF Opponent
  <2> QED
    BY <2>1, <2>2, <2>3, StartAgrees, BoundAssumption
    DEF RefereeInv, TypeOK, BoardAgrees, MoverSafe, KingsLive, Colors
<1>4. CASE UNCHANGED vars
  BY <1>4 DEF vars, RefereeInv, TypeOK, BoardAgrees, MoverSafe, KingsLive
<1> QED
  BY <1>1, <1>2, <1>3, <1>4 DEF Next

(* The invariant holds in every behaviour.                                  *)
LEMMA RefereeInvariant == Spec => []RefereeInv
<1> QED
  BY RefereeInvInit, RefereeInvNext, PTL DEF Spec

(* The state of the referee has its type: no request leaves a piece beside *)
(* the board, not even a move that goes there (hoxReferee.cpp:471).        *)
THEOREM TypeCorrect == Spec => []TypeOK
<1>1. RefereeInv => TypeOK
  BY DEF RefereeInv
<1> QED
  BY <1>1, RefereeInvariant, PTL

(* Cells, positions and the lists of active and dead pieces agree, whatever*)
(* was captured, simulated and undone (hoxReferee.cpp:430-582).            *)
THEOREM BoardAgreesCorrect == Spec => []BoardAgrees
<1>1. RefereeInv => BoardAgrees
  BY DEF RefereeInv
<1> QED
  BY <1>1, RefereeInvariant, PTL

(* No king is captured, so _GetKing never returns the NULL that its callers*)
(* would follow (hoxReferee.cpp:585).                                      *)
THEOREM KingsLiveCorrect == Spec => []KingsLive
<1>1. RefereeInv => KingsLive
  BY DEF RefereeInv
<1> QED
  BY <1>1, RefereeInvariant, PTL

(* A refused move leaves no trace: what _UndoMove does is the inverse of   *)
(* what _RecordMove did (hoxReferee.cpp:543-582, 697).                     *)
THEOREM NoTraceCorrect == Spec => NoTrace
<1> DEFINE Traceless == board' = board \/ nextColor' # nextColor \/ moves' = 0
<1>1. RefereeInv /\ [Next]_vars => [Traceless]_vars
  <2> SUFFICES ASSUME RefereeInv, [Next]_vars PROVE [Traceless]_vars
    OBVIOUS
  <2>0. TypeOK /\ BoardAgrees /\ nextColor \in Colors
    BY DEF RefereeInv, TypeOK
  <2>1. ASSUME NEW from \in Squares, NEW to \in Targets, Accept(from, to) PROVE Traceless
    BY <2>0, <2>1 DEF Accept, Opponent, Colors
  <2>2. ASSUME NEW from \in Squares, NEW to \in Targets, Refuse(from, to) PROVE Traceless
    BY <2>0, <2>2, RefuseKeeps
  <2>3. CASE ResetGame
    BY <2>3 DEF ResetGame
  <2> QED
    BY <2>1, <2>2, <2>3 DEF Next
<1> QED
  BY <1>1, RefereeInvariant, PTL DEF Spec, NoTrace

(* Who has just moved is not in check, and the kings do not face each other*)
(* after a move: what the two tests of validateMove keep true of every     *)
(* position that is played, whatever was refused and undone before it.     *)
LastMoverSafe ==
    /\ ~InCheck(board, Opponent(nextColor))
    /\ moves > 0 => ~KingFacesKing(board)

(* No position that is played leaves the side that moved in check, or the  *)
(* kings in sight of each other (hoxReferee.cpp, Board::ValidateMove).     *)
THEOREM LastMoverSafeCorrect == Spec => []LastMoverSafe
<1> DEFINE Apart == moves > 0 => ~KingFacesKing(board)
<1>1. Init => Apart
  BY DEF Init
<1>2. RefereeInv /\ Apart /\ [Next]_vars => Apart'
  <2> SUFFICES ASSUME RefereeInv, Apart, [Next]_vars PROVE Apart'
    OBVIOUS
  <2>0. TypeOK /\ BoardAgrees
    BY DEF RefereeInv
  <2>1. ASSUME NEW from \in Squares, NEW to \in Targets, Accept(from, to) PROVE Apart'
    BY <2>1 DEF Accept, Safe, KingFacesKing
  <2>2. ASSUME NEW from \in Squares, NEW to \in Targets, Refuse(from, to) PROVE Apart'
    <3>1. board' = board /\ moves' = moves
      BY <2>0, <2>2, RefuseKeeps DEF Refuse
    <3> QED
      BY <3>1 DEF KingFacesKing
  <2>3. CASE ResetGame
    BY <2>3 DEF ResetGame
  <2>4. CASE UNCHANGED vars
    BY <2>4 DEF vars, KingFacesKing
  <2> QED
    BY <2>1, <2>2, <2>3, <2>4 DEF Next
<1>3. RefereeInv /\ Apart => LastMoverSafe
  BY DEF RefereeInv, MoverSafe, LastMoverSafe
<1> QED
  BY <1>1, <1>2, <1>3, RefereeInvariant, PTL DEF Spec

(* An accepted move moves one piece, of the side whose turn it is, and     *)
(* takes at most one, of the other side, where it arrives: no other piece  *)
(* moves or leaves the board, and none comes back to it, though every move *)
(* is recorded, and many are undone, with captures (hoxReferee.cpp:430-582)*)
OneMove ==
    \E p \in board.active :
        /\ color[p] = nextColor /\ p \in board'.active
        /\ \A r \in Pieces \ {p} :
            /\ board'.pos[r] = board.pos[r]
            /\ r \in board'.active <=> r \in board.active /\ board.pos[r] # board'.pos[p]
            /\ r \in board.active \ board'.active => color[r] # color[p]
MovesAreMoves == [][moves' = moves + 1 => OneMove]_vars

LEMMA AcceptMovesOne ==
    ASSUME RefereeInv, NEW from \in Squares, NEW to \in Targets, Accept(from, to)
    PROVE  OneMove
<1> DEFINE p == PieceAt(board, from)
           c == PieceAt(board, to)
<1>1. board \in Boards /\ Agrees(board) /\ TypeOK /\ BoardAgrees
  BY DEF RefereeInv, TypeOK, BoardAgrees
<1>2. Requested(from, to) /\ board' = Record(board, from, to)
  BY DEF Accept
<1>3. /\ p \in Pieces /\ p \in board.active /\ board.pos[p] = from /\ from # to
      /\ HasPieceAt(board, from) /\ color[p] = nextColor
      /\ board.cells[from] = p
  BY <1>1, <1>2, RequestedMove, PieceThere DEF Requested
<1>4. \A r \in Pieces \ {p} : r \in board.active => board.pos[r] # from
  BY <1>1, <1>3 DEF Agrees
<1>5. CASE to \notin Squares
  <2>1. board' = board
    BY <1>2, <1>5, BesideTheBoard
  <2> QED
    BY <1>3, <1>4, <2>1 DEF OneMove
<1>6. CASE to \in Squares
  <2>1. board' = Moved(board, p, from, to, c)
    BY <1>1, <1>2, <1>3, <1>6, RecordForm
  <2>2. /\ board'.pos = [board.pos EXCEPT ![p] = to]
        /\ board'.active = board.active \ {c}
    BY <2>1 DEF Moved
  <2>3. board'.pos[p] = to /\ \A r \in Pieces \ {p} : board'.pos[r] = board.pos[r]
    BY <1>1, <1>3, <2>2 DEF Boards
  <2>4. CASE HasPieceAt(board, to)
    <3>1. c \in Pieces /\ c \in board.active /\ board.cells[to] = c /\ board.pos[c] = to
      BY <1>1, <1>6, <2>4, PieceThere
    <3>2. c # p /\ color[c] # color[p]
      BY <1>2, <1>3, <2>4, <3>1 DEF Requested, IsValidMove
    <3>3. \A r \in board.active : board.pos[r] = to <=> r = c
      BY <1>1, <1>6, <3>1 DEF Agrees
    <3> HIDE DEF p, c
    <3> QED
      BY <1>3, <2>2, <2>3, <3>1, <3>2, <3>3 DEF OneMove
  <2>5. CASE ~HasPieceAt(board, to)
    <3>1. board.cells[to] = None /\ c = None
      BY <1>6, <2>5 DEF HasPieceAt, PieceAt
    <3>2. \A r \in board.active : board.pos[r] # to /\ r # None
      BY <1>1, <1>6, <3>1, PiecesAssumption DEF Agrees, Boards
    <3> HIDE DEF p, c
    <3> QED
      BY <1>3, <2>2, <2>3, <3>1, <3>2 DEF OneMove
  <2> QED
    BY <2>4, <2>5
<1> QED
  BY <1>5, <1>6

(* Every accepted move is one move: _RecordMove displaces one piece and    *)
(* captures one of the other side at most (hoxReferee.cpp:430-582).        *)
THEOREM MovesAreMovesCorrect == Spec => MovesAreMoves
<1>1. RefereeInv /\ [Next]_vars => [moves' = moves + 1 => OneMove]_vars
  <2> SUFFICES ASSUME RefereeInv, Next, moves' = moves + 1 PROVE OneMove
    OBVIOUS
  <2>1. moves \in Nat
    BY BoundAssumption DEF RefereeInv, TypeOK
  <2>2. ASSUME NEW from \in Squares, NEW to \in Targets, Refuse(from, to) PROVE FALSE
    BY <2>1, <2>2 DEF Refuse
  <2>3. CASE ResetGame
    BY <2>1, <2>3 DEF ResetGame
  <2> QED
    BY <2>2, <2>3, AcceptMovesOne DEF Next
<1> QED
  BY <1>1, RefereeInvariant, PTL DEF Spec, MovesAreMoves

-----------------------------------------------------------------------------
(* The search for a next move looks at every move there is.                 *)

(* GetPotentialNextPositions leaves out no square its piece can move to.    *)
LEMMA PotentialCovers ==
    ASSUME NEW b \in Boards, NEW p \in Pieces, NEW r \in Squares, CanMoveTo(b, p, r)
    PROVE  r \in Potential(p, b.pos[p])
<1> DEFINE q == b.pos[p]
           Near(D) == {<<q[1] + d[1], q[2] + d[2]>> : d \in D}
<1>1. q \in Squares /\ q[1] \in Int /\ q[2] \in Int /\ r[1] \in Int /\ r[2] \in Int
  BY DEF Boards, Squares
<1> DEFINE step == <<r[1] - q[1], r[2] - q[2]>>
<1>2. ASSUME NEW D, step \in D PROVE r \in Near(D)
  <2>1. r = <<q[1] + step[1], q[2] + step[2]>>
    BY <1>1 DEF Squares
  <2> QED
    BY <1>2, <2>1
<1> HIDE DEF q, Near
<1>3. CASE type[p] = "King" \/ type[p] = "Pawn"
  <2>1. ASSUME type[p] = "King"
        PROVE  step \in {<<0, -1>>, <<0, 1>>, <<-1, 0>>, <<1, 0>>}
    <3>1. Distance(q[1], r[1]) + Distance(q[2], r[2]) = 1
      BY <2>1 DEF CanMoveTo, KingMoves, q
    <3> QED
      BY <1>1, <3>1 DEF Distance
  <2>2. ASSUME type[p] = "Pawn"
        PROVE  step \in {<<0, -1>>, <<0, 1>>, <<-1, 0>>, <<1, 0>>}
    <3>1. \/ r[1] = q[1] /\ r[2] = Forward(q[2], color[p])
          \/ r[2] = q[2] /\ Distance(q[1], r[1]) = 1
      BY <2>2 DEF CanMoveTo, PawnMoves, q
    <3> QED
      BY <1>1, <3>1 DEF Distance, Forward
  <2>3. step \in {<<0, -1>>, <<0, 1>>, <<-1, 0>>, <<1, 0>>}
    BY <1>3, <2>1, <2>2
  <2> HIDE DEF step
  <2>4. r \in Near({<<0, -1>>, <<0, 1>>, <<-1, 0>>, <<1, 0>>})
    BY <1>2, <2>3, Zenon
  <2> QED
    BY <1>3, <2>4 DEF Potential, q, Near
<1>4. CASE type[p] = "Advisor"
  <2>1. r[1] - q[1] \in {-1, 1} /\ r[2] - q[2] \in {-1, 1}
    BY <1>1, <1>4 DEF CanMoveTo, AdvisorMoves, Distance, q
  <2>2. step \in {-1, 1} \X {-1, 1}
    BY <2>1
  <2> HIDE DEF step
  <2>3. r \in Near({-1, 1} \X {-1, 1})
    BY <1>2, <2>2, Zenon
  <2> QED
    BY <1>4, <2>3 DEF Potential, q, Near
<1>5. CASE type[p] = "Elephant"
  <2>1. r[1] - q[1] \in {-2, 2} /\ r[2] - q[2] \in {-2, 2}
    BY <1>1, <1>5 DEF CanMoveTo, ElephantMoves, Distance, q
  <2>2. step \in {-2, 2} \X {-2, 2}
    BY <2>1
  <2> HIDE DEF step
  <2>3. r \in Near({-2, 2} \X {-2, 2})
    BY <1>2, <2>2, Zenon
  <2> QED
    BY <1>5, <2>3 DEF Potential, q, Near
<1>6. CASE type[p] = "Horse"
  <2>1. \/ r[1] - q[1] \in {-1, 1} /\ r[2] - q[2] \in {-2, 2}
        \/ r[1] - q[1] \in {-2, 2} /\ r[2] - q[2] \in {-1, 1}
    BY <1>1, <1>6 DEF CanMoveTo, HorseMoves, Distance, q
  <2>2. step \in ({-1, 1} \X {-2, 2}) \cup ({-2, 2} \X {-1, 1})
    BY <2>1
  <2> HIDE DEF step
  <2>3. r \in Near(({-1, 1} \X {-2, 2}) \cup ({-2, 2} \X {-1, 1}))
    BY <1>2, <2>2, Zenon
  <2> QED
    BY <1>6, <2>3 DEF Potential, q, Near
<1>7. CASE type[p] \in {"Chariot", "Cannon"}
  <2>1. Straight(q, r)
    BY <1>7 DEF CanMoveTo, ChariotMoves, CannonMoves, q
  <2> QED
    BY <1>7, <2>1 DEF Potential, q
<1>8. type[p] \in Types
  BY PiecesAssumption
<1> QED
  BY <1>3, <1>4, <1>5, <1>6, <1>7, <1>8 DEF Types

(* _DoesNextMoveExist finds a move exactly when there is one.               *)
LEMMA NextMoveFound ==
    ASSUME NEW b \in Boards, NEW c
    PROVE  NextMoveExists(b, c) <=>
               \E p \in b.active, q \in Squares : color[p] = c /\ SimulatedValid(b, p, q)
<1>1. \A p \in b.active, q \in Squares :
          SimulatedValid(b, p, q) => q \in Potential(p, b.pos[p])
  BY PotentialCovers DEF SimulatedValid, IsValidMove, Boards
<1>2. \A p \in b.active : Potential(p, b.pos[p]) \subseteq Squares
  BY DEF Potential
<1> QED
  BY <1>1, <1>2 DEF NextMoveExists

(* A game is declared won exactly when the other side has no move left, for*)
(* every set of pieces and every position (hoxReferee.cpp:718, 776-843).   *)
THEOREM MateIsRightCorrect == Spec => []MateIsRight
<1> DEFINE Judged == moves > 0 => (status = "InProgress" <=> NextMoveExists(board, nextColor))
<1>1. Init => Judged
  BY DEF Init
<1>2. RefereeInv /\ Judged /\ [Next]_vars => Judged'
  <2> SUFFICES ASSUME RefereeInv, Judged, [Next]_vars PROVE Judged'
    OBVIOUS
  <2>0. TypeOK /\ BoardAgrees
    BY DEF RefereeInv
  <2>1. ASSUME NEW from \in Squares, NEW to \in Targets, Accept(from, to) PROVE Judged'
    <3>1. status' = IF NextMoveExists(board', nextColor') THEN "InProgress" ELSE WinOf(nextColor)
      BY <2>1 DEF Accept
    <3>2. WinOf(nextColor) # "InProgress"
      BY DEF WinOf
    <3> QED
      BY <3>1, <3>2
  <2>2. ASSUME NEW from \in Squares, NEW to \in Targets, Refuse(from, to) PROVE Judged'
    <3>1. board' = board
      BY <2>0, <2>2, RefuseKeeps
    <3> QED
      BY <2>2, <3>1 DEF Refuse
  <2>3. CASE ResetGame
    BY <2>3 DEF ResetGame
  <2>4. CASE UNCHANGED vars
    BY <2>4 DEF vars
  <2> QED
    BY <2>1, <2>2, <2>3, <2>4 DEF Next
<1>3. RefereeInv /\ Judged => MateIsRight
  BY NextMoveFound DEF RefereeInv, TypeOK, MateIsRight
<1> QED
  BY <1>1, <1>2, <1>3, RefereeInvariant, PTL DEF Spec

-----------------------------------------------------------------------------
(* The pieces move as the rules say, step by step.                         *)

(* A walk from square q ends at r when it does so in both coordinates.      *)
LEMMA WalkEnds ==
    ASSUME NEW q \in Squares, NEW r \in Squares, NEW d \in Dirs \cup Diagonals, NEW n \in Nat
    PROVE  r = Walk(q, d, n) <=> r[1] = q[1] + n * d[1] /\ r[2] = q[2] + n * d[2]
<1>1. r = <<r[1], r[2]>>
  BY DEF Squares
<1> QED
  BY <1>1 DEF Walk

(* The cells and the pieces tell the same about a square.                   *)
LEMMA OccupiedIs ==
    ASSUME TypeOK, BoardAgrees, NEW q
    PROVE  HasPieceAt(board, q) <=> Occupied(q)
<1>1. board \in Boards /\ Agrees(board)
  BY DEF TypeOK, BoardAgrees
<1>2. ASSUME HasPieceAt(board, q) PROVE Occupied(q)
  <2>1. q \in Squares
    BY <1>2 DEF HasPieceAt, PieceAt
  <2> QED
    BY <1>1, <1>2, <2>1, PieceThere DEF Occupied
<1>3. ASSUME Occupied(q) PROVE HasPieceAt(board, q)
  <2>1. PICK p \in board.active : board.pos[p] = q
    BY <1>3 DEF Occupied
  <2>2. p \in Pieces /\ q \in Squares
    BY <1>1, <2>1 DEF Boards
  <2>3. board.cells[q] = p
    BY <1>1, <2>1, <2>2 DEF Agrees
  <2> QED
    BY <2>2, <2>3, PiecesAssumption DEF HasPieceAt, PieceAt
<1> QED
  BY <1>2, <1>3

(* Whether the target holds a piece of one's own.                           *)
LEMMA OwnPieceThere ==
    ASSUME TypeOK, BoardAgrees, NEW q \in Squares, NEW c
    PROVE  (HasPieceAt(board, q) => color[PieceAt(board, q)] # c) <=>
               \A r \in board.active : board.pos[r] = q => color[r] # c
<1>1. board \in Boards /\ Agrees(board)
  BY DEF TypeOK, BoardAgrees
<1>2. \A r \in board.active : board.pos[r] = q => HasPieceAt(board, q) /\ PieceAt(board, q) = r
  BY <1>1, PiecesAssumption DEF HasPieceAt, PieceAt, Agrees, Boards
<1>3. HasPieceAt(board, q) =>
        PieceAt(board, q) \in board.active /\ board.pos[PieceAt(board, q)] = q
  BY <1>1, PieceThere
<1> QED
  BY <1>2, <1>3

(* What is between two squares of a line is what the walk passes.           *)
LEMMA MiddleWalked ==
    ASSUME NEW q \in Squares, NEW d \in Dirs, NEW n \in 1..9, Walk(q, d, n) \in Squares, NEW s
    PROVE  s \in Middle(q, Walk(q, d, n)) <=> \E k \in 1..(n - 1) : s = Walk(q, d, k)
<1>0. q[1] \in Int /\ q[2] \in Int
  BY DEF Squares
<1>1. CASE d = <<0, 1>>
  <2>1. \A k \in Int : Walk(q, d, k) = <<q[1], q[2] + k>>
    BY <1>0, <1>1 DEF Walk
  <2>2. s \in Middle(q, Walk(q, d, n)) <=> \E y \in (q[2] + 1)..(q[2] + n - 1) : s = <<q[1], y>>
    BY <1>0, <2>1 DEF Middle
  <2>3. \A y \in (q[2] + 1)..(q[2] + n - 1) : y - q[2] \in 1..(n - 1) /\ y = q[2] + (y - q[2])
    BY <1>0
  <2>4. \A k \in 1..(n - 1) : q[2] + k \in (q[2] + 1)..(q[2] + n - 1)
    BY <1>0
  <2> QED
    BY <2>1, <2>2, <2>3, <2>4
<1>2. CASE d = <<0, -1>>
  <2>1. \A k \in Int : Walk(q, d, k) = <<q[1], q[2] - k>>
    BY <1>0, <1>2 DEF Walk
  <2>2. s \in Middle(q, Walk(q, d, n)) <=> \E y \in (q[2] - n + 1)..(q[2] - 1) : s = <<q[1], y>>
    BY <1>0, <2>1 DEF Middle
  <2>3. \A y \in (q[2] - n + 1)..(q[2] - 1) : q[2] - y \in 1..(n - 1) /\ y = q[2] - (q[2] - y)
    BY <1>0
  <2>4. \A k \in 1..(n - 1) : q[2] - k \in (q[2] - n + 1)..(q[2] - 1)
    BY <1>0
  <2> QED
    BY <2>1, <2>2, <2>3, <2>4
<1>3. CASE d = <<1, 0>>
  <2>1. \A k \in Int : Walk(q, d, k) = <<q[1] + k, q[2]>>
    BY <1>0, <1>3 DEF Walk
  <2>2. s \in Middle(q, Walk(q, d, n)) <=> \E x \in (q[1] + 1)..(q[1] + n - 1) : s = <<x, q[2]>>
    BY <1>0, <2>1 DEF Middle
  <2>3. \A x \in (q[1] + 1)..(q[1] + n - 1) : x - q[1] \in 1..(n - 1) /\ x = q[1] + (x - q[1])
    BY <1>0
  <2>4. \A k \in 1..(n - 1) : q[1] + k \in (q[1] + 1)..(q[1] + n - 1)
    BY <1>0
  <2> QED
    BY <2>1, <2>2, <2>3, <2>4
<1>4. CASE d = <<-1, 0>>
  <2>1. \A k \in Int : Walk(q, d, k) = <<q[1] - k, q[2]>>
    BY <1>0, <1>4 DEF Walk
  <2>2. s \in Middle(q, Walk(q, d, n)) <=> \E x \in (q[1] - n + 1)..(q[1] - 1) : s = <<x, q[2]>>
    BY <1>0, <2>1 DEF Middle
  <2>3. \A x \in (q[1] - n + 1)..(q[1] - 1) : q[1] - x \in 1..(n - 1) /\ x = q[1] - (q[1] - x)
    BY <1>0
  <2>4. \A k \in 1..(n - 1) : q[1] - k \in (q[1] - n + 1)..(q[1] - 1)
    BY <1>0
  <2> QED
    BY <2>1, <2>2, <2>3, <2>4
<1> QED
  BY <1>1, <1>2, <1>3, <1>4 DEF Dirs

(* The pieces in the way are as many as those a walk jumps over.            *)
LEMMA JumpedIs ==
    ASSUME TypeOK, BoardAgrees,
           NEW q \in Squares, NEW d \in Dirs, NEW n \in 1..9, Walk(q, d, n) \in Squares
    PROVE  /\ InTheWay(board, q, Walk(q, d, n)) = Cardinality(Jumped(q, d, n))
           /\ Cardinality(Jumped(q, d, n)) = 0 <=> Jumped(q, d, n) = {}
<1> DEFINE S == Jumped(q, d, n)
           T == {s \in Middle(q, Walk(q, d, n)) : HasPieceAt(board, s)}
           f == [k \in S |-> Walk(q, d, k)]
<1>1. IsFiniteSet(S)
  <2>1. IsFiniteSet(1..(n - 1))
    BY FS_Interval
  <2> QED
    BY <2>1, FS_Subset DEF Jumped
<1>2. \A k \in S : k \in 1..(n - 1) /\ Occupied(Walk(q, d, k))
  BY DEF Jumped
<1>3. \A k \in S : f[k] \in T
  BY <1>2, MiddleWalked, OccupiedIs
<1>4. \A k, l \in S : f[k] = f[l] => k = l
  <2>0. q[1] \in Int /\ q[2] \in Int
    BY DEF Squares
  <2> SUFFICES ASSUME NEW k \in Int, NEW l \in Int, Walk(q, d, k) = Walk(q, d, l) PROVE k = l
    BY <1>2
  <2>1. q[1] + k * d[1] = q[1] + l * d[1] /\ q[2] + k * d[2] = q[2] + l * d[2]
    BY DEF Walk
  <2> QED
    BY <2>0, <2>1 DEF Dirs
<1>5. \A s \in T : \E k \in S : f[k] = s
  <2> SUFFICES ASSUME NEW s \in T PROVE \E k \in S : f[k] = s
    OBVIOUS
  <2>1. PICK k \in 1..(n - 1) : s = Walk(q, d, k)
    BY MiddleWalked
  <2>2. k \in S
    BY <2>1, OccupiedIs DEF Jumped
  <2> QED
    BY <2>1, <2>2
<1>6. ExistsBijection(S, T)
  <2>1. f \in [S -> T]
    BY <1>3
  <2>2. f \in Bijection(S, T)
    BY <1>4, <1>5, <2>1 DEF Bijection, Injection, Surjection, IsInjective
  <2> QED
    BY <2>2 DEF ExistsBijection
<1>7. Cardinality(T) = Cardinality(S)
  BY <1>1, <1>6, FS_Bijection
<1> QED
  BY <1>1, <1>7, FS_EmptySet DEF InTheWay

(* A straight move is a walk in one of the four directions.                 *)
LEMMA StraightWalk ==
    ASSUME NEW q \in Squares, NEW r \in Squares
    PROVE  Straight(q, r) <=> \E d \in Dirs, n \in 1..9 : r = Walk(q, d, n)
<1>0. /\ q[1] \in 0..8 /\ q[2] \in 0..9 /\ r[1] \in 0..8 /\ r[2] \in 0..9
      /\ r = <<r[1], r[2]>>
  BY DEF Squares
<1>1. ASSUME NEW d \in Dirs, NEW n \in 1..9, r = Walk(q, d, n) PROVE Straight(q, r)
  <2>1. r[1] = q[1] + n * d[1] /\ r[2] = q[2] + n * d[2]
    BY <1>1 DEF Walk
  <2> QED
    BY <1>0, <2>1 DEF Straight, Dirs
<1>2. ASSUME Straight(q, r) PROVE \E d \in Dirs, n \in 1..9 : r = Walk(q, d, n)
  <2>1. CASE r[1] = q[1] /\ r[2] > q[2]
    <3>1. r = Walk(q, <<0, 1>>, r[2] - q[2]) /\ r[2] - q[2] \in 1..9
      BY <1>0, <2>1 DEF Walk
    <3> QED
      BY <3>1 DEF Dirs
  <2>2. CASE r[1] = q[1] /\ r[2] < q[2]
    <3>1. r = Walk(q, <<0, -1>>, q[2] - r[2]) /\ q[2] - r[2] \in 1..9
      BY <1>0, <2>2 DEF Walk
    <3> QED
      BY <3>1 DEF Dirs
  <2>3. CASE r[2] = q[2] /\ r[1] > q[1]
    <3>1. r = Walk(q, <<1, 0>>, r[1] - q[1]) /\ r[1] - q[1] \in 1..9
      BY <1>0, <2>3 DEF Walk
    <3> QED
      BY <3>1 DEF Dirs
  <2>4. CASE r[2] = q[2] /\ r[1] < q[1]
    <3>1. r = Walk(q, <<-1, 0>>, q[1] - r[1]) /\ q[1] - r[1] \in 1..9
      BY <1>0, <2>4 DEF Walk
    <3> QED
      BY <3>1 DEF Dirs
  <2> QED
    BY <1>0, <1>2, <2>1, <2>2, <2>3, <2>4 DEF Straight
<1> QED
  BY <1>1, <1>2

(* The pieces that step: King, Advisor and Pawn.                            *)
LEMMA SteppingPieces ==
    ASSUME TypeOK, NEW p \in Pieces, NEW r \in Squares,
           type[p] \in {"King", "Advisor", "Pawn"}
    PROVE  CanMoveTo(board, p, r) <=> r \in Reach(p)
<1> DEFINE q == board.pos[p]
<1>0. q \in Squares /\ color[p] \in Colors
  BY PiecesAssumption DEF TypeOK, Boards
<1> HIDE DEF q
<1>1. /\ q[1] \in 0..8 /\ q[2] \in 0..9 /\ r[1] \in 0..8 /\ r[2] \in 0..9
  BY <1>0 DEF Squares
<1>2. \A d \in Dirs \cup Diagonals :
        r = Walk(q, d, 1) <=> r[1] = q[1] + d[1] /\ r[2] = q[2] + d[2]
  <2> SUFFICES ASSUME NEW d \in Dirs \cup Diagonals
               PROVE  r = Walk(q, d, 1) <=> r[1] = q[1] + d[1] /\ r[2] = q[2] + d[2]
    OBVIOUS
  <2>1. d[1] \in Int /\ d[2] \in Int
    BY DEF Dirs, Diagonals
  <2>2. r = Walk(q, d, 1) <=> r[1] = q[1] + 1 * d[1] /\ r[2] = q[2] + 1 * d[2]
    BY <1>0, WalkEnds
  <2> QED
    BY <2>1, <2>2
<1>3. /\ (\E d \in Dirs : r = Walk(q, d, 1)) <=>
             Distance(q[1], r[1]) + Distance(q[2], r[2]) = 1
      /\ (\E d \in Diagonals : r = Walk(q, d, 1)) <=>
             Distance(q[1], r[1]) = 1 /\ Distance(q[2], r[2]) = 1
  <2>1. (\E d \in Dirs : r = Walk(q, d, 1)) <=>
             \/ r[1] = q[1] /\ r[2] = q[2] + 1
             \/ r[1] = q[1] /\ r[2] = q[2] - 1
             \/ r[1] = q[1] + 1 /\ r[2] = q[2]
             \/ r[1] = q[1] - 1 /\ r[2] = q[2]
    BY <1>1, <1>2 DEF Dirs
  <2>2. (\E d \in Diagonals : r = Walk(q, d, 1)) <=>
             r[1] \in {q[1] - 1, q[1] + 1} /\ r[2] \in {q[2] - 1, q[2] + 1}
    <3>1. \A d \in Diagonals : d[1] \in {-1, 1} /\ d[2] \in {-1, 1}
      BY DEF Diagonals
    <3>2. \A i, j \in {-1, 1} : <<i, j>> \in Diagonals /\ <<i, j>>[1] = i /\ <<i, j>>[2] = j
      BY DEF Diagonals
    <3>3. ASSUME NEW d \in Diagonals, r = Walk(q, d, 1)
          PROVE  r[1] \in {q[1] - 1, q[1] + 1} /\ r[2] \in {q[2] - 1, q[2] + 1}
      BY <1>1, <1>2, <3>1, <3>3
    <3>4. ASSUME r[1] \in {q[1] - 1, q[1] + 1}, r[2] \in {q[2] - 1, q[2] + 1}
          PROVE  \E d \in Diagonals : r = Walk(q, d, 1)
      <4>1. r[1] - q[1] \in {-1, 1} /\ r[2] - q[2] \in {-1, 1}
        BY <1>1, <3>4
      <4>2. r = Walk(q, <<r[1] - q[1], r[2] - q[2]>>, 1)
        BY <1>1, <1>2, <3>2, <4>1
      <4> QED
        BY <3>2, <4>1, <4>2
    <3> QED
      BY <3>3, <3>4
  <2> QED
    BY <1>1, <2>1, <2>2 DEF Distance
<1>4. InPalace(r, color[p]) <=> r \in Palace(color[p])
  BY <1>0, <1>1 DEF InPalace, Palace, Rank, Colors
<1>5. CASE type[p] = "King"
  BY <1>3, <1>4, <1>5 DEF CanMoveTo, KingMoves, Reach, q
<1>6. CASE type[p] = "Advisor"
  BY <1>3, <1>4, <1>6 DEF CanMoveTo, AdvisorMoves, Reach, q
<1>7. CASE type[p] = "Pawn"
  <2>1. r \in Reach(p) <=>
           /\ Distance(q[1], r[1]) + Distance(q[2], r[2]) = 1
           /\ \/ Rank(r, color[p]) = Rank(q, color[p]) + 1
              \/ Rank(r, color[p]) = Rank(q, color[p]) /\ Rank(q, color[p]) > 4
    BY <1>3, <1>7 DEF Reach, q
  <2>2. CanMoveTo(board, p, r) <=> PawnMoves(board, p, q, r)
    BY <1>7 DEF CanMoveTo, q
  <2> QED
    BY <1>0, <1>1, <2>1, <2>2 DEF PawnMoves, Distance, Forward, InCountry, Rank, Colors
<1> QED
  BY <1>5, <1>6, <1>7

(* The pieces that leap: an Elephant over its eye, a Horse over its leg.    *)
LEMMA LeapingPieces ==
    ASSUME TypeOK, BoardAgrees, NEW p \in Pieces, NEW r \in Squares,
           type[p] \in {"Elephant", "Horse"}
    PROVE  CanMoveTo(board, p, r) <=> r \in Reach(p)
<1> DEFINE q == board.pos[p]
<1>0. q \in Squares /\ color[p] \in Colors
  BY PiecesAssumption DEF TypeOK, Boards
<1> HIDE DEF q
<1>1. /\ q[1] \in 0..8 /\ q[2] \in 0..9 /\ r[1] \in 0..8 /\ r[2] \in 0..9
      /\ r = <<r[1], r[2]>>
  BY <1>0 DEF Squares
<1>2. \A d \in Diagonals : d[1] \in {-1, 1} /\ d[2] \in {-1, 1} /\ d = <<d[1], d[2]>>
  BY DEF Diagonals
<1>3. \A i, j \in {-1, 1} : <<i, j>> \in Diagonals
  BY DEF Diagonals
<1>4. CASE type[p] = "Elephant"
  <2>1. InCountry(r, color[p]) <=> Rank(r, color[p]) <= 4
    BY <1>0, <1>1 DEF InCountry, Rank, Colors
  <2>2. r \in Reach(p) <=>
           /\ Rank(r, color[p]) <= 4
           /\ \E d \in Diagonals : ~Occupied(Walk(q, d, 1)) /\ r = Walk(q, d, 2)
    BY <1>4 DEF Reach, q
  <2> DEFINE eye == <<(q[1] + r[1]) \div 2, (q[2] + r[2]) \div 2>>
  <2>3. ASSUME NEW d \in Diagonals, r = Walk(q, d, 2)
        PROVE  Distance(q[1], r[1]) = 2 /\ Distance(q[2], r[2]) = 2 /\ eye = Walk(q, d, 1)
    <3>1. r[1] = q[1] + 2 * d[1] /\ r[2] = q[2] + 2 * d[2]
      BY <2>3 DEF Walk
    <3>2. (q[1] + r[1]) \div 2 = q[1] + 1 * d[1] /\ (q[2] + r[2]) \div 2 = q[2] + 1 * d[2]
      BY <1>1, <1>2, <3>1
    <3> QED
      BY <1>1, <1>2, <3>1, <3>2 DEF Distance, Walk
  <2>4. ASSUME Distance(q[1], r[1]) = 2, Distance(q[2], r[2]) = 2
        PROVE  \E d \in Diagonals : r = Walk(q, d, 2)
    <3>1. PICK i \in {-1, 1}, j \in {-1, 1} : r[1] = q[1] + 2 * i /\ r[2] = q[2] + 2 * j
      <4>1. r[1] = q[1] + 2 * 1 \/ r[1] = q[1] + 2 * (-1)
        BY <1>1, <2>4 DEF Distance
      <4>2. r[2] = q[2] + 2 * 1 \/ r[2] = q[2] + 2 * (-1)
        BY <1>1, <2>4 DEF Distance
      <4> QED
        BY <4>1, <4>2
    <3>2. r = Walk(q, <<i, j>>, 2)
      BY <1>1, <3>1 DEF Walk
    <3> QED
      BY <1>3, <3>2
  <2>5. CanMoveTo(board, p, r) <=>
           /\ InCountry(r, color[p])
           /\ Distance(q[1], r[1]) = 2 /\ Distance(q[2], r[2]) = 2 /\ ~HasPieceAt(board, eye)
    BY <1>4 DEF CanMoveTo, ElephantMoves, q
  <2>6. HasPieceAt(board, eye) <=> Occupied(eye)
    BY OccupiedIs
  <2> HIDE DEF eye
  <2> QED
    BY <2>1, <2>2, <2>3, <2>4, <2>5, <2>6
<1>5. CASE type[p] = "Horse"
  <2> DEFINE Leaps(e, d) == e[1] \in {0, d[1]} /\ e[2] \in {0, d[2]}
  <2>1. r \in Reach(p) <=>
           \E e \in Dirs, d \in Diagonals :
               Leaps(e, d) /\ ~Occupied(Walk(q, e, 1)) /\ r = Walk(Walk(q, e, 1), d, 1)
    <3>1. r \in Reach(p) <=>
           \E c \in Dirs \X Diagonals :
               Leaps(c[1], c[2]) /\ ~Occupied(Walk(q, c[1], 1)) /\ r = Walk(Walk(q, c[1], 1), c[2], 1)
      BY <1>5 DEF Reach, q
    <3>2. \A c \in Dirs \X Diagonals : c[1] \in Dirs /\ c[2] \in Diagonals
      OBVIOUS
    <3>3. \A e \in Dirs, d \in Diagonals :
              <<e, d>> \in Dirs \X Diagonals /\ <<e, d>>[1] = e /\ <<e, d>>[2] = d
      OBVIOUS
    <3>4. ASSUME r \in Reach(p)
          PROVE  \E e \in Dirs, d \in Diagonals :
                     Leaps(e, d) /\ ~Occupied(Walk(q, e, 1)) /\ r = Walk(Walk(q, e, 1), d, 1)
      <4>1. PICK c \in Dirs \X Diagonals :
                 Leaps(c[1], c[2]) /\ ~Occupied(Walk(q, c[1], 1)) /\ r = Walk(Walk(q, c[1], 1), c[2], 1)
        BY <3>1, <3>4
      <4>2. c[1] \in Dirs /\ c[2] \in Diagonals
        BY <3>2
      <4> QED
        BY <4>1, <4>2
    <3>5. ASSUME NEW e \in Dirs, NEW d \in Diagonals,
                 Leaps(e, d), ~Occupied(Walk(q, e, 1)), r = Walk(Walk(q, e, 1), d, 1)
          PROVE  r \in Reach(p)
      <4>0. <<e, d>> \in Dirs \X Diagonals /\ <<e, d>>[1] = e /\ <<e, d>>[2] = d
        BY <3>3
      <4>1. PICK c \in Dirs \X Diagonals : c[1] = e /\ c[2] = d
        BY <4>0, Zenon
      <4> HIDE DEF Leaps
      <4>2. Leaps(c[1], c[2]) /\ ~Occupied(Walk(q, c[1], 1)) /\ r = Walk(Walk(q, c[1], 1), c[2], 1)
        BY <3>5, <4>1
      <4> QED
        BY <3>1, <4>2
    <3> HIDE DEF Leaps
    <3> QED
      BY <3>4, <3>5
  <2> DEFINE Along(leg, e) == leg = Walk(q, e, 1) /\ ~Occupied(leg)
             vLeg == <<q[1], (q[2] + r[2]) \div 2>>
             hLeg == <<(q[1] + r[1]) \div 2, q[2]>>
  <2>2. CanMoveTo(board, p, r) <=>
           \/ Distance(q[2], r[2]) = 2 /\ Distance(q[1], r[1]) = 1 /\ ~Occupied(vLeg)
           \/ Distance(q[1], r[1]) = 2 /\ Distance(q[2], r[2]) = 1 /\ ~Occupied(hLeg)
    <3>1. (HasPieceAt(board, vLeg) <=> Occupied(vLeg)) /\ (HasPieceAt(board, hLeg) <=> Occupied(hLeg))
      BY OccupiedIs
    <3> QED
      BY <1>5, <3>1 DEF CanMoveTo, HorseMoves, q
  <2>3. ASSUME NEW e \in Dirs, NEW d \in Diagonals, Leaps(e, d), r = Walk(Walk(q, e, 1), d, 1)
        PROVE  \/ /\ Distance(q[2], r[2]) = 2 /\ Distance(q[1], r[1]) = 1 /\ vLeg = Walk(q, e, 1)
               \/ /\ Distance(q[1], r[1]) = 2 /\ Distance(q[2], r[2]) = 1 /\ hLeg = Walk(q, e, 1)
    <3>1. r[1] = q[1] + 1 * e[1] + 1 * d[1] /\ r[2] = q[2] + 1 * e[2] + 1 * d[2]
      BY <2>3 DEF Walk
    <3>2. \/ e[1] = 0 /\ e[2] = d[2]
          \/ e[2] = 0 /\ e[1] = d[1]
      BY <1>2, <2>3 DEF Dirs
    <3>3. CASE e[1] = 0 /\ e[2] = d[2]
      <4>1. (q[2] + r[2]) \div 2 = q[2] + 1 * e[2]
        BY <1>1, <1>2, <3>1, <3>3
      <4>2. vLeg = Walk(q, e, 1)
        BY <1>1, <3>3, <4>1 DEF Walk
      <4> QED
        BY <1>1, <1>2, <3>1, <3>3, <4>2 DEF Distance
    <3>4. CASE e[2] = 0 /\ e[1] = d[1]
      <4>1. (q[1] + r[1]) \div 2 = q[1] + 1 * e[1]
        BY <1>1, <1>2, <3>1, <3>4
      <4>2. hLeg = Walk(q, e, 1)
        BY <1>1, <3>4, <4>1 DEF Walk
      <4> QED
        BY <1>1, <1>2, <3>1, <3>4, <4>2 DEF Distance
    <3> QED
      BY <3>2, <3>3, <3>4
  <2>4. ASSUME Distance(q[2], r[2]) = 2, Distance(q[1], r[1]) = 1
        PROVE  \E e \in Dirs, d \in Diagonals :
                   Leaps(e, d) /\ vLeg = Walk(q, e, 1) /\ r = Walk(Walk(q, e, 1), d, 1)
    <3>1. PICK i \in {-1, 1}, j \in {-1, 1} : r[1] = q[1] + i /\ r[2] = q[2] + 2 * j
      <4>1. r[1] = q[1] + 1 \/ r[1] = q[1] + (-1)
        BY <1>1, <2>4 DEF Distance
      <4>2. r[2] = q[2] + 2 * 1 \/ r[2] = q[2] + 2 * (-1)
        BY <1>1, <2>4 DEF Distance
      <4> QED
        BY <4>1, <4>2
    <3>2. <<0, j>> \in Dirs /\ <<i, j>> \in Diagonals /\ Leaps(<<0, j>>, <<i, j>>)
      BY <1>3 DEF Dirs
    <3>3. (q[2] + r[2]) \div 2 = q[2] + j
      BY <1>1, <3>1
    <3>4. Walk(q, <<0, j>>, 1) = <<q[1], q[2] + j>>
      BY <1>1 DEF Walk
    <3>5. Walk(<<q[1], q[2] + j>>, <<i, j>>, 1) = <<q[1] + i, q[2] + 2 * j>>
      BY <1>1 DEF Walk
    <3> HIDE DEF Leaps
    <3> QED
      BY <1>1, <3>1, <3>2, <3>3, <3>4, <3>5
  <2>5. ASSUME Distance(q[1], r[1]) = 2, Distance(q[2], r[2]) = 1
        PROVE  \E e \in Dirs, d \in Diagonals :
                   Leaps(e, d) /\ hLeg = Walk(q, e, 1) /\ r = Walk(Walk(q, e, 1), d, 1)
    <3>1. PICK i \in {-1, 1}, j \in {-1, 1} : r[1] = q[1] + 2 * i /\ r[2] = q[2] + j
      <4>1. r[1] = q[1] + 2 * 1 \/ r[1] = q[1] + 2 * (-1)
        BY <1>1, <2>5 DEF Distance
      <4>2. r[2] = q[2] + 1 \/ r[2] = q[2] + (-1)
        BY <1>1, <2>5 DEF Distance
      <4> QED
        BY <4>1, <4>2
    <3>2. <<i, 0>> \in Dirs /\ <<i, j>> \in Diagonals /\ Leaps(<<i, 0>>, <<i, j>>)
      BY <1>3 DEF Dirs
    <3>3. (q[1] + r[1]) \div 2 = q[1] + i
      BY <1>1, <3>1
    <3>4. Walk(q, <<i, 0>>, 1) = <<q[1] + i, q[2]>>
      BY <1>1 DEF Walk
    <3>5. Walk(<<q[1] + i, q[2]>>, <<i, j>>, 1) = <<q[1] + 2 * i, q[2] + j>>
      BY <1>1 DEF Walk
    <3> HIDE DEF Leaps
    <3> QED
      BY <1>1, <3>1, <3>2, <3>3, <3>4, <3>5
  <2> HIDE DEF Leaps, vLeg, hLeg
  <2> QED
    BY <2>1, <2>2, <2>3, <2>4, <2>5
<1> QED
  BY <1>4, <1>5

(* The pieces that run: a Chariot as far as the line is free, a Cannon also *)
(* over one piece if it takes another.                                      *)
LEMMA RunningPieces ==
    ASSUME TypeOK, BoardAgrees, NEW p \in Pieces, NEW r \in Squares,
           type[p] \in {"Chariot", "Cannon"},
           HasPieceAt(board, r) => color[PieceAt(board, r)] # color[p]
    PROVE  CanMoveTo(board, p, r) <=> r \in Reach(p)
<1> DEFINE q == board.pos[p]
<1>0. q \in Squares
  BY DEF TypeOK, Boards
<1> HIDE DEF q
<1>1. Straight(q, r) <=> \E d \in Dirs, n \in 1..9 : r = Walk(q, d, n)
  BY <1>0, StraightWalk
<1>2. \A d \in Dirs, n \in 1..9 : r = Walk(q, d, n) =>
        /\ InTheWay(board, q, r) = Cardinality(Jumped(q, d, n))
        /\ Cardinality(Jumped(q, d, n)) = 0 <=> Jumped(q, d, n) = {}
  BY <1>0, JumpedIs
<1>3. CASE type[p] = "Chariot"
  <2>1. CanMoveTo(board, p, r) <=> Straight(q, r) /\ InTheWay(board, q, r) = 0
    BY <1>3 DEF CanMoveTo, ChariotMoves, q
  <2>2. r \in Reach(p) <=> \E d \in Dirs, n \in 1..9 : r = Walk(q, d, n) /\ Jumped(q, d, n) = {}
    BY <1>3 DEF Reach, q
  <2> QED
    BY <1>1, <1>2, <2>1, <2>2
<1>4. CASE type[p] = "Cannon"
  <2>1. HasPieceAt(board, r) <=> Occupied(r)
    BY OccupiedIs
  <2>2. CanMoveTo(board, p, r) <=>
           Straight(q, r) /\ InTheWay(board, q, r) = (IF Occupied(r) THEN 1 ELSE 0)
    BY <1>4, <2>1 DEF CanMoveTo, CannonMoves, q
  <2>3. r \in Reach(p) <=>
           \E d \in Dirs, n \in 1..9 :
               r = Walk(q, d, n) /\ Cardinality(Jumped(q, d, n)) = (IF Occupied(r) THEN 1 ELSE 0)
    BY <1>4 DEF Reach, q
  <2> QED
    BY <1>1, <1>2, <2>2, <2>3
<1> QED
  BY <1>3, <1>4

(* The conditions on coordinates of the pieces' CanMoveTo and the squares  *)
(* that middlePieces collects (hoxReferee.cpp:842-1335) amount to the      *)
(* rules of the game told step by step, on every board that is reached.    *)
THEOREM RulesOfPiecesCorrect == Spec => []RulesOfPieces
<1>1. RefereeInv => RulesOfPieces
  <2> SUFFICES ASSUME TypeOK, BoardAgrees, NEW p \in board.active, NEW r \in Squares
               PROVE  IsValidMove(board, p, r) <=>
                        r \in Reach(p) /\ \A m \in board.active : board.pos[m] = r => color[m] # color[p]
    BY DEF RefereeInv, RulesOfPieces
  <2>1. p \in Pieces /\ type[p] \in Types
    BY PiecesAssumption DEF TypeOK, Boards
  <2>2. (HasPieceAt(board, r) => color[PieceAt(board, r)] # color[p]) <=>
            \A m \in board.active : board.pos[m] = r => color[m] # color[p]
    BY OwnPieceThere
  <2>3. ASSUME HasPieceAt(board, r) => color[PieceAt(board, r)] # color[p]
        PROVE  CanMoveTo(board, p, r) <=> r \in Reach(p)
    <3>1. CASE type[p] \in {"King", "Advisor", "Pawn"}
      BY <2>1, <3>1, SteppingPieces
    <3>2. CASE type[p] \in {"Elephant", "Horse"}
      BY <2>1, <3>2, LeapingPieces
    <3>3. CASE type[p] \in {"Chariot", "Cannon"}
      BY <2>1, <2>3, <3>3, RunningPieces
    <3> QED
      BY <2>1, <3>1, <3>2, <3>3 DEF Types
  <2> QED
    BY <2>2, <2>3 DEF IsValidMove
<1> QED
  BY <1>1, RefereeInvariant, PTL
=============================================================================
