---------------------------- MODULE MCHoxReferee ----------------------------
(***************************************************************************)
(* HoxReferee on endgames with pieces of every kind, each a move or two    *)
(* before something happens.                                               *)
(***************************************************************************)
EXTENDS HoxReferee

CONSTANTS rK, rA, rR, rH, rP, bK, bE, bC, bP, bR

Reds == {rK, rA, rR, rH, rP}
Men  == Reds \cup {bK, bE, bC, bP, bR}

ColorOf == [p \in Men |-> IF p \in Reds THEN "Red" ELSE "Black"]
TypeOf  == [p \in Men |-> CASE p \in {rK, bK} -> "King"
                            [] p = rA         -> "Advisor"
                            [] p = bE         -> "Elephant"
                            [] p \in {rR, bR} -> "Chariot"
                            [] p = rH         -> "Horse"
                            [] p = bC         -> "Cannon"
                            [] p \in {rP, bP} -> "Pawn"]

(* Places of rK, rA, rR, rH, rP, then of bK, bE, bC, bP, bR.               *)
Position(r, b) ==
    [p \in Men |-> CASE p = rK -> r[1] [] p = rA -> r[2] [] p = rR -> r[3]
                     [] p = rH -> r[4] [] p = rP -> r[5] [] p = bK -> b[1]
                     [] p = bE -> b[2] [] p = bC -> b[3] [] p = bP -> b[4]
                     [] p = bR -> b[5]]

(* RED mates with his chariot, or leaves the black king one way out; BLACK *)
(* mates with his; the red king can step into the column of the black one, *)
(* with his advisor behind him, and must keep out of the chariot's row.    *)
Endgames == {
    Position(<<<<3, 9>>, <<4, 8>>, <<0, 5>>, <<2, 2>>, <<8, 5>>>>,
             <<<<4, 0>>, <<8, 2>>, <<7, 7>>, <<7, 6>>, <<8, 8>>>>),
    Position(<<<<4, 9>>, <<3, 7>>, <<8, 1>>, <<7, 3>>, <<8, 4>>>>,
             <<<<3, 0>>, <<2, 4>>, <<6, 5>>, <<4, 7>>, <<1, 4>>>>),
    Position(<<<<3, 8>>, <<4, 9>>, <<8, 5>>, <<7, 5>>, <<3, 4>>>>,
             <<<<4, 0>>, <<2, 4>>, <<8, 2>>, <<5, 6>>, <<0, 9>>>>)}
=============================================================================
