--------------------------- MODULE HoxPieceSquares ---------------------------
(***************************************************************************)
(* The piece-square values of two of the engines: HaQiKi D took them from  *)
(* XQWLight.                                                               *)
(***************************************************************************)
EXTENDS Integers, Sequences

(* Kinds in the order king, advisor, elephant, horse, chariot, cannon,     *)
(* pawn; ranks from the far end of the board; files up to the middle one,  *)
(* the tables being symmetric.                                             *)
PiecePos == <<
     <<<<0,0,0,0,0>>, <<0,0,0,0,0>>, <<0,0,0,0,0>>, <<0,0,0,0,0>>, <<0,0,0,0,0>>,
       <<0,0,0,0,0>>, <<0,0,0,0,0>>, <<0,0,0,1,1>>, <<0,0,0,2,2>>, <<0,0,0,11,15>>>>,
     <<<<0,0,0,0,0>>, <<0,0,0,0,0>>, <<0,0,0,0,0>>, <<0,0,0,0,0>>, <<0,0,0,0,0>>,
       <<0,0,0,0,0>>, <<0,0,0,0,0>>, <<0,0,0,20,0>>, <<0,0,0,0,23>>, <<0,0,0,20,0>>>>,
     <<<<0,0,0,0,0>>, <<0,0,0,0,0>>, <<0,0,0,0,0>>, <<0,0,0,0,0>>, <<0,0,0,0,0>>,
       <<0,0,20,0,0>>, <<0,0,0,0,0>>, <<18,0,0,0,23>>, <<0,0,0,0,0>>, <<0,0,20,0,0>>>>,
     <<<<90,90,90,96,90>>, <<90,96,103,97,94>>, <<92,98,99,103,99>>, <<93,108,100,107,100>>, <<90,100,99,103,104>>,
       <<90,98,101,102,103>>, <<92,94,98,95,98>>, <<93,92,94,95,92>>, <<85,90,92,93,78>>, <<88,85,90,88,90>>>>,
     <<<<206,208,207,213,214>>, <<206,212,209,216,233>>, <<206,208,207,214,216>>, <<206,213,213,216,216>>, <<208,211,211,214,215>>,
       <<208,212,212,214,215>>, <<204,209,204,212,214>>, <<198,208,204,212,212>>, <<200,208,206,212,200>>, <<194,206,204,212,200>>>>,
     <<<<100,100,96,91,90>>, <<98,98,96,92,89>>, <<97,97,96,91,92>>, <<96,99,99,98,100>>, <<96,96,96,96,100>>,
       <<95,96,99,96,100>>, <<96,96,96,96,96>>, <<97,96,100,99,101>>, <<96,97,98,98,98>>, <<96,96,97,99,99>>>>,
     <<<<9,9,9,11,13>>, <<19,24,34,42,44>>, <<19,24,32,37,37>>, <<19,23,27,29,30>>, <<14,18,20,27,29>>,
       <<7,0,13,0,16>>, <<7,0,7,0,15>>, <<0,0,0,0,0>>, <<0,0,0,0,0>>, <<0,0,0,0,0>>>> >>

(* The value of a kind on a square, by its rank from 0 at the far end and  *)
(* its file from 0.                                                        *)
SquareValue(kind, rank, file) ==
    PiecePos[kind + 1][rank + 1][1 + IF file <= 4 THEN file ELSE 8 - file]
=============================================================================
