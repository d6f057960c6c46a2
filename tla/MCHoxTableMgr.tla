--------------------------- MODULE MCHoxTableMgr ----------------------------
(* HoxTableMgr for TLC: two or three players, interchangeable.             *)
EXTENDS HoxTableMgr, TLC

PlayerSymmetry == Permutations(Players)
=============================================================================
