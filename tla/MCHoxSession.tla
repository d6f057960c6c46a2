---------------------------- MODULE MCHoxSession ----------------------------
(***************************************************************************)
(* HoxSession on two connections.  The connections are alike, so runs that *)
(* check no liveness permute them.                                         *)
(***************************************************************************)
EXTENDS HoxSession, TLC

Alike == Permutations(Conns)
=============================================================================
