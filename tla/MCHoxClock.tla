----------------------------- MODULE MCHoxClock -----------------------------
(***************************************************************************)
(* HoxClock with small settings: game time that runs out before the time   *)
(* for one move, the other way round, and no game time at all.             *)
(***************************************************************************)
EXTENDS HoxClock

MCTimeInfos == {[nGame |-> 3, nMove |-> 4, nFree |-> 2],
                [nGame |-> 4, nMove |-> 2, nFree |-> 1],
                [nGame |-> 0, nMove |-> 3, nFree |-> 2],
                [nGame |-> 1, nMove |-> 1, nFree |-> 0]}
=============================================================================
