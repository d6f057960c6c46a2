----------------------------- MODULE MCHoxTable -----------------------------
(* HoxTable for TLC: two rated players 200 points apart and a guest.       *)
EXTENDS HoxTable, TLC

CONSTANTS anna, bert, gast

MCPlayers      == {anna, bert, gast}
MCGuests       == {gast}
MCInitialScore == (anna :> 1700) @@ (bert :> 1500) @@ (gast :> 1500)
=============================================================================
