------------------------------ MODULE MCHoxDb ------------------------------
(***************************************************************************)
(* HoxDb on two processes.                                                 *)
(***************************************************************************)
EXTENDS HoxDb, TLC

CONSTANTS v1, v2, t1, t2, t3, anna, bert, cora

TwoTasks == (t1 :> {<<"login", anna>>, <<"register", cora>>, <<"flush", None>>})
                @@ (t2 :> {<<"register", cora>>, <<"file", None>>, <<"term", None>>})
                @@ (t3 :> {<<"register", cora>>})
OneTask == (t1 :> {<<"login", anna>>}) @@ (t2 :> {<<"login", bert>>}) @@ (t3 :> {})
BothIn == {v1} \X Registered
TwoHomes == (t1 :> v1) @@ (t2 :> v1) @@ (t3 :> v2)
=============================================================================
