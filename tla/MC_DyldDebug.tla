----------------------------- MODULE MC_DyldDebug -----------------------------
(* Instances of DyldDebug for TLC: two threads of the program. *)
EXTENDS DyldDebug, TLC

CONSTANTS t1, t2, dbg

OwnStack == (t1 :> "s1") @@ (t2 :> "s2") @@ (dbg :> "sd")
=============================================================================
