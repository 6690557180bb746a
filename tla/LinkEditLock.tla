----------------------------- MODULE LinkEditLock -----------------------------
(***************************************************************************)
(* What dyld's lock promises to the threads of a program, without saying   *)
(* how: "only one thread may be executing in the dynamic linker" (comment  *)
(* of set_lock, dyld/lock.c), a thread that asks again while it is inside  *)
(* is killed rather than let in or left waiting, and after a fork the      *)
(* child has only the thread that forked.  DyldLock implements it.         *)
(***************************************************************************)
CONSTANT Threads          \* the program's threads

VARIABLE phase            \* where each thread stands with respect to dyld

Phases == {"out", "waiting", "in", "killed"}

\* Some thread is inside, or was when the program was killed.
Occupied == \E t \in Threads : phase[t] \in {"in", "killed"}

Init == phase = [t \in Threads |-> "out"]

Request(t) == /\ phase[t] = "out"
              /\ phase' = [phase EXCEPT ![t] = "waiting"]

Grant(t) == /\ phase[t] = "waiting"
            /\ ~Occupied
            /\ phase' = [phase EXCEPT ![t] = "in"]

Leave(t) == /\ phase[t] = "in"
            /\ phase' = [phase EXCEPT ![t] = "out"]

Kill(t) == /\ phase[t] = "in"
           /\ phase' = [phase EXCEPT ![t] = "killed"]

\* The child of a fork made by t: every other thread is gone.
Fork(t) == /\ phase[t] = "in"
           /\ phase' = [u \in Threads |-> IF u = t THEN "in" ELSE "out"]

Next == \E t \in Threads :
          Request(t) \/ Grant(t) \/ Leave(t) \/ Kill(t) \/ Fork(t)

Spec == Init /\ [][Next]_phase
=============================================================================
