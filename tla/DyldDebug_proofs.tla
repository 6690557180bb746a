---------------------------- MODULE DyldDebug_proofs ----------------------------
(***************************************************************************)
(* Proofs about DyldLock, for any number of threads, stacks and pages, and *)
(* about DyldDebug, for any number of debuggers and requests, too.         *)
(*                                                                         *)
(* First DyldLock.  Whether or not the stack of a finished thread is given *)
(* to a new one, LockInv is inductive: the variables have their types, two *)
(* threads are never inside the dynamic linker together, and               *)
(* dead_lock_error() ends the process only for a call made from an error   *)
(* handler; and the functions implement LinkEditLock.  With stacks of      *)
(* their own threads are always known by their own ports.  OwnPortsInv     *)
(* says so, and is inductive: what is read of the owner without a lock is  *)
(* right, re-entry is found and the calls allowed from a handler, and only *)
(* these, are let in.                                                      *)
(*                                                                         *)
(* Then DyldDebug: debuggers and the debug thread leave the lock what it   *)
(* promises; and for one debugger whose requests do not time out, a        *)
(* request is served while no other thread can run or is in dyld, and the  *)
(* suspend counts come back to what they were.                             *)
(***************************************************************************)
EXTENDS DyldDebug, TLAPS

(* DyldLock *)

USE ThreadsAssumption, StacksAssumption
    DEF LockInv, AllThreads, lockVars, flagVars, debugVars, threadVars, Goto

LEMMA InitLockInv == Init => LockInv
<1> SUFFICES ASSUME Init PROVE LockInv
  OBVIOUS
<1> USE DEF Init
<1>1. TypeOK
  BY DEF TypeOK, Pcs, Pages, NoPage
<1>2. LocksInv
  BY DEF LocksInv, MutualExclusion, InGlobal, Holds
<1>3. HandlerInv
  BY DEF HandlerInv
<1>4. StacksInv
  BY DEF StacksInv, Live
<1>5. IdentityInv /\ KilledOnlyOnReentry
  BY DEF IdentityInv, KilledOnlyOnReentry, KnowsItself
<1> QED
  BY <1>1, <1>2, <1>3, <1>4, <1>5

(* dyld_mach_thread_self() caches and returns a port of the program's, never *)
(* the debug thread's, as long as the debug thread has not called it.        *)
LEMMA ResolveReturnsAThread ==
  ASSUME LockInv, NEW t \in Threads, pc[t] # "unborn", Resolve(t)
  PROVE  /\ cache' \in [thread : AllThreads \cup {NoThread},
                        page : Pages \cup {NoPage}]
         /\ me' = [me EXCEPT ![t] = me'[t]]
         /\ me'[t] \in Threads
         /\ stack[me'[t]] = stack[t]
<1>1. stack[t] \in Stacks
  BY DEF StacksInv
<1>2. PICK d \in Depths :
        LET here == <<stack[t], d>>
        IN \/ /\ cache.page = here
              /\ me' = [me EXCEPT ![t] = cache.thread]
              /\ UNCHANGED cache
           \/ /\ cache.page # here
              /\ me' = [me EXCEPT ![t] = t]
              /\ cache' = [thread |-> t, page |-> here]
  BY DEF Resolve
<1>3. <<stack[t], d>> \in Pages /\ <<stack[t], d>> # NoPage
  BY <1>1 DEF Pages, NoPage
<1>4. CASE cache.page = <<stack[t], d>>
  BY <1>2, <1>3, <1>4 DEF TypeOK, IdentityInv
<1>5. CASE cache.page # <<stack[t], d>>
  BY <1>2, <1>3, <1>5 DEF TypeOK
<1> QED
  BY <1>4, <1>5

LEMMA TypeStep == LockInv /\ [Next]_vars => TypeOK'
<1> USE DEF TypeOK
<1>0. ASSUME LockInv, UNCHANGED vars PROVE TypeOK'
  BY <1>0 DEF vars
<1> SUFFICES ASSUME LockInv, NEW t \in Threads, ThreadStep(t) \/ LifeStep(t)
             PROVE  TypeOK'
  BY <1>0 DEF Next, Stopped
<1>1. ASSUME NEW from, NEW to \in Pcs, Grab(t, from, to) PROVE TypeOK'
  BY <1>1 DEF Grab
<1>2. CASE GrabStep(t)
  BY <1>1, <1>2 DEF GrabStep, Pcs, SetPcs, OrPcs, RelPcs
<1>3. CASE SetResolve(t) \/ OrResolve(t) \/ RelResolve(t)
  <2>1. Resolve(t) /\ pc[t] # "unborn"
    BY <1>3 DEF SetResolve, OrResolve, RelResolve
  <2>2. /\ cache' \in [thread : AllThreads \cup {NoThread},
                       page : Pages \cup {NoPage}]
        /\ me' \in [AllThreads -> AllThreads \cup {NoThread}]
    BY <2>1, ResolveReturnsAThread
  <2>3. pc' \in [AllThreads -> Pcs] /\ returnOnError' \in BOOLEAN
    <3>1. CASE SetResolve(t)
      BY <3>1 DEF SetResolve, Pcs, SetPcs
    <3>2. CASE OrResolve(t)
      BY <3>2 DEF OrResolve, Pcs, OrPcs
    <3>3. CASE RelResolve(t)
      BY <3>3 DEF RelResolve, Pcs, RelPcs
    <3> QED
      BY <1>3, <3>1, <3>2, <3>3
  <2>4. /\ globalLock' \in BOOLEAN
        /\ UNCHANGED <<dyldLock, owner, mdHandler, leHandler, debugVars, stack, ctx>>
    BY <2>1 DEF Resolve
  <2> QED
    BY <2>2, <2>3, <2>4
<1>4. CASE DeadLockError(t) \/ SetBusy(t) \/ SetTake(t) \/ SetClear(t)
  <2>1. CASE DeadLockError(t)
    BY <2>1 DEF DeadLockError, Pcs
  <2>2. CASE SetBusy(t)
    BY <2>2 DEF SetBusy, Pcs, SetPcs
  <2>3. CASE SetTake(t)
    BY <2>3 DEF SetTake, Pcs, SetPcs
  <2>4. CASE SetClear(t)
    BY <2>4 DEF SetClear, Leave, Pcs
  <2> QED
    BY <1>4, <2>1, <2>2, <2>3, <2>4
<1>5. CASE SetOwner(t)
  BY <1>5 DEF SetOwner, Pcs, SetPcs
<1>6. CASE OrCheck(t) \/ EndPeek(t)
  <2>1. CASE OrCheck(t)
    BY <2>1 DEF OrCheck, Leave, Pcs, SetPcs
  <2>2. CASE EndPeek(t)
    BY <2>2 DEF EndPeek, Pcs
  <2> QED
    BY <1>6, <2>1, <2>2
<1>7. CASE RelOwner(t) \/ RelFlag(t) \/ RelClear(t)
  <2>1. CASE RelOwner(t)
    BY <2>1 DEF RelOwner, Pcs, RelPcs
  <2>2. CASE RelFlag(t)
    BY <2>2 DEF RelFlag, Pcs, RelPcs
  <2>3. CASE RelClear(t)
    BY <2>3 DEF RelClear, Pcs, RelPcs
  <2> QED
    BY <1>7, <2>1, <2>2, <2>3
<1>8. CASE RelWait(t)
  BY <1>8 DEF RelWait, Leave, Pcs, RelPcs
<1>9. CASE RelSuspend(t)
  BY <1>9 DEF RelSuspend, Suspend, Leave, Pcs
<1>10. CASE CallSetLock(t) \/ CallSetLockOrInHandler(t) \/ CallReleaseLock(t)
  BY <1>10 DEF CallSetLock, CallSetLockOrInHandler, CallReleaseLock, Pcs,
               SetPcs, OrPcs, RelPcs
<1>11. CASE ChooseReturnOnError(t)
  BY <1>11 DEF ChooseReturnOnError
<1>12. CASE MultiplyDefinedEnter(t)
  BY <1>12 DEF MultiplyDefinedEnter, Suspend, Pcs
<1>13. CASE LinkEditErrorEnter(t)
  BY <1>13 DEF LinkEditErrorEnter, Suspend, Pcs
<1>14. CASE HandlerReturn(t)
  <2>1. CASE MultiplyDefinedExit(t)
    BY <2>1 DEF MultiplyDefinedExit, Pcs
  <2>2. CASE LinkEditErrorReturn(t)
    BY <2>2 DEF LinkEditErrorReturn, Pcs
  <2> QED
    BY <1>14, <2>1, <2>2 DEF HandlerReturn
<1>15. CASE ThreadStart(t) \/ ThreadExit(t)
  BY <1>15 DEF ThreadStart, ThreadExit, Pcs
<1>16. CASE ForkChild(t)
  BY <1>16 DEF ForkChild, Pcs, RelPcs
<1> QED
  BY <1>0, <1>2, <1>3, <1>4, <1>5, <1>6, <1>7, <1>8, <1>9, <1>10, <1>11, <1>12,
     <1>13, <1>14, <1>15, <1>16
     DEF ThreadStep, LockStep, UserStep, LifeStep, SpinOnGlobalLock

(* A program's thread has global_lock from its test-and-set to its clearing, *)
(* and changes dyld_lock in between only.                                    *)
LEMMA LocksStep == LockInv /\ [Next]_vars => LocksInv'
<1> USE DEF TypeOK, LocksInv, HandlerInv, MutualExclusion, InGlobal, Holds,
            SetPcs, OrPcs
<1>0. ASSUME LockInv, UNCHANGED vars PROVE LocksInv'
  BY <1>0 DEF vars
<1> SUFFICES ASSUME LockInv, NEW t \in Threads, ThreadStep(t) \/ LifeStep(t)
             PROVE  LocksInv'
  BY <1>0 DEF Next, Stopped
<1>1. CASE GrabStep(t)
  BY <1>1 DEF GrabStep, Grab
<1>2. CASE SetResolve(t) \/ OrResolve(t) \/ RelResolve(t)
  <2>1. me'[t] # DebugThread
    BY <1>2, ResolveReturnsAThread DEF SetResolve, OrResolve, RelResolve
  <2> QED
    BY <1>2, <2>1 DEF SetResolve, OrResolve, RelResolve, Resolve
<1>3. CASE DeadLockError(t)
  BY <1>3 DEF DeadLockError
<1>4. CASE SetOwner(t) \/ SetBusy(t)
  BY <1>4 DEF SetOwner, SetBusy
<1>5. CASE SetTake(t)
  \* No thread has dyld_lock, for it was seen FALSE and global_lock is held.
  <2>1. \A u \in Threads : ~Holds(u)
    BY <1>5 DEF SetTake
  <2> QED
    BY <1>5, <2>1 DEF SetTake
<1>6. CASE SetClear(t)
  BY <1>6 DEF SetClear, Leave
<1>7. CASE OrCheck(t) \/ EndPeek(t)
  BY <1>7 DEF OrCheck, EndPeek, Leave
<1>8. CASE RelOwner(t)
  BY <1>8 DEF RelOwner
<1>9. CASE RelFlag(t)
  \* The one thread that had dyld_lock has it no more.
  <2>1. ctx[t] = "user" /\ \A u \in Threads : Holds(u) => u = t
    BY <1>9 DEF RelFlag
  <2> QED
    BY <1>9, <2>1 DEF RelFlag
<1>10. CASE RelClear(t) \/ RelWait(t) \/ RelSuspend(t)
  BY <1>10 DEF RelClear, RelWait, RelSuspend, Leave
<1>11. CASE UserStep(t) \/ HandlerReturn(t) \/ CallReleaseLock(t)
  BY <1>11 DEF UserStep, CallSetLock, CallSetLockOrInHandler,
              ChooseReturnOnError, MultiplyDefinedEnter, LinkEditErrorEnter,
              HandlerReturn, MultiplyDefinedExit, LinkEditErrorReturn,
              CallReleaseLock
<1>12. CASE ThreadStart(t) \/ ThreadExit(t)
  BY <1>12 DEF ThreadStart, ThreadExit
<1>13. CASE ForkChild(t)
  BY <1>13 DEF ForkChild
<1> QED
  BY <1>0, <1>1, <1>2, <1>3, <1>4, <1>5, <1>6, <1>7, <1>8, <1>9, <1>10, <1>11,
     <1>12, <1>13
     DEF ThreadStep, LockStep, LifeStep, SpinOnGlobalLock

(* User code called by an error handler that calls dyld never gets the lock. *)
LEMMA HandlerStep == LockInv /\ [Next]_vars => HandlerInv'
<1> USE DEF TypeOK, HandlerInv, SetPcs, OrPcs
<1>0. ASSUME LockInv, UNCHANGED vars PROVE HandlerInv'
  BY <1>0 DEF vars
<1> SUFFICES ASSUME LockInv, NEW t \in Threads, ThreadStep(t) \/ LifeStep(t)
             PROVE  HandlerInv'
  BY <1>0 DEF Next, Stopped
<1>1. CASE GrabStep(t)
  BY <1>1 DEF GrabStep, Grab
<1>2. CASE SetResolve(t) \/ OrResolve(t) \/ RelResolve(t)
  <2>1. me'[t] # DebugThread
    BY <1>2, ResolveReturnsAThread DEF SetResolve, OrResolve, RelResolve
  <2> QED
    BY <1>2, <2>1 DEF SetResolve, OrResolve, RelResolve, Resolve
<1>3. CASE SetOwner(t)
  \* A handler runs under the lock, and t found the lock free.
  <2>1. ctx[t] = "user"
    BY <1>3 DEF SetOwner, LocksInv, Holds
  <2> QED
    BY <1>3, <2>1 DEF SetOwner
<1>4. CASE DeadLockError(t) \/ SetBusy(t) \/ SetTake(t) \/ SetClear(t)
  BY <1>4 DEF DeadLockError, SetBusy, SetTake, SetClear, Leave
<1>5. CASE OrCheck(t) \/ EndPeek(t)
  BY <1>5 DEF OrCheck, EndPeek, Leave
<1>6. CASE RelOwner(t) \/ RelFlag(t) \/ RelClear(t) \/ RelWait(t) \/ RelSuspend(t)
  BY <1>6 DEF RelOwner, RelFlag, RelClear, RelWait, RelSuspend, Leave
<1>7. CASE UserStep(t) \/ HandlerReturn(t) \/ CallReleaseLock(t)
  BY <1>7 DEF UserStep, CallSetLock, CallSetLockOrInHandler,
             ChooseReturnOnError, MultiplyDefinedEnter, LinkEditErrorEnter,
             HandlerReturn, MultiplyDefinedExit, LinkEditErrorReturn,
             CallReleaseLock
<1>8. CASE LifeStep(t)
  BY <1>8 DEF LifeStep, ThreadStart, ThreadExit, ForkChild
<1> QED
  BY <1>0, <1>1, <1>2, <1>3, <1>4, <1>5, <1>6, <1>7, <1>8
     DEF ThreadStep, LockStep, SpinOnGlobalLock

(* What a step of dyld's functions leaves alone: stacks, and who is alive.   *)
LEMMA ThreadStepKeepsStacks ==
  ASSUME LockInv, NEW t \in Threads, ThreadStep(t)
  PROVE  /\ stack' = stack
         /\ pc[t] # "unborn"
         /\ \E label : /\ pc' = [pc EXCEPT ![t] = label]
                       /\ label \notin {"unborn", "exited", "gone"}
<1>1. CASE GrabStep(t)
  BY <1>1 DEF GrabStep, Grab
<1>2. CASE SetResolve(t) \/ OrResolve(t) \/ RelResolve(t)
  BY <1>2 DEF SetResolve, OrResolve, RelResolve, Resolve
<1>3. CASE \/ DeadLockError(t) \/ SetOwner(t) \/ SetBusy(t) \/ SetTake(t)
           \/ SetClear(t) \/ OrCheck(t) \/ EndPeek(t)
  BY <1>3 DEF DeadLockError, SetOwner, SetBusy, SetTake, SetClear, OrCheck,
             EndPeek, Leave
<1>4. CASE RelOwner(t) \/ RelFlag(t) \/ RelClear(t) \/ RelWait(t) \/ RelSuspend(t)
  BY <1>4 DEF RelOwner, RelFlag, RelClear, RelWait, RelSuspend, Leave
<1>5. CASE ChooseReturnOnError(t)
  <2>1. pc' = [pc EXCEPT ![t] = "inside"]
    BY <1>5 DEF ChooseReturnOnError, TypeOK
  <2> QED
    BY <1>5, <2>1 DEF ChooseReturnOnError
<1>6. CASE \/ CallSetLock(t) \/ CallSetLockOrInHandler(t)
           \/ MultiplyDefinedEnter(t) \/ LinkEditErrorEnter(t)
           \/ HandlerReturn(t) \/ CallReleaseLock(t)
  BY <1>6 DEF CallSetLock, CallSetLockOrInHandler, MultiplyDefinedEnter,
             LinkEditErrorEnter, HandlerReturn, MultiplyDefinedExit,
             LinkEditErrorReturn, CallReleaseLock
<1>7. CASE SpinOnGlobalLock(t)
  <2>1. pc' = [pc EXCEPT ![t] = pc[t]]
    BY <1>7 DEF SpinOnGlobalLock, vars, TypeOK
  <2> QED
    BY <1>7, <2>1 DEF SpinOnGlobalLock, vars
<1> QED
  BY <1>1, <1>2, <1>3, <1>4, <1>5, <1>6, <1>7 DEF ThreadStep, LockStep, UserStep

LEMMA StacksStep == LockInv /\ [Next]_vars => StacksInv'
<1> USE DEF TypeOK, StacksInv, Live
<1>0. ASSUME LockInv, UNCHANGED vars PROVE StacksInv'
  BY <1>0 DEF vars
<1> SUFFICES ASSUME LockInv, NEW t \in Threads, ThreadStep(t) \/ LifeStep(t)
             PROVE  StacksInv'
  BY <1>0 DEF Next, Stopped
<1>1. CASE ThreadStep(t)
  <2>1. PICK label : /\ pc' = [pc EXCEPT ![t] = label]
                     /\ label \notin {"unborn", "exited", "gone"}
    BY <1>1, ThreadStepKeepsStacks
  <2>2. stack' = stack /\ pc[t] # "unborn"
    BY <1>1, ThreadStepKeepsStacks
  <2>3. Live(t)
    BY <1>1 DEF ThreadStep, Runnable
  <2> QED
    BY <2>1, <2>2, <2>3
<1>2. CASE ThreadStart(t)
  BY <1>2 DEF ThreadStart, StackIsFree
<1>3. CASE ThreadExit(t)
  BY <1>3 DEF ThreadExit
<1>4. CASE ForkChild(t)
  BY <1>4 DEF ForkChild
<1> QED
  BY <1>1, <1>2, <1>3, <1>4 DEF LifeStep

(* The ports in cached_thread, in the locals my_thread and in                *)
(* thread_that_has_dyld_lock stay tied to the stacks they were found on.     *)
LEMMA IdentityStep == LockInv /\ [Next]_vars => IdentityInv'
<1> USE DEF TypeOK, IdentityInv, KnowsItself, Holds
<1>0. ASSUME LockInv, UNCHANGED vars PROVE IdentityInv'
  BY <1>0 DEF vars
<1> SUFFICES ASSUME LockInv, NEW t \in Threads, ThreadStep(t) \/ LifeStep(t)
             PROVE  IdentityInv'
  BY <1>0 DEF Next, Stopped
<1>1. CASE GrabStep(t)
  BY <1>1 DEF GrabStep, Grab
<1>2. CASE SetResolve(t) \/ OrResolve(t) \/ RelResolve(t)
  <2>1. Resolve(t) /\ pc[t] \in {"setId", "orId", "relId"}
    BY <1>2 DEF SetResolve, OrResolve, RelResolve
  <2>2. /\ me'[t] \in Threads /\ stack[me'[t]] = stack[t]
        /\ me' = [me EXCEPT ![t] = me'[t]]
    BY <2>1, ResolveReturnsAThread
  <2>3. stack' = stack /\ ctx' = ctx /\ owner' = owner
    BY <2>1 DEF Resolve
  <2>4. PICK label \in {"setSpin", "orSpin", "relSpin"} :
          /\ pc' = [pc EXCEPT ![t] = label]
          /\ pc[t] = "relId" <=> label = "relSpin"
    BY <1>2, <2>2 DEF SetResolve, OrResolve, RelResolve
  <2>5. (cache.page # NoPage => /\ cache.thread \in Threads
                                /\ stack[cache.thread] = cache.page[1])'
    BY <2>1, <2>3 DEF Resolve
  <2>6. (\A u \in Threads : pc[u] \in KnowsItself
                              => me[u] \in Threads /\ stack[me[u]] = stack[u])'
    BY <2>2, <2>3, <2>4
  <2>7. (\A u \in Threads : pc[u] = "relFlag" => owner = NoThread)'
    BY <2>3, <2>4
  <2>8. \A u \in Threads :
          Holds(u) \/ pc[u] = "setTake" => (Holds(u) \/ pc[u] = "setTake")'
    BY <2>1, <2>3, <2>4
  <2> QED
    BY <2>3, <2>5, <2>6, <2>7, <2>8
<1>3. CASE SetOwner(t)
  BY <1>3 DEF SetOwner, LocksInv, InGlobal
<1>4. CASE DeadLockError(t) \/ SetBusy(t) \/ SetTake(t) \/ SetClear(t)
  BY <1>4 DEF DeadLockError, SetBusy, SetTake, SetClear, Leave
<1>5. CASE OrCheck(t) \/ EndPeek(t)
  BY <1>5 DEF OrCheck, EndPeek, Leave
<1>6. CASE RelOwner(t)
  BY <1>6 DEF RelOwner
<1>7. CASE RelFlag(t) \/ RelClear(t) \/ RelWait(t) \/ RelSuspend(t)
  BY <1>7 DEF RelFlag, RelClear, RelWait, RelSuspend, Leave
<1>8. CASE UserStep(t) \/ HandlerReturn(t) \/ CallReleaseLock(t)
  BY <1>8 DEF UserStep, CallSetLock, CallSetLockOrInHandler,
             ChooseReturnOnError, MultiplyDefinedEnter, LinkEditErrorEnter,
             HandlerReturn, MultiplyDefinedExit, LinkEditErrorReturn,
             CallReleaseLock
<1>9. CASE ThreadStart(t)
  \* The new thread had no stack, so no port in use is tied to it.
  <2>1. /\ pc[t] = "unborn" /\ stack[t] = NoStack /\ ctx[t] = "user"
        /\ pc' = [pc EXCEPT ![t] = "out"]
        /\ \A u \in Threads : u # t => stack'[u] = stack[u]
        /\ UNCHANGED <<cache, owner, ctx, me>>
    BY <1>9 DEF ThreadStart, StacksInv, HandlerInv, SetPcs, OrPcs
  <2>2. ASSUME cache.page # NoPage
        PROVE  cache.thread \in Threads /\ stack'[cache.thread] = cache.page[1]
    <3>1. cache.page[1] \in Stacks
      BY <2>2 DEF Pages
    <3> QED
      BY <2>1, <2>2, <3>1
  <2>3. ASSUME NEW u \in Threads, pc[u] \in KnowsItself
        PROVE  me[u] \in Threads /\ stack'[me[u]] = stack'[u]
    <3>1. stack[me[u]] \in Stacks /\ me[u] \in Threads
      BY <2>3 DEF StacksInv
    <3> QED
      BY <2>1, <2>3, <3>1
  <2>4. ASSUME owner # NoThread
        PROVE  /\ owner \in Threads
               /\ \E h \in Threads : /\ Holds(h) \/ pc[h] = "setTake"
                                    /\ h # t
                                    /\ stack'[owner] = stack'[h]
    <3>1. PICK h \in Threads : /\ Holds(h) \/ pc[h] = "setTake"
                               /\ stack[owner] = stack[h]
      BY <2>4
    <3>2. owner \in Threads /\ h # t
      BY <2>1, <2>4, <3>1
    <3>3. stack[h] \in Stacks
      BY <3>1 DEF StacksInv, HandlerInv, SetPcs, OrPcs
    <3> QED
      BY <2>1, <3>1, <3>2, <3>3
  <2> QED
    BY <2>1, <2>2, <2>3, <2>4
<1>10. CASE ThreadExit(t)
  BY <1>10 DEF ThreadExit
<1>11. CASE ForkChild(t)
  <2>1. \A h \in Threads : Holds(h) \/ pc[h] = "setTake" => h = t
    BY <1>11 DEF ForkChild, LocksInv, MutualExclusion
  <2> QED
    BY <1>11, <2>1 DEF ForkChild
<1> QED
  BY <1>0, <1>1, <1>2, <1>3, <1>4, <1>5, <1>6, <1>7, <1>8, <1>9, <1>10, <1>11
     DEF ThreadStep, LockStep, LifeStep, SpinOnGlobalLock

LEMMA KilledStep == LockInv /\ [Next]_vars => KilledOnlyOnReentry'
<1> USE DEF TypeOK, KilledOnlyOnReentry
<1>0. ASSUME LockInv, UNCHANGED vars PROVE KilledOnlyOnReentry'
  BY <1>0 DEF vars
<1> SUFFICES ASSUME LockInv, NEW t \in Threads, ThreadStep(t) \/ LifeStep(t)
             PROVE  KilledOnlyOnReentry'
  BY <1>0 DEF Next, Stopped
<1>1. CASE DeadLockError(t)
  \* Whoever has the lock runs on the stack the owner's port was found on, and
  \* t found the same port on its own stack: t is the one that has the lock.
  <2>1. me[t] \in Threads /\ stack[me[t]] = stack[t] /\ owner = me[t]
    BY <1>1 DEF DeadLockError, IdentityInv, KnowsItself
  <2>2. PICK h \in Threads : /\ Holds(h) \/ pc[h] = "setTake"
                             /\ stack[owner] = stack[h]
    BY <2>1 DEF IdentityInv
  <2>3. Live(h) /\ Live(t)
    BY <1>1, <2>2 DEF DeadLockError, Live, Holds, HandlerInv, SetPcs, OrPcs
  <2>4. h = t
    BY <2>1, <2>2, <2>3 DEF StacksInv
  <2>5. ctx[t] # "user"
    BY <1>1, <2>2, <2>4 DEF DeadLockError, Holds
  <2> QED
    BY <1>1, <2>5 DEF DeadLockError
<1>2. CASE GrabStep(t)
  BY <1>2 DEF GrabStep, Grab
<1>3. CASE SetResolve(t) \/ OrResolve(t) \/ RelResolve(t)
  BY <1>3 DEF SetResolve, OrResolve, RelResolve, Resolve
<1>4. CASE \/ SetOwner(t) \/ SetBusy(t) \/ SetTake(t) \/ SetClear(t)
           \/ OrCheck(t) \/ EndPeek(t)
  BY <1>4 DEF SetOwner, SetBusy, SetTake, SetClear, OrCheck, EndPeek, Leave
<1>5. CASE RelOwner(t) \/ RelFlag(t) \/ RelClear(t) \/ RelWait(t) \/ RelSuspend(t)
  BY <1>5 DEF RelOwner, RelFlag, RelClear, RelWait, RelSuspend, Leave
<1>6. CASE UserStep(t) \/ HandlerReturn(t) \/ CallReleaseLock(t)
  BY <1>6 DEF UserStep, CallSetLock, CallSetLockOrInHandler,
             ChooseReturnOnError, MultiplyDefinedEnter, LinkEditErrorEnter,
             HandlerReturn, MultiplyDefinedExit, LinkEditErrorReturn,
             CallReleaseLock
<1>7. CASE LifeStep(t)
  BY <1>7 DEF LifeStep, ThreadStart, ThreadExit, ForkChild
<1> QED
  BY <1>0, <1>1, <1>2, <1>3, <1>4, <1>5, <1>6, <1>7
     DEF ThreadStep, LockStep, SpinOnGlobalLock
-----------------------------------------------------------------------------
(* LockInv holds in every state of the dynamic linker's lock, with any      *)
(* number of threads, stacks and pages, recycled or not.                    *)
THEOREM LockInvariant == Spec => []LockInv
<1>1. LockInv /\ [Next]_vars => LockInv'
  BY TypeStep, LocksStep, HandlerStep, StacksStep, IdentityStep, KilledStep
<1> QED
  BY <1>1, InitLockInv, PTL DEF Spec

(* Every variable of the lock keeps its type.                               *)
THEOREM TypeCorrectness == Spec => []TypeOK
<1>1. LockInv => TypeOK
  OBVIOUS
<1> QED
  BY <1>1, LockInvariant, PTL

(* set_lock() and release_lock() let one thread at a time be inside the     *)
(* dynamic linker, although threads are known by a cached port that may be  *)
(* another thread's.                                                        *)
THEOREM MutualExclusionHolds == Spec => []MutualExclusion
<1>1. LockInv => MutualExclusion
  BY DEF LocksInv
<1> QED
  BY <1>1, LockInvariant, PTL

(* dead_lock_error() is called only for a thread that is in one of its own  *)
(* error handlers, even when ports of finished threads are still cached.    *)
THEOREM KilledOnlyOnReentryHolds == Spec => []KilledOnlyOnReentry
<1>1. LockInv => KilledOnlyOnReentry
  OBVIOUS
<1> QED
  BY <1>1, LockInvariant, PTL
-----------------------------------------------------------------------------
(* Where stacks are not given to a second thread, a thread is known by its   *)
(* own port: OwnPortsInv is inductive, too.                                  *)

(* The port a thread goes by is its own.                                     *)
LEMMA OwnPort ==
  ASSUME LockInv, OwnStacksInv, NEW t \in Threads, pc[t] \in KnowsItself
  PROVE  me[t] = t
<1>1. me[t] \in Threads /\ stack[me[t]] = stack[t]
  BY DEF IdentityInv
<1>2. stack[t] \in Stacks
  BY DEF StacksInv, KnowsItself
<1> QED
  BY <1>1, <1>2 DEF OwnStacksInv

(* thread_that_has_dyld_lock is a thread that has it, or is about to.        *)
LEMMA OwnerIsOwn ==
  ASSUME LockInv, OwnStacksInv, owner # NoThread
  PROVE  owner \in Threads /\ (Holds(owner) \/ pc[owner] = "setTake")
<1>1. PICK h \in Threads : /\ Holds(h) \/ pc[h] = "setTake"
                           /\ stack[owner] = stack[h]
  BY DEF IdentityInv
<1>2. stack[h] \in Stacks
  BY <1>1 DEF StacksInv, HandlerInv, Holds, SetPcs, OrPcs
<1> QED
  BY <1>1, <1>2 DEF OwnStacksInv, IdentityInv

LEMMA OwnStacksStep ==
  ASSUME ~StacksRecycled
  PROVE  LockInv /\ OwnStacksInv /\ [Next]_vars => OwnStacksInv'
<1> USE DEF TypeOK, OwnStacksInv
<1>0. ASSUME LockInv, OwnStacksInv, UNCHANGED vars PROVE OwnStacksInv'
  BY <1>0 DEF vars
<1> SUFFICES ASSUME LockInv, OwnStacksInv,
                    NEW t \in Threads, ThreadStep(t) \/ LifeStep(t)
             PROVE  OwnStacksInv'
  BY <1>0 DEF Next, Stopped
<1>1. CASE ThreadStep(t)
  BY <1>1, ThreadStepKeepsStacks
<1>2. CASE ThreadStart(t)
  BY <1>2 DEF ThreadStart, StackIsFree
<1>3. CASE ThreadExit(t) \/ ForkChild(t)
  BY <1>3 DEF ThreadExit, ForkChild
<1> QED
  BY <1>1, <1>2, <1>3 DEF LifeStep

LEMMA OwnerStep == OwnPortsInv /\ [Next]_vars => OwnerInv'
<1> USE DEF TypeOK, OwnPortsInv, OwnerInv, OwnerIsHolder, Holds
<1>0. ASSUME OwnPortsInv, UNCHANGED vars PROVE OwnerInv'
  BY <1>0 DEF vars
<1> SUFFICES ASSUME OwnPortsInv,
                    NEW t \in Threads, ThreadStep(t) \/ LifeStep(t)
             PROVE  OwnerInv'
  BY <1>0 DEF Next, Stopped
<1>1. CASE GrabStep(t)
  BY <1>1 DEF GrabStep, Grab
<1>2. CASE SetResolve(t) \/ OrResolve(t) \/ RelResolve(t)
  <2>1. me'[t] # DebugThread
    BY <1>2, ResolveReturnsAThread DEF SetResolve, OrResolve, RelResolve
  <2> QED
    BY <1>2, <2>1 DEF SetResolve, OrResolve, RelResolve, Resolve
<1>3. CASE SetOwner(t)
  \* No other thread is between its stores: t has global_lock.
  <2>1. me[t] = t
    BY <1>3, OwnPort DEF SetOwner, KnowsItself
  <2>2. \A u \in Threads : u # t => pc[u] # "setTake"
    BY <1>3 DEF SetOwner, LocksInv, InGlobal
  <2> QED
    BY <1>3, <2>1, <2>2 DEF SetOwner
<1>4. CASE SetTake(t)
  BY <1>4 DEF SetTake
<1>5. CASE DeadLockError(t) \/ SetBusy(t) \/ SetClear(t)
  BY <1>5 DEF DeadLockError, SetBusy, SetClear, Leave, HandlerInv
<1>6. CASE OrCheck(t) \/ EndPeek(t)
  BY <1>6 DEF OrCheck, EndPeek, Leave, HandlerInv
<1>7. CASE RelOwner(t)
  <2>1. \A u \in Threads : pc[u] # "setTake"
    BY <1>7 DEF RelOwner, LocksInv, InGlobal
  <2>2. Holds(t)'
    BY <1>7 DEF RelOwner
  <2> QED
    BY <1>7, <2>1, <2>2 DEF RelOwner
<1>8. CASE RelFlag(t) \/ RelClear(t) \/ RelWait(t) \/ RelSuspend(t)
  BY <1>8 DEF RelFlag, RelClear, RelWait, RelSuspend, Leave, HandlerInv
<1>9. CASE UserStep(t) \/ HandlerReturn(t) \/ CallReleaseLock(t)
  BY <1>9 DEF UserStep, CallSetLock, CallSetLockOrInHandler,
             ChooseReturnOnError, MultiplyDefinedEnter, LinkEditErrorEnter,
             HandlerReturn, MultiplyDefinedExit, LinkEditErrorReturn,
             CallReleaseLock
<1>10. CASE ThreadStart(t) \/ ThreadExit(t)
  BY <1>10 DEF ThreadStart, ThreadExit, HandlerInv, SetPcs, OrPcs
<1>11. CASE ForkChild(t)
  \* The thread that forks is inside, so it is the owner, in the child as well.
  <2>1. dyldLock /\ owner = t
    BY <1>11 DEF ForkChild, LocksInv, MutualExclusion
  <2> QED
    BY <1>11, <2>1 DEF ForkChild
<1> QED
  BY <1>0, <1>1, <1>2, <1>3, <1>4, <1>5, <1>6, <1>7, <1>8, <1>9, <1>10, <1>11
     DEF ThreadStep, LockStep, LifeStep, SpinOnGlobalLock

LEMMA HandlerFlagStep == OwnPortsInv /\ [Next]_vars => HandlerFlagInv'
<1> USE DEF TypeOK, OwnPortsInv, HandlerFlagInv, PeekOnlyInHandler
<1>0. ASSUME OwnPortsInv, UNCHANGED vars PROVE HandlerFlagInv'
  BY <1>0 DEF vars
<1> SUFFICES ASSUME OwnPortsInv,
                    NEW t \in Threads, ThreadStep(t) \/ LifeStep(t)
             PROVE  HandlerFlagInv'
  BY <1>0 DEF Next, Stopped
<1>1. CASE GrabStep(t)
  BY <1>1 DEF GrabStep, Grab
<1>2. CASE SetResolve(t) \/ OrResolve(t) \/ RelResolve(t)
  <2>1. me'[t] # DebugThread
    BY <1>2, ResolveReturnsAThread DEF SetResolve, OrResolve, RelResolve
  <2> QED
    BY <1>2, <2>1 DEF SetResolve, OrResolve, RelResolve, Resolve
<1>3. CASE OrCheck(t)
  \* t goes by its own port: if that is the owner's, t is the one in a handler.
  <2>1. CASE owner = me[t] /\ mdHandler
    <3>1. owner = t
      BY <1>3, <2>1, OwnPort DEF OrCheck, KnowsItself
    <3>2. Holds(t)
      BY <1>3, <3>1, OwnerIsOwn DEF OrCheck
    <3>3. PICK u \in Threads : ctx[u] = "mdh"
      BY <2>1
    <3>4. u = t
      BY <3>2, <3>3 DEF LocksInv, MutualExclusion, Holds
    <3> QED
      BY <1>3, <3>3, <3>4 DEF OrCheck, Leave
  <2>2. CASE ~(owner = me[t] /\ mdHandler)
    BY <1>3, <2>2 DEF OrCheck, Leave
  <2> QED
    BY <2>1, <2>2
<1>4. CASE DeadLockError(t) \/ SetOwner(t) \/ SetBusy(t) \/ SetTake(t) \/ SetClear(t)
  BY <1>4 DEF DeadLockError, SetOwner, SetBusy, SetTake, SetClear, Leave
<1>5. CASE EndPeek(t)
  BY <1>5 DEF EndPeek
<1>6. CASE RelOwner(t) \/ RelFlag(t) \/ RelClear(t) \/ RelWait(t) \/ RelSuspend(t)
  BY <1>6 DEF RelOwner, RelFlag, RelClear, RelWait, RelSuspend, Leave
<1>7. CASE CallSetLock(t) \/ CallSetLockOrInHandler(t) \/ ChooseReturnOnError(t)
           \/ CallReleaseLock(t)
  BY <1>7 DEF CallSetLock, CallSetLockOrInHandler, ChooseReturnOnError, CallReleaseLock
<1>8. CASE MultiplyDefinedEnter(t) \/ LinkEditErrorEnter(t) \/ LinkEditErrorReturn(t)
  BY <1>8 DEF MultiplyDefinedEnter, LinkEditErrorEnter, LinkEditErrorReturn
<1>9. CASE MultiplyDefinedExit(t)
  \* Only the thread that has the lock can be in the handler, or peek from it.
  <2>1. \A u \in Threads : ctx[u] = "mdh" => u = t
    BY <1>9 DEF MultiplyDefinedExit, LocksInv, MutualExclusion, Holds
  <2> QED
    BY <1>9, <2>1 DEF MultiplyDefinedExit
<1>10. CASE ThreadStart(t) \/ ThreadExit(t)
  BY <1>10 DEF ThreadStart, ThreadExit
<1>11. CASE ForkChild(t)
  <2>1. \A u \in Threads : ctx[u] # "mdh"
    BY <1>11 DEF ForkChild, LocksInv, MutualExclusion, Holds
  <2> QED
    BY <1>11, <2>1 DEF ForkChild
<1> QED
  BY <1>0, <1>1, <1>2, <1>3, <1>4, <1>5, <1>6, <1>7, <1>8, <1>9, <1>10, <1>11
     DEF ThreadStep, LockStep, UserStep, HandlerReturn, LifeStep, SpinOnGlobalLock

LEMMA ReentryStep == OwnPortsInv /\ [Next]_vars => ReentryIsDetected'
<1> USE DEF TypeOK, OwnPortsInv, ReentryIsDetected, Holds
<1>0. ASSUME OwnPortsInv, UNCHANGED vars PROVE ReentryIsDetected'
  BY <1>0 DEF vars
<1> SUFFICES ASSUME OwnPortsInv,
                    NEW t \in Threads, ThreadStep(t) \/ LifeStep(t)
             PROVE  ReentryIsDetected'
  BY <1>0 DEF Next, Stopped
<1>1. CASE GrabStep(t)
  BY <1>1 DEF GrabStep, Grab
<1>2. CASE SetResolve(t) \/ OrResolve(t) \/ RelResolve(t)
  <2>1. me'[t] # DebugThread
    BY <1>2, ResolveReturnsAThread DEF SetResolve, OrResolve, RelResolve
  <2> QED
    BY <1>2, <2>1 DEF SetResolve, OrResolve, RelResolve, Resolve
<1>3. CASE SetOwner(t) \/ SetBusy(t)
  \* A thread in its handler that gets as far as the test is the owner.
  <2>1. ASSUME Holds(t) PROVE FALSE
    <3>1. pc[t] = "setCheck" /\ owner # me[t]
      BY <1>3, <2>1 DEF SetOwner, SetBusy
    <3>2. owner = t
      BY <2>1, <3>1 DEF LocksInv, MutualExclusion, OwnerInv, OwnerIsHolder
    <3> QED
      BY <3>1, <3>2, OwnPort DEF KnowsItself
  <2> QED
    BY <1>3, <2>1 DEF SetOwner, SetBusy
<1>4. CASE DeadLockError(t) \/ SetTake(t) \/ SetClear(t)
  BY <1>4 DEF DeadLockError, SetTake, SetClear, Leave
<1>5. CASE OrCheck(t) \/ EndPeek(t)
  BY <1>5 DEF OrCheck, EndPeek, Leave
<1>6. CASE RelOwner(t) \/ RelFlag(t) \/ RelClear(t) \/ RelWait(t) \/ RelSuspend(t)
  BY <1>6 DEF RelOwner, RelFlag, RelClear, RelWait, RelSuspend, Leave
<1>7. CASE UserStep(t) \/ HandlerReturn(t) \/ CallReleaseLock(t)
  BY <1>7 DEF UserStep, CallSetLock, CallSetLockOrInHandler,
             ChooseReturnOnError, MultiplyDefinedEnter, LinkEditErrorEnter,
             HandlerReturn, MultiplyDefinedExit, LinkEditErrorReturn,
             CallReleaseLock
<1>8. CASE LifeStep(t)
  BY <1>8 DEF LifeStep, ThreadStart, ThreadExit, ForkChild
<1> QED
  BY <1>0, <1>1, <1>2, <1>3, <1>4, <1>5, <1>6, <1>7, <1>8
     DEF ThreadStep, LockStep, SpinOnGlobalLock

(* OwnPortsInv holds in every state, if stacks are not given to a second     *)
(* thread, for any number of threads, stacks and pages and any handlers.     *)
THEOREM OwnPortsInvariant ==
  ASSUME ~StacksRecycled
  PROVE  Spec => []OwnPortsInv
<1>1. Init => OwnPortsInv
  <2> SUFFICES ASSUME Init PROVE OwnPortsInv
    OBVIOUS
  <2>1. OwnStacksInv
    BY DEF Init, OwnStacksInv
  <2>2. OwnerInv /\ HandlerFlagInv /\ ReentryIsDetected
    BY DEF Init, OwnerInv, OwnerIsHolder, HandlerFlagInv, PeekOnlyInHandler,
           ReentryIsDetected
  <2> QED
    BY <2>1, <2>2, InitLockInv DEF OwnPortsInv
<1>2. OwnPortsInv /\ [Next]_vars => OwnPortsInv'
  <2> SUFFICES ASSUME OwnPortsInv, [Next]_vars PROVE OwnPortsInv'
    OBVIOUS
  <2>1. LockInv'
    BY TypeStep, LocksStep, HandlerStep, StacksStep, IdentityStep, KilledStep
       DEF OwnPortsInv
  <2> QED
    BY <2>1, OwnStacksStep, OwnerStep, HandlerFlagStep, ReentryStep DEF OwnPortsInv
<1> QED
  BY <1>1, <1>2, PTL DEF Spec

(* A reader that takes no lock may rely on thread_that_has_dyld_lock: while  *)
(* dyld_lock is set it is the thread inside, or cleared by it already.       *)
THEOREM OwnerIsHolderHolds ==
  ASSUME ~StacksRecycled
  PROVE  Spec => []OwnerIsHolder
<1>1. OwnPortsInv => OwnerIsHolder
  BY DEF OwnPortsInv, OwnerInv
<1> QED
  BY <1>1, OwnPortsInvariant, PTL

(* No error handler waits for the lock its own thread has.                   *)
THEOREM ReentryIsDetectedHolds ==
  ASSUME ~StacksRecycled
  PROVE  Spec => []ReentryIsDetected
<1>1. OwnPortsInv => ReentryIsDetected
  BY DEF OwnPortsInv
<1> QED
  BY <1>1, OwnPortsInvariant, PTL

(* A call that is let in without the lock is made from the multiply defined  *)
(* handler of the thread that has it.                                        *)
THEOREM PeekOnlyInHandlerHolds ==
  ASSUME ~StacksRecycled
  PROVE  Spec => []PeekOnlyInHandler
<1>1. OwnPortsInv => PeekOnlyInHandler
  BY DEF OwnPortsInv, HandlerFlagInv
<1> QED
  BY <1>1, OwnPortsInvariant, PTL

(* ... and every call that is allowed from that handler is let in.           *)
THEOREM AllowedCallGoesInHolds ==
  ASSUME ~StacksRecycled
  PROVE  Spec => AllowedCallGoesIn
<1> DEFINE GoesIn == \A t \in Threads :
             pc[t] = "orCheck" /\ ctx[t] = "mdh" /\ pc'[t] # "orCheck"
               => pc'[t] = "peek"
<1>1. OwnPortsInv /\ [Next]_vars => [GoesIn]_vars
  <2> SUFFICES ASSUME OwnPortsInv, Next, NEW t \in Threads,
                      pc[t] = "orCheck", ctx[t] = "mdh", pc'[t] # "orCheck"
               PROVE  pc'[t] = "peek"
    OBVIOUS
  \* t has the lock, so nobody forks, and it is the owner.
  <2>1. /\ owner = t /\ mdHandler
        /\ \A u \in Threads : Holds(u) => u = t
    BY DEF OwnPortsInv, OwnerInv, OwnerIsHolder, HandlerFlagInv, LocksInv,
           MutualExclusion, Holds
  <2>2. me[t] = t
    BY OwnPort DEF OwnPortsInv, KnowsItself
  <2>3. PICK u \in Threads : ThreadStep(u) \/ LifeStep(u)
    BY DEF Next, Stopped, vars
  <2>4. ~ForkChild(u)
    BY <2>1, <2>3 DEF ForkChild, Holds
  <2>5. u = t
    <3>0. TypeOK
      BY DEF OwnPortsInv, LockInv
    <3>1. CASE ThreadStep(u)
      <4>1. PICK label : pc' = [pc EXCEPT ![u] = label]
        BY <3>1, ThreadStepKeepsStacks DEF OwnPortsInv
      <4> QED
        BY <3>0, <4>1 DEF TypeOK
    <3>2. CASE LifeStep(u)
      BY <2>4, <3>0, <3>2 DEF LifeStep, ThreadStart, ThreadExit, TypeOK
    <3> QED
      BY <2>3, <3>1, <3>2
  <2>6. OrCheck(t)
    BY <2>3, <2>4, <2>5
       DEF LifeStep, ThreadStart, ThreadExit, ThreadStep, GrabStep, Grab,
           SpinOnGlobalLock, vars, LockStep, SetResolve, DeadLockError, SetOwner,
           SetBusy, SetTake, SetClear, OrResolve, RelResolve, RelOwner, RelFlag,
           RelClear, RelWait, RelSuspend, EndPeek, UserStep, CallSetLock,
           CallSetLockOrInHandler, ChooseReturnOnError, MultiplyDefinedEnter,
           LinkEditErrorEnter, HandlerReturn, MultiplyDefinedExit,
           LinkEditErrorReturn, CallReleaseLock
  <2> QED
    BY <2>1, <2>2, <2>6 DEF OrCheck, Leave, OwnPortsInv, TypeOK
<1> QED
  BY <1>1, OwnPortsInvariant, PTL DEF Spec, AllowedCallGoesIn
-----------------------------------------------------------------------------
(* The lock implements LinkEditLock, recycled stacks or not.                 *)

(* What a step of t's does to the other threads: nothing, unless it forks.   *)
LEMMA OthersKeepTheirPhase ==
  ASSUME LockInv, NEW t \in Threads, ThreadStep(t) \/ ThreadStart(t) \/ ThreadExit(t)
  PROVE  \A u \in Threads : u # t => PhaseOf(u)' = PhaseOf(u)
<1>1. \A u \in Threads : u # t => pc'[u] = pc[u] /\ ctx'[u] = ctx[u]
  <2>1. CASE ThreadStep(t)
    <3>1. \A u \in Threads : u # t => pc'[u] = pc[u]
      BY <2>1, ThreadStepKeepsStacks DEF TypeOK
    <3>2. \A u \in Threads : u # t => ctx'[u] = ctx[u]
      BY <2>1
         DEF ThreadStep, GrabStep, Grab, SpinOnGlobalLock, vars, LockStep,
             SetResolve, OrResolve, RelResolve, Resolve, DeadLockError, SetOwner,
             SetBusy, SetTake, SetClear, OrCheck, RelOwner, RelFlag, RelClear,
             RelWait, RelSuspend, EndPeek, UserStep, CallSetLock,
             CallSetLockOrInHandler, ChooseReturnOnError, MultiplyDefinedEnter,
             LinkEditErrorEnter, HandlerReturn, MultiplyDefinedExit,
             LinkEditErrorReturn, CallReleaseLock, TypeOK
    <3> QED
      BY <3>1, <3>2
  <2>2. CASE ThreadStart(t) \/ ThreadExit(t)
    BY <2>2 DEF ThreadStart, ThreadExit, TypeOK
  <2> QED
    BY <2>1, <2>2
<1> QED
  BY <1>1 DEF PhaseOf, Holds, Waits

(* The one that steps goes from "out" to "waiting", to "in" if nobody is,    *)
(* and from there out again, or it is killed; or it stays where it is.       *)
LEMMA OwnPhaseStep ==
  ASSUME LockInv, LockInv', NEW t \in Threads,
         ThreadStep(t) \/ ThreadStart(t) \/ ThreadExit(t)
  PROVE  \/ PhaseOf(t)' = PhaseOf(t)
         \/ PhaseOf(t) = "out" /\ PhaseOf(t)' = "waiting"
         \/ /\ PhaseOf(t) = "waiting" /\ PhaseOf(t)' = "in"
            /\ \A u \in Threads : PhaseOf(u) \notin {"in", "killed"}
         \/ PhaseOf(t) = "in" /\ PhaseOf(t)' \in {"out", "killed"}
<1> USE DEF PhaseOf, Holds, Waits, SetPcs, TypeOK
<1>1. CASE GrabStep(t)
  BY <1>1 DEF GrabStep, Grab
<1>2. CASE SetResolve(t) \/ OrResolve(t) \/ RelResolve(t)
  <2>1. me'[t] # DebugThread
    BY <1>2, ResolveReturnsAThread DEF SetResolve, OrResolve, RelResolve
  <2> QED
    BY <1>2, <2>1 DEF SetResolve, OrResolve, RelResolve, Resolve
<1>3. CASE DeadLockError(t)
  \* It is killed only where it asked from its own handler.
  <2>1. ctx[t] # "user"
    BY <1>3 DEF DeadLockError, KilledOnlyOnReentry
  <2> QED
    BY <1>3, <2>1 DEF DeadLockError
<1>4. CASE SetTake(t)
  \* Nobody is inside, nor was anyone when the process was killed.
  <2>1. \A u \in Threads : ~Holds(u)
    BY <1>4 DEF SetTake, LocksInv
  <2>2. \A u \in Threads : pc[u] \notin {"killed", "hung"}
    BY <2>1 DEF KilledOnlyOnReentry
  <2> QED
    BY <1>4, <2>1, <2>2 DEF SetTake
<1>5. CASE SetOwner(t) \/ SetBusy(t) \/ SetClear(t)
  BY <1>5 DEF SetOwner, SetBusy, SetClear, Leave
<1>6. CASE OrCheck(t) \/ EndPeek(t)
  BY <1>6 DEF OrCheck, EndPeek, Leave
<1>7. CASE RelOwner(t) \/ RelFlag(t) \/ RelClear(t) \/ RelWait(t) \/ RelSuspend(t)
  BY <1>7 DEF RelOwner, RelFlag, RelClear, RelWait, RelSuspend, Leave
<1>8. CASE UserStep(t) \/ HandlerReturn(t) \/ CallReleaseLock(t)
  BY <1>8 DEF UserStep, CallSetLock, CallSetLockOrInHandler,
             ChooseReturnOnError, MultiplyDefinedEnter, LinkEditErrorEnter,
             HandlerReturn, MultiplyDefinedExit, LinkEditErrorReturn,
             CallReleaseLock
<1>9. CASE ThreadStart(t) \/ ThreadExit(t)
  BY <1>9 DEF ThreadStart, ThreadExit, HandlerInv, OrPcs
<1>10. CASE SpinOnGlobalLock(t)
  BY <1>10 DEF SpinOnGlobalLock, vars
<1> QED
  BY <1>1, <1>2, <1>3, <1>4, <1>5, <1>6, <1>7, <1>8, <1>9, <1>10
     DEF ThreadStep, LockStep

LEMMA PromiseStep ==
  LockInv /\ LockInv' /\ [Next]_vars
    => [Promise!Next]_([t \in Threads |-> PhaseOf(t)])
<1> SUFFICES ASSUME LockInv, LockInv', [Next]_vars
             PROVE  \/ Promise!Next
                    \/ [t \in Threads |-> PhaseOf(t)]' = [t \in Threads |-> PhaseOf(t)]
  OBVIOUS
<1>1. CASE UNCHANGED vars
  BY <1>1 DEF vars, PhaseOf, Holds, Waits
<1>2. ASSUME NEW t \in Threads, ThreadStep(t) \/ ThreadStart(t) \/ ThreadExit(t)
      PROVE  \/ Promise!Next
             \/ [u \in Threads |-> PhaseOf(u)]' = [u \in Threads |-> PhaseOf(u)]
  <2>1. [u \in Threads |-> PhaseOf(u)]'
          = [[u \in Threads |-> PhaseOf(u)] EXCEPT ![t] = PhaseOf(t)']
    BY <1>2, OthersKeepTheirPhase
  <2>2. CASE PhaseOf(t)' = PhaseOf(t)
    BY <2>1, <2>2
  <2>3. CASE PhaseOf(t) = "out" /\ PhaseOf(t)' = "waiting"
    BY <2>1, <2>3 DEF Promise!Next, Promise!Request
  <2>4. CASE /\ PhaseOf(t) = "waiting" /\ PhaseOf(t)' = "in"
             /\ \A u \in Threads : PhaseOf(u) \notin {"in", "killed"}
    BY <2>1, <2>4 DEF Promise!Next, Promise!Grant, Promise!Occupied
  <2>5. CASE PhaseOf(t) = "in" /\ PhaseOf(t)' \in {"out", "killed"}
    BY <2>1, <2>5 DEF Promise!Next, Promise!Leave, Promise!Kill
  <2> QED
    BY <1>2, <2>2, <2>3, <2>4, <2>5, OwnPhaseStep
<1>3. ASSUME NEW t \in Threads, ForkChild(t)
      PROVE  Promise!Next
  <2>1. PhaseOf(t) = "in"
    BY <1>3 DEF ForkChild, PhaseOf, Holds
  <2>2. \A u \in Threads : PhaseOf(u)' = IF u = t THEN "in" ELSE "out"
    BY <1>3 DEF ForkChild, PhaseOf, Holds, Waits, SetPcs
  <2>3. [u \in Threads |-> PhaseOf(u)]'
          = [u \in Threads |-> IF u = t THEN "in" ELSE "out"]
    BY <2>2
  <2> QED
    BY <2>1, <2>3 DEF Promise!Next, Promise!Fork
<1> QED
  BY <1>1, <1>2, <1>3 DEF Next, LifeStep, Stopped

(* The functions of lock.c, the handlers and the fork hooks together are the *)
(* lock LinkEditLock promises to the threads of a program.                   *)
THEOREM KeepsPromiseHolds == Spec => KeepsPromise
<1>1. Init => Promise!Init
  BY DEF Init, Promise!Init, PhaseOf, Holds, Waits, SetPcs
<1>2. LockInv /\ LockInv' /\ [Next]_vars
        => [Promise!Next]_([t \in Threads |-> PhaseOf(t)])
  BY PromiseStep
<1> QED
  BY <1>1, <1>2, LockInvariant, PTL DEF Spec, KeepsPromise, Promise!Spec
-----------------------------------------------------------------------------
(* DyldDebug *)

HIDE DEF LockInv, lockVars, flagVars, debugVars, threadVars, Goto

USE ThreadsAssumption, StacksAssumption, ClientsAssumption DEF AllThreads

\* The port a thread takes for its own is its own.
PortsInv ==
  /\ stack = StackOf
  /\ cache.page # NoPage =>
       cache.thread \in AllThreads /\ StackOf[cache.thread] = cache.page[1]
  /\ \A t \in AllThreads : pc[t] \in KnowsItself => me[t] = t

\* The debug thread takes global_lock for dyld_mach_thread_self() only.
DLocksInv ==
  /\ \A t \in AllThreads : InGlobal(t) => globalLock
  /\ \A t, u \in AllThreads : InGlobal(t) /\ InGlobal(u) => t = u
  /\ \A t \in Threads : Holds(t) => dyldLock
  /\ \A t \in Threads : pc[t] = "setTake" => ~dyldLock /\ owner = t
  /\ \A t \in Threads : pc[t] = "relFlag" => owner = NoThread
  /\ owner # NoThread => owner \in Threads /\ (Holds(owner) \/ pc[owner] = "setTake")
  /\ MutualExclusion

\* No thread ends, and the debug thread is in dyld only to bind a module.
PlacesInv ==
  /\ \A t \in Threads : pc[t] \notin {"unborn", "exited", "gone"}
  /\ pc[DebugThread] \in {"out", "setSelf", "setId", "inside", "relSelf", "relId"}
  /\ pc[DebugThread] # "out" => ctx[DebugThread] = "user"
  /\ spc # "binding" => pc[DebugThread] = "out" /\ ctx[DebugThread] = "user"

\* What server_loop() has counted so far.
ServerTypeInv ==
  /\ spc = "resume" => resumed \in AllThreads /\ left > 0
  /\ spc = "count" => resumeCount > 0
  /\ spc # "receive" => request \in Messages

DebugInv == /\ DTypeOK
            /\ PortsInv
            /\ DLocksInv
            /\ HandlerInv
            /\ KilledOnlyOnReentry
            /\ PlacesInv
            /\ ServerTypeInv

\* A step of lock.c, of a handler or of an operation, but for waiting.
Acts(t) == \/ GrabStep(t) \/ LockStep(t) \/ UserStep(t)
           \/ HandlerReturn(t) \/ CallReleaseLock(t)
-----------------------------------------------------------------------------
\* One debugger that waits for its replies, usleep(20000) long enough, and no
\* handler in which a thread that is let run keeps the debug thread from waiting.
OneDebugger == /\ \E c \in Clients : Clients = {c}
               /\ ~Timeouts
               /\ SleepLongEnough
               /\ "multiple" \notin Handlers

\* Where the task is suspended, and where all of its threads are
TaskHeld    == {"list", "suspend", "resumeDebug", "resumeTask"}
ThreadsHeld == {"resumeDebug", "resumeTask", "resumeMore", "send", "rpc", "answered",
                "restore"}

HeldBy(c, t) == \/ cpc[c] \in ThreadsHeld
                \/ cpc[c] = "suspend" /\ t \notin todo[c]
                \/ cpc[c] = "resume" /\ t \in todo[c]

\* Where server_loop() may have a thread running
Released == {"spin", "count", "sleep"}
Waiting  == {"check", "info", "capture", "resume", "suspend", "cantUnlock"} \cup Released

ClientInv ==
  \A c \in Clients :
    /\ cpc[c] # "failed"
    /\ taskSuspended = IF cpc[c] \in TaskHeld THEN 1 ELSE 0
    /\ debugResumes[c] = 0 /\ taskResumes[c] = 0
    /\ cpc[c] \in {"suspend", "resume"} \cup ThreadsHeld => threads[c] = AllThreads
    /\ cpc[c] \in {"suspend", "resume"} => todo[c] \subseteq Threads
    /\ cpc[c] # "rpc" => spc = "receive" /\ port = << >>
    /\ cpc[c] = "rpc" /\ spc # "receive" => port = << >>
    /\ cpc[c] = "rpc" /\ spc = "receive" => Len(port) = 1

\* A thread is suspended once for the debugger, and the one that server_loop()
\* lets run is in dyld until it has suspended itself.
CountsInv ==
  /\ suspendCount[DebugThread] = 0
  /\ \A t \in Threads : \A c \in Clients :
       IF spc \in Released /\ t = resumed
         THEN /\ suspendCount[t] \in {0, 1}
              /\ suspendCount[t] = 0 => Holds(t) \/ EndingRelease(t)
         ELSE suspendCount[t] = IF HeldBy(c, t) THEN 1 ELSE 0
  /\ \A t \in Threads :
       pc[t] = "relSuspend" => spc \in Released /\ t = resumed /\ suspendCount[t] = 0

ServerInv ==
  /\ ~mdHandler
  /\ waiting <=> spc \in Waiting
  /\ spc \in {"info", "capture", "resume"} =>
       dyldLock /\ owner # NoThread /\ ~leHandler
  /\ spc \in {"capture", "resume"} => left = 1
  /\ spc = "resume" => resumed = owner
  /\ spc \notin {"resume", "suspend", "cantUnlock"} \cup Released => resumed = NoThread
  /\ spc \notin {"spin", "count"} => resumeCount = 0
  /\ spc = "spin" => \/ resumeCount = 0 /\ resumed = NoThread
                     \/ resumeCount = 1 /\ resumed \in Threads /\ ~leHandler
  /\ spc = "count" => resumeCount = 1
  /\ spc \in {"count", "sleep"} => resumed \in Threads /\ ~dyldLock
  /\ spc \in {"reading", "binding"} => ~dyldLock

RequestInv == ClientInv /\ CountsInv /\ ServerInv
-----------------------------------------------------------------------------
(* The steps of lock.c and of the handlers *)

(* With a stack of its own, whoever calls dyld_mach_thread_self() gets its   *)
(* own port, cached or not.                                                  *)
LEMMA ResolveReturnsOwn ==
  ASSUME TypeOK, PortsInv, NEW t \in AllThreads, Resolve(t)
  PROVE  /\ me' = [me EXCEPT ![t] = t]
         /\ cache' \in [thread : AllThreads \cup {NoThread}, page : Pages \cup {NoPage}]
         /\ cache'.thread \in AllThreads /\ StackOf[cache'.thread] = cache'.page[1]
         /\ globalLock' = FALSE
         /\ UNCHANGED <<dyldLock, owner, mdHandler, leHandler, waiting, suspendCount,
                        taskSuspended, stack, ctx>>
<1>1. stack[t] = StackOf[t] /\ StackOf[t] \in Stacks
  BY DEF PortsInv
<1>2. PICK d \in Depths :
        LET here == <<stack[t], d>>
        IN \/ /\ cache.page = here
              /\ me' = [me EXCEPT ![t] = cache.thread]
              /\ UNCHANGED cache
           \/ /\ cache.page # here
              /\ me' = [me EXCEPT ![t] = t]
              /\ cache' = [thread |-> t, page |-> here]
  BY DEF Resolve
<1>3. <<stack[t], d>> \in Pages /\ <<stack[t], d>> # NoPage
  BY <1>1 DEF Pages, NoPage
<1>4. CASE cache.page = <<stack[t], d>>
  <2>1. cache.thread \in AllThreads /\ StackOf[cache.thread] = StackOf[t]
    BY <1>1, <1>3, <1>4 DEF PortsInv
  <2>2. cache.thread = t
    BY <2>1
  <2> QED
    BY <1>1, <1>2, <1>4, <2>1, <2>2 DEF TypeOK, Resolve, debugVars
<1>5. CASE cache.page # <<stack[t], d>>
  BY <1>1, <1>2, <1>3, <1>5 DEF Resolve, debugVars
<1> QED
  BY <1>4, <1>5

(* They keep the types of the lock's variables.                              *)
LEMMA ActsType ==
  ASSUME TypeOK, PortsInv, NEW t \in AllThreads, Acts(t)
  PROVE  TypeOK'
<1> USE DEF TypeOK
<1>1. ASSUME NEW from, NEW to \in Pcs, Grab(t, from, to) PROVE TypeOK'
  BY <1>1 DEF Grab, Goto, flagVars, debugVars
<1>2. CASE GrabStep(t)
  BY <1>1, <1>2 DEF GrabStep, Pcs, SetPcs, OrPcs, RelPcs
<1>3. CASE SetResolve(t) \/ OrResolve(t) \/ RelResolve(t)
  <2>1. Resolve(t)
    BY <1>3 DEF SetResolve, OrResolve, RelResolve
  <2>2. pc' \in [AllThreads -> Pcs] /\ returnOnError' \in BOOLEAN
    <3>1. CASE SetResolve(t)
      BY <3>1 DEF SetResolve, Goto, Pcs, SetPcs
    <3>2. CASE OrResolve(t)
      BY <3>2 DEF OrResolve, Goto, Pcs, OrPcs
    <3>3. CASE RelResolve(t)
      BY <3>3 DEF RelResolve, Goto, Pcs, RelPcs
    <3> QED
      BY <1>3, <3>1, <3>2, <3>3
  <2>3. /\ me' = [me EXCEPT ![t] = t]
        /\ cache' \in [thread : AllThreads \cup {NoThread}, page : Pages \cup {NoPage}]
        /\ globalLock' = FALSE
        /\ UNCHANGED <<dyldLock, owner, mdHandler, leHandler, waiting, suspendCount,
                       taskSuspended, stack, ctx>>
    BY <2>1, ResolveReturnsOwn
  <2> QED
    BY <2>2, <2>3
<1>4. CASE DeadLockError(t) \/ SetBusy(t) \/ SetTake(t) \/ SetClear(t)
  <2>1. CASE DeadLockError(t)
    BY <2>1 DEF DeadLockError, Goto, Pcs, lockVars, flagVars, debugVars
  <2>2. CASE SetBusy(t)
    BY <2>2 DEF SetBusy, Goto, Pcs, SetPcs, flagVars, debugVars
  <2>3. CASE SetTake(t)
    BY <2>3 DEF SetTake, Goto, Pcs, SetPcs, flagVars, debugVars
  <2>4. CASE SetClear(t)
    BY <2>4 DEF SetClear, Leave, Goto, Pcs, flagVars, debugVars
  <2> QED
    BY <1>4, <2>1, <2>2, <2>3, <2>4
<1>5. CASE SetOwner(t)
  BY <1>5 DEF SetOwner, Goto, Pcs, SetPcs, flagVars, debugVars
<1>6. CASE OrCheck(t) \/ EndPeek(t)
  <2>1. CASE OrCheck(t)
    BY <2>1 DEF OrCheck, Leave, Goto, Pcs, SetPcs, flagVars, debugVars
  <2>2. CASE EndPeek(t)
    BY <2>2 DEF EndPeek, Goto, Pcs, lockVars, flagVars, debugVars
  <2> QED
    BY <1>6, <2>1, <2>2
<1>7. CASE RelOwner(t) \/ RelFlag(t) \/ RelClear(t)
  <2>1. CASE RelOwner(t)
    BY <2>1 DEF RelOwner, Goto, Pcs, RelPcs, flagVars, debugVars
  <2>2. CASE RelFlag(t)
    BY <2>2 DEF RelFlag, Goto, Pcs, RelPcs, flagVars, debugVars
  <2>3. CASE RelClear(t)
    BY <2>3 DEF RelClear, Goto, Pcs, RelPcs, flagVars, debugVars
  <2> QED
    BY <1>7, <2>1, <2>2, <2>3
<1>8. CASE RelWait(t)
  BY <1>8 DEF RelWait, Leave, Goto, Pcs, RelPcs, lockVars, flagVars, debugVars
<1>9. CASE RelSuspend(t)
  BY <1>9 DEF RelSuspend, Suspend, Leave, Goto, Pcs, lockVars, flagVars
<1>10. CASE CallSetLock(t) \/ CallSetLockOrInHandler(t) \/ CallReleaseLock(t)
  BY <1>10 DEF CallSetLock, CallSetLockOrInHandler, CallReleaseLock, Goto, Pcs,
               SetPcs, OrPcs, RelPcs, lockVars, flagVars, debugVars
<1>11. CASE ChooseReturnOnError(t)
  BY <1>11 DEF ChooseReturnOnError, lockVars, debugVars, threadVars
<1>12. CASE MultiplyDefinedEnter(t)
  BY <1>12 DEF MultiplyDefinedEnter, Suspend, Goto, Pcs, lockVars
<1>13. CASE LinkEditErrorEnter(t)
  BY <1>13 DEF LinkEditErrorEnter, Suspend, Goto, Pcs, lockVars
<1>14. CASE HandlerReturn(t)
  <2>1. CASE MultiplyDefinedExit(t)
    BY <2>1 DEF MultiplyDefinedExit, Goto, Pcs, lockVars, debugVars
  <2>2. CASE LinkEditErrorReturn(t)
    BY <2>2 DEF LinkEditErrorReturn, Goto, Pcs, lockVars, flagVars, debugVars
  <2> QED
    BY <1>14, <2>1, <2>2 DEF HandlerReturn
<1> QED
  BY <1>2, <1>3, <1>4, <1>5, <1>6, <1>7, <1>8, <1>9, <1>10, <1>11, <1>12,
     <1>13, <1>14 DEF Acts, LockStep, UserStep

(* They change nobody else's place, code or local, and no stack.             *)
LEMMA ActsFrame ==
  ASSUME TypeOK, PortsInv, NEW t \in AllThreads, Acts(t)
  PROVE  /\ \A u \in AllThreads : u # t => pc'[u] = pc[u] /\ ctx'[u] = ctx[u] /\ me'[u] = me[u]
         /\ stack' = stack /\ waiting' = waiting /\ taskSuspended' = taskSuspended
<1>1. CASE GrabStep(t)
  BY <1>1 DEF GrabStep, Grab, Goto, flagVars, debugVars, TypeOK
<1>2. CASE SetResolve(t) \/ OrResolve(t) \/ RelResolve(t)
  <2>1. \A u \in AllThreads : u # t => pc'[u] = pc[u]
    BY <1>2 DEF SetResolve, OrResolve, RelResolve, Goto, TypeOK
  <2>2. Resolve(t)
    BY <1>2 DEF SetResolve, OrResolve, RelResolve
  <2>3. me' = [me EXCEPT ![t] = t]
    BY <2>2, ResolveReturnsOwn
  <2>4. UNCHANGED <<waiting, taskSuspended, stack, ctx>>
    BY <2>2, ResolveReturnsOwn
  <2> QED
    BY <2>1, <2>3, <2>4 DEF TypeOK
<1>3. CASE \/ DeadLockError(t) \/ SetOwner(t) \/ SetBusy(t) \/ SetTake(t)
           \/ SetClear(t) \/ OrCheck(t) \/ EndPeek(t)
  BY <1>3 DEF DeadLockError, SetOwner, SetBusy, SetTake, SetClear, OrCheck,
             EndPeek, Leave, Goto, flagVars, debugVars, TypeOK
<1>4. CASE RelOwner(t) \/ RelFlag(t) \/ RelClear(t) \/ RelWait(t) \/ RelSuspend(t)
  BY <1>4 DEF RelOwner, RelFlag, RelClear, RelWait, RelSuspend, Leave, Goto,
             debugVars, TypeOK
<1>5. CASE ChooseReturnOnError(t)
  BY <1>5 DEF ChooseReturnOnError, debugVars, threadVars
<1>6. CASE \/ CallSetLock(t) \/ CallSetLockOrInHandler(t)
           \/ MultiplyDefinedEnter(t) \/ LinkEditErrorEnter(t)
           \/ HandlerReturn(t) \/ CallReleaseLock(t)
  BY <1>6 DEF CallSetLock, CallSetLockOrInHandler, MultiplyDefinedEnter,
             LinkEditErrorEnter, HandlerReturn, MultiplyDefinedExit,
             LinkEditErrorReturn, CallReleaseLock, Goto, debugVars, TypeOK
<1> QED
  BY <1>1, <1>2, <1>3, <1>4, <1>5, <1>6 DEF Acts, LockStep, UserStep

\* What a step of the program's threads or of the debug thread relies on.
LockedInv == TypeOK /\ PortsInv /\ DLocksInv /\ HandlerInv /\ KilledOnlyOnReentry /\ PlacesInv

(* dyld_mach_thread_self() makes no thread of the program take itself for    *)
(* the debug thread.                                                         *)
LEMMA ResolveOfProgram ==
  ASSUME LockedInv, NEW t \in Threads, Resolve(t)
  PROVE  /\ me'[t] = t /\ me'[t] # DebugThread
         /\ \A u \in AllThreads : u # t => me'[u] = me[u]
         /\ globalLock' = FALSE
         /\ UNCHANGED <<dyldLock, owner, mdHandler, leHandler, ctx, stack>>
<1>1. TypeOK /\ PortsInv /\ t \in AllThreads /\ t # DebugThread
  BY DEF LockedInv
<1>2. /\ me' = [me EXCEPT ![t] = t]
      /\ globalLock' = FALSE
      /\ UNCHANGED <<dyldLock, owner, mdHandler, leHandler, ctx, stack>>
  BY <1>1, ResolveReturnsOwn
<1> QED
  BY <1>1, <1>2 DEF TypeOK

(* Ports stay each thread's own, under the steps of all of them.             *)
LEMMA ActsPorts ==
  ASSUME TypeOK, PortsInv, NEW t \in AllThreads, Acts(t)
  PROVE  PortsInv'
<1> USE DEF TypeOK, PortsInv, KnowsItself
<1>1. CASE GrabStep(t)
  BY <1>1 DEF GrabStep, Grab, Goto
<1>2. CASE SetResolve(t) \/ OrResolve(t) \/ RelResolve(t)
  <2>1. Resolve(t)
    BY <1>2 DEF SetResolve, OrResolve, RelResolve
  <2>2. /\ me' = [me EXCEPT ![t] = t]
        /\ cache'.thread \in AllThreads /\ StackOf[cache'.thread] = cache'.page[1]
        /\ stack' = stack
    BY <2>1, ResolveReturnsOwn
  <2>3. \A u \in AllThreads : u # t => pc'[u] = pc[u]
    BY <1>2 DEF SetResolve, OrResolve, RelResolve, Goto
  <2> QED
    BY <2>2, <2>3
<1>3. CASE \/ DeadLockError(t) \/ SetOwner(t) \/ SetBusy(t) \/ SetTake(t)
           \/ SetClear(t) \/ OrCheck(t) \/ EndPeek(t)
  BY <1>3 DEF DeadLockError, SetOwner, SetBusy, SetTake, SetClear, OrCheck,
             EndPeek, Leave, Goto, lockVars, flagVars, debugVars
<1>4. CASE RelOwner(t) \/ RelFlag(t) \/ RelClear(t) \/ RelWait(t) \/ RelSuspend(t)
  BY <1>4 DEF RelOwner, RelFlag, RelClear, RelWait, RelSuspend, Leave, Goto, lockVars
<1>5. CASE ChooseReturnOnError(t)
  BY <1>5 DEF ChooseReturnOnError, lockVars, threadVars
<1>6. CASE \/ CallSetLock(t) \/ CallSetLockOrInHandler(t)
           \/ MultiplyDefinedEnter(t) \/ LinkEditErrorEnter(t)
           \/ HandlerReturn(t) \/ CallReleaseLock(t)
  BY <1>6 DEF CallSetLock, CallSetLockOrInHandler, MultiplyDefinedEnter,
             LinkEditErrorEnter, HandlerReturn, MultiplyDefinedExit,
             LinkEditErrorReturn, CallReleaseLock, Goto, lockVars
<1> QED
  BY <1>1, <1>2, <1>3, <1>4, <1>5, <1>6 DEF Acts, LockStep, UserStep

(* A thread of the program has global_lock from its test-and-set to its      *)
(* clearing, changes dyld_lock in between only, and is the owner in between. *)
LEMMA ProgramLocks ==
  ASSUME LockedInv, NEW t \in Threads, Acts(t)
  PROVE  DLocksInv'
<1> USE DEF LockedInv, TypeOK, DLocksInv, HandlerInv, MutualExclusion, InGlobal, Holds,
            SetPcs, OrPcs, Goto
<1>1. CASE GrabStep(t)
  BY <1>1 DEF GrabStep, Grab
<1>2. CASE SetResolve(t) \/ OrResolve(t) \/ RelResolve(t)
  <2>1. Resolve(t)
    BY <1>2 DEF SetResolve, OrResolve, RelResolve
  <2>2. /\ me'[t] # DebugThread /\ globalLock' = FALSE
        /\ UNCHANGED <<dyldLock, owner, mdHandler, leHandler, ctx>>
    BY <2>1, ResolveOfProgram
  <2>3. InGlobal(t)
    BY <1>2 DEF SetResolve, OrResolve, RelResolve
  <2>4. /\ \A u \in AllThreads : u # t => pc'[u] = pc[u]
        /\ \/ pc[t] = "setId" /\ pc'[t] = "setSpin"
           \/ pc[t] = "orId" /\ pc'[t] = "orSpin"
           \/ pc[t] = "relId" /\ pc'[t] = "relSpin"
    BY <1>2, <2>2 DEF SetResolve, OrResolve, RelResolve
  <2> QED
    BY <2>2, <2>3, <2>4
<1>3. CASE DeadLockError(t)
  BY <1>3 DEF DeadLockError, lockVars
<1>4. CASE SetOwner(t)
  <2>1. me[t] = t
    BY <1>4 DEF SetOwner, PortsInv, KnowsItself
  <2>2. \A u \in Threads : u # t => pc[u] \notin {"setTake", "relFlag"}
    BY <1>4 DEF SetOwner
  <2>3. ctx[t] = "user" /\ \A u \in Threads : ~Holds(u)
    BY <1>4 DEF SetOwner
  <2> QED
    BY <1>4, <2>1, <2>2, <2>3 DEF SetOwner
<1>5. CASE SetBusy(t)
  BY <1>5 DEF SetBusy
<1>6. CASE SetTake(t)
  \* No thread has dyld_lock, for it was seen FALSE and global_lock is held.
  <2>1. \A u \in Threads : ~Holds(u)
    BY <1>6 DEF SetTake
  <2> QED
    BY <1>6, <2>1 DEF SetTake
<1>7. CASE SetClear(t)
  BY <1>7 DEF SetClear, Leave
<1>8. CASE OrCheck(t) \/ EndPeek(t)
  BY <1>8 DEF OrCheck, EndPeek, Leave, lockVars
<1>9. CASE RelOwner(t)
  <2>1. \A u \in Threads : pc[u] # "setTake"
    BY <1>9 DEF RelOwner
  <2> QED
    BY <1>9, <2>1 DEF RelOwner
<1>10. CASE RelFlag(t)
  \* The one thread that had dyld_lock has it no more.
  <2>1. ctx[t] = "user" /\ \A u \in Threads : Holds(u) => u = t
    BY <1>10 DEF RelFlag
  <2>2. owner = NoThread
    BY <1>10 DEF RelFlag
  <2> QED
    BY <1>10, <2>1, <2>2 DEF RelFlag
<1>11. CASE RelClear(t) \/ RelWait(t) \/ RelSuspend(t)
  BY <1>11 DEF RelClear, RelWait, RelSuspend, Leave, lockVars
<1>12. CASE UserStep(t) \/ HandlerReturn(t) \/ CallReleaseLock(t)
  BY <1>12 DEF UserStep, CallSetLock, CallSetLockOrInHandler,
              ChooseReturnOnError, MultiplyDefinedEnter, LinkEditErrorEnter,
              HandlerReturn, MultiplyDefinedExit, LinkEditErrorReturn,
              CallReleaseLock, lockVars, threadVars
<1> QED
  BY <1>1, <1>2, <1>3, <1>4, <1>5, <1>6, <1>7, <1>8, <1>9, <1>10, <1>11,
     <1>12 DEF Acts, LockStep

(* User code called by an error handler that calls dyld never gets the lock, *)
(* and is stopped; nobody else is.                                           *)
LEMMA ProgramHandlers ==
  ASSUME LockedInv, NEW t \in Threads, Acts(t)
  PROVE  HandlerInv' /\ KilledOnlyOnReentry'
<1> USE DEF LockedInv, TypeOK, HandlerInv, KilledOnlyOnReentry, SetPcs, OrPcs, Goto
<1>1. CASE GrabStep(t)
  BY <1>1 DEF GrabStep, Grab
<1>2. CASE SetResolve(t) \/ OrResolve(t) \/ RelResolve(t)
  <2>1. Resolve(t)
    BY <1>2 DEF SetResolve, OrResolve, RelResolve
  <2>2. me'[t] # DebugThread /\ ctx' = ctx
    BY <2>1, ResolveOfProgram
  <2>3. /\ \A u \in AllThreads : u # t => pc'[u] = pc[u]
        /\ \/ pc[t] = "setId" /\ pc'[t] = "setSpin"
           \/ pc[t] = "orId" /\ pc'[t] = "orSpin"
           \/ pc[t] = "relId" /\ pc'[t] = "relSpin"
    BY <1>2, <2>2 DEF SetResolve, OrResolve, RelResolve
  <2> QED
    BY <2>2, <2>3
<1>3. CASE SetOwner(t)
  <2>1. ctx[t] = "user"
    BY <1>3 DEF SetOwner, DLocksInv, Holds
  <2> QED
    BY <1>3, <2>1 DEF SetOwner
<1>4. CASE DeadLockError(t)
  \* The owner is the one inside, so t is, and in a handler.
  <2>1. pc[t] = "setCheck" /\ owner = t
    BY <1>4 DEF DeadLockError, PortsInv, KnowsItself
  <2>2. ctx[t] # "user"
    BY <2>1 DEF DLocksInv, Holds
  <2> QED
    BY <1>4, <2>1, <2>2 DEF DeadLockError
<1>5. CASE SetBusy(t) \/ SetTake(t) \/ SetClear(t)
  BY <1>5 DEF SetBusy, SetTake, SetClear, Leave
<1>6. CASE OrCheck(t) \/ EndPeek(t)
  BY <1>6 DEF OrCheck, EndPeek, Leave
<1>7. CASE RelOwner(t) \/ RelFlag(t) \/ RelClear(t) \/ RelWait(t) \/ RelSuspend(t)
  BY <1>7 DEF RelOwner, RelFlag, RelClear, RelWait, RelSuspend, Leave
<1>8. CASE UserStep(t) \/ HandlerReturn(t) \/ CallReleaseLock(t)
  BY <1>8 DEF UserStep, CallSetLock, CallSetLockOrInHandler,
             ChooseReturnOnError, MultiplyDefinedEnter, LinkEditErrorEnter,
             HandlerReturn, MultiplyDefinedExit, LinkEditErrorReturn,
             CallReleaseLock, threadVars
<1> QED
  BY <1>1, <1>2, <1>3, <1>4, <1>5, <1>6, <1>7, <1>8 DEF Acts, LockStep

(* A thread of the program does not end, nor come to be, in dyld.            *)
LEMMA ProgramPlaces ==
  ASSUME LockedInv, NEW t \in Threads, Acts(t), spc' = spc
  PROVE  PlacesInv'
<1>1. \A u \in AllThreads : u # t => pc'[u] = pc[u] /\ ctx'[u] = ctx[u]
  BY ActsFrame DEF LockedInv
<1>2. pc'[t] \notin {"unborn", "exited", "gone"}
  BY DEF LockedInv, PlacesInv, TypeOK, Acts, GrabStep, Grab, LockStep, SetResolve, OrResolve,
         RelResolve, DeadLockError, SetOwner, SetBusy, SetTake, SetClear, OrCheck,
         EndPeek, RelOwner, RelFlag, RelClear, RelWait, RelSuspend, Leave, Goto,
         UserStep, CallSetLock, CallSetLockOrInHandler, ChooseReturnOnError,
         MultiplyDefinedEnter, LinkEditErrorEnter, HandlerReturn,
         MultiplyDefinedExit, LinkEditErrorReturn, CallReleaseLock, threadVars
<1> QED
  BY <1>1, <1>2 DEF LockedInv, PlacesInv
-----------------------------------------------------------------------------
(* The debug thread, and the debuggers *)

\* What the debug thread does to bind a module.
BindActs ==
  \/ Grab(DebugThread, "setSelf", "setId")
  \/ SetResolve(DebugThread)
  \/ MultiplyDefinedEnter(DebugThread) \/ MultiplyDefinedExit(DebugThread)
  \/ LinkEditErrorEnter(DebugThread) \/ LinkEditErrorReturn(DebugThread)
  \/ CallReleaseLock(DebugThread)
  \/ Grab(DebugThread, "relSelf", "relId")
  \/ RelResolve(DebugThread)

(* The debug thread goes from set_lock() to the end of release_lock() with   *)
(* global_lock only for a moment, and leaves dyld_lock and its owner alone.  *)
LEMMA BindActsStep ==
  ASSUME LockedInv, BindActs
  PROVE  /\ Acts(DebugThread)
         /\ UNCHANGED <<dyldLock, owner>>
         /\ InGlobal(DebugThread) => ~InGlobal(DebugThread)'
         /\ InGlobal(DebugThread)' => ~globalLock /\ globalLock'
         /\ ~InGlobal(DebugThread) /\ ~InGlobal(DebugThread)' => globalLock' = globalLock
         /\ pc'[DebugThread] \in {"out", "setSelf", "setId", "inside", "relSelf", "relId"}
         /\ pc'[DebugThread] # "out" => ctx'[DebugThread] = "user"
         /\ pc[DebugThread] = "relId" =>
              pc'[DebugThread] = "out" /\ ctx'[DebugThread] = "user"
<1> USE DEF LockedInv, PlacesInv, TypeOK, InGlobal, Goto
<1>1. Acts(DebugThread)
  BY DEF BindActs, Acts, GrabStep, LockStep, UserStep, HandlerReturn
<1>2. CASE \/ Grab(DebugThread, "setSelf", "setId")
           \/ Grab(DebugThread, "relSelf", "relId")
  BY <1>1, <1>2 DEF Grab
<1>3. CASE SetResolve(DebugThread) \/ RelResolve(DebugThread)
  <2>1. Resolve(DebugThread)
    BY <1>3 DEF SetResolve, RelResolve
  <2>2. /\ me' = [me EXCEPT ![DebugThread] = DebugThread]
        /\ UNCHANGED <<dyldLock, owner, ctx>>
    BY <2>1, ResolveReturnsOwn
  <2>3. me'[DebugThread] = DebugThread
    BY <2>2
  <2>4. \/ pc[DebugThread] = "setId" /\ pc'[DebugThread] = "inside"
        \/ pc[DebugThread] = "relId" /\ pc'[DebugThread] = "out"
    BY <1>3, <2>3 DEF SetResolve, RelResolve
  <2> QED
    BY <1>1, <2>2, <2>4
<1>4. CASE MultiplyDefinedEnter(DebugThread) \/ LinkEditErrorEnter(DebugThread)
  BY <1>1, <1>4 DEF MultiplyDefinedEnter, LinkEditErrorEnter, lockVars
<1>5. CASE MultiplyDefinedExit(DebugThread) \/ LinkEditErrorReturn(DebugThread)
  BY <1>1, <1>5 DEF MultiplyDefinedExit, LinkEditErrorReturn, lockVars
<1>6. CASE CallReleaseLock(DebugThread)
  BY <1>1, <1>6 DEF CallReleaseLock, lockVars
<1> QED
  BY <1>2, <1>3, <1>4, <1>5, <1>6 DEF BindActs

(* So it keeps what the program's threads rely on.                           *)
LEMMA BindKeepsLocks ==
  ASSUME LockedInv, BindActs
  PROVE  DLocksInv' /\ HandlerInv' /\ KilledOnlyOnReentry'
<1>1. \A u \in Threads : pc'[u] = pc[u] /\ ctx'[u] = ctx[u]
  BY BindActsStep, ActsFrame DEF LockedInv
<1>2. \A u \in Threads : /\ Holds(u)' <=> Holds(u)
                         /\ InGlobal(u)' <=> InGlobal(u)
  BY <1>1 DEF Holds, InGlobal
<1>3. /\ UNCHANGED <<dyldLock, owner>>
      /\ InGlobal(DebugThread) => ~InGlobal(DebugThread)'
      /\ InGlobal(DebugThread)' => ~globalLock /\ globalLock'
      /\ ~InGlobal(DebugThread) /\ ~InGlobal(DebugThread)' => globalLock' = globalLock
  BY BindActsStep
<1>4. \A t \in AllThreads : InGlobal(t)' => globalLock'
  BY <1>2, <1>3 DEF LockedInv, DLocksInv
<1>5. \A t, u \in AllThreads : InGlobal(t)' /\ InGlobal(u)' => t = u
  BY <1>2, <1>3 DEF LockedInv, DLocksInv
<1>6. DLocksInv'
  BY <1>1, <1>2, <1>3, <1>4, <1>5 DEF LockedInv, DLocksInv, MutualExclusion
<1>7. HandlerInv' /\ KilledOnlyOnReentry'
  BY <1>1 DEF LockedInv, HandlerInv, KilledOnlyOnReentry
<1> QED
  BY <1>6, <1>7

\* Steps that are nobody's in lock.c.
Elsewhere == UNCHANGED <<lockVars, flagVars, stack, ctx, me>>

(* A step of DyldDebug is one of a thread of the program, one of the debug   *)
(* thread in the module's binding, or one that leaves the lock alone.        *)
LEMMA StepIsOneOf ==
  ASSUME [DNext]_dvars
  PROVE  \/ \E t \in Threads : /\ Runnable(t) /\ Acts(t)
                               /\ UNCHANGED <<clientVars, serverVars, port>>
         \/ /\ spc = "binding" /\ BindActs
            /\ spc' = IF pc[DebugThread] = "relId" THEN "reply" ELSE "binding"
            /\ UNCHANGED <<clientVars, port, request, resumed, resumeCount, left>>
         \/ Runnable(DebugThread) /\ ServeBind
         \/ \E c \in Clients : ClientStep(c)
         \/ /\ Runnable(DebugThread)
            /\ \/ Receive \/ CheckLock \/ ThreadInfo \/ CaptureOwner \/ ResumeOwner
               \/ EndSpin \/ CountSuspends \/ Sleep \/ SuspendOwner \/ CantUnlock
               \/ ServeQuery \/ EndReading \/ Reply
         \/ UNCHANGED dvars
<1>1. ASSUME NEW t \in Threads, ProgramStep(t)
      PROVE  \/ /\ Runnable(t) /\ Acts(t)
                /\ UNCHANGED <<clientVars, serverVars, port>>
             \/ UNCHANGED dvars
  BY <1>1 DEF ProgramStep, ThreadStep, Acts, SpinOnGlobalLock, dvars
<1>2. CASE DStopped
  BY <1>2 DEF DStopped, Stopped, dvars
<1>3. CASE BindStep
  BY <1>3 DEF BindStep, BindActs, SGoto
<1>4. CASE BindSpin
  BY <1>4 DEF BindSpin, SpinOnGlobalLock, dvars
<1>5. CASE Spin
  BY <1>5 DEF Spin
<1> QED
  BY <1>1, <1>2, <1>3, <1>4, <1>5 DEF DNext, ServerStep
-----------------------------------------------------------------------------
(* The invariant over every step *)

\* DTypeOK without what TypeOK says of the lock's variables.
ServiceTypeOK ==
  /\ cpc \in [Clients -> ClientPcs]
  /\ asked \in [Clients -> 0..MaxRequests]
  /\ todo \in [Clients -> SUBSET AllThreads]
  /\ threads \in [Clients -> SUBSET AllThreads]
  /\ debugResumes \in [Clients -> Nat]
  /\ taskResumes \in [Clients -> Nat]
  /\ port \in Seq(Messages)
  /\ spc \in ServerPcs
  /\ request \in Messages \cup {None}
  /\ resumed \in AllThreads \cup {NoThread}
  /\ resumeCount \in Nat
  /\ left \in Nat

(* A step elsewhere leaves the lock's invariants as they are.                *)
LEMMA ElsewhereStep ==
  ASSUME LockedInv, Elsewhere, pc' = pc, (spc # "binding" /\ spc' # "binding") \/ spc' = spc
  PROVE  PortsInv' /\ DLocksInv' /\ HandlerInv' /\ KilledOnlyOnReentry' /\ PlacesInv'
<1> USE DEF LockedInv, Elsewhere, lockVars, flagVars
<1>1. \A t \in AllThreads : (Holds(t)' <=> Holds(t)) /\ (InGlobal(t)' <=> InGlobal(t))
  BY DEF Holds, InGlobal
<1>2. PortsInv' /\ HandlerInv' /\ KilledOnlyOnReentry'
  BY DEF PortsInv, HandlerInv, KilledOnlyOnReentry
<1>3. DLocksInv'
  BY <1>1 DEF DLocksInv, MutualExclusion
<1>4. PlacesInv'
  BY DEF PlacesInv
<1> QED
  BY <1>2, <1>3, <1>4

(* A debugger's steps suspend and resume, and keep the types.                *)
LEMMA ClientTypes ==
  ASSUME TypeOK, ServiceTypeOK, NEW c \in Clients, ClientStep(c)
  PROVE  /\ TypeOK' /\ ServiceTypeOK'
         /\ Elsewhere /\ pc' = pc
         /\ UNCHANGED <<waiting, serverVars>>
<1> USE DEF Elsewhere, ProgramUnchanged, serverVars, lockVars, flagVars, threadVars, CGoto
<1>1. CASE SuspendTask(c)
  <2>1. asked[c] + 1 \in 0..MaxRequests
    BY <1>1 DEF SuspendTask, ServiceTypeOK
  <2> QED
    BY <1>1, <2>1 DEF SuspendTask, TypeOK, ServiceTypeOK, ClientPcs
<1>2. CASE ListThreads(c)
  BY <1>2 DEF ListThreads, TypeOK, ServiceTypeOK, ClientPcs
<1>3. CASE SuspendThread(c)
  <2>1. PICK t \in todo[c] : Suspend(t) /\ todo' = [todo EXCEPT ![c] = @ \ {t}]
    BY <1>3 DEF SuspendThread
  <2>2. t \in AllThreads
    BY DEF ServiceTypeOK
  <2>3. suspendCount' \in [AllThreads -> Nat]
    BY <2>1, <2>2 DEF Suspend, TypeOK
  <2>4. todo' \in [Clients -> SUBSET AllThreads]
    BY <2>1 DEF ServiceTypeOK
  <2> QED
    BY <1>3, <2>3, <2>4 DEF SuspendThread, TypeOK, ServiceTypeOK, ClientPcs
<1>4. CASE ResumeDebugThread(c)
  BY <1>4 DEF ResumeDebugThread, TypeOK, ServiceTypeOK, ClientPcs
<1>5. CASE ResumeTask(c)
  <2>1. CASE taskSuspended > 0
    <3>1. taskSuspended - 1 \in Nat
      BY <2>1 DEF TypeOK
    <3>2. /\ taskSuspended' = taskSuspended - 1
          /\ taskResumes' = [taskResumes EXCEPT ![c] = 0]
          /\ cpc' = [cpc EXCEPT ![c] = "resumeMore"]
      BY <1>5, <2>1 DEF ResumeTask
    <3>3. taskResumes' \in [Clients -> Nat] /\ cpc' \in [Clients -> ClientPcs]
      BY <3>2 DEF ServiceTypeOK, ClientPcs
    <3> QED
      BY <1>5, <3>1, <3>2, <3>3 DEF ResumeTask, TypeOK, ServiceTypeOK
  <2>2. CASE ~(taskSuspended > 0)
    <3>1. /\ UNCHANGED <<taskSuspended, taskResumes>>
          /\ cpc' = [cpc EXCEPT ![c] = "failed"]
      BY <1>5, <2>2 DEF ResumeTask
    <3>2. cpc' \in [Clients -> ClientPcs]
      BY <3>1 DEF ServiceTypeOK, ClientPcs
    <3> QED
      BY <1>5, <3>1, <3>2 DEF ResumeTask, TypeOK, ServiceTypeOK
  <2> QED
    BY <2>1, <2>2
<1>6. CASE SendRequest(c)
  <2>1. PICK k \in Requests : port' = Append(port, [client |-> c, kind |-> k])
    BY <1>6 DEF SendRequest
  <2>2. [client |-> c, kind |-> k] \in Messages
    BY DEF Messages
  <2>3. port' \in Seq(Messages)
    BY <2>1, <2>2 DEF ServiceTypeOK
  <2> QED
    BY <1>6, <2>3 DEF SendRequest, TypeOK, ServiceTypeOK, ClientPcs, vars, debugVars
<1>7. CASE TimeOut(c)
  BY <1>7 DEF TimeOut, TypeOK, ServiceTypeOK, ClientPcs, vars, debugVars
<1>8. CASE RestoreTask(c)
  <2>1. CASE taskResumes[c] > 0
    <3>1. taskSuspended + 1 \in Nat /\ taskResumes[c] - 1 \in Nat
      BY <2>1 DEF TypeOK, ServiceTypeOK
    <3>2. /\ taskSuspended' = taskSuspended + 1 /\ cpc' = cpc
          /\ taskResumes' = [taskResumes EXCEPT ![c] = taskResumes[c] - 1]
      BY <1>8, <2>1 DEF RestoreTask
    <3>3. taskResumes' \in [Clients -> Nat]
      BY <3>1, <3>2 DEF ServiceTypeOK
    <3> QED
      BY <1>8, <3>1, <3>2, <3>3 DEF RestoreTask, TypeOK, ServiceTypeOK
  <2>2. CASE ~(taskResumes[c] > 0)
    <3>1. /\ UNCHANGED <<taskSuspended, taskResumes>>
          /\ cpc' = [cpc EXCEPT ![c] = "restore"]
      BY <1>8, <2>2 DEF RestoreTask
    <3>2. cpc' \in [Clients -> ClientPcs]
      BY <3>1 DEF ServiceTypeOK, ClientPcs
    <3> QED
      BY <1>8, <3>1, <3>2 DEF RestoreTask, TypeOK, ServiceTypeOK
  <2> QED
    BY <2>1, <2>2
<1>9. CASE RestoreDebugThread(c)
  BY <1>9 DEF RestoreDebugThread, TypeOK, ServiceTypeOK, ClientPcs
<1>10. CASE ResumeThread(c)
  <2>1. PICK t \in todo[c] :
          IF suspendCount[t] > 0
            THEN /\ suspendCount' = [suspendCount EXCEPT ![t] = @ - 1]
                 /\ todo' = [todo EXCEPT ![c] = @ \ {t}]
                 /\ CGoto(c, IF todo'[c] = {} THEN "idle" ELSE "resume")
            ELSE /\ todo' = [todo EXCEPT ![c] = {}]
                 /\ CGoto(c, "failed")
                 /\ UNCHANGED suspendCount
    BY <1>10 DEF ResumeThread
  <2>2. t \in AllThreads /\ (suspendCount[t] > 0 => suspendCount[t] - 1 \in Nat)
    BY DEF ServiceTypeOK, TypeOK
  <2>3. suspendCount' \in [AllThreads -> Nat]
    BY <2>1, <2>2 DEF TypeOK
  <2>4. todo' \in [Clients -> SUBSET AllThreads] /\ cpc' \in [Clients -> ClientPcs]
    <3>1. CASE suspendCount[t] > 0
      <4>1. /\ todo' = [todo EXCEPT ![c] = @ \ {t}]
            /\ cpc' = [cpc EXCEPT ![c] = IF todo'[c] = {} THEN "idle" ELSE "resume"]
        BY <2>1, <3>1
      <4>2. (IF todo'[c] = {} THEN "idle" ELSE "resume") \in ClientPcs
        BY DEF ClientPcs
      <4>3. todo[c] \ {t} \in SUBSET AllThreads
        BY DEF ServiceTypeOK
      <4>4. todo' \in [Clients -> SUBSET AllThreads]
        BY <4>1, <4>3 DEF ServiceTypeOK
      <4>5. cpc' \in [Clients -> ClientPcs]
        BY <4>1, <4>2 DEF ServiceTypeOK
      <4> QED
        BY <4>4, <4>5
    <3>2. CASE ~(suspendCount[t] > 0)
      <4>1. /\ todo' = [todo EXCEPT ![c] = {}]
            /\ cpc' = [cpc EXCEPT ![c] = "failed"]
        BY <2>1, <3>2
      <4>2. "failed" \in ClientPcs
        BY DEF ClientPcs
      <4> QED
        BY <4>1, <4>2 DEF ServiceTypeOK
    <3> QED
      BY <3>1, <3>2
  <2>5. threads' \in [Clients -> SUBSET AllThreads]
    BY <1>10 DEF ResumeThread, ServiceTypeOK
  <2> QED
    BY <1>10, <2>3, <2>4, <2>5 DEF ResumeThread, TypeOK, ServiceTypeOK
<1>11. CASE ResumeTaskMore(c)
  <2>1. CASE taskSuspended > 0
    <3>1. taskSuspended - 1 \in Nat /\ taskResumes[c] + 1 \in Nat
      BY <2>1 DEF TypeOK, ServiceTypeOK
    <3>2. /\ taskSuspended' = taskSuspended - 1 /\ cpc' = cpc
          /\ taskResumes' = [taskResumes EXCEPT ![c] = taskResumes[c] + 1]
      BY <1>11, <2>1 DEF ResumeTaskMore
    <3>3. taskResumes' \in [Clients -> Nat]
      BY <3>1, <3>2 DEF ServiceTypeOK
    <3> QED
      BY <1>11, <3>1, <3>2, <3>3 DEF ResumeTaskMore, TypeOK, ServiceTypeOK
  <2>2. CASE ~(taskSuspended > 0)
    <3>1. /\ UNCHANGED <<taskSuspended, taskResumes>>
          /\ cpc' = [cpc EXCEPT ![c] = "send"]
      BY <1>11, <2>2 DEF ResumeTaskMore
    <3>2. cpc' \in [Clients -> ClientPcs]
      BY <3>1 DEF ServiceTypeOK, ClientPcs
    <3> QED
      BY <1>11, <3>1, <3>2 DEF ResumeTaskMore, TypeOK, ServiceTypeOK
  <2> QED
    BY <2>1, <2>2
<1> QED
  BY <1>1, <1>2, <1>3, <1>4, <1>5, <1>6, <1>7, <1>8, <1>9, <1>10, <1>11 DEF ClientStep

(* The debug thread's steps before and after it serves, which leave the lock *)
(* alone, keep the types and what server_loop() has counted.                 *)
LEMMA ServerTypes ==
  ASSUME TypeOK, ServiceTypeOK, ServerTypeInv,
         \/ Receive \/ CheckLock \/ ThreadInfo \/ CaptureOwner \/ ResumeOwner
         \/ EndSpin \/ CountSuspends \/ Sleep \/ SuspendOwner \/ CantUnlock
         \/ ServeQuery \/ EndReading \/ Reply
  PROVE  /\ TypeOK' /\ ServiceTypeOK' /\ ServerTypeInv'
         /\ Elsewhere /\ pc' = pc
         /\ spc # "binding" /\ spc' # "binding"
<1> USE DEF Elsewhere, ProgramUnchanged, clientVars, vars, lockVars, flagVars, debugVars,
            threadVars, SGoto, ServerTypeInv
<1>1. CASE Receive
  <2>1. Head(port) \in Messages /\ Tail(port) \in Seq(Messages)
    BY <1>1 DEF Receive, ServiceTypeOK
  <2> QED
    BY <1>1, <2>1 DEF Receive, TypeOK, ServiceTypeOK, ServerPcs
<1>2. CASE CheckLock
  BY <1>2 DEF CheckLock, TypeOK, ServiceTypeOK, ServerPcs
<1>3. CASE ThreadInfo
  <2>1. left' \in Nat
    BY <1>3 DEF ThreadInfo, TypeOK, ServiceTypeOK
  <2> QED
    BY <1>3, <2>1 DEF ThreadInfo, TypeOK, ServiceTypeOK, ServerPcs
<1>4. CASE CaptureOwner
  BY <1>4 DEF CaptureOwner, TypeOK, ServiceTypeOK, ServerPcs
<1>5. CASE ResumeOwner
  <2>1. resumed \in AllThreads /\ left > 0 /\ resumeCount + 1 \in Nat
    BY <1>5 DEF ResumeOwner, ServiceTypeOK
  <2>2. left' \in Nat /\ suspendCount' \in [AllThreads -> Nat]
    <3>1. CASE suspendCount[resumed] > 0
      <4>1. suspendCount[resumed] - 1 \in Nat /\ left - 1 \in Nat
        BY <2>1, <3>1 DEF TypeOK, ServiceTypeOK
      <4>2. /\ suspendCount' = [suspendCount EXCEPT ![resumed] = suspendCount[resumed] - 1]
            /\ left' = left - 1
        BY <1>5, <3>1 DEF ResumeOwner
      <4> QED
        BY <4>1, <4>2 DEF TypeOK
    <3>2. CASE ~(suspendCount[resumed] > 0)
      BY <1>5, <3>2 DEF ResumeOwner, TypeOK
    <3> QED
      BY <3>1, <3>2
  <2>3. spc' \in {"resume", "spin"} /\ (spc' = "resume" => left' > 0)
    BY <1>5 DEF ResumeOwner
  <2>4. resumeCount' \in Nat
    BY <1>5, <2>1 DEF ResumeOwner
  <2>5. /\ UNCHANGED <<cpc, asked, todo, threads, debugResumes, taskResumes, port,
                       request, resumed, taskSuspended, pc, waiting>>
        /\ Elsewhere /\ spc = "resume"
    BY <1>5 DEF ResumeOwner
  <2>6. TypeOK'
    BY <2>2, <2>5 DEF TypeOK
  <2>7. ServiceTypeOK'
    BY <2>2, <2>3, <2>4, <2>5 DEF ServiceTypeOK, ServerPcs
  <2>8. ServerTypeInv'
    BY <2>1, <2>3, <2>5
  <2> QED
    BY <2>3, <2>5, <2>6, <2>7, <2>8
<1>6. CASE EndSpin
  BY <1>6 DEF EndSpin, TypeOK, ServiceTypeOK, ServerPcs
<1>7. CASE CountSuspends
  <2>1. resumeCount' \in Nat
    BY <1>7 DEF CountSuspends, ServiceTypeOK
  <2> QED
    BY <1>7, <2>1 DEF CountSuspends, TypeOK, ServiceTypeOK, ServerPcs
<1>8. CASE Sleep
  BY <1>8 DEF Sleep, TypeOK, ServiceTypeOK, ServerPcs
<1>9. CASE SuspendOwner
  <2>0. suspendCount' = [suspendCount EXCEPT ![resumed] = suspendCount[resumed] + resumeCount]
    BY <1>9 DEF SuspendOwner
  <2>1. /\ UNCHANGED <<cpc, asked, todo, threads, debugResumes, taskResumes, port,
                       request, resumed, resumeCount, left, taskSuspended, pc, waiting>>
        /\ Elsewhere /\ spc = "suspend" /\ spc' = "cantUnlock"
    BY <1>9 DEF SuspendOwner
  <2>2. suspendCount' \in [AllThreads -> Nat]
    <3>1. resumed \in AllThreads =>
            suspendCount[resumed] + resumeCount \in Nat
      BY DEF TypeOK, ServiceTypeOK
    <3>2. suspendCount \in [AllThreads -> Nat]
      BY DEF TypeOK
    <3>3. CASE resumed \in AllThreads
      BY <2>0, <3>1, <3>2, <3>3
    <3>4. CASE resumed \notin AllThreads
      BY <2>0, <3>2, <3>4
    <3> QED
      BY <3>3, <3>4
  <2>3. TypeOK'
    BY <2>1, <2>2 DEF TypeOK
  <2>4. ServiceTypeOK' /\ ServerTypeInv'
    BY <2>1 DEF ServiceTypeOK, ServerPcs
  <2> QED
    BY <2>1, <2>3, <2>4
<1>10. CASE CantUnlock
  BY <1>10 DEF CantUnlock, TypeOK, ServiceTypeOK, ServerPcs
<1>11. CASE ServeQuery \/ EndReading
  BY <1>11 DEF ServeQuery, EndReading, TypeOK, ServiceTypeOK, ServerPcs
<1>12. CASE Reply
  <2>1. cpc' \in [Clients -> ClientPcs]
    BY <1>12 DEF Reply, ServiceTypeOK, ClientPcs
  <2> QED
    BY <1>12, <2>1 DEF Reply, TypeOK, ServiceTypeOK, ServerPcs
<1> QED
  BY <1>1, <1>2, <1>3, <1>4, <1>5, <1>6, <1>7, <1>8, <1>9, <1>10, <1>11, <1>12

(* DebugInv is inductive.                                                    *)
LEMMA DebugStep == DebugInv /\ [DNext]_dvars => DebugInv'
<1> SUFFICES ASSUME DebugInv, [DNext]_dvars PROVE DebugInv'
  OBVIOUS
<1> DEFINE Kept == /\ TypeOK' /\ ServiceTypeOK' /\ ServerTypeInv'
                   /\ PortsInv' /\ DLocksInv' /\ HandlerInv'
                   /\ KilledOnlyOnReentry' /\ PlacesInv'
<1>1. LockedInv /\ TypeOK /\ ServiceTypeOK /\ ServerTypeInv /\ PortsInv
  BY DEF DebugInv, LockedInv, DTypeOK, ServiceTypeOK
<1>2. ASSUME Kept PROVE DebugInv'
  BY <1>2 DEF DebugInv, DTypeOK, ServiceTypeOK
<1>3. ASSUME NEW t \in Threads, Acts(t), UNCHANGED <<clientVars, serverVars, port>>
      PROVE  DebugInv'
  <2>1. UNCHANGED <<cpc, asked, todo, threads, debugResumes, taskResumes, spc, request,
                    resumed, resumeCount, left, port>>
    BY <1>3 DEF clientVars, serverVars
  <2>2. ServiceTypeOK' /\ ServerTypeInv'
    BY <1>1, <2>1 DEF ServiceTypeOK, ServerTypeInv
  <2>3. t \in AllThreads
    OBVIOUS
  <2>4. TypeOK' /\ PortsInv'
    BY <1>1, <1>3, <2>3, ActsType, ActsPorts
  <2>5. DLocksInv' /\ HandlerInv' /\ KilledOnlyOnReentry' /\ PlacesInv'
    BY <1>1, <1>3, <2>1, ProgramLocks, ProgramHandlers, ProgramPlaces
  <2> QED
    BY <1>2, <2>2, <2>4, <2>5
<1>4. ASSUME spc = "binding", BindActs,
             spc' = IF pc[DebugThread] = "relId" THEN "reply" ELSE "binding",
             UNCHANGED <<clientVars, port, request, resumed, resumeCount, left>>
      PROVE  DebugInv'
  <2>1. UNCHANGED <<cpc, asked, todo, threads, debugResumes, taskResumes, request,
                    resumed, resumeCount, left, port>>
    BY <1>4 DEF clientVars
  <2>2. ServiceTypeOK' /\ ServerTypeInv'
    BY <1>1, <1>4, <2>1 DEF ServiceTypeOK, ServerTypeInv, ServerPcs
  <2>3. /\ Acts(DebugThread) /\ DebugThread \in AllThreads
        /\ pc'[DebugThread] \in {"out", "setSelf", "setId", "inside", "relSelf", "relId"}
        /\ pc'[DebugThread] # "out" => ctx'[DebugThread] = "user"
        /\ pc[DebugThread] = "relId" =>
             pc'[DebugThread] = "out" /\ ctx'[DebugThread] = "user"
    BY <1>1, <1>4, BindActsStep
  <2>4. TypeOK' /\ PortsInv'
    BY <1>1, <2>3, ActsType, ActsPorts
  <2>5. DLocksInv' /\ HandlerInv' /\ KilledOnlyOnReentry'
    BY <1>1, <1>4, BindKeepsLocks
  <2>6. \A u \in Threads : pc'[u] = pc[u]
    BY <1>1, <2>3, ActsFrame
  <2>7. PlacesInv'
    BY <1>1, <1>4, <2>3, <2>6 DEF LockedInv, PlacesInv
  <2> QED
    BY <1>2, <2>2, <2>4, <2>5, <2>7
<1>5. ASSUME ServeBind PROVE DebugInv'
  <2>1. /\ spc = "serve"
        /\ \/ spc' = "reply" /\ pc' = pc
           \/ spc' = "binding" /\ pc' = [pc EXCEPT ![DebugThread] = "setSelf"]
        /\ Elsewhere /\ UNCHANGED <<suspendCount, taskSuspended, waiting>>
        /\ UNCHANGED <<cpc, asked, todo, threads, debugResumes, taskResumes, request,
                       resumed, resumeCount, left, port>>
    BY <1>5 DEF ServeBind, SGoto, Goto, Elsewhere, clientVars, lockVars, flagVars, debugVars
  <2>2. ServiceTypeOK' /\ ServerTypeInv'
    BY <1>1, <2>1 DEF ServiceTypeOK, ServerTypeInv, ServerPcs
  <2>3. TypeOK'
    BY <1>1, <2>1 DEF TypeOK, Elsewhere, lockVars, flagVars, Pcs, SetPcs
  <2>4. CASE pc' = pc /\ spc' = "reply"
    BY <1>1, <1>2, <2>1, <2>2, <2>3, <2>4, ElsewhereStep
  <2>5. CASE spc' = "binding" /\ pc' = [pc EXCEPT ![DebugThread] = "setSelf"]
    <3>1. pc[DebugThread] = "out" /\ ctx[DebugThread] = "user"
      BY <1>1, <2>1 DEF LockedInv, PlacesInv
    <3>2. /\ pc'[DebugThread] = "setSelf"
          /\ \A u \in Threads : pc'[u] = pc[u]
          /\ UNCHANGED <<ctx, me, stack, cache, globalLock, dyldLock, owner>>
      BY <1>1, <2>1, <2>5 DEF TypeOK, Elsewhere, lockVars
    <3>3. /\ \A u \in Threads : Holds(u)' <=> Holds(u)
          /\ \A u \in AllThreads : InGlobal(u)' <=> InGlobal(u)
      BY <3>1, <3>2 DEF Holds, InGlobal
    <3>4. PortsInv' /\ HandlerInv' /\ KilledOnlyOnReentry' /\ PlacesInv'
      BY <1>1, <2>5, <3>1, <3>2
         DEF LockedInv, PortsInv, HandlerInv, KilledOnlyOnReentry, PlacesInv, KnowsItself
    <3>5. DLocksInv'
      BY <1>1, <3>2, <3>3 DEF LockedInv, DLocksInv, MutualExclusion
    <3> QED
      BY <1>2, <2>2, <2>3, <3>4, <3>5
  <2> QED
    BY <2>1, <2>4, <2>5
<1>6. ASSUME NEW c \in Clients, ClientStep(c) PROVE DebugInv'
  <2>1. /\ TypeOK' /\ ServiceTypeOK' /\ Elsewhere /\ pc' = pc
        /\ UNCHANGED serverVars
    BY <1>1, <1>6, ClientTypes
  <2>2. spc' = spc /\ ServerTypeInv'
    BY <1>1, <2>1 DEF ServerTypeInv, serverVars
  <2> QED
    BY <1>1, <1>2, <2>1, <2>2, ElsewhereStep
<1>7. ASSUME \/ Receive \/ CheckLock \/ ThreadInfo \/ CaptureOwner \/ ResumeOwner
             \/ EndSpin \/ CountSuspends \/ Sleep \/ SuspendOwner \/ CantUnlock
             \/ ServeQuery \/ EndReading \/ Reply
      PROVE  DebugInv'
  <2>1. /\ TypeOK' /\ ServiceTypeOK' /\ ServerTypeInv'
        /\ Elsewhere /\ pc' = pc
        /\ spc # "binding" /\ spc' # "binding"
    BY <1>1, <1>7, ServerTypes
  <2> QED
    BY <1>1, <1>2, <2>1, ElsewhereStep
<1>8. ASSUME UNCHANGED dvars PROVE DebugInv'
  <2>1. /\ Elsewhere /\ pc' = pc /\ spc' = spc
        /\ UNCHANGED <<suspendCount, taskSuspended, waiting>>
        /\ UNCHANGED <<cpc, asked, todo, threads, debugResumes, taskResumes, request,
                       resumed, resumeCount, left, port>>
    BY <1>8 DEF dvars, vars, Elsewhere, clientVars, serverVars, lockVars, flagVars,
           debugVars, threadVars
  <2>2. TypeOK' /\ ServiceTypeOK' /\ ServerTypeInv'
    BY <1>1, <2>1 DEF TypeOK, ServiceTypeOK, ServerTypeInv, Elsewhere, lockVars, flagVars
  <2> QED
    BY <1>1, <1>2, <2>1, <2>2, ElsewhereStep
<1> QED
  BY <1>3, <1>4, <1>5, <1>6, <1>7, <1>8, StepIsOneOf
-----------------------------------------------------------------------------
(* What the invariant gives *)

(* At first nobody is anywhere, and nothing is suspended.                    *)
LEMMA DebugStart == DInit => DebugInv
<1> SUFFICES ASSUME DInit PROVE DebugInv
  OBVIOUS
<1> USE DEF DInit, AllThreads
<1>1. TypeOK
  BY DEF TypeOK, Pcs
<1>2. DTypeOK
  BY <1>1 DEF DTypeOK, ClientPcs, ServerPcs
<1>3. PortsInv /\ HandlerInv /\ KilledOnlyOnReentry /\ PlacesInv /\ ServerTypeInv
  BY DEF PortsInv, HandlerInv, KilledOnlyOnReentry, PlacesInv, ServerTypeInv, KnowsItself
<1>4. DLocksInv
  BY DEF DLocksInv, MutualExclusion, Holds, InGlobal
<1> QED
  BY <1>2, <1>3, <1>4 DEF DebugInv

(* However many debuggers suspend and resume the program's threads, and      *)
(* whether or not they wait for the replies, the lock is held by one thread, *)
(* and only who asks for it from his own handler is stopped.                 *)
THEOREM DebugInvariant == DSpec => []DebugInv
<1> QED
  BY DebugStart, DebugStep, PTL DEF DSpec

(* The variables keep their types.                                           *)
THEOREM DebugTypeCorrectness == DSpec => []DTypeOK
<1>1. DebugInv => DTypeOK
  BY DEF DebugInv
<1> QED
  BY <1>1, DebugInvariant, PTL

(* A thread of the program goes from "out" to "waiting", to "in" if nobody   *)
(* is, and out again, or it is killed, debugged or not.                      *)
LEMMA DebuggedPhase ==
  ASSUME LockedInv, NEW t \in Threads, Acts(t)
  PROVE  \/ PhaseOf(t)' = PhaseOf(t)
         \/ PhaseOf(t) = "out" /\ PhaseOf(t)' = "waiting"
         \/ /\ PhaseOf(t) = "waiting" /\ PhaseOf(t)' = "in"
            /\ \A u \in Threads : PhaseOf(u) \notin {"in", "killed"}
         \/ PhaseOf(t) = "in" /\ PhaseOf(t)' \in {"out", "killed"}
<1> USE DEF LockedInv, PhaseOf, Holds, Waits, SetPcs, TypeOK, Goto
<1>1. CASE GrabStep(t)
  BY <1>1 DEF GrabStep, Grab
<1>2. CASE SetResolve(t) \/ OrResolve(t) \/ RelResolve(t)
  <2>1. Resolve(t)
    BY <1>2 DEF SetResolve, OrResolve, RelResolve
  <2>2. me'[t] # DebugThread /\ ctx' = ctx
    BY <2>1, ResolveOfProgram
  <2>3. \/ pc[t] = "setId" /\ pc'[t] = "setSpin"
        \/ pc[t] = "orId" /\ pc'[t] = "orSpin"
        \/ pc[t] = "relId" /\ pc'[t] = "relSpin"
    BY <1>2, <2>2 DEF SetResolve, OrResolve, RelResolve
  <2> QED
    BY <2>2, <2>3
<1>3. CASE DeadLockError(t)
  <2>1. ctx[t] # "user"
    BY <1>3 DEF DeadLockError, DLocksInv, PortsInv, KnowsItself
  <2> QED
    BY <1>3, <2>1 DEF DeadLockError
<1>4. CASE SetTake(t)
  <2>1. \A u \in Threads : ~Holds(u)
    BY <1>4 DEF SetTake, DLocksInv
  <2>2. \A u \in Threads : pc[u] \notin {"killed", "hung"}
    BY <2>1 DEF KilledOnlyOnReentry
  <2> QED
    BY <1>4, <2>1, <2>2 DEF SetTake
<1>5. CASE SetOwner(t) \/ SetBusy(t) \/ SetClear(t)
  BY <1>5 DEF SetOwner, SetBusy, SetClear, Leave
<1>6. CASE OrCheck(t) \/ EndPeek(t)
  BY <1>6 DEF OrCheck, EndPeek, Leave
<1>7. CASE RelOwner(t) \/ RelFlag(t) \/ RelClear(t) \/ RelWait(t) \/ RelSuspend(t)
  BY <1>7 DEF RelOwner, RelFlag, RelClear, RelWait, RelSuspend, Leave
<1>8. CASE UserStep(t) \/ HandlerReturn(t) \/ CallReleaseLock(t)
  BY <1>8 DEF UserStep, CallSetLock, CallSetLockOrInHandler,
             ChooseReturnOnError, MultiplyDefinedEnter, LinkEditErrorEnter,
             HandlerReturn, MultiplyDefinedExit, LinkEditErrorReturn,
             CallReleaseLock, threadVars
<1> QED
  BY <1>1, <1>2, <1>3, <1>4, <1>5, <1>6, <1>7, <1>8 DEF Acts, LockStep

LEMMA DebuggedPromiseStep ==
  DebugInv /\ [DNext]_dvars => [Promise!Next]_([t \in Threads |-> PhaseOf(t)])
<1> SUFFICES ASSUME DebugInv, [DNext]_dvars
             PROVE  \/ Promise!Next
                    \/ [t \in Threads |-> PhaseOf(t)]' = [t \in Threads |-> PhaseOf(t)]
  OBVIOUS
<1>0. LockedInv /\ TypeOK /\ ServiceTypeOK /\ ServerTypeInv /\ PortsInv
  BY DEF DebugInv, LockedInv, DTypeOK, ServiceTypeOK
<1>1. ASSUME NEW t \in Threads, Acts(t)
      PROVE  \/ Promise!Next
             \/ [u \in Threads |-> PhaseOf(u)]' = [u \in Threads |-> PhaseOf(u)]
  <2>0. t \in AllThreads
    OBVIOUS
  <2>1. \A u \in Threads : u # t => pc'[u] = pc[u] /\ ctx'[u] = ctx[u]
    BY <1>0, <1>1, <2>0, ActsFrame
  <2>2. \A u \in Threads : u # t => PhaseOf(u)' = PhaseOf(u)
    BY <2>1 DEF PhaseOf, Holds, Waits
  <2>3. [u \in Threads |-> PhaseOf(u)]'
          = [[u \in Threads |-> PhaseOf(u)] EXCEPT ![t] = PhaseOf(t)']
    BY <2>2
  <2>4. CASE PhaseOf(t)' = PhaseOf(t)
    BY <2>3, <2>4
  <2>5. CASE PhaseOf(t) = "out" /\ PhaseOf(t)' = "waiting"
    BY <2>3, <2>5 DEF Promise!Next, Promise!Request
  <2>6. CASE /\ PhaseOf(t) = "waiting" /\ PhaseOf(t)' = "in"
             /\ \A u \in Threads : PhaseOf(u) \notin {"in", "killed"}
    BY <2>3, <2>6 DEF Promise!Next, Promise!Grant, Promise!Occupied
  <2>7. CASE PhaseOf(t) = "in" /\ PhaseOf(t)' \in {"out", "killed"}
    BY <2>3, <2>7 DEF Promise!Next, Promise!Leave, Promise!Kill
  <2> QED
    BY <1>0, <1>1, <2>4, <2>5, <2>6, <2>7, DebuggedPhase
<1>2. ASSUME \A u \in Threads : pc'[u] = pc[u] /\ ctx'[u] = ctx[u]
      PROVE  [u \in Threads |-> PhaseOf(u)]' = [u \in Threads |-> PhaseOf(u)]
  BY <1>2 DEF PhaseOf, Holds, Waits
<1>3. CASE BindActs
  <2>1. \A u \in Threads : pc'[u] = pc[u] /\ ctx'[u] = ctx[u]
    BY <1>0, <1>3, BindActsStep, ActsFrame
  <2> QED
    BY <1>2, <2>1
<1>4. CASE ServeBind
  <2>1. \A u \in Threads : pc'[u] = pc[u] /\ ctx'[u] = ctx[u]
    BY <1>0, <1>4 DEF ServeBind, Goto, TypeOK
  <2> QED
    BY <1>2, <2>1
<1>5. ASSUME NEW c \in Clients, ClientStep(c)
      PROVE  [u \in Threads |-> PhaseOf(u)]' = [u \in Threads |-> PhaseOf(u)]
  <2>1. Elsewhere /\ pc' = pc
    BY <1>0, <1>5, ClientTypes
  <2>2. \A u \in Threads : pc'[u] = pc[u] /\ ctx'[u] = ctx[u]
    BY <2>1 DEF Elsewhere
  <2> QED
    BY <1>2, <2>2
<1>6. CASE \/ Receive \/ CheckLock \/ ThreadInfo \/ CaptureOwner \/ ResumeOwner
           \/ EndSpin \/ CountSuspends \/ Sleep \/ SuspendOwner \/ CantUnlock
           \/ ServeQuery \/ EndReading \/ Reply
  <2>1. Elsewhere /\ pc' = pc
    BY <1>0, <1>6, ServerTypes
  <2>2. \A u \in Threads : pc'[u] = pc[u] /\ ctx'[u] = ctx[u]
    BY <2>1 DEF Elsewhere
  <2> QED
    BY <1>2, <2>2
<1>7. CASE UNCHANGED dvars
  <2>1. \A u \in Threads : pc'[u] = pc[u] /\ ctx'[u] = ctx[u]
    BY <1>7 DEF dvars, vars, threadVars
  <2> QED
    BY <1>2, <2>1
<1> QED
  BY <1>1, <1>3, <1>4, <1>5, <1>6, <1>7, StepIsOneOf

(* The debuggers and the debug thread, which suspend and resume threads at   *)
(* any of these steps, leave the lock the one LinkEditLock promises.         *)
THEOREM DebuggedKeepsPromise == DSpec => KeepsPromise
<1>1. DInit => Promise!Init
  BY DEF DInit, Promise!Init, PhaseOf, Holds, Waits, SetPcs
<1>2. DebugInv /\ [DNext]_dvars => [Promise!Next]_([t \in Threads |-> PhaseOf(t)])
  BY DebuggedPromiseStep
<1> QED
  BY <1>1, <1>2, DebugInvariant, PTL DEF DSpec, KeepsPromise, Promise!Spec
-----------------------------------------------------------------------------
(* One debugger *)

\* What one debugger's requests rely on, with the debugger named.
Serves(c) == /\ OneDebugger /\ Clients = {c}
             /\ DebugInv
             /\ RequestInv

(* While the debug thread waits for a request no debugger needs suspended    *)
(* threads, or all of them are; while it has one they are suspended, but for *)
(* the one it lets run.                                                      *)
LEMMA WhoMayRun ==
  ASSUME NEW c, Serves(c), NEW t \in Threads, Runnable(t)
  PROVE  \/ spc = "receive" /\ pc[t] # "relSuspend"
         \/ /\ spc \in Released /\ t = resumed /\ suspendCount[t] = 0
            /\ Holds(t) \/ EndingRelease(t)
<1> USE DEF Serves, RequestInv, Released
<1>1. suspendCount[t] = 0 /\ c \in Clients
  BY DEF Runnable
<1>2. CASE spc = "receive"
  BY <1>2 DEF CountsInv
<1>3. CASE spc # "receive" /\ ~(spc \in Released /\ t = resumed)
  <2>1. cpc[c] = "rpc"
    BY <1>1, <1>3 DEF ClientInv
  <2>2. suspendCount[t] = 1
    BY <1>1, <1>3, <2>1 DEF CountsInv, HeldBy, ThreadsHeld
  <2> QED
    BY <1>1, <2>2
<1>4. CASE spc \in Released /\ t = resumed
  BY <1>1, <1>4 DEF CountsInv
<1> QED
  BY <1>2, <1>3, <1>4

(* What a thread's step does to what the debug thread looks at: a thread     *)
(* suspends nobody but itself, at the end of release_lock().                 *)
LEMMA ActsEffects ==
  ASSUME LockedInv, "multiple" \notin Handlers, NEW t \in Threads, Acts(t), ~mdHandler
  PROVE  /\ ~mdHandler' /\ leHandler' = leHandler
         /\ pc[t] # "relSuspend" => suspendCount' = suspendCount
         /\ pc[t] = "relSuspend" =>
              suspendCount' = [suspendCount EXCEPT ![t] = suspendCount[t] + 1]
         /\ pc'[t] = "relSuspend" => waiting /\ pc[t] = "relWait"
         /\ waiting /\ (Holds(t) \/ EndingRelease(t)) =>
              \/ Holds(t)' \/ EndingRelease(t)'
              \/ pc[t] = "relSuspend"
         /\ EndingRelease(t) /\ ctx[t] = "user" => dyldLock' = dyldLock
<1> USE DEF LockedInv, TypeOK, EndingRelease, Holds, Goto, SetPcs, OrPcs
<1>1. CASE GrabStep(t)
  BY <1>1 DEF GrabStep, Grab, flagVars, debugVars
<1>2. CASE SetResolve(t) \/ OrResolve(t) \/ RelResolve(t)
  <2>1. Resolve(t) /\ t \in AllThreads
    BY <1>2 DEF SetResolve, OrResolve, RelResolve
  <2>2. me'[t] # DebugThread
    BY <2>1, ResolveOfProgram
  <2>3. UNCHANGED <<dyldLock, owner, mdHandler, leHandler, waiting, suspendCount, ctx>>
    BY <2>1, ResolveReturnsOwn
  <2>4. \/ pc[t] = "setId" /\ pc'[t] = "setSpin"
        \/ pc[t] = "orId" /\ pc'[t] = "orSpin"
        \/ pc[t] = "relId" /\ pc'[t] = "relSpin"
    BY <1>2, <2>2 DEF SetResolve, OrResolve, RelResolve
  <2> QED
    BY <2>3, <2>4
<1>3. CASE DeadLockError(t)
  BY <1>3 DEF DeadLockError, lockVars, flagVars, debugVars, DLocksInv, PortsInv, KnowsItself
<1>4. CASE SetOwner(t) \/ SetBusy(t) \/ SetTake(t) \/ SetClear(t)
  BY <1>4 DEF SetOwner, SetBusy, SetTake, SetClear, Leave, flagVars, debugVars
<1>5. CASE OrCheck(t) \/ EndPeek(t)
  BY <1>5 DEF OrCheck, EndPeek, Leave, lockVars, flagVars, debugVars
<1>6. CASE RelOwner(t) \/ RelFlag(t) \/ RelClear(t)
  BY <1>6 DEF RelOwner, RelFlag, RelClear, flagVars, debugVars
<1>7. CASE RelWait(t)
  <2>1. me[t] # DebugThread
    BY <1>7 DEF RelWait, PortsInv, KnowsItself
  <2> QED
    BY <1>7, <2>1 DEF RelWait, Leave, lockVars, flagVars, debugVars
<1>8. CASE RelSuspend(t)
  <2>1. me[t] = t /\ Live(t)
    BY <1>8 DEF RelSuspend, PortsInv, KnowsItself, Live
  <2>2. suspendCount' = [suspendCount EXCEPT ![t] = suspendCount[t] + 1]
    BY <1>8, <2>1 DEF RelSuspend, Suspend
  <2> QED
    BY <1>8, <2>2 DEF RelSuspend, Leave, lockVars, flagVars
<1>9. CASE UserStep(t)
  BY <1>9 DEF UserStep, CallSetLock, CallSetLockOrInHandler, ChooseReturnOnError,
             MultiplyDefinedEnter, LinkEditErrorEnter, lockVars, flagVars, debugVars,
             threadVars
<1>10. CASE HandlerReturn(t) \/ CallReleaseLock(t)
  BY <1>10 DEF HandlerReturn, MultiplyDefinedExit, LinkEditErrorReturn,
              CallReleaseLock, lockVars, flagVars, debugVars
<1> QED
  BY <1>1, <1>2, <1>3, <1>4, <1>5, <1>6, <1>7, <1>8, <1>9, <1>10 DEF Acts, LockStep

(* A thread runs while nothing is asked, or until it has left the dynamic    *)
(* linker and suspended itself.                                              *)
LEMMA ProgramKeepsRequests ==
  ASSUME NEW c, Serves(c), NEW t \in Threads, Runnable(t), Acts(t),
         UNCHANGED <<clientVars, serverVars, port>>
  PROVE  RequestInv'
<1> USE DEF Serves
<1>0. UNCHANGED <<cpc, asked, todo, threads, debugResumes, taskResumes, spc, request,
                  resumed, resumeCount, left, port>>
  BY DEF clientVars, serverVars
<1>1. LockedInv /\ TypeOK /\ PortsInv /\ t \in AllThreads /\ c \in Clients
  BY DEF DebugInv, DTypeOK, LockedInv
<1>2. /\ \A u \in AllThreads : u # t => pc'[u] = pc[u] /\ ctx'[u] = ctx[u]
      /\ waiting' = waiting /\ taskSuspended' = taskSuspended
  BY <1>1, ActsFrame
<1>3. ~mdHandler /\ "multiple" \notin Handlers
  BY DEF RequestInv, ServerInv, OneDebugger
<1>4. /\ ~mdHandler' /\ leHandler' = leHandler
      /\ pc[t] # "relSuspend" => suspendCount' = suspendCount
      /\ pc[t] = "relSuspend" =>
           suspendCount' = [suspendCount EXCEPT ![t] = suspendCount[t] + 1]
      /\ pc'[t] = "relSuspend" => waiting /\ pc[t] = "relWait"
      /\ waiting /\ (Holds(t) \/ EndingRelease(t)) =>
           Holds(t)' \/ EndingRelease(t)' \/ pc[t] = "relSuspend"
      /\ EndingRelease(t) /\ ctx[t] = "user" => dyldLock' = dyldLock
  BY <1>1, <1>3, ActsEffects
<1>5. ClientInv'
  BY <1>0, <1>2 DEF RequestInv, ClientInv
<1>6. CASE spc = "receive" /\ pc[t] # "relSuspend"
  <2>1. ~waiting
    BY <1>6 DEF RequestInv, ServerInv, Waiting, Released
  <2>2. suspendCount' = suspendCount /\ pc'[t] # "relSuspend"
    BY <1>4, <1>6, <2>1
  <2>3. CountsInv'
    BY <1>0, <1>2, <1>6, <2>2 DEF RequestInv, CountsInv, HeldBy, Released
  <2>4. ServerInv'
    BY <1>0, <1>2, <1>4, <1>6 DEF RequestInv, ServerInv, Released
  <2> QED
    BY <1>5, <2>3, <2>4 DEF RequestInv
<1>7. CASE /\ spc \in Released /\ t = resumed /\ suspendCount[t] = 0
           /\ Holds(t) \/ EndingRelease(t)
  <2>1. waiting
    BY <1>7 DEF RequestInv, ServerInv, Waiting
  <2>2. \A u \in AllThreads : u # t => suspendCount'[u] = suspendCount[u]
    BY <1>1, <1>4 DEF TypeOK
  <2>3. \/ suspendCount'[t] = 0 /\ (Holds(t)' \/ EndingRelease(t)')
        \/ suspendCount'[t] = 1 /\ pc'[t] # "relSuspend"
    BY <1>1, <1>4, <1>7, <2>1 DEF TypeOK
  <2>4. CountsInv'
    <3>1. suspendCount'[DebugThread] = 0
      BY <2>2 DEF RequestInv, CountsInv
    <3>2. ASSUME NEW u \in Threads, u # t
          PROVE  /\ suspendCount'[u] = IF HeldBy(c, u)' THEN 1 ELSE 0
                 /\ pc'[u] # "relSuspend"
      BY <1>0, <1>2, <1>7, <2>2, <3>2 DEF RequestInv, CountsInv, HeldBy
    <3>3. pc'[t] = "relSuspend" => suspendCount'[t] = 0
      BY <2>3
    <3> QED
      BY <1>0, <1>7, <2>3, <3>1, <3>2, <3>3 DEF CountsInv
  <2>5. spc \in {"count", "sleep"} => ~dyldLock'
    <3>1. CASE spc \in {"count", "sleep"}
      <4>1. ~dyldLock
        BY <3>1 DEF RequestInv, ServerInv
      <4>2. ~Holds(t)
        BY <4>1 DEF DebugInv, DLocksInv
      <4>3. EndingRelease(t) /\ ctx[t] = "user"
        BY <1>7, <4>2 DEF Holds
      <4> QED
        BY <1>4, <4>1, <4>3
    <3> QED
      BY <3>1
  <2>6. ServerInv'
    BY <1>0, <1>2, <1>4, <1>7, <2>5 DEF RequestInv, ServerInv, Released
  <2> QED
    BY <1>5, <2>4, <2>6 DEF RequestInv
<1> QED
  BY <1>6, <1>7, WhoMayRun

(* What is the same for every step of the debug thread's before it serves:   *)
(* the debugger that asked waits for the reply.                              *)
LEMMA AskerWaits ==
  ASSUME NEW c, Serves(c), spc # "receive"
  PROVE  /\ c \in Clients /\ cpc[c] = "rpc" /\ port = << >>
         /\ taskSuspended = 0
         /\ \A t \in Threads : HeldBy(c, t)
         /\ \A t \in Threads : ~(spc \in Released /\ t = resumed) => suspendCount[t] = 1
<1>1. c \in Clients /\ cpc[c] = "rpc"
  BY DEF Serves, RequestInv, ClientInv
<1>2. port = << >> /\ taskSuspended = 0
  BY <1>1 DEF Serves, RequestInv, ClientInv, TaskHeld
<1>3. \A t \in Threads : HeldBy(c, t)
  BY <1>1 DEF HeldBy, ThreadsHeld
<1> QED
  BY <1>1, <1>2, <1>3 DEF Serves, RequestInv, CountsInv

(* The steps of the debug thread that suspend and resume nobody keep the     *)
(* counts, if who it lets run stays the same or is suspended again.          *)
LEMMA SameCounts ==
  ASSUME NEW c, Serves(c), spc # "receive",
         suspendCount' = suspendCount, cpc' = cpc, todo' = todo,
         \A t \in Threads : pc'[t] = pc[t] /\ ctx'[t] = ctx[t],
         \/ spc \in Released /\ spc' \in Released /\ resumed' = resumed
         \/ spc \notin Released /\ spc' \in Released /\ resumed' \notin Threads
         \/ spc \notin Released /\ spc' \notin Released
         \/ spc \in Released /\ spc' \notin Released /\
              (resumed \in Threads => suspendCount[resumed] = 1)
  PROVE  CountsInv'
<1>1. /\ c \in Clients /\ cpc[c] = "rpc"
      /\ \A t \in Threads : HeldBy(c, t)
      /\ \A t \in Threads : ~(spc \in Released /\ t = resumed) => suspendCount[t] = 1
  BY AskerWaits
<1>2. \A t \in Threads : HeldBy(c, t)'
  BY <1>1 DEF HeldBy
<1>3. \A t \in Threads : /\ Holds(t)' <=> Holds(t)
                         /\ EndingRelease(t)' <=> EndingRelease(t)
  BY DEF Holds, EndingRelease
<1>4. Clients = {c}
  BY DEF Serves
<1>5. CountsInv
  BY DEF Serves, RequestInv
<1>6. ASSUME NEW t \in Threads
      PROVE  /\ IF spc' \in Released /\ t = resumed'
                  THEN /\ suspendCount'[t] \in {0, 1}
                       /\ suspendCount'[t] = 0 => Holds(t)' \/ EndingRelease(t)'
                  ELSE suspendCount'[t] = 1
             /\ pc'[t] = "relSuspend" =>
                  spc' \in Released /\ t = resumed' /\ suspendCount'[t] = 0
  <2>1. pc[t] = "relSuspend" => spc \in Released /\ t = resumed /\ suspendCount[t] = 0
    BY <1>5 DEF CountsInv
  <2>2. spc \in Released /\ t = resumed =>
          /\ suspendCount[t] \in {0, 1}
          /\ suspendCount[t] = 0 => Holds(t) \/ EndingRelease(t)
    BY <1>1, <1>5 DEF CountsInv
  <2> QED
    BY <1>1, <1>3, <2>1, <2>2
<1> QED
  BY <1>2, <1>4, <1>5, <1>6 DEF CountsInv

(* The steps of the debug thread's that leave the lock alone.                *)
LEMMA ServerKeepsRequests ==
  ASSUME NEW c, Serves(c),
         \/ Receive \/ CheckLock \/ ThreadInfo \/ CaptureOwner \/ ResumeOwner
         \/ EndSpin \/ CountSuspends \/ Sleep \/ SuspendOwner \/ CantUnlock
         \/ ServeQuery \/ EndReading \/ Reply
  PROVE  RequestInv'
<1>1. /\ ClientInv /\ CountsInv /\ ServerInv
      /\ c \in Clients /\ Clients = {c} /\ SleepLongEnough
      /\ TypeOK /\ ServiceTypeOK /\ ServerTypeInv
      /\ DLocksInv /\ KilledOnlyOnReentry /\ PlacesInv
  BY DEF Serves, RequestInv, DebugInv, DTypeOK, ServiceTypeOK, OneDebugger
<1>2. Elsewhere /\ pc' = pc
  BY <1>1, ServerTypes
<1>3. /\ \A t \in Threads : pc'[t] = pc[t] /\ ctx'[t] = ctx[t]
      /\ UNCHANGED <<globalLock, dyldLock, owner, mdHandler, leHandler>>
  BY <1>2 DEF Elsewhere, lockVars, flagVars
<1>4. spc # "receive" =>
        /\ cpc[c] = "rpc" /\ port = << >> /\ taskSuspended = 0
        /\ \A t \in Threads : ~(spc \in Released /\ t = resumed) => suspendCount[t] = 1
  BY AskerWaits
<1>5. CASE Receive
  <2>1. /\ spc = "receive" /\ port # << >> /\ port' = Tail(port)
        /\ waiting' = TRUE /\ spc' = "check"
        /\ UNCHANGED <<suspendCount, taskSuspended, cpc, todo, threads, debugResumes,
                       taskResumes, resumed, resumeCount, left>>
    BY <1>5 DEF Receive, SGoto, clientVars
  <2>2. cpc[c] = "rpc" /\ Len(port) = 1
    BY <1>1, <2>1 DEF ClientInv
  <2>3. port' = << >>
    BY <1>1, <2>1, <2>2 DEF ServiceTypeOK
  <2>4. ClientInv'
    BY <1>1, <2>1, <2>2, <2>3 DEF ClientInv
  <2>5. CountsInv'
    BY <1>1, <1>3, <2>1 DEF CountsInv, HeldBy, Released
  <2>6. ServerInv'
    BY <1>1, <1>3, <2>1 DEF ServerInv, Waiting, Released
  <2> QED
    BY <2>4, <2>5, <2>6 DEF RequestInv
<1>6. ASSUME spc # "receive", spc' # "receive",
             UNCHANGED <<cpc, todo, threads, debugResumes, taskResumes, port, taskSuspended>>
      PROVE  ClientInv'
  BY <1>1, <1>4, <1>6 DEF ClientInv
<1>7. CASE CheckLock
  <2>1. /\ spc = "check"
        /\ spc' = IF dyldLock /\ owner # NoThread /\ ~InHandler THEN "info" ELSE "spin"
        /\ UNCHANGED <<suspendCount, taskSuspended, cpc, todo, threads, debugResumes,
                       taskResumes, port, waiting, resumed, resumeCount, left>>
    BY <1>7 DEF CheckLock, SGoto, clientVars, vars, debugVars
  <2>2. resumed = NoThread /\ resumeCount = 0
    BY <1>1, <2>1 DEF ServerInv, Released
  <2>3. CountsInv'
    BY <1>3, <2>1, <2>2, SameCounts DEF Released
  <2>4. ServerInv'
    BY <1>1, <1>3, <2>1, <2>2 DEF ServerInv, Waiting, Released, InHandler
  <2>5. ClientInv'
    BY <1>6, <2>1
  <2> QED
    BY <2>3, <2>4, <2>5 DEF RequestInv
<1>8. CASE ThreadInfo
  <2>1. /\ spc = "info"
        /\ IF owner # NoThread /\ Live(owner)
             THEN left' = suspendCount[owner] /\ spc' = "capture"
             ELSE spc' = "cantUnlock"
        /\ UNCHANGED <<suspendCount, taskSuspended, cpc, todo, threads, debugResumes,
                       taskResumes, port, waiting, resumed, resumeCount>>
    BY <1>8 DEF ThreadInfo, SGoto, clientVars, vars, debugVars
  <2>2. owner # NoThread /\ owner \in Threads
    BY <1>1, <2>1 DEF ServerInv, DLocksInv
  \* Threads do not end: thread_info() finds the owner, suspended once.
  <2>3. Live(owner) /\ suspendCount[owner] = 1
    BY <1>1, <1>4, <2>1, <2>2 DEF PlacesInv, Live, Released
  <2>4. left' = 1 /\ spc' = "capture"
    BY <2>1, <2>2, <2>3
  <2>5. CountsInv'
    BY <1>3, <2>1, <2>4, SameCounts DEF Released
  <2>6. ServerInv'
    BY <1>1, <1>3, <2>1, <2>4 DEF ServerInv, Waiting, Released
  <2>7. ClientInv'
    BY <1>6, <2>1, <2>4
  <2> QED
    BY <2>5, <2>6, <2>7 DEF RequestInv
<1>9. CASE CaptureOwner
  <2>1. /\ spc = "capture" /\ resumed' = owner
        /\ spc' = IF left = 0 THEN "spin"
                  ELSE IF owner = NoThread THEN "cantUnlock" ELSE "resume"
        /\ UNCHANGED <<suspendCount, taskSuspended, cpc, todo, threads, debugResumes,
                       taskResumes, port, waiting, resumeCount, left>>
    BY <1>9 DEF CaptureOwner, SGoto, clientVars, vars, debugVars
  <2>2. spc' = "resume"
    BY <1>1, <2>1 DEF ServerInv
  <2>3. CountsInv'
    BY <1>3, <2>1, <2>2, SameCounts DEF Released
  <2>4. ServerInv'
    BY <1>1, <1>3, <2>1, <2>2 DEF ServerInv, Waiting, Released
  <2>5. ClientInv'
    BY <1>6, <2>1, <2>2
  <2> QED
    BY <2>3, <2>4, <2>5 DEF RequestInv
<1>10. CASE ResumeOwner
  <2>1. spc = "resume" /\ resumed = owner /\ left = 1 /\ resumeCount = 0
    BY <1>1, <1>10 DEF ResumeOwner, ServerInv
  <2>2. dyldLock /\ owner # NoThread /\ ~leHandler
    BY <1>1, <2>1 DEF ServerInv
  \* The owner is inside, for dyld_lock is set.
  <2>3. owner \in Threads /\ Holds(owner)
    BY <1>1, <2>2 DEF DLocksInv
  <2>4. suspendCount[owner] = 1
    BY <1>4, <2>1, <2>3 DEF Released
  <2>5. /\ suspendCount' = [suspendCount EXCEPT ![owner] = suspendCount[owner] - 1]
        /\ left' = left - 1
    BY <1>10, <2>1, <2>4 DEF ResumeOwner
  <2>6. spc' = "spin"
    BY <1>10, <2>1, <2>5 DEF ResumeOwner, SGoto
  <2>7. /\ resumeCount' = 1
        /\ UNCHANGED <<taskSuspended, cpc, todo, threads, debugResumes, taskResumes,
                       port, waiting, resumed>>
    BY <1>10, <2>1 DEF ResumeOwner, clientVars, ProgramUnchanged
  <2>8. /\ suspendCount'[owner] = 0
        /\ \A u \in AllThreads : u # owner => suspendCount'[u] = suspendCount[u]
    BY <1>1, <2>3, <2>4, <2>5 DEF TypeOK
  <2>9. CountsInv'
    <3>1. suspendCount'[DebugThread] = 0
      BY <1>1, <2>3, <2>8 DEF CountsInv
    <3>2. Holds(owner)' /\ owner' = owner
      BY <1>3, <2>3 DEF Holds
    <3>3. \A u \in Threads : HeldBy(c, u)' /\ pc'[u] # "relSuspend"
      BY <1>1, <1>3, <1>4, <2>1, <2>7 DEF HeldBy, ThreadsHeld, CountsInv, Released
    <3>4. \A u \in Threads : u # owner => suspendCount'[u] = 1
      BY <1>4, <2>1, <2>8 DEF Released
    <3>5. resumed' = owner /\ spc' \in Released /\ Clients = {c}
      BY <1>1, <2>1, <2>6, <2>7 DEF Released
    <3> QED
      BY <2>8, <3>1, <3>2, <3>3, <3>4, <3>5 DEF CountsInv
  <2>10. ServerInv'
    BY <1>1, <1>3, <2>1, <2>2, <2>3, <2>6, <2>7 DEF ServerInv, Waiting, Released
  <2>11. ClientInv'
    BY <1>6, <2>1, <2>6, <2>7
  <2> QED
    BY <2>9, <2>10, <2>11 DEF RequestInv
<1>11. CASE EndSpin
  <2>1. /\ spc = "spin"
        /\ ~(dyldLock \/ owner # NoThread) \/ InHandler
        /\ spc' = IF resumeCount # 0 THEN "count" ELSE "cantUnlock"
        /\ UNCHANGED <<suspendCount, taskSuspended, cpc, todo, threads, debugResumes,
                       taskResumes, port, waiting, resumed, resumeCount, left>>
    BY <1>11 DEF EndSpin, SGoto, clientVars, vars, debugVars
  <2>2. CASE resumeCount = 0
    <3>1. resumed = NoThread /\ spc' = "cantUnlock"
      BY <1>1, <2>1, <2>2 DEF ServerInv
    <3>2. CountsInv'
      BY <1>3, <2>1, <3>1, SameCounts DEF Released
    <3>3. ServerInv'
      BY <1>1, <1>3, <2>1, <2>2, <3>1 DEF ServerInv, Waiting, Released
    <3> QED
      BY <1>6, <2>1, <3>1, <3>2, <3>3 DEF RequestInv
  <2>3. CASE resumeCount # 0
    <3>1. resumeCount = 1 /\ resumed \in Threads /\ ~leHandler /\ ~mdHandler
      BY <1>1, <2>1, <2>3 DEF ServerInv
    <3>2. ~dyldLock /\ spc' = "count"
      BY <2>1, <2>3, <3>1 DEF InHandler
    <3>3. CountsInv'
      BY <1>3, <2>1, <3>2, SameCounts DEF Released
    <3>4. ServerInv'
      BY <1>1, <1>3, <2>1, <3>1, <3>2 DEF ServerInv, Waiting, Released
    <3> QED
      BY <1>6, <2>1, <3>2, <3>3, <3>4 DEF RequestInv
  <2> QED
    BY <2>2, <2>3
<1>12. CASE CountSuspends
  <2>1. /\ spc = "count" /\ spc' = "sleep"
        /\ resumeCount' = IF dyldLock THEN resumeCount ELSE resumeCount - 1
        /\ UNCHANGED <<suspendCount, taskSuspended, cpc, todo, threads, debugResumes,
                       taskResumes, port, waiting, resumed, left>>
    BY <1>12 DEF CountSuspends, SGoto, clientVars, vars, debugVars
  <2>2. resumeCount' = 0 /\ resumed \in Threads /\ ~dyldLock
    BY <1>1, <2>1 DEF ServerInv
  <2>3. CountsInv'
    BY <1>3, <2>1, SameCounts DEF Released
  <2>4. ServerInv'
    BY <1>1, <1>3, <2>1, <2>2 DEF ServerInv, Waiting, Released
  <2> QED
    BY <1>6, <2>1, <2>3, <2>4 DEF RequestInv
<1>13. CASE Sleep
  <2>1. /\ spc = "sleep" /\ spc' = "suspend"
        /\ ~(EndingRelease(resumed) /\ Runnable(resumed))
        /\ UNCHANGED <<suspendCount, taskSuspended, cpc, todo, threads, debugResumes,
                       taskResumes, port, waiting, resumed, resumeCount, left>>
    BY <1>1, <1>13 DEF Sleep, SGoto, clientVars, vars, debugVars
  <2>2. resumed \in Threads /\ ~dyldLock /\ resumeCount = 0
    BY <1>1, <2>1 DEF ServerInv
  <2>3. \A t \in Threads : ~Holds(t)
    BY <1>1, <2>2 DEF DLocksInv
  <2>4. ~Halted
    BY <1>1, <2>3 DEF Halted, Holds, KilledOnlyOnReentry, PlacesInv
  \* It has suspended itself, or usleep() would not have returned.
  <2>5. suspendCount[resumed] = 1
    <3>1. suspendCount[resumed] \in {0, 1}
          /\ (suspendCount[resumed] = 0 => Holds(resumed) \/ EndingRelease(resumed))
      BY <1>1, <2>1, <2>2 DEF CountsInv, Released
    <3>2. EndingRelease(resumed) => Live(resumed)
      BY DEF EndingRelease, Live
    <3> QED
      BY <1>4, <2>1, <2>2, <2>3, <2>4, <3>1, <3>2 DEF Runnable
  <2>6. CountsInv'
    BY <1>3, <2>1, <2>5, SameCounts DEF Released
  <2>7. ServerInv'
    BY <1>1, <1>3, <2>1, <2>2 DEF ServerInv, Waiting, Released
  <2> QED
    BY <1>6, <2>1, <2>6, <2>7 DEF RequestInv
<1>14. CASE SuspendOwner
  <2>1. spc = "suspend" /\ resumeCount = 0
    BY <1>1, <1>14 DEF SuspendOwner, ServerInv
  <2>2. suspendCount' = [suspendCount EXCEPT ![resumed] = suspendCount[resumed] + resumeCount]
    BY <1>14 DEF SuspendOwner
  <2>3. suspendCount' = suspendCount
    <3>1. CASE resumed \in AllThreads
      <4>1. suspendCount[resumed] \in Nat
        BY <1>1, <3>1 DEF TypeOK
      <4>2. suspendCount[resumed] + resumeCount = suspendCount[resumed]
        BY <2>1, <4>1
      <4> QED
        BY <1>1, <2>2, <4>2 DEF TypeOK
    <3>2. CASE resumed \notin AllThreads
      BY <1>1, <2>2, <3>2 DEF TypeOK
    <3> QED
      BY <3>1, <3>2
  <2>4. /\ spc' = "cantUnlock"
        /\ UNCHANGED <<taskSuspended, cpc, todo, threads, debugResumes,
                       taskResumes, port, waiting, resumed, resumeCount, left>>
    BY <1>14 DEF SuspendOwner, SGoto, clientVars, ProgramUnchanged
  <2>5. CountsInv'
    BY <1>3, <2>1, <2>3, <2>4, SameCounts DEF Released
  <2>6. ServerInv'
    BY <1>1, <1>3, <2>1, <2>4 DEF ServerInv, Waiting, Released
  <2> QED
    BY <1>6, <2>1, <2>4, <2>5, <2>6 DEF RequestInv
<1>15. CASE CantUnlock
  <2>1. /\ spc = "cantUnlock" /\ spc' = "serve"
        /\ waiting' = FALSE /\ resumed' = NoThread /\ resumeCount' = 0 /\ left' = 0
        /\ UNCHANGED <<suspendCount, taskSuspended, cpc, todo, threads, debugResumes,
                       taskResumes, port>>
    BY <1>15 DEF CantUnlock, SGoto, clientVars
  <2>2. CountsInv'
    BY <1>3, <2>1, SameCounts DEF Released
  <2>3. ServerInv'
    BY <1>1, <1>3, <2>1 DEF ServerInv, Waiting, Released
  <2> QED
    BY <1>6, <2>1, <2>2, <2>3 DEF RequestInv
<1>16. CASE ServeQuery \/ EndReading
  <2>1. /\ \/ spc = "serve" /\ spc' = IF dyldLock THEN "reply" ELSE "reading"
           \/ spc = "reading" /\ spc' = "reply"
        /\ UNCHANGED <<suspendCount, taskSuspended, cpc, todo, threads, debugResumes,
                       taskResumes, port, waiting, resumed, resumeCount, left>>
    BY <1>16 DEF ServeQuery, EndReading, SGoto, clientVars, vars, debugVars
  <2>2. CountsInv'
    BY <1>3, <2>1, SameCounts DEF Released
  <2>3. ServerInv'
    BY <1>1, <1>3, <2>1 DEF ServerInv, Waiting, Released
  <2> QED
    BY <1>6, <2>1, <2>2, <2>3 DEF RequestInv
<1>17. CASE Reply
  <2>1. /\ spc = "reply" /\ spc' = "receive"
        /\ cpc' = IF cpc[request.client] = "rpc"
                    THEN [cpc EXCEPT ![request.client] = "answered"] ELSE cpc
        /\ UNCHANGED <<suspendCount, taskSuspended, todo, threads, debugResumes,
                       taskResumes, port, waiting, resumed, resumeCount, left>>
    BY <1>17 DEF Reply, SGoto, vars, debugVars
  <2>2. request.client = c
    BY <1>1, <2>1 DEF ServerTypeInv, Messages
  <2>3. cpc'[c] = "answered"
    BY <1>1, <1>4, <2>1, <2>2 DEF ServiceTypeOK
  <2>4. ClientInv'
    BY <1>1, <1>4, <2>1, <2>3 DEF ClientInv, ThreadsHeld, TaskHeld
  <2>5. \A t \in Threads : HeldBy(c, t)' /\ suspendCount'[t] = 1 /\ pc'[t] # "relSuspend"
    BY <1>1, <1>3, <1>4, <2>1, <2>3 DEF HeldBy, ThreadsHeld, CountsInv, Released
  <2>6. CountsInv'
    BY <1>1, <2>1, <2>5 DEF CountsInv, Released
  <2>7. ServerInv'
    BY <1>1, <1>3, <2>1 DEF ServerInv, Waiting, Released
  <2> QED
    BY <2>4, <2>6, <2>7 DEF RequestInv
<1> QED
  BY <1>5, <1>7, <1>8, <1>9, <1>10, <1>11, <1>12, <1>13, <1>14, <1>15, <1>16, <1>17

(* Serving a bind leaves the threads suspended: the debug thread is not one  *)
(* that waits, so no handler suspends it.                                    *)
LEMMA BindKeepsRequests ==
  ASSUME NEW c, Serves(c), spc = "binding", BindActs,
         spc' = IF pc[DebugThread] = "relId" THEN "reply" ELSE "binding",
         UNCHANGED <<clientVars, port, request, resumed, resumeCount, left>>
  PROVE  RequestInv'
<1>1. /\ ClientInv /\ CountsInv /\ ServerInv /\ c \in Clients /\ Clients = {c}
      /\ LockedInv /\ TypeOK /\ PortsInv /\ "multiple" \notin Handlers
  BY DEF Serves, RequestInv, DebugInv, DTypeOK, LockedInv, OneDebugger
<1>2. UNCHANGED <<cpc, asked, todo, threads, debugResumes, taskResumes, resumed,
                  resumeCount, left, port>>
  BY DEF clientVars
<1>3. Acts(DebugThread) /\ UNCHANGED <<dyldLock, owner>>
  BY <1>1, BindActsStep
<1>4. /\ \A t \in Threads : pc'[t] = pc[t] /\ ctx'[t] = ctx[t]
      /\ waiting' = waiting /\ taskSuspended' = taskSuspended
  BY <1>1, <1>3, ActsFrame
<1>5. ~waiting /\ ~mdHandler
  BY <1>1 DEF ServerInv, Waiting, Released
<1>6. suspendCount' = suspendCount /\ ~mdHandler'
  <2>1. CASE SetResolve(DebugThread) \/ RelResolve(DebugThread)
    <3>1. Resolve(DebugThread)
      BY <2>1 DEF SetResolve, RelResolve
    <3> QED
      BY <1>1, <1>5, <3>1, ResolveReturnsOwn
  <2>2. CASE ~(SetResolve(DebugThread) \/ RelResolve(DebugThread))
    BY <1>1, <1>5, <2>2
       DEF BindActs, Grab, MultiplyDefinedEnter, MultiplyDefinedExit, LinkEditErrorEnter,
           LinkEditErrorReturn, CallReleaseLock, flagVars, debugVars
  <2> QED
    BY <2>1, <2>2
<1>7. spc' \in {"reply", "binding"}
  OBVIOUS
<1>8. CountsInv'
  BY <1>2, <1>4, <1>6, <1>7, SameCounts DEF Released
<1>9. ServerInv'
  BY <1>1, <1>2, <1>3, <1>4, <1>6, <1>7 DEF ServerInv, Waiting, Released
<1>10. ClientInv'
  BY <1>1, <1>2, <1>4, <1>7 DEF ClientInv
<1> QED
  BY <1>8, <1>9, <1>10 DEF RequestInv

LEMMA ServeBindKeepsRequests ==
  ASSUME NEW c, Serves(c), ServeBind
  PROVE  RequestInv'
<1>1. /\ ClientInv /\ CountsInv /\ ServerInv /\ c \in Clients /\ Clients = {c} /\ TypeOK
  BY DEF Serves, RequestInv, DebugInv, DTypeOK
<1>2. /\ spc = "serve"
      /\ \/ spc' = "reply" /\ pc' = pc
         \/ spc' = "binding" /\ ~dyldLock /\ pc' = [pc EXCEPT ![DebugThread] = "setSelf"]
      /\ UNCHANGED <<dyldLock, owner, mdHandler, leHandler, ctx, suspendCount, taskSuspended,
                     waiting>>
      /\ UNCHANGED <<cpc, asked, todo, threads, debugResumes, taskResumes, request,
                     resumed, resumeCount, left, port>>
  BY DEF ServeBind, SGoto, Goto, BindRefused, clientVars, lockVars, flagVars, debugVars
<1>3. \A t \in Threads : pc'[t] = pc[t] /\ ctx'[t] = ctx[t]
  BY <1>1, <1>2 DEF TypeOK
<1>4. CountsInv'
  BY <1>2, <1>3, SameCounts DEF Released
<1>5. ServerInv'
  BY <1>1, <1>2 DEF ServerInv, Waiting, Released
<1>6. ClientInv'
  BY <1>1, <1>2 DEF ClientInv
<1> QED
  BY <1>4, <1>5, <1>6 DEF RequestInv

(* The debugger's steps: what it suspends it resumes, each thread once.      *)
LEMMA ClientKeepsRequests ==
  ASSUME NEW c, Serves(c), ClientStep(c)
  PROVE  RequestInv'
<1> USE DEF CGoto
<1>1. /\ ClientInv /\ CountsInv /\ ServerInv /\ c \in Clients /\ Clients = {c}
      /\ TypeOK /\ ServiceTypeOK /\ PlacesInv /\ ~Timeouts
  BY DEF Serves, RequestInv, DebugInv, DTypeOK, ServiceTypeOK, OneDebugger
<1>2. Elsewhere /\ pc' = pc /\ waiting' = waiting /\ UNCHANGED serverVars
  BY <1>1, ClientTypes
<1>3. /\ \A t \in Threads : pc'[t] = pc[t] /\ ctx'[t] = ctx[t]
      /\ UNCHANGED <<dyldLock, owner, mdHandler, leHandler, waiting>>
      /\ UNCHANGED <<spc, request, resumed, resumeCount, left>>
  BY <1>2 DEF Elsewhere, lockVars, flagVars, serverVars
<1>4. ServerInv'
  BY <1>1, <1>3 DEF ServerInv
<1>5. /\ cpc[c] # "rpc" /\ spc = "receive" /\ port = << >>
  BY <1>1 DEF ClientStep, SuspendTask, ListThreads, SuspendThread, ResumeDebugThread,
              ResumeTask, ResumeTaskMore, SendRequest, TimeOut, RestoreTask, RestoreDebugThread,
              ResumeThread, ClientInv
<1>6. /\ suspendCount[DebugThread] = 0
      /\ \A t \in Threads : suspendCount[t] = IF HeldBy(c, t) THEN 1 ELSE 0
      /\ \A t \in Threads : pc[t] # "relSuspend"
  BY <1>1, <1>5 DEF CountsInv, Released
<1>7. ASSUME suspendCount'[DebugThread] = 0,
             \A t \in Threads : suspendCount'[t] = IF HeldBy(c, t)' THEN 1 ELSE 0
      PROVE  CountsInv'
  BY <1>1, <1>3, <1>5, <1>6, <1>7 DEF CountsInv, Released
<1>8. /\ cpc[c] # "failed"
      /\ taskSuspended = IF cpc[c] \in TaskHeld THEN 1 ELSE 0
      /\ debugResumes[c] = 0 /\ taskResumes[c] = 0
      /\ cpc[c] \in {"suspend", "resume"} \cup ThreadsHeld => threads[c] = AllThreads
      /\ cpc[c] \in {"suspend", "resume"} => todo[c] \subseteq Threads
  BY <1>1 DEF ClientInv
<1>9. ASSUME NEW label, cpc' = [cpc EXCEPT ![c] = label], label # "failed", label # "rpc",
             taskSuspended' = IF label \in TaskHeld THEN 1 ELSE 0,
             debugResumes'[c] = 0, taskResumes'[c] = 0,
             label \in {"suspend", "resume"} \cup ThreadsHeld => threads'[c] = AllThreads,
             label \in {"suspend", "resume"} => todo'[c] \subseteq Threads,
             port' = port
      PROVE  cpc'[c] = label /\ ClientInv'
  <2>1. cpc'[c] = label
    BY <1>1, <1>9 DEF ServiceTypeOK
  <2> QED
    BY <1>1, <1>3, <1>5, <1>9, <2>1 DEF ClientInv
<1>10. CASE SuspendTask(c)
  <2>1. /\ cpc[c] = "idle" /\ cpc' = [cpc EXCEPT ![c] = "list"]
        /\ taskSuspended' = taskSuspended + 1
        /\ UNCHANGED <<suspendCount, todo, threads, debugResumes, taskResumes, port>>
    BY <1>10 DEF SuspendTask
  <2>0. taskSuspended' = 1 /\ debugResumes'[c] = 0 /\ taskResumes'[c] = 0
    BY <1>8, <2>1 DEF TaskHeld
  <2>2. cpc'[c] = "list" /\ ClientInv'
    BY <1>9, <2>0, <2>1 DEF TaskHeld, ThreadsHeld
  <2>3. CountsInv'
    BY <1>6, <1>7, <2>1, <2>2 DEF HeldBy, ThreadsHeld
  <2> QED
    BY <1>4, <2>2, <2>3 DEF RequestInv
<1>11. CASE ListThreads(c)
  <2>1. /\ cpc[c] = "list" /\ cpc' = [cpc EXCEPT ![c] = "suspend"]
        /\ threads' = [threads EXCEPT ![c] = {t \in AllThreads : Live(t)}]
        /\ todo' = [todo EXCEPT ![c] = threads'[c] \ {DebugThread}]
        /\ UNCHANGED <<suspendCount, taskSuspended, debugResumes, taskResumes, port>>
    BY <1>11 DEF ListThreads
  <2>2. {t \in AllThreads : Live(t)} = AllThreads
    BY <1>1, <1>5 DEF PlacesInv, Live
  <2>3. threads'[c] = AllThreads /\ todo'[c] = Threads
    BY <1>1, <2>1, <2>2 DEF ServiceTypeOK
  <2>4. cpc'[c] = "suspend" /\ ClientInv'
    BY <1>8, <1>9, <2>1, <2>3 DEF TaskHeld, ThreadsHeld
  <2>5. CountsInv'
    BY <1>6, <1>7, <2>1, <2>3, <2>4 DEF HeldBy, ThreadsHeld
  <2> QED
    BY <1>4, <2>4, <2>5 DEF RequestInv
<1>12. CASE SuspendThread(c)
  <2>1. PICK t \in todo[c] : Suspend(t) /\ todo' = [todo EXCEPT ![c] = @ \ {t}]
    BY <1>12 DEF SuspendThread
  <2>2. /\ cpc[c] = "suspend"
        /\ cpc' = [cpc EXCEPT ![c] = IF todo'[c] = {} THEN "resumeDebug" ELSE "suspend"]
        /\ UNCHANGED <<taskSuspended, threads, debugResumes, taskResumes, port>>
    BY <1>12 DEF SuspendThread
  <2>3. t \in Threads /\ todo'[c] = todo[c] \ {t}
    BY <1>1, <1>8, <2>1, <2>2 DEF ServiceTypeOK
  <2>4. Live(t) /\ suspendCount[t] = 0
    BY <1>1, <1>6, <2>1, <2>2, <2>3 DEF PlacesInv, Live, HeldBy, ThreadsHeld
  <2>5. suspendCount' = [suspendCount EXCEPT ![t] = suspendCount[t] + 1]
    BY <2>1, <2>3, <2>4 DEF Suspend
  <2>6. /\ suspendCount'[t] = 1
        /\ \A u \in AllThreads : u # t => suspendCount'[u] = suspendCount[u]
    BY <1>1, <2>3, <2>4, <2>5 DEF TypeOK
  <2>7. CASE todo'[c] = {}
    <3>1. cpc'[c] = "resumeDebug" /\ ClientInv'
      BY <1>8, <1>9, <2>2, <2>7 DEF TaskHeld, ThreadsHeld
    <3>2. \A u \in Threads : HeldBy(c, u)' /\ (u # t => HeldBy(c, u))
      BY <2>2, <2>3, <2>7, <3>1 DEF HeldBy, ThreadsHeld
    <3>3. CountsInv'
      BY <1>6, <1>7, <2>3, <2>6, <3>2
    <3> QED
      BY <1>4, <3>1, <3>3 DEF RequestInv
  <2>8. CASE todo'[c] # {}
    <3>1. cpc'[c] = "suspend" /\ ClientInv'
      BY <1>8, <1>9, <2>2, <2>3, <2>8 DEF TaskHeld, ThreadsHeld
    <3>2. HeldBy(c, t)' /\ \A u \in Threads : u # t => (HeldBy(c, u)' <=> HeldBy(c, u))
      BY <2>2, <2>3, <3>1 DEF HeldBy, ThreadsHeld
    <3>3. CountsInv'
      BY <1>6, <1>7, <2>3, <2>6, <3>2
    <3> QED
      BY <1>4, <3>1, <3>3 DEF RequestInv
  <2> QED
    BY <2>7, <2>8
<1>13. CASE ResumeDebugThread(c)
  <2>1. /\ cpc[c] = "resumeDebug" /\ cpc' = [cpc EXCEPT ![c] = "resumeTask"]
        /\ debugResumes' = [debugResumes EXCEPT ![c] = suspendCount[DebugThread]]
        /\ suspendCount' = [suspendCount EXCEPT ![DebugThread] = 0]
        /\ UNCHANGED <<taskSuspended, todo, threads, taskResumes, port>>
    BY <1>13 DEF ResumeDebugThread
  <2>2. debugResumes'[c] = 0
    BY <1>1, <1>6, <2>1 DEF ServiceTypeOK
  <2>3. cpc'[c] = "resumeTask" /\ ClientInv'
    BY <1>8, <1>9, <2>1, <2>2 DEF TaskHeld, ThreadsHeld
  <2>4. \A u \in AllThreads : suspendCount'[u] = suspendCount[u]
    BY <1>1, <1>6, <2>1 DEF TypeOK
  <2>5. CountsInv'
    BY <1>6, <1>7, <2>1, <2>3, <2>4 DEF HeldBy, ThreadsHeld
  <2> QED
    BY <1>4, <2>3, <2>5 DEF RequestInv
<1>14. CASE ResumeTask(c)
  <2>1. cpc[c] = "resumeTask" /\ taskSuspended = 1
    BY <1>8, <1>14 DEF ResumeTask, TaskHeld
  <2>2. /\ taskResumes' = [taskResumes EXCEPT ![c] = 0]
        /\ cpc' = [cpc EXCEPT ![c] = "resumeMore"] /\ taskSuspended' = 0
        /\ UNCHANGED <<suspendCount, todo, threads, debugResumes, port>>
    BY <1>14, <2>1 DEF ResumeTask
  <2>3. taskResumes'[c] = 0
    BY <1>1, <2>1, <2>2 DEF ServiceTypeOK
  <2>4. cpc'[c] = "resumeMore" /\ ClientInv'
    BY <1>8, <1>9, <2>1, <2>2, <2>3 DEF TaskHeld, ThreadsHeld
  <2>5. CountsInv'
    BY <1>6, <1>7, <2>1, <2>2, <2>4 DEF HeldBy, ThreadsHeld
  <2> QED
    BY <1>4, <2>4, <2>5 DEF RequestInv
<1>15. CASE SendRequest(c)
  <2>1. PICK k \in Requests : port' = Append(port, [client |-> c, kind |-> k])
    BY <1>15 DEF SendRequest
  <2>2. /\ cpc[c] = "send" /\ cpc' = [cpc EXCEPT ![c] = "rpc"]
        /\ UNCHANGED <<suspendCount, taskSuspended, todo, threads, debugResumes, taskResumes>>
    BY <1>15 DEF SendRequest, vars, debugVars
  <2>3. Len(port') = 1
    BY <1>5, <2>1
  <2>4. cpc'[c] = "rpc"
    BY <1>1, <2>2 DEF ServiceTypeOK
  <2>5. ClientInv'
    BY <1>1, <1>3, <1>5, <1>8, <2>2, <2>3, <2>4 DEF ClientInv, TaskHeld, ThreadsHeld
  <2>6. CountsInv'
    BY <1>6, <1>7, <2>2, <2>4 DEF HeldBy, ThreadsHeld
  <2> QED
    BY <1>4, <2>5, <2>6 DEF RequestInv
<1>16. CASE RestoreTask(c)
  <2>1. /\ cpc[c] = "answered" /\ cpc' = [cpc EXCEPT ![c] = "restore"]
        /\ UNCHANGED <<suspendCount, taskSuspended, todo, threads, debugResumes, taskResumes,
                       port>>
    BY <1>8, <1>16 DEF RestoreTask
  <2>2. taskSuspended' = 0 /\ debugResumes'[c] = 0 /\ taskResumes'[c] = 0
    BY <1>8, <2>1 DEF TaskHeld
  <2>3. cpc'[c] = "restore" /\ ClientInv'
    BY <1>8, <1>9, <2>1, <2>2 DEF TaskHeld, ThreadsHeld
  <2>4. CountsInv'
    BY <1>6, <1>7, <2>1, <2>3 DEF HeldBy, ThreadsHeld
  <2> QED
    BY <1>4, <2>3, <2>4 DEF RequestInv
<1>17. CASE RestoreDebugThread(c)
  <2>1. /\ cpc[c] = "restore" /\ cpc' = [cpc EXCEPT ![c] = "resume"]
        /\ suspendCount' = [suspendCount EXCEPT
                              ![DebugThread] = suspendCount[DebugThread] + debugResumes[c]]
        /\ debugResumes' = [debugResumes EXCEPT ![c] = 0]
        /\ todo' = [todo EXCEPT ![c] = threads[c] \ {DebugThread}]
        /\ UNCHANGED <<taskSuspended, threads, taskResumes, port>>
    BY <1>17 DEF RestoreDebugThread
  <2>2. debugResumes'[c] = 0
    BY <1>1, <2>1 DEF ServiceTypeOK
  <2>3. todo'[c] = Threads
    BY <1>1, <1>8, <2>1 DEF ServiceTypeOK, ThreadsHeld
  <2>4. cpc'[c] = "resume" /\ ClientInv'
    BY <1>8, <1>9, <2>1, <2>2, <2>3 DEF TaskHeld, ThreadsHeld
  <2>5. \A u \in AllThreads : suspendCount'[u] = suspendCount[u]
    BY <1>1, <1>6, <1>8, <2>1 DEF TypeOK
  <2>6. CountsInv'
    BY <1>6, <1>7, <2>1, <2>3, <2>4, <2>5 DEF HeldBy, ThreadsHeld
  <2> QED
    BY <1>4, <2>4, <2>6 DEF RequestInv
<1>18. CASE ResumeThread(c)
  <2>1. PICK t \in todo[c] :
          IF suspendCount[t] > 0
            THEN /\ suspendCount' = [suspendCount EXCEPT ![t] = @ - 1]
                 /\ todo' = [todo EXCEPT ![c] = @ \ {t}]
                 /\ CGoto(c, IF todo'[c] = {} THEN "idle" ELSE "resume")
            ELSE /\ todo' = [todo EXCEPT ![c] = {}]
                 /\ CGoto(c, "failed")
                 /\ UNCHANGED suspendCount
    BY <1>18 DEF ResumeThread
  <2>2. /\ cpc[c] = "resume"
        /\ threads' = IF cpc'[c] = "resume" THEN threads ELSE [threads EXCEPT ![c] = {}]
        /\ UNCHANGED <<taskSuspended, debugResumes, taskResumes, port>>
    BY <1>18 DEF ResumeThread
  <2>3. t \in Threads /\ suspendCount[t] = 1
    BY <1>6, <1>8, <2>1, <2>2 DEF HeldBy, ThreadsHeld
  <2>4. /\ suspendCount' = [suspendCount EXCEPT ![t] = suspendCount[t] - 1]
        /\ todo' = [todo EXCEPT ![c] = todo[c] \ {t}]
        /\ cpc' = [cpc EXCEPT ![c] = IF todo'[c] = {} THEN "idle" ELSE "resume"]
    BY <2>1, <2>3
  <2>5. todo'[c] = todo[c] \ {t}
    BY <1>1, <2>4 DEF ServiceTypeOK
  <2>6. /\ suspendCount'[t] = 0
        /\ \A u \in AllThreads : u # t => suspendCount'[u] = suspendCount[u]
    BY <1>1, <2>3, <2>4 DEF TypeOK
  <2>7. CASE todo'[c] = {}
    <3>1. cpc'[c] = "idle" /\ ClientInv'
      BY <1>8, <1>9, <2>2, <2>4, <2>7 DEF TaskHeld, ThreadsHeld
    <3>2. \A u \in Threads : ~HeldBy(c, u)' /\ (u # t => ~HeldBy(c, u))
      BY <2>2, <2>5, <2>7, <3>1 DEF HeldBy, ThreadsHeld
    <3>3. CountsInv'
      BY <1>6, <1>7, <2>3, <2>6, <3>2
    <3> QED
      BY <1>4, <3>1, <3>3 DEF RequestInv
  <2>8. CASE todo'[c] # {}
    <3>1. cpc'[c] = "resume"
      BY <1>1, <2>4, <2>8 DEF ServiceTypeOK
    <3>2. threads' = threads
      BY <2>2, <3>1
    <3>3. ClientInv'
      BY <1>8, <1>9, <2>2, <2>4, <2>5, <2>8, <3>2 DEF TaskHeld, ThreadsHeld
    <3>4. ~HeldBy(c, t)' /\ \A u \in Threads : u # t => (HeldBy(c, u)' <=> HeldBy(c, u))
      BY <2>2, <2>5, <3>1 DEF HeldBy, ThreadsHeld
    <3>5. CountsInv'
      BY <1>6, <1>7, <2>3, <2>6, <3>4
    <3> QED
      BY <1>4, <3>3, <3>5 DEF RequestInv
  <2> QED
    BY <2>7, <2>8
<1>19. CASE ResumeTaskMore(c)
  <2>1. /\ cpc[c] = "resumeMore" /\ cpc' = [cpc EXCEPT ![c] = "send"]
        /\ UNCHANGED <<suspendCount, taskSuspended, todo, threads, debugResumes, taskResumes,
                       port>>
    BY <1>8, <1>19 DEF ResumeTaskMore, TaskHeld
  <2>2. taskSuspended' = 0 /\ debugResumes'[c] = 0 /\ taskResumes'[c] = 0
    BY <1>8, <2>1 DEF TaskHeld
  <2>3. cpc'[c] = "send" /\ ClientInv'
    BY <1>8, <1>9, <2>1, <2>2 DEF TaskHeld, ThreadsHeld
  <2>4. CountsInv'
    BY <1>6, <1>7, <2>1, <2>3 DEF HeldBy, ThreadsHeld
  <2> QED
    BY <1>4, <2>3, <2>4 DEF RequestInv
<1>20. ~TimeOut(c)
  BY <1>1 DEF TimeOut
<1> QED
  BY <1>10, <1>11, <1>12, <1>13, <1>14, <1>15, <1>16, <1>17, <1>18, <1>19, <1>20
     DEF ClientStep

(* RequestInv is inductive, with DebugInv.                                   *)
LEMMA RequestStep ==
  ASSUME OneDebugger
  PROVE  DebugInv /\ RequestInv /\ [DNext]_dvars => RequestInv'
<1> SUFFICES ASSUME DebugInv, RequestInv, [DNext]_dvars PROVE RequestInv'
  OBVIOUS
<1>1. PICK c \in Clients : Clients = {c}
  BY DEF OneDebugger
<1>2. Serves(c)
  BY <1>1 DEF Serves
<1>3. ASSUME NEW t \in Threads, Runnable(t), Acts(t), UNCHANGED <<clientVars, serverVars, port>>
      PROVE  RequestInv'
  BY <1>2, <1>3, ProgramKeepsRequests
<1>4. ASSUME spc = "binding", BindActs,
             spc' = IF pc[DebugThread] = "relId" THEN "reply" ELSE "binding",
             UNCHANGED <<clientVars, port, request, resumed, resumeCount, left>>
      PROVE  RequestInv'
  BY <1>2, <1>4, BindKeepsRequests
<1>5. ASSUME ServeBind PROVE RequestInv'
  BY <1>2, <1>5, ServeBindKeepsRequests
<1>6. ASSUME NEW d \in Clients, ClientStep(d) PROVE RequestInv'
  <2>1. d = c
    BY <1>1
  <2> QED
    BY <1>2, <1>6, <2>1, ClientKeepsRequests
<1>7. ASSUME \/ Receive \/ CheckLock \/ ThreadInfo \/ CaptureOwner \/ ResumeOwner
             \/ EndSpin \/ CountSuspends \/ Sleep \/ SuspendOwner \/ CantUnlock
             \/ ServeQuery \/ EndReading \/ Reply
      PROVE  RequestInv'
  BY <1>2, <1>7, ServerKeepsRequests
<1>8. ASSUME UNCHANGED dvars PROVE RequestInv'
  <2>1. /\ UNCHANGED <<cpc, todo, threads, debugResumes, taskResumes, port>>
        /\ UNCHANGED <<spc, resumed, resumeCount, left>>
        /\ UNCHANGED <<dyldLock, owner, mdHandler, leHandler, waiting, suspendCount,
                       taskSuspended, pc, ctx>>
    BY <1>8 DEF dvars, clientVars, serverVars, vars, lockVars, flagVars, debugVars, threadVars
  <2>2. ClientInv'
    BY <2>1 DEF RequestInv, ClientInv
  <2>3. CountsInv'
    BY <2>1 DEF RequestInv, CountsInv, HeldBy, Holds, EndingRelease
  <2>4. ServerInv'
    BY <2>1 DEF RequestInv, ServerInv
  <2> QED
    BY <2>2, <2>3, <2>4 DEF RequestInv
<1> QED
  BY <1>3, <1>4, <1>5, <1>6, <1>7, <1>8, StepIsOneOf

LEMMA RequestStart ==
  ASSUME OneDebugger
  PROVE  DInit => RequestInv
<1> SUFFICES ASSUME DInit PROVE RequestInv
  OBVIOUS
<1>1. ClientInv
  BY DEF DInit, ClientInv, TaskHeld, ThreadsHeld
<1>2. CountsInv
  BY DEF DInit, CountsInv, HeldBy, ThreadsHeld, Released
<1>3. ServerInv
  BY DEF DInit, ServerInv, Waiting, Released
<1> QED
  BY <1>1, <1>2, <1>3 DEF RequestInv

(* With one debugger that waits, every thread is suspended once while it     *)
(* asks, but for the one inside that server_loop() lets run until it has     *)
(* suspended itself.                                                         *)
THEOREM RequestInvariant ==
  ASSUME OneDebugger
  PROVE  DSpec => [](DebugInv /\ RequestInv)
<1>1. DInit => DebugInv /\ RequestInv
  BY DebugStart, RequestStart
<1>2. DebugInv /\ RequestInv /\ [DNext]_dvars => (DebugInv /\ RequestInv)'
  BY DebugStep, RequestStep
<1> QED
  BY <1>1, <1>2, PTL DEF DSpec

(* While the debug thread reads for a request that wants consistent data, or *)
(* binds a module, no thread of the program is inside the dynamic linker.    *)
THEOREM ServedConsistentlyHolds ==
  ASSUME OneDebugger
  PROVE  DSpec => []ServedConsistently
<1>1. DebugInv /\ RequestInv => ServedConsistently
  BY DEF DebugInv, DLocksInv, RequestInv, ServerInv, ServedConsistently
<1> QED
  BY <1>1, RequestInvariant, PTL

(* ... and none of them can run.                                             *)
THEOREM OnlyDebugThreadRunsHolds ==
  ASSUME OneDebugger
  PROVE  DSpec => []OnlyDebugThreadRuns
<1>1. DebugInv /\ RequestInv => OnlyDebugThreadRuns
  <2> SUFFICES ASSUME DebugInv, RequestInv, spc \in {"reading", "binding"},
                      NEW t \in Threads
               PROVE  ~Runnable(t)
    BY DEF OnlyDebugThreadRuns
  <2>1. PICK c \in Clients : Clients = {c}
    BY DEF OneDebugger
  <2>2. Serves(c) /\ spc # "receive" /\ spc \notin Released
    BY <2>1 DEF Serves, Released
  <2>3. suspendCount[t] = 1
    BY <2>2, AskerWaits
  <2> QED
    BY <2>3 DEF Runnable
<1> QED
  BY <1>1, RequestInvariant, PTL

(* When the debugger is done no thread is suspended, nor is the task.        *)
THEOREM SuspendCountsRestoredHolds ==
  ASSUME OneDebugger
  PROVE  DSpec => []SuspendCountsRestored
<1>1. DebugInv /\ RequestInv => SuspendCountsRestored
  <2> SUFFICES ASSUME DebugInv, RequestInv,
                      \A c \in Clients : cpc[c] \in {"idle", "failed"}, spc = "receive"
               PROVE  taskSuspended = 0 /\ \A t \in AllThreads : suspendCount[t] = 0
    BY DEF SuspendCountsRestored
  <2>1. PICK c \in Clients : Clients = {c}
    BY DEF OneDebugger
  <2>2. cpc[c] = "idle" /\ taskSuspended = 0
    BY <2>1 DEF RequestInv, ClientInv, TaskHeld
  <2>3. suspendCount[DebugThread] = 0 /\ \A t \in Threads : suspendCount[t] = 0
    BY <2>1, <2>2 DEF RequestInv, CountsInv, HeldBy, ThreadsHeld, Released
  <2> QED
    BY <2>2, <2>3
<1> QED
  BY <1>1, RequestInvariant, PTL
=============================================================================
