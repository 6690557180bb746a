------------------------------- MODULE DyldLock -------------------------------
(***************************************************************************)
(* The lock of the dynamic linker (cctools/dyld/lock.c), with the callers  *)
(* that take it, the two error handlers that run the user's code while it  *)
(* is held (dyld/errors.c, dyld/debug.c) and the fork(2) hooks             *)
(* (dyld/dyld_libfuncs.c).                                                 *)
(*                                                                         *)
(* Two locks are involved.  global_lock is a test-and-set word held for a  *)
(* few instructions; dyld_lock with thread_that_has_dyld_lock is the lock  *)
(* proper, inspected and changed under global_lock.  The debug thread and  *)
(* an external debugger read them, and suspend threads, without taking     *)
(* global_lock, so every store that they can see is a step of its own.     *)
(*                                                                         *)
(* A thread knows itself by the port dyld_mach_thread_self() returns,      *)
(* which is cached by the page its stack is on.                            *)
(***************************************************************************)
EXTENDS Naturals, FiniteSets

CONSTANTS Threads,          \* the threads of the program
          DebugThread,      \* the thread an external debugger starts in it
          NoThread,         \* MACH_PORT_NULL
          Stacks,           \* the stacks threads can be given
          Depths,           \* the pages of one stack that calls are made from
          NoStack,
          StacksRecycled,   \* may a new thread get the stack of a finished one?
          Handlers          \* the error handlers the program has installed

AllThreads == Threads \cup {DebugThread}

ASSUME ThreadsAssumption == /\ DebugThread \notin Threads
                            /\ NoThread \notin AllThreads
ASSUME StacksAssumption == /\ NoStack \notin Stacks
                           /\ StacksRecycled \in BOOLEAN
ASSUME HandlersAssumption == Handlers \subseteq {"multiple", "linkEdit"}

VARIABLES
  globalLock,       \* global_lock
  dyldLock,         \* dyld_lock
  owner,            \* thread_that_has_dyld_lock
  cache,            \* cached_thread, and cached_stack as a page
  mdHandler,        \* lock_in_multiply_defined_handler
  leHandler,        \* lock_in_linkedit_error_handler
  returnOnError,    \* return_on_error
  waiting,          \* debug_thread_waiting_for_lock
  suspendCount,     \* the kernel's suspend count of each thread
  taskSuspended,    \* the kernel's suspend count of the whole task
  stack,            \* the stack each thread runs on
  pc,               \* the next step of each thread
  ctx,              \* which user code a thread that has the lock is running
  me                \* my_thread, the local of the lock functions

lockVars   == <<globalLock, dyldLock, owner, cache>>
flagVars   == <<mdHandler, leHandler, returnOnError>>
debugVars  == <<waiting, suspendCount, taskSuspended>>
threadVars == <<stack, pc, ctx, me>>
vars == <<lockVars, flagVars, debugVars, threadVars>>

SetPcs == {"setSelf", "setId", "setSpin", "setCheck", "setRetry", "setTest",
           "setTake", "setClear"}
OrPcs  == {"orSelf", "orId", "orSpin", "orCheck"}
RelPcs == {"relSelf", "relId", "relSpin", "relOwner", "relFlag", "relClear",
           "relWait", "relSuspend"}
Pcs == {"unborn", "out", "inside", "peek", "killed", "hung", "exited", "gone"}
         \cup SetPcs \cup OrPcs \cup RelPcs

Pages  == Stacks \X Depths
NoPage == <<NoStack, NoStack>>

TypeOK ==
  /\ globalLock \in BOOLEAN
  /\ dyldLock \in BOOLEAN
  /\ owner \in AllThreads \cup {NoThread}
  /\ cache \in [thread : AllThreads \cup {NoThread},
                page : Pages \cup {NoPage}]
  /\ mdHandler \in BOOLEAN
  /\ leHandler \in BOOLEAN
  /\ returnOnError \in BOOLEAN
  /\ waiting \in BOOLEAN
  /\ suspendCount \in [AllThreads -> Nat]
  /\ taskSuspended \in Nat
  /\ stack \in [AllThreads -> Stacks \cup {NoStack}]
  /\ pc \in [AllThreads -> Pcs]
  /\ ctx \in [AllThreads -> {"user", "mdh", "leh"}]
  /\ me \in [AllThreads -> AllThreads \cup {NoThread}]

Live(t) == pc[t] \notin {"unborn", "exited", "gone"}

\* dead_lock_error() has ended the process.
Halted == \E t \in AllThreads : pc[t] = "killed"

\* The kernel may run thread t.
Runnable(t) ==
  Live(t) /\ suspendCount[t] = 0 /\ taskSuspended = 0 /\ ~Halted

Goto(t, label) == pc' = [pc EXCEPT ![t] = label]

\* A lock function ends: its local my_thread goes with it.
Leave(t, label) == Goto(t, label) /\ me' = [me EXCEPT ![t] = NoThread]

\* thread_suspend(port); a port of no live thread makes it fail.
Suspend(port) ==
  suspendCount' = IF port \in AllThreads /\ Live(port)
                    THEN [suspendCount EXCEPT ![port] = @ + 1]
                    ELSE suspendCount

\* while(try_to_get_lock(global_lock) == FALSE) yield(...);
Grab(t, from, to) ==
  /\ pc[t] = from
  /\ ~globalLock
  /\ globalLock' = TRUE
  /\ Goto(t, to)
  /\ UNCHANGED <<dyldLock, owner, cache, flagVars, debugVars, stack, ctx, me>>

\* Mutant of Resolve: the stack's address is cached instead of its page.
ResolveUnmasked(t) ==
  /\ me' = [me EXCEPT ![t] = IF cache.page = stack[t] THEN cache.thread ELSE t]
  /\ cache' = [thread |-> me'[t], page |-> stack[t]]
  /\ globalLock' = FALSE
  /\ UNCHANGED <<dyldLock, owner, mdHandler, leHandler, debugVars, stack, ctx>>

\* Mutant of Resolve: the cached port is returned whatever the stack.
ResolveAnyStack(t) ==
  /\ \E d \in Depths :
       LET here == <<stack[t], d>>
       IN IF cache.page # NoPage
            THEN me' = [me EXCEPT ![t] = cache.thread] /\ UNCHANGED cache
            ELSE /\ me' = [me EXCEPT ![t] = t]
                 /\ cache' = [thread |-> t, page |-> here]
  /\ globalLock' = FALSE
  /\ UNCHANGED <<dyldLock, owner, mdHandler, leHandler, debugVars, stack, ctx>>

\* The body of dyld_mach_thread_self(), under global_lock: the cached port if
\* this call is made from the cached page, else the thread's own port, cached.
Resolve(t) ==
  /\ \E d \in Depths :
       LET here == <<stack[t], d>>
       IN \/ /\ cache.page = here
             /\ me' = [me EXCEPT ![t] = cache.thread]
             /\ UNCHANGED cache
          \/ /\ cache.page # here
             /\ me' = [me EXCEPT ![t] = t]
             /\ cache' = [thread |-> t, page |-> here]
  /\ globalLock' = FALSE
  /\ UNCHANGED <<dyldLock, owner, mdHandler, leHandler, debugVars, stack, ctx>>

Init ==
  /\ globalLock = FALSE
  /\ dyldLock = FALSE
  /\ owner = NoThread
  /\ cache = [thread |-> NoThread, page |-> NoPage]
  /\ mdHandler = FALSE
  /\ leHandler = FALSE
  /\ returnOnError = FALSE
  /\ waiting = FALSE
  /\ suspendCount = [t \in AllThreads |-> 0]
  /\ taskSuspended = 0
  /\ stack = [t \in AllThreads |-> NoStack]
  /\ pc = [t \in AllThreads |-> "unborn"]
  /\ ctx = [t \in AllThreads |-> "user"]
  /\ me = [t \in AllThreads |-> NoThread]
-----------------------------------------------------------------------------
(* Threads come and go; a finished thread's stack may be given to a new one. *)

StackIsFree(s) ==
  \A u \in AllThreads :
    stack[u] = s => StacksRecycled /\ pc[u] \in {"exited", "gone"}

ThreadStart(t) ==
  /\ pc[t] = "unborn"
  /\ ~Halted
  /\ \E s \in Stacks : StackIsFree(s) /\ stack' = [stack EXCEPT ![t] = s]
  /\ Goto(t, "out")
  /\ UNCHANGED <<lockVars, flagVars, debugVars, ctx, me>>

ThreadExit(t) ==
  /\ pc[t] = "out"
  /\ ctx[t] = "user"
  /\ Goto(t, "exited")
  /\ UNCHANGED <<lockVars, flagVars, debugVars, stack, ctx, me>>
-----------------------------------------------------------------------------
(* set_lock() *)

CallSetLock(t) ==
  /\ pc[t] = "out"
  /\ Goto(t, "setSelf")
  /\ UNCHANGED <<lockVars, flagVars, debugVars, stack, ctx, me>>

\* The debug thread does nothing more: the program's threads are suspended.
SetResolve(t) ==
  /\ pc[t] = "setId"
  /\ Resolve(t)
  /\ Goto(t, IF me'[t] = DebugThread THEN "inside" ELSE "setSpin")
  /\ UNCHANGED returnOnError

\* Mutant of DeadLockError: a set lock is taken for a dead lock.
DeadLockWhenBusy(t) ==
  /\ pc[t] = "setCheck"
  /\ dyldLock
  /\ \E end \in {"killed", "hung"} : Goto(t, end)
  /\ UNCHANGED <<lockVars, flagVars, debugVars, stack, ctx, me>>

\* dead_lock_error(): exit, or hang when DYLD_DEAD_LOCK_HANG is set; either
\* way global_lock stays taken.
DeadLockError(t) ==
  /\ pc[t] = "setCheck"
  /\ owner = me[t]
  /\ \E end \in {"killed", "hung"} : Goto(t, end)
  /\ UNCHANGED <<lockVars, flagVars, debugVars, stack, ctx, me>>

\* Mutant of SetOwner: dyld_lock is not tested again after the wait.
SetOwnerUntested(t) ==
  /\ \/ pc[t] = "setCheck" /\ owner # me[t] /\ ~dyldLock
     \/ pc[t] = "setTest"
  /\ owner' = me[t]
  /\ Goto(t, "setTake")
  /\ UNCHANGED <<globalLock, dyldLock, cache, flagVars, debugVars, stack, ctx, me>>

\* dyld_lock is free: the owner is stored first, dyld_lock after it.
SetOwner(t) ==
  /\ \/ pc[t] = "setCheck" /\ owner # me[t]
     \/ pc[t] = "setTest"
  /\ ~dyldLock
  /\ owner' = me[t]
  /\ Goto(t, "setTake")
  /\ UNCHANGED <<globalLock, dyldLock, cache, flagVars, debugVars, stack, ctx, me>>

\* Mutant of SetBusy: dyld_lock is tested before the owner.
SetBusyFirst(t) ==
  /\ pc[t] \in {"setCheck", "setTest"}
  /\ dyldLock
  /\ globalLock' = FALSE
  /\ Goto(t, "setRetry")
  /\ UNCHANGED <<dyldLock, owner, cache, flagVars, debugVars, stack, ctx, me>>

\* Mutant of SetBusy: global_lock is kept while waiting.
SetBusyHolding(t) ==
  /\ \/ pc[t] = "setCheck" /\ owner # me[t]
     \/ pc[t] = "setTest"
  /\ dyldLock
  /\ Goto(t, "setRetry")
  /\ UNCHANGED <<lockVars, flagVars, debugVars, stack, ctx, me>>

SetBusy(t) ==
  /\ \/ pc[t] = "setCheck" /\ owner # me[t]
     \/ pc[t] = "setTest"
  /\ dyldLock
  /\ globalLock' = FALSE
  /\ Goto(t, "setRetry")
  /\ UNCHANGED <<dyldLock, owner, cache, flagVars, debugVars, stack, ctx, me>>

SetTake(t) ==
  /\ pc[t] = "setTake"
  /\ dyldLock' = TRUE
  /\ Goto(t, "setClear")
  /\ UNCHANGED <<globalLock, owner, cache, flagVars, debugVars, stack, ctx, me>>

SetClear(t) ==
  /\ pc[t] = "setClear"
  /\ globalLock' = FALSE
  /\ Leave(t, "inside")
  /\ UNCHANGED <<dyldLock, owner, cache, flagVars, debugVars, stack, ctx>>
-----------------------------------------------------------------------------
(* set_lock_or_in_multiply_defined_handler(), and the end of a call it let  *)
(* in without the lock.                                                     *)

CallSetLockOrInHandler(t) ==
  /\ pc[t] = "out"
  /\ Goto(t, "orSelf")
  /\ UNCHANGED <<lockVars, flagVars, debugVars, stack, ctx, me>>

OrResolve(t) ==
  /\ pc[t] = "orId"
  /\ Resolve(t)
  /\ Goto(t, IF me'[t] = DebugThread THEN "peek" ELSE "orSpin")
  /\ UNCHANGED returnOnError

\* Mutant of OrCheck: any thread is let in during the handler.
OrCheckAnyThread(t) ==
  /\ pc[t] = "orCheck"
  /\ globalLock' = FALSE
  /\ Leave(t, IF mdHandler THEN "peek" ELSE "setSelf")
  /\ UNCHANGED <<dyldLock, owner, cache, flagVars, debugVars, stack, ctx>>

OrCheck(t) ==
  /\ pc[t] = "orCheck"
  /\ globalLock' = FALSE
  /\ Leave(t, IF owner = me[t] /\ mdHandler THEN "peek" ELSE "setSelf")
  /\ UNCHANGED <<dyldLock, owner, cache, flagVars, debugVars, stack, ctx>>

EndPeek(t) ==
  /\ pc[t] = "peek"
  /\ Goto(t, "out")
  /\ UNCHANGED <<lockVars, flagVars, debugVars, stack, ctx, me>>
-----------------------------------------------------------------------------
(* What a thread does inside the dynamic linker. *)

\* link_module() and its like choose whether an error backs the operation out.
ChooseReturnOnError(t) ==
  /\ pc[t] = "inside"
  /\ ctx[t] = "user"
  /\ returnOnError' \in BOOLEAN
  /\ UNCHANGED <<lockVars, mdHandler, leHandler, debugVars, threadVars>>

\* Mutant of MultiplyDefinedEnter: the flag is set after the test for the
\* debug thread, as in linkedit_error_enter().
MultiplyDefinedEnterLate(t) ==
  /\ "multiple" \in Handlers
  /\ pc[t] = "inside"
  /\ ctx[t] = "user"
  /\ ~returnOnError
  /\ mdHandler' = (mdHandler \/ t = DebugThread)
  /\ ctx' = [ctx EXCEPT ![t] = "mdh"]
  /\ Goto(t, "out")
  /\ UNCHANGED <<lockVars, leHandler, returnOnError, debugVars, stack, me>>

\* multiply_defined_error() calls the user's handler with the lock taken.
\* multiply_defined_enter() suspends the caller only if it is the debug thread.
MultiplyDefinedEnter(t) ==
  /\ "multiple" \in Handlers
  /\ pc[t] = "inside"
  /\ ctx[t] = "user"
  /\ ~returnOnError
  /\ mdHandler' = TRUE
  /\ IF t = DebugThread /\ waiting THEN Suspend(t) ELSE UNCHANGED suspendCount
  /\ ctx' = [ctx EXCEPT ![t] = "mdh"]
  /\ Goto(t, "out")
  /\ UNCHANGED <<lockVars, leHandler, returnOnError, waiting, taskSuspended,
                 stack, me>>

MultiplyDefinedExit(t) ==
  /\ pc[t] = "out"
  /\ ctx[t] = "mdh"
  /\ mdHandler' = FALSE
  /\ ctx' = [ctx EXCEPT ![t] = "user"]
  /\ Goto(t, "inside")
  /\ UNCHANGED <<lockVars, leHandler, returnOnError, debugVars, stack, me>>

\* link_edit_error() calls the user's handler with the lock taken; the flag is
\* set by the debug thread alone and never cleared.
LinkEditErrorEnter(t) ==
  /\ "linkEdit" \in Handlers
  /\ pc[t] = "inside"
  /\ ctx[t] = "user"
  /\ ~returnOnError
  /\ leHandler' = (leHandler \/ t = DebugThread)
  /\ IF t = DebugThread /\ waiting THEN Suspend(t) ELSE UNCHANGED suspendCount
  /\ ctx' = [ctx EXCEPT ![t] = "leh"]
  /\ Goto(t, "out")
  /\ UNCHANGED <<lockVars, mdHandler, returnOnError, waiting, taskSuspended,
                 stack, me>>

\* The handler returned from an error that is not fatal.
LinkEditErrorReturn(t) ==
  /\ pc[t] = "out"
  /\ ctx[t] = "leh"
  /\ ctx' = [ctx EXCEPT ![t] = "user"]
  /\ Goto(t, "inside")
  /\ UNCHANGED <<lockVars, flagVars, debugVars, stack, me>>
-----------------------------------------------------------------------------
(* release_lock() *)

CallReleaseLock(t) ==
  /\ pc[t] = "inside"
  /\ ctx[t] = "user"
  /\ Goto(t, "relSelf")
  /\ UNCHANGED <<lockVars, flagVars, debugVars, stack, ctx, me>>

RelResolve(t) ==
  /\ pc[t] = "relId"
  /\ Resolve(t)
  /\ returnOnError' = FALSE
  /\ Goto(t, IF me'[t] = DebugThread THEN "out" ELSE "relSpin")

\* Mutant of RelOwner: thread_that_has_dyld_lock is not cleared.
RelOwnerKeeps(t) ==
  /\ pc[t] = "relOwner"
  /\ Goto(t, "relFlag")
  /\ UNCHANGED <<lockVars, flagVars, debugVars, stack, ctx, me>>

RelOwner(t) ==
  /\ pc[t] = "relOwner"
  /\ owner' = NoThread
  /\ Goto(t, "relFlag")
  /\ UNCHANGED <<globalLock, dyldLock, cache, flagVars, debugVars, stack, ctx, me>>

RelFlag(t) ==
  /\ pc[t] = "relFlag"
  /\ dyldLock' = FALSE
  /\ Goto(t, "relClear")
  /\ UNCHANGED <<globalLock, owner, cache, flagVars, debugVars, stack, ctx, me>>

RelClear(t) ==
  /\ pc[t] = "relClear"
  /\ globalLock' = FALSE
  /\ Goto(t, "relWait")
  /\ UNCHANGED <<dyldLock, owner, cache, flagVars, debugVars, stack, ctx, me>>

\* Mutant of RelWait: the thread goes on although the debug thread waits.
RelWaitGoesOn(t) ==
  /\ pc[t] = "relWait"
  /\ Leave(t, "out")
  /\ UNCHANGED <<lockVars, flagVars, debugVars, stack, ctx>>

\* Is the debug thread waiting for the lock?  If so suspend my_thread.
RelWait(t) ==
  /\ pc[t] = "relWait"
  /\ IF waiting /\ me[t] # DebugThread
       THEN Goto(t, "relSuspend") /\ UNCHANGED me
       ELSE Leave(t, "out")
  /\ UNCHANGED <<lockVars, flagVars, debugVars, stack, ctx>>

RelSuspend(t) ==
  /\ pc[t] = "relSuspend"
  /\ Suspend(me[t])
  /\ Leave(t, "out")
  /\ UNCHANGED <<lockVars, flagVars, waiting, taskSuspended, stack, ctx>>
-----------------------------------------------------------------------------
(* fork(2): _dyld_fork_prepare() is set_lock() and _dyld_fork_parent() is   *)
(* release_lock(), so on the parent's side a fork is one more dyld call.    *)
(* The model follows the child from here on: a copy of the memory with the  *)
(* forking thread alone, in which _dyld_fork_child() forgets the cached     *)
(* port, clears global_lock and goes on in release_lock();                  *)
(* _dyld_fork_child_final() is one more set_lock() and release_lock().      *)

\* Mutant of ForkChild: the child keeps the global_lock it inherits.
ForkChildLocked(t) ==
  /\ pc[t] = "inside"
  /\ ctx[t] = "user"
  /\ ~returnOnError
  /\ pc' = [u \in AllThreads |-> IF u = t THEN "relSelf"
                                 ELSE IF pc[u] = "unborn" THEN "unborn"
                                 ELSE "gone"]
  /\ ctx' = [u \in AllThreads |-> "user"]
  /\ me' = [u \in AllThreads |-> NoThread]
  /\ cache' = [thread |-> NoThread, page |-> NoPage]
  /\ UNCHANGED <<globalLock, dyldLock, owner, flagVars, debugVars, stack>>

\* A thread that chose return_on_error is in link_module(), not in fork().
ForkChild(t) ==
  /\ pc[t] = "inside"
  /\ ctx[t] = "user"
  /\ ~returnOnError
  /\ pc' = [u \in AllThreads |-> IF u = t THEN "relSelf"
                                 ELSE IF pc[u] = "unborn" THEN "unborn"
                                 ELSE "gone"]
  /\ ctx' = [u \in AllThreads |-> "user"]
  /\ me' = [u \in AllThreads |-> NoThread]
  /\ cache' = [thread |-> NoThread, page |-> NoPage]
  /\ globalLock' = FALSE
  /\ UNCHANGED <<dyldLock, owner, flagVars, debugVars, stack>>
-----------------------------------------------------------------------------
(* The steps of a thread that spin on global_lock, the others it takes      *)
(* inside the lock functions, and those that user code or the operation     *)
(* under way decide.                                                        *)

GrabStep(t) == \/ Grab(t, "setSelf", "setId")
               \/ Grab(t, "setSpin", "setCheck")
               \/ Grab(t, "setRetry", "setTest")
               \/ Grab(t, "orSelf", "orId")
               \/ Grab(t, "orSpin", "orCheck")
               \/ Grab(t, "relSelf", "relId")
               \/ Grab(t, "relSpin", "relOwner")

\* A try that fails: the thread yields and tries again.
SpinOnGlobalLock(t) ==
  /\ pc[t] \in {"setSelf", "setSpin", "setRetry", "orSelf", "orSpin", "relSelf",
               "relSpin"}
  /\ globalLock
  /\ UNCHANGED vars

LockStep(t) == \/ SetResolve(t) \/ DeadLockError(t) \/ SetOwner(t)
               \/ SetBusy(t) \/ SetTake(t) \/ SetClear(t)
               \/ OrResolve(t) \/ OrCheck(t)
               \/ RelResolve(t) \/ RelOwner(t) \/ RelFlag(t) \/ RelClear(t)
               \/ RelWait(t) \/ RelSuspend(t)
               \/ EndPeek(t)

HandlerReturn(t) == MultiplyDefinedExit(t) \/ LinkEditErrorReturn(t)

UserStep(t) == \/ CallSetLock(t) \/ CallSetLockOrInHandler(t)
               \/ ChooseReturnOnError(t) \/ MultiplyDefinedEnter(t)
               \/ LinkEditErrorEnter(t)

ThreadStep(t) ==
  /\ Runnable(t)
  /\ \/ GrabStep(t) \/ SpinOnGlobalLock(t) \/ LockStep(t) \/ UserStep(t)
     \/ HandlerReturn(t) \/ CallReleaseLock(t)

LifeStep(t) ==
  ThreadStart(t) \/ (Runnable(t) /\ (ThreadExit(t) \/ ForkChild(t)))

\* Nothing is left to run: the process was killed, or dead_lock_error() hangs
\* in it for(;;), or its threads have finished.
Stopped == /\ \/ \E t \in AllThreads : pc[t] \in {"killed", "hung"}
              \/ \A t \in AllThreads : ~Live(t)
           /\ UNCHANGED vars

Next == \/ \E t \in Threads : ThreadStep(t) \/ LifeStep(t)
        \/ Stopped

Spec == Init /\ [][Next]_vars

(* A runnable thread is given the processor, and takes the next step of a   *)
(* lock function.  What it does inside the dynamic linker ends, since the   *)
(* errors of one operation are finitely many, and so does a user's handler. *)
(* A thread spinning on global_lock yields between tries (lock.c, yield()), *)
(* so it does not miss forever a lock that is free again and again.         *)
ThreadFairness(t) ==
  /\ WF_vars(Runnable(t) /\ LockStep(t))
  /\ SF_vars(Runnable(t) /\ GrabStep(t))
  /\ SF_vars(Runnable(t) /\ HandlerReturn(t))
  /\ SF_vars(Runnable(t) /\ CallReleaseLock(t))

FairSpec == Spec /\ \A t \in Threads : ThreadFairness(t)
-----------------------------------------------------------------------------
(* Where a thread of the program stands. *)

\* Between set_lock() storing TRUE in dyld_lock and release_lock() storing
\* FALSE: t may read and change dyld's data.
Holds(t) == \/ ctx[t] # "user"
            \/ pc[t] \in {"setClear", "inside", "relSelf", "relId", "relSpin",
                          "relOwner", "relFlag"}

InGlobal(t) == pc[t] \in {"setId", "setCheck", "setTest", "setTake", "setClear",
                          "orId", "orCheck", "relId", "relOwner", "relFlag",
                          "relClear", "killed", "hung"}

Waits(t) == pc[t] \in SetPcs /\ ~Holds(t)

PhaseOf(t) == IF pc[t] \in {"killed", "hung"} THEN "killed"
              ELSE IF Holds(t) THEN "in"
              ELSE IF Waits(t) THEN "waiting"
              ELSE "out"

Promise == INSTANCE LinkEditLock
             WITH phase <- [t \in Threads |-> PhaseOf(t)]
-----------------------------------------------------------------------------
(* Two threads are never both inside the dynamic linker with the right to   *)
(* change its data: "Only one thread may be executing in the dynamic        *)
(* linker" (set_lock).                                                      *)
MutualExclusion ==
  \A t, u \in Threads : Holds(t) /\ Holds(u) => t = u

(* What a reader that takes no lock may rely on: while dyld_lock is set,    *)
(* thread_that_has_dyld_lock is the thread inside, or MACH_PORT_NULL while  *)
(* that thread is unlocking (dyld/notes, the 143 release).                  *)
OwnerIsHolder ==
  dyldLock => \E t \in Threads :
                Holds(t) /\ (owner = t \/ (owner = NoThread /\ pc[t] = "relFlag"))

(* The error handlers cannot wait for the lock their own thread holds: a    *)
(* call to the dynamic linker from one of them ends the process instead     *)
(* (set_lock: "we detect the dead lock and he is killed").                  *)
ReentryIsDetected ==
  \A t \in Threads : Holds(t) => pc[t] \notin {"setRetry", "setTest", "setTake"}

(* dead_lock_error() ends a process only when a thread asked for the lock   *)
(* from one of its own error handlers, never because another thread's port  *)
(* was mistaken for its own.                                                *)
KilledOnlyOnReentry ==
  \A t \in Threads : pc[t] \in {"killed", "hung"} => ctx[t] # "user"

(* A call let in without the lock runs in the handler of the thread that    *)
(* has it, so nobody changes the data it reads.                             *)
PeekOnlyInHandler ==
  \A t \in Threads : pc[t] = "peek" => ctx[t] = "mdh" /\ mdHandler

(* A call that is "allowed ... from the user's multiply defined error        *)
(* handler" (NSNameOfSymbol, dyld_libfuncs.c) is let in from there: it is    *)
(* never sent to set_lock(), where its own thread's lock would stop it.      *)
AllowedCallGoesIn ==
  [][\A t \in Threads :
       pc[t] = "orCheck" /\ ctx[t] = "mdh" /\ pc'[t] # "orCheck"
         => pc'[t] = "peek"]_vars

(* A thread that leaves the dynamic linker gets the lock released, whoever  *)
(* competes for global_lock, in the child of a fork too.                    *)
ReleaseCompletes ==
  \A t \in Threads : pc[t] = "relSelf" ~> ~Holds(t)

(* A thread that waits for the lock gets it, or sees another one get it, over *)
(* and over: it is never all of them that wait, unless one was stopped for    *)
(* calling from its own handler.                                              *)
WaitersGetIn ==
  \A t \in Threads :
    Waits(t) ~> \/ ~Waits(t)
                \/ \E u \in Threads : pc[u] \in {"setTake", "killed", "hung"}

(* The lock as its callers see it. *)
KeepsPromise == Promise!Spec
-----------------------------------------------------------------------------
(* The invariant by which MutualExclusion and KilledOnlyOnReentry are       *)
(* proved.                                                                  *)

\* global_lock is held for every thread between its test-and-set and its
\* clearing, by one thread at a time; dyld_lock is held for the one inside.
LocksInv ==
  /\ \A t \in Threads : InGlobal(t) => globalLock
  /\ \A t, u \in Threads : InGlobal(t) /\ InGlobal(u) => t = u
  /\ \A t \in Threads : Holds(t) => dyldLock
  /\ \A t \in Threads : pc[t] = "setTake" => ~dyldLock
  /\ MutualExclusion

\* User code under a handler is outside, or calls in and is stopped there.
HandlerInv ==
  \A t \in Threads :
    ctx[t] # "user" => pc[t] \in {"out", "peek", "killed", "hung"} \cup OrPcs
                                  \cup (SetPcs \ {"setTake", "setClear"})

\* Threads that have not finished run on stacks of their own.
StacksInv ==
  /\ pc[DebugThread] = "unborn"
  /\ \A t \in Threads : IF pc[t] = "unborn" THEN stack[t] = NoStack
                                           ELSE stack[t] \in Stacks
  /\ \A t, u \in Threads :
       Live(t) /\ Live(u) /\ stack[t] = stack[u] => t = u

KnowsItself == {"setSpin", "setCheck", "setRetry", "setTest", "setTake",
                "orSpin", "orCheck", "relSpin", "relOwner", "relFlag",
                "relClear", "relWait", "relSuspend"}

\* The port a thread takes for its own, right or stale, is that of a thread
\* that was given the same stack.
IdentityInv ==
  /\ cache.page # NoPage => /\ cache.thread \in Threads
                            /\ stack[cache.thread] = cache.page[1]
  /\ \A t \in Threads :
       pc[t] \in KnowsItself => me[t] \in Threads /\ stack[me[t]] = stack[t]
  /\ \A t \in Threads : pc[t] = "relFlag" => owner = NoThread
  /\ owner # NoThread =>
       /\ owner \in Threads
       /\ \E h \in Threads : /\ Holds(h) \/ pc[h] = "setTake"
                            /\ stack[owner] = stack[h]

LockInv == /\ TypeOK
           /\ LocksInv
           /\ HandlerInv
           /\ StacksInv
           /\ IdentityInv
           /\ KilledOnlyOnReentry

(* What more holds when no stack is given to a second thread, so that no     *)
(* port that is cached or kept is another thread's.                          *)

OwnStacksInv ==
  \A t, u \in Threads : stack[t] = stack[u] /\ stack[t] # NoStack => t = u

\* thread_that_has_dyld_lock is stored before dyld_lock.
OwnerInv ==
  /\ OwnerIsHolder
  /\ \A t \in Threads : pc[t] = "setTake" => owner = t

\* lock_in_multiply_defined_handler is set while a thread is in that handler.
HandlerFlagInv ==
  /\ mdHandler <=> \E t \in Threads : ctx[t] = "mdh"
  /\ PeekOnlyInHandler

OwnPortsInv == /\ LockInv
               /\ OwnStacksInv
               /\ OwnerInv
               /\ HandlerFlagInv
               /\ ReentryIsDetected
=============================================================================
