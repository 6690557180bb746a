------------------------------ MODULE DebugStart ------------------------------
(***************************************************************************)
(* How the debug thread comes to be.  A debugger that finds no debug       *)
(* thread in a program (get_or_start_debug_thread(),                       *)
(* cctools/libdyld/debug.c) suspends the program's threads, creates a      *)
(* thread in it that runs start_debug_thread() (cctools/dyld/debug.c),     *)
(* polls the program's (__DATA,__dyld) section until the new thread has    *)
(* put its port there, and resumes the others.  Debuggers are separate     *)
(* tasks: nothing but the section and debug_thread_lock coordinates them.  *)
(*                                                                         *)
(* A port allocated by thread t is written as t.  Mach calls on live       *)
(* threads succeed; thread_suspend() and thread_resume() fail on a thread  *)
(* that has terminated.                                                    *)
(***************************************************************************)
EXTENDS Naturals, FiniteSets

CONSTANTS Debuggers,      \* the tasks that debug the program
          Threads,        \* the program's own threads
          Starters,       \* the threads debuggers create in it
          Null,           \* MACH_PORT_NULL
          HeldCount,      \* a debugger's own task_suspend() calls before these
          MaxCalls,       \* bound: calls each debugger makes
          PortsMayFail    \* may mach_port_allocate() fail?

ASSUME StartersAssumption == /\ IsFiniteSet(Debuggers)
                             /\ Starters \cap Threads = {}
                             /\ Null \notin Starters
                             /\ HeldCount \in Nat
                             /\ MaxCalls \in Nat
                             /\ PortsMayFail \in BOOLEAN

VARIABLES
  sectionThread,  \* (__DATA,__dyld), offset 16
  sectionPort,    \* (__DATA,__dyld), offset 12
  debugThread,    \* debug_thread
  debugPort,      \* debug_port
  debugLock,      \* debug_thread_lock
  taskSuspended,  \* the kernel's suspend count of the task
  suspendCount,   \* and of each thread
  tpc,            \* the next step of each created thread
  receives,       \* the port each debug thread receives from
  dpc,            \* the next step of each debugger
  calls,          \* how many calls it has made
  threads,        \* threads: those task_suspend_threads() found
  todo,           \* those of them still to be suspended or resumed
  taskResumed,    \* task_resumed
  found           \* did the last try find both fields set?

sectionVars == <<sectionThread, sectionPort>>
dyldVars    == <<debugThread, debugPort, debugLock, tpc, receives>>
kernelVars  == <<taskSuspended, suspendCount>>
callVars    == <<dpc, calls, threads, todo, taskResumed, found>>
vars == <<sectionVars, dyldVars, kernelVars, callVars>>

All == Threads \cup Starters

TPcs == {"unborn", "begin", "test", "setThread", "allocate", "setPort", "serve",
         "serving", "clear", "unset", "failed", "dead"}
DPcs == {"idle", "list", "suspend", "resumeTask", "start", "poll", "suspendTask",
         "resume", "done", "failed"}

TypeOK ==
  /\ sectionThread \in Starters \cup {Null}
  /\ sectionPort \in Starters \cup {Null}
  /\ debugThread \in Starters \cup {Null}
  /\ debugPort \in Starters \cup {Null}
  /\ debugLock \in BOOLEAN
  /\ taskSuspended \in Nat
  /\ suspendCount \in [All -> Nat]
  /\ tpc \in [Starters -> TPcs]
  /\ receives \in [Starters -> Starters \cup {Null}]
  /\ dpc \in [Debuggers -> DPcs]
  /\ calls \in [Debuggers -> 0..MaxCalls]
  /\ threads \in [Debuggers -> SUBSET All]
  /\ todo \in [Debuggers -> SUBSET All]
  /\ taskResumed \in [Debuggers -> BOOLEAN]
  /\ found \in [Debuggers -> BOOLEAN]

Exists(t) == t \in Threads \/ tpc[t] \notin {"unborn", "failed", "dead"}

Runnable(t) == Exists(t) /\ suspendCount[t] = 0 /\ taskSuspended = 0

SectionIsSet == sectionThread # Null /\ sectionPort # Null

\* A debugger such as gdb may have suspended the task before it calls.
Init ==
  /\ sectionThread = Null
  /\ sectionPort = Null
  /\ debugThread = Null
  /\ debugPort = Null
  /\ debugLock = FALSE
  /\ taskSuspended = HeldCount
  /\ suspendCount = [t \in All |-> 0]
  /\ tpc = [t \in Starters |-> "unborn"]
  /\ receives = [t \in Starters |-> Null]
  /\ dpc = [d \in Debuggers |-> "idle"]
  /\ calls = [d \in Debuggers |-> 0]
  /\ threads = [d \in Debuggers |-> {}]
  /\ todo = [d \in Debuggers |-> {}]
  /\ taskResumed = [d \in Debuggers |-> FALSE]
  /\ found = [d \in Debuggers |-> FALSE]
-----------------------------------------------------------------------------
(* get_or_start_debug_thread() *)

DGoto(d, label) == dpc' = [dpc EXCEPT ![d] = label]

\* The debug thread is there already, or one has to be started.
Look(d) ==
  /\ dpc[d] \in {"idle", "done", "failed"}
  /\ calls[d] < MaxCalls
  /\ calls' = [calls EXCEPT ![d] = @ + 1]
  /\ DGoto(d, IF SectionIsSet THEN "done" ELSE "list")
  /\ UNCHANGED <<sectionVars, dyldVars, kernelVars, threads, todo, taskResumed,
                 found>>

ListThreads(d) ==
  /\ dpc[d] = "list"
  /\ threads' = [threads EXCEPT ![d] = {t \in All : Exists(t)}]
  /\ todo' = [todo EXCEPT ![d] = threads'[d]]
  /\ DGoto(d, "suspend")
  /\ UNCHANGED <<sectionVars, dyldVars, kernelVars, calls, taskResumed, found>>

\* task_suspend_threads() gives up at a thread it cannot suspend.
SuspendThread(d) ==
  /\ dpc[d] = "suspend"
  /\ \E t \in todo[d] :
       IF Exists(t)
         THEN /\ suspendCount' = [suspendCount EXCEPT ![t] = @ + 1]
              /\ todo' = [todo EXCEPT ![d] = @ \ {t}]
              /\ DGoto(d, IF todo'[d] = {} THEN "resumeTask" ELSE "suspend")
         ELSE /\ todo' = [todo EXCEPT ![d] = {}]
              /\ DGoto(d, "failed")
              /\ UNCHANGED suspendCount
  /\ UNCHANGED <<sectionVars, dyldVars, taskSuspended, calls, threads,
                 taskResumed, found>>

\* Mutant of ResumeTask: the result of task_resume() is not looked at.
ResumeTaskUnchecked(d) ==
  /\ dpc[d] = "resumeTask"
  /\ taskResumed' = [taskResumed EXCEPT ![d] = TRUE]
  /\ taskSuspended' = taskSuspended - 1
  /\ DGoto(d, "start")
  /\ UNCHANGED <<sectionVars, dyldVars, suspendCount, calls, threads, todo, found>>

ResumeTask(d) ==
  /\ dpc[d] = "resumeTask"
  /\ taskResumed' = [taskResumed EXCEPT ![d] = taskSuspended > 0]
  /\ taskSuspended' = IF taskSuspended > 0 THEN taskSuspended - 1 ELSE 0
  /\ DGoto(d, "start")
  /\ UNCHANGED <<sectionVars, dyldVars, suspendCount, calls, threads, todo, found>>

\* Mutant of StartThread: the threads are listed again, the new one with them.
StartThreadRelists(d) ==
  /\ dpc[d] = "start"
  /\ \E t \in Starters : tpc[t] = "unborn" /\ tpc' = [tpc EXCEPT ![t] = "begin"]
  /\ threads' = [threads EXCEPT ![d] = {t \in All : Exists(t)'}]
  /\ DGoto(d, "poll")
  /\ UNCHANGED <<sectionVars, debugThread, debugPort, debugLock, receives,
                 kernelVars, calls, todo, taskResumed, found>>

\* thread_start()
StartThread(d) ==
  /\ dpc[d] = "start"
  /\ \E t \in Starters : tpc[t] = "unborn" /\ tpc' = [tpc EXCEPT ![t] = "begin"]
  /\ DGoto(d, "poll")
  /\ UNCHANGED <<sectionVars, debugThread, debugPort, debugLock, receives,
                 kernelVars, calls, threads, todo, taskResumed, found>>

\* A hundred tries outlast the steps of another debugger's call and of a
\* started thread that can run: they are used up only when all of them wait.
NoneStarting ==
  /\ \A t \in Starters : Runnable(t) => tpc[t] = "serving"
  /\ \A d \in Debuggers : dpc[d] \in {"idle", "poll", "done", "failed"}

Poll(d) ==
  /\ dpc[d] = "poll"
  /\ SectionIsSet \/ NoneStarting
  /\ found' = [found EXCEPT ![d] = SectionIsSet]
  /\ DGoto(d, "suspendTask")
  /\ UNCHANGED <<sectionVars, dyldVars, kernelVars, calls, threads, todo,
                 taskResumed>>

SuspendTask(d) ==
  /\ dpc[d] = "suspendTask"
  /\ taskSuspended' = IF taskResumed[d] THEN taskSuspended + 1 ELSE taskSuspended
  /\ todo' = [todo EXCEPT ![d] = threads[d]]
  /\ DGoto(d, "resume")
  /\ UNCHANGED <<sectionVars, dyldVars, suspendCount, calls, threads, taskResumed,
                 found>>

\* task_resume_threads() gives up at a thread it cannot resume.
ResumeThread(d) ==
  /\ dpc[d] = "resume"
  /\ \E t \in todo[d] :
       IF Exists(t) /\ suspendCount[t] > 0
         THEN /\ suspendCount' = [suspendCount EXCEPT ![t] = @ - 1]
              /\ todo' = [todo EXCEPT ![d] = @ \ {t}]
              /\ DGoto(d, IF todo'[d] # {} THEN "resume"
                          ELSE IF found[d] THEN "done" ELSE "failed")
         ELSE /\ todo' = [todo EXCEPT ![d] = {}]
              /\ DGoto(d, "failed")
              /\ UNCHANGED suspendCount
  /\ threads' = [threads EXCEPT ![d] = IF todo'[d] = {} THEN {} ELSE @]
  /\ UNCHANGED <<sectionVars, dyldVars, taskSuspended, calls, taskResumed, found>>
-----------------------------------------------------------------------------
(* start_debug_thread(), in the created thread *)

TGoto(t, label) == tpc' = [tpc EXCEPT ![t] = label]

SetDebugThread(t) ==
  /\ tpc[t] = "begin"
  /\ debugThread' = t
  /\ TGoto(t, "test")
  /\ UNCHANGED <<sectionVars, debugPort, debugLock, receives, kernelVars, callVars>>

\* Mutant of TestLock: the lock is taken, as the comment on it has it.
TestAndSetLock(t) ==
  /\ tpc[t] = "test"
  /\ TGoto(t, IF debugLock THEN "dead" ELSE "setThread")
  /\ debugLock' = TRUE
  /\ UNCHANGED <<sectionVars, debugThread, debugPort, receives, kernelVars,
                 callVars>>

\* lock_is_set() reads the lock, and nothing in dyld ever takes it.
TestLock(t) ==
  /\ tpc[t] = "test"
  /\ TGoto(t, IF debugLock THEN "dead" ELSE "setThread")
  /\ UNCHANGED <<sectionVars, debugThread, debugPort, debugLock, receives,
                 kernelVars, callVars>>

\* set_dyld_data(16, debug_thread) reads the variable again.
SetSectionThread(t) ==
  /\ tpc[t] = "setThread"
  /\ sectionThread' = debugThread
  /\ TGoto(t, "allocate")
  /\ UNCHANGED <<sectionPort, debugThread, debugPort, debugLock, receives,
                 kernelVars, callVars>>

AllocatePort(t) ==
  /\ tpc[t] = "allocate"
  /\ \/ debugPort' = t /\ TGoto(t, "setPort")
     \/ PortsMayFail /\ TGoto(t, "clear") /\ UNCHANGED debugPort
  /\ UNCHANGED <<sectionVars, debugThread, debugLock, receives, kernelVars,
                 callVars>>

\* set_dyld_data(12, debug_port)
SetSectionPort(t) ==
  /\ tpc[t] = "setPort"
  /\ sectionPort' = debugPort
  /\ TGoto(t, "serve")
  /\ UNCHANGED <<sectionThread, debugThread, debugPort, debugLock, receives,
                 kernelVars, callVars>>

\* server_loop() waits for its first message.
Serve(t) ==
  /\ tpc[t] = "serve"
  /\ receives' = [receives EXCEPT ![t] = debugPort]
  /\ TGoto(t, "serving")
  /\ UNCHANGED <<sectionVars, debugThread, debugPort, debugLock, kernelVars,
                 callVars>>

\* No port: the lock is cleared, then the section, and the thread ends.
ClearLock(t) ==
  /\ tpc[t] = "clear"
  /\ debugLock' = FALSE
  /\ TGoto(t, "unset")
  /\ UNCHANGED <<sectionVars, debugThread, debugPort, receives, kernelVars,
                 callVars>>

\* Mutant of UnsetSection: only dyld's own variable is reset.
UnsetDebugThread(t) ==
  /\ tpc[t] = "unset"
  /\ debugThread' = Null
  /\ TGoto(t, "failed")
  /\ UNCHANGED <<sectionVars, debugPort, debugLock, receives, kernelVars, callVars>>

UnsetSection(t) ==
  /\ tpc[t] = "unset"
  /\ sectionThread' = Null
  /\ TGoto(t, "failed")
  /\ UNCHANGED <<sectionPort, debugThread, debugPort, debugLock, receives,
                 kernelVars, callVars>>
-----------------------------------------------------------------------------
CallStep(d) == \/ ListThreads(d) \/ SuspendThread(d) \/ ResumeTask(d)
               \/ StartThread(d) \/ Poll(d) \/ SuspendTask(d) \/ ResumeThread(d)

StarterStep(t) == /\ Runnable(t)
                  /\ \/ SetDebugThread(t) \/ TestLock(t) \/ SetSectionThread(t)
                     \/ AllocatePort(t) \/ SetSectionPort(t) \/ Serve(t)
                     \/ ClearLock(t) \/ UnsetSection(t)

AllCalled == \A d \in Debuggers : dpc[d] \in {"idle", "done", "failed"}

\* No debugger calls again and the threads they started wait for messages.
Finished == AllCalled /\ UNCHANGED vars

Next == \/ \E d \in Debuggers : Look(d) \/ CallStep(d)
        \/ \E t \in Starters : StarterStep(t)
        \/ Finished

Spec == Init /\ [][Next]_vars

\* A debugger need not call; the kernel runs those that do, and the created
\* threads that are not suspended.
FairSpec == /\ Spec
            /\ \A d \in Debuggers : WF_vars(CallStep(d))
            /\ \A t \in Starters : WF_vars(StarterStep(t))
-----------------------------------------------------------------------------
\* One debugger at most has called so far.
Alone == \A d, e \in Debuggers : calls[d] > 0 /\ calls[e] > 0 => d = e

\* Every created thread that needed a port got it.
NoneFailed == \A t \in Starters : tpc[t] \notin {"clear", "unset", "failed"}

(* Debuggers that start the debug thread at the same time suspend each      *)
(* other's new threads too, and resume them, and may resume and suspend the *)
(* task: when all are done no thread is left suspended and the task is as   *)
(* it was, whatever order they came in.  A failed start of one debugger     *)
(* leaves everything so, too, but not under the eyes of another.            *)
StartKeepsCounts ==
  AllCalled /\ (Alone \/ NoneFailed)
    => /\ taskSuspended = HeldCount
       /\ \A t \in All : Exists(t) => suspendCount[t] = 0

(* A call that polls for a debug thread finds one, its own or another's,    *)
(* unless a created thread gets no port: no debugger keeps every new thread *)
(* suspended until the tries are used up, and none ends for another's sake. *)
EveryCallFindsAServer ==
  \A d \in Debuggers : dpc[d] = "poll" ~> dpc[d] = "done" \/ ~NoneFailed

(* A start that failed leaves no debug thread to be found: what the section *)
(* names has not terminated.                                                *)
NoDeadThreadFound ==
  Alone /\ sectionThread # Null => tpc[sectionThread] \notin {"failed", "dead"}

(* The section tells other tasks "which thread to not suspend in the task   *)
(* when sending it a message" (start_debug_thread): the one that receives   *)
(* from the port the section has with it.                                   *)
SectionNamesServer ==
  (AllCalled /\ SectionIsSet /\ \A t \in Starters : Exists(t) => tpc[t] = "serving")
    => receives[sectionThread] = sectionPort
=============================================================================
