------------------------------ MODULE DyldDebug ------------------------------
(***************************************************************************)
(* dyld's debug interface around its lock.  Debuggers in other tasks call  *)
(* _dyld_debug_make_runnable() (cctools/libdyld/debug.c) to leave the      *)
(* debug thread as the only runnable thread of the program, send it a      *)
(* request and call _dyld_debug_restore_runnable().  The debug thread's    *)
(* server_loop() (cctools/dyld/debug.c) first lets a thread that is inside *)
(* the dynamic linker run until it releases dyld_lock, then serves.        *)
(*                                                                         *)
(* The program's threads, and the debug thread when it binds a module,     *)
(* take the steps of DyldLock.  The debug thread is taken to be started    *)
(* already, and the program's threads to be there from the beginning.      *)
(***************************************************************************)
EXTENDS DyldLock, Sequences

CONSTANTS Clients,          \* the debuggers
          Requests,         \* "query", a read of dyld's data, and "bind"
          MaxRequests,      \* bound: requests each of them makes
          Timeouts,         \* may a request time out? (rcv_timeout)
          SleepLongEnough,  \* is usleep(20000) longer than the end of release_lock()?
          StackOf           \* the stack each thread runs on

ASSUME ClientsAssumption == /\ Requests \subseteq {"query", "bind"}
                            /\ MaxRequests \in Nat
                            /\ Timeouts \in BOOLEAN
                            /\ SleepLongEnough \in BOOLEAN
                            /\ StackOf \in [AllThreads -> Stacks]
                            /\ \A t, u \in AllThreads : StackOf[t] = StackOf[u] => t = u

VARIABLES
  cpc,            \* the next step of each debugger
  asked,          \* how many requests each has made
  todo,           \* the threads it still has to suspend or to resume
  threads,        \* state->threads: the threads it found
  debugResumes,   \* state->debug_thread_resume_count
  taskResumes,    \* state->task_resume_count
  port,           \* the messages in debug_port
  spc,            \* the next step of server_loop()
  request,        \* the message it serves
  resumed,        \* resumed_thread
  resumeCount,    \* resume_count
  left            \* suspend_count: thread_resume()s still to be made

clientVars == <<cpc, asked, todo, threads, debugResumes, taskResumes>>
serverVars == <<spc, request, resumed, resumeCount, left>>
dvars == <<vars, clientVars, serverVars, port>>

None == [client |-> NoThread, kind |-> "none"]
Messages == [client : Clients, kind : Requests]

ClientPcs == {"idle", "list", "suspend", "resumeDebug", "resumeTask", "resumeMore",
              "send", "rpc", "answered", "restore", "resume", "failed"}
ServerPcs == {"receive", "check", "info", "capture", "resume", "spin", "count",
              "sleep", "suspend", "cantUnlock", "serve", "reading", "binding",
              "reply"}

DTypeOK ==
  /\ TypeOK
  /\ cpc \in [Clients -> ClientPcs]
  /\ asked \in [Clients -> 0..MaxRequests]
  /\ todo \in [Clients -> SUBSET AllThreads]
  /\ threads \in [Clients -> SUBSET AllThreads]
  /\ debugResumes \in [Clients -> Nat]
  /\ taskResumes \in [Clients -> Nat]
  /\ port \in Seq(Messages)
  /\ spc \in ServerPcs
  /\ request \in Messages \cup {None}
  /\ resumed \in AllThreads \cup {NoThread}
  /\ resumeCount \in Nat
  /\ left \in Nat

DInit ==
  /\ globalLock = FALSE
  /\ dyldLock = FALSE
  /\ owner = NoThread
  /\ cache = [thread |-> NoThread, page |-> NoPage]
  /\ mdHandler = FALSE
  /\ leHandler = FALSE
  /\ returnOnError = FALSE
  /\ waiting = FALSE
  /\ suspendCount = [t \in AllThreads |-> 0]
  /\ taskSuspended = 0
  /\ stack = StackOf
  /\ pc = [t \in AllThreads |-> "out"]
  /\ ctx = [t \in AllThreads |-> "user"]
  /\ me = [t \in AllThreads |-> NoThread]
  /\ cpc = [c \in Clients |-> "idle"]
  /\ asked = [c \in Clients |-> 0]
  /\ todo = [c \in Clients |-> {}]
  /\ threads = [c \in Clients |-> {}]
  /\ debugResumes = [c \in Clients |-> 0]
  /\ taskResumes = [c \in Clients |-> 0]
  /\ port = << >>
  /\ spc = "receive"
  /\ request = None
  /\ resumed = NoThread
  /\ resumeCount = 0
  /\ left = 0
-----------------------------------------------------------------------------
(* _dyld_debug_make_runnable() *)

CGoto(c, label) == cpc' = [cpc EXCEPT ![c] = label]

\* What a debugger's steps on the program's threads leave alone.
ProgramUnchanged == UNCHANGED <<lockVars, flagVars, waiting, threadVars>>

SuspendTask(c) ==
  /\ cpc[c] = "idle"
  /\ asked[c] < MaxRequests
  /\ asked' = [asked EXCEPT ![c] = @ + 1]
  /\ taskSuspended' = taskSuspended + 1
  /\ CGoto(c, "list")
  /\ ProgramUnchanged
  /\ UNCHANGED <<suspendCount, todo, threads, debugResumes, taskResumes,
                 serverVars, port>>

ListThreads(c) ==
  /\ cpc[c] = "list"
  /\ threads' = [threads EXCEPT ![c] = {t \in AllThreads : Live(t)}]
  /\ todo' = [todo EXCEPT ![c] = threads'[c] \ {DebugThread}]
  /\ CGoto(c, "suspend")
  /\ ProgramUnchanged
  /\ UNCHANGED <<suspendCount, taskSuspended, asked, debugResumes, taskResumes,
                 serverVars, port>>

SuspendThread(c) ==
  /\ cpc[c] = "suspend"
  /\ \E t \in todo[c] :
       /\ Suspend(t)
       /\ todo' = [todo EXCEPT ![c] = @ \ {t}]
  /\ CGoto(c, IF todo'[c] = {} THEN "resumeDebug" ELSE "suspend")
  /\ ProgramUnchanged
  /\ UNCHANGED <<taskSuspended, asked, threads, debugResumes, taskResumes,
                 serverVars, port>>

ResumeDebugThread(c) ==
  /\ cpc[c] = "resumeDebug"
  /\ debugResumes' = [debugResumes EXCEPT ![c] = suspendCount[DebugThread]]
  /\ suspendCount' = [suspendCount EXCEPT ![DebugThread] = 0]
  /\ CGoto(c, "resumeTask")
  /\ ProgramUnchanged
  /\ UNCHANGED <<taskSuspended, asked, todo, threads, taskResumes, serverVars,
                 port>>

\* task_resume(); one that fails makes the call fail with the threads left as
\* they are.
ResumeTask(c) ==
  /\ cpc[c] = "resumeTask"
  /\ IF taskSuspended > 0
       THEN /\ taskSuspended' = taskSuspended - 1
            /\ taskResumes' = [taskResumes EXCEPT ![c] = 0]
            /\ CGoto(c, "resumeMore")
       ELSE CGoto(c, "failed") /\ UNCHANGED <<taskSuspended, taskResumes>>
  /\ ProgramUnchanged
  /\ UNCHANGED <<suspendCount, asked, todo, threads, debugResumes, serverVars,
                 port>>

\* task_resume() again until it fails, counting
ResumeTaskMore(c) ==
  /\ cpc[c] = "resumeMore"
  /\ IF taskSuspended > 0
       THEN /\ taskSuspended' = taskSuspended - 1
            /\ taskResumes' = [taskResumes EXCEPT ![c] = @ + 1]
            /\ UNCHANGED cpc
       ELSE CGoto(c, "send") /\ UNCHANGED <<taskSuspended, taskResumes>>
  /\ ProgramUnchanged
  /\ UNCHANGED <<suspendCount, asked, todo, threads, debugResumes, serverVars,
                 port>>
-----------------------------------------------------------------------------
(* The request, and _dyld_debug_restore_runnable() *)

SendRequest(c) ==
  /\ cpc[c] = "send"
  /\ \E k \in Requests : port' = Append(port, [client |-> c, kind |-> k])
  /\ CGoto(c, "rpc")
  /\ UNCHANGED <<vars, asked, todo, threads, debugResumes, taskResumes,
                 serverVars>>

\* The reply does not come in time.  The request stays in debug_port.
TimeOut(c) ==
  /\ Timeouts
  /\ cpc[c] = "rpc"
  /\ CGoto(c, "answered")
  /\ UNCHANGED <<vars, asked, todo, threads, debugResumes, taskResumes,
                 serverVars, port>>

\* A task_suspend() for each of the task_resume()s that were counted
RestoreTask(c) ==
  /\ cpc[c] = "answered"
  /\ IF taskResumes[c] > 0
       THEN /\ taskSuspended' = taskSuspended + 1
            /\ taskResumes' = [taskResumes EXCEPT ![c] = @ - 1]
            /\ UNCHANGED cpc
       ELSE CGoto(c, "restore") /\ UNCHANGED <<taskSuspended, taskResumes>>
  /\ ProgramUnchanged
  /\ UNCHANGED <<suspendCount, asked, todo, threads, debugResumes, serverVars,
                 port>>

RestoreDebugThread(c) ==
  /\ cpc[c] = "restore"
  /\ suspendCount' = [suspendCount EXCEPT ![DebugThread] = @ + debugResumes[c]]
  /\ debugResumes' = [debugResumes EXCEPT ![c] = 0]
  /\ todo' = [todo EXCEPT ![c] = threads[c] \ {DebugThread}]
  /\ CGoto(c, "resume")
  /\ ProgramUnchanged
  /\ UNCHANGED <<taskSuspended, asked, threads, taskResumes, serverVars, port>>

\* thread_resume() of a thread that is not suspended fails, and then the rest
\* of the threads are left as they are.
ResumeThread(c) ==
  /\ cpc[c] = "resume"
  /\ \E t \in todo[c] :
       IF suspendCount[t] > 0
         THEN /\ suspendCount' = [suspendCount EXCEPT ![t] = @ - 1]
              /\ todo' = [todo EXCEPT ![c] = @ \ {t}]
              /\ CGoto(c, IF todo'[c] = {} THEN "idle" ELSE "resume")
         ELSE /\ todo' = [todo EXCEPT ![c] = {}]
              /\ CGoto(c, "failed")
              /\ UNCHANGED suspendCount
  /\ threads' = IF cpc'[c] = "resume" THEN threads
                ELSE [threads EXCEPT ![c] = {}]
  /\ ProgramUnchanged
  /\ UNCHANGED <<taskSuspended, asked, debugResumes, taskResumes, serverVars,
                 port>>
-----------------------------------------------------------------------------
(* server_loop(): getting dyld's data into a known state *)

SGoto(label) == spc' = label

Receive ==
  /\ spc = "receive"
  /\ port # << >>
  /\ request' = Head(port)
  /\ port' = Tail(port)
  /\ waiting' = TRUE
  /\ SGoto("check")
  /\ UNCHANGED <<lockVars, flagVars, suspendCount, taskSuspended, threadVars,
                 clientVars, resumed, resumeCount, left>>

InHandler == mdHandler \/ leHandler

\* Is a thread inside that can be run until it releases the lock?
CheckLock ==
  /\ spc = "check"
  /\ SGoto(IF dyldLock /\ owner # NoThread /\ ~InHandler THEN "info" ELSE "spin")
  /\ UNCHANGED <<vars, clientVars, port, request, resumed, resumeCount, left>>

\* Mutant of ThreadInfo: the last thread_resume() is left out.
ThreadInfoOneLess ==
  /\ spc = "info"
  /\ IF owner # NoThread /\ Live(owner) /\ suspendCount[owner] > 0
       THEN left' = suspendCount[owner] - 1 /\ SGoto("capture")
       ELSE SGoto("cantUnlock") /\ UNCHANGED left
  /\ UNCHANGED <<vars, clientVars, port, request, resumed, resumeCount>>

\* thread_info() of the owner, for its suspend count; a port that names no
\* thread makes it fail.
ThreadInfo ==
  /\ spc = "info"
  /\ IF owner # NoThread /\ Live(owner)
       THEN left' = suspendCount[owner] /\ SGoto("capture")
       ELSE SGoto("cantUnlock") /\ UNCHANGED left
  /\ UNCHANGED <<vars, clientVars, port, request, resumed, resumeCount>>

\* thread_that_has_dyld_lock, read again, is the thread to be resumed.
\* thread_resume(MACH_PORT_NULL) fails; thread_switch(MACH_PORT_NULL) does not.
CaptureOwner ==
  /\ spc = "capture"
  /\ resumed' = owner
  /\ SGoto(IF left = 0 THEN "spin"
           ELSE IF owner = NoThread THEN "cantUnlock" ELSE "resume")
  /\ UNCHANGED <<vars, clientVars, port, request, resumeCount, left>>

\* One thread_resume(), counted even when it fails because the thread already
\* runs, which ends the loop; thread_switch() follows the last one.
ResumeOwner ==
  /\ spc = "resume"
  /\ resumeCount' = resumeCount + 1
  /\ IF suspendCount[resumed] > 0
       THEN /\ suspendCount' = [suspendCount EXCEPT ![resumed] = @ - 1]
            /\ left' = left - 1
       ELSE left' = 0 /\ UNCHANGED suspendCount
  /\ SGoto(IF left' > 0 THEN "resume" ELSE "spin")
  /\ ProgramUnchanged
  /\ UNCHANGED <<taskSuspended, clientVars, port, request, resumed>>

\* Mutant of EndSpin: resume_count is not tested.
EndSpinUncounted ==
  /\ spc = "spin"
  /\ ~(dyldLock \/ owner # NoThread) \/ InHandler
  /\ SGoto("count")
  /\ UNCHANGED <<vars, clientVars, port, request, resumed, resumeCount, left>>

\* The loop with an empty body that waits for the lock or for a handler.
EndSpin ==
  /\ spc = "spin"
  /\ ~(dyldLock \/ owner # NoThread) \/ InHandler
  /\ SGoto(IF resumeCount # 0 THEN "count" ELSE "cantUnlock")
  /\ UNCHANGED <<vars, clientVars, port, request, resumed, resumeCount, left>>

Spin ==
  /\ spc = "spin"
  /\ dyldLock \/ owner # NoThread
  /\ ~InHandler
  /\ UNCHANGED dvars

\* Mutant of CountSuspends: the thread's own suspend is not counted.
SuspendsUncounted ==
  /\ spc = "count"
  /\ SGoto("sleep")
  /\ UNCHANGED <<vars, clientVars, port, request, resumed, resumeCount, left>>

\* A thread that released the lock has suspended itself once.
CountSuspends ==
  /\ spc = "count"
  /\ resumeCount' = IF dyldLock THEN resumeCount ELSE resumeCount - 1
  /\ SGoto("sleep")
  /\ UNCHANGED <<vars, clientVars, port, request, resumed, left>>

EndingRelease(t) == pc[t] \in {"relClear", "relWait", "relSuspend"}

\* usleep(20000)
Sleep ==
  /\ spc = "sleep"
  /\ SleepLongEnough => ~(EndingRelease(resumed) /\ Runnable(resumed))
  /\ SGoto("suspend")
  /\ UNCHANGED <<vars, clientVars, port, request, resumed, resumeCount, left>>

SuspendOwner ==
  /\ spc = "suspend"
  /\ suspendCount' = [suspendCount EXCEPT ![resumed] = @ + resumeCount]
  /\ SGoto("cantUnlock")
  /\ ProgramUnchanged
  /\ UNCHANGED <<taskSuspended, clientVars, port, request, resumed, resumeCount,
                 left>>

CantUnlock ==
  /\ spc = "cantUnlock"
  /\ waiting' = FALSE
  /\ resumed' = NoThread
  /\ resumeCount' = 0
  /\ left' = 0
  /\ SGoto("serve")
  /\ UNCHANGED <<lockVars, flagVars, suspendCount, taskSuspended, threadVars,
                 clientVars, port, request>>
-----------------------------------------------------------------------------
(* server_loop(): the request.  One that does not accept inconsistent data  *)
(* is refused while the lock is set (DYLD_INCONSISTENT_DATA), and a module  *)
(* is bound only when no thread is inside or in a handler.                  *)

BindRefused == dyldLock \/ InHandler

\* Mutant of ServeQuery: dyld_lock is not tested again.
ServeQueryUntested ==
  /\ spc = "serve"
  /\ request.kind = "query"
  /\ SGoto("reading")
  /\ UNCHANGED <<vars, clientVars, port, request, resumed, resumeCount, left>>

ServeQuery ==
  /\ spc = "serve"
  /\ request.kind = "query"
  /\ SGoto(IF dyldLock THEN "reply" ELSE "reading")
  /\ UNCHANGED <<vars, clientVars, port, request, resumed, resumeCount, left>>

EndReading ==
  /\ spc = "reading"
  /\ SGoto("reply")
  /\ UNCHANGED <<vars, clientVars, port, request, resumed, resumeCount, left>>

\* server_dyld_debug_bind_module() calls set_lock() as the debug thread.
ServeBind ==
  /\ spc = "serve"
  /\ request.kind = "bind"
  /\ IF BindRefused
       THEN SGoto("reply") /\ UNCHANGED pc
       ELSE SGoto("binding") /\ Goto(DebugThread, "setSelf")
  /\ UNCHANGED <<lockVars, flagVars, debugVars, stack, ctx, me, clientVars,
                 port, request, resumed, resumeCount, left>>

\* The steps of the module's binding, to the end of release_lock().
BindStep ==
  /\ spc = "binding"
  /\ \/ Grab(DebugThread, "setSelf", "setId")
     \/ SetResolve(DebugThread)
     \/ MultiplyDefinedEnter(DebugThread) \/ MultiplyDefinedExit(DebugThread)
     \/ LinkEditErrorEnter(DebugThread) \/ LinkEditErrorReturn(DebugThread)
     \/ CallReleaseLock(DebugThread)
     \/ Grab(DebugThread, "relSelf", "relId")
     \/ RelResolve(DebugThread)
  /\ SGoto(IF pc[DebugThread] = "relId" THEN "reply" ELSE "binding")
  /\ UNCHANGED <<clientVars, port, request, resumed, resumeCount, left>>

\* The debug thread, too, spins on global_lock in dyld_mach_thread_self().
BindSpin ==
  /\ spc = "binding"
  /\ SpinOnGlobalLock(DebugThread)
  /\ UNCHANGED <<clientVars, serverVars, port>>

\* A reply to a debugger that has stopped waiting is lost.
Reply ==
  /\ spc = "reply"
  /\ cpc' = IF cpc[request.client] = "rpc"
              THEN [cpc EXCEPT ![request.client] = "answered"]
              ELSE cpc
  /\ request' = None
  /\ SGoto("receive")
  /\ UNCHANGED <<vars, asked, todo, threads, debugResumes, taskResumes, port,
                 resumed, resumeCount, left>>
-----------------------------------------------------------------------------
ClientStep(c) == \/ SuspendTask(c) \/ ListThreads(c) \/ SuspendThread(c)
                 \/ ResumeDebugThread(c) \/ ResumeTask(c) \/ ResumeTaskMore(c)
                 \/ SendRequest(c) \/ TimeOut(c) \/ RestoreTask(c) \/ RestoreDebugThread(c)
                 \/ ResumeThread(c)

ServerStep == /\ Runnable(DebugThread)
              /\ \/ Receive \/ CheckLock \/ ThreadInfo \/ CaptureOwner
                 \/ ResumeOwner \/ EndSpin \/ Spin \/ CountSuspends
                 \/ Sleep \/ SuspendOwner \/ CantUnlock
                 \/ ServeQuery \/ EndReading \/ ServeBind \/ BindStep \/ BindSpin
                 \/ Reply

ProgramStep(t) == ThreadStep(t) /\ UNCHANGED <<clientVars, serverVars, port>>

DStopped == Stopped /\ UNCHANGED <<clientVars, serverVars, port>>

DNext == \/ \E t \in Threads : ProgramStep(t)
         \/ \E c \in Clients : ClientStep(c)
         \/ ServerStep
         \/ DStopped

DSpec == DInit /\ [][DNext]_dvars

(* The kernel runs the debug thread and the debuggers too; debug_port is    *)
(* served in order, a module's binding ends, and usleep() returns.          *)
DFairSpec ==
  /\ DSpec
  /\ \A t \in Threads :
       /\ WF_dvars(Runnable(t) /\ LockStep(t)
                     /\ UNCHANGED <<clientVars, serverVars, port>>)
       /\ SF_dvars(Runnable(t) /\ GrabStep(t)
                     /\ UNCHANGED <<clientVars, serverVars, port>>)
       /\ SF_dvars(Runnable(t) /\ HandlerReturn(t)
                     /\ UNCHANGED <<clientVars, serverVars, port>>)
       /\ SF_dvars(Runnable(t) /\ CallReleaseLock(t)
                     /\ UNCHANGED <<clientVars, serverVars, port>>)
  /\ \A c \in Clients : WF_dvars(ClientStep(c))
  /\ WF_dvars(ServerStep)
  /\ SF_dvars(ServerStep /\ CallReleaseLock(DebugThread))
-----------------------------------------------------------------------------
(* While the debug thread reads dyld's data for a request that wants it     *)
(* consistent, or binds a module, no thread of the program is inside the    *)
(* dynamic linker: "it is assured the results are consistent"               *)
(* (man/dyld_debug.3).                                                      *)
ServedConsistently ==
  spc \in {"reading", "binding"} => \A t \in Threads : ~Holds(t)

(* The debug thread is the only one the kernel may run while it serves      *)
(* (man/dyld_debug.3: "the dyld debug thread is the only runnable thread"). *)
OnlyDebugThreadRuns ==
  spc \in {"reading", "binding"} => \A t \in Threads : ~Runnable(t)

(* When every debugger is done the program's threads can run as before:     *)
(* "in the end the suspend count of each individual thread is the same".    *)
SuspendCountsRestored ==
  (/\ \A c \in Clients : cpc[c] \in {"idle", "failed"}
   /\ spc = "receive" /\ port = << >>)
     => taskSuspended = 0 /\ \A t \in AllThreads : suspendCount[t] = 0

(* A request is answered: a thread that has the lock is let run "until the  *)
(* lock is released" (server_loop).                                         *)
RequestsAreAnswered ==
  \A c \in Clients : cpc[c] = "rpc" ~> cpc[c] # "rpc"

(* ... unless a debugger caught a thread with global_lock: with that lock    *)
(* free, the thread that has dyld_lock runs on and gives it up.             *)
AnsweredIfGlobalFree ==
  spc = "check" /\ ~globalLock
    ~> spc = "receive" \/ \E t \in Threads : pc[t] \in {"killed", "hung"}
=============================================================================
