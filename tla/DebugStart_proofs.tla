--------------------------- MODULE DebugStart_proofs ---------------------------
(***************************************************************************)
(* Proofs about DebugStart, for any number of debuggers, threads and       *)
(* calls: the suspend counts are those of the calls under way, and come    *)
(* back to what they were; and a debugger on its own does not find a       *)
(* debug thread that has died.                                             *)
(***************************************************************************)
EXTENDS DebugStart, FiniteSetTheorems, TLAPS

USE StartersAssumption

\* Where a debugger has resumed the task, and where the threads are suspended
Resumed == {"start", "poll", "suspendTask"}
Calling == {"resumeTask"} \cup Resumed
Listed  == {"suspend", "resume"} \cup Calling

\* Has d suspended t, and not yet resumed it?
Suspends(d, t) ==
  \/ dpc[d] = "suspend" /\ t \in threads[d] \ todo[d]
  \/ dpc[d] \in Calling /\ t \in threads[d]
  \/ dpc[d] = "resume" /\ t \in todo[d]

Suspenders(t) == {d \in Debuggers : Suspends(d, t)}
Resumers      == {d \in Debuggers : dpc[d] \in Resumed /\ taskResumed[d]}

\* Nothing takes debug_thread_lock, and no thread is created before a call.
CallsInv ==
  /\ debugLock = FALSE
  /\ \A d \in Debuggers : /\ dpc[d] = "idle" <=> calls[d] = 0
                          /\ dpc[d] = "suspend" => todo[d] \subseteq threads[d]
  /\ \A t \in Starters : tpc[t] # "unborn" => \E d \in Debuggers : calls[d] > 0

TaskInv == taskSuspended + Cardinality(Resumers) = HeldCount

\* No thread that a debugger found is gone before it is resumed.
ExistInv ==
  Alone \/ NoneFailed =>
    \A d \in Debuggers : dpc[d] \in Listed => \A t \in threads[d] \cup todo[d] : Exists(t)

CountInv ==
  Alone \/ NoneFailed => \A t \in All : suspendCount[t] = Cardinality(Suspenders(t))

\* Where a created thread has put itself into the section
Announced == {"allocate", "setPort", "serve", "serving", "clear", "unset"}

\* The section names the created thread that is alive ...
SectionInv ==
  /\ \A t \in Starters :
       /\ tpc[t] \in {"test", "setThread"} => debugThread = t
       /\ tpc[t] \in Announced => sectionThread = t
       /\ tpc[t] = "setPort" => debugPort = t
       /\ tpc[t] \in {"serve", "serving"} => sectionPort = t
  /\ sectionThread # Null => tpc[sectionThread] \in Announced
  /\ sectionPort # Null => tpc[sectionPort] \in {"serve", "serving"}

\* ... since there is one at a time: a call does not end before it serves or has
\* died.
OneStarter ==
  /\ \A t, u \in Starters : Exists(t) /\ Exists(u) => t = u
  /\ \A d \in Debuggers :
       /\ dpc[d] \in {"list", "suspend", "resumeTask", "start"} =>
            \A t \in Starters : ~Exists(t)
       /\ dpc[d] \in Listed => (threads[d] \cup todo[d]) \cap Starters = {}
       /\ dpc[d] \notin {"idle", "poll"} =>
            \A t \in Starters : Exists(t) => tpc[t] \in {"serve", "serving"}

\* A task that is suspended more than once does not run between these calls.
NoneRuns == \A t \in Starters : tpc[t] \in {"unborn", "begin"}

AloneInv ==
  Alone =>
    /\ SectionInv
    /\ HeldCount > 1 => NoneRuns
    /\ HeldCount <= 1 => OneStarter
    /\ \A d \in Debuggers : dpc[d] \in Resumed /\ HeldCount > 0 => taskResumed[d]

StartInv == TypeOK /\ CallsInv /\ TaskInv /\ ExistInv /\ CountInv /\ AloneInv
-----------------------------------------------------------------------------
(* Counting debuggers *)

(* The debuggers for which something holds can be counted, and one more or   *)
(* one less counts as one.                                                   *)
LEMMA OneMoreOrLess ==
  ASSUME NEW S \in SUBSET Debuggers, NEW R \in SUBSET Debuggers, NEW d \in Debuggers,
         \A e \in Debuggers \ {d} : e \in S <=> e \in R
  PROVE  /\ Cardinality(S) \in Nat /\ Cardinality(R) \in Nat
         /\ (d \in S <=> d \in R) => Cardinality(R) = Cardinality(S)
         /\ d \notin S /\ d \in R => Cardinality(R) = Cardinality(S) + 1
         /\ d \in S /\ d \notin R => Cardinality(R) = Cardinality(S) - 1
<1>1. IsFiniteSet(S) /\ IsFiniteSet(R)
  BY FS_Subset DEF StartersAssumption
<1>2. Cardinality(S) \in Nat /\ Cardinality(R) \in Nat
  BY <1>1, FS_CardinalityType
<1>3. (d \in S <=> d \in R) => R = S
  OBVIOUS
<1>4. ASSUME d \notin S, d \in R PROVE Cardinality(R) = Cardinality(S) + 1
  <2>1. R = S \cup {d}
    BY <1>4
  <2> QED
    BY <1>1, <1>4, <2>1, FS_AddElement
<1>5. ASSUME d \in S, d \notin R PROVE Cardinality(R) = Cardinality(S) - 1
  <2>1. S = R \cup {d}
    BY <1>5
  <2>2. Cardinality(S) = Cardinality(R) + 1
    BY <1>1, <1>5, <2>1, FS_AddElement
  <2> QED
    BY <1>2, <2>2
<1> QED
  BY <1>2, <1>3, <1>4, <1>5

(* A count is zero where nobody is counted, and not where somebody is.       *)
LEMMA CountedOrNot ==
  ASSUME NEW S \in SUBSET Debuggers
  PROVE  /\ Cardinality(S) \in Nat
         /\ S = {} <=> Cardinality(S) = 0
         /\ (\A d, e \in S : d = e) => Cardinality(S) <= 1
<1>1. IsFiniteSet(S)
  BY FS_Subset DEF StartersAssumption
<1>2. Cardinality(S) \in Nat /\ (S = {} <=> Cardinality(S) = 0)
  BY <1>1, FS_CardinalityType, FS_EmptySet
<1>3. ASSUME \A d, e \in S : d = e PROVE Cardinality(S) <= 1
  <2>1. CASE S = {}
    BY <1>2, <2>1
  <2>2. CASE S # {}
    <3>1. PICK d \in S : TRUE
      BY <2>2
    <3>2. S = {d}
      BY <1>3, <3>1
    <3> QED
      BY <3>2, FS_Singleton
  <2> QED
    BY <2>1, <2>2
<1> QED
  BY <1>2, <1>3
-----------------------------------------------------------------------------
(* What a step leaves alone *)

(* Every step keeps the variables' types: one step for each operation of the *)
(* debuggers and of the created threads.                                     *)
LEMMA TypeStep == TypeOK /\ [Next]_vars => TypeOK'
<1> SUFFICES ASSUME TypeOK, [Next]_vars PROVE TypeOK'
  OBVIOUS
<1>1. ASSUME NEW d \in Debuggers, Look(d) PROVE TypeOK'
  <2>1. calls[d] + 1 \in 0..MaxCalls
    BY <1>1 DEF Look, TypeOK, StartersAssumption
  <2> QED
    BY <1>1, <2>1 DEF Look, DGoto, TypeOK, DPcs, sectionVars, dyldVars, kernelVars
<1>2. ASSUME NEW d \in Debuggers, ListThreads(d) PROVE TypeOK'
  BY <1>2 DEF ListThreads, DGoto, TypeOK, DPcs, sectionVars, dyldVars, kernelVars
<1>3. ASSUME NEW d \in Debuggers, SuspendThread(d) PROVE TypeOK'
  <2>1. PICK t \in todo[d] :
          IF Exists(t)
            THEN /\ suspendCount' = [suspendCount EXCEPT ![t] = @ + 1]
                 /\ todo' = [todo EXCEPT ![d] = @ \ {t}]
                 /\ DGoto(d, IF todo'[d] = {} THEN "resumeTask" ELSE "suspend")
            ELSE /\ todo' = [todo EXCEPT ![d] = {}]
                 /\ DGoto(d, "failed")
                 /\ UNCHANGED suspendCount
    BY <1>3 DEF SuspendThread
  <2>2. t \in All /\ suspendCount[t] + 1 \in Nat
    BY DEF TypeOK
  <2>3. suspendCount' \in [All -> Nat]
    BY <2>1, <2>2 DEF TypeOK
  <2>4. todo' \in [Debuggers -> SUBSET All] /\ dpc' \in [Debuggers -> DPcs]
    BY <2>1, <2>2 DEF TypeOK, DGoto, DPcs
  <2> QED
    BY <1>3, <2>3, <2>4 DEF SuspendThread, TypeOK, sectionVars, dyldVars
<1>4. ASSUME NEW d \in Debuggers, ResumeTask(d) PROVE TypeOK'
  BY <1>4 DEF ResumeTask, DGoto, TypeOK, DPcs, sectionVars, dyldVars
<1>5. ASSUME NEW d \in Debuggers, StartThread(d) PROVE TypeOK'
  BY <1>5 DEF StartThread, DGoto, TypeOK, DPcs, TPcs, sectionVars, kernelVars
<1>6. ASSUME NEW d \in Debuggers, Poll(d) PROVE TypeOK'
  BY <1>6 DEF Poll, DGoto, SectionIsSet, TypeOK, DPcs, sectionVars, dyldVars, kernelVars
<1>7. ASSUME NEW d \in Debuggers, SuspendTask(d) PROVE TypeOK'
  BY <1>7 DEF SuspendTask, DGoto, TypeOK, DPcs, sectionVars, dyldVars
<1>8. ASSUME NEW d \in Debuggers, ResumeThread(d) PROVE TypeOK'
  <2>1. PICK t \in todo[d] :
          IF Exists(t) /\ suspendCount[t] > 0
            THEN /\ suspendCount' = [suspendCount EXCEPT ![t] = @ - 1]
                 /\ todo' = [todo EXCEPT ![d] = @ \ {t}]
                 /\ DGoto(d, IF todo'[d] # {} THEN "resume"
                             ELSE IF found[d] THEN "done" ELSE "failed")
            ELSE /\ todo' = [todo EXCEPT ![d] = {}]
                 /\ DGoto(d, "failed")
                 /\ UNCHANGED suspendCount
    BY <1>8 DEF ResumeThread
  <2>2. t \in All /\ (suspendCount[t] > 0 => suspendCount[t] - 1 \in Nat)
    BY DEF TypeOK
  <2>3. suspendCount' \in [All -> Nat]
    BY <2>1, <2>2 DEF TypeOK
  <2>4. todo' \in [Debuggers -> SUBSET All] /\ dpc' \in [Debuggers -> DPcs]
    BY <2>1, <2>2 DEF TypeOK, DGoto, DPcs
  <2>5. threads' \in [Debuggers -> SUBSET All]
    BY <1>8 DEF ResumeThread, TypeOK
  <2> QED
    BY <1>8, <2>3, <2>4, <2>5 DEF ResumeThread, TypeOK, sectionVars, dyldVars
<1>9. ASSUME NEW t \in Starters, StarterStep(t) PROVE TypeOK'
  <2>1. CASE SetDebugThread(t)
    BY <2>1 DEF SetDebugThread, TGoto, TypeOK, TPcs, sectionVars, kernelVars, callVars
  <2>2. CASE TestLock(t)
    BY <2>2 DEF TestLock, TGoto, TypeOK, TPcs, sectionVars, kernelVars, callVars
  <2>3. CASE SetSectionThread(t)
    BY <2>3 DEF SetSectionThread, TGoto, TypeOK, TPcs, kernelVars, callVars
  <2>4. CASE AllocatePort(t)
    BY <2>4 DEF AllocatePort, TGoto, TypeOK, TPcs, sectionVars, kernelVars, callVars
  <2>5. CASE SetSectionPort(t)
    BY <2>5 DEF SetSectionPort, TGoto, TypeOK, TPcs, kernelVars, callVars
  <2>6. CASE Serve(t)
    BY <2>6 DEF Serve, TGoto, TypeOK, TPcs, sectionVars, kernelVars, callVars
  <2>7. CASE ClearLock(t)
    BY <2>7 DEF ClearLock, TGoto, TypeOK, TPcs, sectionVars, kernelVars, callVars
  <2>8. CASE UnsetSection(t)
    BY <2>8 DEF UnsetSection, TGoto, TypeOK, TPcs, kernelVars, callVars
  <2> QED
    BY <1>9, <2>1, <2>2, <2>3, <2>4, <2>5, <2>6, <2>7, <2>8 DEF StarterStep
<1>10. ASSUME UNCHANGED vars PROVE TypeOK'
  BY <1>10 DEF TypeOK, vars, sectionVars, dyldVars, kernelVars, callVars
<1> QED
  BY <1>1, <1>2, <1>3, <1>4, <1>5, <1>6, <1>7, <1>8, <1>9, <1>10
     DEF Next, CallStep, Finished

(* A debugger's call touches neither the others' calls nor what the created  *)
(* threads write, but for the thread it creates; a call is under way only    *)
(* once it was made.                                                         *)
LEMMA DebuggerFrame ==
  ASSUME TypeOK, NEW d \in Debuggers, Look(d) \/ CallStep(d)
  PROVE  /\ \A e \in Debuggers \ {d} :
              /\ dpc'[e] = dpc[e] /\ calls'[e] = calls[e]
              /\ threads'[e] = threads[e] /\ todo'[e] = todo[e]
              /\ taskResumed'[e] = taskResumed[e]
         /\ UNCHANGED <<sectionThread, sectionPort, debugThread, debugPort, debugLock>>
         /\ \A t \in Starters :
              \/ tpc'[t] = tpc[t]
              \/ dpc[d] = "start" /\ tpc[t] = "unborn" /\ tpc'[t] = "begin"
         /\ calls'[d] = calls[d] \/ calls'[d] = calls[d] + 1
         /\ dpc[d] = "idle" => calls'[d] = calls[d] + 1
         /\ dpc'[d] # "idle"
<1>1. CASE Look(d)
  BY <1>1 DEF Look, DGoto, TypeOK, sectionVars, dyldVars
<1>2. CASE ListThreads(d)
  BY <1>2 DEF ListThreads, DGoto, TypeOK, sectionVars, dyldVars
<1>3. CASE SuspendThread(d)
  <2>1. PICK s : s \in DPcs /\ s # "idle" /\ dpc' = [dpc EXCEPT ![d] = s]
    BY <1>3 DEF SuspendThread, DGoto, DPcs
  <2>2. PICK T : todo' = [todo EXCEPT ![d] = T]
    BY <1>3 DEF SuspendThread
  <2> QED
    BY <1>3, <2>1, <2>2 DEF SuspendThread, TypeOK, sectionVars, dyldVars
<1>4. CASE ResumeTask(d)
  BY <1>4 DEF ResumeTask, DGoto, TypeOK, sectionVars, dyldVars
<1>5. CASE StartThread(d)
  BY <1>5 DEF StartThread, DGoto, TypeOK, sectionVars
<1>6. CASE Poll(d)
  BY <1>6 DEF Poll, DGoto, TypeOK, sectionVars, dyldVars
<1>7. CASE SuspendTask(d)
  BY <1>7 DEF SuspendTask, DGoto, TypeOK, sectionVars, dyldVars
<1>8. CASE ResumeThread(d)
  <2>1. PICK s : s \in DPcs /\ s # "idle" /\ dpc' = [dpc EXCEPT ![d] = s]
    BY <1>8 DEF ResumeThread, DGoto, DPcs
  <2>2. PICK T : todo' = [todo EXCEPT ![d] = T]
    BY <1>8 DEF ResumeThread
  <2> QED
    BY <1>8, <2>1, <2>2 DEF ResumeThread, TypeOK, sectionVars, dyldVars
<1> QED
  BY <1>1, <1>2, <1>3, <1>4, <1>5, <1>6, <1>7, <1>8 DEF CallStep

(* A created thread's step touches no other thread and no debugger's call,   *)
(* nor any suspend count.                                                    *)
LEMMA StarterFrame ==
  ASSUME TypeOK, NEW t \in Starters, StarterStep(t)
  PROVE  /\ UNCHANGED <<taskSuspended, suspendCount, dpc, calls, threads, todo,
                        taskResumed>>
         /\ Exists(t) /\ taskSuspended = 0
         /\ tpc'[t] \in TPcs \ {"unborn", "begin"}
         /\ \A u \in Starters \ {t} : tpc'[u] = tpc[u]
<1>1. Exists(t) /\ taskSuspended = 0
  BY DEF StarterStep, Runnable
<1>2. PICK s : s \in TPcs \ {"unborn", "begin"} /\ tpc' = [tpc EXCEPT ![t] = s]
  BY DEF StarterStep, SetDebugThread, TestLock, SetSectionThread, AllocatePort,
         SetSectionPort, Serve, ClearLock, UnsetSection, TGoto, TPcs
<1>3. UNCHANGED <<kernelVars, callVars>>
  BY DEF StarterStep, SetDebugThread, TestLock, SetSectionThread, AllocatePort,
         SetSectionPort, Serve, ClearLock, UnsetSection
<1> QED
  BY <1>1, <1>2, <1>3 DEF TypeOK, kernelVars, callVars

(* A debugger that is on its own has been so, and a port that could not be   *)
(* allocated is not forgotten.                                               *)
LEMMA NotUndone ==
  ASSUME TypeOK, [Next]_vars
  PROVE  (Alone' => Alone) /\ (NoneFailed' => NoneFailed)
<1>1. ASSUME NEW d \in Debuggers, Look(d) \/ CallStep(d)
      PROVE  (Alone' => Alone) /\ (NoneFailed' => NoneFailed)
  <2>1. \A e \in Debuggers : calls[e] > 0 => calls'[e] > 0
    BY <1>1, DebuggerFrame DEF TypeOK
  <2>2. \A t \in Starters : tpc'[t] = tpc[t] \/ tpc[t] = "unborn"
    BY <1>1, DebuggerFrame
  <2> QED
    BY <2>1, <2>2 DEF Alone, NoneFailed
<1>2. ASSUME NEW t \in Starters, StarterStep(t)
      PROVE  (Alone' => Alone) /\ (NoneFailed' => NoneFailed)
  <2>1. calls' = calls /\ Exists(t) /\ \A u \in Starters \ {t} : tpc'[u] = tpc[u]
    BY <1>2, StarterFrame
  <2>2. tpc[t] \in {"clear", "unset"} => tpc'[t] \in {"unset", "failed"}
    BY <1>2 DEF StarterStep, SetDebugThread, TestLock, SetSectionThread, AllocatePort,
           SetSectionPort, Serve, ClearLock, UnsetSection, TGoto, TypeOK
  <2>3. tpc[t] # "failed"
    <3>1. t \notin Threads
      BY DEF StartersAssumption
    <3> QED
      BY <2>1, <3>1 DEF Exists
  <2> QED
    BY <2>1, <2>2, <2>3 DEF Alone, NoneFailed
<1>3. ASSUME UNCHANGED vars
      PROVE  (Alone' => Alone) /\ (NoneFailed' => NoneFailed)
  BY <1>3 DEF Alone, NoneFailed, vars, callVars, dyldVars
<1> QED
  BY <1>1, <1>2, <1>3 DEF Next, Finished

(* A thread that exists goes on to, unless it is the debug thread that got   *)
(* no port.                                                                  *)
LEMMA ExistsStill ==
  ASSUME TypeOK, [Next]_vars, debugLock = FALSE, NEW t \in All, Exists(t)
  PROVE  Exists(t)' \/ (t \in Starters /\ tpc[t] = "unset" /\ tpc'[t] = "failed")
<1>1. CASE t \in Threads
  BY <1>1 DEF Exists
<1>2. CASE t \in Starters
  <2>1. t \notin Threads
    BY <1>2 DEF StartersAssumption
  <2>2. tpc[t] \in TPcs \ {"unborn", "failed", "dead"}
    BY <1>2, <2>1 DEF Exists, TypeOK
  <2>3. ASSUME NEW d \in Debuggers, Look(d) \/ CallStep(d) PROVE Exists(t)'
    <3>1. tpc'[t] = tpc[t]
      BY <1>2, <2>2, <2>3, DebuggerFrame
    <3> QED
      BY <2>2, <3>1 DEF Exists
  <2>4. ASSUME NEW u \in Starters, StarterStep(u), u # t PROVE Exists(t)'
    <3>1. tpc'[t] = tpc[t]
      BY <1>2, <2>4, StarterFrame
    <3> QED
      BY <2>2, <3>1 DEF Exists
  <2>5. ASSUME StarterStep(t), tpc[t] # "unset" PROVE Exists(t)'
    <3>1. tpc'[t] \notin {"unborn", "failed", "dead"}
      BY <1>2, <2>2, <2>5
         DEF StarterStep, SetDebugThread, TestLock, SetSectionThread, AllocatePort,
             SetSectionPort, Serve, ClearLock, UnsetSection, TGoto, TypeOK
    <3> QED
      BY <3>1 DEF Exists
  <2>6. ASSUME StarterStep(t), tpc[t] = "unset" PROVE tpc'[t] = "failed"
    BY <1>2, <2>6
       DEF StarterStep, SetDebugThread, TestLock, SetSectionThread, AllocatePort,
           SetSectionPort, Serve, ClearLock, UnsetSection, TGoto, TypeOK
  <2>7. ASSUME UNCHANGED vars PROVE Exists(t)'
    BY <2>2, <2>7 DEF Exists, vars, dyldVars
  <2> QED
    BY <1>2, <2>3, <2>4, <2>5, <2>6, <2>7 DEF Next, Finished
<1> QED
  BY <1>1, <1>2 DEF All
-----------------------------------------------------------------------------
(* Each part of the invariant, step by step *)

(* The lock stays free, a call under way was made, and what is still to be   *)
(* suspended was listed.                                                     *)
LEMMA CallsStep == TypeOK /\ CallsInv /\ [Next]_vars => CallsInv'
<1> SUFFICES ASSUME TypeOK, CallsInv, [Next]_vars PROVE CallsInv'
  OBVIOUS
<1>1. ASSUME NEW d \in Debuggers, Look(d) \/ CallStep(d) PROVE CallsInv'
  <2>1. debugLock' = FALSE
    BY <1>1, DebuggerFrame DEF CallsInv
  <2>2. calls[d] \in Nat /\ (dpc[d] = "idle" <=> calls[d] = 0)
    BY DEF TypeOK, CallsInv
  <2>3. dpc'[d] # "idle" /\ calls'[d] # 0 /\ calls'[d] > 0
    BY <1>1, <2>2, DebuggerFrame
  <2>4. dpc'[d] = "suspend" => todo'[d] \subseteq threads'[d]
    <3>1. CASE ListThreads(d)
      BY <3>1 DEF ListThreads, TypeOK
    <3>2. CASE SuspendThread(d)
      <4>1. todo'[d] \subseteq todo[d] /\ threads' = threads
        BY <3>2 DEF SuspendThread, TypeOK
      <4>2. todo[d] \subseteq threads[d]
        BY <3>2 DEF SuspendThread, CallsInv
      <4> QED
        BY <4>1, <4>2
    <3>3. CASE Look(d) \/ ResumeTask(d) \/ StartThread(d) \/ Poll(d) \/ SuspendTask(d)
               \/ ResumeThread(d)
      <4>1. dpc'[d] # "suspend"
        BY <3>3 DEF Look, ResumeTask, StartThread, Poll, SuspendTask, ResumeThread,
               DGoto, TypeOK
      <4> QED
        BY <4>1
    <3> QED
      BY <1>1, <3>1, <3>2, <3>3 DEF CallStep
  <2>5. \A e \in Debuggers : /\ dpc'[e] = "idle" <=> calls'[e] = 0
                             /\ dpc'[e] = "suspend" => todo'[e] \subseteq threads'[e]
    BY <1>1, <2>3, <2>4, DebuggerFrame DEF CallsInv
  <2> QED
    BY <2>1, <2>3, <2>5 DEF CallsInv
<1>2. ASSUME NEW t \in Starters, StarterStep(t) PROVE CallsInv'
  <2>1. debugLock' = FALSE
    BY <1>2 DEF CallsInv, StarterStep, SetDebugThread, TestLock, SetSectionThread,
           AllocatePort, SetSectionPort, Serve, ClearLock, UnsetSection
  <2>2. /\ UNCHANGED <<dpc, calls, threads, todo>>
        /\ Exists(t)
        /\ \A u \in Starters \ {t} : tpc'[u] = tpc[u]
    BY <1>2, StarterFrame
  <2>3. tpc[t] # "unborn"
    BY <2>2 DEF Exists, StartersAssumption
  <2>4. \A u \in Starters : tpc'[u] # "unborn" => \E d \in Debuggers : calls[d] > 0
    BY <2>2, <2>3 DEF CallsInv
  <2> QED
    BY <2>1, <2>2, <2>4 DEF CallsInv
<1>3. ASSUME UNCHANGED vars PROVE CallsInv'
  BY <1>3 DEF CallsInv, vars, dyldVars, callVars
<1> QED
  BY <1>1, <1>2, <1>3 DEF Next, Finished

(* The task's suspend count goes with the debuggers that have resumed it.    *)
LEMMA TaskStep == TypeOK /\ TaskInv /\ [Next]_vars => TaskInv'
<1> SUFFICES ASSUME TypeOK, TaskInv, [Next]_vars PROVE TaskInv'
  OBVIOUS
<1> /\ HeldCount \in Nat /\ taskSuspended \in Nat
    /\ taskSuspended + Cardinality(Resumers) = HeldCount
  BY DEF StartersAssumption, TypeOK, TaskInv
<1>1. ASSUME NEW d \in Debuggers, Look(d) \/ CallStep(d) PROVE TaskInv'
  <2>1. Resumers \in SUBSET Debuggers /\ Resumers' \in SUBSET Debuggers
    BY DEF Resumers
  <2>2. \A e \in Debuggers \ {d} : e \in Resumers <=> e \in Resumers'
    BY <1>1, DebuggerFrame DEF Resumers
  <2>3. /\ Cardinality(Resumers) \in Nat /\ Cardinality(Resumers') \in Nat
        /\ (d \in Resumers <=> d \in Resumers') =>
             Cardinality(Resumers') = Cardinality(Resumers)
        /\ d \notin Resumers /\ d \in Resumers' =>
             Cardinality(Resumers') = Cardinality(Resumers) + 1
        /\ d \in Resumers /\ d \notin Resumers' =>
             Cardinality(Resumers') = Cardinality(Resumers) - 1
    BY <2>1, <2>2, OneMoreOrLess
  <2>4. CASE ResumeTask(d)
    <3>1. d \notin Resumers /\ (d \in Resumers' <=> taskSuspended > 0)
      BY <2>4 DEF ResumeTask, DGoto, TypeOK, Resumers, Resumed
    <3>2. taskSuspended' = IF taskSuspended > 0 THEN taskSuspended - 1 ELSE 0
      BY <2>4 DEF ResumeTask
    <3> QED
      BY <2>3, <3>1, <3>2 DEF TaskInv
  <2>5. CASE SuspendTask(d)
    <3>1. d \notin Resumers' /\ (d \in Resumers <=> taskResumed[d])
      BY <2>5 DEF SuspendTask, DGoto, TypeOK, Resumers, Resumed
    <3>2. taskSuspended' = IF taskResumed[d] THEN taskSuspended + 1 ELSE taskSuspended
      BY <2>5 DEF SuspendTask
    <3> QED
      BY <2>3, <3>1, <3>2 DEF TaskInv
  <2>6. CASE Look(d) \/ ListThreads(d) \/ SuspendThread(d) \/ ResumeThread(d)
    <3>1. dpc[d] \notin Resumed /\ dpc'[d] \notin Resumed /\ taskSuspended' = taskSuspended
      BY <2>6 DEF Look, ListThreads, SuspendThread, ResumeThread, DGoto, TypeOK, Resumed,
             kernelVars
    <3> QED
      BY <2>3, <3>1 DEF TaskInv, Resumers
  <2>7. CASE StartThread(d) \/ Poll(d)
    <3>1. /\ dpc[d] \in Resumed /\ dpc'[d] \in Resumed
          /\ taskResumed' = taskResumed /\ taskSuspended' = taskSuspended
      BY <2>7 DEF StartThread, Poll, DGoto, TypeOK, Resumed, kernelVars
    <3> QED
      BY <2>3, <3>1 DEF TaskInv, Resumers
  <2> QED
    BY <1>1, <2>4, <2>5, <2>6, <2>7 DEF CallStep
<1>2. ASSUME NEW t \in Starters, StarterStep(t) PROVE TaskInv'
  <2>1. UNCHANGED <<taskSuspended, dpc, taskResumed>>
    BY <1>2, StarterFrame
  <2> QED
    BY <2>1 DEF TaskInv, Resumers
<1>3. ASSUME UNCHANGED vars PROVE TaskInv'
  BY <1>3 DEF TaskInv, Resumers, vars, kernelVars, callVars
<1> QED
  BY <1>1, <1>2, <1>3 DEF Next, Finished

(* A debugger's step changes a thread's suspend count exactly when it starts *)
(* or stops being one of those that suspend it.                              *)
LEMMA SuspendsStep ==
  ASSUME TypeOK, CallsInv, NEW d \in Debuggers, Look(d) \/ CallStep(d), NEW t \in All,
         dpc[d] \in Listed => \A u \in threads[d] \cup todo[d] : Exists(u),
         Suspends(d, t) => suspendCount[t] > 0,
         \A u \in todo[d] : dpc[d] = "resume" => suspendCount[u] > 0
  PROVE  /\ (Suspends(d, t) <=> Suspends(d, t)') => suspendCount'[t] = suspendCount[t]
         /\ ~Suspends(d, t) /\ Suspends(d, t)' => suspendCount'[t] = suspendCount[t] + 1
         /\ Suspends(d, t) /\ ~Suspends(d, t)' => suspendCount'[t] = suspendCount[t] - 1
<1>1. CASE Look(d) \/ ListThreads(d)
  <2>1. suspendCount' = suspendCount
    BY <1>1 DEF Look, ListThreads, kernelVars
  <2>2. ~Suspends(d, t)
    BY <1>1 DEF Look, ListThreads, Suspends, Calling, Resumed
  <2>3. dpc'[d] \in {"done", "list"} \/ (dpc'[d] = "suspend" /\ todo'[d] = threads'[d])
    BY <1>1 DEF Look, ListThreads, DGoto, TypeOK
  <2>4. ~Suspends(d, t)'
    BY <2>3 DEF Suspends, Calling, Resumed
  <2> QED
    BY <2>1, <2>2, <2>4
<1>2. CASE SuspendThread(d)
  <2>1. /\ dpc[d] = "suspend" /\ dpc[d] \in Listed /\ threads' = threads
        /\ todo[d] \subseteq threads[d]
    BY <1>2 DEF SuspendThread, Listed, CallsInv
  <2>2. PICK u \in todo[d] :
          IF Exists(u)
            THEN /\ suspendCount' = [suspendCount EXCEPT ![u] = @ + 1]
                 /\ todo' = [todo EXCEPT ![d] = @ \ {u}]
                 /\ DGoto(d, IF todo'[d] = {} THEN "resumeTask" ELSE "suspend")
            ELSE /\ todo' = [todo EXCEPT ![d] = {}]
                 /\ DGoto(d, "failed")
                 /\ UNCHANGED suspendCount
    BY <1>2 DEF SuspendThread
  <2>3. Exists(u)
    BY <2>1, <2>2
  <2>4. /\ suspendCount' = [suspendCount EXCEPT ![u] = @ + 1]
        /\ todo'[d] = todo[d] \ {u}
        /\ dpc'[d] = IF todo'[d] = {} THEN "resumeTask" ELSE "suspend"
    BY <2>2, <2>3 DEF DGoto, TypeOK
  <2>5. Suspends(d, t) <=> t \in threads[d] \ todo[d]
    BY <2>1 DEF Suspends, Calling, Resumed
  <2>6. Suspends(d, t)' <=> t \in threads[d] \ todo'[d]
    BY <2>1, <2>4 DEF Suspends, Calling, Resumed
  <2>7. suspendCount'[t] = IF t = u THEN suspendCount[t] + 1 ELSE suspendCount[t]
    BY <2>4 DEF TypeOK
  <2> QED
    BY <2>1, <2>2, <2>4, <2>5, <2>6, <2>7
<1>3. CASE ResumeTask(d) \/ StartThread(d) \/ Poll(d)
  <2>1. /\ dpc[d] \in Calling /\ dpc'[d] \in Calling
        /\ suspendCount' = suspendCount /\ threads' = threads
    BY <1>3 DEF ResumeTask, StartThread, Poll, DGoto, TypeOK, Calling, Resumed, kernelVars
  <2> QED
    BY <2>1 DEF Suspends, Calling, Resumed
<1>4. CASE SuspendTask(d)
  <2>1. /\ dpc[d] \in Calling /\ dpc'[d] = "resume"
        /\ suspendCount' = suspendCount /\ todo'[d] = threads[d]
    BY <1>4 DEF SuspendTask, DGoto, TypeOK, Calling, Resumed
  <2> QED
    BY <2>1 DEF Suspends, Calling, Resumed
<1>5. CASE ResumeThread(d)
  <2>1. dpc[d] = "resume" /\ dpc[d] \in Listed
    BY <1>5 DEF ResumeThread, Listed
  <2>2. PICK u \in todo[d] :
          IF Exists(u) /\ suspendCount[u] > 0
            THEN /\ suspendCount' = [suspendCount EXCEPT ![u] = @ - 1]
                 /\ todo' = [todo EXCEPT ![d] = @ \ {u}]
                 /\ DGoto(d, IF todo'[d] # {} THEN "resume"
                             ELSE IF found[d] THEN "done" ELSE "failed")
            ELSE /\ todo' = [todo EXCEPT ![d] = {}]
                 /\ DGoto(d, "failed")
                 /\ UNCHANGED suspendCount
    BY <1>5 DEF ResumeThread
  <2>3. Exists(u) /\ suspendCount[u] > 0
    BY <2>1, <2>2
  <2>4. /\ suspendCount' = [suspendCount EXCEPT ![u] = @ - 1]
        /\ todo'[d] = todo[d] \ {u}
        /\ todo'[d] # {} => dpc'[d] = "resume"
        /\ todo'[d] = {} => dpc'[d] \in {"done", "failed"}
    BY <2>2, <2>3 DEF DGoto, TypeOK
  <2>5. Suspends(d, t) <=> t \in todo[d]
    BY <2>1 DEF Suspends, Calling, Resumed
  <2>6. Suspends(d, t)' <=> t \in todo'[d]
    <3>1. CASE todo'[d] = {}
      BY <2>4, <3>1 DEF Suspends, Calling, Resumed
    <3>2. CASE todo'[d] # {}
      BY <2>4, <3>2 DEF Suspends, Calling, Resumed
    <3> QED
      BY <3>1, <3>2
  <2>7. suspendCount'[t] = IF t = u THEN suspendCount[t] - 1 ELSE suspendCount[t]
    BY <2>4 DEF TypeOK
  <2> QED
    BY <2>2, <2>4, <2>5, <2>6, <2>7
<1> QED
  BY <1>1, <1>2, <1>3, <1>4, <1>5 DEF CallStep

(* A thread's suspend count is that of the debuggers that suspend it.        *)
LEMMA CountStep ==
  TypeOK /\ CallsInv /\ ExistInv /\ CountInv /\ [Next]_vars => CountInv'
<1> SUFFICES ASSUME TypeOK, CallsInv, ExistInv, CountInv, [Next]_vars,
                    (Alone \/ NoneFailed)', NEW t \in All
             PROVE  suspendCount'[t] = Cardinality(Suspenders(t))'
  BY DEF CountInv
<1>1. /\ \A u \in All : suspendCount[u] = Cardinality(Suspenders(u))
      /\ \A e \in Debuggers : dpc[e] \in Listed =>
           \A u \in threads[e] \cup todo[e] : Exists(u)
  BY NotUndone DEF CountInv, ExistInv
<1>2. ASSUME NEW d \in Debuggers, Look(d) \/ CallStep(d)
      PROVE  suspendCount'[t] = Cardinality(Suspenders(t)')
  <2>1. Suspenders(t) \in SUBSET Debuggers /\ Suspenders(t)' \in SUBSET Debuggers
    BY DEF Suspenders
  <2>2. \A e \in Debuggers \ {d} : e \in Suspenders(t) <=> e \in Suspenders(t)'
    BY <1>2, DebuggerFrame DEF Suspenders, Suspends
  <2>3. /\ Cardinality(Suspenders(t)) \in Nat /\ Cardinality(Suspenders(t)') \in Nat
        /\ (d \in Suspenders(t) <=> d \in Suspenders(t)') =>
             Cardinality(Suspenders(t)') = Cardinality(Suspenders(t))
        /\ d \notin Suspenders(t) /\ d \in Suspenders(t)' =>
             Cardinality(Suspenders(t)') = Cardinality(Suspenders(t)) + 1
        /\ d \in Suspenders(t) /\ d \notin Suspenders(t)' =>
             Cardinality(Suspenders(t)') = Cardinality(Suspenders(t)) - 1
    BY <2>1, <2>2, OneMoreOrLess
  <2>4. ASSUME NEW u \in All, Suspends(d, u) PROVE suspendCount[u] > 0
    <3>1. d \in Suspenders(u) /\ Suspenders(u) \in SUBSET Debuggers
      BY <2>4 DEF Suspenders
    <3>2. Cardinality(Suspenders(u)) \in Nat /\ Cardinality(Suspenders(u)) # 0
      BY <3>1, CountedOrNot
    <3> QED
      BY <1>1, <3>2
  <2>5. \A u \in todo[d] : dpc[d] = "resume" => suspendCount[u] > 0
    BY <2>4 DEF Suspends, TypeOK
  <2>6. dpc[d] \in Listed => \A u \in threads[d] \cup todo[d] : Exists(u)
    BY <1>1
  <2>7. Suspends(d, t) => suspendCount[t] > 0
    BY <2>4
  <2>8. /\ (Suspends(d, t) <=> Suspends(d, t)') => suspendCount'[t] = suspendCount[t]
        /\ ~Suspends(d, t) /\ Suspends(d, t)' => suspendCount'[t] = suspendCount[t] + 1
        /\ Suspends(d, t) /\ ~Suspends(d, t)' => suspendCount'[t] = suspendCount[t] - 1
    BY <1>2, <2>5, <2>6, <2>7, SuspendsStep
  <2>9. (d \in Suspenders(t) <=> Suspends(d, t)) /\ (d \in Suspenders(t)' <=> Suspends(d, t)')
    BY DEF Suspenders
  <2>10. suspendCount[t] = Cardinality(Suspenders(t))
    BY <1>1
  <2> QED
    BY <2>3, <2>8, <2>9, <2>10
<1>3. ASSUME UNCHANGED <<suspendCount, dpc, threads, todo>>
      PROVE  suspendCount'[t] = Cardinality(Suspenders(t)')
  BY <1>1, <1>3 DEF Suspenders, Suspends
<1>4. ASSUME NEW u \in Starters, StarterStep(u)
      PROVE  UNCHANGED <<suspendCount, dpc, threads, todo>>
  BY <1>4, StarterFrame
<1>5. ASSUME UNCHANGED vars PROVE UNCHANGED <<suspendCount, dpc, threads, todo>>
  BY <1>5 DEF vars, kernelVars, callVars
<1> QED
  BY <1>2, <1>3, <1>4, <1>5 DEF Next, Finished

(* No debugger's thread goes while it is suspended.                          *)
LEMMA ExistStep ==
  TypeOK /\ CallsInv /\ ExistInv /\ AloneInv /\ [Next]_vars => ExistInv'
<1> SUFFICES ASSUME TypeOK, CallsInv, ExistInv, AloneInv, [Next]_vars,
                    (Alone \/ NoneFailed)', NEW e \in Debuggers, (dpc[e] \in Listed)',
                    NEW t \in (threads[e] \cup todo[e])'
             PROVE  Exists(t)'
  BY DEF ExistInv
<1>1. \A d \in Debuggers : dpc[d] \in Listed =>
        \A u \in threads[d] \cup todo[d] : Exists(u)
  BY NotUndone DEF ExistInv
<1>2. ASSUME dpc[e] \in Listed, t \in threads[e] \cup todo[e] PROVE Exists(t)'
  <2>1. Exists(t) /\ t \in All
    BY <1>1, <1>2 DEF TypeOK
  <2>2. ASSUME t \in Starters, tpc[t] = "unset", tpc'[t] = "failed" PROVE FALSE
    <3>1. Alone
      <4>1. ~NoneFailed'
        BY <2>2 DEF NoneFailed
      <4> QED
        BY <4>1, NotUndone
    <3>2. HeldCount \in Nat
      BY DEF StartersAssumption
    <3>3. CASE HeldCount > 1
      BY <2>2, <3>1, <3>3 DEF AloneInv, NoneRuns
    <3>4. CASE HeldCount <= 1
      BY <1>2, <2>2, <3>1, <3>4 DEF AloneInv, OneStarter
    <3> QED
      BY <3>2, <3>3, <3>4
  <2>3. debugLock = FALSE
    BY DEF CallsInv
  <2> QED
    BY <2>1, <2>2, <2>3, ExistsStill
<1>3. ASSUME ListThreads(e) PROVE Exists(t)'
  <2>1. threads'[e] = {u \in All : Exists(u)} /\ todo'[e] = threads'[e] /\ tpc' = tpc
    BY <1>3 DEF ListThreads, TypeOK, dyldVars
  <2> QED
    BY <2>1 DEF Exists
<1>4. ASSUME Look(e) \/ (CallStep(e) /\ ~ListThreads(e))
      PROVE  dpc[e] \in Listed /\ t \in threads[e] \cup todo[e]
  <2>1. CASE Look(e)
    <3>1. dpc'[e] \in {"done", "list"}
      BY <2>1 DEF Look, DGoto, TypeOK
    <3> QED
      BY <3>1 DEF Listed, Calling, Resumed
  <2>2. CASE CallStep(e) /\ ~ListThreads(e)
    <3>1. dpc[e] \in Listed
      BY <2>2 DEF CallStep, SuspendThread, ResumeTask, StartThread, Poll, SuspendTask,
             ResumeThread, Listed, Calling, Resumed
    <3>2. threads'[e] \subseteq threads[e] /\ todo'[e] \subseteq threads[e] \cup todo[e]
      <4>1. CASE SuspendThread(e) \/ ResumeThread(e)
        BY <4>1 DEF SuspendThread, ResumeThread, TypeOK
      <4>2. CASE ResumeTask(e) \/ StartThread(e) \/ Poll(e) \/ SuspendTask(e)
        BY <4>2 DEF ResumeTask, StartThread, Poll, SuspendTask, TypeOK
      <4> QED
        BY <2>2, <4>1, <4>2 DEF CallStep
    <3> QED
      BY <3>1, <3>2
  <2> QED
    BY <1>4, <2>1, <2>2
<1>5. ASSUME NEW d \in Debuggers, d # e, Look(d) \/ CallStep(d)
      PROVE  dpc[e] \in Listed /\ t \in threads[e] \cup todo[e]
  <2>1. dpc'[e] = dpc[e] /\ threads'[e] = threads[e] /\ todo'[e] = todo[e]
    BY <1>5, DebuggerFrame
  <2> QED
    BY <2>1
<1>6. ASSUME NEW u \in Starters, StarterStep(u)
      PROVE  dpc[e] \in Listed /\ t \in threads[e] \cup todo[e]
  BY <1>6, StarterFrame
<1>7. ASSUME UNCHANGED vars PROVE dpc[e] \in Listed /\ t \in threads[e] \cup todo[e]
  BY <1>7 DEF vars, callVars
<1> QED
  BY <1>2, <1>3, <1>4, <1>5, <1>6, <1>7 DEF Next, CallStep, Finished

(* While a debugger is on its own, the others are idle and resume nothing.   *)
LEMMA OthersIdle ==
  ASSUME TypeOK, CallsInv, Alone, NEW d \in Debuggers, calls[d] > 0
  PROVE  /\ \A e \in Debuggers \ {d} : calls[e] = 0 /\ dpc[e] = "idle"
         /\ Resumers \subseteq {d}
<1>1. \A e \in Debuggers \ {d} : calls[e] = 0
  BY DEF Alone, TypeOK
<1>2. \A e \in Debuggers \ {d} : dpc[e] = "idle"
  BY <1>1 DEF CallsInv
<1> QED
  BY <1>1, <1>2 DEF Resumers, Resumed

(* A task held more than once is still suspended in a call of a debugger on  *)
(* its own.                                                                  *)
LEMMA HeldTwice ==
  ASSUME TypeOK, CallsInv, TaskInv, Alone, HeldCount > 1
  PROVE  taskSuspended > 0
<1>1. Resumers \in SUBSET Debuggers
  BY DEF Resumers
<1>2. \A d \in Resumers : calls[d] > 0
  BY DEF Resumers, Resumed, CallsInv, TypeOK
<1>3. \A d, e \in Resumers : d = e
  BY <1>1, <1>2 DEF Alone
<1>4. Cardinality(Resumers) \in Nat /\ Cardinality(Resumers) <= 1
  BY <1>1, <1>3, CountedOrNot
<1> QED
  BY <1>4 DEF TaskInv, TypeOK, StartersAssumption

(* A debugger on its own that polls until its tries are used up has started  *)
(* a thread that serves or none is left.                                     *)
LEMMA PollEnds ==
  ASSUME StartInv, Alone, HeldCount <= 1, NEW d \in Debuggers, Poll(d),
         NEW t \in Starters, Exists(t)
  PROVE  tpc[t] \in {"serve", "serving"}
<1>1. TypeOK /\ CallsInv /\ TaskInv /\ CountInv /\ AloneInv
  BY DEF StartInv
<1>2. SectionInv /\ OneStarter
  BY <1>1 DEF AloneInv
<1>3. dpc[d] = "poll" /\ (SectionIsSet \/ NoneStarting)
  BY DEF Poll
<1>4. CASE SectionIsSet
  <2>1. sectionPort \in Starters /\ tpc[sectionPort] \in {"serve", "serving"}
    BY <1>1, <1>2, <1>4 DEF SectionIsSet, SectionInv, TypeOK
  <2>2. Exists(sectionPort)
    BY <2>1 DEF Exists
  <2>3. t = sectionPort
    BY <1>2, <2>1, <2>2 DEF OneStarter
  <2> QED
    BY <2>1, <2>3
<1>5. CASE NoneStarting
  <2>1. calls[d] > 0
    BY <1>1, <1>3 DEF CallsInv, TypeOK
  <2>2. /\ \A e \in Debuggers \ {d} : dpc[e] = "idle"
        /\ Resumers \subseteq {d}
    BY <1>1, <2>1, OthersIdle
  <2>3. suspendCount[t] = 0
    <3>1. t \notin threads[d]
      BY <1>2, <1>3 DEF OneStarter, Listed, Calling, Resumed
    <3>2. Suspenders(t) = {}
      BY <1>3, <2>2, <3>1 DEF Suspenders, Suspends, Calling, Resumed
    <3>3. Cardinality(Suspenders(t)) = 0
      BY <3>2, CountedOrNot
    <3> QED
      BY <1>1, <3>3 DEF CountInv, All
  <2>4. taskSuspended = 0
    <3>1. Cardinality(Resumers) \in Nat /\ taskSuspended + Cardinality(Resumers) = HeldCount
      <4>1. Resumers \in SUBSET Debuggers
        BY DEF Resumers
      <4> QED
        BY <1>1, <4>1, CountedOrNot DEF TaskInv
    <3>2. CASE HeldCount = 0
      BY <1>1, <3>1, <3>2 DEF TypeOK
    <3>3. CASE HeldCount > 0
      <4>1. taskResumed[d]
        BY <1>1, <1>3, <3>3 DEF AloneInv, Resumed
      <4>2. Resumers = {d}
        BY <1>3, <2>2, <4>1 DEF Resumers, Resumed
      <4>3. Cardinality(Resumers) = 1
        BY <4>2, FS_Singleton
      <4> QED
        BY <1>1, <3>1, <3>3, <4>3 DEF TypeOK, StartersAssumption
    <3> QED
      BY <3>2, <3>3 DEF StartersAssumption
  <2>5. Runnable(t)
    BY <2>3, <2>4 DEF Runnable
  <2> QED
    BY <1>5, <2>5 DEF NoneStarting
<1> QED
  BY <1>3, <1>4, <1>5

(* A step of a debugger on its own leaves one debug thread at most, named by *)
(* the section once it has announced itself.                                 *)
LEMMA AloneDebuggerStep ==
  ASSUME StartInv, Alone, Alone', TypeOK', CallsInv', NEW d \in Debuggers,
         Look(d) \/ CallStep(d)
  PROVE  /\ SectionInv'
         /\ HeldCount > 1 => NoneRuns'
         /\ HeldCount <= 1 => OneStarter'
         /\ \A e \in Debuggers : (dpc[e] \in Resumed)' /\ HeldCount > 0 => taskResumed'[e]
<1>1. TypeOK /\ CallsInv /\ TaskInv /\ CountInv /\ AloneInv
  BY DEF StartInv
<1>2. /\ SectionInv
      /\ HeldCount > 1 => NoneRuns
      /\ HeldCount <= 1 => OneStarter
      /\ \A e \in Debuggers : dpc[e] \in Resumed /\ HeldCount > 0 => taskResumed[e]
  BY <1>1 DEF AloneInv
<1>3. /\ \A e \in Debuggers \ {d} :
           /\ dpc'[e] = dpc[e] /\ calls'[e] = calls[e]
           /\ threads'[e] = threads[e] /\ todo'[e] = todo[e]
           /\ taskResumed'[e] = taskResumed[e]
      /\ UNCHANGED <<sectionThread, sectionPort, debugThread, debugPort, debugLock>>
      /\ \A t \in Starters :
           \/ tpc'[t] = tpc[t]
           \/ dpc[d] = "start" /\ tpc[t] = "unborn" /\ tpc'[t] = "begin"
      /\ dpc'[d] # "idle"
  BY <1>1, DebuggerFrame
<1>4. /\ \A e \in Debuggers \ {d} : calls'[e] = 0 /\ dpc'[e] = "idle"
      /\ \A e \in Debuggers \ {d} : calls[e] = 0 /\ dpc[e] = "idle"
  <2>1. calls'[d] > 0
    BY <1>3 DEF CallsInv, TypeOK
  <2>2. \A e \in Debuggers \ {d} : calls'[e] = 0
    BY <2>1 DEF Alone, TypeOK
  <2> QED
    BY <1>1, <1>3, <2>2 DEF CallsInv
<1>5. SectionInv'
  <2>1. \A t \in Starters : tpc[t] \in Announced => tpc'[t] = tpc[t]
    BY <1>3 DEF Announced
  <2>2. \A t \in Starters : tpc'[t] # "begin" => tpc'[t] = tpc[t]
    BY <1>3
  <2>3. \A t \in Starters :
          /\ tpc'[t] \in {"test", "setThread"} => debugThread' = t
          /\ tpc'[t] \in Announced => sectionThread' = t
          /\ tpc'[t] = "setPort" => debugPort' = t
          /\ tpc'[t] \in {"serve", "serving"} => sectionPort' = t
    BY <1>2, <1>3, <2>2 DEF SectionInv, Announced
  <2>4. sectionThread' # Null => tpc'[sectionThread'] \in Announced
    BY <1>1, <1>2, <1>3, <2>1 DEF SectionInv, TypeOK
  <2>5. sectionPort' # Null => tpc'[sectionPort'] \in {"serve", "serving"}
    BY <1>1, <1>2, <1>3, <2>1 DEF SectionInv, TypeOK, Announced
  <2> QED
    BY <2>3, <2>4, <2>5 DEF SectionInv
<1>6. ASSUME HeldCount > 1 PROVE NoneRuns'
  BY <1>2, <1>3, <1>6 DEF NoneRuns
<1>7. ASSUME HeldCount > 0, NEW e \in Debuggers, dpc'[e] \in Resumed PROVE taskResumed'[e]
  <2>1. e = d
    BY <1>4, <1>7 DEF Resumed
  <2>2. CASE ResumeTask(d)
    <3>1. Resumers = {}
      BY <1>4, <2>2 DEF Resumers, Resumed, ResumeTask
    <3>2. taskSuspended = HeldCount
      BY <1>1, <3>1, FS_EmptySet DEF TaskInv, TypeOK
    <3> QED
      BY <1>1, <1>7, <2>1, <2>2, <3>2 DEF ResumeTask, TypeOK
  <2>3. CASE StartThread(d) \/ Poll(d)
    <3>1. dpc[d] \in Resumed /\ taskResumed' = taskResumed
      BY <2>3 DEF StartThread, Poll, Resumed
    <3> QED
      BY <1>2, <1>7, <2>1, <3>1
  <2>4. CASE Look(d) \/ ListThreads(d) \/ SuspendThread(d) \/ SuspendTask(d) \/ ResumeThread(d)
    <3>1. dpc'[d] \notin Resumed
      BY <1>1, <2>4 DEF Look, ListThreads, SuspendThread, SuspendTask, ResumeThread, DGoto,
             TypeOK, Resumed
    <3> QED
      BY <1>7, <2>1, <3>1
  <2> QED
    BY <2>2, <2>3, <2>4 DEF CallStep
<1>8. ASSUME HeldCount <= 1 PROVE OneStarter'
  <2>1. OneStarter
    BY <1>2, <1>8
  <2>2. ASSUME tpc' = tpc,
               dpc'[d] \in {"list", "suspend", "resumeTask", "start"} =>
                 \A t \in Starters : ~Exists(t),
               dpc'[d] \in Listed => (threads'[d] \cup todo'[d]) \cap Starters = {},
               dpc'[d] \notin {"idle", "poll"} =>
                 \A t \in Starters : Exists(t) => tpc[t] \in {"serve", "serving"}
        PROVE  OneStarter'
    <3>1. \A t \in Starters : Exists(t)' <=> Exists(t)
      BY <2>2 DEF Exists
    <3>2. \A e \in Debuggers \ {d} : dpc'[e] = "idle"
      BY <1>4
    <3> QED
      BY <2>1, <2>2, <3>1, <3>2 DEF OneStarter, Listed, Calling, Resumed
  <2>3. CASE Look(d)
    <3>1. /\ dpc[d] \in {"idle", "done", "failed"} /\ tpc' = tpc
          /\ dpc'[d] = IF SectionIsSet THEN "done" ELSE "list"
      BY <1>1, <2>3 DEF Look, DGoto, TypeOK, dyldVars
    <3>2. ASSUME NEW t \in Starters, Exists(t)
          PROVE  SectionIsSet /\ tpc[t] \in {"serve", "serving"}
      <4>1. CASE dpc[d] = "idle"
        <5>1. \A e \in Debuggers : calls[e] = 0
          BY <1>1, <1>4, <4>1 DEF CallsInv
        <5>2. tpc[t] = "unborn"
          BY <1>1, <5>1 DEF CallsInv
        <5> QED
          BY <3>2, <5>2 DEF Exists, StartersAssumption
      <4>2. CASE dpc[d] # "idle"
        <5>1. tpc[t] \in {"serve", "serving"}
          BY <2>1, <3>1, <3>2, <4>2 DEF OneStarter
        <5>2. sectionThread = t /\ sectionPort = t
          BY <1>2, <5>1 DEF SectionInv, Announced
        <5> QED
          BY <5>1, <5>2 DEF SectionIsSet, StartersAssumption
      <4> QED
        BY <4>1, <4>2
    <3>3. dpc'[d] \notin Listed
      BY <3>1 DEF Listed, Calling, Resumed
    <3> QED
      BY <2>2, <3>1, <3>2, <3>3
  <2>4. CASE ListThreads(d)
    <3>1. /\ dpc[d] = "list" /\ tpc' = tpc
          /\ threads'[d] = {t \in All : Exists(t)} /\ todo'[d] = threads'[d]
      BY <1>1, <2>4 DEF ListThreads, TypeOK, dyldVars
    <3>2. \A t \in Starters : ~Exists(t)
      BY <2>1, <3>1 DEF OneStarter
    <3> QED
      BY <2>2, <3>1, <3>2
  <2>5. CASE SuspendThread(d)
    <3>1. /\ dpc[d] = "suspend" /\ tpc' = tpc
          /\ threads'[d] = threads[d] /\ todo'[d] \subseteq todo[d]
      BY <1>1, <2>5 DEF SuspendThread, TypeOK, dyldVars
    <3>2. /\ \A t \in Starters : ~Exists(t)
          /\ (threads[d] \cup todo[d]) \cap Starters = {}
      BY <2>1, <3>1 DEF OneStarter, Listed
    <3> QED
      BY <2>2, <3>1, <3>2
  <2>6. CASE ResumeTask(d)
    <3>1. /\ dpc[d] = "resumeTask" /\ tpc' = tpc
          /\ threads'[d] = threads[d] /\ todo'[d] = todo[d]
      BY <1>1, <2>6 DEF ResumeTask, TypeOK, dyldVars
    <3>2. /\ \A t \in Starters : ~Exists(t)
          /\ (threads[d] \cup todo[d]) \cap Starters = {}
      BY <2>1, <3>1 DEF OneStarter, Listed, Calling
    <3> QED
      BY <2>2, <3>1, <3>2
  <2>7. CASE StartThread(d)
    <3>1. /\ dpc[d] = "start" /\ dpc'[d] = "poll"
          /\ threads'[d] = threads[d] /\ todo'[d] = todo[d]
      BY <1>1, <2>7 DEF StartThread, DGoto, TypeOK
    <3>2. PICK s \in Starters : tpc' = [tpc EXCEPT ![s] = "begin"]
      BY <2>7 DEF StartThread
    <3>3. /\ \A t \in Starters : ~Exists(t)
          /\ (threads[d] \cup todo[d]) \cap Starters = {}
      BY <2>1, <3>1 DEF OneStarter, Listed, Calling, Resumed
    <3>4. \A t \in Starters \ {s} : ~Exists(t)'
      BY <1>1, <3>2, <3>3 DEF Exists, TypeOK
    <3>5. \A t, u \in Starters : Exists(t)' /\ Exists(u)' => t = u
      BY <3>4
    <3>6. \A e \in Debuggers : dpc'[e] \in {"idle", "poll"}
      BY <1>4, <3>1
    <3>7. \A e \in Debuggers : dpc'[e] \in Listed =>
            (threads'[e] \cup todo'[e]) \cap Starters = {}
      BY <1>4, <3>1, <3>3 DEF Listed, Calling, Resumed
    <3> QED
      BY <3>5, <3>6, <3>7 DEF OneStarter
  <2>8. CASE Poll(d)
    <3>1. /\ dpc[d] = "poll" /\ dpc'[d] = "suspendTask" /\ tpc' = tpc
          /\ threads'[d] = threads[d] /\ todo'[d] = todo[d]
      BY <1>1, <2>8 DEF Poll, DGoto, TypeOK, dyldVars
    <3>2. (threads[d] \cup todo[d]) \cap Starters = {}
      BY <2>1, <3>1 DEF OneStarter, Listed, Calling, Resumed
    <3>3. \A t \in Starters : Exists(t) => tpc[t] \in {"serve", "serving"}
      BY <1>8, <2>8, PollEnds
    <3> QED
      BY <2>2, <3>1, <3>2, <3>3
  <2>9. CASE SuspendTask(d) \/ ResumeThread(d)
    <3>1. /\ dpc[d] \in {"suspendTask", "resume"} /\ tpc' = tpc
          /\ dpc'[d] \in {"resume", "done", "failed"}
          /\ threads'[d] \subseteq threads[d] /\ todo'[d] \subseteq threads[d] \cup todo[d]
      BY <1>1, <2>9 DEF SuspendTask, ResumeThread, DGoto, TypeOK, dyldVars
    <3>2. /\ \A t \in Starters : Exists(t) => tpc[t] \in {"serve", "serving"}
          /\ (threads[d] \cup todo[d]) \cap Starters = {}
      BY <2>1, <3>1 DEF OneStarter, Listed, Calling, Resumed
    <3> QED
      BY <2>2, <3>1, <3>2
  <2> QED
    BY <2>3, <2>4, <2>5, <2>6, <2>7, <2>8, <2>9 DEF CallStep
<1> QED
  BY <1>5, <1>6, <1>7, <1>8

(* A created thread's step keeps what a debugger on its own relies on: it    *)
(* puts itself into the section, and out of it again when it gets no port.   *)
LEMMA AloneStarterStep ==
  ASSUME StartInv, Alone, NEW t \in Starters, StarterStep(t)
  PROVE  /\ SectionInv'
         /\ HeldCount > 1 => NoneRuns'
         /\ HeldCount <= 1 => OneStarter'
<1>1. TypeOK /\ CallsInv /\ TaskInv /\ AloneInv
  BY DEF StartInv
<1>2. /\ UNCHANGED <<taskSuspended, suspendCount, dpc, calls, threads, todo, taskResumed>>
      /\ Exists(t) /\ taskSuspended = 0
      /\ \A u \in Starters \ {t} : tpc'[u] = tpc[u]
      /\ tpc'[t] \in TPcs \ {"unborn", "begin"}
  BY <1>1, StarterFrame
<1>3. HeldCount <= 1
  <2>1. ~(HeldCount > 1)
    BY <1>1, <1>2, HeldTwice
  <2> QED
    BY <2>1 DEF StartersAssumption
<1>4. SectionInv /\ OneStarter
  BY <1>1, <1>3 DEF AloneInv
<1>5. \A u \in Starters \ {t} : tpc[u] \in {"unborn", "failed", "dead"}
  BY <1>2, <1>4 DEF OneStarter, Exists
<1>6. \A u \in Starters \ {t} : tpc'[u] \in {"unborn", "failed", "dead"} /\ ~Exists(u)'
  <2>1. \A u \in Starters : u \notin Threads
    BY DEF StartersAssumption
  <2> QED
    BY <1>2, <1>5, <2>1 DEF Exists
<1>7. SectionInv'
  <2>1. ASSUME tpc'[t] \in {"test", "setThread"} => debugThread' = t,
               tpc'[t] \in Announced => sectionThread' = t,
               tpc'[t] = "setPort" => debugPort' = t,
               tpc'[t] \in {"serve", "serving"} => sectionPort' = t,
               sectionThread' = Null \/ (sectionThread' = t /\ tpc'[t] \in Announced),
               sectionPort' = Null \/ (sectionPort' = t /\ tpc'[t] \in {"serve", "serving"})
        PROVE  SectionInv'
    BY <1>6, <2>1 DEF SectionInv, Announced
  <2>2. /\ sectionThread = Null \/ (sectionThread = t /\ tpc[t] \in Announced)
        /\ sectionPort = Null \/ (sectionPort = t /\ tpc[t] \in {"serve", "serving"})
    BY <1>1, <1>4, <1>5 DEF SectionInv, Announced, TypeOK
  <2>3. t # Null
    BY DEF StartersAssumption
  <2>4. CASE SetDebugThread(t)
    <3>1. /\ debugThread' = t /\ tpc'[t] = "test" /\ tpc[t] = "begin"
          /\ sectionThread' = sectionThread /\ sectionPort' = sectionPort
      BY <1>1, <2>4 DEF SetDebugThread, TGoto, TypeOK, sectionVars
    <3> QED
      BY <2>1, <2>2, <3>1 DEF Announced
  <2>5. CASE TestLock(t)
    <3>1. /\ debugThread' = debugThread /\ tpc'[t] = "setThread" /\ tpc[t] = "test"
          /\ sectionThread' = sectionThread /\ sectionPort' = sectionPort
      BY <1>1, <2>5 DEF TestLock, TGoto, TypeOK, CallsInv, sectionVars
    <3> QED
      BY <1>4, <2>1, <2>2, <3>1 DEF SectionInv, Announced
  <2>6. CASE SetSectionThread(t)
    <3>1. /\ tpc'[t] = "allocate" /\ tpc[t] = "setThread"
          /\ sectionThread' = debugThread /\ sectionPort' = sectionPort
      BY <1>1, <2>6 DEF SetSectionThread, TGoto, TypeOK
    <3>2. sectionThread' = t
      BY <1>4, <3>1 DEF SectionInv
    <3> QED
      BY <2>1, <2>2, <3>1, <3>2 DEF Announced
  <2>7. CASE AllocatePort(t)
    <3>1. /\ tpc[t] = "allocate" /\ tpc'[t] \in {"setPort", "clear"}
          /\ tpc'[t] = "setPort" => debugPort' = t
          /\ sectionThread' = sectionThread /\ sectionPort' = sectionPort
      BY <1>1, <2>7 DEF AllocatePort, TGoto, TypeOK, sectionVars
    <3>2. sectionThread' = t
      BY <1>4, <3>1 DEF SectionInv, Announced
    <3> QED
      BY <2>1, <2>2, <3>1, <3>2 DEF Announced
  <2>8. CASE SetSectionPort(t)
    <3>1. /\ tpc[t] = "setPort" /\ tpc'[t] = "serve"
          /\ sectionPort' = debugPort /\ sectionThread' = sectionThread
      BY <1>1, <2>8 DEF SetSectionPort, TGoto, TypeOK
    <3>2. sectionPort' = t /\ sectionThread' = t
      BY <1>4, <3>1 DEF SectionInv, Announced
    <3> QED
      BY <2>1, <3>1, <3>2 DEF Announced
  <2>9. CASE Serve(t)
    <3>1. /\ tpc[t] = "serve" /\ tpc'[t] = "serving"
          /\ sectionPort' = sectionPort /\ sectionThread' = sectionThread
      BY <1>1, <2>9 DEF Serve, TGoto, TypeOK, sectionVars
    <3>2. sectionPort' = t /\ sectionThread' = t
      BY <1>4, <3>1 DEF SectionInv, Announced
    <3> QED
      BY <2>1, <3>1, <3>2 DEF Announced
  <2>10. CASE ClearLock(t)
    <3>1. /\ tpc[t] = "clear" /\ tpc'[t] = "unset"
          /\ sectionPort' = sectionPort /\ sectionThread' = sectionThread
      BY <1>1, <2>10 DEF ClearLock, TGoto, TypeOK, sectionVars
    <3>2. sectionThread' = t
      BY <1>4, <3>1 DEF SectionInv, Announced
    <3> QED
      BY <2>1, <2>2, <3>1, <3>2 DEF Announced
  <2>11. CASE UnsetSection(t)
    <3>1. /\ tpc[t] = "unset" /\ tpc'[t] = "failed"
          /\ sectionPort' = sectionPort /\ sectionThread' = Null
      BY <1>1, <2>11 DEF UnsetSection, TGoto, TypeOK
    <3> QED
      BY <2>1, <2>2, <3>1 DEF Announced
  <2> QED
    BY <2>4, <2>5, <2>6, <2>7, <2>8, <2>9, <2>10, <2>11 DEF StarterStep
<1>8. OneStarter'
  <2>1. \A u, v \in Starters : Exists(u)' /\ Exists(v)' => u = v
    BY <1>6
  <2>2. tpc[t] \in {"serve", "serving"} => tpc'[t] \in {"serve", "serving"}
    BY <1>1 DEF StarterStep, SetDebugThread, TestLock, SetSectionThread, AllocatePort,
           SetSectionPort, Serve, ClearLock, UnsetSection, TGoto, TypeOK
  <2>3. \A d \in Debuggers :
          dpc[d] \notin {"idle", "poll"} => tpc[t] \in {"serve", "serving"}
    BY <1>2, <1>4 DEF OneStarter
  <2>4. \A d \in Debuggers :
          dpc'[d] \notin {"idle", "poll"} =>
            \A u \in Starters : Exists(u)' => tpc'[u] \in {"serve", "serving"}
    BY <1>2, <1>6, <2>2, <2>3
  <2>5. \A d \in Debuggers : dpc[d] \notin {"list", "suspend", "resumeTask", "start"}
    BY <1>2, <1>4 DEF OneStarter
  <2>6. \A d \in Debuggers : dpc'[d] \in Listed =>
          (threads'[d] \cup todo'[d]) \cap Starters = {}
    BY <1>2, <1>4 DEF OneStarter
  <2> QED
    BY <1>2, <2>1, <2>4, <2>5, <2>6 DEF OneStarter
<1> QED
  BY <1>3, <1>7, <1>8 DEF StartersAssumption

(* The invariant's last part, over every step.                               *)
LEMMA AloneStep ==
  StartInv /\ [Next]_vars /\ TypeOK' /\ CallsInv' => AloneInv'
<1> SUFFICES ASSUME StartInv, [Next]_vars, TypeOK', CallsInv', Alone'
             PROVE  /\ SectionInv'
                    /\ HeldCount > 1 => NoneRuns'
                    /\ HeldCount <= 1 => OneStarter'
                    /\ \A e \in Debuggers :
                         (dpc[e] \in Resumed)' /\ HeldCount > 0 => taskResumed'[e]
  BY DEF AloneInv
<1>1. Alone
  BY NotUndone DEF StartInv
<1>2. /\ SectionInv
      /\ HeldCount > 1 => NoneRuns
      /\ HeldCount <= 1 => OneStarter
      /\ \A e \in Debuggers : dpc[e] \in Resumed /\ HeldCount > 0 => taskResumed[e]
  BY <1>1 DEF StartInv, AloneInv
<1>3. CASE \E d \in Debuggers : Look(d) \/ CallStep(d)
  BY <1>1, <1>3, AloneDebuggerStep
<1>4. CASE \E t \in Starters : StarterStep(t)
  <2>1. PICK t \in Starters : StarterStep(t)
    BY <1>4
  <2>2. dpc' = dpc /\ taskResumed' = taskResumed
    BY <2>1, StarterFrame DEF StartInv
  <2>3. /\ SectionInv'
        /\ HeldCount > 1 => NoneRuns'
        /\ HeldCount <= 1 => OneStarter'
    BY <1>1, <2>1, AloneStarterStep
  <2> QED
    BY <1>2, <2>2, <2>3
<1>5. CASE UNCHANGED vars
  <2>1. UNCHANGED <<sectionThread, sectionPort, debugThread, debugPort, tpc, dpc, threads,
                    todo, taskResumed>>
    BY <1>5 DEF vars, sectionVars, dyldVars, callVars
  <2>2. SectionInv' /\ (HeldCount > 1 => NoneRuns')
    BY <1>2, <2>1 DEF SectionInv, NoneRuns
  <2>3. HeldCount <= 1 => OneStarter'
    BY <1>2, <2>1 DEF OneStarter, Exists
  <2> QED
    BY <1>2, <2>1, <2>2, <2>3
<1> QED
  BY <1>3, <1>4, <1>5 DEF Next, Finished
-----------------------------------------------------------------------------
(* The theorems *)

(* The suspend counts of the task and of its threads are those of the calls  *)
(* under way, and the section names the one debug thread that is alive as    *)
(* long as a debugger is on its own (get_or_start_debug_thread() and         *)
(* start_debug_thread()): for every number of debuggers, threads and calls.  *)
THEOREM StartInvariant == Spec => []StartInv
<1>1. Init => StartInv
  <2> SUFFICES ASSUME Init PROVE StartInv
    OBVIOUS
  <2>1. TypeOK
    <3>1. HeldCount \in Nat /\ 0 \in 0..MaxCalls
      BY DEF StartersAssumption
    <3>2. tpc \in [Starters -> TPcs] /\ dpc \in [Debuggers -> DPcs]
      BY DEF Init, TPcs, DPcs
    <3> QED
      BY <3>1, <3>2 DEF Init, TypeOK
  <2>2. CallsInv
    BY DEF Init, CallsInv
  <2>3. TaskInv
    <3>1. Resumers = {}
      BY DEF Init, Resumers, Resumed
    <3> QED
      BY <3>1, FS_EmptySet DEF Init, TaskInv, StartersAssumption
  <2>4. ExistInv
    BY DEF Init, ExistInv, Listed, Calling, Resumed
  <2>5. CountInv
    <3>1. \A t \in All : Suspenders(t) = {}
      BY DEF Init, Suspenders, Suspends, Calling, Resumed
    <3> QED
      BY <3>1, FS_EmptySet DEF Init, CountInv
  <2>6. AloneInv
    <3>1. \A t \in Starters : ~Exists(t)
      BY DEF Init, Exists, StartersAssumption
    <3>2. OneStarter
      BY <3>1 DEF Init, OneStarter, Listed, Calling, Resumed
    <3>3. SectionInv
      BY DEF Init, SectionInv, Announced
    <3> QED
      BY <3>2, <3>3 DEF Init, AloneInv, NoneRuns, Resumed
  <2> QED
    BY <2>1, <2>2, <2>3, <2>4, <2>5, <2>6 DEF StartInv
<1>2. StartInv /\ [Next]_vars => StartInv'
  <2> SUFFICES ASSUME StartInv, [Next]_vars PROVE StartInv'
    OBVIOUS
  <2>1. TypeOK /\ CallsInv /\ TaskInv /\ ExistInv /\ CountInv /\ AloneInv
    BY DEF StartInv
  <2>2. TypeOK' /\ CallsInv' /\ TaskInv'
    BY <2>1, TypeStep, CallsStep, TaskStep
  <2>3. ExistInv' /\ CountInv'
    BY <2>1, ExistStep, CountStep
  <2>4. AloneInv'
    BY <2>2, AloneStep
  <2> QED
    BY <2>2, <2>3, <2>4 DEF StartInv
<1> QED
  BY <1>1, <1>2, PTL DEF Spec

(* The section, dyld's variables and the suspend counts have their types.    *)
THEOREM StartTypeCorrectness == Spec => []TypeOK
<1>1. StartInv => TypeOK
  BY DEF StartInv
<1> QED
  BY <1>1, StartInvariant, PTL

(* When all calls are done no thread is left suspended and the task is as    *)
(* its debugger held it (task_suspend_threads(), task_resume_threads() and   *)
(* get_or_start_debug_thread()).                                             *)
THEOREM StartKeepsCountsHolds == Spec => []StartKeepsCounts
<1>1. StartInv => StartKeepsCounts
  <2> SUFFICES ASSUME StartInv, AllCalled, Alone \/ NoneFailed
               PROVE  /\ taskSuspended = HeldCount
                      /\ \A t \in All : suspendCount[t] = 0
    BY DEF StartKeepsCounts
  <2>1. Resumers = {} /\ \A t \in All : Suspenders(t) = {}
    BY DEF AllCalled, Resumers, Suspenders, Suspends, Calling, Resumed
  <2>2. TaskInv /\ TypeOK /\ \A t \in All : suspendCount[t] = Cardinality(Suspenders(t))
    BY DEF StartInv, CountInv
  <2>3. Cardinality({}) = 0
    BY FS_EmptySet
  <2>4. taskSuspended = HeldCount
    <3>1. taskSuspended + 0 = HeldCount /\ taskSuspended \in Nat
      BY <2>1, <2>2, <2>3 DEF TaskInv, TypeOK
    <3> QED
      BY <3>1
  <2> QED
    BY <2>1, <2>2, <2>3, <2>4
<1> QED
  BY <1>1, StartInvariant, PTL

(* A debugger on its own is never shown a debug thread that has terminated   *)
(* (the end of start_debug_thread()).                                        *)
THEOREM NoDeadThreadFoundHolds == Spec => []NoDeadThreadFound
<1>1. StartInv => NoDeadThreadFound
  BY DEF StartInv, AloneInv, SectionInv, Announced, NoDeadThreadFound
<1> QED
  BY <1>1, StartInvariant, PTL
=============================================================================
