------------------------------- MODULE Weasel -------------------------------
(***************************************************************************)
(* weasel, the debugger (weasel/weasel.c): its list of breakpoints against *)
(* the memory of the inferior, and the inferior's threads against what     *)
(* wait_for_events() does about their exceptions.                          *)
(*                                                                         *)
(* The user types the commands that change something in any order.  All    *)
(* exceptions are those of breakpoints.  A thread that raises one waits    *)
(* for a reply; weasel sends none, but aborts the wait of thread 0.        *)
(***************************************************************************)
EXTENDS Naturals, Sequences, SequencesExt, FiniteSets

CONSTANTS Threads,         \* of the inferior
          Main,            \* inferior_threads[0]
          Addresses,       \* where breakpoints are set
          MaxBreakpoints,  \* bound: how many are set
          MaxQueue         \* bound: exceptions that wait to be received

ASSUME WeaselAssumption ==
  /\ Main \in Threads
  /\ MaxBreakpoints \in Nat /\ MaxQueue \in Nat \ {0}

VARIABLES
  mode,         \* what weasel does
  inPtrace,     \* inferior_in_ptrace
  nextId,       \* next_breakpoint_id
  breakpoints,  \* the list, from its head
  memory,       \* the inferior's words at these addresses
  pc,           \* where each of its threads is
  suspended,    \* thread_suspend() of thread 0 less thread_resume()
  blocked,      \* the threads that wait for the reply to an exception
  queue,        \* exception_port
  orphans       \* history: where a breakpoint could not be taken out again

weasel   == <<mode, inPtrace, nextId, breakpoints, memory, orphans>>
inferior == <<pc, suspended, blocked, queue>>
vars     == <<weasel, inferior>>

Words == {"instruction", "trap"}

TypeOK ==
  /\ mode \in {"prompt", "listening", "loop", "quit"}
  /\ inPtrace \in BOOLEAN
  /\ nextId \in 1 .. MaxBreakpoints + 1
  /\ breakpoints \in Seq([id : 1 .. MaxBreakpoints, addr : Addresses, orig : Words])
  /\ \A i, j \in DOMAIN breakpoints : i < j => breakpoints[i].id > breakpoints[j].id
  /\ memory \in [Addresses -> Words]
  /\ pc \in [Threads -> Addresses]
  /\ suspended \in Nat
  /\ blocked \subseteq Threads
  /\ queue \in Seq(Threads)
  /\ orphans \subseteq Addresses

\* start_inferior() and attach_to_process()
Init ==
  /\ mode = "prompt"
  /\ inPtrace = TRUE
  /\ nextId = 1
  /\ breakpoints = << >>
  /\ memory = [a \in Addresses |-> "instruction"]
  /\ pc \in [Threads -> Addresses]
  /\ suspended = 0
  /\ blocked = {}
  /\ queue = << >>
  /\ orphans = {}
-----------------------------------------------------------------------------
(* The commands *)

WithTail(b) == Append(breakpoints, b)
WithHead(b) == <<b>> \o breakpoints

SavedTooLate(a) == "trap"
Saved(a) == memory[a]

\* What vm_write() cannot write stays as it is, and in the list all the same.
SetBreakpoint(a) ==
  /\ mode = "prompt"
  /\ nextId <= MaxBreakpoints
  /\ breakpoints' = WithHead([id |-> nextId, addr |-> a, orig |-> Saved(a)])
  /\ memory' \in {memory, [memory EXCEPT ![a] = "trap"]}
  /\ nextId' = nextId + 1
  /\ UNCHANGED <<mode, inPtrace, orphans, inferior>>

\* delete_breakpoint() of what is at the head of the list: out of the list
\* first, then out of the memory, if it can be written ...
DeleteHead ==
  LET b == Head(breakpoints)
  IN /\ breakpoints' = Tail(breakpoints)
     /\ \/ /\ memory' = [memory EXCEPT ![b.addr] = b.orig]
           /\ UNCHANGED orphans
        \/ /\ orphans' = orphans \cup {b.addr}
           /\ UNCHANGED memory

\* ... and of anything else: the loop stays at the head.
Deleted(id) == breakpoints # << >> /\ Head(breakpoints).id = id
LoopsFor(id) == breakpoints # << >> /\ Head(breakpoints).id # id

DeleteBreakpoint(id) ==
  /\ mode = "prompt"
  /\ \/ Deleted(id) /\ DeleteHead /\ UNCHANGED mode
     \/ LoopsFor(id) /\ mode' = "loop" /\ UNCHANGED <<breakpoints, memory, orphans>>
  /\ UNCHANGED <<inPtrace, nextId, inferior>>

Resumed == IF suspended > 0 THEN suspended - 1 ELSE 0

\* The first time the inferior is let go, then thread 0 is resumed.
Continue ==
  /\ mode = "prompt"
  /\ mode' = "listening"
  /\ inPtrace' = FALSE
  /\ suspended' = IF inPtrace THEN suspended ELSE Resumed
  /\ UNCHANGED <<nextId, breakpoints, memory, orphans, pc, blocked, queue>>

\* The user quits, or the inferior has exited.
Quit ==
  /\ mode \in {"prompt", "listening"}
  /\ mode' = "quit"
  /\ UNCHANGED <<inPtrace, nextId, breakpoints, memory, orphans, inferior>>
-----------------------------------------------------------------------------
(* The inferior *)

Runs(t) ==
  /\ mode # "quit"
  /\ ~inPtrace
  /\ t \notin blocked
  /\ t = Main => suspended = 0

Execute(t) ==
  /\ Runs(t)
  /\ memory[pc[t]] = "instruction"
  /\ \E a \in Addresses : pc' = [pc EXCEPT ![t] = a]
  /\ UNCHANGED <<weasel, suspended, blocked, queue>>

Trap(t) ==
  /\ Runs(t)
  /\ memory[pc[t]] = "trap"
  /\ Len(queue) < MaxQueue
  /\ blocked' = blocked \cup {t}
  /\ queue' = Append(queue, t)
  /\ UNCHANGED <<weasel, pc, suspended>>
-----------------------------------------------------------------------------
(* wait_for_events() and catch_exception_raise() *)

NobodyAborted == blocked

\* thread_abort() of thread 0, whichever thread the exception is of
Aborted == blocked \ {Main}

\* The first breakpoint at the place where thread 0 is
Hit ==
  LET i == SelectInSeq(breakpoints, LAMBDA b : b.addr = pc[Main])
  IN IF i = 0 THEN 0 ELSE breakpoints[i].id

Receive ==
  /\ mode = "listening"
  /\ queue # << >>
  /\ queue' = Tail(queue)
  /\ suspended' = suspended + 1
  /\ blocked' = Aborted
  /\ \/ Hit = 0 /\ mode' = "prompt" /\ UNCHANGED <<breakpoints, memory, orphans>>
     \/ Hit # 0 /\ Deleted(Hit) /\ DeleteHead /\ mode' = "prompt"
     \/ Hit # 0 /\ LoopsFor(Hit) /\ mode' = "loop" /\ UNCHANGED <<breakpoints, memory, orphans>>
  /\ UNCHANGED <<inPtrace, nextId, pc>>
-----------------------------------------------------------------------------
Next == \/ \E a \in Addresses : SetBreakpoint(a)
        \/ \E id \in 1 .. MaxBreakpoints : DeleteBreakpoint(id)
        \/ Continue \/ Quit \/ Receive
        \/ \E t \in Threads : Execute(t) \/ Trap(t)

Spec == Init /\ [][Next]_vars

\* Every thread that can run does, and the user continues.
LiveSpec == Spec /\ WF_vars(Receive) /\ WF_vars(Continue)
                 /\ \A t \in Threads : WF_vars(Execute(t) \/ Trap(t))
-----------------------------------------------------------------------------
(* Deleting all breakpoints puts every instruction back, even where several  *)
(* were set at one address: the word saved last is that of the breakpoint    *)
(* set before, the one saved first is the instruction; and there is no trap  *)
(* without a breakpoint in the list, unless the memory could not be written. *)
InstructionsAreKept ==
  \A a \in Addresses \ orphans :
    LET here == {i \in DOMAIN breakpoints : breakpoints[i].addr = a}
    IN /\ \A first \in here :
            (\A i \in here : i <= first) => breakpoints[first].orig = "instruction"
       /\ here = {} => memory[a] = "instruction"

(* "c continue execution": at the prompt thread 0 stands still, suspended    *)
(* once; while weasel listens it runs, or the exception it waits in is still *)
(* to be received.  Otherwise the user would continue a thread that cannot.  *)
ContinueContinues ==
  /\ mode = "prompt" => inPtrace \/ suspended = 1
  /\ mode = "listening" => suspended = 0 /\ (Main \in blocked => Main \in ToSet(queue))

(* "x delete the breakpoint with the given number": the command, and         *)
(* wait_for_events() for the breakpoint hit, come to an end.                 *)
DeletingEnds == mode # "loop"

(* A thread that has stopped at a breakpoint goes on when the user does.     *)
StoppedThreadsGoOn ==
  \A t \in Threads : t \in blocked ~> (t \notin blocked \/ mode \in {"loop", "quit"})
=============================================================================
