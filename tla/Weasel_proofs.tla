----------------------------- MODULE Weasel_proofs -----------------------------
(***************************************************************************)
(* Proofs about Weasel, for any number of threads, addresses and           *)
(* breakpoints: the words the list keeps lead back to the instructions,    *)
(* and a continued thread 0 runs or has an exception still to be received. *)
(***************************************************************************)
EXTENDS Weasel, SequenceLemmas, TLAPS

USE WeaselAssumption DEF Words

\* Breakpoints are numbered in the order they are set.
NumbersInv == \A i \in DOMAIN breakpoints : breakpoints[i].id < nextId

\* What the kernel keeps of thread 0, against where the command loop is: until
\* the inferior is let go, nothing; at the prompt it is suspended once and does
\* not wait; while weasel listens it is not suspended.
KernelInv ==
  /\ inPtrace => mode # "listening" /\ suspended = 0 /\ blocked = {} /\ queue = << >>
  /\ mode = "prompt" /\ ~inPtrace => suspended = 1 /\ Main \notin blocked
  /\ mode = "listening" =>
       suspended = 0 /\ (Main \in blocked => Main \in ToSet(queue))

WeaselInv == TypeOK /\ NumbersInv /\ InstructionsAreKept /\ KernelInv

LEMMA InitWeaselInv == Init => WeaselInv
<1> SUFFICES ASSUME Init PROVE WeaselInv
  OBVIOUS
<1>1. TypeOK
  BY DEF Init, TypeOK
<1>2. NumbersInv /\ InstructionsAreKept /\ KernelInv
  BY DEF Init, NumbersInv, InstructionsAreKept, KernelInv
<1> QED
  BY <1>1, <1>2 DEF WeaselInv

LEMMA BreakpointType ==
  ASSUME TypeOK, NEW i \in DOMAIN breakpoints
  PROVE  /\ breakpoints[i].id \in Nat
         /\ breakpoints[i].addr \in Addresses
         /\ breakpoints[i].orig \in Words
<1> DEFINE Breakpoint == [id : 1 .. MaxBreakpoints, addr : Addresses, orig : Words]
<1>1. breakpoints \in Seq(Breakpoint)
  BY DEF TypeOK
<1> HIDE DEF Breakpoint
<1>2. breakpoints[i] \in Breakpoint
  BY <1>1
<1> QED
  BY <1>2 DEF Breakpoint

(* A breakpoint is put at the head of the list: the others follow it.        *)
LEMMA WithHeadElements ==
  ASSUME TypeOK, NEW b \in [id : 1 .. MaxBreakpoints, addr : Addresses, orig : Words]
  PROVE  LET list == WithHead(b)
         IN /\ list \in Seq([id : 1 .. MaxBreakpoints, addr : Addresses, orig : Words])
            /\ DOMAIN list = 1 .. Len(breakpoints) + 1
            /\ list[1] = b
            /\ \A i \in DOMAIN breakpoints :
                 i + 1 \in DOMAIN list /\ list[i + 1] = breakpoints[i]
            /\ \A i \in DOMAIN list :
                 i = 1 \/ (i - 1 \in DOMAIN breakpoints /\ list[i] = breakpoints[i - 1])
<1>1. breakpoints \in Seq([id : 1 .. MaxBreakpoints, addr : Addresses, orig : Words])
  BY DEF TypeOK
<1> QED
  BY <1>1, ConsPlaces DEF WithHead

(* ... and when the head is taken off, they are left.                        *)
LEMMA TailOfBreakpoints ==
  ASSUME TypeOK, breakpoints # << >>
  PROVE  LET list == Tail(breakpoints)
         IN /\ list \in Seq([id : 1 .. MaxBreakpoints, addr : Addresses, orig : Words])
            /\ DOMAIN list = 1 .. Len(breakpoints) - 1
            /\ \A i \in DOMAIN list :
                 i + 1 \in DOMAIN breakpoints /\ list[i] = breakpoints[i + 1]
            /\ \A i \in DOMAIN breakpoints : i = 1 \/ i - 1 \in DOMAIN list
            /\ 1 \in DOMAIN breakpoints /\ Head(breakpoints) = breakpoints[1]
<1>1. breakpoints \in Seq([id : 1 .. MaxBreakpoints, addr : Addresses, orig : Words])
  BY DEF TypeOK
<1> QED
  BY <1>1, TailPlaces

(* Setting a breakpoint keeps the list and the memory together: the word     *)
(* saved first at an address is the instruction.                             *)
LEMMA SetBreakpointStep ==
  ASSUME WeaselInv, NEW a \in Addresses, SetBreakpoint(a)
  PROVE  WeaselInv'
<1> DEFINE b == [id |-> nextId, addr |-> a, orig |-> memory[a]]
<1>1. /\ mode = "prompt" /\ nextId <= MaxBreakpoints
      /\ breakpoints' = WithHead(b)
      /\ memory' \in {memory, [memory EXCEPT ![a] = "trap"]}
      /\ nextId' = nextId + 1
      /\ UNCHANGED <<mode, inPtrace, orphans, pc, suspended, blocked, queue>>
  BY DEF SetBreakpoint, Saved, inferior
<1>2. b \in [id : 1 .. MaxBreakpoints, addr : Addresses, orig : Words]
  BY <1>1 DEF WeaselInv, TypeOK
<1>3. b.id = nextId /\ b.addr = a /\ b.orig = memory[a]
  OBVIOUS
<1> HIDE DEF b
<1>4. /\ breakpoints' \in Seq([id : 1 .. MaxBreakpoints, addr : Addresses, orig : Words])
      /\ DOMAIN breakpoints' = 1 .. Len(breakpoints) + 1
      /\ breakpoints'[1] = b
      /\ \A i \in DOMAIN breakpoints :
           i + 1 \in DOMAIN breakpoints' /\ breakpoints'[i + 1] = breakpoints[i]
      /\ \A i \in DOMAIN breakpoints' :
           i = 1 \/ (i - 1 \in DOMAIN breakpoints /\ breakpoints'[i] = breakpoints[i - 1])
  BY <1>1, <1>2, WithHeadElements DEF WeaselInv
<1>5. Len(breakpoints) \in Nat /\ DOMAIN breakpoints = 1 .. Len(breakpoints)
  BY DEF WeaselInv, TypeOK
<1>6. TypeOK'
  <2>1. \A i, j \in DOMAIN breakpoints' :
          i < j => breakpoints'[i].id > breakpoints'[j].id
    <3> SUFFICES ASSUME NEW i \in DOMAIN breakpoints', NEW j \in DOMAIN breakpoints',
                        i < j
                 PROVE  breakpoints'[i].id > breakpoints'[j].id
      OBVIOUS
    <3>1. j - 1 \in DOMAIN breakpoints /\ breakpoints'[j] = breakpoints[j - 1]
      BY <1>4, <1>5
    <3>2. CASE i = 1
      BY <1>3, <1>4, <3>1, <3>2 DEF WeaselInv, NumbersInv, TypeOK
    <3>3. CASE i # 1
      <4>1. i - 1 \in DOMAIN breakpoints /\ breakpoints'[i] = breakpoints[i - 1]
        BY <1>4, <1>5, <3>3
      <4>2. i - 1 < j - 1
        BY <1>4, <1>5
      <4> QED
        BY <3>1, <4>1, <4>2 DEF WeaselInv, TypeOK
    <3> QED
      BY <3>2, <3>3
  <2>2. memory' \in [Addresses -> Words]
    BY <1>1 DEF WeaselInv, TypeOK
  <2>3. nextId' \in 1 .. MaxBreakpoints + 1
    BY <1>1 DEF WeaselInv, TypeOK
  <2> QED
    BY <1>1, <1>4, <2>1, <2>2, <2>3 DEF WeaselInv, TypeOK
<1>7. NumbersInv'
  <2> SUFFICES ASSUME NEW i \in DOMAIN breakpoints' PROVE breakpoints'[i].id < nextId'
    BY DEF NumbersInv
  <2>1. nextId \in Nat /\ nextId < nextId + 1
    BY DEF WeaselInv, TypeOK
  <2>2. CASE i = 1
    BY <1>1, <1>3, <1>4, <2>1, <2>2
  <2>3. CASE i # 1
    <3>1. i - 1 \in DOMAIN breakpoints /\ breakpoints'[i] = breakpoints[i - 1]
      BY <1>4, <2>3
    <3>2. breakpoints[i - 1].id \in Nat /\ breakpoints[i - 1].id < nextId
      BY <3>1, BreakpointType DEF WeaselInv, NumbersInv
    <3> QED
      BY <1>1, <2>1, <3>1, <3>2
  <2> QED
    BY <2>2, <2>3
<1>8. InstructionsAreKept'
  <2> SUFFICES ASSUME NEW x \in Addresses \ orphans
               PROVE  InstructionsAreKept!(x)'
    BY <1>1 DEF InstructionsAreKept
  <2> DEFINE here == {i \in DOMAIN breakpoints : breakpoints[i].addr = x}
             then == {i \in DOMAIN breakpoints' : breakpoints'[i].addr = x}
  <2>0. /\ \A first \in here : (\A i \in here : i <= first)
             => breakpoints[first].orig = "instruction"
        /\ here = {} => memory[x] = "instruction"
    BY DEF WeaselInv, InstructionsAreKept
  <2>1. \A i \in here : i + 1 \in then
    BY <1>4, <1>5
  <2>2. \A first \in then : (\A i \in then : i <= first)
             => breakpoints'[first].orig = "instruction"
    <3> SUFFICES ASSUME NEW first \in then, \A i \in then : i <= first
                 PROVE  breakpoints'[first].orig = "instruction"
      OBVIOUS
    <3>1. CASE first = 1
      \* It is the only one, so the word saved is that of the memory.
      <4>1. x = a
        BY <1>3, <1>4, <3>1
      <4>2. here = {}
        BY <1>5, <2>1, <3>1
      <4> QED
        BY <1>3, <1>4, <2>0, <3>1, <4>1, <4>2
    <3>2. CASE first # 1
      <4>1. first - 1 \in here /\ breakpoints'[first] = breakpoints[first - 1]
        BY <1>4, <1>5, <3>2
      <4>2. \A i \in here : i <= first - 1
        BY <1>4, <1>5, <2>1
      <4> QED
        BY <2>0, <4>1, <4>2
    <3> QED
      BY <3>1, <3>2
  <2>3. then = {} => memory'[x] = "instruction"
    <3> SUFFICES ASSUME then = {} PROVE memory'[x] = "instruction"
      OBVIOUS
    <3>1. here = {} /\ x # a
      BY <1>3, <1>4, <1>5, <2>1
    <3> QED
      BY <1>1, <2>0, <3>1 DEF WeaselInv, TypeOK
  <2> QED
    BY <2>2, <2>3
<1>9. KernelInv'
  BY <1>1 DEF WeaselInv, KernelInv
<1> QED
  BY <1>6, <1>7, <1>8, <1>9 DEF WeaselInv
(* Deleting the breakpoint at the head puts the word back it had saved: the  *)
(* instruction, or the trap of the one before it at the same address.        *)
LEMMA DeleteHeadStep ==
  ASSUME WeaselInv, breakpoints # << >>, DeleteHead, UNCHANGED nextId,
         mode' \in {"prompt", "listening", "loop", "quit"}, UNCHANGED <<inPtrace, pc>>,
         suspended' \in Nat, blocked' \subseteq Threads, queue' \in Seq(Threads)
  PROVE  TypeOK' /\ NumbersInv' /\ InstructionsAreKept'
<1> DEFINE b == Head(breakpoints)
<1>1. /\ breakpoints' \in Seq([id : 1 .. MaxBreakpoints, addr : Addresses, orig : Words])
      /\ DOMAIN breakpoints' = 1 .. Len(breakpoints) - 1
      /\ \A i \in DOMAIN breakpoints' : i + 1 \in DOMAIN breakpoints
                                        /\ breakpoints'[i] = breakpoints[i + 1]
      /\ \A i \in DOMAIN breakpoints : i = 1 \/ i - 1 \in DOMAIN breakpoints'
      /\ 1 \in DOMAIN breakpoints /\ b = breakpoints[1]
  BY TailOfBreakpoints DEF DeleteHead, WeaselInv
<1>2. Len(breakpoints) \in Nat /\ DOMAIN breakpoints = 1 .. Len(breakpoints)
  BY DEF WeaselInv, TypeOK
<1>3. \/ memory' = [memory EXCEPT ![b.addr] = b.orig] /\ orphans' = orphans
      \/ memory' = memory /\ orphans' = orphans \cup {b.addr}
  BY DEF DeleteHead
<1>4. b.addr \in Addresses /\ b.orig \in Words
  BY <1>1, BreakpointType DEF WeaselInv
<1> HIDE DEF b
<1>5. TypeOK'
  <2>1. \A i, j \in DOMAIN breakpoints' :
          i < j => breakpoints'[i].id > breakpoints'[j].id
    <3> TAKE i, j \in DOMAIN breakpoints'
    <3>1. i < j => i + 1 < j + 1
      BY <1>1, <1>2
    <3> QED
      BY <1>1, <3>1 DEF WeaselInv, TypeOK
  <2>2. memory' \in [Addresses -> Words] /\ orphans' \subseteq Addresses
    BY <1>3, <1>4 DEF WeaselInv, TypeOK
  <2> QED
    BY <1>1, <2>1, <2>2 DEF WeaselInv, TypeOK
<1>6. NumbersInv'
  BY <1>1, <1>2 DEF WeaselInv, NumbersInv
<1>7. InstructionsAreKept'
  <2> SUFFICES ASSUME NEW x \in Addresses \ orphans'
               PROVE  InstructionsAreKept!(x)'
    BY DEF InstructionsAreKept
  <2> DEFINE here == {i \in DOMAIN breakpoints : breakpoints[i].addr = x}
             then == {i \in DOMAIN breakpoints' : breakpoints'[i].addr = x}
  <2>0. /\ \A first \in here : (\A i \in here : i <= first)
             => breakpoints[first].orig = "instruction"
        /\ here = {} => memory[x] = "instruction"
    BY <1>3 DEF WeaselInv, InstructionsAreKept
  <2>1. \A i \in then : i + 1 \in here
    BY <1>1
  <2>2. \A i \in here : i = 1 \/ i - 1 \in then
    <3> SUFFICES ASSUME NEW i \in here, i # 1 PROVE i - 1 \in then
      OBVIOUS
    <3>1. i - 1 \in DOMAIN breakpoints' /\ (i - 1) + 1 = i
      BY <1>1, <1>2
    <3> QED
      BY <1>1, <3>1
  <2>3. \A first \in then : (\A i \in then : i <= first)
             => breakpoints'[first].orig = "instruction"
    <3> SUFFICES ASSUME NEW first \in then, \A i \in then : i <= first
                 PROVE  breakpoints'[first].orig = "instruction"
      OBVIOUS
    <3>1. \A i \in here : i <= first + 1
      <4> TAKE i \in here
      <4>1. i \in Nat /\ first \in Nat /\ first >= 1
        BY <1>1, <1>2
      <4>2. CASE i - 1 \in then
        BY <4>1, <4>2
      <4> QED
        BY <2>2, <4>1, <4>2
    <3>2. first + 1 \in here /\ breakpoints'[first] = breakpoints[first + 1]
      BY <1>1, <2>1
    <3> QED
      BY <2>0, <3>1, <3>2
  <2>4. then = {} => memory'[x] = "instruction"
    <3> SUFFICES ASSUME then = {} PROVE memory'[x] = "instruction"
      OBVIOUS
    <3>1. here \subseteq {1}
      BY <2>2
    <3>2. CASE here = {}
      BY <1>1, <1>3, <1>4, <2>0, <3>2 DEF WeaselInv, TypeOK
    <3>3. CASE here = {1}
      \* It was the only one, and the memory could be written.
      <4>1. b.addr = x /\ b.orig = "instruction"
        BY <1>1, <2>0, <3>3
      <4> QED
        BY <1>3, <4>1 DEF WeaselInv, TypeOK
    <3> QED
      BY <3>1, <3>2, <3>3
  <2> QED
    BY <2>3, <2>4
<1> QED
  BY <1>5, <1>6, <1>7

(* The list, the words in memory and their history left alone                *)
LEMMA OthersStep ==
  ASSUME WeaselInv, UNCHANGED <<nextId, breakpoints, memory, orphans>>,
         inPtrace' \in BOOLEAN, mode' \in {"prompt", "listening", "loop", "quit"}, pc' \in [Threads -> Addresses],
         suspended' \in Nat, blocked' \subseteq Threads, queue' \in Seq(Threads)
  PROVE  TypeOK' /\ NumbersInv' /\ InstructionsAreKept'
BY DEF WeaselInv, TypeOK, NumbersInv, InstructionsAreKept
(* What a command, or what is received of the inferior, does to thread 0     *)
LEMMA KernelStep ==
  ASSUME WeaselInv,
         Continue \/ Quit \/ Receive \/ (\E id \in 1 .. MaxBreakpoints : DeleteBreakpoint(id))
           \/ (\E t \in Threads : Execute(t) \/ Trap(t))
  PROVE  KernelInv'
<1> USE DEF WeaselInv, KernelInv
<1>1. CASE Continue
  BY <1>1 DEF Continue, Resumed
<1>2. CASE Quit
  BY <1>2 DEF Quit, inferior
<1>3. CASE Receive
  BY <1>3 DEF Receive, Aborted, TypeOK
<1>4. ASSUME NEW id \in 1 .. MaxBreakpoints, DeleteBreakpoint(id)
      PROVE  KernelInv'
  BY <1>4 DEF DeleteBreakpoint, inferior
<1>5. ASSUME NEW t \in Threads, Execute(t)
      PROVE  KernelInv'
  BY <1>5 DEF Execute, weasel
<1>6. ASSUME NEW t \in Threads, Trap(t)
      PROVE  KernelInv'
  <2>1. ToSet(queue') = ToSet(queue) \cup {t}
    BY <1>6, AppendElements DEF Trap, TypeOK
  <2> QED
    BY <1>6, <2>1 DEF Trap, Runs, weasel
<1> QED
  BY <1>1, <1>2, <1>3, <1>4, <1>5, <1>6

LEMMA WeaselStep ==
  ASSUME WeaselInv, [Next]_vars
  PROVE  WeaselInv'
<1> DEFINE Rest == TypeOK' /\ NumbersInv' /\ InstructionsAreKept'
<1>1. CASE UNCHANGED vars
  BY <1>1 DEF vars, weasel, inferior, WeaselInv, TypeOK, NumbersInv,
              InstructionsAreKept, KernelInv
<1>2. CASE \E a \in Addresses : SetBreakpoint(a)
  BY <1>2, SetBreakpointStep
<1>3. ASSUME NEW id \in 1 .. MaxBreakpoints, DeleteBreakpoint(id)
      PROVE  Rest
  <2>1. CASE Deleted(id)
    BY <1>3, <2>1, DeleteHeadStep
       DEF DeleteBreakpoint, Deleted, LoopsFor, inferior, WeaselInv, TypeOK
  <2>2. CASE ~Deleted(id)
    BY <1>3, <2>2, OthersStep DEF DeleteBreakpoint, inferior, WeaselInv, TypeOK
  <2> QED
    BY <2>1, <2>2
<1>4. ASSUME Continue PROVE Rest
  <2>1. /\ UNCHANGED <<nextId, breakpoints, memory, orphans>>
        /\ mode' \in {"prompt", "listening", "loop", "quit"}
        /\ pc' \in [Threads -> Addresses]
        /\ blocked' \subseteq Threads /\ queue' \in Seq(Threads)
    BY <1>4 DEF Continue, WeaselInv, TypeOK
  <2>2. inPtrace' \in BOOLEAN
    BY <1>4 DEF Continue
  <2>3. suspended' \in Nat
    BY <1>4 DEF Continue, Resumed, WeaselInv, TypeOK
  <2> QED
    BY <2>1, <2>2, <2>3, OthersStep
<1>5. ASSUME Quit PROVE Rest
  <2>1. /\ UNCHANGED <<nextId, breakpoints, memory, orphans>>
        /\ inPtrace' \in BOOLEAN /\ mode' \in {"prompt", "listening", "loop", "quit"}
        /\ pc' \in [Threads -> Addresses]
        /\ suspended' \in Nat /\ blocked' \subseteq Threads /\ queue' \in Seq(Threads)
    BY <1>5 DEF Quit, inferior, WeaselInv, TypeOK
  <2> QED
    BY <2>1, OthersStep
<1>6. ASSUME Receive PROVE Rest
  <2>1. /\ suspended' \in Nat /\ blocked' \subseteq Threads /\ queue' \in Seq(Threads)
        /\ mode' \in {"prompt", "listening", "loop", "quit"}
        /\ UNCHANGED <<inPtrace, pc>> /\ UNCHANGED nextId
        /\ inPtrace' \in BOOLEAN /\ pc' \in [Threads -> Addresses]
    BY <1>6 DEF Receive, Aborted, WeaselInv, TypeOK
  <2>2. CASE Deleted(Hit) /\ DeleteHead
    <3>1. breakpoints # << >>
      BY <2>2 DEF Deleted
    <3> QED
      BY <2>1, <2>2, <3>1, DeleteHeadStep
  <2>3. CASE UNCHANGED <<breakpoints, memory, orphans>>
    <3>1. UNCHANGED <<nextId, breakpoints, memory, orphans>>
      BY <2>1, <2>3
    <3> QED
      BY <2>1, <3>1, OthersStep
  <2> QED
    BY <1>6, <2>2, <2>3 DEF Receive
<1>7. ASSUME NEW t \in Threads, Execute(t)
      PROVE  Rest
  <2>1. pc' \in [Threads -> Addresses]
    BY <1>7 DEF Execute, WeaselInv, TypeOK
  <2> QED
    BY <1>7, <2>1, OthersStep DEF Execute, weasel, WeaselInv, TypeOK
<1>8. ASSUME NEW t \in Threads, Trap(t)
      PROVE  Rest
  <2>1. blocked' \subseteq Threads /\ queue' \in Seq(Threads)
    BY <1>8 DEF Trap, WeaselInv, TypeOK
  <2> QED
    BY <1>8, <2>1, OthersStep DEF Trap, weasel, WeaselInv, TypeOK
<1> QED
  BY <1>1, <1>2, <1>3, <1>4, <1>5, <1>6, <1>7, <1>8, KernelStep DEF Next, WeaselInv

(* The inductive invariant of weasel's list and of the kernel's state        *)
THEOREM WeaselInvariant == Spec => []WeaselInv
<1>1. WeaselInv /\ [Next]_vars => WeaselInv'
  BY WeaselStep
<1> QED
  BY <1>1, InitWeaselInv, PTL DEF Spec

(* Every variable keeps its type, and the list is in the order of the ids.   *)
THEOREM WeaselTypeCorrectness == Spec => []TypeOK
<1>1. WeaselInv => TypeOK
  BY DEF WeaselInv
<1> QED
  BY <1>1, WeaselInvariant, PTL

(* However many breakpoints are set at one address, the words they saved     *)
(* lead back to the instruction, and there is no trap without a breakpoint.  *)
THEOREM InstructionsAreKeptHolds == Spec => []InstructionsAreKept
<1>1. WeaselInv => InstructionsAreKept
  BY DEF WeaselInv
<1> QED
  BY <1>1, WeaselInvariant, PTL

(* At the prompt thread 0 is suspended once, and it is resumed as often.     *)
THEOREM ContinueContinuesHolds == Spec => []ContinueContinues
<1>1. WeaselInv => ContinueContinues
  BY DEF WeaselInv, KernelInv, ContinueContinues
<1> QED
  BY <1>1, WeaselInvariant, PTL
================================================================================
