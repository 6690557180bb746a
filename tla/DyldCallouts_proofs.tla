------------------------- MODULE DyldCallouts_proofs -------------------------
(***************************************************************************)
(* Proofs about DyldCallouts, for any threads, bundles, libraries and      *)
(* functions: its types; that a function registered for added images has   *)
(* been called for every image (AddFunctionsSeeAll); that what was linked  *)
(* was linked and initialised completely (LinkedCompletely) by a program   *)
(* that links nothing before its initialisers have run; that exit() has    *)
(* terminated whatever was linked (ExitTerminatesAll); and that no routine *)
(* is called twice (CalledOnce).                                           *)
(*                                                                         *)
(* An obligation is the work of some thread: whatever an image or module   *)
(* has not had yet, a thread in the middle of one of the loops will come   *)
(* to.  Each invariant says so entry by entry; the places of a loop are    *)
(* what Before and ComesTo say.  That nothing is called twice needs more:  *)
(* which image is where (PlacesInv), who has a handle of it (HandlesInv),  *)
(* and that a routine called is behind the thread that works there (Done). *)
(***************************************************************************)
EXTENDS DyldCallouts, SequenceLemmas, SequenceTheorems, FiniteSetTheorems, TLAPS

(* The types, those of the records in the lists and of the frames included   *)
EntryRecords == [image : Images \cup {None}, state : States, registered : BOOLEAN,
                 inited : BOOLEAN, termed : BOOLEAN]

AllFunctions == UNION {Functions[k] : k \in DOMAIN Functions}

AnyFn == AllFunctions \cup Nat \cup {None}

Frames == [phase : Phases, mode : {"scan", "call", "next"}, list : Kinds,
           i : Nat \ {0}, fn : AnyFn, n : Nat, image : Images \cup {None},
           module : Bundles \cup {None}]

ImagesOk == images \in [Kinds -> Seq(EntryRecords)]

FuncsOk ==
  /\ DOMAIN funcs = DOMAIN Functions
  /\ \A k \in DOMAIN Functions : funcs[k] \in Seq(Functions[k])

FramesOk == at \in [Threads -> Frames]

RestOk ==
  /\ holder \in Threads \cup {None}
  /\ delayModInit \in BOOLEAN /\ exited \in BOOLEAN /\ cleanPass \in BOOLEAN
  /\ usable \subseteq linked /\ linked \subseteq Bundles

Typed == ImagesOk /\ FuncsOk /\ FramesOk /\ RestOk /\ IsABag(calls)

(* Only an entry that is UNUSED is of no image.                              *)
UsedHaveImages ==
  \A k \in Kinds : \A i \in DOMAIN images[k] :
    images[k][i].state # "UNUSED" => images[k][i].image \in Images

(* What a thread that calls a function goes on with: an entry that is there, *)
(* since lists do not shrink, and a function of the list or the number of a  *)
(* routine.                                                                  *)
ListPhases == {"add", "link", "remove"}

RoutinePhases == {"init", "initDelayed", "exit"}

FrameStands(t) ==
  /\ at[t].mode # "scan" \/ at[t].phase \in {"terminate", "remove"}
       => at[t].i \in DOMAIN images[at[t].list]
  /\ at[t].phase \in {"terminate", "remove"} => at[t].list = "objects"
  /\ at[t].phase \in ListPhases /\ at[t].mode # "scan"
       => \E a \in DOMAIN funcs[at[t].phase] : funcs[at[t].phase][a] = at[t].fn
  /\ at[t].phase \in RoutinePhases /\ at[t].mode # "scan" => at[t].fn \in Nat \ {0}
  /\ at[t].phase = "terminate" => at[t].fn \in Nat /\ at[t].image \in Images
  /\ at[t].phase = "initDelayed" => at[t].module = None
  /\ at[t].phase = "out" => at[t] = Idle
  /\ at[t].module \in linked \cup {None}

FramesStand == \A t \in Threads : FrameStands(t)

(* No function is in a list twice.                                           *)
NoneTwice ==
  \A k \in DOMAIN Functions : \A a, b \in DOMAIN funcs[k] :
    funcs[k][a] = funcs[k][b] => a = b

TypeInv == Typed /\ UsedHaveImages /\ FramesStand /\ NoneTwice

(* A thread that has not passed the entry yet; one that calls a function for *)
(* an object's entry starts from the first object again.                     *)
Before(t, k, i) ==
  \/ at[t].list = "objects" /\ k = "libs"
  \/ at[t].list = k /\ at[t].mode = "scan" /\ at[t].i <= i
  \/ at[t].list = k /\ at[t].mode # "scan" /\ at[t].i < i

ComesTo(t, k, i) ==
  Before(t, k, i) \/ (at[t].list = "objects" /\ at[t].mode # "scan")

(* For each image that is registered and each function there is, the call    *)
(* was made; or a thread calls the functions for this image and has not come *)
(* to this one, or the thread that registered the function has not come to   *)
(* the entry.                                                                *)
StillToAdd(t, f, im) ==
  /\ at[t].phase = "add" /\ at[t].mode # "scan" /\ at[t].image = im
  /\ \E a, b \in DOMAIN funcs["add"] :
       a < b /\ funcs["add"][a] = at[t].fn /\ funcs["add"][b] = f

StillToWalk(t, f, k, i) ==
  at[t].phase = "walkAdd" /\ at[t].fn = f /\ Before(t, k, i)

AddedOrPending(f, im, k, i) ==
  \/ <<"add", f, im>> \in DOMAIN calls
  \/ \E t \in Threads : StillToAdd(t, f, im) \/ StillToWalk(t, f, k, i)

AddFns == {funcs["add"][a] : a \in DOMAIN funcs["add"]}

AddAt(k, i) ==
  LET e == images[k][i]
  IN /\ e.state = "UNUSED" => ~e.registered
     /\ e.state # "UNUSED" /\ ~e.registered =>
          \E t \in Threads : at[t].phase = "add" /\ ComesTo(t, k, i)
     /\ e.registered => \A f \in AddFns : AddedOrPending(f, e.image, k, i)

AddInv == \A k \in Kinds : \A i \in DOMAIN images[k] : AddAt(k, i)

(* A module between UNLINKED and LINKED has a thread that will take it       *)
(* further.                                                                  *)
HalfWork(t, k, i, state) ==
  \/ /\ state = "RELOCATED"
     /\ at[t].phase = "add" \/ (at[t].phase = "link" /\ ComesTo(t, k, i))
  \/ /\ state = "REGISTERING"
     /\ at[t].phase \in {"add", "link"} \/ (at[t].phase = "init" /\ ComesTo(t, k, i))
  \/ /\ state = "INITIALIZING"
     /\ at[t].phase \in {"init", "initDelayed"} /\ at[t].mode # "scan"
     /\ at[t].list = k /\ at[t].i = i

Half == {"RELOCATED", "REGISTERING", "INITIALIZING"}

HalfAt(k, i) ==
  LET state == images[k][i].state
  IN state \in Half => \E t \in Threads : HalfWork(t, k, i, state)

HalfInv == \A k \in Kinds : \A i \in DOMAIN images[k] : HalfAt(k, i)

(* Until the delayed initialisers were called nothing is linked or unlinked  *)
(* by a program that links nothing during the launch, and one thread makes   *)
(* those calls.                                                              *)
LaunchInv ==
  /\ \A t, u \in Threads :
       at[t].phase = "initDelayed" /\ at[u].phase = "initDelayed" => t = u
  /\ \A t \in Threads : at[t].phase = "initDelayed" => delayModInit
  /\ delayModInit =>
       /\ usable = {}
       /\ \A t \in Threads :
            at[t].phase \in {"out", "initDelayed", "walkAdd", "walkLink"}
       /\ \A k \in Kinds : \A i \in DOMAIN images[k] :
            images[k][i].state \in {"UNLINKED", "LINKED", "UNUSED"}

InitWork(t, n, k, i) ==
  /\ at[t].phase \in {"init", "initDelayed"} /\ at[t].mode # "scan"
  /\ at[t].list = k /\ at[t].i = i
  /\ at[t].fn < n /\ n <= at[t].n

InitialisedOrPending(n, im, k, i) ==
  <<"init", n, im>> \in DOMAIN calls \/ \E t \in Threads : InitWork(t, n, k, i)

Passed(k, i) ==
  \/ ~delayModInit
  \/ \E t \in Threads : at[t].phase = "initDelayed" /\ ~Before(t, k, i)

Owes(k, i) ==
  \/ images[k][i].inited
  \/ images[k][i].state \in {"LINKED", "INITIALIZING"} /\ Passed(k, i)

CallsAt(k, i) ==
  LET e == images[k][i]
  IN /\ e.state = "UNUSED" => ~e.inited
     /\ e.state # "UNUSED" /\ Owes(k, i) =>
          \A n \in 1 .. Routines[e.image] : InitialisedOrPending(n, e.image, k, i)

CallsInv == \A k \in Kinds : \A i \in DOMAIN images[k] : CallsAt(k, i)
-----------------------------------------------------------------------------
(* The steps the loops are made of *)

(* What Noted adds is a bag, and keeps the calls there were.                 *)
LEMMA NotedCalls ==
  ASSUME IsABag(calls), NEW kind, NEW fn, NEW image
  PROVE  LET c == <<kind, fn, image>>
         IN /\ IsABag(Noted(c))
            /\ DOMAIN calls \subseteq DOMAIN Noted(c)
            /\ kind # "remove" => c \in DOMAIN Noted(c)
<1> DEFINE c == <<kind, fn, image>>
<1>1. c[1] = kind
  OBVIOUS
<1>2. CASE Noted(c) = calls /\ (kind = "remove" \/ BagIn(c, calls))
  BY <1>2 DEF BagIn, BagToSet
<1>3. CASE Noted(c) = calls (+) SetToBag({c})
  <2>1. SetToBag({c}) = [x \in {c} |-> 1]
    BY DEF SetToBag
  <2>2. DOMAIN Noted(c) = DOMAIN calls \cup {c}
    BY <1>3, <2>1 DEF (+)
  <2>3. \A x \in DOMAIN Noted(c) :
          Noted(c)[x] = (IF x \in DOMAIN calls THEN calls[x] ELSE 0) + (IF x = c THEN 1 ELSE 0)
    BY <1>3, <2>1 DEF (+)
  <2>4. \A x \in DOMAIN calls : calls[x] \in Nat /\ calls[x] > 0
    BY DEF IsABag
  <2>5. \A x \in DOMAIN Noted(c) : Noted(c)[x] \in Nat /\ Noted(c)[x] > 0
    <3> TAKE x \in DOMAIN Noted(c)
    <3>1. CASE x \in DOMAIN calls
      BY <2>3, <2>4, <3>1
    <3>2. CASE x \notin DOMAIN calls
      BY <2>2, <2>3, <3>2
    <3> QED
      BY <3>1, <3>2
  <2>6. Noted(c) = [x \in DOMAIN Noted(c) |-> Noted(c)[x]]
    BY <1>3 DEF (+)
  <2>7. IsABag(Noted(c))
    BY <2>5, <2>6 DEF IsABag
  <2> QED
    BY <2>2, <2>7
<1> QED
  BY <1>1, <1>2, <1>3 DEF Noted

(* A call out of a loop                                                      *)
CallsOut(t, i, kind, fn, image) ==
  /\ FramesOk' /\ IsABag(calls') /\ holder' = None
  /\ \A u \in Threads : u # t => at'[u] = at[u]
  /\ at'[t].phase = at[t].phase /\ at'[t].list = at[t].list
  /\ at'[t].module = at[t].module /\ at'[t].mode = "call"
  /\ at'[t].i = i /\ at'[t].fn = fn /\ at'[t].image = image
  /\ at'[t].n = IF kind \in {"init", "term"} /\ fn = 1 THEN Routines[image]
                                                      ELSE at[t].n
  /\ DOMAIN calls \subseteq DOMAIN calls'
  /\ kind # "remove" => <<kind, fn, image>> \in DOMAIN calls'

(* ... and what a call out of a loop does, when it may be made.              *)
LEMMA CallOutStep ==
  ASSUME FramesOk, IsABag(calls),
         NEW t \in Threads, NEW i \in Nat \ {0}, NEW kind, NEW fn \in AnyFn,
         NEW image \in Images \cup {None},
         kind \in {"init", "term"} /\ fn = 1 => image \in Images,
         CallOut(t, i, kind, fn, image)
  PROVE  CallsOut(t, i, kind, fn, image)
<1> DEFINE n == IF kind \in {"init", "term"} /\ fn = 1 THEN Routines[image] ELSE at[t].n
<1>1. at[t] \in Frames
  BY DEF FramesOk
<1>2. n \in Nat
  BY <1>1, CalloutsAssumption DEF Frames
<1>3. at' = [at EXCEPT ![t] = [at[t] EXCEPT !.mode = "call", !.i = i, !.fn = fn,
                                            !.image = image, !.n = n]]
  BY <1>1 DEF CallOut, FramesOk
<1>4. [at[t] EXCEPT !.mode = "call", !.i = i, !.fn = fn, !.image = image, !.n = n]
        \in Frames
  BY <1>1, <1>2 DEF Frames
<1> HIDE DEF n
<1>5. FramesOk' /\ \A u \in Threads : u # t => at'[u] = at[u]
  BY <1>3, <1>4 DEF FramesOk
<1>6. at'[t] = [at[t] EXCEPT !.mode = "call", !.i = i, !.fn = fn, !.image = image, !.n = n]
  BY <1>3 DEF FramesOk
<1>7. /\ at'[t].phase = at[t].phase /\ at'[t].list = at[t].list
      /\ at'[t].module = at[t].module /\ at'[t].mode = "call"
      /\ at'[t].i = i /\ at'[t].fn = fn /\ at'[t].image = image /\ at'[t].n = n
  BY <1>1, <1>6 DEF Frames
<1>8. IsABag(calls') /\ DOMAIN calls \subseteq DOMAIN calls'
      /\ (kind # "remove" => <<kind, fn, image>> \in DOMAIN calls')
  BY NotedCalls DEF CallOut
<1>9. holder' = None
  BY DEF CallOut
<1> QED
  BY <1>5, <1>7, <1>8, <1>9 DEF n, CallsOut

(* The search goes on in the same list ...                                   *)
LEMMA GoOnStep ==
  ASSUME FramesOk, NEW t \in Threads, NEW i \in Nat \ {0}, GoOn(t, i)
  PROVE  /\ FramesOk' /\ UNCHANGED <<holder, calls>>
         /\ \A u \in Threads : u # t => at'[u] = at[u]
         /\ at'[t] = [at[t] EXCEPT !.mode = "scan", !.i = i]
         /\ at'[t].phase = at[t].phase /\ at'[t].list = at[t].list
         /\ at'[t].module = at[t].module /\ at'[t].mode = "scan" /\ at'[t].i = i
         /\ at'[t].fn = at[t].fn
<1>1. at[t] \in Frames
  BY DEF FramesOk
<1>2. at'[t] = [at[t] EXCEPT !.mode = "scan", !.i = i]
      /\ \A u \in Threads : u # t => at'[u] = at[u]
  BY DEF GoOn, FramesOk
<1>3. at'[t] \in Frames
  BY <1>1, <1>2 DEF Frames
<1>4. FramesOk' /\ UNCHANGED <<holder, calls>>
  BY <1>3 DEF GoOn, FramesOk
<1>5. /\ at'[t].phase = at[t].phase /\ at'[t].list = at[t].list
      /\ at'[t].module = at[t].module /\ at'[t].mode = "scan" /\ at'[t].i = i
      /\ at'[t].fn = at[t].fn
  BY <1>1, <1>2 DEF Frames
<1> QED
  BY <1>2, <1>4, <1>5

(* ... in the list of the libraries ...                                      *)
LEMMA NextListStep ==
  ASSUME FramesOk, NEW t \in Threads, NextList(t)
  PROVE  /\ FramesOk' /\ UNCHANGED <<holder, calls>>
         /\ \A u \in Threads : u # t => at'[u] = at[u]
         /\ at[t].list = "objects"
         /\ at'[t].phase = at[t].phase /\ at'[t].list = "libs"
         /\ at'[t].module = at[t].module /\ at'[t].mode = at[t].mode /\ at'[t].i = 1
         /\ at'[t].fn = at[t].fn
<1>1. at[t] \in Frames
  BY DEF FramesOk
<1>2. at'[t] = [at[t] EXCEPT !.list = "libs", !.i = 1]
      /\ \A u \in Threads : u # t => at'[u] = at[u]
  BY DEF NextList, FramesOk
<1>a. 1 \in Nat \ {0} /\ {"objects", "libs"} \subseteq Kinds
  BY DEF Kinds
<1>3. at'[t] \in Frames
  BY <1>1, <1>2, <1>a DEF Frames
<1>4. FramesOk' /\ UNCHANGED <<holder, calls>> /\ at[t].list = "objects"
  BY <1>3 DEF NextList, FramesOk
<1>5. /\ at'[t].phase = at[t].phase /\ at'[t].list = "libs"
      /\ at'[t].module = at[t].module /\ at'[t].mode = at[t].mode /\ at'[t].i = 1
      /\ at'[t].fn = at[t].fn
  BY <1>1, <1>2 DEF Frames
<1> QED
  BY <1>2, <1>4, <1>5

(* ... or in the next loop.                                                  *)
LEMMA NextPhaseStep ==
  ASSUME FramesOk, NEW t \in Threads, NEW phase \in Phases, NextPhase(t, phase)
  PROVE  /\ FramesOk' /\ UNCHANGED <<holder, calls>>
         /\ \A u \in Threads : u # t => at'[u] = at[u]
         /\ at[t].list = "libs"
         /\ at'[t].phase = phase /\ at'[t].list = "objects"
         /\ at'[t].module = at[t].module /\ at'[t].mode = at[t].mode /\ at'[t].i = 1
<1>1. at[t] \in Frames
  BY DEF FramesOk
<1>2. at'[t] = [at[t] EXCEPT !.phase = phase, !.list = "objects", !.i = 1]
      /\ \A u \in Threads : u # t => at'[u] = at[u]
  BY DEF NextPhase, FramesOk
<1>a. 1 \in Nat \ {0} /\ {"objects", "libs"} \subseteq Kinds
  BY DEF Kinds
<1>3. at'[t] \in Frames
  BY <1>1, <1>2, <1>a DEF Frames
<1>4. FramesOk' /\ UNCHANGED <<holder, calls>> /\ at[t].list = "libs"
  BY <1>3 DEF NextPhase, FramesOk
<1>5. /\ at'[t].phase = phase /\ at'[t].list = "objects"
      /\ at'[t].module = at[t].module /\ at'[t].mode = at[t].mode /\ at'[t].i = 1
  BY <1>1, <1>2 DEF Frames
<1> QED
  BY <1>2, <1>4, <1>5

(* A call of the dynamic linker begins ...                                   *)
LEMMA EnterStep ==
  ASSUME FramesOk, NEW t \in Threads, NEW frame \in Frames, Enter(t, frame)
  PROVE  /\ FramesOk' /\ holder' = t /\ at[t].phase = "out"
         /\ \A u \in Threads : u # t => at'[u] = at[u]
         /\ at'[t] = frame
  BY DEF Enter, Out, FramesOk

(* ... and ends.                                                             *)
LEMMA LeaveStep ==
  ASSUME FramesOk, NEW t \in Threads, Leave(t)
  PROVE  /\ FramesOk' /\ holder' = None
         /\ \A u \in Threads : u # t => at'[u] = at[u]
         /\ at'[t] = Idle /\ Idle \in Frames
<1>a. 1 \in Nat \ {0} /\ 0 \in Nat /\ "objects" \in Kinds /\ "out" \in Phases
  BY DEF Kinds, Phases
<1>b. None \in AnyFn
  BY DEF AnyFn
<1>1. Idle \in Frames
  BY <1>a, <1>b DEF Idle, Frames
<1> QED
  BY <1>1 DEF Leave, FramesOk
-----------------------------------------------------------------------------
(* The lists *)

(* The search finds the first entry wanted from where it stands ...          *)
LEMMA FirstHit ==
  ASSUME ImagesOk, FramesOk, NEW t \in Threads, NEW wanted, Hits(t, wanted) # {}
  PROVE  LET m == Min(Hits(t, wanted))
         IN /\ m \in DOMAIN Here(t) /\ m \in Nat \ {0} /\ at[t].i <= m
            /\ Here(t)[m] \in wanted /\ Here(t)[m] \in EntryRecords
            /\ \A i \in DOMAIN Here(t) : at[t].i <= i /\ i < m => Here(t)[i] \notin wanted
<1> DEFINE hits == Hits(t, wanted)
           m == Min(hits)
<1>1. at[t].i \in Nat \ {0} /\ at[t].list \in Kinds
  BY DEF FramesOk, Frames
<1>2. Here(t) \in Seq(EntryRecords)
  BY <1>1 DEF ImagesOk, Here
<1>3. Len(Here(t)) \in Nat /\ DOMAIN Here(t) = 1 .. Len(Here(t))
  BY <1>2
<1>4. hits = {i \in at[t].i .. Len(Here(t)) : Here(t)[i] \in wanted}
  BY DEF Hits
<1>5. hits \in SUBSET Nat
  BY <1>1, <1>3, <1>4
<1>6. m \in hits /\ \A i \in hits : m <= i
  BY <1>5, MinIsLeast
<1> HIDE DEF m, hits
<1>7. m \in at[t].i .. Len(Here(t)) /\ Here(t)[m] \in wanted
  BY <1>4, <1>6
<1>8. m \in DOMAIN Here(t) /\ m \in Nat \ {0} /\ at[t].i <= m
  BY <1>1, <1>3, <1>7
<1>9. \A i \in DOMAIN Here(t) : at[t].i <= i /\ i < m => Here(t)[i] \notin wanted
  <2> SUFFICES ASSUME NEW i \in DOMAIN Here(t), at[t].i <= i, i < m, Here(t)[i] \in wanted
               PROVE  FALSE
    OBVIOUS
  <2>1. i \in at[t].i .. Len(Here(t))
    BY <1>1, <1>3
  <2>2. m <= i
    BY <1>4, <1>6, <2>1
  <2> QED
    BY <1>3, <1>8, <2>2
<1> QED
  BY <1>2, <1>7, <1>8, <1>9 DEF m, hits

(* ... or none.                                                              *)
LEMMA NoHit ==
  ASSUME ImagesOk, FramesOk, NEW t \in Threads, NEW wanted, Hits(t, wanted) = {}
  PROVE  \A i \in DOMAIN Here(t) : at[t].i <= i => Here(t)[i] \notin wanted
<1>1. at[t].i \in Nat \ {0} /\ at[t].list \in Kinds
  BY DEF FramesOk, Frames
<1>2. Here(t) \in Seq(EntryRecords)
  BY <1>1 DEF ImagesOk, Here
<1>3. DOMAIN Here(t) = 1 .. Len(Here(t)) /\ Len(Here(t)) \in Nat
  BY <1>2
<1> TAKE i \in DOMAIN Here(t)
<1>4. at[t].i <= i => i \in at[t].i .. Len(Here(t))
  BY <1>1, <1>3
<1> QED
  BY <1>4 DEF Hits

(* The rest of a list of functions begins behind this one.                   *)
BeginsAfter(s, f, rest) ==
  \E a \in DOMAIN s :
    /\ s[a] = f
    /\ rest = << >> => \A b \in DOMAIN s : b <= a
    /\ rest # << >> => a + 1 \in DOMAIN s /\ Head(rest) = s[a + 1]

(* After() is that rest, of a function that is in the list.                  *)
LEMMA AfterThis ==
  ASSUME NEW S, NEW s \in Seq(S), NEW f, \E a \in DOMAIN s : s[a] = f
  PROVE  /\ After(s, f) \in Seq(S)
         /\ BeginsAfter(s, f, After(s, f))
<1> DEFINE a == CHOOSE i \in DOMAIN s : s[i] = f
           r == SubSeq(s, a + 1, Len(s))
<1>1. a \in DOMAIN s /\ s[a] = f
  OBVIOUS
<1>2. DOMAIN s = 1 .. Len(s) /\ Len(s) \in Nat
  OBVIOUS
<1>3. After(s, f) = r
  BY DEF After
<1> HIDE DEF a
<1>4. a \in Nat /\ 1 <= a /\ a <= Len(s)
  BY <1>1, <1>2
<1>a. a + 1 \in 1 .. Len(s) + 1 /\ Len(s) \in (a + 1) - 1 .. Len(s)
      /\ Len(s) - (a + 1) + 1 = Len(s) - a
  BY <1>2, <1>4
<1>5. r \in Seq(S) /\ Len(r) = Len(s) - a
  BY <1>a, SubSeqProperties
<1>6. \A i \in 1 .. Len(s) - a : r[i] = s[(a + 1) + i - 1]
  BY <1>a, SubSeqProperties
<1> HIDE DEF r
<1>d. \A m, n \in Nat : n <= m => (m - n = 0 => n = m) /\ (m - n # 0 => n < m)
  OBVIOUS
<1>e. Len(s) \in Nat /\ a \in Nat /\ a <= Len(s) /\ Len(r) = Len(s) - a
  BY <1>2, <1>4, <1>5
<1>b. Len(r) = 0 => a = Len(s)
  BY <1>d, <1>e
<1>c. Len(r) # 0 => a < Len(s)
  BY <1>d, <1>e
<1>7. r # << >> => a < Len(s) /\ Head(r) = s[a + 1]
  <2>1. r # << >> => Len(r) # 0 /\ Head(r) = r[1]
    BY <1>5
  <2>2. r # << >> => a < Len(s) /\ 1 \in 1 .. Len(s) - a /\ (a + 1) + 1 - 1 = a + 1
    BY <1>2, <1>4, <1>c, <2>1
  <2> QED
    BY <1>6, <2>1, <2>2
<1>8. r = << >> => a = Len(s)
  <2>1. r = << >> => Len(r) = 0
    OBVIOUS
  <2> QED
    BY <1>b, <2>1
<1> QED
  BY <1>1, <1>2, <1>3, <1>4, <1>5, <1>7, <1>8 DEF r, BeginsAfter

(* A function that goes behind the first one keeps the order of the others.  *)
Place(a) == IF a = 1 THEN 1 ELSE a + 1

(* A function is put behind the first; the others keep their order.          *)
LEMMA InsertedPlaces ==
  ASSUME NEW S, NEW s \in Seq(S), NEW f \in S
  PROVE  LET r == Inserted(s, f)
         IN /\ r \in Seq(S)
            /\ \A a \in DOMAIN s : Place(a) \in DOMAIN r /\ r[Place(a)] = s[a]
            /\ \A b \in DOMAIN r :
                 \/ b = (IF s = << >> THEN 1 ELSE 2) /\ r[b] = f
                 \/ \E a \in DOMAIN s : b = Place(a)
<1>1. DOMAIN s = 1 .. Len(s) /\ Len(s) \in Nat
  OBVIOUS
<1>2. CASE s = << >>
  <2>1. Inserted(s, f) = <<f>>
    BY <1>2 DEF Inserted
  <2> QED
    BY <1>2, <2>1
<1>3. CASE s # << >>
  <2> DEFINE r == Inserted(s, f)
  <2>1. r = <<Head(s), f>> \o Tail(s)
    BY <1>3 DEF Inserted
  <2>2. /\ Tail(s) \in Seq(S) /\ Len(Tail(s)) = Len(s) - 1 /\ Head(s) = s[1]
        /\ 1 \in DOMAIN s /\ DOMAIN Tail(s) = 1 .. Len(s) - 1
        /\ \A i \in DOMAIN Tail(s) : Tail(s)[i] = s[i + 1]
    BY <1>3, TailPlaces
  <2>3. s[1] \in S /\ Len(s) >= 1
    BY <1>1, <2>2
  <2>4. <<Head(s), f>> \in Seq(S) /\ Len(<<Head(s), f>>) = 2
    BY <2>2, <2>3
  <2>5. r \in Seq(S) /\ Len(r) = Len(s) + 1
    BY <1>1, <2>1, <2>2, <2>3, <2>4
  <2>6. r[1] = s[1] /\ r[2] = f
    BY <2>1, <2>2, <2>3, <2>4
  <2>7. \A i \in 1 .. Len(s) - 1 : r[i + 2] = s[i + 1]
    <3> TAKE i \in 1 .. Len(s) - 1
    <3>1. i + 2 \in 1 .. Len(s) + 1 /\ i + 2 > 2 /\ (i + 2) - 2 = i
      BY <1>1
    <3>2. r[i + 2] = Tail(s)[i]
      BY <1>1, <2>1, <2>2, <2>4, <3>1
    <3> QED
      BY <2>2, <3>2
  <2> HIDE DEF r
  <2>8. DOMAIN r = 1 .. Len(s) + 1
    BY <1>1, <2>5
  <2>9. \A a \in DOMAIN s : Place(a) \in DOMAIN r /\ r[Place(a)] = s[a]
    <3> TAKE a \in DOMAIN s
    <3>1. CASE a = 1
      BY <1>1, <2>6, <2>8, <3>1 DEF Place
    <3>2. CASE a # 1
      <4>1. a - 1 \in 1 .. Len(s) - 1 /\ (a - 1) + 2 = a + 1 /\ (a - 1) + 1 = a
            /\ a + 1 \in 1 .. Len(s) + 1
        BY <1>1, <3>2
      <4> QED
        BY <2>7, <2>8, <3>2, <4>1 DEF Place
    <3> QED
      BY <3>1, <3>2
  <2>10. \A b \in DOMAIN r : (b = 2 /\ r[b] = f) \/ \E a \in DOMAIN s : b = Place(a)
    <3> TAKE b \in DOMAIN r
    <3>1. CASE b = 1
      BY <2>2, <3>1 DEF Place
    <3>2. CASE b = 2
      BY <2>6, <3>2
    <3>3. CASE b # 1 /\ b # 2
      <4>1. b - 1 \in DOMAIN s /\ b - 1 # 1 /\ (b - 1) + 1 = b
        BY <1>1, <2>8, <3>3
      <4> QED
        BY <4>1 DEF Place
    <3> QED
      BY <3>1, <3>2, <3>3
  <2> QED
    BY <1>3, <2>5, <2>9, <2>10 DEF r
<1> QED
  BY <1>2, <1>3
-----------------------------------------------------------------------------
(* Type correctness *)

(* Lists do not shrink.                                                      *)
Grown == \A k \in Kinds : DOMAIN images[k] \subseteq DOMAIN images'[k]

FuncsKept ==
  \A k \in DOMAIN Functions : \A a \in DOMAIN funcs[k] :
    \E b \in DOMAIN funcs'[k] : funcs'[k][b] = funcs[k][a]

(* What a step of one thread leaves of the frames of the others              *)
LEMMA OthersStand ==
  ASSUME FramesOk, FramesStand, NEW t \in Threads, Grown, FuncsKept, linked \subseteq linked',
         \A u \in Threads : u # t => at'[u] = at[u], FrameStands(t)'
  PROVE  FramesStand'
<1> SUFFICES ASSUME NEW u \in Threads, u # t
             PROVE  FrameStands(u)'
  BY DEF FramesStand
<1>1. at'[u] = at[u] /\ FrameStands(u) /\ at[u].list \in Kinds
  BY DEF FramesOk, Frames, FramesStand
<1>2. at[u].mode # "scan" \/ at[u].phase \in {"terminate", "remove"}
        => at[u].i \in DOMAIN images'[at[u].list]
  BY <1>1 DEF FrameStands, Grown
<1>3. at[u].phase \in ListPhases /\ at[u].mode # "scan"
        => \E b \in DOMAIN funcs'[at[u].phase] : funcs'[at[u].phase][b] = at[u].fn
  <2> SUFFICES ASSUME at[u].phase \in ListPhases, at[u].mode # "scan"
               PROVE  \E b \in DOMAIN funcs'[at[u].phase] : funcs'[at[u].phase][b] = at[u].fn
    OBVIOUS
  <2>1. PICK a \in DOMAIN funcs[at[u].phase] : funcs[at[u].phase][a] = at[u].fn
    BY <1>1 DEF FrameStands
  <2>2. at[u].phase \in DOMAIN Functions
    BY CalloutsAssumption DEF ListPhases
  <2> QED
    BY <2>1, <2>2 DEF FuncsKept
<1> QED
  BY <1>1, <1>2, <1>3 DEF FrameStands

(* The invariant after a step of t that leaves the lists of functions alone  *)
LEMMA StepTyped ==
  ASSUME TypeInv, NEW t \in Threads,
         FramesOk', \A u \in Threads : u # t => at'[u] = at[u], FrameStands(t)',
         ImagesOk', UsedHaveImages', Grown, funcs' = funcs, RestOk', IsABag(calls'),
         linked \subseteq linked'
  PROVE  TypeInv'
<1>1. FuncsOk' /\ NoneTwice' /\ FuncsKept
  BY DEF TypeInv, Typed, FuncsOk, NoneTwice, FuncsKept
<1>2. FramesStand'
  BY <1>1, OthersStand DEF TypeInv, Typed
<1> QED
  BY <1>1, <1>2 DEF TypeInv, Typed

(* ... and the images.                                                       *)
LEMMA SameImages ==
  ASSUME TypeInv, UNCHANGED images
  PROVE  ImagesOk' /\ UsedHaveImages' /\ Grown
BY DEF TypeInv, Typed, ImagesOk, UsedHaveImages, Grown

(* ... or changes an entry.                                                  *)
LEMMA OtherEntry ==
  ASSUME TypeInv, NEW t \in Threads, NEW i \in DOMAIN Here(t), NEW e \in EntryRecords,
         e.state # "UNUSED" => e.image \in Images, SetHere(t, i, e)
  PROVE  /\ ImagesOk' /\ UsedHaveImages' /\ Grown
         /\ \A q \in Kinds : DOMAIN images'[q] = DOMAIN images[q]
         /\ images'[at[t].list][i] = e
         /\ \A q \in Kinds : \A j \in DOMAIN images[q] :
              q # at[t].list \/ j # i => images'[q][j] = images[q][j]
<1> DEFINE k == at[t].list
<1>1. k \in Kinds /\ ImagesOk
  BY DEF TypeInv, Typed, FramesOk, Frames
<1>2. i \in DOMAIN images[k]
  BY DEF Here
<1>3. images' = [images EXCEPT ![k][i] = e]
  BY DEF SetHere
<1>a. images[k] \in Seq(EntryRecords)
  BY <1>1 DEF ImagesOk
<1> DEFINE s == [images[k] EXCEPT ![i] = e]
<1>b. images' = [images EXCEPT ![k] = s]
  BY <1>3
<1> HIDE DEF k
<1>c. s \in Seq(EntryRecords) /\ DOMAIN s = DOMAIN images[k] /\ s[i] = e
      /\ \A j \in DOMAIN images[k] : j # i => s[j] = images[k][j]
  BY <1>2, <1>a
<1> HIDE DEF s
<1>4. /\ ImagesOk'
      /\ \A q \in Kinds : DOMAIN images'[q] = DOMAIN images[q]
      /\ images'[k][i] = e
      /\ \A q \in Kinds : \A j \in DOMAIN images[q] :
           q # k \/ j # i => images'[q][j] = images[q][j]
  BY <1>1, <1>2, <1>b, <1>c DEF ImagesOk
<1>5. UsedHaveImages'
  BY <1>4 DEF UsedHaveImages, TypeInv
<1> QED
  BY <1>4, <1>5 DEF Grown, k

(* A call returns to the loop that made it.                                  *)
LEMMA ReturnTyped ==
  ASSUME TypeInv, NEW t \in Threads, Return(t)
  PROVE  TypeInv'
<1>1. FramesOk /\ FrameStands(t) /\ at[t] \in Frames /\ RestOk
  BY DEF TypeInv, Typed, FramesOk, FramesStand
<1>2. /\ at'[t] = [at[t] EXCEPT !.mode = "next"] /\ holder' = t /\ at[t].mode = "call"
      /\ \A u \in Threads : u # t => at'[u] = at[u]
      /\ UNCHANGED <<images, funcs, delayModInit, callVars, calls>>
  BY <1>1 DEF Return, FramesOk
<1>3. FramesOk'
  BY <1>1, <1>2 DEF Return, FramesOk, Frames
<1>4. /\ at'[t].phase = at[t].phase /\ at'[t].list = at[t].list /\ at'[t].i = at[t].i
      /\ at'[t].fn = at[t].fn /\ at'[t].module = at[t].module /\ at'[t].mode = "next"
  BY <1>1, <1>2 DEF Frames
<1>5. at[t].phase # "out"
  BY <1>1, <1>2 DEF FrameStands, Idle
<1>6. FrameStands(t)'
  BY <1>1, <1>2, <1>4, <1>5 DEF FrameStands, callVars
<1>7. RestOk' /\ IsABag(calls')
  BY <1>1, <1>2 DEF RestOk, callVars, TypeInv, Typed
<1> QED
  BY <1>2, <1>3, <1>6, <1>7, SameImages, StepTyped DEF callVars

(* A new function is called for the next entry, or the walk ends.            *)
LEMMA WalkTyped ==
  ASSUME TypeInv, NEW t \in Threads, Walk(t)
  PROVE  TypeInv'
<1>1. FramesOk /\ FrameStands(t) /\ at[t] \in Frames /\ RestOk /\ ImagesOk /\ IsABag(calls)
      /\ at[t].phase \in {"walkAdd", "walkLink"}
  BY DEF TypeInv, Typed, FramesOk, FramesStand, Walk, In
<1>2. UNCHANGED <<images, funcs, delayModInit, callVars>>
  BY DEF Walk
<1>3. ImagesOk' /\ UsedHaveImages' /\ Grown
  BY <1>2, SameImages
<1> SUFFICES /\ FramesOk' /\ \A u \in Threads : u # t => at'[u] = at[u]
             /\ FrameStands(t)' /\ IsABag(calls') /\ holder' \in Threads \cup {None}
  BY <1>1, <1>2, <1>3, StepTyped DEF RestOk, callVars
<1> DEFINE hits == Hits(t, {e \in Entries(t) : Walked(t, e)})
<1>4. CASE GoOn(t, at[t].i + 1)
  <2>1. at[t].i + 1 \in Nat \ {0}
    BY <1>1 DEF Frames
  <2> QED
    BY <1>1, <1>2, <1>4, <2>1, GoOnStep DEF FrameStands, ListPhases, RoutinePhases, callVars, RestOk
<1>5. CASE NextList(t) /\ at[t].mode = "scan"
  BY <1>1, <1>2, <1>5, NextListStep DEF FrameStands, ListPhases, RoutinePhases, callVars, RestOk
<1>6. CASE Leave(t) /\ UNCHANGED calls
  BY <1>1, <1>2, <1>6, LeaveStep DEF FrameStands, ListPhases, RoutinePhases, callVars, RestOk, Idle
<1>7. ASSUME hits # {},
             CallOut(t, Min(hits), IF at[t].phase = "walkAdd" THEN "add" ELSE "link",
                     at[t].fn, Here(t)[Min(hits)].image)
      PROVE  /\ FramesOk' /\ \A u \in Threads : u # t => at'[u] = at[u]
             /\ FrameStands(t)' /\ IsABag(calls') /\ holder' \in Threads \cup {None}
  <2> DEFINE m == Min(hits)
  <2>1. m \in DOMAIN Here(t) /\ m \in Nat \ {0} /\ Here(t)[m] \in EntryRecords
    BY <1>1, <1>7, FirstHit
  <2> HIDE DEF m, hits
  <2>2. Here(t)[m].image \in Images \cup {None} /\ at[t].fn \in AnyFn
    BY <1>1, <2>1 DEF EntryRecords, Frames
  <2> DEFINE kind == IF at[t].phase = "walkAdd" THEN "add" ELSE "link"
  <2>3. kind \notin {"init", "term"}
    OBVIOUS
  <2> HIDE DEF kind
  <2>4. CallOut(t, m, kind, at[t].fn, Here(t)[m].image)
    BY <1>7 DEF m, kind
  <2>5. /\ FramesOk' /\ IsABag(calls') /\ holder' = None
        /\ \A u \in Threads : u # t => at'[u] = at[u]
        /\ at'[t].phase = at[t].phase /\ at'[t].list = at[t].list
        /\ at'[t].module = at[t].module /\ at'[t].i = m
    BY <1>1, <2>1, <2>2, <2>3, <2>4, CallOutStep DEF CallsOut
  <2>6. FrameStands(t)'
    BY <1>1, <1>2, <2>1, <2>5 DEF FrameStands, ListPhases, RoutinePhases, callVars, Here
  <2> QED
    BY <2>5, <2>6
<1> QED
  BY <1>4, <1>5, <1>6, <1>7 DEF Walk

(* An image that is not registered is found, or none.                        *)
LEMMA AddImagesTyped ==
  ASSUME TypeInv, NEW t \in Threads, AddImages(t)
  PROVE  TypeInv'
<1> DEFINE new == Hits(t, {e \in Entries(t) : e.state # "UNUSED" /\ ~e.registered})
           i == Min(new)
           e == [Here(t)[i] EXCEPT !.registered = TRUE]
<1>1. FramesOk /\ FrameStands(t) /\ at[t] \in Frames /\ RestOk /\ ImagesOk /\ IsABag(calls)
      /\ at[t].phase = "add" /\ at[t].mode = "scan" /\ holder = t
  BY DEF TypeInv, Typed, FramesOk, FramesStand, AddImages, At, In
<1>2. UNCHANGED <<funcs, delayModInit, callVars>>
  BY DEF AddImages
<1>3. ASSUME new # {}, SetHere(t, i, e)
      PROVE  /\ i \in DOMAIN Here(t) /\ i \in Nat \ {0}
             /\ Here(t)[i].image \in Images \cup {None}
             /\ ImagesOk' /\ UsedHaveImages' /\ Grown
             /\ \A q \in Kinds : DOMAIN images'[q] = DOMAIN images[q]
  <2>1. i \in DOMAIN Here(t) /\ i \in Nat \ {0} /\ Here(t)[i] \in EntryRecords
        /\ Here(t)[i] \in {x \in Entries(t) : x.state # "UNUSED" /\ ~x.registered}
    BY <1>1, <1>3, FirstHit
  <2> HIDE DEF i
  <2>2. e \in EntryRecords /\ Here(t)[i].image \in Images \cup {None}
        /\ e.image = Here(t)[i].image /\ e.state = Here(t)[i].state
    BY <2>1 DEF EntryRecords
  <2>3. e.state # "UNUSED" => e.image \in Images
    BY <1>1, <2>1, <2>2 DEF TypeInv, UsedHaveImages, Here, Frames
  <2> HIDE DEF e
  <2> QED
    BY <1>3, <2>1, <2>2, <2>3, OtherEntry
<1> HIDE DEF i, e
<1> SUFFICES /\ FramesOk' /\ \A u \in Threads : u # t => at'[u] = at[u]
             /\ ImagesOk' /\ UsedHaveImages' /\ Grown
             /\ FrameStands(t)' /\ IsABag(calls') /\ holder' \in Threads \cup {None}
  BY <1>1, <1>2, StepTyped DEF RestOk, callVars
<1>4. ASSUME new # {}, SetHere(t, i, e), GoOn(t, i + 1)
      PROVE  /\ FramesOk' /\ \A u \in Threads : u # t => at'[u] = at[u]
             /\ FrameStands(t)' /\ IsABag(calls') /\ holder' \in Threads \cup {None}
  <2>1. i + 1 \in Nat \ {0}
    BY <1>3, <1>4
  <2> QED
    BY <1>1, <1>2, <1>4, <2>1, GoOnStep DEF FrameStands, ListPhases, RoutinePhases, callVars, RestOk
<1>5. ASSUME new # {}, SetHere(t, i, e), funcs["add"] # << >>,
             CallOut(t, i, "add", Head(funcs["add"]), Here(t)[i].image)
      PROVE  /\ FramesOk' /\ \A u \in Threads : u # t => at'[u] = at[u]
             /\ FrameStands(t)' /\ IsABag(calls') /\ holder' \in Threads \cup {None}
  <2> DEFINE f == Head(funcs["add"])
             im == Here(t)[i].image
  <2>1. "add" \in DOMAIN Functions /\ funcs["add"] \in Seq(Functions["add"])
    BY CalloutsAssumption DEF TypeInv, Typed, FuncsOk
  <2>2. 1 \in DOMAIN funcs["add"] /\ f = funcs["add"][1] /\ f \in Functions["add"]
    BY <1>5, <2>1
  <2>3. f \in AnyFn
    BY <2>1, <2>2 DEF AnyFn, AllFunctions
  <2> HIDE DEF f
  <2>4. i \in Nat \ {0} /\ im \in Images \cup {None}
    BY <1>3, <1>5
  <2> HIDE DEF im
  <2>5. CallOut(t, i, "add", f, im)
    BY <1>5 DEF f, im
  <2>6. /\ FramesOk' /\ IsABag(calls') /\ holder' = None
        /\ \A u \in Threads : u # t => at'[u] = at[u]
        /\ at'[t].phase = at[t].phase /\ at'[t].list = at[t].list
        /\ at'[t].module = at[t].module /\ at'[t].i = i /\ at'[t].fn = f
    BY <1>1, <2>3, <2>4, <2>5, CallOutStep DEF CallsOut
  <2>7. i \in DOMAIN images'[at[t].list]
    BY <1>1, <1>3, <1>5 DEF Here, Frames
  <2>8. FrameStands(t)'
    BY <1>1, <1>2, <2>2, <2>6, <2>7 DEF FrameStands, ListPhases, RoutinePhases, callVars
  <2> QED
    BY <2>6, <2>8
<1>6. CASE new # {} /\ SetHere(t, i, e)
           /\ IF funcs["add"] = << >>
                THEN GoOn(t, i + 1)
                ELSE CallOut(t, i, "add", Head(funcs["add"]), Here(t)[i].image)
  BY <1>3, <1>4, <1>5, <1>6
<1>7. CASE NextList(t) /\ UNCHANGED images
  BY <1>1, <1>2, <1>7, NextListStep, SameImages DEF FrameStands, ListPhases, RoutinePhases, callVars, RestOk
<1>8. CASE NextPhase(t, "link") /\ UNCHANGED images
  <2>1. "link" \in Phases
    BY DEF Phases
  <2> QED
    BY <1>1, <1>2, <1>8, <2>1, NextPhaseStep, SameImages
       DEF FrameStands, ListPhases, RoutinePhases, callVars, RestOk
<1> QED
  BY <1>6, <1>7, <1>8 DEF AddImages, i, e

(* A module that is RELOCATED is found, or none.                             *)
LEMMA LinkModulesTyped ==
  ASSUME TypeInv, NEW t \in Threads, LinkModules(t)
  PROVE  TypeInv'
<1> DEFINE new == Hits(t, {e \in Entries(t) : e.state = "RELOCATED"})
           i == Min(new)
           e == Registering(Here(t)[i])
<1>1. FramesOk /\ FrameStands(t) /\ at[t] \in Frames /\ RestOk /\ ImagesOk /\ IsABag(calls)
      /\ at[t].phase = "link" /\ at[t].mode = "scan" /\ holder = t
  BY DEF TypeInv, Typed, FramesOk, FramesStand, LinkModules, At, In
<1>2. UNCHANGED <<funcs, delayModInit, callVars>>
  BY DEF LinkModules
<1>3. ASSUME new # {}, SetHere(t, i, e)
      PROVE  /\ i \in DOMAIN Here(t) /\ i \in Nat \ {0}
             /\ Here(t)[i].image \in Images \cup {None}
             /\ ImagesOk' /\ UsedHaveImages' /\ Grown
             /\ \A q \in Kinds : DOMAIN images'[q] = DOMAIN images[q]
  <2>1. i \in DOMAIN Here(t) /\ i \in Nat \ {0} /\ Here(t)[i] \in EntryRecords
        /\ Here(t)[i] \in {x \in Entries(t) : x.state = "RELOCATED"}
    BY <1>1, <1>3, FirstHit
  <2> HIDE DEF i
  <2>2. e \in EntryRecords /\ Here(t)[i].image \in Images \cup {None}
        /\ e.image = Here(t)[i].image /\ Here(t)[i].state = "RELOCATED"
    BY <2>1 DEF EntryRecords, Registering, States
  <2>3. e.state # "UNUSED" => e.image \in Images
    BY <1>1, <2>1, <2>2 DEF TypeInv, UsedHaveImages, Here, Frames
  <2> HIDE DEF e
  <2> QED
    BY <1>3, <2>1, <2>2, <2>3, OtherEntry
<1> HIDE DEF i, e
<1> SUFFICES /\ FramesOk' /\ \A u \in Threads : u # t => at'[u] = at[u]
             /\ ImagesOk' /\ UsedHaveImages' /\ Grown
             /\ FrameStands(t)' /\ IsABag(calls') /\ holder' \in Threads \cup {None}
  BY <1>1, <1>2, StepTyped DEF RestOk, callVars
<1>4. ASSUME new # {}, SetHere(t, i, e), GoOn(t, i + 1)
      PROVE  /\ FramesOk' /\ \A u \in Threads : u # t => at'[u] = at[u]
             /\ FrameStands(t)' /\ IsABag(calls') /\ holder' \in Threads \cup {None}
  <2>1. i + 1 \in Nat \ {0}
    BY <1>3, <1>4
  <2> QED
    BY <1>1, <1>2, <1>4, <2>1, GoOnStep DEF FrameStands, ListPhases, RoutinePhases, callVars, RestOk
<1>5. ASSUME new # {}, SetHere(t, i, e), funcs["link"] # << >>,
             CallOut(t, i, "link", Head(funcs["link"]), Here(t)[i].image)
      PROVE  /\ FramesOk' /\ \A u \in Threads : u # t => at'[u] = at[u]
             /\ FrameStands(t)' /\ IsABag(calls') /\ holder' \in Threads \cup {None}
  <2> DEFINE f == Head(funcs["link"])
             im == Here(t)[i].image
  <2>1. "link" \in DOMAIN Functions /\ funcs["link"] \in Seq(Functions["link"])
    BY CalloutsAssumption DEF TypeInv, Typed, FuncsOk
  <2>2. 1 \in DOMAIN funcs["link"] /\ f = funcs["link"][1] /\ f \in Functions["link"]
    BY <1>5, <2>1
  <2>3. f \in AnyFn
    BY <2>1, <2>2 DEF AnyFn, AllFunctions
  <2> HIDE DEF f
  <2>4. i \in Nat \ {0} /\ im \in Images \cup {None}
    BY <1>3, <1>5
  <2> HIDE DEF im
  <2>5. CallOut(t, i, "link", f, im)
    BY <1>5 DEF f, im
  <2>6. /\ FramesOk' /\ IsABag(calls') /\ holder' = None
        /\ \A u \in Threads : u # t => at'[u] = at[u]
        /\ at'[t].phase = at[t].phase /\ at'[t].list = at[t].list
        /\ at'[t].module = at[t].module /\ at'[t].i = i /\ at'[t].fn = f
    BY <1>1, <2>3, <2>4, <2>5, CallOutStep DEF CallsOut
  <2>7. i \in DOMAIN images'[at[t].list]
    BY <1>1, <1>3, <1>5 DEF Here, Frames
  <2>8. FrameStands(t)'
    BY <1>1, <1>2, <2>2, <2>6, <2>7 DEF FrameStands, ListPhases, RoutinePhases, callVars
  <2> QED
    BY <2>6, <2>8
<1>6. CASE new # {} /\ SetHere(t, i, e)
           /\ IF funcs["link"] = << >>
                THEN GoOn(t, i + 1)
                ELSE CallOut(t, i, "link", Head(funcs["link"]), Here(t)[i].image)
  BY <1>3, <1>4, <1>5, <1>6
<1>7. CASE NextList(t) /\ UNCHANGED images
  BY <1>1, <1>2, <1>7, NextListStep, SameImages DEF FrameStands, ListPhases, RoutinePhases, callVars, RestOk
<1>8. CASE NextPhase(t, "init") /\ UNCHANGED images
  <2>1. "init" \in Phases
    BY DEF Phases
  <2> QED
    BY <1>1, <1>2, <1>8, <2>1, NextPhaseStep, SameImages
       DEF FrameStands, ListPhases, RoutinePhases, callVars, RestOk
<1> QED
  BY <1>6, <1>7, <1>8 DEF LinkModules, i, e

(* The next function of a list is one of the list.                           *)
LEMMA NextOfList ==
  ASSUME TypeInv, NEW t \in Threads, NEW k \in ListPhases, at[t].phase = k,
         at[t].mode # "scan"
  PROVE  LET later == After(funcs[k], at[t].fn)
         IN \E a \in DOMAIN funcs[k] :
              /\ funcs[k][a] = at[t].fn
              /\ later = << >> => \A b \in DOMAIN funcs[k] : b <= a
              /\ later # << >> => /\ a + 1 \in DOMAIN funcs[k]
                                  /\ Head(later) = funcs[k][a + 1]
                                  /\ Head(later) \in AnyFn
<1>1. k \in DOMAIN Functions
  BY CalloutsAssumption DEF ListPhases
<1>2. funcs[k] \in Seq(Functions[k])
  BY <1>1 DEF TypeInv, Typed, FuncsOk
<1>3. \E a \in DOMAIN funcs[k] : funcs[k][a] = at[t].fn
  BY DEF TypeInv, FramesStand, FrameStands
<1>4. \A a \in DOMAIN funcs[k] : funcs[k][a] \in AnyFn
  <2>1. \A a \in DOMAIN funcs[k] : funcs[k][a] \in Functions[k]
    BY <1>2
  <2> QED
    BY <1>1, <2>1 DEF AnyFn, AllFunctions
<1> DEFINE s == funcs[k]
           f == at[t].fn
           S == Functions[k]
<1>5. s \in Seq(S) /\ \E a \in DOMAIN s : s[a] = f
  BY <1>2, <1>3
<1> HIDE DEF s, f, S
<1>6. BeginsAfter(s, f, After(s, f))
  BY <1>5, AfterThis
<1> QED
  BY <1>4, <1>6 DEF s, f, BeginsAfter

(* The next function of the list is called, or the search goes on.           *)
LEMMA NextFunctionTyped ==
  ASSUME TypeInv, NEW t \in Threads, NextFunction(t)
  PROVE  TypeInv'
<1>1. FramesOk /\ FrameStands(t) /\ at[t] \in Frames /\ RestOk /\ ImagesOk /\ IsABag(calls)
  BY DEF TypeInv, Typed, FramesOk, FramesStand
<1>2. UNCHANGED <<images, funcs, delayModInit, callVars>>
  BY DEF NextFunction
<1>3. ImagesOk' /\ UsedHaveImages' /\ Grown
  BY <1>2, SameImages
<1> SUFFICES /\ FramesOk' /\ \A u \in Threads : u # t => at'[u] = at[u]
             /\ FrameStands(t)' /\ IsABag(calls') /\ holder' \in Threads \cup {None}
  BY <1>1, <1>2, <1>3, StepTyped DEF RestOk, callVars
<1>4. PICK k \in {"add", "link"} :
        /\ At(t, {k}, "next")
        /\ LET later == After(funcs[k], at[t].fn)
           IN IF later = << >>
                THEN GoOn(t, Again(t))
                ELSE CallOut(t, at[t].i, k, Head(later),
                             IF k = "add" THEN at[t].image ELSE This(t).image)
  BY DEF NextFunction
<1>5. at[t].phase = k /\ at[t].mode = "next" /\ k \in ListPhases
  BY <1>4 DEF At, In, ListPhases
<1> DEFINE later == After(funcs[k], at[t].fn)
<1>6. CASE later = << >>
  <2>1. GoOn(t, Again(t)) /\ Again(t) \in Nat \ {0}
    BY <1>1, <1>4, <1>6 DEF Again, Frames
  <2> QED
    BY <1>1, <1>2, <1>5, <2>1, GoOnStep DEF FrameStands, ListPhases, RoutinePhases, callVars, RestOk
<1>7. CASE later # << >>
  <2> DEFINE f == Head(later)
             im == IF k = "add" THEN at[t].image ELSE This(t).image
             i == at[t].i
  <2>1. f \in AnyFn /\ \E a \in DOMAIN funcs[k] : funcs[k][a] = f
    BY <1>5, <1>7, NextOfList
  <2>2. i \in DOMAIN images[at[t].list] /\ i \in Nat \ {0}
    BY <1>1, <1>5 DEF FrameStands, Frames
  <2>3. This(t) \in EntryRecords
    BY <1>1, <2>2 DEF This, Here, ImagesOk, Frames
  <2>4. im \in Images \cup {None}
    BY <1>1, <2>3 DEF EntryRecords, Frames
  <2>5. CallOut(t, i, k, f, im)
    BY <1>4, <1>7
  <2>a. ~(k \in {"init", "term"} /\ f = 1)
    OBVIOUS
  <2> HIDE DEF f, im, i
  <2>b. CallsOut(t, i, k, f, im)
    BY <1>1, <2>1, <2>2, <2>4, <2>5, <2>a, CallOutStep
  <2>6. /\ FramesOk' /\ IsABag(calls') /\ holder' = None
        /\ \A u \in Threads : u # t => at'[u] = at[u]
        /\ at'[t].phase = at[t].phase /\ at'[t].list = at[t].list
        /\ at'[t].module = at[t].module /\ at'[t].i = i /\ at'[t].fn = f
    BY <2>b DEF CallsOut
  <2>7. FrameStands(t)'
    BY <1>1, <1>2, <1>5, <2>1, <2>2, <2>6 DEF FrameStands, ListPhases, RoutinePhases, callVars
  <2> QED
    BY <2>6, <2>7
<1> QED
  BY <1>6, <1>7

(* A module to be initialised is found,                                      *)
LEMMA InitModuleTyped ==
  ASSUME TypeInv, NEW t \in Threads, InitModule(t)
  PROVE  TypeInv'
<1> DEFINE new == Hits(t, {e \in Entries(t) : ToInitialise(t, e)})
           i == Min(new)
           e == Here(t)[i]
           begun == InitBegun(t, e)
<1>1. FramesOk /\ FrameStands(t) /\ at[t] \in Frames /\ RestOk /\ ImagesOk /\ IsABag(calls)
      /\ at[t].phase \in {"init", "initDelayed"} /\ at[t].mode = "scan" /\ holder = t
  BY DEF TypeInv, Typed, FramesOk, FramesStand, InitModule, At, In
<1>2. UNCHANGED <<funcs, delayModInit, callVars>> /\ new # {}
  BY DEF InitModule
<1>3. i \in DOMAIN Here(t) /\ i \in Nat \ {0} /\ e \in EntryRecords
      /\ e \in {x \in Entries(t) : ToInitialise(t, x)}
  BY <1>1, <1>2, FirstHit
<1>4. e.state \in {"REGISTERING", "LINKED"} /\ e.image \in Images
  BY <1>1, <1>3 DEF ToInitialise, TypeInv, UsedHaveImages, Here, Frames
<1>5. IF CallsMade(t) /\ ~e.inited /\ Routines[e.image] > 0
        THEN SetHere(t, i, begun) /\ CallOut(t, i, "init", 1, e.image)
        ELSE SetHere(t, i, InitEnded(begun)) /\ GoOn(t, i + 1)
  BY DEF InitModule
<1> HIDE DEF i, e
<1>6. begun \in EntryRecords /\ InitEnded(begun) \in EntryRecords
      /\ begun.image = e.image /\ InitEnded(begun).image = e.image
  BY <1>1, <1>3, <1>4 DEF EntryRecords, InitBegun, InitEnded, States, CallsMade,
     MakingDelayed, TypeInv, Typed, RestOk
<1> HIDE DEF begun
<1> SUFFICES /\ FramesOk' /\ \A u \in Threads : u # t => at'[u] = at[u]
             /\ ImagesOk' /\ UsedHaveImages' /\ Grown
             /\ FrameStands(t)' /\ IsABag(calls') /\ holder' \in Threads \cup {None}
  BY <1>1, <1>2, StepTyped DEF RestOk, callVars
<1>7. CASE SetHere(t, i, begun) /\ CallOut(t, i, "init", 1, e.image)
  <2>1. 1 \in AnyFn /\ 1 \in Nat
    BY DEF AnyFn
  <2>2. ImagesOk' /\ UsedHaveImages' /\ Grown
        /\ \A q \in Kinds : DOMAIN images'[q] = DOMAIN images[q]
    BY <1>3, <1>4, <1>6, <1>7, OtherEntry
  <2> DEFINE im == e.image
  <2>a. im \in Images \cup {None} /\ im \in Images /\ CallOut(t, i, "init", 1, im)
    BY <1>4, <1>7
  <2> HIDE DEF im
  <2>b. CallsOut(t, i, "init", 1, im)
    BY <1>1, <1>3, <2>1, <2>a, CallOutStep
  <2>3. /\ FramesOk' /\ IsABag(calls') /\ holder' = None
        /\ \A u \in Threads : u # t => at'[u] = at[u]
        /\ at'[t].phase = at[t].phase /\ at'[t].list = at[t].list
        /\ at'[t].module = at[t].module /\ at'[t].i = i /\ at'[t].fn = 1
    BY <2>b DEF CallsOut
  <2>4. i \in DOMAIN images'[at[t].list]
    BY <1>1, <1>3, <2>2 DEF Here, Frames
  <2>5. FrameStands(t)'
    BY <1>1, <1>2, <2>1, <2>3, <2>4 DEF FrameStands, ListPhases, RoutinePhases, callVars
  <2> QED
    BY <2>2, <2>3, <2>5
<1>8. CASE SetHere(t, i, InitEnded(begun)) /\ GoOn(t, i + 1)
  <2>1. i + 1 \in Nat \ {0}
    BY <1>3
  <2>2. ImagesOk' /\ UsedHaveImages' /\ Grown
    BY <1>3, <1>4, <1>6, <1>8, OtherEntry
  <2> QED
    BY <1>1, <1>2, <1>8, <2>1, <2>2, GoOnStep DEF FrameStands, ListPhases, RoutinePhases, callVars, RestOk
<1> QED
  BY <1>5, <1>7, <1>8

(* ... or none.                                                              *)
LEMMA InitDoneTyped ==
  ASSUME TypeInv, NEW t \in Threads, InitDone(t)
  PROVE  TypeInv'
<1>1. FramesOk /\ FrameStands(t) /\ at[t] \in Frames /\ RestOk /\ ImagesOk /\ IsABag(calls)
      /\ at[t].phase \in {"init", "initDelayed"} /\ at[t].mode = "scan" /\ holder = t
  BY DEF TypeInv, Typed, FramesOk, FramesStand, InitDone, At, In
<1>2. UNCHANGED <<images, funcs, linked, exited, cleanPass>>
  BY DEF InitDone
<1>3. ImagesOk' /\ UsedHaveImages' /\ Grown
  BY <1>2, SameImages
<1>4. CASE NextList(t) /\ UNCHANGED <<delayModInit, usable>>
  <2>1. /\ FramesOk' /\ \A u \in Threads : u # t => at'[u] = at[u]
        /\ FrameStands(t)' /\ UNCHANGED <<holder, calls>>
    BY <1>1, <1>2, <1>4, NextListStep DEF FrameStands, ListPhases, RoutinePhases, callVars
  <2> QED
    BY <1>1, <1>2, <1>3, <1>4, <2>1, StepTyped DEF RestOk
<1>5. CASE Leave(t) /\ delayModInit' = (delayModInit /\ ~MakingDelayed(t))
           /\ usable' = usable \cup ({at[t].module} \ {None}) /\ UNCHANGED calls
  <2>1. /\ FramesOk' /\ \A u \in Threads : u # t => at'[u] = at[u]
        /\ FrameStands(t)' /\ holder' = None /\ UNCHANGED calls
    BY <1>1, <1>2, <1>5, LeaveStep DEF FrameStands, ListPhases, RoutinePhases, callVars, Idle
  <2>2. usable' \subseteq linked /\ delayModInit' \in BOOLEAN
    BY <1>1, <1>5 DEF FrameStands, RestOk
  <2> QED
    BY <1>1, <1>2, <1>3, <2>1, <2>2, StepTyped DEF RestOk
<1> QED
  BY <1>4, <1>5 DEF InitDone

(* A call of a function or routine keeps the types ...                       *)
LEMMA CallOutTyped ==
  ASSUME TypeInv, NEW t \in Threads, at[t].phase # "out",
         NEW i \in Nat \ {0}, NEW kind, NEW fn \in AnyFn, NEW image \in Images \cup {None},
         kind \in {"init", "term"} /\ fn = 1 => image \in Images,
         CallOut(t, i, kind, fn, image),
         i \in DOMAIN images[at[t].list],
         at[t].phase \in ListPhases =>
           \E a \in DOMAIN funcs[at[t].phase] : funcs[at[t].phase][a] = fn,
         at[t].phase \in RoutinePhases => fn \in Nat \ {0},
         at[t].phase = "terminate" => fn \in Nat /\ image \in Images,
         ImagesOk', UsedHaveImages', Grown,
         UNCHANGED <<funcs, delayModInit, linked, usable, exited>>, cleanPass' \in BOOLEAN
  PROVE  TypeInv'
<1>1. FramesOk /\ FrameStands(t) /\ at[t] \in Frames /\ RestOk /\ IsABag(calls)
  BY DEF TypeInv, Typed, FramesOk, FramesStand
<1>2. CallsOut(t, i, kind, fn, image)
  BY <1>1, CallOutStep
<1>3. /\ FramesOk' /\ IsABag(calls') /\ holder' = None
      /\ \A u \in Threads : u # t => at'[u] = at[u]
      /\ at'[t].phase = at[t].phase /\ at'[t].list = at[t].list
      /\ at'[t].module = at[t].module /\ at'[t].i = i /\ at'[t].fn = fn
      /\ at'[t].image = image
  BY <1>2 DEF CallsOut
<1>4. i \in DOMAIN images'[at[t].list]
  BY <1>1 DEF Grown, Frames
<1>5. FrameStands(t)'
  BY <1>1, <1>3, <1>4 DEF FrameStands
<1>6. RestOk'
  BY <1>1, <1>3 DEF RestOk
<1> QED
  BY <1>3, <1>5, <1>6, StepTyped

(* ... and so does the search's going on ...                                 *)
LEMMA GoOnTyped ==
  ASSUME TypeInv, NEW t \in Threads, at[t].phase \notin {"out", "terminate", "remove"},
         NEW i \in Nat \ {0}, GoOn(t, i),
         ImagesOk', UsedHaveImages', Grown,
         UNCHANGED <<funcs, delayModInit, linked, usable, exited>>, cleanPass' \in BOOLEAN
  PROVE  TypeInv'
<1>1. FramesOk /\ FrameStands(t) /\ at[t] \in Frames /\ RestOk /\ IsABag(calls)
  BY DEF TypeInv, Typed, FramesOk, FramesStand
<1>2. /\ FramesOk' /\ UNCHANGED <<holder, calls>>
      /\ \A u \in Threads : u # t => at'[u] = at[u]
      /\ at'[t].phase = at[t].phase /\ at'[t].list = at[t].list
      /\ at'[t].module = at[t].module /\ at'[t].mode = "scan" /\ at'[t].i = i
      /\ at'[t].fn = at[t].fn
  BY <1>1, GoOnStep
<1>3. FrameStands(t)'
  BY <1>1, <1>2 DEF FrameStands
<1>4. RestOk'
  BY <1>1, <1>2 DEF RestOk
<1> QED
  BY <1>1, <1>2, <1>3, <1>4, StepTyped

(* ... its going on in the other list ...                                    *)
LEMMA NextListTyped ==
  ASSUME TypeInv, NEW t \in Threads, at[t].phase \notin {"out", "terminate", "remove"},
         at[t].mode = "scan", NextList(t), UNCHANGED <<images, funcs, delayModInit, callVars>>
  PROVE  TypeInv'
<1>1. FramesOk /\ FrameStands(t) /\ at[t] \in Frames /\ RestOk /\ IsABag(calls)
  BY DEF TypeInv, Typed, FramesOk, FramesStand
<1>2. /\ FramesOk' /\ UNCHANGED <<holder, calls>>
      /\ \A u \in Threads : u # t => at'[u] = at[u]
      /\ at'[t].phase = at[t].phase /\ at'[t].module = at[t].module
      /\ at'[t].mode = at[t].mode /\ at'[t].fn = at[t].fn
  BY <1>1, NextListStep
<1>3. FrameStands(t)'
  BY <1>1, <1>2 DEF FrameStands, callVars
<1>4. RestOk'
  BY <1>1, <1>2 DEF RestOk, callVars
<1> QED
  BY <1>1, <1>2, <1>3, <1>4, SameImages, StepTyped DEF callVars

(* ... in the next loop ...                                                  *)
LEMMA NextPhaseTyped ==
  ASSUME TypeInv, NEW t \in Threads, at[t].mode = "scan",
         NEW phase \in Phases \ {"out", "terminate", "remove", "initDelayed"},
         NextPhase(t, phase),
         UNCHANGED <<images, funcs, delayModInit, linked, usable, exited>>,
         cleanPass' \in BOOLEAN
  PROVE  TypeInv'
<1>1. FramesOk /\ FrameStands(t) /\ at[t] \in Frames /\ RestOk /\ IsABag(calls)
  BY DEF TypeInv, Typed, FramesOk, FramesStand
<1>2. /\ FramesOk' /\ UNCHANGED <<holder, calls>>
      /\ \A u \in Threads : u # t => at'[u] = at[u]
      /\ at'[t].phase = phase /\ at'[t].module = at[t].module
      /\ at'[t].mode = at[t].mode
  BY <1>1, NextPhaseStep
<1>3. FrameStands(t)'
  BY <1>1, <1>2 DEF FrameStands
<1>4. RestOk'
  BY <1>1, <1>2 DEF RestOk
<1> QED
  BY <1>1, <1>2, <1>3, <1>4, SameImages, StepTyped

(* ... and the end of an operation.                                          *)
LEMMA LeaveTyped ==
  ASSUME TypeInv, NEW t \in Threads, Leave(t), ImagesOk', UsedHaveImages', Grown,
         UNCHANGED <<funcs, delayModInit, linked, usable, exited, calls>>,
         cleanPass' \in BOOLEAN
  PROVE  TypeInv'
<1>1. FramesOk /\ RestOk /\ IsABag(calls)
  BY DEF TypeInv, Typed
<1>2. /\ FramesOk' /\ holder' = None /\ at'[t] = Idle
      /\ \A u \in Threads : u # t => at'[u] = at[u]
  BY <1>1, LeaveStep
<1>3. FrameStands(t)'
  BY <1>2 DEF FrameStands, ListPhases, RoutinePhases, Idle
<1>4. RestOk'
  BY <1>1, <1>2 DEF RestOk
<1> QED
  BY <1>1, <1>2, <1>3, <1>4, StepTyped

(* The next of the module's initialisers is called, or the search goes on.   *)
LEMMA NextInitTyped ==
  ASSUME TypeInv, NEW t \in Threads, NextInit(t)
  PROVE  TypeInv'
<1>1. FramesOk /\ FrameStands(t) /\ at[t] \in Frames /\ RestOk /\ ImagesOk
      /\ at[t].phase \in {"init", "initDelayed"} /\ at[t].mode = "next"
  BY DEF TypeInv, Typed, FramesOk, FramesStand, NextInit, At, In
<1>2. UNCHANGED <<funcs, delayModInit, linked, usable, exited>> /\ cleanPass' \in BOOLEAN
  BY <1>1 DEF NextInit, callVars, RestOk
<1>3. /\ at[t].i \in DOMAIN images[at[t].list] /\ at[t].i \in Nat \ {0} /\ at[t].n \in Nat
      /\ at[t].fn \in Nat \ {0} /\ at[t].fn + 1 \in Nat \ {0} /\ at[t].fn + 1 # 1
  BY <1>1 DEF FrameStands, Frames, RoutinePhases
<1>4. This(t) \in EntryRecords /\ at[t].i \in DOMAIN Here(t)
  BY <1>1 DEF This, Here, ImagesOk, Frames, FrameStands
<1>5. CASE CallOut(t, at[t].i, "init", at[t].fn + 1, This(t).image) /\ UNCHANGED images
  <2> DEFINE im == This(t).image
             fn == at[t].fn + 1
             i == at[t].i
  <2>1. /\ im \in Images \cup {None} /\ fn \in AnyFn /\ i \in Nat \ {0} /\ fn # 1
        /\ fn \in Nat \ {0} /\ i \in DOMAIN images[at[t].list]
    BY <1>3, <1>4 DEF EntryRecords, AnyFn
  <2>2. CallOut(t, i, "init", fn, im)
    BY <1>5
  <2> HIDE DEF im, fn, i
  <2>3. ImagesOk' /\ UsedHaveImages' /\ Grown
    BY <1>5, SameImages
  <2>4. at[t].phase \notin ListPhases \cup {"terminate", "out"}
    BY <1>1 DEF ListPhases
  <2> QED
    BY <1>2, <2>1, <2>2, <2>3, <2>4, CallOutTyped
<1>6. ASSUME SetHere(t, at[t].i, InitEnded(This(t))),
             GoOn(t, IF MakingDelayed(t) THEN at[t].i + 1 ELSE Again(t))
      PROVE  TypeInv'
  <2> DEFINE e == InitEnded(This(t))
             i == at[t].i
             j == IF MakingDelayed(t) THEN at[t].i + 1 ELSE Again(t)
  <2>1. e \in EntryRecords /\ (e.state # "UNUSED" => e.image \in Images)
    <3>1. This(t).state # "UNUSED" => This(t).image \in Images
      BY <1>1, <1>3 DEF TypeInv, UsedHaveImages, This, Here, Frames
    <3> QED
      BY <1>4, <3>1 DEF InitEnded, EntryRecords, States
  <2>2. j \in Nat \ {0}
    BY <1>3 DEF Again
  <2>3. SetHere(t, i, e) /\ GoOn(t, j) /\ i \in DOMAIN Here(t)
    BY <1>4, <1>6
  <2> HIDE DEF e, i, j
  <2>4. ImagesOk' /\ UsedHaveImages' /\ Grown
    BY <2>1, <2>3, OtherEntry
  <2>5. at[t].phase \notin {"out", "terminate", "remove"}
    BY <1>1
  <2> QED
    BY <1>2, <2>2, <2>3, <2>4, <2>5, GoOnTyped
<1> QED
  BY <1>5, <1>6 DEF NextInit

(* The bundle's next terminator is called, or the functions follow.          *)
LEMMA TerminateTyped ==
  ASSUME TypeInv, NEW t \in Threads, Terminate(t)
  PROVE  TypeInv'
<1>1. FramesOk /\ FrameStands(t) /\ at[t] \in Frames /\ RestOk /\ ImagesOk /\ IsABag(calls)
      /\ at[t].phase = "terminate"
  BY DEF TypeInv, Typed, FramesOk, FramesStand, Terminate, In
<1>2. UNCHANGED <<images, funcs, delayModInit, callVars>>
  BY DEF Terminate
<1>3. ImagesOk' /\ UsedHaveImages' /\ Grown
  BY <1>2, SameImages
<1>4. /\ at[t].i \in DOMAIN images[at[t].list] /\ at[t].i \in Nat \ {0}
      /\ at[t].fn \in Nat /\ at[t].image \in Images
  BY <1>1 DEF FrameStands, Frames
<1>5. CASE CallOut(t, at[t].i, "term", at[t].fn + 1, at[t].image)
  <2> DEFINE im == at[t].image
             fn == at[t].fn + 1
             i == at[t].i
  <2>1. /\ im \in Images /\ im \in Images \cup {None} /\ fn \in AnyFn /\ i \in Nat \ {0}
        /\ fn \in Nat /\ i \in DOMAIN images[at[t].list]
    BY <1>4 DEF AnyFn
  <2>2. CallOut(t, i, "term", fn, im)
    BY <1>5
  <2> HIDE DEF im, fn, i
  <2>3. at[t].phase \notin ListPhases \cup RoutinePhases \cup {"out"}
        /\ UNCHANGED <<funcs, delayModInit, linked, usable, exited>> /\ cleanPass' \in BOOLEAN
    BY <1>1, <1>2 DEF ListPhases, RoutinePhases, callVars, RestOk
  <2> QED
    BY <1>3, <2>1, <2>2, <2>3, CallOutTyped
<1>6. CASE /\ at' = [at EXCEPT ![t].phase = "remove", ![t].mode = "scan"]
           /\ UNCHANGED <<holder, calls>>
  <2>1. at'[t] = [at[t] EXCEPT !.phase = "remove", !.mode = "scan"]
        /\ \A u \in Threads : u # t => at'[u] = at[u]
    BY <1>1, <1>6 DEF FramesOk
  <2>2. at'[t] \in Frames /\ at'[t].phase = "remove" /\ at'[t].mode = "scan"
        /\ at'[t].list = at[t].list /\ at'[t].i = at[t].i /\ at'[t].module = at[t].module
    BY <1>1, <2>1 DEF Frames, Phases
  <2>3. FramesOk'
    BY <1>1, <1>6, <2>1, <2>2 DEF FramesOk
  <2>4. FrameStands(t)'
    BY <1>1, <1>2, <2>2 DEF FrameStands, ListPhases, RoutinePhases, callVars
  <2> QED
    BY <1>1, <1>2, <1>3, <1>6, <2>1, <2>3, <2>4, StepTyped DEF RestOk, callVars
<1> QED
  BY <1>5, <1>6 DEF Terminate

(* The next function for the removed image is called, or it goes.            *)
LEMMA RemoveImageTyped ==
  ASSUME TypeInv, NEW t \in Threads, RemoveImage(t)
  PROVE  TypeInv'
<1> DEFINE later == IF at[t].mode = "scan" THEN funcs["remove"]
                                           ELSE After(funcs["remove"], at[t].fn)
<1>1. FramesOk /\ FrameStands(t) /\ at[t] \in Frames /\ RestOk /\ ImagesOk
      /\ at[t].phase = "remove"
  BY DEF TypeInv, Typed, FramesOk, FramesStand, RemoveImage, In
<1>2. UNCHANGED <<funcs, delayModInit, linked, usable, exited>> /\ cleanPass' \in BOOLEAN
  BY <1>1 DEF RemoveImage, callVars, RestOk
<1>3. /\ at[t].i \in DOMAIN images[at[t].list] /\ at[t].i \in Nat \ {0}
      /\ at[t].image \in Images \cup {None} /\ at[t].list = "objects"
      /\ "remove" \in ListPhases /\ "remove" \in DOMAIN Functions
  BY <1>1, CalloutsAssumption DEF FrameStands, Frames, ListPhases
<1>4. later # << >> => Head(later) \in AnyFn
                       /\ \E a \in DOMAIN funcs["remove"] : funcs["remove"][a] = Head(later)
  <2>1. CASE at[t].mode = "scan"
    <3>1. funcs["remove"] \in Seq(Functions["remove"])
      BY <1>3 DEF TypeInv, Typed, FuncsOk
    <3>2. funcs["remove"] # << >> =>
            /\ 1 \in DOMAIN funcs["remove"] /\ Head(funcs["remove"]) = funcs["remove"][1]
            /\ Head(funcs["remove"]) \in Functions["remove"]
      BY <3>1
    <3> QED
      BY <1>3, <2>1, <3>2 DEF AnyFn, AllFunctions
  <2>2. CASE at[t].mode # "scan"
    BY <1>1, <1>3, <2>2, NextOfList
  <2> QED
    BY <2>1, <2>2
<1>5. ASSUME later # << >>, CallOut(t, at[t].i, "remove", Head(later), at[t].image),
             UNCHANGED images
      PROVE  TypeInv'
  <2> DEFINE im == at[t].image
             fn == Head(later)
             i == at[t].i
  <2>1. /\ im \in Images \cup {None} /\ fn \in AnyFn /\ i \in Nat \ {0}
        /\ i \in DOMAIN images[at[t].list]
        /\ \E a \in DOMAIN funcs["remove"] : funcs["remove"][a] = fn
    BY <1>3, <1>4, <1>5
  <2>2. CallOut(t, i, "remove", fn, im)
    BY <1>5
  <2> HIDE DEF im, fn, i, later
  <2>3. ImagesOk' /\ UsedHaveImages' /\ Grown
    BY <1>5, SameImages
  <2>4. at[t].phase \notin RoutinePhases \cup {"out", "terminate"}
    BY <1>1 DEF RoutinePhases
  <2> QED
    BY <1>1, <1>2, <2>1, <2>2, <2>3, <2>4, CallOutTyped
<1>6. ASSUME images' = [images EXCEPT !.objects[at[t].i] = Unused(@)], Leave(t),
             UNCHANGED calls
      PROVE  TypeInv'
  <2> DEFINE e == Unused(images.objects[at[t].i])
             i == at[t].i
  <2>1. e \in EntryRecords /\ e.state = "UNUSED"
    BY DEF Unused, Entry, EntryRecords, States
  <2>2. SetHere(t, i, e) /\ i \in DOMAIN Here(t)
    BY <1>1, <1>3, <1>6 DEF SetHere, Here
  <2> HIDE DEF e, i
  <2>3. ImagesOk' /\ UsedHaveImages' /\ Grown
    BY <2>1, <2>2, OtherEntry
  <2> QED
    BY <1>2, <1>6, <2>3, LeaveTyped
<1> QED
  BY <1>5, <1>6 DEF RemoveImage

(* A module to be terminated is found, or none, or the pass was clean.       *)
LEMMA ExitModulesTyped ==
  ASSUME TypeInv, NEW t \in Threads, ExitModules(t)
  PROVE  TypeInv'
<1> DEFINE left == Hits(t, {e \in Entries(t) : ToBeTerminated(e)})
           i == Min(left)
           e == [Here(t)[i] EXCEPT !.termed = TRUE]
           im == Here(t)[i].image
<1>1. FramesOk /\ FrameStands(t) /\ at[t] \in Frames /\ RestOk /\ ImagesOk
      /\ at[t].phase = "exit" /\ at[t].mode = "scan"
      /\ at[t].phase \notin {"out", "terminate", "remove"}
      /\ at[t].phase \notin ListPhases \cup {"terminate"}
  BY DEF TypeInv, Typed, FramesOk, FramesStand, ExitModules, At, In, ListPhases
<1>2. UNCHANGED <<funcs, delayModInit, linked, usable, exited>> /\ cleanPass' \in BOOLEAN
  BY <1>1 DEF ExitModules, RestOk
<1>3. ASSUME left # {}, SetHere(t, i, e)
      PROVE  /\ i \in DOMAIN Here(t) /\ i \in Nat \ {0} /\ im \in Images
             /\ ImagesOk' /\ UsedHaveImages' /\ Grown
  <2>1. i \in DOMAIN Here(t) /\ i \in Nat \ {0} /\ Here(t)[i] \in EntryRecords
        /\ Here(t)[i] \in {x \in Entries(t) : ToBeTerminated(x)}
    BY <1>1, <1>3, FirstHit
  <2> HIDE DEF i
  <2>2. e \in EntryRecords /\ e.image = im /\ Here(t)[i].state = "LINKED"
    BY <2>1 DEF EntryRecords, ToBeTerminated
  <2>3. im \in Images
    BY <1>1, <2>1, <2>2 DEF TypeInv, UsedHaveImages, Here, Frames
  <2> HIDE DEF e, im
  <2> QED
    BY <1>3, <2>1, <2>2, <2>3, OtherEntry
<1> HIDE DEF i, e, im
<1>4. ASSUME left # {}, SetHere(t, i, e), GoOn(t, i + 1)
      PROVE  TypeInv'
  <2>1. i + 1 \in Nat \ {0}
    BY <1>3, <1>4
  <2> QED
    BY <1>1, <1>2, <1>3, <1>4, <2>1, GoOnTyped
<1>5. ASSUME left # {}, SetHere(t, i, e), CallOut(t, i, "term", 1, im)
      PROVE  TypeInv'
  <2>1. 1 \in AnyFn /\ 1 \in Nat \ {0} /\ i \in DOMAIN images[at[t].list] /\ im \in Images
    BY <1>3, <1>5 DEF AnyFn, Here
  <2> QED
    BY <1>1, <1>2, <1>3, <1>5, <2>1, CallOutTyped
<1>6. CASE NextList(t) /\ UNCHANGED <<images, cleanPass>>
  BY <1>1, <1>2, <1>6, NextListTyped DEF callVars
<1>7. CASE NextPhase(t, "exit") /\ UNCHANGED images
  <2>1. "exit" \in Phases \ {"out", "terminate", "remove", "initDelayed"}
    BY DEF Phases
  <2> QED
    BY <1>1, <1>2, <1>7, <2>1, NextPhaseTyped
<1>8. CASE Leave(t) /\ UNCHANGED <<images, cleanPass, calls>>
  BY <1>2, <1>8, SameImages, LeaveTyped
<1> QED
  BY <1>4, <1>5, <1>6, <1>7, <1>8 DEF ExitModules, i, e, im

(* Its next terminator is called, or the search goes on.                     *)
LEMMA NextTermTyped ==
  ASSUME TypeInv, NEW t \in Threads, NextTerm(t)
  PROVE  TypeInv'
<1>1. FramesOk /\ FrameStands(t) /\ at[t] \in Frames /\ RestOk /\ ImagesOk
      /\ at[t].phase = "exit" /\ at[t].mode = "next"
      /\ at[t].phase \notin {"out", "terminate", "remove"}
      /\ at[t].phase \notin ListPhases \cup {"terminate"}
  BY DEF TypeInv, Typed, FramesOk, FramesStand, NextTerm, At, In, ListPhases
<1>2. UNCHANGED <<images, funcs, delayModInit, linked, usable, exited>>
      /\ cleanPass' \in BOOLEAN
  BY <1>1 DEF NextTerm, RestOk
<1>3. /\ at[t].i \in DOMAIN images[at[t].list] /\ at[t].i \in Nat \ {0}
      /\ at[t].fn \in Nat \ {0} /\ at[t].fn + 1 \in Nat \ {0} /\ at[t].fn + 1 # 1
      /\ at[t].i + 1 \in Nat \ {0}
  BY <1>1 DEF FrameStands, Frames, RoutinePhases
<1>4. ImagesOk' /\ UsedHaveImages' /\ Grown
  BY <1>2, SameImages
<1>5. CASE CallOut(t, at[t].i, "term", at[t].fn + 1, This(t).image)
  <2> DEFINE im == This(t).image
             fn == at[t].fn + 1
             i == at[t].i
  <2>a. This(t) \in EntryRecords
    BY <1>1, <1>3 DEF This, Here, ImagesOk, Frames
  <2>1. /\ im \in Images \cup {None} /\ fn \in AnyFn /\ i \in Nat \ {0} /\ fn # 1
        /\ fn \in Nat \ {0} /\ i \in DOMAIN images[at[t].list]
    BY <1>3, <2>a DEF EntryRecords, AnyFn
  <2>2. CallOut(t, i, "term", fn, im)
    BY <1>5
  <2> HIDE DEF im, fn, i
  <2> QED
    BY <1>1, <1>2, <1>4, <2>1, <2>2, CallOutTyped
<1>6. CASE GoOn(t, at[t].i + 1)
  BY <1>1, <1>2, <1>3, <1>4, <1>6, GoOnTyped
<1> QED
  BY <1>5, <1>6 DEF NextTerm

(* What begins an operation                                                  *)
LEMMA EnterTyped ==
  ASSUME TypeInv, NEW t \in Threads, NEW frame \in Frames, Enter(t, frame),
         frame.mode = "scan",
         frame.phase \notin {"out", "terminate", "remove"},
         frame.module \in linked' \cup {None},
         frame.phase = "initDelayed" => frame.module = None,
         ImagesOk', UsedHaveImages', Grown, FuncsOk', FuncsKept, NoneTwice',
         UNCHANGED <<delayModInit, cleanPass, calls>>,
         linked \subseteq linked', linked' \subseteq Bundles, UNCHANGED usable, exited' \in BOOLEAN
  PROVE  TypeInv'
<1>1. FramesOk /\ FramesStand /\ RestOk /\ IsABag(calls)
  BY DEF TypeInv, Typed
<1>2. /\ FramesOk' /\ holder' = t /\ at'[t] = frame
      /\ \A u \in Threads : u # t => at'[u] = at[u]
  BY <1>1, EnterStep
<1>3. FrameStands(t)'
  BY <1>2 DEF FrameStands
<1>4. FramesStand'
  BY <1>1, <1>2, <1>3, OthersStand
<1>5. RestOk'
  BY <1>1, <1>2 DEF RestOk
<1> QED
  BY <1>1, <1>2, <1>4, <1>5 DEF TypeInv, Typed

(* The frame of an operation that begins                                     *)
LEMMA FirstFrame ==
  ASSUME NEW phase \in Phases, NEW fn \in AnyFn, NEW module \in Bundles \cup {None}
  PROVE  /\ [Idle EXCEPT !.phase = phase, !.fn = fn] \in Frames
         /\ [Idle EXCEPT !.phase = phase, !.module = module] \in Frames
         /\ [Idle EXCEPT !.phase = phase] \in Frames
<1>1. 1 \in Nat \ {0} /\ 0 \in Nat /\ "objects" \in Kinds /\ None \in AnyFn
  BY DEF Kinds, AnyFn
<1>2. Idle = [phase |-> "out", mode |-> "scan", list |-> "objects", i |-> 1,
              fn |-> None, n |-> 0, image |-> None, module |-> None]
  BY DEF Idle
<1> QED
  BY <1>1, <1>2 DEF Frames

(* Where the lists of functions stay, no function gets into one twice.       *)
LEMMA SameFuncs ==
  ASSUME TypeInv, UNCHANGED funcs
  PROVE  FuncsOk' /\ FuncsKept /\ NoneTwice'
BY DEF TypeInv, Typed, FuncsOk, FuncsKept, NoneTwice

(* What linking a bundle does to the lists                                   *)
LEMMA WithBundleTyped ==
  ASSUME NEW s \in Seq(EntryRecords), NEW b \in Bundles
  PROVE  LET r == WithBundle(s, b)
         IN \E j \in Nat \ {0} :
              /\ r \in Seq(EntryRecords)
              /\ DOMAIN r = DOMAIN s \cup {j}
              /\ \A i \in DOMAIN s : i # j => r[i] = s[i]
              /\ j \in DOMAIN s => s[j].state = "UNUSED"
                                   /\ r[j] = [s[j] EXCEPT !.image = b, !.state = "RELOCATED"]
              /\ j \notin DOMAIN s => r[j] = Entry(b, "RELOCATED", FALSE)
<1> DEFINE unused == {i \in DOMAIN s : s[i].state = "UNUSED"}
           i == Min(unused)
<1>1. DOMAIN s = 1 .. Len(s) /\ Len(s) \in Nat /\ b \in Images /\ "RELOCATED" \in States
  BY DEF Images, States
<1>2. CASE unused = {}
  <2> DEFINE e == Entry(b, "RELOCATED", FALSE)
  <2>1. WithBundle(s, b) = Append(s, e)
    BY <1>2 DEF WithBundle
  <2>2. e \in EntryRecords
    BY <1>1 DEF Entry, EntryRecords
  <2> HIDE DEF e
  <2> DEFINE r == Append(s, e)
             j == Len(s) + 1
  <2>3. r \in Seq(EntryRecords) /\ Len(r) = j /\ r[j] = e
        /\ \A x \in 1 .. Len(s) : r[x] = s[x]
    BY <2>2
  <2>4. j \in Nat \ {0} /\ j \notin DOMAIN s /\ 1 .. j = DOMAIN s \cup {j}
    BY <1>1
  <2>5. DOMAIN r = DOMAIN s \cup {j}
    BY <2>3, <2>4
  <2> HIDE DEF r, j
  <2>6. WithBundle(s, b) = r
    BY <2>1 DEF r
  <2> QED
    BY <1>1, <2>3, <2>4, <2>5, <2>6 DEF e
<1>3. CASE unused # {}
  <2> DEFINE e == [s[i] EXCEPT !.image = b, !.state = "RELOCATED"]
             r == [s EXCEPT ![i] = e]
  <2>1. WithBundle(s, b) = r
    BY <1>3 DEF WithBundle
  <2>2. unused \in SUBSET Nat
    BY <1>1
  <2>3. i \in unused
    BY <1>3, <2>2, MinIsLeast
  <2> HIDE DEF i
  <2>4. i \in DOMAIN s /\ i \in Nat \ {0} /\ s[i].state = "UNUSED" /\ s[i] \in EntryRecords
    BY <1>1, <2>3
  <2>5. e \in EntryRecords
    BY <1>1, <2>4 DEF EntryRecords
  <2> HIDE DEF e
  <2>6. r \in Seq(EntryRecords) /\ DOMAIN r = DOMAIN s /\ r[i] = e
        /\ \A x \in DOMAIN s : x # i => r[x] = s[x]
    BY <2>4, <2>5
  <2> HIDE DEF r
  <2>7. WithBundle(s, b) = r /\ DOMAIN r = DOMAIN s \cup {i}
    BY <2>1, <2>4, <2>6 DEF r
  <2>8. r[i] = [s[i] EXCEPT !.image = b, !.state = "RELOCATED"]
    BY <2>6 DEF e
  <2> QED
    BY <2>4, <2>6, <2>7, <2>8
<1> QED
  BY <1>2, <1>3

(* The library a bundle needs is linked, or added to the list.               *)
LEMMA WithLibraryTyped ==
  ASSUME NEW s \in Seq(EntryRecords), NEW l \in Images
  PROVE  LET r == WithLibrary(s, l)
         IN /\ r \in Seq(EntryRecords)
            /\ DOMAIN s \subseteq DOMAIN r
            /\ \A i \in DOMAIN s :
                 \/ r[i] = s[i]
                 \/ s[i].state = "UNLINKED" /\ r[i] = [s[i] EXCEPT !.state = "RELOCATED"]
            /\ \A i \in DOMAIN r \ DOMAIN s : r[i] = Entry(l, "RELOCATED", FALSE)
<1>1. DOMAIN s = 1 .. Len(s) /\ Len(s) \in Nat /\ "RELOCATED" \in States
  BY DEF States
<1>2. CASE \E i \in DOMAIN s : s[i].image = l
  <2> DEFINE e(i) == IF s[i].image = l /\ s[i].state = "UNLINKED"
                       THEN [s[i] EXCEPT !.state = "RELOCATED"] ELSE s[i]
             r == [i \in DOMAIN s |-> e(i)]
  <2>1. WithLibrary(s, l) = r
    BY <1>2 DEF WithLibrary
  <2>2. \A i \in DOMAIN s : e(i) \in EntryRecords
    <3> TAKE i \in DOMAIN s
    <3>1. s[i] \in EntryRecords
      OBVIOUS
    <3> QED
      BY <1>1, <3>1 DEF EntryRecords
  <2>3. \A i \in DOMAIN s : \/ e(i) = s[i]
                            \/ /\ s[i].state = "UNLINKED"
                               /\ e(i) = [s[i] EXCEPT !.state = "RELOCATED"]
    OBVIOUS
  <2> HIDE DEF e
  <2>4. r \in Seq(EntryRecords) /\ DOMAIN r = DOMAIN s /\ \A i \in DOMAIN s : r[i] = e(i)
    BY <1>1, <2>2
  <2> QED
    BY <2>1, <2>3, <2>4
<1>3. CASE ~\E i \in DOMAIN s : s[i].image = l
  <2> DEFINE e == Entry(l, "RELOCATED", FALSE)
             r == Append(s, e)
  <2>1. WithLibrary(s, l) = r
    BY <1>3 DEF WithLibrary
  <2>2. e \in EntryRecords
    BY <1>1 DEF Entry, EntryRecords
  <2> HIDE DEF e
  <2>3. r \in Seq(EntryRecords) /\ Len(r) = Len(s) + 1 /\ r[Len(s) + 1] = e
        /\ \A x \in 1 .. Len(s) : r[x] = s[x]
    BY <2>2
  <2>4. DOMAIN r = 1 .. Len(s) + 1
    BY <1>1, <2>3
  <2> HIDE DEF r
  <2>5. DOMAIN s \subseteq DOMAIN r /\ \A i \in DOMAIN r \ DOMAIN s : i = Len(s) + 1
    BY <1>1, <2>4
  <2> QED
    BY <1>1, <2>1, <2>3, <2>5 DEF r, e
<1> QED
  BY <1>2, <1>3

(* How an entry changes when modules are linked: it is new, or of an object  *)
(* that was UNUSED, or of a library that was UNLINKED, or does not change.   *)
LinkedEntry(k, i, b) ==
  LET e == images'[k][i]
      o == images[k][i]
  IN \/ i \in DOMAIN images[k] /\ e = o
     \/ i \in DOMAIN images[k] /\ k = "objects" /\ o.state = "UNUSED"
        /\ e = [o EXCEPT !.image = b, !.state = "RELOCATED"]
     \/ i \in DOMAIN images[k] /\ k = "libs" /\ o.state = "UNLINKED"
        /\ e = [o EXCEPT !.state = "RELOCATED"]
     \/ i \notin DOMAIN images[k] /\ \E im \in Images : e = Entry(im, "RELOCATED", FALSE)

(* So they do in NSLinkModule(),                                             *)
LEMMA LinkModuleImages ==
  ASSUME TypeInv, NEW b \in Bundles,
         images' = [objects |-> WithBundle(images.objects, b),
                    libs |-> IF Needs[b] = None THEN images.libs
                             ELSE WithLibrary(images.libs, Needs[b])]
  PROVE  /\ ImagesOk' /\ Grown
         /\ \A k \in Kinds : \A i \in DOMAIN images'[k] : LinkedEntry(k, i, b)
<1>1. /\ images.objects \in Seq(EntryRecords) /\ images.libs \in Seq(EntryRecords)
      /\ Kinds = {"objects", "libs"} /\ b \in Images
  BY DEF TypeInv, Typed, ImagesOk, Kinds, Images
<1> DEFINE r == WithBundle(images.objects, b)
           q == IF Needs[b] = None THEN images.libs ELSE WithLibrary(images.libs, Needs[b])
<1>2. PICK j \in Nat \ {0} :
        /\ r \in Seq(EntryRecords)
        /\ DOMAIN r = DOMAIN images.objects \cup {j}
        /\ \A i \in DOMAIN images.objects : i # j => r[i] = images.objects[i]
        /\ j \in DOMAIN images.objects =>
             /\ images.objects[j].state = "UNUSED"
             /\ r[j] = [images.objects[j] EXCEPT !.image = b, !.state = "RELOCATED"]
        /\ j \notin DOMAIN images.objects => r[j] = Entry(b, "RELOCATED", FALSE)
  BY <1>1, WithBundleTyped
<1>3. /\ q \in Seq(EntryRecords) /\ DOMAIN images.libs \subseteq DOMAIN q
      /\ \A i \in DOMAIN images.libs :
           \/ q[i] = images.libs[i]
           \/ /\ images.libs[i].state = "UNLINKED"
              /\ q[i] = [images.libs[i] EXCEPT !.state = "RELOCATED"]
      /\ \A i \in DOMAIN q \ DOMAIN images.libs :
           \E im \in Images : q[i] = Entry(im, "RELOCATED", FALSE)
  <2>1. CASE Needs[b] = None
    BY <1>1, <2>1
  <2>2. CASE Needs[b] # None
    <3>1. Needs[b] \in Images
      BY <2>2 DEF Images, Needed
    <3> DEFINE l == Needs[b]
               r1 == WithLibrary(images.libs, l)
    <3>2. q = r1
      BY <2>2
    <3> HIDE DEF l, q
    <3>3. /\ r1 \in Seq(EntryRecords) /\ DOMAIN images.libs \subseteq DOMAIN r1
          /\ \A i \in DOMAIN images.libs :
               \/ r1[i] = images.libs[i]
               \/ /\ images.libs[i].state = "UNLINKED"
                  /\ r1[i] = [images.libs[i] EXCEPT !.state = "RELOCATED"]
          /\ \A i \in DOMAIN r1 \ DOMAIN images.libs : r1[i] = Entry(l, "RELOCATED", FALSE)
      BY <1>1, <3>1, WithLibraryTyped DEF l
    <3> HIDE DEF r1
    <3> QED
      BY <3>1, <3>2, <3>3 DEF l
  <2> QED
    BY <2>1, <2>2
<1> HIDE DEF r, q
<1>4. images' = [objects |-> r, libs |-> q]
  BY DEF r, q
<1>5. images'["objects"] = r /\ images'["libs"] = q /\ DOMAIN images' = Kinds
  BY <1>1, <1>4
<1>6. ImagesOk'
  BY <1>1, <1>2, <1>3, <1>4 DEF ImagesOk
<1>7. Grown
  BY <1>1, <1>2, <1>3, <1>5 DEF Grown
<1>8. \A i \in DOMAIN images'["objects"] : LinkedEntry("objects", i, b)
  <2> TAKE i \in DOMAIN images'["objects"]
  <2>1. CASE i # j
    BY <1>2, <1>5, <2>1 DEF LinkedEntry
  <2>2. CASE i = j
    BY <1>1, <1>2, <1>5, <2>2 DEF LinkedEntry
  <2> QED
    BY <2>1, <2>2
<1>9. \A i \in DOMAIN images'["libs"] : LinkedEntry("libs", i, b)
  <2> TAKE i \in DOMAIN images'["libs"]
  <2>1. CASE i \in DOMAIN images["libs"]
    BY <1>3, <1>5, <2>1 DEF LinkedEntry
  <2>2. CASE i \notin DOMAIN images["libs"]
    BY <1>3, <1>5, <2>2 DEF LinkedEntry
  <2> QED
    BY <2>1, <2>2
<1> QED
  BY <1>1, <1>6, <1>7, <1>8, <1>9

(* ... which begins an operation.                                            *)
LEMMA LinkModuleTyped ==
  ASSUME TypeInv, NEW t \in Threads, NEW b \in Bundles, LinkModule(t, b)
  PROVE  TypeInv'
<1>1. /\ Enter(t, [Idle EXCEPT !.phase = "add", !.module = b])
      /\ linked' = linked \cup {b}
      /\ UNCHANGED <<funcs, delayModInit, usable, exited, cleanPass, calls>>
  BY DEF LinkModule
<1>2. ImagesOk' /\ Grown /\ \A k \in Kinds : \A i \in DOMAIN images'[k] : LinkedEntry(k, i, b)
  BY LinkModuleImages DEF LinkModule
<1>3. UsedHaveImages'
  <2> SUFFICES ASSUME NEW k \in Kinds, NEW i \in DOMAIN images'[k],
                      images'[k][i].state # "UNUSED"
               PROVE  images'[k][i].image \in Images
    BY DEF UsedHaveImages
  <2> DEFINE e == images'[k][i]
             o == images[k][i]
  <2>1. LinkedEntry(k, i, b) /\ b \in Images
    BY <1>2 DEF Images
  <2>2. i \in DOMAIN images[k] => o \in EntryRecords
                                  /\ (o.state # "UNUSED" => o.image \in Images)
    BY DEF TypeInv, Typed, ImagesOk, UsedHaveImages
  <2>3. CASE i \in DOMAIN images[k] /\ e = o
    BY <2>2, <2>3
  <2>4. CASE i \in DOMAIN images[k] /\ e = [o EXCEPT !.image = b, !.state = "RELOCATED"]
    BY <2>1, <2>2, <2>4 DEF EntryRecords
  <2>5. CASE i \in DOMAIN images[k] /\ o.state = "UNLINKED"
             /\ e = [o EXCEPT !.state = "RELOCATED"]
    BY <2>2, <2>5 DEF EntryRecords
  <2>6. CASE \E im \in Images : e = Entry(im, "RELOCATED", FALSE)
    BY <2>6 DEF Entry
  <2> QED
    BY <2>1, <2>3, <2>4, <2>5, <2>6 DEF LinkedEntry
<1> DEFINE frame == [Idle EXCEPT !.phase = "add", !.module = b]
<1>4. /\ frame \in Frames /\ frame.mode = "scan" /\ frame.phase = "add" /\ frame.module = b
  <2>1. "add" \in Phases /\ None \in AnyFn
    BY DEF Phases, AnyFn
  <2> QED
    BY <2>1, FirstFrame DEF Idle
<1> HIDE DEF frame
<1>5. Enter(t, frame)
  BY <1>1 DEF frame
<1>6. linked \subseteq linked' /\ linked' \subseteq Bundles /\ exited' \in BOOLEAN
  BY <1>1 DEF TypeInv, Typed, RestOk
<1> QED
  BY <1>1, <1>2, <1>3, <1>4, <1>5, <1>6, SameFuncs, EnterTyped

(* Binding links a library's module, and no other.                           *)
LEMMA BindModuleTyped ==
  ASSUME TypeInv, NEW t \in Threads, NEW i \in DOMAIN images.libs, BindModule(t, i)
  PROVE  /\ TypeInv' /\ Grown
         /\ images.libs[i].state = "UNLINKED"
         /\ images'["libs"][i] = [images.libs[i] EXCEPT !.state = "RELOCATED"]
         /\ \A k \in Kinds : DOMAIN images'[k] = DOMAIN images[k]
         /\ \A k \in Kinds : \A j \in DOMAIN images[k] :
              k # "libs" \/ j # i => images'[k][j] = images[k][j]
<1> DEFINE frame == [Idle EXCEPT !.phase = "add"]
           s == [images.libs EXCEPT ![i] = [@ EXCEPT !.state = "RELOCATED"]]
           e == [images.libs[i] EXCEPT !.state = "RELOCATED"]
<1>1. /\ Enter(t, frame) /\ images.libs[i].state = "UNLINKED"
      /\ images' = [images EXCEPT !.libs[i].state = "RELOCATED"]
      /\ UNCHANGED <<funcs, delayModInit, linked, usable, exited, cleanPass, calls>>
  BY DEF BindModule, callVars
<1>2. /\ images \in [Kinds -> Seq(EntryRecords)] /\ images.libs \in Seq(EntryRecords)
      /\ Kinds = {"objects", "libs"}
  BY DEF TypeInv, Typed, ImagesOk, Kinds
<1>3. images.libs[i] \in EntryRecords /\ images.libs[i].image \in Images
  BY <1>1, <1>2 DEF TypeInv, UsedHaveImages
<1>4. e \in EntryRecords /\ e.image \in Images
  BY <1>3 DEF EntryRecords, States
<1>5. images' = [images EXCEPT !.libs = s] /\ s = [images.libs EXCEPT ![i] = e]
  BY <1>1, <1>2
<1> HIDE DEF e, s
<1>6. s \in Seq(EntryRecords) /\ DOMAIN s = DOMAIN images.libs /\ s[i] = e
      /\ \A j \in DOMAIN images.libs : j # i => s[j] = images.libs[j]
  BY <1>2, <1>4, <1>5
<1>7. /\ ImagesOk' /\ images'["libs"] = s /\ images'["objects"] = images["objects"]
  BY <1>2, <1>5, <1>6 DEF ImagesOk
<1>8. /\ \A k \in Kinds : DOMAIN images'[k] = DOMAIN images[k]
      /\ \A k \in Kinds : \A j \in DOMAIN images[k] :
           k # "libs" \/ j # i => images'[k][j] = images[k][j]
      /\ images'["libs"][i] = e
  BY <1>2, <1>6, <1>7
<1>9. Grown /\ UsedHaveImages'
  BY <1>4, <1>8 DEF Grown, UsedHaveImages, TypeInv
<1>10. frame \in Frames /\ frame.mode = "scan" /\ frame.phase = "add" /\ frame.module = None
  <2>1. "add" \in Phases /\ None \in AnyFn
    BY DEF Phases, AnyFn
  <2> QED
    BY <2>1, FirstFrame DEF Idle
<1> HIDE DEF frame
<1>11. exited' \in BOOLEAN /\ linked \subseteq linked' /\ linked' \subseteq Bundles
  BY <1>1 DEF TypeInv, Typed, RestOk
<1>12. TypeInv'
  BY <1>1, <1>7, <1>9, <1>10, <1>11, SameFuncs, EnterTyped
<1> QED
  BY <1>1, <1>8, <1>9, <1>12 DEF e

(* A function that is registered comes into its list once.                   *)
LEMMA InsertedFuncs ==
  ASSUME TypeInv, NEW k \in DOMAIN Functions, NEW f \in Unregistered(k),
         funcs' = [funcs EXCEPT ![k] = Inserted(@, f)]
  PROVE  /\ FuncsOk' /\ FuncsKept /\ NoneTwice'
         /\ f \in AnyFn
         /\ \A q \in DOMAIN Functions : q # k => funcs'[q] = funcs[q]
         /\ \A a \in DOMAIN funcs[k] : /\ Place(a) \in DOMAIN funcs'[k]
                                       /\ funcs'[k][Place(a)] = funcs[k][a]
         /\ \A b \in DOMAIN funcs'[k] : \/ funcs'[k][b] = f
                                        \/ \E a \in DOMAIN funcs[k] : b = Place(a)
<1> DEFINE s == funcs[k]
           r == Inserted(s, f)
           S == Functions[k]
           new == IF s = << >> THEN 1 ELSE 2
<1>1. /\ DOMAIN funcs = DOMAIN Functions /\ s \in Seq(S) /\ f \in S
      /\ \A q \in DOMAIN Functions : funcs[q] \in Seq(Functions[q])
      /\ \A a \in DOMAIN s : s[a] # f
      /\ \A a, b \in DOMAIN s : s[a] = s[b] => a = b
      /\ \A q \in DOMAIN Functions : \A a, b \in DOMAIN funcs[q] : funcs[q][a] = funcs[q][b] => a = b
  BY DEF TypeInv, Typed, FuncsOk, NoneTwice, Unregistered
<1>a. f \in AnyFn
  BY <1>1 DEF AnyFn, AllFunctions
<1>2. /\ DOMAIN funcs' = DOMAIN Functions /\ funcs'[k] = r
      /\ \A q \in DOMAIN Functions : q # k => funcs'[q] = funcs[q]
  BY <1>1
<1> HIDE DEF s, S
<1>3. /\ r \in Seq(S)
      /\ \A a \in DOMAIN s : Place(a) \in DOMAIN r /\ r[Place(a)] = s[a]
      /\ \A b \in DOMAIN r :
           \/ b = new /\ r[b] = f
           \/ \E a \in DOMAIN s : b = Place(a)
  BY <1>1, InsertedPlaces
<1> HIDE DEF r, new
<1>4. \A b, c \in DOMAIN r : r[b] = r[c] => b = c
  <2> SUFFICES ASSUME NEW b \in DOMAIN r, NEW c \in DOMAIN r, r[b] = r[c]
               PROVE  b = c
    OBVIOUS
  <2>1. CASE \E a \in DOMAIN s : b = Place(a)
    <3>1. PICK a \in DOMAIN s : b = Place(a)
      BY <2>1
    <3>2. r[b] = s[a] /\ r[b] # f
      BY <1>1, <1>3, <3>1
    <3>3. PICK d \in DOMAIN s : c = Place(d)
      BY <1>3, <3>2
    <3>4. s[d] = s[a]
      BY <1>3, <3>2, <3>3
    <3> QED
      BY <1>1, <3>1, <3>3, <3>4
  <2>2. CASE ~\E a \in DOMAIN s : b = Place(a)
    <3>1. b = new /\ r[b] = f
      BY <1>3, <2>2
    <3>2. ~\E a \in DOMAIN s : c = Place(a)
      <4>1. \A a \in DOMAIN s : r[Place(a)] # f
        BY <1>1, <1>3
      <4> QED
        BY <3>1, <4>1
    <3> QED
      BY <1>3, <3>1, <3>2
  <2> QED
    BY <2>1, <2>2
<1>5. FuncsOk'
  BY <1>1, <1>2, <1>3 DEF FuncsOk, S
<1>6. NoneTwice'
  BY <1>1, <1>2, <1>4 DEF NoneTwice
<1>7. FuncsKept
  BY <1>1, <1>2, <1>3 DEF FuncsKept, s
<1> QED
  BY <1>a, <1>2, <1>3, <1>5, <1>6, <1>7 DEF s

(* A function is added to its list, and its walk begins.                     *)
LEMMA RegisterTyped ==
  ASSUME TypeInv, NEW t \in Threads, NEW k \in DOMAIN Functions, Register(t, k)
  PROVE  TypeInv'
<1>1. PICK f \in Unregistered(k) :
        /\ Enter(t, [Idle EXCEPT !.phase = IF k = "add" THEN "walkAdd" ELSE "walkLink",
                                 !.fn = f])
        /\ funcs' = [funcs EXCEPT ![k] = Inserted(@, f)]
  BY DEF Register
<1>2. UNCHANGED <<images, delayModInit, linked, usable, exited, cleanPass, calls>>
  BY DEF Register, callVars
<1>3. FuncsOk' /\ FuncsKept /\ NoneTwice' /\ f \in AnyFn
  BY <1>1, InsertedFuncs
<1> DEFINE phase == IF k = "add" THEN "walkAdd" ELSE "walkLink"
           frame == [Idle EXCEPT !.phase = phase, !.fn = f]
<1>4. phase \in {"walkAdd", "walkLink"} /\ phase \in Phases
  BY DEF Phases
<1> HIDE DEF phase
<1>5. frame \in Frames
  BY <1>3, <1>4, FirstFrame
<1>6. frame.mode = "scan" /\ frame.phase = phase /\ frame.module = None
  BY DEF Idle
<1> HIDE DEF frame
<1>7. Enter(t, frame)
  BY <1>1 DEF frame, phase
<1>8. exited' \in BOOLEAN /\ linked \subseteq linked' /\ linked' \subseteq Bundles
  BY <1>2 DEF TypeInv, Typed, RestOk
<1> QED
  BY <1>2, <1>3, <1>4, <1>5, <1>6, <1>7, <1>8, SameImages, EnterTyped

(* One for removed images is only added.                                     *)
LEMMA RegisterRemoveTyped ==
  ASSUME TypeInv, NEW t \in Threads, RegisterRemove(t)
  PROVE  TypeInv'
<1>1. UNCHANGED <<holder, images, delayModInit, at, callVars, calls>>
  BY DEF RegisterRemove
<1>2. "remove" \in DOMAIN Functions
  BY CalloutsAssumption
<1>3. FuncsOk' /\ FuncsKept /\ NoneTwice'
  BY <1>2, InsertedFuncs DEF RegisterRemove
<1>4. ImagesOk' /\ UsedHaveImages' /\ Grown
  BY <1>1, SameImages
<1>5. \A u \in Threads : at'[u] = at[u]
  BY <1>1
<1>6. linked \subseteq linked'
  BY <1>1 DEF callVars
<1>7. \A u \in Threads : FrameStands(u)'
  <2> TAKE u \in Threads
  <2>1. FrameStands(u) /\ at[u].list \in Kinds
    BY DEF TypeInv, Typed, FramesOk, Frames, FramesStand
  <2>2. at[u].phase \in ListPhases /\ at[u].mode # "scan"
          => \E b \in DOMAIN funcs'[at[u].phase] : funcs'[at[u].phase][b] = at[u].fn
    <3> SUFFICES ASSUME at[u].phase \in ListPhases, at[u].mode # "scan"
                 PROVE  \E b \in DOMAIN funcs'[at[u].phase] : funcs'[at[u].phase][b] = at[u].fn
      OBVIOUS
    <3>1. PICK a \in DOMAIN funcs[at[u].phase] : funcs[at[u].phase][a] = at[u].fn
      BY <2>1 DEF FrameStands
    <3>2. at[u].phase \in DOMAIN Functions
      BY CalloutsAssumption DEF ListPhases
    <3> QED
      BY <1>3, <3>1, <3>2 DEF FuncsKept
  <2> QED
    BY <1>1, <2>1, <2>2 DEF FrameStands, callVars
<1>8. FramesOk' /\ RestOk' /\ IsABag(calls')
  BY <1>1 DEF TypeInv, Typed, FramesOk, RestOk, callVars
<1> QED
  BY <1>3, <1>4, <1>7, <1>8 DEF TypeInv, Typed, FramesStand

(* The delayed initialisers are to be called.                                *)
LEMMA LaunchTyped ==
  ASSUME TypeInv, NEW t \in Threads, Launch(t)
  PROVE  TypeInv'
<1> DEFINE frame == [Idle EXCEPT !.phase = "initDelayed"]
<1>1. Enter(t, frame) /\ UNCHANGED <<images, funcs, delayModInit, linked, usable, exited,
                                     cleanPass, calls>>
  BY DEF Launch, callVars
<1>2. frame \in Frames /\ frame.mode = "scan" /\ frame.phase = "initDelayed"
      /\ frame.module = None
  <2>1. "initDelayed" \in Phases /\ None \in AnyFn
    BY DEF Phases, AnyFn
  <2> QED
    BY <2>1, FirstFrame DEF Idle
<1> HIDE DEF frame
<1>3. exited' \in BOOLEAN /\ linked \subseteq linked' /\ linked' \subseteq Bundles
  BY <1>1 DEF TypeInv, Typed, RestOk
<1> QED
  BY <1>1, <1>2, <1>3, SameImages, SameFuncs, EnterTyped

(* The terminators are.                                                      *)
LEMMA ExitTyped ==
  ASSUME TypeInv, NEW t \in Threads, Exit(t)
  PROVE  TypeInv'
<1> DEFINE frame == [Idle EXCEPT !.phase = "exit"]
<1>1. Enter(t, frame) /\ exited' = TRUE
      /\ UNCHANGED <<images, funcs, delayModInit, linked, usable, cleanPass, calls>>
  BY DEF Exit
<1>2. frame \in Frames /\ frame.mode = "scan" /\ frame.phase = "exit" /\ frame.module = None
  <2>1. "exit" \in Phases /\ None \in AnyFn
    BY DEF Phases, AnyFn
  <2> QED
    BY <2>1, FirstFrame DEF Idle
<1> HIDE DEF frame
<1>3. exited' \in BOOLEAN /\ linked \subseteq linked' /\ linked' \subseteq Bundles
  BY <1>1 DEF TypeInv, Typed, RestOk
<1> QED
  BY <1>1, <1>2, <1>3, SameImages, SameFuncs, EnterTyped

(* The program gives up the handle of a bundle that is there.                *)
LEMMA UnlinkModuleTyped ==
  ASSUME TypeInv, NEW t \in Threads, NEW i \in DOMAIN images.objects, UnlinkModule(t, i)
  PROVE  TypeInv'
<1> DEFINE im == images.objects[i].image
           frame == [Idle EXCEPT !.phase = "terminate", !.i = i, !.fn = 0, !.image = im]
<1>1. /\ Enter(t, frame) /\ im \in usable /\ usable' = usable \ {im}
      /\ UNCHANGED <<images, funcs, delayModInit, linked, exited, cleanPass, calls>>
  BY DEF UnlinkModule
<1>2. FramesOk /\ RestOk /\ IsABag(calls) /\ images.objects \in Seq(EntryRecords)
  BY DEF TypeInv, Typed, ImagesOk, Kinds
<1>3. im \in Images /\ i \in Nat \ {0}
  <2>1. DOMAIN images.objects = 1 .. Len(images.objects) /\ Len(images.objects) \in Nat
    BY <1>2
  <2> QED
    BY <1>1, <1>2, <2>1 DEF RestOk, Images
<1> HIDE DEF im
<1>4. /\ frame \in Frames /\ frame.mode = "scan" /\ frame.phase = "terminate"
      /\ frame.list = "objects" /\ frame.i = i /\ frame.fn = 0 /\ frame.image = im
      /\ frame.module = None
  <2>1. /\ "terminate" \in Phases /\ None \in AnyFn /\ 0 \in AnyFn /\ "objects" \in Kinds
    BY DEF Phases, AnyFn, Kinds
  <2>2. Idle = [phase |-> "out", mode |-> "scan", list |-> "objects", i |-> 1,
                fn |-> None, n |-> 0, image |-> None, module |-> None]
    BY DEF Idle
  <2> QED
    BY <1>3, <2>1, <2>2 DEF Frames
<1> HIDE DEF frame
<1>5. /\ FramesOk' /\ holder' = t /\ at'[t] = frame
      /\ \A u \in Threads : u # t => at'[u] = at[u]
  BY <1>1, <1>2, <1>4, EnterStep
<1>6. ImagesOk' /\ UsedHaveImages' /\ Grown
  BY <1>1, SameImages
<1>7. FrameStands(t)'
  BY <1>1, <1>3, <1>4, <1>5 DEF FrameStands, ListPhases, RoutinePhases
<1>8. RestOk'
  BY <1>1, <1>2, <1>5 DEF RestOk
<1> QED
  BY <1>1, <1>2, <1>5, <1>6, <1>7, <1>8, StepTyped

(* The types at first                                                        *)
LEMMA InitTyped == Init => TypeInv
<1> SUFFICES ASSUME Init PROVE TypeInv
  OBVIOUS
<1> DEFINE lib(i) == Entry(Libraries[i], IF Libraries[i] \in Unbound
                                           THEN "UNLINKED" ELSE "LINKED", TRUE)
           libs == [i \in DOMAIN Libraries |-> lib(i)]
           objects == <<Entry(Executable, "LINKED", TRUE)>>
<1>1. /\ images = [objects |-> objects, libs |-> libs] /\ Kinds = {"objects", "libs"}
      /\ {"LINKED", "UNLINKED"} \subseteq States
  BY DEF Init, Kinds, States
<1>2. DOMAIN Libraries = 1 .. Len(Libraries) /\ Len(Libraries) \in Nat
  BY CalloutsAssumption
<1>3. \A i \in DOMAIN Libraries : lib(i) \in EntryRecords /\ lib(i).image \in Images
  BY <1>1 DEF Entry, EntryRecords, Images, InLibraries
<1>4. Entry(Executable, "LINKED", TRUE) \in EntryRecords
      /\ Entry(Executable, "LINKED", TRUE).image \in Images
  BY <1>1 DEF Entry, EntryRecords, Images
<1> HIDE DEF lib
<1>5. libs \in Seq(EntryRecords) /\ DOMAIN libs = DOMAIN Libraries
      /\ \A i \in DOMAIN libs : libs[i].image \in Images
  BY <1>2, <1>3
<1> DEFINE executable == Entry(Executable, "LINKED", TRUE)
<1>a. objects = <<executable>>
  OBVIOUS
<1>b. executable \in EntryRecords /\ executable.image \in Images
  BY <1>4
<1> HIDE DEF executable, objects
<1>6. objects \in Seq(EntryRecords) /\ \A i \in DOMAIN objects : objects[i].image \in Images
  BY <1>a, <1>b
<1> HIDE DEF libs
<1>7. ImagesOk
  BY <1>1, <1>5, <1>6 DEF ImagesOk
<1>8. UsedHaveImages
  BY <1>1, <1>5, <1>6 DEF UsedHaveImages
<1>9. FuncsOk /\ NoneTwice
  BY DEF Init, FuncsOk, NoneTwice
<1>10. Idle \in Frames
  <2>1. 1 \in Nat \ {0} /\ 0 \in Nat /\ "objects" \in Kinds /\ "out" \in Phases
        /\ None \in AnyFn
    BY DEF Kinds, Phases, AnyFn
  <2> QED
    BY <2>1 DEF Idle, Frames
<1>11. FramesOk
  BY <1>10 DEF Init, FramesOk
<1>12. FramesStand
  <2> SUFFICES ASSUME NEW t \in Threads PROVE FrameStands(t)
    BY DEF FramesStand
  <2>1. at[t] = Idle
    BY DEF Init
  <2> QED
    BY <2>1 DEF FrameStands, ListPhases, RoutinePhases, Idle
<1>13. RestOk /\ IsABag(calls)
  BY DEF Init, RestOk, EmptyBag, SetToBag, IsABag
<1> QED
  BY <1>7, <1>8, <1>9, <1>11, <1>12, <1>13 DEF TypeInv, Typed

(* Every step keeps the types, and what a thread goes on with.               *)
LEMMA NextTyped == TypeInv /\ [Next]_vars => TypeInv'
<1> SUFFICES ASSUME TypeInv, [Next]_vars PROVE TypeInv'
  OBVIOUS
<1>1. CASE UNCHANGED vars
  BY <1>1 DEF vars, callVars, TypeInv, Typed, ImagesOk, FuncsOk, FramesOk, RestOk,
     UsedHaveImages, FramesStand, FrameStands, NoneTwice
<1>2. ASSUME NEW t \in Threads, Call(t) PROVE TypeInv'
  BY <1>2, LinkModuleTyped, BindModuleTyped, RegisterTyped, RegisterRemoveTyped, LaunchTyped,
     UnlinkModuleTyped, ExitTyped DEF Call
<1>3. ASSUME NEW t \in Threads, Step(t) PROVE TypeInv'
  BY <1>3, ReturnTyped, WalkTyped, AddImagesTyped, LinkModulesTyped, NextFunctionTyped,
     InitModuleTyped, InitDoneTyped, NextInitTyped, TerminateTyped, RemoveImageTyped,
     ExitModulesTyped, NextTermTyped DEF Step
<1> QED
  BY <1>1, <1>2, <1>3 DEF Next, Stopped

(* Every variable has its type, whatever the threads do.                     *)
THEOREM TypeCorrectness == Spec => []TypeOK
<1>1. TypeInv => TypeOK
  <2> SUFFICES ASSUME TypeInv PROVE TypeOK
    OBVIOUS
  <2>1. \A k \in Kinds : \A i \in DOMAIN images[k] :
          LET e == images[k][i]
          IN /\ e.image \in Images \cup {None} /\ e.state \in States
             /\ {e.registered, e.inited, e.termed} \subseteq BOOLEAN
    <3> SUFFICES ASSUME NEW k \in Kinds, NEW i \in DOMAIN images[k]
                 PROVE  images[k][i] \in EntryRecords
      BY DEF EntryRecords
    <3> QED
      BY DEF TypeInv, Typed, ImagesOk
  <2>2. \A k \in DOMAIN funcs : \A i \in DOMAIN funcs[k] : funcs[k][i] \in Functions[k]
    BY DEF TypeInv, Typed, FuncsOk
  <2>3. \A t \in Threads : /\ at[t].phase \in Phases
                           /\ at[t].mode \in {"scan", "call", "next"}
                           /\ at[t].list \in Kinds
                           /\ at[t].i \in Nat \ {0}
                           /\ at[t].n \in Nat
    BY DEF TypeInv, Typed, FramesOk, Frames
  <2> QED
    BY <2>1, <2>2, <2>3 DEF TypeInv, Typed, RestOk, TypeOK
<1>2. Spec => []TypeInv
  BY InitTyped, NextTyped, PTL DEF Spec
<1> QED
  BY <1>1, <1>2, PTL
-----------------------------------------------------------------------------
(* Functions registered for added images *)

(* What a thread was going to do for an entry it still will, or has done.    *)
KeepsWork(t, k, i) ==
  LET e == images[k][i]
  IN /\ at[t].phase = "add" /\ ComesTo(t, k, i) /\ e.state # "UNUSED" /\ ~e.registered
          => at'[t].phase = "add" /\ ComesTo(t, k, i)'
     /\ \A f \in AddFns, im \in Images :
          e.registered /\ e.image = im /\ (StillToAdd(t, f, im) \/ StillToWalk(t, f, k, i))
            => \/ <<"add", f, im>> \in DOMAIN calls'
               \/ StillToAdd(t, f, im)' \/ StillToWalk(t, f, k, i)'

SameForAdd(e, o) ==
  /\ e.image = o.image /\ e.registered = o.registered
  /\ e.state = "UNUSED" <=> o.state = "UNUSED"

(* An entry keeps its state and what it was registered for, if t its work.   *)
LEMMA AddKept ==
  ASSUME TypeInv, AddInv, NEW t \in Threads,
         \A u \in Threads : u # t => at'[u] = at[u],
         funcs'["add"] = funcs["add"], DOMAIN calls \subseteq DOMAIN calls',
         NEW k \in Kinds, NEW i \in DOMAIN images[k],
         SameForAdd(images'[k][i], images[k][i]), KeepsWork(t, k, i)
  PROVE  AddAt(k, i)'
<1> DEFINE e == images[k][i]
<1>1. AddAt(k, i)
  BY DEF AddInv
<1>2. e.state # "UNUSED" => e.image \in Images
  BY DEF TypeInv, UsedHaveImages
<1>3. images'[k][i].image = e.image /\ images'[k][i].registered = e.registered
      /\ (images'[k][i].state = "UNUSED" <=> e.state = "UNUSED")
  BY DEF SameForAdd
<1>4. e.state = "UNUSED" => ~e.registered
  BY <1>1 DEF AddAt
<1>5. ASSUME e.state # "UNUSED", ~e.registered
      PROVE  \E u \in Threads : at'[u].phase = "add" /\ ComesTo(u, k, i)'
  <2>1. PICK u \in Threads : at[u].phase = "add" /\ ComesTo(u, k, i)
    BY <1>1, <1>5 DEF AddAt
  <2>2. CASE u = t
    BY <1>5, <2>1, <2>2 DEF KeepsWork
  <2>3. CASE u # t
    BY <2>1, <2>3 DEF ComesTo, Before
  <2> QED
    BY <2>2, <2>3
<1>6. ASSUME e.registered, NEW f \in AddFns, NEW im \in Images, e.image = im
      PROVE  AddedOrPending(f, im, k, i)'
  <2>1. AddedOrPending(f, im, k, i)
    BY <1>1, <1>6 DEF AddAt
  <2>2. CASE <<"add", f, im>> \in DOMAIN calls
    BY <2>2 DEF AddedOrPending
  <2>3. CASE \E u \in Threads : StillToAdd(u, f, im) \/ StillToWalk(u, f, k, i)
    <3>1. PICK u \in Threads : StillToAdd(u, f, im) \/ StillToWalk(u, f, k, i)
      BY <2>3
    <3>2. CASE u = t
      BY <1>6, <3>1, <3>2 DEF KeepsWork, AddedOrPending
    <3>3. CASE u # t
      <4>1. StillToAdd(u, f, im)' \/ StillToWalk(u, f, k, i)'
        BY <3>1, <3>3 DEF StillToAdd, StillToWalk, Before
      <4> QED
        BY <4>1 DEF AddedOrPending
    <3> QED
      BY <3>2, <3>3
  <2> QED
    BY <2>1, <2>2, <2>3 DEF AddedOrPending
<1>7. AddFns' = AddFns
  BY DEF AddFns
<1>8. e.registered => \A f \in AddFns' : AddedOrPending(f, images[k][i].image, k, i)'
  <2> SUFFICES ASSUME e.registered, NEW f \in AddFns
               PROVE  AddedOrPending(f, images[k][i].image, k, i)'
    BY <1>7
  <2> DEFINE im == e.image
  <2>1. im \in Images /\ im = e.image /\ images'[k][i].image = im
    BY <1>2, <1>3, <1>4
  <2> HIDE DEF im
  <2>2. \A x \in Images : e.image = x => AddedOrPending(f, x, k, i)'
    BY <1>6
  <2> QED
    BY <1>3, <2>1, <2>2 DEF AddedOrPending
<1> QED
  BY <1>3, <1>4, <1>5, <1>8 DEF AddAt

(* A thread in another loop, or none, has no such work.                      *)
LEMMA NoWork ==
  ASSUME NEW t \in Threads, at[t].phase \notin {"add", "walkAdd"}, NEW k, NEW i
  PROVE  KeepsWork(t, k, i)
BY DEF KeepsWork, StillToAdd, StillToWalk

(* A step that leaves the images, for this matter, as they are               *)
LEMMA AddQuiet ==
  ASSUME TypeInv, AddInv, NEW t \in Threads,
         \A u \in Threads : u # t => at'[u] = at[u],
         funcs'["add"] = funcs["add"], DOMAIN calls \subseteq DOMAIN calls',
         \A k \in Kinds : DOMAIN images'[k] = DOMAIN images[k],
         \A k \in Kinds : \A i \in DOMAIN images[k] :
           SameForAdd(images'[k][i], images[k][i]) /\ KeepsWork(t, k, i)
  PROVE  AddInv'
<1> SUFFICES ASSUME NEW k \in Kinds, NEW i \in DOMAIN images[k]
             PROVE  AddAt(k, i)'
  BY DEF AddInv
<1> QED
  BY AddKept

(* ... and so has one that stays outside of those loops.                     *)
LEMMA AddOtherStep ==
  ASSUME TypeInv, AddInv, NEW t \in Threads, at[t].phase \notin {"add", "walkAdd"},
         \A u \in Threads : u # t => at'[u] = at[u],
         funcs'["add"] = funcs["add"], DOMAIN calls \subseteq DOMAIN calls',
         \A k \in Kinds : DOMAIN images'[k] = DOMAIN images[k],
         \A k \in Kinds : \A i \in DOMAIN images[k] :
           SameForAdd(images'[k][i], images[k][i])
  PROVE  AddInv'
BY NoWork, AddQuiet

(* ... since only an entry of this list changes, and not in this respect.    *)
LEMMA AddSetHere ==
  ASSUME TypeInv, AddInv, NEW t \in Threads, at[t].phase \notin {"add", "walkAdd"},
         \A u \in Threads : u # t => at'[u] = at[u],
         funcs'["add"] = funcs["add"], DOMAIN calls \subseteq DOMAIN calls',
         NEW i \in DOMAIN Here(t), NEW e \in EntryRecords, SetHere(t, i, e),
         SameForAdd(e, Here(t)[i]), e.state # "UNUSED" => e.image \in Images
  PROVE  AddInv'
<1>1. /\ \A q \in Kinds : DOMAIN images'[q] = DOMAIN images[q]
      /\ images'[at[t].list][i] = e
      /\ \A q \in Kinds : \A j \in DOMAIN images[q] :
           q # at[t].list \/ j # i => images'[q][j] = images[q][j]
  BY OtherEntry
<1>2. \A k \in Kinds : \A j \in DOMAIN images[k] : SameForAdd(images'[k][j], images[k][j])
  BY <1>1 DEF SameForAdd, Here
<1> QED
  BY <1>1, <1>2, AddOtherStep

(* A step of a thread leaves the frames of the others, and no call is        *)
(* forgotten.                                                                *)
Local(t) ==
  /\ \A u \in Threads : u # t => at'[u] = at[u]
  /\ DOMAIN calls \subseteq DOMAIN calls'

(* That is so of every step.                                                 *)
LEMMA LocalSteps ==
  ASSUME TypeInv, NEW t \in Threads, Call(t) \/ Step(t)
  PROVE  Local(t)
<1>1. FramesOk /\ IsABag(calls)
  BY DEF TypeInv, Typed
<1>2. ASSUME NEW i, NEW kind, NEW fn, NEW image, CallOut(t, i, kind, fn, image)
      PROVE  Local(t)
  <2>1. DOMAIN calls \subseteq DOMAIN calls'
    BY <1>1, <1>2, NotedCalls DEF CallOut
  <2>2. \A u \in Threads : u # t => at'[u] = at[u]
    BY <1>1, <1>2 DEF CallOut, FramesOk
  <2> QED
    BY <2>1, <2>2 DEF Local
<1>3. ASSUME NEW i, GoOn(t, i)
      PROVE  Local(t)
  BY <1>1, <1>3 DEF GoOn, FramesOk, Local
<1>4. NextList(t) => Local(t)
  BY <1>1 DEF NextList, FramesOk, Local
<1>5. ASSUME NEW phase, NextPhase(t, phase)
      PROVE  Local(t)
  BY <1>1, <1>5 DEF NextPhase, FramesOk, Local
<1>6. Leave(t) /\ UNCHANGED calls => Local(t)
  BY <1>1 DEF Leave, FramesOk, Local
<1>7. ASSUME NEW frame, Enter(t, frame), UNCHANGED calls
      PROVE  Local(t)
  BY <1>1, <1>7 DEF Enter, FramesOk, Local
<1>8. CASE Call(t)
  <2>1. ASSUME NEW b \in Bundles, LinkModule(t, b) PROVE Local(t)
    BY <1>7, <2>1 DEF LinkModule
  <2>2. ASSUME NEW i \in DOMAIN images.libs, BindModule(t, i) PROVE Local(t)
    BY <1>7, <2>2 DEF BindModule
  <2>3. ASSUME NEW k \in DOMAIN Functions, Register(t, k) PROVE Local(t)
    BY <1>7, <2>3 DEF Register
  <2>4. RegisterRemove(t) => Local(t)
    BY DEF RegisterRemove, Local
  <2>5. Launch(t) => Local(t)
    BY <1>7 DEF Launch
  <2>6. ASSUME NEW i \in DOMAIN images.objects, UnlinkModule(t, i) PROVE Local(t)
    BY <1>7, <2>6 DEF UnlinkModule
  <2>7. Exit(t) => Local(t)
    BY <1>7 DEF Exit
  <2> QED
    BY <1>8, <2>1, <2>2, <2>3, <2>4, <2>5, <2>6, <2>7 DEF Call
<1>9. CASE Step(t)
  <2>1. Return(t) => Local(t)
    BY <1>1 DEF Return, FramesOk, Local
  <2>2. Walk(t) => Local(t)
    BY <1>2, <1>3, <1>4, <1>6 DEF Walk
  <2>3. AddImages(t) => Local(t)
    BY <1>2, <1>3, <1>4, <1>5 DEF AddImages
  <2>4. LinkModules(t) => Local(t)
    BY <1>2, <1>3, <1>4, <1>5 DEF LinkModules
  <2>5. NextFunction(t) => Local(t)
    BY <1>2, <1>3 DEF NextFunction
  <2>6. InitModule(t) => Local(t)
    BY <1>2, <1>3 DEF InitModule
  <2>7. InitDone(t) => Local(t)
    BY <1>4, <1>6 DEF InitDone
  <2>8. NextInit(t) => Local(t)
    BY <1>2, <1>3 DEF NextInit
  <2>9. Terminate(t) => Local(t)
    BY <1>1, <1>2 DEF Terminate, FramesOk, Local
  <2>10. RemoveImage(t) => Local(t)
    BY <1>2, <1>6 DEF RemoveImage
  <2>11. ExitModules(t) => Local(t)
    BY <1>2, <1>3, <1>4, <1>5, <1>6 DEF ExitModules
  <2>12. NextTerm(t) => Local(t)
    BY <1>2, <1>3 DEF NextTerm
  <2> QED
    BY <1>9, <2>1, <2>2, <2>3, <2>4, <2>5, <2>6, <2>7, <2>8, <2>9, <2>10, <2>11, <2>12 DEF Step
<1> QED
  BY <1>8, <1>9

(* The return from a function leaves what is to be done as it was.           *)
LEMMA ReturnAdds ==
  ASSUME TypeInv, AddInv, NEW t \in Threads, Return(t)
  PROVE  AddInv'
<1>1. at[t] \in Frames /\ FramesOk
  BY DEF TypeInv, Typed, FramesOk
<1>2. /\ at'[t] = [at[t] EXCEPT !.mode = "next"] /\ at[t].mode = "call"
      /\ UNCHANGED <<images, funcs, calls>>
  BY <1>1 DEF Return, FramesOk
<1>3. /\ at'[t].phase = at[t].phase /\ at'[t].list = at[t].list /\ at'[t].i = at[t].i
      /\ at'[t].fn = at[t].fn /\ at'[t].image = at[t].image /\ at'[t].mode = "next"
  BY <1>1, <1>2 DEF Frames
<1>4. ASSUME NEW k \in Kinds, NEW i \in DOMAIN images[k]
      PROVE  KeepsWork(t, k, i)
  BY <1>2, <1>3 DEF KeepsWork, ComesTo, Before, StillToAdd, StillToWalk
<1>5. Local(t)
  BY LocalSteps DEF Step
<1>6. \A k \in Kinds : \A i \in DOMAIN images[k] : SameForAdd(images'[k][i], images[k][i])
  BY <1>2 DEF SameForAdd
<1> QED
  BY <1>2, <1>4, <1>5, <1>6, AddQuiet DEF Local

(* The thread that registered the function calls it for each entry it comes  *)
(* to.                                                                       *)
LEMMA WalkAdds ==
  ASSUME TypeInv, AddInv, NEW t \in Threads, Walk(t)
  PROVE  AddInv'
<1>1. FramesOk /\ ImagesOk /\ IsABag(calls) /\ at[t] \in Frames
      /\ at[t].phase \in {"walkAdd", "walkLink"} /\ Local(t)
  BY LocalSteps DEF TypeInv, Typed, FramesOk, Walk, In, Step
<1>2. UNCHANGED <<images, funcs>>
  BY DEF Walk
<1>a. \A k \in Kinds : \A j \in DOMAIN images[k] : j \in Nat \ {0}
  BY <1>1 DEF ImagesOk
<1>b. \A k \in Kinds : \A j \in DOMAIN images[k] :
        images[k][j].registered => images[k][j].state # "UNUSED"
  BY DEF AddInv, AddAt
<1>c. at[t].i \in Nat
  BY <1>1 DEF Frames
<1> SUFFICES ASSUME NEW k \in Kinds, NEW j \in DOMAIN images[k], at[t].phase = "walkAdd"
             PROVE  KeepsWork(t, k, j)
  <2>1. \A q \in Kinds : \A j \in DOMAIN images[q] : SameForAdd(images'[q][j], images[q][j])
    BY <1>2 DEF SameForAdd
  <2>2. \A q \in Kinds : \A j \in DOMAIN images[q] : KeepsWork(t, q, j)
    BY <1>1, NoWork
  <2> QED
    BY <1>1, <1>2, <2>1, <2>2, AddQuiet DEF Local
<1> DEFINE hits == Hits(t, {e \in Entries(t) : Walked(t, e)})
<1> SUFFICES ASSUME NEW f \in AddFns, NEW im \in Images, images[k][j].registered,
                    images[k][j].image = im, at[t].fn = f, Before(t, k, j)
             PROVE  <<"add", f, im>> \in DOMAIN calls' \/ StillToWalk(t, f, k, j)'
  BY DEF KeepsWork, StillToAdd, StillToWalk
<1>3. images[k][j].state # "UNUSED" /\ j \in Nat \ {0}
  BY <1>a, <1>b
<1>4. ASSUME at[t].mode = "next", GoOn(t, at[t].i + 1)
      PROVE  StillToWalk(t, f, k, j)'
  <2>1. at[t].i + 1 \in Nat \ {0}
    BY <1>c
  <2>2. /\ at'[t].phase = at[t].phase /\ at'[t].list = at[t].list
        /\ at'[t].mode = "scan" /\ at'[t].i = at[t].i + 1 /\ at'[t].fn = at[t].fn
    BY <1>1, <1>4, <2>1, GoOnStep
  <2>3. at[t].i < j => at[t].i + 1 <= j
    BY <1>3, <1>c
  <2> QED
    BY <1>4, <2>2, <2>3 DEF StillToWalk, Before
<1>5. at[t].mode = "scan" /\ at[t].list = k => j \in DOMAIN Here(t) /\ at[t].i <= j
          /\ Here(t)[j] = images[k][j] /\ Here(t)[j] \in {e \in Entries(t) : Walked(t, e)}
  <2> SUFFICES ASSUME at[t].mode = "scan", at[t].list = k
               PROVE  j \in DOMAIN Here(t) /\ at[t].i <= j /\ Here(t)[j] = images[k][j]
                      /\ Here(t)[j] \in {e \in Entries(t) : Walked(t, e)}
    OBVIOUS
  <2>1. j \in DOMAIN Here(t) /\ Here(t)[j] = images[k][j]
    BY DEF Here
  <2>2. at[t].i <= j
    BY DEF Before, Kinds
  <2> QED
    BY <1>3, <2>1, <2>2 DEF Entries, Walked
<1>6. ASSUME at[t].mode = "scan", hits # {},
             CallOut(t, Min(hits), "add", at[t].fn, Here(t)[Min(hits)].image)
      PROVE  <<"add", f, im>> \in DOMAIN calls' \/ StillToWalk(t, f, k, j)'
  <2> DEFINE m == Min(hits)
             mi == Here(t)[m].image
  <2>1. /\ m \in DOMAIN Here(t) /\ m \in Nat \ {0} /\ Here(t)[m] \in EntryRecords
        /\ \A x \in DOMAIN Here(t) : at[t].i <= x /\ x < m =>
             Here(t)[x] \notin {e \in Entries(t) : Walked(t, e)}
    BY <1>1, <1>6, FirstHit
  <2>2. CallOut(t, m, "add", at[t].fn, mi)
    BY <1>6
  <2> HIDE DEF m, hits
  <2>3. mi \in Images \cup {None} /\ at[t].fn \in AnyFn
    BY <1>1, <2>1 DEF EntryRecords, Frames
  <2> HIDE DEF mi
  <2>4. CallsOut(t, m, "add", at[t].fn, mi)
    BY <1>1, <2>1, <2>2, <2>3, CallOutStep
  <2>5. /\ at'[t].phase = at[t].phase /\ at'[t].list = at[t].list /\ at'[t].mode = "call"
        /\ at'[t].i = m /\ at'[t].fn = at[t].fn /\ <<"add", f, mi>> \in DOMAIN calls'
    BY <2>4 DEF CallsOut
  <2>6. CASE at[t].list # k
    BY <2>5, <2>6 DEF StillToWalk, Before
  <2>7. CASE at[t].list = k
    <3>1. ~(j < m)
      BY <1>5, <1>6, <2>1, <2>7
    <3>2. j = m \/ m < j
      BY <1>3, <2>1, <3>1
    <3>3. j = m => mi = im
      BY <1>5, <1>6, <2>7 DEF mi
    <3> QED
      BY <2>5, <2>7, <3>2, <3>3 DEF StillToWalk, Before
  <2> QED
    BY <2>6, <2>7
<1>7. ASSUME at[t].mode = "scan", hits = {}
      PROVE  at[t].list # k
  BY <1>1, <1>5, <1>7, NoHit
<1>8. ASSUME at[t].mode = "scan", hits = {}, NextList(t)
      PROVE  StillToWalk(t, f, k, j)'
  <2>1. /\ at[t].list = "objects" /\ at'[t].phase = at[t].phase /\ at'[t].list = "libs"
        /\ at'[t].mode = at[t].mode /\ at'[t].i = 1 /\ at'[t].fn = at[t].fn
    BY <1>1, <1>8, NextListStep
  <2>2. k = "libs" /\ 1 <= j
    BY <1>3, <1>7, <1>8, <2>1 DEF Kinds
  <2> QED
    BY <1>8, <2>1, <2>2 DEF StillToWalk, Before
<1>9. ASSUME at[t].mode = "scan", hits = {}, at[t].list = "libs"
      PROVE  FALSE
  BY <1>7, <1>9 DEF Before, Kinds
<1> QED
  BY <1>4, <1>6, <1>8, <1>9 DEF Walk

(* The image is registered and the first function called for it; the others  *)
(* will be, one after the other.                                             *)
LEMMA AddImagesAdds ==
  ASSUME TypeInv, AddInv, NEW t \in Threads, AddImages(t)
  PROVE  AddInv'
<1> DEFINE wanted == {e \in Entries(t) : e.state # "UNUSED" /\ ~e.registered}
           new == Hits(t, wanted)
           i == Min(new)
           e == [Here(t)[i] EXCEPT !.registered = TRUE]
           im == Here(t)[i].image
<1>1. FramesOk /\ ImagesOk /\ IsABag(calls) /\ at[t] \in Frames
      /\ at[t].phase = "add" /\ at[t].mode = "scan" /\ Local(t)
  BY LocalSteps DEF TypeInv, Typed, FramesOk, AddImages, At, In, Step
<1>2. UNCHANGED funcs
  BY DEF AddImages
<1>a. \A k \in Kinds : \A j \in DOMAIN images[k] : j \in Nat \ {0}
  BY <1>1 DEF ImagesOk
<1>b. at[t].i \in Nat \ {0} /\ at[t].list \in Kinds /\ Kinds = {"objects", "libs"}
  BY <1>1 DEF Frames, Kinds
<1>c. \A k \in Kinds : \A j \in DOMAIN images[k] : \A f, x :
        ~StillToAdd(t, f, x) /\ ~StillToWalk(t, f, k, j)
  BY <1>1 DEF StillToAdd, StillToWalk

\* where it will come to
<1>d. ASSUME NEW k \in Kinds, NEW j \in DOMAIN images[k], ComesTo(t, k, j),
             images[k][j].state # "UNUSED", ~images[k][j].registered
      PROVE  \/ at[t].list = "objects" /\ k = "libs"
             \/ /\ at[t].list = k /\ j \in DOMAIN Here(t) /\ at[t].i <= j
                /\ Here(t)[j] \in wanted
  BY <1>1, <1>d DEF ComesTo, Before, Here, Entries
<1>3. ASSUME new # {}, SetHere(t, i, e)
      PROVE  /\ i \in DOMAIN Here(t) /\ i \in Nat \ {0}
             /\ im \in Images /\ ~Here(t)[i].registered
             /\ e.registered /\ e.image = im /\ e.state = Here(t)[i].state
             /\ e.state # "UNUSED"
             /\ \A x \in DOMAIN Here(t) : at[t].i <= x /\ x < i => Here(t)[x] \notin wanted
             /\ \A q \in Kinds : DOMAIN images'[q] = DOMAIN images[q]
             /\ images'[at[t].list][i] = e
             /\ \A q \in Kinds : \A j \in DOMAIN images[q] :
                  q # at[t].list \/ j # i => images'[q][j] = images[q][j]
  <2>1. i \in DOMAIN Here(t) /\ i \in Nat \ {0} /\ Here(t)[i] \in EntryRecords
        /\ Here(t)[i] \in wanted
        /\ \A x \in DOMAIN Here(t) : at[t].i <= x /\ x < i => Here(t)[x] \notin wanted
    BY <1>1, <1>3, FirstHit
  <2> HIDE DEF i
  <2>2. e \in EntryRecords /\ e.image = im /\ e.state = Here(t)[i].state /\ e.registered
    BY <2>1 DEF EntryRecords
  <2>3. e.state # "UNUSED" /\ ~Here(t)[i].registered
    BY <2>1, <2>2
  <2>4. im \in Images
    BY <1>1, <2>1, <2>2, <2>3 DEF TypeInv, UsedHaveImages, Here, Frames
  <2> HIDE DEF e, im, new, wanted
  <2>5. /\ \A q \in Kinds : DOMAIN images'[q] = DOMAIN images[q]
        /\ images'[at[t].list][i] = e
        /\ \A q \in Kinds : \A j \in DOMAIN images[q] :
             q # at[t].list \/ j # i => images'[q][j] = images[q][j]
    BY <1>3, <2>1, <2>2, <2>4, OtherEntry
  <2> QED
    BY <2>1, <2>2, <2>3, <2>4, <2>5
<1> HIDE DEF i, e, im, wanted, new

\* the entries that are not its turn
<1>4. ASSUME new # {}, SetHere(t, i, e), NEW k \in Kinds, NEW j \in DOMAIN images[k],
             at[t].list # k \/ j # i,
             at'[t].phase = "add", at'[t].list = at[t].list,
             \/ at'[t].mode = "scan" /\ at'[t].i = i + 1
             \/ at'[t].mode = "call" /\ at'[t].i = i
      PROVE  AddAt(k, j)'
  <2>1. images'[k][j] = images[k][j]
    BY <1>3, <1>4
  <2>2. ASSUME ComesTo(t, k, j), images[k][j].state # "UNUSED", ~images[k][j].registered
        PROVE  ComesTo(t, k, j)'
    <3>1. CASE at[t].list = "objects" /\ k = "libs"
      BY <1>4, <3>1 DEF ComesTo, Before
    <3>2. CASE /\ at[t].list = k /\ j \in DOMAIN Here(t) /\ at[t].i <= j
               /\ Here(t)[j] \in wanted
      <4>1. ~(j < i) /\ j # i
        BY <1>3, <1>4, <3>2
      <4>2. i < j /\ i + 1 <= j
        BY <1>3, <1>4, <1>a, <4>1
      <4> QED
        BY <1>4, <3>2, <4>2 DEF ComesTo, Before
    <3> QED
      BY <1>d, <2>2, <3>1, <3>2
  <2>3. KeepsWork(t, k, j)
    BY <1>4, <1>c, <2>2 DEF KeepsWork
  <2>4. SameForAdd(images'[k][j], images[k][j])
    BY <2>1 DEF SameForAdd
  <2> QED
    BY <1>1, <1>2, <2>3, <2>4, AddKept DEF Local

\* the entry whose turn it is
<1>5. ASSUME new # {}, SetHere(t, i, e), NEW k \in Kinds, NEW j \in DOMAIN images[k],
             at[t].list = k, j = i,
             \A f \in AddFns, x \in Images : x = im => AddedOrPending(f, x, k, j)'
      PROVE  AddAt(k, j)'
  <2>1. images'[k][j].image = im /\ images'[k][j].registered
        /\ images'[k][j].state # "UNUSED" /\ im \in Images
    BY <1>3, <1>5
  <2>2. AddFns' = AddFns
    BY <1>2 DEF AddFns
  <2>3. \A f \in AddFns : \E x \in Images : x = im /\ AddedOrPending(f, x, k, j)'
    BY <1>5, <2>1
  <2>4. \A f \in AddFns' : AddedOrPending(f, images[k][j].image, k, j)'
    BY <2>1, <2>2, <2>3 DEF AddedOrPending
  <2> QED
    BY <2>1, <2>4 DEF AddAt
<1>6. ASSUME new # {}, SetHere(t, i, e),
             at'[t].phase = "add", at'[t].list = at[t].list,
             \/ at'[t].mode = "scan" /\ at'[t].i = i + 1
             \/ at'[t].mode = "call" /\ at'[t].i = i,
             \A k \in Kinds : \A j \in DOMAIN images[k], f \in AddFns, x \in Images :
               at[t].list = k /\ j = i /\ x = im => AddedOrPending(f, x, k, j)'
      PROVE  AddInv'
  <2> SUFFICES ASSUME NEW k \in Kinds, NEW j \in DOMAIN images[k]
               PROVE  AddAt(k, j)'
    BY <1>3, <1>6 DEF AddInv
  <2>1. CASE at[t].list # k \/ j # i
    BY <1>4, <1>6, <2>1
  <2>2. CASE at[t].list = k /\ j = i
    BY <1>5, <1>6, <2>2
  <2> QED
    BY <2>1, <2>2
<1>7. ASSUME new # {}, SetHere(t, i, e), funcs["add"] = << >>, GoOn(t, i + 1)
      PROVE  AddInv'
  <2>1. i + 1 \in Nat \ {0}
    BY <1>3, <1>7
  <2>2. at'[t].phase = "add" /\ at'[t].list = at[t].list /\ at'[t].mode = "scan"
        /\ at'[t].i = i + 1
    BY <1>1, <1>7, <2>1, GoOnStep
  <2>3. AddFns = {}
    BY <1>7 DEF AddFns
  <2> QED
    BY <1>6, <1>7, <2>2, <2>3
<1>8. ASSUME new # {}, SetHere(t, i, e), funcs["add"] # << >>,
             CallOut(t, i, "add", Head(funcs["add"]), im)
      PROVE  AddInv'
  <2> DEFINE g == Head(funcs["add"])
  <2>1. "add" \in DOMAIN Functions /\ funcs["add"] \in Seq(Functions["add"])
    BY CalloutsAssumption DEF TypeInv, Typed, FuncsOk
  <2>2. /\ 1 \in DOMAIN funcs["add"] /\ g = funcs["add"][1] /\ g \in Functions["add"]
        /\ \A b \in DOMAIN funcs["add"] : b = 1 \/ 1 < b
    BY <1>8, <2>1
  <2>3. g \in AnyFn
    BY <2>1, <2>2 DEF AnyFn, AllFunctions
  <2>4. CallOut(t, i, "add", g, im) /\ i \in Nat \ {0} /\ im \in Images \cup {None}
    BY <1>3, <1>8
  <2> HIDE DEF g
  <2>5. CallsOut(t, i, "add", g, im)
    BY <1>1, <2>3, <2>4, CallOutStep
  <2>6. /\ at'[t].phase = "add" /\ at'[t].list = at[t].list /\ at'[t].mode = "call"
        /\ at'[t].i = i /\ at'[t].fn = g /\ at'[t].image = im
        /\ <<"add", g, im>> \in DOMAIN calls'
    BY <1>1, <2>5 DEF CallsOut
  <2>7. ASSUME NEW k \in Kinds, NEW j \in DOMAIN images[k], NEW f \in AddFns,
               NEW x \in Images, at[t].list = k, j = i, x = im
        PROVE  AddedOrPending(f, x, k, j)'
    <3>1. PICK b \in DOMAIN funcs["add"] : funcs["add"][b] = f
      BY DEF AddFns
    <3>2. CASE b = 1
      BY <2>2, <2>6, <2>7, <3>1, <3>2 DEF AddedOrPending
    <3>3. CASE 1 < b
      <4>1. StillToAdd(t, f, x)'
        BY <1>2, <2>2, <2>6, <2>7, <3>1, <3>3 DEF StillToAdd
      <4> QED
        BY <4>1 DEF AddedOrPending
    <3> QED
      BY <2>2, <3>2, <3>3
  <2> QED
    BY <1>6, <1>8, <2>6, <2>7

\* nothing more in this list
<1>9. ASSUME new = {}, NEW k \in Kinds, NEW j \in DOMAIN images[k], ComesTo(t, k, j),
             images[k][j].state # "UNUSED", ~images[k][j].registered
      PROVE  at[t].list = "objects" /\ k = "libs"
  BY <1>1, <1>9, <1>d, NoHit DEF new
<1>10. ASSUME UNCHANGED images,
              \A k \in Kinds : \A j \in DOMAIN images[k] : KeepsWork(t, k, j)
       PROVE  AddInv'
  <2>1. \A k \in Kinds : \A j \in DOMAIN images[k] : SameForAdd(images'[k][j], images[k][j])
    BY <1>10 DEF SameForAdd
  <2> QED
    BY <1>1, <1>2, <1>10, <2>1, AddQuiet DEF Local
<1>11. ASSUME new = {}, NextList(t), UNCHANGED images
       PROVE  AddInv'
  <2>1. at'[t].phase = "add" /\ at'[t].list = "libs" /\ at'[t].mode = "scan" /\ at'[t].i = 1
    BY <1>1, <1>11, NextListStep
  <2>2. ASSUME NEW k \in Kinds, NEW j \in DOMAIN images[k]
        PROVE  KeepsWork(t, k, j)
    <3>1. 1 <= j
      BY <1>a
    <3> QED
      BY <1>9, <1>11, <1>c, <2>1, <3>1 DEF KeepsWork, ComesTo, Before
  <2> QED
    BY <1>10, <1>11, <2>2
<1>12. ASSUME new = {}, NextPhase(t, "link"), UNCHANGED images
       PROVE  AddInv'
  <2>1. at[t].list = "libs"
    BY <1>12 DEF NextPhase
  <2>2. ASSUME NEW k \in Kinds, NEW j \in DOMAIN images[k]
        PROVE  KeepsWork(t, k, j)
    BY <1>9, <1>12, <1>c, <2>1 DEF KeepsWork
  <2> QED
    BY <1>10, <1>12, <2>2
<1> QED
  BY <1>7, <1>8, <1>11, <1>12 DEF AddImages, i, e, im, new, wanted

(* The next function is called for the same image; after the last one the    *)
(* search goes on behind the entry, or from the first object again.          *)
LEMMA NextFunctionAdds ==
  ASSUME TypeInv, AddInv, NEW t \in Threads, NextFunction(t)
  PROVE  AddInv'
<1>1. FramesOk /\ ImagesOk /\ IsABag(calls) /\ at[t] \in Frames /\ FrameStands(t) /\ Local(t)
  BY LocalSteps DEF TypeInv, Typed, FramesOk, FramesStand, Step
<1>2. UNCHANGED <<images, funcs>>
  BY DEF NextFunction
<1>3. \A k \in Kinds : \A j \in DOMAIN images[k] : SameForAdd(images'[k][j], images[k][j])
  BY <1>2 DEF SameForAdd
<1>4. PICK k \in {"add", "link"} :
        /\ At(t, {k}, "next")
        /\ LET later == After(funcs[k], at[t].fn)
           IN IF later = << >>
                THEN GoOn(t, Again(t))
                ELSE CallOut(t, at[t].i, k, Head(later),
                             IF k = "add" THEN at[t].image ELSE This(t).image)
  BY DEF NextFunction
<1>5. at[t].phase = k /\ at[t].mode = "next"
  BY <1>4 DEF At, In
<1>6. CASE k = "link"
  BY <1>1, <1>2, <1>3, <1>5, <1>6, AddOtherStep DEF Local
<1>7. CASE k = "add"
  <2> SUFFICES ASSUME NEW q \in Kinds, NEW j \in DOMAIN images[q]
               PROVE  KeepsWork(t, q, j)
    BY <1>1, <1>2, <1>3, AddQuiet DEF Local
  <2> DEFINE later == After(funcs["add"], at[t].fn)
             f == Head(later)
  <2>1. PICK a \in DOMAIN funcs["add"] :
          /\ funcs["add"][a] = at[t].fn
          /\ later = << >> => \A b \in DOMAIN funcs["add"] : b <= a
          /\ later # << >> => /\ a + 1 \in DOMAIN funcs["add"]
                              /\ f = funcs["add"][a + 1]
                              /\ f \in AnyFn
    BY <1>5, <1>7, NextOfList DEF ListPhases
  <2>2. /\ "add" \in DOMAIN Functions /\ DOMAIN funcs["add"] \in SUBSET Nat
        /\ \A b, c \in DOMAIN funcs["add"] : funcs["add"][b] = funcs["add"][c] => b = c
    BY CalloutsAssumption DEF TypeInv, Typed, FuncsOk, NoneTwice
  <2>3. j \in Nat \ {0} /\ at[t].i \in Nat \ {0} /\ at[t].list \in Kinds
        /\ at[t].i \in DOMAIN images[at[t].list]
    BY <1>1, <1>5 DEF ImagesOk, Frames, FrameStands
  <2>4. CASE later = << >>
    <3>1. GoOn(t, Again(t)) /\ Again(t) \in Nat \ {0}
      BY <1>4, <1>7, <2>3, <2>4 DEF Again
    <3>2. /\ at'[t].phase = "add" /\ at'[t].list = at[t].list /\ at'[t].mode = "scan"
          /\ at'[t].i = Again(t)
      BY <1>1, <1>5, <1>7, <3>1, GoOnStep
    <3>3. ASSUME NEW g \in AddFns, NEW im \in Images, StillToAdd(t, g, im)
          PROVE  FALSE
      <4>1. PICK c \in DOMAIN funcs["add"], d \in DOMAIN funcs["add"] :
              c < d /\ funcs["add"][c] = at[t].fn
        BY <3>3 DEF StillToAdd
      <4>2. c = a /\ d <= a
        BY <2>1, <2>2, <2>4, <4>1
      <4> QED
        BY <2>2, <4>1, <4>2
    <3>4. ComesTo(t, q, j) => ComesTo(t, q, j)'
      <4>1. at[t].list = "objects" => 1 <= j
        BY <2>3
      <4>2. at[t].i < j => at[t].i + 1 <= j
        BY <2>3
      <4> QED
        BY <1>5, <2>3, <3>2, <4>1, <4>2 DEF ComesTo, Before, Again, Kinds
    <3> QED
      BY <1>5, <1>7, <3>2, <3>3, <3>4 DEF KeepsWork, StillToWalk
  <2>5. CASE later # << >>
    <3> DEFINE i == at[t].i
               im == at[t].image
    <3>1. CallOut(t, i, "add", f, im) /\ f \in AnyFn /\ i \in Nat \ {0}
          /\ im \in Images \cup {None}
      BY <1>1, <1>4, <1>7, <2>1, <2>3, <2>5 DEF Frames
    <3> HIDE DEF f, later, i, im
    <3>2. CallsOut(t, i, "add", f, im)
      BY <1>1, <3>1, CallOutStep
    <3>3. /\ at'[t].phase = "add" /\ at'[t].list = at[t].list /\ at'[t].mode = "call"
          /\ at'[t].i = at[t].i /\ at'[t].fn = f /\ at'[t].image = at[t].image
          /\ <<"add", f, im>> \in DOMAIN calls'
      BY <1>5, <1>7, <3>2 DEF CallsOut, i, im
    <3>4. ASSUME NEW g \in AddFns, NEW x \in Images, StillToAdd(t, g, x)
          PROVE  <<"add", g, x>> \in DOMAIN calls' \/ StillToAdd(t, g, x)'
      <4>1. PICK c \in DOMAIN funcs["add"], d \in DOMAIN funcs["add"] :
              c < d /\ funcs["add"][c] = at[t].fn /\ funcs["add"][d] = g
        BY <3>4 DEF StillToAdd
      <4>2. x = im
        BY <3>4 DEF StillToAdd, im
      <4>3. c = a /\ a + 1 \in DOMAIN funcs["add"] /\ f = funcs["add"][a + 1]
        BY <2>1, <2>2, <2>5, <4>1
      <4>4. d = a + 1 \/ a + 1 < d
        BY <2>2, <4>1, <4>3
      <4>5. CASE d = a + 1
        BY <3>3, <4>1, <4>2, <4>3, <4>5
      <4>6. CASE a + 1 < d
        BY <1>2, <3>3, <4>1, <4>2, <4>3, <4>6 DEF StillToAdd, im
      <4> QED
        BY <4>4, <4>5, <4>6
    <3>5. ComesTo(t, q, j) => ComesTo(t, q, j)'
      BY <1>5, <3>3 DEF ComesTo, Before
    <3> QED
      BY <1>5, <1>7, <3>3, <3>4, <3>5 DEF KeepsWork, StillToWalk
  <2> QED
    BY <2>4, <2>5
<1> QED
  BY <1>6, <1>7

(* A new entry, or one that is used again, has its thread; a library that    *)
(* was there keeps what it had.                                              *)
LEMMA LinkModuleAdds ==
  ASSUME TypeInv, AddInv, NEW t \in Threads, NEW b \in Bundles, LinkModule(t, b)
  PROVE  AddInv'
<1>1. FramesOk /\ ImagesOk /\ Local(t)
  BY LocalSteps DEF TypeInv, Typed, Call
<1>2. /\ ImagesOk' /\ \A k \in Kinds : \A i \in DOMAIN images'[k] : LinkedEntry(k, i, b)
  BY LinkModuleImages DEF LinkModule
<1>3. at[t].phase = "out" /\ UNCHANGED funcs
      /\ at'[t].phase = "add" /\ at'[t].list = "objects" /\ at'[t].mode = "scan"
      /\ at'[t].i = 1
  BY <1>1 DEF LinkModule, Enter, Out, FramesOk, Idle
<1> SUFFICES ASSUME NEW k \in Kinds, NEW i \in DOMAIN images'[k]
             PROVE  AddAt(k, i)'
  BY DEF AddInv
<1> DEFINE e == images'[k][i]
           o == images[k][i]
<1>4. LinkedEntry(k, i, b)
  BY <1>2
<1>5. i \in DOMAIN images[k] => o \in EntryRecords /\ (o.state = "UNUSED" => ~o.registered)
  BY <1>1 DEF ImagesOk, AddInv, AddAt
<1>6. ComesTo(t, k, i)'
  <2>1. 1 <= i
    BY <1>2 DEF ImagesOk
  <2> QED
    BY <1>3, <2>1 DEF ComesTo, Before, Kinds
<1>7. ASSUME ~e.registered, e.state # "UNUSED"
      PROVE  AddAt(k, i)'
  BY <1>3, <1>6, <1>7 DEF AddAt
<1>8. ASSUME i \in DOMAIN images[k], SameForAdd(e, o)
      PROVE  AddAt(k, i)'
  BY <1>1, <1>3, <1>8, NoWork, AddKept DEF Local
<1>9. CASE i \in DOMAIN images[k] /\ e = o
  BY <1>8, <1>9 DEF SameForAdd
<1>10. CASE i \in DOMAIN images[k] /\ o.state = "UNUSED"
            /\ e = [o EXCEPT !.image = b, !.state = "RELOCATED"]
  <2>1. ~e.registered /\ e.state # "UNUSED"
    BY <1>5, <1>10 DEF EntryRecords
  <2> QED
    BY <1>7, <2>1
<1>11. CASE i \in DOMAIN images[k] /\ o.state = "UNLINKED"
            /\ e = [o EXCEPT !.state = "RELOCATED"]
  <2>1. SameForAdd(e, o)
    BY <1>5, <1>11 DEF EntryRecords, SameForAdd
  <2> QED
    BY <1>8, <1>11, <2>1
<1>12. CASE \E im \in Images : e = Entry(im, "RELOCATED", FALSE)
  <2>1. ~e.registered /\ e.state # "UNUSED"
    BY <1>12 DEF Entry
  <2> QED
    BY <1>7, <2>1
<1> QED
  BY <1>4, <1>9, <1>10, <1>11, <1>12 DEF LinkedEntry

(* Binding: a library was registered when it came.                           *)
LEMMA BindModuleAdds ==
  ASSUME TypeInv, AddInv, NEW t \in Threads, NEW i \in DOMAIN images.libs, BindModule(t, i)
  PROVE  AddInv'
<1>1. Local(t)
  BY LocalSteps DEF Call
<1>2. /\ images.libs[i].state = "UNLINKED"
      /\ images'["libs"][i] = [images.libs[i] EXCEPT !.state = "RELOCATED"]
      /\ \A k \in Kinds : DOMAIN images'[k] = DOMAIN images[k]
      /\ \A k \in Kinds : \A j \in DOMAIN images[k] :
           k # "libs" \/ j # i => images'[k][j] = images[k][j]
  BY BindModuleTyped
<1>3. at[t].phase = "out" /\ UNCHANGED funcs
  BY DEF BindModule, Enter, Out
<1>4. images.libs[i] \in EntryRecords
  BY DEF TypeInv, Typed, ImagesOk, Kinds
<1>5. SameForAdd(images'["libs"][i], images["libs"][i])
  BY <1>2, <1>4 DEF EntryRecords, SameForAdd
<1>6. \A k \in Kinds : \A j \in DOMAIN images[k] : SameForAdd(images'[k][j], images[k][j])
  BY <1>2, <1>5 DEF SameForAdd
<1> QED
  BY <1>1, <1>2, <1>3, <1>6, AddOtherStep DEF Local

(* A function that is registered is called by its thread for what is there.  *)
LEMMA RegisterAdds ==
  ASSUME TypeInv, AddInv, NEW t \in Threads, NEW k \in DOMAIN Functions, Register(t, k)
  PROVE  AddInv'
<1>1. FramesOk /\ ImagesOk /\ Local(t) /\ "add" \in DOMAIN Functions
      /\ DOMAIN funcs = DOMAIN Functions
  BY LocalSteps, CalloutsAssumption DEF TypeInv, Typed, FuncsOk, Call
<1>2. PICK f \in Unregistered(k) :
        /\ Enter(t, [Idle EXCEPT !.phase = IF k = "add" THEN "walkAdd" ELSE "walkLink",
                                 !.fn = f])
        /\ funcs' = [funcs EXCEPT ![k] = Inserted(@, f)]
  BY DEF Register
<1>3. UNCHANGED <<images, calls>> /\ at[t].phase = "out"
  BY <1>2 DEF Register, Enter, Out
<1>4. CASE k # "add"
  <2>1. funcs'["add"] = funcs["add"]
    BY <1>1, <1>2, <1>4
  <2>2. \A q \in Kinds : \A j \in DOMAIN images[q] : SameForAdd(images'[q][j], images[q][j])
    BY <1>3 DEF SameForAdd
  <2> QED
    BY <1>1, <1>3, <2>1, <2>2, AddOtherStep DEF Local
<1>5. CASE k = "add"
  <2>1. /\ at'[t].phase = "walkAdd" /\ at'[t].list = "objects" /\ at'[t].mode = "scan"
        /\ at'[t].i = 1 /\ at'[t].fn = f
    BY <1>1, <1>2, <1>5 DEF Enter, FramesOk, Idle
  <2>2. /\ \A a \in DOMAIN funcs["add"] : /\ Place(a) \in DOMAIN funcs'["add"]
                                          /\ funcs'["add"][Place(a)] = funcs["add"][a]
        /\ \A b \in DOMAIN funcs'["add"] : \/ funcs'["add"][b] = f
                                           \/ \E a \in DOMAIN funcs["add"] : b = Place(a)
    BY <1>2, <1>5, InsertedFuncs
  <2>3. \A a, b \in DOMAIN funcs["add"] : a < b => Place(a) < Place(b)
    <3>1. \A a \in DOMAIN funcs["add"] : a \in Nat \ {0}
      BY <1>1 DEF TypeInv, Typed, FuncsOk
    <3> QED
      BY <3>1 DEF Place
  <2> SUFFICES ASSUME NEW q \in Kinds, NEW i \in DOMAIN images[q]
               PROVE  AddAt(q, i)'
    BY <1>3 DEF AddInv
  <2> DEFINE e == images[q][i]
  <2>4. AddAt(q, i) /\ 1 <= i
    BY <1>1 DEF AddInv, ImagesOk
  <2>5. ASSUME e.state # "UNUSED", ~e.registered
        PROVE  \E u \in Threads : at'[u].phase = "add" /\ ComesTo(u, q, i)'
    <3>1. PICK u \in Threads : at[u].phase = "add" /\ ComesTo(u, q, i)
      BY <2>4, <2>5 DEF AddAt
    <3>2. at'[u] = at[u]
      BY <1>1, <1>3, <3>1 DEF Local
    <3> QED
      BY <3>1, <3>2 DEF ComesTo, Before
  <2>6. ASSUME e.registered, NEW g \in AddFns'
        PROVE  AddedOrPending(g, e.image, q, i)'
    <3>1. PICK b \in DOMAIN funcs'["add"] : g = funcs'["add"][b]
      BY DEF AddFns
    <3>2. CASE g = f
      <4>1. Before(t, q, i)'
        BY <2>1, <2>4 DEF Before, Kinds
      <4>2. StillToWalk(t, g, q, i)'
        BY <2>1, <3>2, <4>1 DEF StillToWalk
      <4> QED
        BY <4>2 DEF AddedOrPending
    <3>3. CASE g # f
      <4>1. PICK a \in DOMAIN funcs["add"] : b = Place(a)
        BY <2>2, <3>1, <3>3
      <4>2. g = funcs["add"][a] /\ g \in AddFns
        BY <2>2, <3>1, <4>1 DEF AddFns
      <4>3. AddedOrPending(g, e.image, q, i)
        BY <2>4, <2>6, <4>2 DEF AddAt
      <4>4. CASE <<"add", g, e.image>> \in DOMAIN calls
        BY <1>3, <4>4 DEF AddedOrPending
      <4>5. ASSUME NEW u \in Threads, StillToAdd(u, g, e.image)
            PROVE  AddedOrPending(g, e.image, q, i)'
        <5>1. at'[u] = at[u]
          BY <1>1, <1>3, <4>5 DEF Local, StillToAdd
        <5>2. PICK c \in DOMAIN funcs["add"], d \in DOMAIN funcs["add"] :
                c < d /\ funcs["add"][c] = at[u].fn /\ funcs["add"][d] = g
          BY <4>5 DEF StillToAdd
        <5>3. /\ Place(c) \in DOMAIN funcs'["add"] /\ Place(d) \in DOMAIN funcs'["add"]
              /\ Place(c) < Place(d) /\ funcs'["add"][Place(c)] = at'[u].fn
              /\ funcs'["add"][Place(d)] = g
          BY <2>2, <2>3, <5>1, <5>2
        <5>4. StillToAdd(u, g, e.image)'
          BY <1>3, <4>5, <5>1, <5>3 DEF StillToAdd
        <5> QED
          BY <5>4 DEF AddedOrPending
      <4>6. ASSUME NEW u \in Threads, StillToWalk(u, g, q, i)
            PROVE  AddedOrPending(g, e.image, q, i)'
        <5>1. at'[u] = at[u]
          BY <1>1, <1>3, <4>6 DEF Local, StillToWalk
        <5>2. StillToWalk(u, g, q, i)'
          BY <4>6, <5>1 DEF StillToWalk, Before
        <5> QED
          BY <5>2 DEF AddedOrPending
      <4> QED
        BY <4>3, <4>4, <4>5, <4>6 DEF AddedOrPending
    <3> QED
      BY <3>2, <3>3
  <2>7. images'[q][i] = e
    BY <1>3
  <2> QED
    BY <2>4, <2>5, <2>6, <2>7 DEF AddAt
<1> QED
  BY <1>4, <1>5

(* Removing: the entry is of no image after that.                            *)
LEMMA RemoveImageAdds ==
  ASSUME TypeInv, AddInv, NEW t \in Threads, RemoveImage(t)
  PROVE  AddInv'
<1>1. FramesOk /\ ImagesOk /\ at[t] \in Frames /\ FrameStands(t) /\ Local(t)
      /\ at[t].phase = "remove" /\ UNCHANGED funcs
  BY LocalSteps DEF TypeInv, Typed, FramesOk, FramesStand, Step, RemoveImage, In
<1>2. CASE UNCHANGED images
  <2>1. \A k \in Kinds : \A j \in DOMAIN images[k] : SameForAdd(images'[k][j], images[k][j])
    BY <1>2 DEF SameForAdd
  <2> QED
    BY <1>1, <1>2, <2>1, AddOtherStep DEF Local
<1>3. CASE images' = [images EXCEPT !.objects[at[t].i] = Unused(@)]
  <2> DEFINE e == Unused(images.objects[at[t].i])
             i == at[t].i
  <2>1. e \in EntryRecords /\ e.state = "UNUSED" /\ ~e.registered
    BY DEF Unused, Entry, EntryRecords, States
  <2>2. SetHere(t, i, e) /\ i \in DOMAIN Here(t) /\ at[t].list = "objects"
    BY <1>1, <1>3 DEF SetHere, Here, FrameStands
  <2> HIDE DEF e, i
  <2>3. /\ \A q \in Kinds : DOMAIN images'[q] = DOMAIN images[q]
        /\ images'[at[t].list][i] = e
        /\ \A q \in Kinds : \A j \in DOMAIN images[q] :
             q # at[t].list \/ j # i => images'[q][j] = images[q][j]
    BY <2>1, <2>2, OtherEntry
  <2> SUFFICES ASSUME NEW k \in Kinds, NEW j \in DOMAIN images[k]
               PROVE  AddAt(k, j)'
    BY <2>3 DEF AddInv
  <2>4. CASE k = at[t].list /\ j = i
    <3>1. images'[k][j].state = "UNUSED" /\ ~images'[k][j].registered
      BY <2>1, <2>3, <2>4
    <3> QED
      BY <3>1 DEF AddAt
  <2>5. CASE k # at[t].list \/ j # i
    <3>1. SameForAdd(images'[k][j], images[k][j])
      BY <2>3, <2>5 DEF SameForAdd
    <3> QED
      BY <1>1, <3>1, NoWork, AddKept DEF Local
  <2> QED
    BY <2>4, <2>5
<1> QED
  BY <1>2, <1>3 DEF RemoveImage

(* The other loops do not touch what this is about.                          *)
LEMMA OthersAdd ==
  ASSUME TypeInv, AddInv, NEW t \in Threads,
         \/ LinkModules(t) \/ InitModule(t) \/ InitDone(t) \/ NextInit(t) \/ Terminate(t)
         \/ ExitModules(t) \/ NextTerm(t) \/ Launch(t) \/ Exit(t) \/ RegisterRemove(t)
         \/ \E i \in DOMAIN images.objects : UnlinkModule(t, i)
  PROVE  AddInv'
<1>1. FramesOk /\ ImagesOk /\ at[t] \in Frames /\ FrameStands(t) /\ Local(t)
  BY LocalSteps DEF TypeInv, Typed, FramesOk, FramesStand, Step, Call
<1>2. ASSUME UNCHANGED images, at[t].phase \notin {"add", "walkAdd"},
             funcs'["add"] = funcs["add"]
      PROVE  AddInv'
  <2>1. \A k \in Kinds : \A j \in DOMAIN images[k] : SameForAdd(images'[k][j], images[k][j])
    BY <1>2 DEF SameForAdd
  <2> QED
    BY <1>1, <1>2, <2>1, AddOtherStep DEF Local
<1>3. CASE InitDone(t) \/ Terminate(t) \/ NextTerm(t)
  BY <1>2, <1>3 DEF InitDone, Terminate, NextTerm, At, In
<1>4. CASE Launch(t) \/ Exit(t) \/ \E i \in DOMAIN images.objects : UnlinkModule(t, i)
  BY <1>2, <1>4 DEF Launch, Exit, UnlinkModule, Enter, Out
<1>5. CASE RegisterRemove(t)
  <2>1. "add" \in DOMAIN funcs /\ UNCHANGED images /\ at[t].phase = "out"
    BY <1>5, CalloutsAssumption DEF TypeInv, Typed, FuncsOk, RegisterRemove, Out
  <2>2. funcs'["add"] = funcs["add"]
    BY <1>5, <2>1 DEF RegisterRemove
  <2> QED
    BY <1>2, <2>1, <2>2

\* an entry of the list changes
<1>6. ASSUME at[t].phase \notin {"add", "walkAdd"}, UNCHANGED funcs,
             NEW i \in DOMAIN Here(t), NEW e, SetHere(t, i, e),
             Here(t)[i] \in EntryRecords =>
               e \in EntryRecords /\ SameForAdd(e, Here(t)[i])
      PROVE  AddInv'
  <2>1. Here(t)[i] \in EntryRecords /\ (Here(t)[i].state # "UNUSED" => Here(t)[i].image \in Images)
    BY <1>1 DEF ImagesOk, Here, Frames, TypeInv, UsedHaveImages
  <2>2. e \in EntryRecords /\ SameForAdd(e, Here(t)[i])
        /\ (e.state # "UNUSED" => e.image \in Images)
    BY <1>6, <2>1 DEF SameForAdd
  <2>3. funcs'["add"] = funcs["add"]
    BY <1>6
  <2> QED
    BY <1>1, <1>6, <2>2, <2>3, AddSetHere DEF Local
<1>7. CASE LinkModules(t)
  <2> DEFINE new == Hits(t, {e \in Entries(t) : e.state = "RELOCATED"})
             i == Min(new)
             e == Registering(Here(t)[i])
  <2>1. at[t].phase = "link" /\ UNCHANGED funcs
    BY <1>7 DEF LinkModules, At, In
  <2>2. CASE new # {} /\ SetHere(t, i, e)
    <3>1. i \in DOMAIN Here(t) /\ Here(t)[i].state = "RELOCATED"
      BY <1>1, <2>2, FirstHit
    <3> HIDE DEF i, new
    <3>2. Here(t)[i] \in EntryRecords => e \in EntryRecords /\ SameForAdd(e, Here(t)[i])
      BY <3>1 DEF Registering, EntryRecords, States, SameForAdd
    <3> HIDE DEF e
    <3> QED
      BY <1>6, <2>1, <2>2, <3>1, <3>2
  <2>3. CASE UNCHANGED images
    BY <1>2, <2>1, <2>3
  <2> QED
    BY <1>7, <2>2, <2>3 DEF LinkModules
<1>8. CASE InitModule(t)
  <2> DEFINE new == Hits(t, {e \in Entries(t) : ToInitialise(t, e)})
             i == Min(new)
             begun == InitBegun(t, Here(t)[i])
  <2>1. at[t].phase \in {"init", "initDelayed"} /\ UNCHANGED funcs /\ new # {}
    BY <1>8 DEF InitModule, At, In
  <2>2. SetHere(t, i, begun) \/ SetHere(t, i, InitEnded(begun))
    BY <1>8 DEF InitModule
  <2>3. i \in DOMAIN Here(t)
    BY <1>1, <2>1, FirstHit
  <2> HIDE DEF i, new
  <2>4. CallsMade(t) \in BOOLEAN
    BY DEF CallsMade, MakingDelayed
  <2>5. Here(t)[i] \in EntryRecords =>
          /\ begun \in EntryRecords /\ SameForAdd(begun, Here(t)[i])
          /\ InitEnded(begun) \in EntryRecords /\ SameForAdd(InitEnded(begun), Here(t)[i])
    BY <2>4 DEF InitBegun, InitEnded, EntryRecords, States, SameForAdd
  <2> HIDE DEF begun
  <2> QED
    BY <1>6, <2>1, <2>2, <2>3, <2>5
<1>9. CASE NextInit(t)
  <2> DEFINE i == at[t].i
             e == InitEnded(This(t))
  <2>1. at[t].phase \in {"init", "initDelayed"} /\ UNCHANGED funcs /\ at[t].mode = "next"
    BY <1>9 DEF NextInit, At, In
  <2>2. CASE SetHere(t, i, e)
    <3>1. i \in DOMAIN Here(t)
      BY <1>1, <2>1 DEF FrameStands, Here
    <3>2. Here(t)[i] \in EntryRecords => e \in EntryRecords /\ SameForAdd(e, Here(t)[i])
      BY DEF This, InitEnded, EntryRecords, States, SameForAdd
    <3> HIDE DEF e, i
    <3> QED
      BY <1>6, <2>1, <2>2, <3>1, <3>2
  <2>3. CASE UNCHANGED images
    BY <1>2, <2>1, <2>3
  <2> QED
    BY <1>9, <2>2, <2>3 DEF NextInit
<1>10. CASE ExitModules(t)
  <2> DEFINE left == Hits(t, {e \in Entries(t) : ToBeTerminated(e)})
             i == Min(left)
             e == [Here(t)[i] EXCEPT !.termed = TRUE]
  <2>1. at[t].phase = "exit" /\ UNCHANGED funcs
    BY <1>10 DEF ExitModules, At, In
  <2>2. CASE left # {} /\ SetHere(t, i, e)
    <3>1. i \in DOMAIN Here(t)
      BY <1>1, <2>2, FirstHit
    <3> HIDE DEF i, left
    <3>2. Here(t)[i] \in EntryRecords => e \in EntryRecords /\ SameForAdd(e, Here(t)[i])
      BY DEF EntryRecords, SameForAdd
    <3> HIDE DEF e
    <3> QED
      BY <1>6, <2>1, <2>2, <3>1, <3>2
  <2>3. CASE UNCHANGED images
    BY <1>2, <2>1, <2>3
  <2> QED
    BY <1>10, <2>2, <2>3 DEF ExitModules
<1> QED
  BY <1>3, <1>4, <1>5, <1>7, <1>8, <1>9, <1>10

(* At the start no function is registered.                                   *)
LEMMA InitAdds == Init => AddInv
<1> SUFFICES ASSUME Init, NEW k \in Kinds, NEW i \in DOMAIN images[k]
             PROVE  AddAt(k, i)
  BY DEF AddInv
<1>1. images[k][i].registered /\ images[k][i].state # "UNUSED"
  BY DEF Init, Kinds, Entry
<1>2. AddFns = {}
  BY CalloutsAssumption DEF Init, AddFns
<1> QED
  BY <1>1, <1>2 DEF AddAt

(* Every step keeps it.                                                      *)
LEMMA NextAdds == TypeInv /\ AddInv /\ [Next]_vars => AddInv'
<1> SUFFICES ASSUME TypeInv, AddInv, [Next]_vars PROVE AddInv'
  OBVIOUS
<1>1. CASE UNCHANGED vars
  BY <1>1 DEF vars, AddInv, AddAt, AddFns, AddedOrPending, StillToAdd, StillToWalk, ComesTo,
     Before
<1>2. ASSUME NEW t \in Threads, Call(t) PROVE AddInv'
  BY <1>2, LinkModuleAdds, BindModuleAdds, RegisterAdds, OthersAdd DEF Call
<1>3. ASSUME NEW t \in Threads, Step(t) PROVE AddInv'
  BY <1>3, ReturnAdds, WalkAdds, AddImagesAdds, NextFunctionAdds, RemoveImageAdds, OthersAdd
     DEF Step
<1> QED
  BY <1>1, <1>2, <1>3 DEF Next, Stopped

(* It holds in every state.                                                  *)
LEMMA AddInvHolds == Spec => [](TypeInv /\ AddInv)
<1>1. Init => TypeInv /\ AddInv
  BY InitTyped, InitAdds
<1>2. (TypeInv /\ AddInv) /\ [Next]_vars => (TypeInv /\ AddInv)'
  BY NextTyped, NextAdds
<1> QED
  BY <1>1, <1>2, PTL DEF Spec

(* When no thread is in the dynamic linker, every function registered for    *)
(* added images was called for every image there is.                         *)
LEMMA AddInvShows == TypeInv /\ AddInv => AddFunctionsSeeAll
<1> SUFFICES ASSUME TypeInv, AddInv, AllOut, NEW a \in DOMAIN funcs["add"], NEW e \in Loaded
             PROVE  Called("add", funcs["add"][a], e.image) >= 1
  BY DEF AddFunctionsSeeAll
<1>1. PICK k \in Kinds : \E i \in DOMAIN images[k] : e = images[k][i] /\ e.state # "UNUSED"
  BY DEF Loaded
<1>2. PICK i \in DOMAIN images[k] : e = images[k][i] /\ e.state # "UNUSED"
  BY <1>1
<1>3. AddAt(k, i)
  BY DEF AddInv
<1>4. \A t \in Threads : at[t].phase = "out"
  BY DEF AllOut, Out
<1>5. e.registered
  BY <1>2, <1>3, <1>4 DEF AddAt
<1>6. <<"add", funcs["add"][a], e.image>> \in DOMAIN calls
  <2>1. AddedOrPending(funcs["add"][a], e.image, k, i)
    BY <1>2, <1>3, <1>5 DEF AddAt, AddFns
  <2> QED
    BY <1>4, <2>1 DEF AddedOrPending, StillToAdd, StillToWalk
<1>7. calls[<<"add", funcs["add"][a], e.image>>] \in Nat \ {0}
  BY <1>6 DEF TypeInv, Typed, IsABag
<1> QED
  BY <1>6, <1>7 DEF Called, BagIn, BagToSet

(* A function registered for added images has been called for every image,   *)
(* whichever came first and whatever other threads linked, removed and       *)
(* registered meanwhile.                                                     *)
THEOREM AddFunctionsHaveSeenAll == Spec => []AddFunctionsSeeAll
BY AddInvHolds, AddInvShows, PTL
-----------------------------------------------------------------------------
(* Modules that are half linked *)

KeepsHalf(t, k, i) ==
  \A state \in Half : images[k][i].state = state /\ HalfWork(t, k, i, state)
                        => HalfWork(t, k, i, state)'

(* An entry keeps its state, and t its work.                                 *)
LEMMA HalfKept ==
  ASSUME HalfInv, NEW t \in Threads, \A u \in Threads : u # t => at'[u] = at[u],
         NEW k \in Kinds, NEW i \in DOMAIN images[k],
         images'[k][i].state = images[k][i].state, KeepsHalf(t, k, i)
  PROVE  HalfAt(k, i)'
<1> SUFFICES ASSUME NEW state \in Half, images[k][i].state = state
             PROVE  \E u \in Threads : HalfWork(u, k, i, state)'
  BY DEF HalfAt, HalfWork
<1>1. PICK u \in Threads : HalfWork(u, k, i, state)
  BY DEF HalfInv, HalfAt
<1>2. CASE u = t
  BY <1>1, <1>2 DEF KeepsHalf
<1>3. CASE u # t
  <2>1. HalfWork(u, k, i, state)'
    BY <1>1, <1>3 DEF HalfWork, ComesTo, Before
  <2> QED
    BY <2>1
<1> QED
  BY <1>2, <1>3

(* A step that leaves all the states as they are                             *)
LEMMA HalfQuiet ==
  ASSUME HalfInv, NEW t \in Threads, \A u \in Threads : u # t => at'[u] = at[u],
         \A k \in Kinds : DOMAIN images'[k] = DOMAIN images[k],
         \A k \in Kinds : \A i \in DOMAIN images[k] :
           images'[k][i].state = images[k][i].state /\ KeepsHalf(t, k, i)
  PROVE  HalfInv'
<1> SUFFICES ASSUME NEW k \in Kinds, NEW i \in DOMAIN images[k]
             PROVE  HalfAt(k, i)'
  BY DEF HalfInv
<1> QED
  BY HalfKept

(* ... but one entry's.                                                      *)
LEMMA HalfSetHere ==
  ASSUME TypeInv, HalfInv, NEW t \in Threads,
         \A u \in Threads : u # t => at'[u] = at[u],
         NEW i \in DOMAIN Here(t), NEW e \in EntryRecords, SetHere(t, i, e),
         e.state # "UNUSED" => e.image \in Images,
         \A k \in Kinds : \A j \in DOMAIN images[k] :
           k # at[t].list \/ j # i \/ e.state = images[k][j].state => KeepsHalf(t, k, j),
         \A k \in Kinds : \A j \in DOMAIN images[k], state \in Half :
           k = at[t].list /\ j = i /\ e.state = state /\ e.state # images[k][j].state
             => HalfWork(t, k, j, state)'
  PROVE  HalfInv'
<1>1. /\ \A q \in Kinds : DOMAIN images'[q] = DOMAIN images[q]
      /\ images'[at[t].list][i] = e
      /\ \A q \in Kinds : \A j \in DOMAIN images[q] :
           q # at[t].list \/ j # i => images'[q][j] = images[q][j]
  BY OtherEntry
<1> SUFFICES ASSUME NEW k \in Kinds, NEW j \in DOMAIN images[k]
             PROVE  HalfAt(k, j)'
  BY <1>1 DEF HalfInv
<1>2. CASE k # at[t].list \/ j # i \/ e.state = images[k][j].state
  <2>1. images'[k][j].state = images[k][j].state
    BY <1>1, <1>2
  <2> QED
    BY <1>2, <2>1, HalfKept
<1>3. CASE k = at[t].list /\ j = i /\ e.state # images[k][j].state
  <2> SUFFICES ASSUME NEW state \in Half, images'[k][j].state = state
               PROVE  \E u \in Threads : HalfWork(u, k, j, state)'
    BY DEF HalfAt, HalfWork
  <2>1. e.state = state
    BY <1>1, <1>3
  <2> QED
    BY <1>3, <2>1
<1> QED
  BY <1>2, <1>3

(* A thread that does not link or initialise has no such work.               *)
LEMMA NoHalf ==
  ASSUME NEW t \in Threads, at[t].phase \notin {"add", "link", "init", "initDelayed"},
         NEW k, NEW i
  PROVE  KeepsHalf(t, k, i)
BY DEF KeepsHalf, HalfWork

(* A thread that calls a function, or returns, still has its work.           *)
LEMMA CallKeepsHalf ==
  ASSUME NEW t \in Threads, at[t].mode # "scan",
         at'[t].mode # "scan", at'[t].phase = at[t].phase, at'[t].list = at[t].list,
         at'[t].i = at[t].i, NEW k, NEW i
  PROVE  KeepsHalf(t, k, i)
BY DEF KeepsHalf, HalfWork, ComesTo, Before

(* ... and so has one that goes on after its calls, but for this entry.      *)
LEMMA AgainKeepsHalf ==
  ASSUME FramesOk, ImagesOk, NEW t \in Threads, at[t].mode # "scan",
         at'[t].mode = "scan", at'[t].phase = at[t].phase, at'[t].list = at[t].list,
         at[t].phase # "initDelayed" => at'[t].i = Again(t),
         NEW k \in Kinds, NEW i \in DOMAIN images[k],
         images[k][i].state = "INITIALIZING" => at[t].phase \notin {"init", "initDelayed"}
                                                \/ at[t].list # k \/ at[t].i # i
  PROVE  KeepsHalf(t, k, i)
<1>1. i \in Nat \ {0} /\ at[t].i \in Nat \ {0} /\ at[t].list \in Kinds
  BY DEF ImagesOk, FramesOk, Frames
<1>2. at[t].phase # "initDelayed" /\ ComesTo(t, k, i) => ComesTo(t, k, i)'
  <2>1. at[t].list = "objects" => 1 <= i
    BY <1>1
  <2>2. at[t].i < i => at[t].i + 1 <= i
    BY <1>1
  <2> QED
    BY <1>1, <2>1, <2>2 DEF ComesTo, Before, Again, Kinds
<1> QED
  BY <1>2 DEF KeepsHalf, HalfWork

(* A call returns.                                                           *)
LEMMA ReturnHalf ==
  ASSUME TypeInv, HalfInv, NEW t \in Threads, Return(t)
  PROVE  HalfInv'
<1>1. at[t] \in Frames /\ FramesOk /\ Local(t)
  BY LocalSteps DEF TypeInv, Typed, FramesOk, Step
<1>2. /\ at'[t] = [at[t] EXCEPT !.mode = "next"] /\ at[t].mode = "call" /\ UNCHANGED images
  BY <1>1 DEF Return, FramesOk
<1>3. /\ at'[t].phase = at[t].phase /\ at'[t].list = at[t].list /\ at'[t].i = at[t].i
      /\ at'[t].mode = "next"
  BY <1>1, <1>2 DEF Frames
<1> QED
  BY <1>1, <1>2, <1>3, CallKeepsHalf, HalfQuiet DEF Local

(* Where a step leaves the thread                                            *)
LEMMA CallOutFrame ==
  ASSUME FramesOk, NEW t \in Threads, NEW i, NEW kind, NEW fn, NEW image,
         CallOut(t, i, kind, fn, image)
  PROVE  /\ at'[t].phase = at[t].phase /\ at'[t].list = at[t].list
         /\ at'[t].mode = "call" /\ at'[t].i = i
<1> DEFINE n == IF kind \in {"init", "term"} /\ fn = 1 THEN Routines[image] ELSE at[t].n
<1>1. at[t] \in Frames
  BY DEF FramesOk
<1>2. at' = [at EXCEPT ![t] = [at[t] EXCEPT !.mode = "call", !.i = i, !.fn = fn,
                                            !.image = image, !.n = n]]
  BY <1>1 DEF CallOut, FramesOk
<1> HIDE DEF n
<1>3. at'[t] = [at[t] EXCEPT !.mode = "call", !.i = i, !.fn = fn, !.image = image, !.n = n]
  BY <1>2 DEF FramesOk
<1> QED
  BY <1>1, <1>3 DEF Frames

(* ... or a search that goes on                                              *)
LEMMA GoOnFrame ==
  ASSUME FramesOk, NEW t \in Threads, NEW i, GoOn(t, i)
  PROVE  /\ at'[t].phase = at[t].phase /\ at'[t].list = at[t].list
         /\ at'[t].mode = "scan" /\ at'[t].i = i
<1>1. at[t] \in Frames
  BY DEF FramesOk
<1>2. at'[t] = [at[t] EXCEPT !.mode = "scan", !.i = i]
  BY DEF GoOn, FramesOk
<1> QED
  BY <1>1, <1>2 DEF Frames

(* A loop that begins comes to every entry.                                  *)
LEMMA BeginsBefore ==
  ASSUME ImagesOk, NEW t \in Threads, at'[t].list = "objects", at'[t].mode = "scan",
         at'[t].i = 1, NEW k \in Kinds, NEW i \in DOMAIN images[k]
  PROVE  ComesTo(t, k, i)'
<1>1. 1 <= i
  BY DEF ImagesOk
<1> QED
  BY <1>1 DEF ComesTo, Before, Kinds

(* The functions for added images come before anything else.                 *)
LEMMA AddImagesHalf ==
  ASSUME TypeInv, HalfInv, NEW t \in Threads, AddImages(t)
  PROVE  HalfInv'
<1> DEFINE wanted == {e \in Entries(t) : e.state # "UNUSED" /\ ~e.registered}
           new == Hits(t, wanted)
           i == Min(new)
           e == [Here(t)[i] EXCEPT !.registered = TRUE]
<1>1. FramesOk /\ ImagesOk /\ at[t] \in Frames /\ at[t].phase = "add" /\ at[t].mode = "scan"
      /\ Local(t)
  BY LocalSteps DEF TypeInv, Typed, FramesOk, AddImages, At, In, Step
<1>2. ASSUME at'[t].phase = "add", NEW k, NEW j
      PROVE  KeepsHalf(t, k, j)
  BY <1>1, <1>2 DEF KeepsHalf, HalfWork
<1>3. CASE /\ new # {} /\ SetHere(t, i, e)
           /\ GoOn(t, i + 1) \/ \E f, im : CallOut(t, i, "add", f, im)
  <2>1. i \in DOMAIN Here(t) /\ Here(t)[i] \in EntryRecords /\ Here(t)[i] \in wanted
    BY <1>1, <1>3, FirstHit
  <2> HIDE DEF i
  <2>2. e \in EntryRecords /\ e.state = Here(t)[i].state /\ e.image = Here(t)[i].image
    BY <2>1 DEF EntryRecords
  <2>3. e.state # "UNUSED" => e.image \in Images
    BY <1>1, <2>1, <2>2 DEF TypeInv, UsedHaveImages, Here, Frames
  <2>4. at'[t].phase = "add"
    BY <1>1, <1>3, CallOutFrame, GoOnFrame
  <2> HIDE DEF e
  <2> QED
    BY <1>1, <1>2, <1>3, <2>1, <2>2, <2>3, <2>4, HalfSetHere DEF Local, Here
<1>4. CASE UNCHANGED images /\ NextList(t)
  BY <1>1, <1>2, <1>4, NextListStep, HalfQuiet DEF Local
<1>5. CASE UNCHANGED images /\ NextPhase(t, "link")
  <2>1. at'[t].phase = "link" /\ at'[t].list = "objects" /\ at'[t].mode = "scan"
        /\ at'[t].i = 1
    <3>1. "link" \in Phases
      BY DEF Phases
    <3> QED
      BY <1>1, <1>5, <3>1, NextPhaseStep
  <2>2. \A k \in Kinds : \A j \in DOMAIN images[k] : KeepsHalf(t, k, j)
    BY <1>1, <2>1, BeginsBefore DEF KeepsHalf, HalfWork
  <2> QED
    BY <1>1, <1>5, <2>2, HalfQuiet DEF Local
<1> QED
  BY <1>3, <1>4, <1>5 DEF AddImages

(* A search that goes on behind the entry it found still comes to the others *)
(* it looks for ...                                                          *)
LEMMA FoundKeeps ==
  ASSUME ImagesOk, FramesOk, NEW t \in Threads, NEW wanted, Hits(t, wanted) # {},
         at[t].mode = "scan", at'[t].list = at[t].list,
         NEW i \in Nat \ {0}, i = Min(Hits(t, wanted)),
         \/ at'[t].mode = "scan" /\ at'[t].i = i + 1
         \/ at'[t].mode = "call" /\ at'[t].i = i,
         NEW k \in Kinds, NEW j \in DOMAIN images[k], k # at[t].list \/ j # i,
         k = at[t].list => images[k][j] \in wanted, ComesTo(t, k, j)
  PROVE  ComesTo(t, k, j)'
<1>1. /\ i \in DOMAIN Here(t)
      /\ \A x \in DOMAIN Here(t) : at[t].i <= x /\ x < i => Here(t)[x] \notin wanted
  BY FirstHit
<1>2. j \in Nat
  BY DEF ImagesOk
<1>3. CASE at[t].list = "objects" /\ k = "libs"
  BY <1>3 DEF ComesTo, Before
<1>4. CASE at[t].list = k /\ at[t].i <= j
  <2>1. ~(j < i)
    BY <1>1, <1>4 DEF Here
  <2>2. i < j /\ i + 1 <= j
    BY <1>2, <1>4, <2>1
  <2> QED
    BY <1>4, <2>2 DEF ComesTo, Before
<1> QED
  BY <1>3, <1>4 DEF ComesTo, Before

(* ... and one that finds none has them in the other list.                   *)
LEMMA NotFoundKeeps ==
  ASSUME ImagesOk, FramesOk, NEW t \in Threads, NEW wanted, Hits(t, wanted) = {},
         at[t].mode = "scan",
         NEW k \in Kinds, NEW j \in DOMAIN images[k],
         k = at[t].list => images[k][j] \in wanted, ComesTo(t, k, j)
  PROVE  /\ at[t].list = "objects" /\ k = "libs"
         /\ at'[t].list = "libs" /\ at'[t].mode = "scan" /\ at'[t].i = 1 => ComesTo(t, k, j)'
<1>1. 1 <= j
  BY DEF ImagesOk
<1>2. k # at[t].list
  BY NoHit DEF ComesTo, Before, Here, Kinds
<1> QED
  BY <1>1, <1>2 DEF ComesTo, Before

(* A module gets from RELOCATED to REGISTERING where init will find it.      *)
LEMMA LinkModulesHalf ==
  ASSUME TypeInv, HalfInv, NEW t \in Threads, LinkModules(t)
  PROVE  HalfInv'
<1> DEFINE wanted == {e \in Entries(t) : e.state = "RELOCATED"}
           new == Hits(t, wanted)
           i == Min(new)
           e == Registering(Here(t)[i])
<1>1. FramesOk /\ ImagesOk /\ at[t] \in Frames /\ at[t].phase = "link" /\ at[t].mode = "scan"
      /\ Local(t)
  BY LocalSteps DEF TypeInv, Typed, FramesOk, LinkModules, At, In, Step
<1>a. \A k \in Kinds : \A j \in DOMAIN images[k] :
        k = at[t].list /\ images[k][j].state = "RELOCATED" => images[k][j] \in wanted
  BY DEF Entries, Here
<1>2. CASE /\ new # {} /\ SetHere(t, i, e)
           /\ GoOn(t, i + 1) \/ \E f, im : CallOut(t, i, "link", f, im)
  <2>1. i \in DOMAIN Here(t) /\ Here(t)[i] \in EntryRecords /\ Here(t)[i] \in wanted
        /\ i \in Nat \ {0}
    BY <1>1, <1>2, FirstHit
  <2>b. i = Min(new)
    OBVIOUS
  <2> HIDE DEF i
  <2>2. e \in EntryRecords /\ e.state = "REGISTERING" /\ e.image = Here(t)[i].image
        /\ Here(t)[i].state = "RELOCATED"
    BY <2>1 DEF EntryRecords, Registering, States
  <2>3. e.state # "UNUSED" => e.image \in Images
    BY <1>1, <2>1, <2>2 DEF TypeInv, UsedHaveImages, Here, Frames
  <2>4. at'[t].phase = "link" /\ at'[t].list = at[t].list
        /\ \/ at'[t].mode = "scan" /\ at'[t].i = i + 1
           \/ at'[t].mode = "call" /\ at'[t].i = i
    BY <1>1, <1>2, CallOutFrame, GoOnFrame
  <2> HIDE DEF e, wanted, new
  <2>5. ASSUME NEW k \in Kinds, NEW j \in DOMAIN images[k],
               k # at[t].list \/ j # i \/ e.state = images[k][j].state
        PROVE  KeepsHalf(t, k, j)
    <3>1. images[k][j].state = "RELOCATED" => k # at[t].list \/ j # i
      BY <2>2, <2>5
    <3>2. images[k][j].state = "RELOCATED" /\ ComesTo(t, k, j) => ComesTo(t, k, j)'
      BY <1>1, <1>2, <1>a, <2>1, <2>b, <2>4, <3>1, FoundKeeps DEF new
    <3> QED
      BY <1>1, <2>4, <3>2 DEF KeepsHalf, HalfWork
  <2>6. \A k \in Kinds : \A j \in DOMAIN images[k], state \in Half :
          k = at[t].list /\ j = i /\ e.state = state => HalfWork(t, k, j, state)'
    BY <2>2, <2>4 DEF HalfWork
  <2> QED
    BY <1>1, <1>2, <2>1, <2>2, <2>3, <2>5, <2>6, HalfSetHere DEF Local
<1>3. CASE new = {} /\ NextList(t) /\ UNCHANGED images
  <2>1. at'[t].phase = "link" /\ at'[t].list = "libs" /\ at'[t].mode = "scan" /\ at'[t].i = 1
    BY <1>1, <1>3, NextListStep
  <2>2. \A k \in Kinds : \A j \in DOMAIN images[k] : KeepsHalf(t, k, j)
    BY <1>1, <1>3, <1>a, <2>1, NotFoundKeeps DEF KeepsHalf, HalfWork
  <2> QED
    BY <1>1, <1>3, <2>2, HalfQuiet DEF Local
<1>4. CASE new = {} /\ NextPhase(t, "init") /\ UNCHANGED images
  <2>1. at'[t].phase = "init" /\ at'[t].list = "objects" /\ at'[t].mode = "scan"
        /\ at'[t].i = 1 /\ at[t].list = "libs"
    <3>1. "init" \in Phases
      BY DEF Phases
    <3> QED
      BY <1>1, <1>4, <3>1, NextPhaseStep
  <2>2. ASSUME NEW k \in Kinds, NEW j \in DOMAIN images[k]
        PROVE  KeepsHalf(t, k, j)
    <3>1. images[k][j].state = "RELOCATED" => ~ComesTo(t, k, j)
      BY <1>1, <1>4, <1>a, <2>1, NotFoundKeeps
    <3> QED
      BY <1>1, <2>1, <3>1, BeginsBefore DEF KeepsHalf, HalfWork
  <2> QED
    BY <1>1, <1>4, <2>2, HalfQuiet DEF Local
<1> QED
  BY <1>2, <1>3, <1>4 DEF LinkModules

(* The next function, or the search again                                    *)
LEMMA NextFunctionHalf ==
  ASSUME TypeInv, HalfInv, NEW t \in Threads, NextFunction(t)
  PROVE  HalfInv'
<1>1. FramesOk /\ ImagesOk /\ Local(t) /\ UNCHANGED images
      /\ at[t].phase \in {"add", "link"} /\ at[t].mode = "next"
  BY LocalSteps DEF TypeInv, Typed, Step, NextFunction, At, In
<1>2. GoOn(t, Again(t)) \/ \E k, f, im : CallOut(t, at[t].i, k, f, im)
  BY DEF NextFunction
<1>3. \A k \in Kinds : \A j \in DOMAIN images[k] : KeepsHalf(t, k, j)
  <2>1. CASE GoOn(t, Again(t))
    BY <1>1, <2>1, GoOnFrame, AgainKeepsHalf
  <2>2. CASE \E k, f, im : CallOut(t, at[t].i, k, f, im)
    BY <1>1, <2>2, CallOutFrame, CallKeepsHalf
  <2> QED
    BY <1>2, <2>1, <2>2
<1> QED
  BY <1>1, <1>3, HalfQuiet DEF Local

(* A module gets to INITIALIZING, with its thread there, or is LINKED.       *)
LEMMA InitModuleHalf ==
  ASSUME TypeInv, HalfInv, NEW t \in Threads, InitModule(t)
  PROVE  HalfInv'
<1> DEFINE wanted == {e \in Entries(t) : ToInitialise(t, e)}
           new == Hits(t, wanted)
           i == Min(new)
           o == Here(t)[i]
           begun == InitBegun(t, o)
<1>1. FramesOk /\ ImagesOk /\ at[t] \in Frames /\ at[t].phase \in {"init", "initDelayed"}
      /\ at[t].mode = "scan" /\ Local(t)
  BY LocalSteps DEF TypeInv, Typed, FramesOk, InitModule, At, In, Step
<1>2. new # {}
  BY DEF InitModule
<1>3. i \in DOMAIN Here(t) /\ o \in EntryRecords /\ o \in wanted /\ i \in Nat \ {0}
  BY <1>1, <1>2, FirstHit
<1>4. \/ SetHere(t, i, begun) /\ CallOut(t, i, "init", 1, o.image)
      \/ SetHere(t, i, InitEnded(begun)) /\ GoOn(t, i + 1)
  BY DEF InitModule
<1>a. \A k \in Kinds : \A j \in DOMAIN images[k] :
        k = at[t].list /\ images[k][j].state = "REGISTERING" => images[k][j] \in wanted
  BY DEF Entries, Here, ToInitialise
<1>b. i = Min(new)
  OBVIOUS
<1> HIDE DEF i, wanted, new
<1>5. /\ begun \in EntryRecords /\ InitEnded(begun) \in EntryRecords
      /\ o.state \in {"REGISTERING", "LINKED"}
      /\ begun.state = (IF o.state = "REGISTERING" THEN "INITIALIZING" ELSE "LINKED")
      /\ InitEnded(begun).state = "LINKED"
      /\ o.image \in Images /\ begun.image = o.image /\ InitEnded(begun).image = o.image
  <2>1. o.state \in {"REGISTERING", "LINKED"}
    BY <1>3 DEF ToInitialise, wanted
  <2>2. o.image \in Images
    BY <1>1, <1>3, <2>1 DEF TypeInv, UsedHaveImages, Here, Frames
  <2>3. CallsMade(t) \in BOOLEAN
    BY DEF CallsMade, MakingDelayed
  <2> HIDE DEF o
  <2> QED
    BY <1>3, <2>1, <2>2, <2>3 DEF InitBegun, InitEnded, EntryRecords, States
<1>6. ASSUME at'[t].phase = at[t].phase, at'[t].list = at[t].list,
             \/ at'[t].mode = "scan" /\ at'[t].i = i + 1
             \/ at'[t].mode = "call" /\ at'[t].i = i,
             NEW k \in Kinds, NEW j \in DOMAIN images[k],
             \/ k # at[t].list \/ j # i \/ images[k][j].state = "LINKED"
      PROVE  KeepsHalf(t, k, j)
  <2>1. images[k][j].state = "REGISTERING" /\ ComesTo(t, k, j) => ComesTo(t, k, j)'
    BY <1>1, <1>2, <1>3, <1>a, <1>b, <1>6, FoundKeeps DEF new
  <2> QED
    BY <1>1, <1>6, <2>1 DEF KeepsHalf, HalfWork
<1>c. \A k \in Kinds : \A j \in DOMAIN images[k] :
        k = at[t].list /\ j = i => images[k][j].state = o.state
  BY DEF Here
<1>7. CASE SetHere(t, i, begun) /\ CallOut(t, i, "init", 1, o.image)
  <2>1. at'[t].phase = at[t].phase /\ at'[t].list = at[t].list
        /\ at'[t].mode = "call" /\ at'[t].i = i
    BY <1>1, <1>7, CallOutFrame
  <2>2. \A k \in Kinds : \A j \in DOMAIN images[k] :
          k # at[t].list \/ j # i \/ begun.state = images[k][j].state => KeepsHalf(t, k, j)
    BY <1>5, <1>6, <1>c, <2>1
  <2>3. \A k \in Kinds : \A j \in DOMAIN images[k], state \in Half :
          k = at[t].list /\ j = i /\ begun.state = state => HalfWork(t, k, j, state)'
    BY <1>1, <1>5, <2>1 DEF HalfWork, Half
  <2> HIDE DEF begun, o
  <2> QED
    BY <1>1, <1>3, <1>5, <1>7, <2>2, <2>3, HalfSetHere DEF Local
<1>8. CASE SetHere(t, i, InitEnded(begun)) /\ GoOn(t, i + 1)
  <2> DEFINE e == InitEnded(begun)
  <2>1. at'[t].phase = at[t].phase /\ at'[t].list = at[t].list
        /\ at'[t].mode = "scan" /\ at'[t].i = i + 1
    BY <1>1, <1>8, GoOnFrame
  <2>2. \A k \in Kinds : \A j \in DOMAIN images[k] :
          k # at[t].list \/ j # i \/ e.state = images[k][j].state => KeepsHalf(t, k, j)
    BY <1>5, <1>6, <1>c, <2>1
  <2>3. \A state \in Half : e.state # state
    BY <1>5 DEF Half
  <2>4. e \in EntryRecords /\ e.image \in Images /\ SetHere(t, i, e)
    BY <1>5, <1>8
  <2> HIDE DEF e
  <2> QED
    BY <1>1, <1>3, <2>2, <2>3, <2>4, HalfSetHere DEF Local
<1> QED
  BY <1>4, <1>7, <1>8

(* The search for REGISTERING modules ends when there are none.              *)
LEMMA InitDoneHalf ==
  ASSUME TypeInv, HalfInv, NEW t \in Threads, InitDone(t)
  PROVE  HalfInv'
<1> DEFINE wanted == {e \in Entries(t) : ToInitialise(t, e)}
<1>1. FramesOk /\ ImagesOk /\ at[t].phase \in {"init", "initDelayed"} /\ at[t].mode = "scan"
      /\ Local(t) /\ UNCHANGED images /\ Hits(t, wanted) = {}
  BY LocalSteps DEF TypeInv, Typed, InitDone, At, In, Step
<1>2. \A k \in Kinds : \A j \in DOMAIN images[k] :
        k = at[t].list /\ images[k][j].state = "REGISTERING" => images[k][j] \in wanted
  BY DEF Entries, Here, ToInitialise
<1> HIDE DEF wanted
<1>3. ASSUME NEW k \in Kinds, NEW j \in DOMAIN images[k]
      PROVE  KeepsHalf(t, k, j)
  <2>1. CASE NextList(t)
    <3>1. at'[t].phase = at[t].phase /\ at'[t].list = "libs" /\ at'[t].mode = "scan"
          /\ at'[t].i = 1
      BY <1>1, <2>1, NextListStep
    <3> QED
      BY <1>1, <1>2, <3>1, NotFoundKeeps DEF KeepsHalf, HalfWork
  <2>2. CASE at[t].list = "libs"
    <3>1. images[k][j].state = "REGISTERING" => ~ComesTo(t, k, j)
      BY <1>1, <1>2, <2>2, NotFoundKeeps
    <3> QED
      BY <1>1, <3>1 DEF KeepsHalf, HalfWork
  <2> QED
    BY <2>1, <2>2 DEF InitDone
<1> QED
  BY <1>1, <1>3, HalfQuiet DEF Local

(* The next initialiser, or the module is LINKED.                            *)
LEMMA NextInitHalf ==
  ASSUME TypeInv, HalfInv, NEW t \in Threads, NextInit(t)
  PROVE  HalfInv'
<1> DEFINE i == at[t].i
           o == This(t)
           e == InitEnded(o)
<1>1. FramesOk /\ ImagesOk /\ at[t] \in Frames /\ FrameStands(t)
      /\ at[t].phase \in {"init", "initDelayed"} /\ at[t].mode = "next" /\ Local(t)
  BY LocalSteps DEF TypeInv, Typed, FramesOk, FramesStand, NextInit, At, In, Step
<1>2. \/ UNCHANGED images /\ \E f, im : CallOut(t, i, "init", f, im)
      \/ SetHere(t, i, e) /\ GoOn(t, IF MakingDelayed(t) THEN i + 1 ELSE Again(t))
  BY DEF NextInit
<1>3. CASE UNCHANGED images /\ \E f, im : CallOut(t, i, "init", f, im)
  <2>1. \A k \in Kinds : \A j \in DOMAIN images[k] : KeepsHalf(t, k, j)
    BY <1>1, <1>3, CallOutFrame, CallKeepsHalf
  <2> QED
    BY <1>1, <1>3, <2>1, HalfQuiet DEF Local
<1>4. CASE SetHere(t, i, e) /\ GoOn(t, IF MakingDelayed(t) THEN i + 1 ELSE Again(t))
  <2>1. i \in DOMAIN Here(t) /\ o = Here(t)[i] /\ o \in EntryRecords
        /\ (o.state # "UNUSED" => o.image \in Images)
    BY <1>1 DEF FrameStands, Here, This, ImagesOk, Frames, TypeInv, UsedHaveImages
  <2>2. /\ at'[t].phase = at[t].phase /\ at'[t].list = at[t].list /\ at'[t].mode = "scan"
        /\ at[t].phase # "initDelayed" => at'[t].i = Again(t)
    BY <1>1, <1>4, GoOnFrame DEF MakingDelayed
  <2> HIDE DEF o
  <2>3. /\ e \in EntryRecords /\ e.image = o.image /\ e.state # "INITIALIZING"
        /\ e.state = o.state \/ e.state = "LINKED"
    BY <2>1 DEF InitEnded, EntryRecords, States
  <2>4. e.state # "UNUSED" => e.image \in Images
    <3>1. CASE o.state = "INITIALIZING"
      BY <2>1, <2>3, <3>1
    <3>2. CASE o.state # "INITIALIZING"
      BY <2>1, <3>2 DEF InitEnded
    <3> QED
      BY <3>1, <3>2
  <2>5. \A k \in Kinds : \A j \in DOMAIN images[k] :
          k = at[t].list /\ j = i => images[k][j].state = o.state
    BY <2>1 DEF Here
  <2> HIDE DEF e
  <2>6. ASSUME NEW k \in Kinds, NEW j \in DOMAIN images[k],
               k # at[t].list \/ j # i \/ e.state = images[k][j].state
        PROVE  KeepsHalf(t, k, j)
    BY <1>1, <2>2, <2>3, <2>6, AgainKeepsHalf
  <2>7. \A k \in Kinds : \A j \in DOMAIN images[k], state \in Half :
          k = at[t].list /\ j = i /\ e.state = state => e.state = images[k][j].state
    BY <2>3, <2>5 DEF Half
  <2>8. SetHere(t, i, e)
    BY <1>4
  <2> HIDE DEF i
  <2> QED
    BY <1>1, <2>1, <2>3, <2>4, <2>6, <2>7, <2>8, HalfSetHere DEF Local
<1> QED
  BY <1>2, <1>3, <1>4

(* Linking begins where the thread will come to all of them.                 *)
LEMMA LinkModuleHalf ==
  ASSUME TypeInv, HalfInv, NEW t \in Threads, NEW b \in Bundles, LinkModule(t, b)
  PROVE  HalfInv'
<1>1. FramesOk /\ ImagesOk /\ Local(t)
  BY LocalSteps DEF TypeInv, Typed, Call
<1>2. ImagesOk' /\ \A k \in Kinds : \A i \in DOMAIN images'[k] : LinkedEntry(k, i, b)
  BY LinkModuleImages DEF LinkModule
<1>3. at[t].phase = "out" /\ at'[t].phase = "add"
  BY <1>1 DEF LinkModule, Enter, Out, FramesOk, Idle
<1> SUFFICES ASSUME NEW k \in Kinds, NEW i \in DOMAIN images'[k]
             PROVE  HalfAt(k, i)'
  BY DEF HalfInv
<1> DEFINE e == images'[k][i]
           o == images[k][i]
<1>4. LinkedEntry(k, i, b)
  BY <1>2
<1>5. i \in DOMAIN images[k] => o \in EntryRecords
  BY <1>1 DEF ImagesOk
<1>6. ASSUME e.state = "RELOCATED"
      PROVE  HalfAt(k, i)'
  BY <1>3, <1>6 DEF HalfAt, HalfWork
<1>7. CASE i \in DOMAIN images[k] /\ e = o
  BY <1>1, <1>3, <1>7, NoHalf, HalfKept DEF Local
<1>8. CASE i \in DOMAIN images[k] /\ e = [o EXCEPT !.image = b, !.state = "RELOCATED"]
  BY <1>5, <1>6, <1>8 DEF EntryRecords
<1>9. CASE i \in DOMAIN images[k] /\ e = [o EXCEPT !.state = "RELOCATED"]
  BY <1>5, <1>6, <1>9 DEF EntryRecords
<1>10. CASE \E im \in Images : e = Entry(im, "RELOCATED", FALSE)
  BY <1>6, <1>10 DEF Entry
<1> QED
  BY <1>4, <1>7, <1>8, <1>9, <1>10 DEF LinkedEntry

(* ... and so does binding.                                                  *)
LEMMA BindModuleHalf ==
  ASSUME TypeInv, HalfInv, NEW t \in Threads, NEW i \in DOMAIN images.libs, BindModule(t, i)
  PROVE  HalfInv'
<1>1. FramesOk /\ Local(t)
  BY LocalSteps DEF TypeInv, Typed, Call
<1>2. /\ images'["libs"][i] = [images.libs[i] EXCEPT !.state = "RELOCATED"]
      /\ \A k \in Kinds : DOMAIN images'[k] = DOMAIN images[k]
      /\ \A k \in Kinds : \A j \in DOMAIN images[k] :
           k # "libs" \/ j # i => images'[k][j] = images[k][j]
  BY BindModuleTyped
<1>3. at[t].phase = "out" /\ at'[t].phase = "add"
  BY <1>1 DEF BindModule, Enter, Out, FramesOk, Idle
<1> SUFFICES ASSUME NEW k \in Kinds, NEW j \in DOMAIN images[k]
             PROVE  HalfAt(k, j)'
  BY <1>2 DEF HalfInv
<1>4. CASE k = "libs" /\ j = i
  <2>1. images.libs[i] \in EntryRecords
    BY DEF TypeInv, Typed, ImagesOk, Kinds
  <2>2. images'[k][j].state = "RELOCATED"
    BY <1>2, <1>4, <2>1 DEF EntryRecords
  <2> QED
    BY <1>3, <2>2 DEF HalfAt, HalfWork
<1>5. CASE k # "libs" \/ j # i
  <2>1. images'[k][j].state = images[k][j].state
    BY <1>2, <1>5
  <2> QED
    BY <1>1, <1>3, <2>1, NoHalf, HalfKept DEF Local
<1> QED
  BY <1>4, <1>5

(* The other operations leave the states, or take the image away.            *)
LEMMA OthersHalf ==
  ASSUME TypeInv, HalfInv, NEW t \in Threads,
         \/ Walk(t) \/ Terminate(t) \/ RemoveImage(t) \/ ExitModules(t) \/ NextTerm(t)
         \/ Launch(t) \/ Exit(t) \/ RegisterRemove(t)
         \/ \E k \in DOMAIN Functions : Register(t, k)
         \/ \E i \in DOMAIN images.objects : UnlinkModule(t, i)
  PROVE  HalfInv'
<1>1. FramesOk /\ ImagesOk /\ at[t] \in Frames /\ FrameStands(t) /\ Local(t)
  BY LocalSteps DEF TypeInv, Typed, FramesOk, FramesStand, Step, Call
<1>2. at[t].phase \notin {"add", "link", "init", "initDelayed"}
  BY DEF Walk, Terminate, RemoveImage, ExitModules, NextTerm, Launch, Exit, RegisterRemove,
     Register, UnlinkModule, At, In, Enter, Out
<1>3. CASE UNCHANGED images
  BY <1>1, <1>2, <1>3, NoHalf, HalfQuiet DEF Local
<1>4. ASSUME NEW i \in DOMAIN Here(t), NEW e \in EntryRecords, SetHere(t, i, e),
             e.state # "UNUSED" => e.image \in Images,
             e.state = Here(t)[i].state \/ e.state = "UNUSED"
      PROVE  HalfInv'
  <2>1. \A k \in Kinds : \A j \in DOMAIN images[k], state \in Half :
          k = at[t].list /\ j = i /\ e.state = state => e.state = images[k][j].state
    BY <1>4 DEF Half, Here
  <2> QED
    BY <1>1, <1>2, <1>4, <2>1, NoHalf, HalfSetHere DEF Local
<1>5. CASE RemoveImage(t) /\ images' = [images EXCEPT !.objects[at[t].i] = Unused(@)]
  <2> DEFINE e == Unused(images.objects[at[t].i])
             i == at[t].i
  <2>1. e \in EntryRecords /\ e.state = "UNUSED"
    BY DEF Unused, Entry, EntryRecords, States
  <2>2. SetHere(t, i, e) /\ i \in DOMAIN Here(t)
    BY <1>1, <1>5 DEF SetHere, Here, FrameStands, RemoveImage, In
  <2> HIDE DEF e, i
  <2> QED
    BY <1>4, <2>1, <2>2
<1>6. CASE ExitModules(t)
  <2> DEFINE left == Hits(t, {e \in Entries(t) : ToBeTerminated(e)})
             i == Min(left)
             e == [Here(t)[i] EXCEPT !.termed = TRUE]
  <2>1. CASE left # {} /\ SetHere(t, i, e)
    <3>1. i \in DOMAIN Here(t) /\ Here(t)[i] \in EntryRecords
      BY <1>1, <2>1, FirstHit
    <3> HIDE DEF i, left
    <3>2. e \in EntryRecords /\ e.state = Here(t)[i].state /\ e.image = Here(t)[i].image
      BY <3>1 DEF EntryRecords
    <3>3. e.state # "UNUSED" => e.image \in Images
      BY <1>1, <3>1, <3>2 DEF TypeInv, UsedHaveImages, Here, Frames
    <3> HIDE DEF e
    <3> QED
      BY <1>4, <2>1, <3>1, <3>2, <3>3
  <2> QED
    BY <1>3, <1>6, <2>1 DEF ExitModules
<1> QED
  BY <1>3, <1>5, <1>6 DEF Walk, Terminate, RemoveImage, NextTerm, Launch, Exit, RegisterRemove,
     Register, UnlinkModule

(* At the start every module is UNLINKED or LINKED.                          *)
LEMMA InitHalf == Init => HalfInv
<1> SUFFICES ASSUME Init, NEW k \in Kinds, NEW i \in DOMAIN images[k]
             PROVE  images[k][i].state \notin Half
  BY DEF HalfInv, HalfAt
<1> QED
  BY DEF Init, Kinds, Entry, Half

(* Every step keeps it.                                                      *)
LEMMA NextHalf == TypeInv /\ HalfInv /\ [Next]_vars => HalfInv'
<1> SUFFICES ASSUME TypeInv, HalfInv, [Next]_vars PROVE HalfInv'
  OBVIOUS
<1>1. CASE UNCHANGED vars
  BY <1>1 DEF vars, HalfInv, HalfAt, HalfWork, ComesTo, Before
<1>2. ASSUME NEW t \in Threads, Call(t) PROVE HalfInv'
  BY <1>2, LinkModuleHalf, BindModuleHalf, OthersHalf DEF Call
<1>3. ASSUME NEW t \in Threads, Step(t) PROVE HalfInv'
  BY <1>3, ReturnHalf, AddImagesHalf, LinkModulesHalf, NextFunctionHalf, InitModuleHalf,
     InitDoneHalf, NextInitHalf, OthersHalf DEF Step
<1> QED
  BY <1>1, <1>2, <1>3 DEF Next, Stopped

(* It holds in every state.                                                  *)
LEMMA HalfInvHolds == Spec => [](TypeInv /\ HalfInv)
<1>1. Init => TypeInv /\ HalfInv
  BY InitTyped, InitHalf
<1>2. (TypeInv /\ HalfInv) /\ [Next]_vars => (TypeInv /\ HalfInv)'
  BY NextTyped, NextHalf
<1> QED
  BY <1>1, <1>2, PTL DEF Spec

(* With no thread at work, no module is half linked.                         *)
LEMMA HalfInvShows == TypeInv /\ HalfInv => NothingHalfLinked
<1> SUFFICES ASSUME TypeInv, HalfInv, AllOut, NEW e \in Loaded
             PROVE  e.state \in {"UNLINKED", "LINKED"}
  BY DEF NothingHalfLinked
<1>1. PICK k \in Kinds : \E i \in DOMAIN images[k] : e = images[k][i] /\ e.state # "UNUSED"
  BY DEF Loaded
<1>2. PICK i \in DOMAIN images[k] : e = images[k][i] /\ e.state # "UNUSED"
  BY <1>1
<1>3. e.state \in States
  <2>1. e \in EntryRecords
    BY <1>2 DEF TypeInv, Typed, ImagesOk
  <2> QED
    BY <2>1 DEF EntryRecords
<1>4. e.state \notin Half
  BY <1>2 DEF HalfInv, HalfAt, HalfWork, AllOut, Out
<1> QED
  BY <1>2, <1>3, <1>4 DEF States, Half

(* When no thread is in the dynamic linker no module is half linked, the     *)
(* lock given up around each call or not.                                    *)
THEOREM NothingIsHalfLinked == Spec => []NothingHalfLinked
BY HalfInvHolds, HalfInvShows, PTL
-----------------------------------------------------------------------------
(* Initialisers *)

(* A search stays in its loop.                                               *)
LEMMA SamePhase ==
  ASSUME FramesOk, NEW t \in Threads,
         \/ \E i, kind, fn, image : CallOut(t, i, kind, fn, image)
         \/ \E i : GoOn(t, i)
         \/ NextList(t)
  PROVE  at'[t].phase = at[t].phase
BY CallOutFrame, GoOnFrame, NextListStep

(* The delayed initialisers are called by a thread that was launched.        *)
LEMMA NewPhases ==
  ASSUME TypeInv, NEW t \in Threads, Call(t) \/ Step(t)
  PROVE  at'[t].phase = "initDelayed" => at[t].phase = "initDelayed" \/ Launch(t)
<1>1. FramesOk /\ at[t] \in Frames
  BY DEF TypeInv, Typed, FramesOk
<1>2. ASSUME NEW phase \in {"link", "init", "exit"}, NextPhase(t, phase)
      PROVE  at'[t].phase # "initDelayed"
  <2>1. phase \in Phases
    BY DEF Phases
  <2> QED
    BY <1>1, <1>2, <2>1, NextPhaseStep
<1>3. Leave(t) => at'[t].phase # "initDelayed"
  BY <1>1, LeaveStep DEF Idle
<1>4. CASE Call(t)
  <2>1. ASSUME NEW b \in Bundles, LinkModule(t, b) PROVE at'[t].phase = "add"
    BY <1>1, <2>1 DEF LinkModule, Enter, FramesOk, Idle
  <2>2. ASSUME NEW i \in DOMAIN images.libs, BindModule(t, i) PROVE at'[t].phase = "add"
    BY <1>1, <2>2 DEF BindModule, Enter, FramesOk, Idle
  <2>3. ASSUME NEW k \in DOMAIN Functions, Register(t, k)
        PROVE  at'[t].phase \in {"walkAdd", "walkLink"}
    BY <1>1, <2>3 DEF Register, Enter, FramesOk, Idle
  <2>4. RegisterRemove(t) => at'[t].phase = at[t].phase
    BY DEF RegisterRemove
  <2>5. ASSUME NEW i \in DOMAIN images.objects, UnlinkModule(t, i)
        PROVE  at'[t].phase = "terminate"
    BY <1>1, <2>5 DEF UnlinkModule, Enter, FramesOk, Idle
  <2>6. Exit(t) => at'[t].phase = "exit"
    BY <1>1 DEF Exit, Enter, FramesOk, Idle
  <2> QED
    BY <1>4, <2>1, <2>2, <2>3, <2>4, <2>5, <2>6 DEF Call
<1>5. CASE Step(t)
  <2>1. Return(t) => at'[t].phase = at[t].phase
    BY <1>1 DEF Return, FramesOk, Frames
  <2>2. Walk(t) \/ NextFunction(t) \/ InitModule(t) \/ InitDone(t) \/ NextInit(t) \/ NextTerm(t)
          => at'[t].phase = at[t].phase \/ at'[t].phase # "initDelayed"
    BY <1>1, <1>3, SamePhase DEF Walk, NextFunction, InitModule, InitDone, NextInit, NextTerm
  <2>3. AddImages(t) \/ LinkModules(t) \/ ExitModules(t)
          => at'[t].phase = at[t].phase \/ at'[t].phase # "initDelayed"
    BY <1>1, <1>2, <1>3, SamePhase DEF AddImages, LinkModules, ExitModules
  <2>4. Terminate(t) => at'[t].phase = at[t].phase \/ at'[t].phase = "remove"
    <3>1. at' = [at EXCEPT ![t].phase = "remove", ![t].mode = "scan"] => at'[t].phase = "remove"
      BY <1>1 DEF FramesOk, Frames
    <3> QED
      BY <1>1, <3>1, SamePhase DEF Terminate
  <2>5. RemoveImage(t) => at'[t].phase = at[t].phase \/ at'[t].phase # "initDelayed"
    BY <1>1, <1>3, SamePhase DEF RemoveImage
  <2> QED
    BY <1>5, <2>1, <2>2, <2>3, <2>4, <2>5 DEF Step
<1> QED
  BY <1>4, <1>5

(* The launch ends when that thread leaves, and does not begin again.        *)
LEMMA DelayEnds ==
  ASSUME TypeInv, NEW t \in Threads, Call(t) \/ Step(t)
  PROVE  \/ delayModInit' = delayModInit
         \/ /\ InitDone(t) /\ at[t].phase = "initDelayed" /\ delayModInit' = FALSE
            /\ Leave(t)
BY DEF Call, Step, LinkModule, BindModule, Register, RegisterRemove, Launch, UnlinkModule, Exit,
   Return, Walk, AddImages, LinkModules, NextFunction, InitModule, InitDone, NextInit,
   Terminate, RemoveImage, ExitModules, NextTerm, MakingDelayed, TypeInv, Typed, RestOk

(* When the program links only after the launch, the launch finds what Init  *)
(* left, and nothing else.                                                   *)
LEMMA LaunchStep ==
  ASSUME ~CallsDuringLaunch, TypeInv, LaunchInv, NEW t \in Threads, Call(t) \/ Step(t)
  PROVE  LaunchInv'
<1>1. FramesOk /\ ImagesOk /\ at[t] \in Frames /\ FrameStands(t) /\ Local(t)
      /\ delayModInit \in BOOLEAN
  BY LocalSteps DEF TypeInv, Typed, FramesOk, FramesStand, RestOk
<1>2. CASE ~delayModInit
  <2>1. ~delayModInit'
    BY <1>2, DelayEnds
  <2>2. ~Launch(t)
    BY <1>2 DEF Launch
  <2>3. \A u \in Threads : at'[u].phase # "initDelayed"
    BY <1>1, <1>2, <2>2, NewPhases DEF LaunchInv, Local
  <2> QED
    BY <2>1, <2>3 DEF LaunchInv
<1>3. CASE delayModInit
  <2>1. usable = {} /\ at[t].phase \in {"out", "initDelayed", "walkAdd", "walkLink"}
        /\ \A k \in Kinds : \A i \in DOMAIN images[k] :
             images[k][i].state \in {"UNLINKED", "LINKED", "UNUSED"}
    BY <1>3 DEF LaunchInv
  \* one thread makes the delayed calls, while they are delayed
  <2>2. \A u, w \in Threads :
          at'[u].phase = "initDelayed" /\ at'[w].phase = "initDelayed" => u = w
    <3> SUFFICES ASSUME NEW u \in Threads, NEW w \in Threads, u # w,
                        at'[u].phase = "initDelayed", at'[w].phase = "initDelayed"
                 PROVE  FALSE
      OBVIOUS
    <3>1. CASE Launch(t)
      BY <1>1, <3>1 DEF Launch, MakingDelayed, Local
    <3>2. CASE ~Launch(t)
      BY <1>1, <3>2, NewPhases DEF LaunchInv, Local
    <3> QED
      BY <3>1, <3>2
  <2>3. \A u \in Threads : at'[u].phase = "initDelayed" => delayModInit'
    <3>1. CASE delayModInit' = delayModInit
      BY <1>3, <3>1
    <3>2. CASE at[t].phase = "initDelayed" /\ Leave(t)
      <4>1. at'[t].phase # "initDelayed"
        BY <1>1, <3>2, LeaveStep DEF Idle
      <4> QED
        BY <1>1, <3>2, <4>1 DEF LaunchInv, Local
    <3> QED
      BY <3>1, <3>2, DelayEnds
  \* what can happen meanwhile
  <2>4. \/ \E k \in DOMAIN Functions : Register(t, k)
        \/ RegisterRemove(t) \/ Launch(t) \/ Return(t) \/ Walk(t)
        \/ InitModule(t) \/ InitDone(t) \/ NextInit(t)
    <3>1. ~\E b \in Bundles : LinkModule(t, b)
      BY <1>3 DEF LinkModule, MayLink
    <3>2. ~\E i \in DOMAIN images.libs : BindModule(t, i)
      BY <1>3 DEF BindModule, MayLink
    <3>3. ~\E i \in DOMAIN images.objects : UnlinkModule(t, i)
      BY <2>1 DEF UnlinkModule
    <3>4. ~Exit(t) /\ ~AddImages(t) /\ ~LinkModules(t) /\ ~NextFunction(t) /\ ~Terminate(t)
          /\ ~RemoveImage(t) /\ ~ExitModules(t) /\ ~NextTerm(t)
      BY <1>3, <2>1 DEF Exit, AddImages, LinkModules, NextFunction, Terminate, RemoveImage,
         ExitModules, NextTerm, At, In
    <3> QED
      BY <3>1, <3>2, <3>3, <3>4 DEF Call, Step
  <2>5. at'[t].phase \in {"out", "initDelayed", "walkAdd", "walkLink"}
    <3>1. Leave(t) => at'[t].phase = "out"
      BY <1>1, LeaveStep DEF Idle
    <3>2. ASSUME NEW k \in DOMAIN Functions, Register(t, k)
          PROVE  at'[t].phase \in {"walkAdd", "walkLink"}
      BY <1>1, <3>2 DEF Register, Enter, FramesOk, Idle
    <3>3. Launch(t) => at'[t].phase = "initDelayed"
      BY <1>1 DEF Launch, Enter, FramesOk, Idle
    <3>4. RegisterRemove(t) \/ Return(t) => at'[t].phase = at[t].phase
      BY <1>1 DEF RegisterRemove, Return, FramesOk, Frames
    <3>5. Walk(t) \/ InitModule(t) \/ InitDone(t) \/ NextInit(t)
            => at'[t].phase = at[t].phase \/ at'[t].phase = "out"
      BY <1>1, <3>1, SamePhase DEF Walk, InitModule, InitDone, NextInit
    <3> QED
      BY <2>1, <2>4, <3>2, <3>3, <3>4, <3>5
  <2>6. \A u \in Threads : at'[u].phase \in {"out", "initDelayed", "walkAdd", "walkLink"}
    BY <1>1, <1>3, <2>5 DEF LaunchInv, Local
  <2>7. at[t].phase # "init"
    BY <2>1
  <2>8. usable' = {}
    <3>1. CASE InitDone(t)
      <4>1. at[t].module = None
        BY <1>1, <2>7, <3>1 DEF FrameStands, InitDone, At, In
      <4> QED
        BY <2>1, <3>1, <4>1 DEF InitDone
    <3>2. CASE ~InitDone(t)
      BY <2>1, <2>4, <3>2 DEF Register, RegisterRemove, Launch, Return, Walk, InitModule,
         NextInit, callVars
    <3> QED
      BY <3>1, <3>2
  <2>9. \A k \in Kinds : \A i \in DOMAIN images'[k] :
          images'[k][i].state \in {"UNLINKED", "LINKED", "UNUSED"}
    <3>1. CASE UNCHANGED images
      BY <2>1, <3>1
    <3>2. ASSUME NEW i \in DOMAIN Here(t), NEW e \in EntryRecords, SetHere(t, i, e),
                 e.state \in {"UNLINKED", "LINKED", "UNUSED"},
                 e.state # "UNUSED" => e.image \in Images
          PROVE  \A k \in Kinds : \A j \in DOMAIN images'[k] :
                   images'[k][j].state \in {"UNLINKED", "LINKED", "UNUSED"}
      <4>1. /\ \A q \in Kinds : DOMAIN images'[q] = DOMAIN images[q]
            /\ images'[at[t].list][i] = e
            /\ \A q \in Kinds : \A j \in DOMAIN images[q] :
                 q # at[t].list \/ j # i => images'[q][j] = images[q][j]
        BY <3>2, OtherEntry
      <4> SUFFICES ASSUME NEW k \in Kinds, NEW j \in DOMAIN images[k]
                   PROVE  images'[k][j].state \in {"UNLINKED", "LINKED", "UNUSED"}
        BY <4>1
      <4>2. CASE k = at[t].list /\ j = i
        BY <3>2, <4>1, <4>2
      <4>3. CASE k # at[t].list \/ j # i
        BY <2>1, <4>1, <4>3
      <4> QED
        BY <4>2, <4>3
    <3>3. CASE InitModule(t)
      <4> DEFINE wanted == {e \in Entries(t) : ToInitialise(t, e)}
                 i == Min(Hits(t, wanted))
                 o == Here(t)[i]
                 begun == InitBegun(t, o)
      <4>1. SetHere(t, i, begun) \/ SetHere(t, i, InitEnded(begun))
        BY <3>3 DEF InitModule
      <4>2. Hits(t, wanted) # {}
        BY <3>3 DEF InitModule
      <4>3. i \in DOMAIN Here(t) /\ o \in EntryRecords /\ o \in wanted
        BY <1>1, <4>2, FirstHit
      <4> HIDE DEF i
      <4>4. at[t].list \in Kinds
        BY <1>1 DEF Frames
      <4>5. o.state = "LINKED"
        <5>1. o.state \in {"UNLINKED", "LINKED", "UNUSED"}
          BY <2>1, <4>3, <4>4 DEF Here
        <5> QED
          BY <4>3, <5>1 DEF ToInitialise
      <4>6. o.image \in Images
        BY <4>3, <4>4, <4>5 DEF TypeInv, UsedHaveImages, Here
      <4>7. CallsMade(t) \in BOOLEAN
        BY DEF CallsMade, MakingDelayed
      <4> HIDE DEF o, wanted
      <4>8. /\ begun \in EntryRecords /\ begun.state = "LINKED" /\ begun.image = o.image
            /\ InitEnded(begun) = begun
        BY <4>3, <4>5, <4>7 DEF InitBegun, InitEnded, EntryRecords, States
      <4> HIDE DEF begun
      <4> QED
        BY <3>2, <4>1, <4>3, <4>6, <4>8
    <3>4. CASE NextInit(t) /\ ~UNCHANGED images
      <4> DEFINE i == at[t].i
                 o == This(t)
      <4>1. SetHere(t, i, InitEnded(o)) /\ at[t].mode = "next"
        BY <3>4 DEF NextInit, At
      <4>2. i \in DOMAIN Here(t) /\ o = Here(t)[i] /\ at[t].list \in Kinds
        BY <1>1, <4>1 DEF FrameStands, Here, This, Frames
      <4>3. o \in EntryRecords /\ o.state \in {"UNLINKED", "LINKED", "UNUSED"}
            /\ (o.state # "UNUSED" => o.image \in Images)
        BY <1>1, <2>1, <4>2 DEF Here, ImagesOk, TypeInv, UsedHaveImages
      <4>4. InitEnded(o) = o
        BY <4>3 DEF InitEnded
      <4> HIDE DEF i, o
      <4> QED
        BY <3>2, <4>1, <4>2, <4>3, <4>4
    <3> QED
      BY <2>4, <3>1, <3>3, <3>4 DEF Register, RegisterRemove, Launch, Return, Walk, InitDone
  <2> QED
    BY <2>2, <2>3, <2>6, <2>8, <2>9 DEF LaunchInv
<1> QED
  BY <1>1, <1>2, <1>3

KeepsInit(t, k, i) ==
  \A n \in Nat, im \in Images :
    images[k][i].image = im /\ InitWork(t, n, k, i)
      => <<"init", n, im>> \in DOMAIN calls' \/ InitWork(t, n, k, i)'

(* An entry of the same image owes no more, and t keeps its work.            *)
LEMMA CallsKept ==
  ASSUME TypeInv, CallsInv, NEW t \in Threads, Local(t),
         NEW k \in Kinds, NEW i \in DOMAIN images[k],
         images'[k][i].image = images[k][i].image,
         images'[k][i].state # "UNUSED", images[k][i].state # "UNUSED",
         Owes(k, i)' => Owes(k, i), KeepsInit(t, k, i)
  PROVE  CallsAt(k, i)'
<1> DEFINE im == images[k][i].image
<1>1. im \in Images
  BY DEF TypeInv, UsedHaveImages
<1> SUFFICES ASSUME Owes(k, i)', NEW x \in Images, x = im, NEW n \in 1 .. Routines[x]
             PROVE  InitialisedOrPending(n, x, k, i)'
  <2>1. ASSUME NEW n \in 1 .. Routines[images'[k][i].image], Owes(k, i)'
        PROVE  InitialisedOrPending(n, images[k][i].image, k, i)'
    <3>1. \E x \in Images : x = im /\ InitialisedOrPending(n, x, k, i)'
      BY <1>1, <2>1
    <3> QED
      BY <3>1 DEF InitialisedOrPending
  <2> QED
    BY <2>1 DEF CallsAt
<1>2. n \in Nat
  BY CalloutsAssumption
<1>3. InitialisedOrPending(n, x, k, i)
  BY DEF CallsInv, CallsAt
<1>4. CASE <<"init", n, x>> \in DOMAIN calls
  BY <1>4 DEF InitialisedOrPending, Local
<1>5. ASSUME NEW u \in Threads, InitWork(u, n, k, i)
      PROVE  InitialisedOrPending(n, x, k, i)'
  <2>1. CASE u = t
    BY <1>2, <1>5, <2>1 DEF KeepsInit, InitialisedOrPending
  <2>2. CASE u # t
    <3>1. InitWork(u, n, k, i)'
      BY <1>5, <2>2 DEF InitWork, Local
    <3> QED
      BY <3>1 DEF InitialisedOrPending
  <2> QED
    BY <2>1, <2>2
<1> QED
  BY <1>3, <1>4, <1>5 DEF InitialisedOrPending

(* An entry that is UNUSED stays so, or its image is new and owes nothing.   *)
LEMMA CallsNew ==
  ASSUME NEW k, NEW i, ~images'[k][i].inited,
         images'[k][i].state \notin {"LINKED", "INITIALIZING"}
  PROVE  CallsAt(k, i)'
BY DEF CallsAt, Owes

(* An entry nothing has happened to, and no thread has passed meanwhile      *)
NotPassed(t, k, i) ==
  /\ delayModInit' = delayModInit
  /\ at'[t].phase = "initDelayed" /\ ~Before(t, k, i)'
       => at[t].phase = "initDelayed" /\ ~Before(t, k, i)

(* ... was passed before if it is passed now.                                *)
LEMMA PassedKept ==
  ASSUME NEW t \in Threads, Local(t), NEW k, NEW i, NotPassed(t, k, i), Passed(k, i)'
  PROVE  Passed(k, i)
<1>1. ASSUME NEW u \in Threads, at'[u].phase = "initDelayed", ~Before(u, k, i)'
      PROVE  at[u].phase = "initDelayed" /\ ~Before(u, k, i)
  <2>1. CASE u = t
    BY <1>1, <2>1 DEF NotPassed
  <2>2. CASE u # t
    BY <1>1, <2>2 DEF Local, Before
  <2> QED
    BY <2>1, <2>2
<1> QED
  BY <1>1 DEF Passed, NotPassed

SameForCalls(e, o) ==
  /\ e.image = o.image /\ e.inited = o.inited
  /\ e.state = "UNUSED" <=> o.state = "UNUSED"
  /\ e.state \in {"LINKED", "INITIALIZING"} => o.state \in {"LINKED", "INITIALIZING"}

\* It makes no difference when an entry is passed that is not linked.
LEMMA CallsSame ==
  ASSUME TypeInv, CallsInv, NEW t \in Threads, Local(t),
         NEW k \in Kinds, NEW i \in DOMAIN images[k],
         SameForCalls(images'[k][i], images[k][i]),
         \/ Passed(k, i)' => Passed(k, i)
         \/ images'[k][i].state \notin {"LINKED", "INITIALIZING"},
         KeepsInit(t, k, i)
  PROVE  CallsAt(k, i)'
<1>1. CASE images[k][i].state = "UNUSED"
  <2>1. ~images[k][i].inited /\ images'[k][i].state = "UNUSED" /\ ~images'[k][i].inited
    BY <1>1 DEF CallsInv, CallsAt, SameForCalls
  <2> QED
    BY <2>1, CallsNew
<1>2. CASE images[k][i].state # "UNUSED"
  <2>1. Owes(k, i)' => Owes(k, i)
    <3>1. images'[k][i].inited => images[k][i].inited
      BY DEF SameForCalls
    <3>2. images'[k][i].state \in {"LINKED", "INITIALIZING"} /\ Passed(k, i)'
            => images[k][i].state \in {"LINKED", "INITIALIZING"} /\ Passed(k, i)
      BY DEF SameForCalls
    <3> QED
      BY <3>1, <3>2 DEF Owes
  <2> QED
    BY <1>2, <2>1, CallsKept DEF SameForCalls
<1> QED
  BY <1>1, <1>2

(* A step of a loop that calls no initialisers                               *)
NotInit(t) ==
  /\ at[t].phase \notin {"init", "initDelayed"}
  /\ at'[t].phase # "initDelayed" \/ (at'[t].list = "objects" /\ at'[t].mode = "scan" /\ at'[t].i = 1)
  /\ delayModInit' = delayModInit

(* ... which keeps what it owes, when it is of the same image.               *)
LEMMA CallsElsewhere ==
  ASSUME TypeInv, CallsInv, NEW t \in Threads, Local(t), NotInit(t),
         NEW k \in Kinds, NEW i \in DOMAIN images[k],
         SameForCalls(images'[k][i], images[k][i])
  PROVE  CallsAt(k, i)'
<1>1. 1 <= i
  BY DEF TypeInv, Typed, ImagesOk
<1>2. KeepsInit(t, k, i)
  BY DEF KeepsInit, InitWork, NotInit
<1>3. NotPassed(t, k, i)
  BY <1>1 DEF NotPassed, NotInit, Before, Kinds
<1> QED
  BY <1>2, <1>3, PassedKept, CallsSame

(* Every step of another loop, and every operation that begins, is one.      *)
LEMMA StepsElsewhere ==
  ASSUME TypeInv, NEW t \in Threads, Call(t) \/ Step(t),
         at[t].phase \notin {"init", "initDelayed"}
  PROVE  NotInit(t)
<1>1. FramesOk /\ delayModInit' = delayModInit
  BY DelayEnds DEF TypeInv, Typed
<1>2. CASE Launch(t)
  BY <1>1, <1>2 DEF Launch, Enter, FramesOk, Idle, NotInit
<1>3. CASE ~Launch(t)
  BY <1>1, <1>3, NewPhases DEF NotInit
<1> QED
  BY <1>2, <1>3

(* ... and changes nothing here, if it changes the entries' other bits only. *)
LEMMA CallsQuiet ==
  ASSUME TypeInv, CallsInv, NEW t \in Threads, Local(t), NotInit(t),
         \A k \in Kinds : DOMAIN images'[k] = DOMAIN images[k],
         \A k \in Kinds : \A i \in DOMAIN images[k] :
           SameForCalls(images'[k][i], images[k][i])
  PROVE  CallsInv'
<1> SUFFICES ASSUME NEW k \in Kinds, NEW i \in DOMAIN images[k]
             PROVE  CallsAt(k, i)'
  BY DEF CallsInv
<1> QED
  BY CallsElsewhere

(* ... or one entry changes, and is the same for the calls or owes nothing.  *)
LEMMA CallsSetHere ==
  ASSUME TypeInv, CallsInv, NEW t \in Threads, Local(t), NotInit(t),
         NEW i \in DOMAIN Here(t), NEW e \in EntryRecords, SetHere(t, i, e),
         e.state # "UNUSED" => e.image \in Images,
         \/ SameForCalls(e, Here(t)[i])
         \/ ~e.inited /\ e.state \notin {"LINKED", "INITIALIZING"}
  PROVE  CallsInv'
<1>1. /\ \A q \in Kinds : DOMAIN images'[q] = DOMAIN images[q]
      /\ images'[at[t].list][i] = e
      /\ \A q \in Kinds : \A j \in DOMAIN images[q] :
           q # at[t].list \/ j # i => images'[q][j] = images[q][j]
  BY OtherEntry
<1> SUFFICES ASSUME NEW k \in Kinds, NEW j \in DOMAIN images[k]
             PROVE  CallsAt(k, j)'
  BY <1>1 DEF CallsInv
<1>2. CASE k # at[t].list \/ j # i
  <2>1. SameForCalls(images'[k][j], images[k][j])
    BY <1>1, <1>2 DEF SameForCalls
  <2> QED
    BY <2>1, CallsElsewhere
<1>3. CASE k = at[t].list /\ j = i /\ SameForCalls(e, Here(t)[i])
  <2>1. SameForCalls(images'[k][j], images[k][j])
    BY <1>1, <1>3 DEF Here
  <2> QED
    BY <2>1, CallsElsewhere
<1>4. CASE k = at[t].list /\ j = i /\ ~e.inited /\ e.state \notin {"LINKED", "INITIALIZING"}
  BY <1>1, <1>4, CallsNew
<1> QED
  BY <1>2, <1>3, <1>4

(* Linking takes a module to RELOCATED, where it owes nothing.               *)
LEMMA LinkModuleCalls ==
  ASSUME TypeInv, CallsInv, NEW t \in Threads, NEW b \in Bundles, LinkModule(t, b)
  PROVE  CallsInv'
<1>1. ImagesOk /\ Local(t)
  BY LocalSteps DEF TypeInv, Typed, Call
<1>2. ImagesOk' /\ \A k \in Kinds : \A i \in DOMAIN images'[k] : LinkedEntry(k, i, b)
  BY LinkModuleImages DEF LinkModule
<1>3. NotInit(t)
  <2>1. at[t].phase = "out"
    BY DEF LinkModule, Enter, Out
  <2> QED
    BY <2>1, StepsElsewhere DEF Call
<1> SUFFICES ASSUME NEW k \in Kinds, NEW i \in DOMAIN images'[k]
             PROVE  CallsAt(k, i)'
  BY DEF CallsInv
<1> DEFINE e == images'[k][i]
           o == images[k][i]
<1>4. LinkedEntry(k, i, b)
  BY <1>2
<1>5. i \in DOMAIN images[k] => o \in EntryRecords
  BY <1>1 DEF ImagesOk
<1>6. CASE i \in DOMAIN images[k] /\ e = o
  <2>1. SameForCalls(e, o)
    BY <1>6 DEF SameForCalls
  <2> QED
    BY <1>1, <1>3, <1>6, <2>1, CallsElsewhere
<1>7. CASE i \in DOMAIN images[k] /\ o.state = "UNUSED"
           /\ e = [o EXCEPT !.image = b, !.state = "RELOCATED"]
  <2>1. ~o.inited
    BY <1>7 DEF CallsInv, CallsAt
  <2>2. ~e.inited /\ e.state = "RELOCATED"
    BY <1>5, <1>7, <2>1 DEF EntryRecords
  <2> QED
    BY <2>2, CallsNew
<1>8. CASE i \in DOMAIN images[k] /\ o.state = "UNLINKED" /\ e = [o EXCEPT !.state = "RELOCATED"]
  <2>1. SameForCalls(e, o)
    BY <1>5, <1>8 DEF EntryRecords, SameForCalls
  <2> QED
    BY <1>1, <1>3, <1>8, <2>1, CallsElsewhere
<1>9. CASE \E im \in Images : e = Entry(im, "RELOCATED", FALSE)
  <2>1. ~e.inited /\ e.state = "RELOCATED"
    BY <1>9 DEF Entry
  <2> QED
    BY <2>1, CallsNew
<1> QED
  BY <1>4, <1>6, <1>7, <1>8, <1>9 DEF LinkedEntry

(* ... and so does the binding of a library's module.                        *)
LEMMA BindModuleCalls ==
  ASSUME TypeInv, CallsInv, NEW t \in Threads, NEW i \in DOMAIN images.libs, BindModule(t, i)
  PROVE  CallsInv'
<1>1. Local(t)
  BY LocalSteps DEF Call
<1>2. NotInit(t)
  <2>1. at[t].phase = "out"
    BY DEF BindModule, Enter, Out
  <2> QED
    BY <2>1, StepsElsewhere DEF Call
<1>3. /\ images.libs[i].state = "UNLINKED"
      /\ images'["libs"][i] = [images.libs[i] EXCEPT !.state = "RELOCATED"]
      /\ \A k \in Kinds : DOMAIN images'[k] = DOMAIN images[k]
      /\ \A k \in Kinds : \A j \in DOMAIN images[k] :
           k # "libs" \/ j # i => images'[k][j] = images[k][j]
  BY BindModuleTyped
<1>4. images.libs[i] \in EntryRecords
  BY DEF TypeInv, Typed, ImagesOk, Kinds
<1>5. ASSUME NEW k \in Kinds, NEW j \in DOMAIN images[k]
      PROVE  SameForCalls(images'[k][j], images[k][j])
  <2>1. CASE k = "libs" /\ j = i
    BY <1>3, <1>4, <2>1 DEF EntryRecords, SameForCalls
  <2>2. CASE k # "libs" \/ j # i
    BY <1>3, <2>2 DEF SameForCalls
  <2> QED
    BY <2>1, <2>2
<1> QED
  BY <1>1, <1>2, <1>3, <1>5, CallsQuiet

(* The other loops leave what an entry owes, or take its image away.         *)
LEMMA OthersCall ==
  ASSUME TypeInv, CallsInv, NEW t \in Threads,
         \/ Return(t) /\ at[t].phase \notin {"init", "initDelayed"}
         \/ Walk(t) \/ AddImages(t) \/ LinkModules(t) \/ NextFunction(t)
         \/ Terminate(t) \/ RemoveImage(t) \/ ExitModules(t) \/ NextTerm(t)
         \/ Launch(t) \/ Exit(t) \/ RegisterRemove(t)
         \/ \E k \in DOMAIN Functions : Register(t, k)
         \/ \E i \in DOMAIN images.objects : UnlinkModule(t, i)
  PROVE  CallsInv'
<1>1. FramesOk /\ ImagesOk /\ at[t] \in Frames /\ FrameStands(t) /\ Local(t)
  BY LocalSteps DEF TypeInv, Typed, FramesOk, FramesStand, Step, Call
<1>2. NotInit(t)
  <2>1. at[t].phase \notin {"init", "initDelayed"}
    BY DEF Walk, AddImages, LinkModules, NextFunction, Terminate, RemoveImage, ExitModules,
       NextTerm, Launch, Exit, RegisterRemove, Register, UnlinkModule, At, In, Enter, Out
  <2> QED
    BY <2>1, StepsElsewhere DEF Step, Call
<1>3. CASE UNCHANGED images
  BY <1>1, <1>2, <1>3, CallsQuiet DEF SameForCalls
<1>4. ASSUME NEW wanted, Hits(t, wanted) # {}, NEW i, i = Min(Hits(t, wanted)), NEW e,
             SetHere(t, i, e),
             Here(t)[i] \in EntryRecords /\ Here(t)[i] \in wanted =>
               /\ e \in EntryRecords /\ SameForCalls(e, Here(t)[i])
      PROVE  CallsInv'
  <2>1. i \in DOMAIN Here(t) /\ Here(t)[i] \in EntryRecords /\ Here(t)[i] \in wanted
    BY <1>1, <1>4, FirstHit
  <2>2. e.state # "UNUSED" => e.image \in Images
    BY <1>1, <1>4, <2>1 DEF TypeInv, UsedHaveImages, Here, Frames, SameForCalls
  <2> QED
    BY <1>1, <1>2, <1>4, <2>1, <2>2, CallsSetHere
<1>5. CASE AddImages(t)
  <2> DEFINE wanted == {e \in Entries(t) : e.state # "UNUSED" /\ ~e.registered}
             i == Min(Hits(t, wanted))
             o == Here(t)[i]
             e == [o EXCEPT !.registered = TRUE]
  <2>1. o \in EntryRecords => e \in EntryRecords /\ SameForCalls(e, o)
    BY DEF EntryRecords, SameForCalls
  <2>2. UNCHANGED images \/ (Hits(t, wanted) # {} /\ SetHere(t, i, e))
    BY <1>5 DEF AddImages
  <2>3. i = Min(Hits(t, wanted))
    OBVIOUS
  <2>4. CASE Hits(t, wanted) # {} /\ SetHere(t, i, e)
    <3> HIDE DEF wanted, e, i
    <3> QED
      BY <1>4, <2>1, <2>3, <2>4
  <2> QED
    BY <1>3, <2>2, <2>4
<1>6. CASE LinkModules(t)
  <2> DEFINE wanted == {e \in Entries(t) : e.state = "RELOCATED"}
             i == Min(Hits(t, wanted))
             o == Here(t)[i]
             e == Registering(o)
  <2>1. o \in EntryRecords /\ o \in wanted => e \in EntryRecords /\ SameForCalls(e, o)
    BY DEF EntryRecords, SameForCalls, Registering, States
  <2>2. UNCHANGED images \/ (Hits(t, wanted) # {} /\ SetHere(t, i, e))
    BY <1>6 DEF LinkModules
  <2>3. i = Min(Hits(t, wanted))
    OBVIOUS
  <2>4. CASE Hits(t, wanted) # {} /\ SetHere(t, i, e)
    <3> HIDE DEF wanted, e, i
    <3> QED
      BY <1>4, <2>1, <2>3, <2>4
  <2> QED
    BY <1>3, <2>2, <2>4
<1>7. CASE ExitModules(t)
  <2> DEFINE wanted == {e \in Entries(t) : ToBeTerminated(e)}
             i == Min(Hits(t, wanted))
             o == Here(t)[i]
             e == [o EXCEPT !.termed = TRUE]
  <2>1. o \in EntryRecords => e \in EntryRecords /\ SameForCalls(e, o)
    BY DEF EntryRecords, SameForCalls
  <2>2. UNCHANGED images \/ (Hits(t, wanted) # {} /\ SetHere(t, i, e))
    BY <1>7 DEF ExitModules
  <2>3. i = Min(Hits(t, wanted))
    OBVIOUS
  <2>4. CASE Hits(t, wanted) # {} /\ SetHere(t, i, e)
    <3> HIDE DEF wanted, e, i
    <3> QED
      BY <1>4, <2>1, <2>3, <2>4
  <2> QED
    BY <1>3, <2>2, <2>4
<1>8. CASE RemoveImage(t) /\ images' = [images EXCEPT !.objects[at[t].i] = Unused(@)]
  <2> DEFINE e == Unused(images.objects[at[t].i])
             i == at[t].i
  <2>1. e \in EntryRecords /\ e.state = "UNUSED" /\ ~e.inited
    BY DEF Unused, Entry, EntryRecords, States
  <2>2. SetHere(t, i, e) /\ i \in DOMAIN Here(t)
    BY <1>1, <1>8 DEF SetHere, Here, FrameStands, RemoveImage, In
  <2> HIDE DEF e, i
  <2> QED
    BY <1>1, <1>2, <2>1, <2>2, CallsSetHere
<1>9. UNCHANGED images \/ AddImages(t) \/ LinkModules(t) \/ ExitModules(t)
      \/ (RemoveImage(t) /\ images' = [images EXCEPT !.objects[at[t].i] = Unused(@)])
  <2>1. Return(t) \/ Walk(t) \/ NextFunction(t) \/ Terminate(t) \/ NextTerm(t) => UNCHANGED images
    BY DEF Return, Walk, NextFunction, Terminate, NextTerm
  <2>2. Launch(t) \/ Exit(t) \/ RegisterRemove(t) => UNCHANGED images
    BY DEF Launch, Exit, RegisterRemove
  <2>3. ASSUME NEW k \in DOMAIN Functions, Register(t, k) PROVE UNCHANGED images
    BY <2>3 DEF Register
  <2>4. ASSUME NEW i \in DOMAIN images.objects, UnlinkModule(t, i) PROVE UNCHANGED images
    BY <2>4 DEF UnlinkModule
  <2>5. RemoveImage(t) =>
          UNCHANGED images \/ images' = [images EXCEPT !.objects[at[t].i] = Unused(@)]
    BY DEF RemoveImage
  <2> QED
    BY <2>1, <2>2, <2>3, <2>4, <2>5
<1> QED
  BY <1>3, <1>5, <1>6, <1>7, <1>8, <1>9

(* A thread that returns from an initialiser still has its work.             *)
LEMMA ReturnCalls ==
  ASSUME TypeInv, CallsInv, NEW t \in Threads, Return(t)
  PROVE  CallsInv'
<1>1. at[t] \in Frames /\ FramesOk /\ Local(t)
  BY LocalSteps DEF TypeInv, Typed, FramesOk, Step
<1>2. /\ at'[t] = [at[t] EXCEPT !.mode = "next"] /\ at[t].mode = "call"
      /\ UNCHANGED <<images, delayModInit>>
  BY <1>1 DEF Return, FramesOk
<1>3. /\ at'[t].phase = at[t].phase /\ at'[t].list = at[t].list /\ at'[t].i = at[t].i
      /\ at'[t].fn = at[t].fn /\ at'[t].n = at[t].n /\ at'[t].mode = "next"
  BY <1>1, <1>2 DEF Frames
<1> SUFFICES ASSUME NEW k \in Kinds, NEW i \in DOMAIN images[k]
             PROVE  CallsAt(k, i)'
  BY <1>2 DEF CallsInv
<1>4. KeepsInit(t, k, i)
  BY <1>2, <1>3 DEF KeepsInit, InitWork
<1>5. NotPassed(t, k, i)
  BY <1>2, <1>3 DEF NotPassed, Before
<1>6. SameForCalls(images'[k][i], images[k][i])
  BY <1>2 DEF SameForCalls
<1> QED
  BY <1>1, <1>4, <1>5, <1>6, PassedKept, CallsSame

(* What the delayed initialisers' calls pass over is not linked, and will    *)
(* not be before they are all made.                                          *)
LEMMA PassesUnlinked ==
  ASSUME TypeInv, LaunchInv, NEW t \in Threads, at[t].mode = "scan", Local(t),
         delayModInit' = delayModInit, at'[t].phase = at[t].phase,
         at[t].phase \in {"init", "initDelayed"},
         NEW k \in Kinds, NEW j \in DOMAIN images[k],
         at[t].phase = "initDelayed" /\ ~Before(t, k, j)' /\ Before(t, k, j)
           => ~ToInitialise(t, images[k][j])
  PROVE  \/ Passed(k, j)' => Passed(k, j)
         \/ images[k][j].state \notin {"LINKED", "INITIALIZING"}
<1>1. CASE at[t].phase = "initDelayed" /\ ~Before(t, k, j)' /\ Before(t, k, j)
  <2>1. images[k][j].state # "LINKED"
    BY <1>1 DEF ToInitialise, MakingDelayed
  <2>2. delayModInit
    BY <1>1 DEF LaunchInv
  <2>3. images[k][j].state # "INITIALIZING"
    BY <2>2 DEF LaunchInv
  <2> QED
    BY <2>1, <2>3
<1>2. CASE ~(at[t].phase = "initDelayed" /\ ~Before(t, k, j)' /\ Before(t, k, j))
  <2>1. NotPassed(t, k, j)
    BY <1>2 DEF NotPassed
  <2> QED
    BY <2>1, PassedKept
<1> QED
  BY <1>1, <1>2

\* The other entries, when one is found
LEMMA FoundCalls ==
  ASSUME TypeInv, LaunchInv, CallsInv, NEW t \in Threads, at[t].mode = "scan", Local(t),
         delayModInit' = delayModInit, at'[t].phase = at[t].phase, at'[t].list = at[t].list,
         at[t].phase \in {"init", "initDelayed"},
         NEW wanted, wanted = {e \in Entries(t) : ToInitialise(t, e)},
         Hits(t, wanted) # {},
         NEW i \in Nat \ {0}, i = Min(Hits(t, wanted)),
         \/ at'[t].mode = "scan" /\ at'[t].i = i + 1
         \/ at'[t].mode = "call" /\ at'[t].i = i,
         NEW k \in Kinds, NEW j \in DOMAIN images[k], k # at[t].list \/ j # i,
         images'[k][j] = images[k][j]
  PROVE  CallsAt(k, j)'
<1>1. FramesOk /\ ImagesOk
  BY DEF TypeInv, Typed
<1>2. KeepsInit(t, k, j)
  BY DEF KeepsInit, InitWork
<1>3. ASSUME ~Before(t, k, j)', Before(t, k, j)
      PROVE  ~ToInitialise(t, images[k][j])
  <2>1. CASE ~ComesTo(t, k, j)'
    <3>1. ComesTo(t, k, j)
      BY <1>3 DEF ComesTo
    <3>2. k = at[t].list /\ images[k][j] \notin wanted
      BY <1>1, <2>1, <3>1, FoundKeeps
    <3> QED
      BY <3>2 DEF Entries, Here
  <2>2. CASE ComesTo(t, k, j)'
    <3>1. at[t].list = "objects" /\ k = "objects" /\ at'[t].mode = "call" /\ at[t].i <= j
      BY <1>3, <2>2 DEF ComesTo, Before, Kinds
    <3>2. j \in Nat /\ ~(i < j)
      BY <1>1, <1>3, <3>1 DEF ImagesOk, Before
    <3>3. j < i
      BY <3>1, <3>2
    <3>4. Here(t)[j] \notin wanted
      BY <1>1, <3>1, <3>3, FirstHit DEF Here
    <3> QED
      BY <3>1, <3>4 DEF Entries, Here
  <2> QED
    BY <2>1, <2>2
<1>4. \/ Passed(k, j)' => Passed(k, j)
      \/ images'[k][j].state \notin {"LINKED", "INITIALIZING"}
  BY <1>3, PassesUnlinked
<1>5. SameForCalls(images'[k][j], images[k][j])
  BY DEF SameForCalls
<1> QED
  BY <1>2, <1>4, <1>5, CallsSame

(* The first of a module's initialisers is called, with the others to come;  *)
(* or the module has none, or a library's were called before.                *)
LEMMA InitModuleCalls ==
  ASSUME TypeInv, LaunchInv, CallsInv, NEW t \in Threads, InitModule(t)
  PROVE  CallsInv'
<1> DEFINE wanted == {e \in Entries(t) : ToInitialise(t, e)}
           new == Hits(t, wanted)
           i == Min(new)
           o == Here(t)[i]
           begun == InitBegun(t, o)
           k == at[t].list
<1>1. FramesOk /\ ImagesOk /\ IsABag(calls) /\ at[t] \in Frames /\ k \in Kinds
      /\ at[t].phase \in {"init", "initDelayed"} /\ at[t].mode = "scan" /\ Local(t)
      /\ delayModInit \in BOOLEAN /\ delayModInit' = delayModInit
  BY LocalSteps DEF TypeInv, Typed, FramesOk, Frames, RestOk, InitModule, At, In, Step
<1>2. new # {}
  BY DEF InitModule
<1>3. i \in DOMAIN Here(t) /\ o \in EntryRecords /\ o \in wanted /\ i \in Nat \ {0}
  BY <1>1, <1>2, FirstHit
<1>4. \/ SetHere(t, i, begun) /\ CallOut(t, i, "init", 1, o.image)
      \/ /\ ~CallsMade(t) \/ o.inited \/ ~(Routines[o.image] > 0)
         /\ SetHere(t, i, InitEnded(begun)) /\ GoOn(t, i + 1)
  BY DEF InitModule
<1>a. i = Min(new) /\ i \in DOMAIN images[k] /\ images[k][i] = o
  BY <1>3 DEF Here
<1>b. CallsMade(t) /\ (at[t].phase = "init" => ~delayModInit)
  BY <1>1 DEF LaunchInv, CallsMade, MakingDelayed
<1> HIDE DEF i, wanted, new, k
<1>5. /\ begun \in EntryRecords /\ InitEnded(begun) \in EntryRecords
      /\ begun.state # "UNUSED" /\ InitEnded(begun).state # "UNUSED"
      /\ o.image \in Images /\ begun.image = o.image /\ InitEnded(begun).image = o.image
      /\ o.state # "UNUSED"
  <2>1. o.state \in {"REGISTERING", "LINKED"}
    BY <1>3 DEF ToInitialise, wanted
  <2>2. o.image \in Images
    BY <1>1, <1>3, <1>a, <2>1 DEF TypeInv, UsedHaveImages
  <2>3. CallsMade(t) \in BOOLEAN
    BY <1>b
  <2> HIDE DEF o
  <2> QED
    BY <1>3, <2>1, <2>2, <2>3 DEF InitBegun, InitEnded, EntryRecords, States
<1>6. Routines[o.image] \in Nat
  BY <1>5, CalloutsAssumption
<1> HIDE DEF o, begun
<1>c. PICK K \in Kinds, I \in Nat \ {0}, M \in Images : K = k /\ I = i /\ M = o.image
  BY <1>1, <1>3, <1>5
<1>7. ASSUME NEW e \in EntryRecords, SetHere(t, i, e), e.state # "UNUSED", e.image = o.image,
             at'[t].phase = at[t].phase, at'[t].list = at[t].list,
             \/ at'[t].mode = "scan" /\ at'[t].i = i + 1
             \/ at'[t].mode = "call" /\ at'[t].i = i,
             \A n \in 1 .. Routines[M] : InitialisedOrPending(n, M, K, I)'
      PROVE  CallsInv'
  <2>1. /\ \A q \in Kinds : DOMAIN images'[q] = DOMAIN images[q]
        /\ images'[k][i] = e
        /\ \A q \in Kinds : \A j \in DOMAIN images[q] :
             q # k \/ j # i => images'[q][j] = images[q][j]
    BY <1>3, <1>5, <1>7, OtherEntry DEF k
  <2> SUFFICES ASSUME NEW q \in Kinds, NEW j \in DOMAIN images[q]
               PROVE  CallsAt(q, j)'
    BY <2>1 DEF CallsInv
  <2>2. CASE q # k \/ j # i
    <3>1. images'[q][j] = images[q][j] /\ (q # at[t].list \/ j # i)
      BY <2>1, <2>2 DEF k
    <3>2. wanted = {x \in Entries(t) : ToInitialise(t, x)} /\ i = Min(Hits(t, wanted))
          /\ Hits(t, wanted) # {}
      BY <1>2, <1>a DEF wanted, new
    <3> QED
      BY <1>1, <1>3, <1>7, <3>1, <3>2, FoundCalls
  <2>3. CASE q = k /\ j = i
    <3>1. images'[q][j].image = o.image /\ images'[q][j].state # "UNUSED"
      BY <1>7, <2>1, <2>3
    <3> QED
      BY <1>7, <1>c, <2>3, <3>1 DEF CallsAt
  <2> QED
    BY <2>2, <2>3
<1>8. CASE SetHere(t, i, begun) /\ CallOut(t, i, "init", 1, o.image)
  <2>1. 1 \in AnyFn
    BY DEF AnyFn
  <2>2. CallsOut(t, i, "init", 1, o.image)
    BY <1>1, <1>3, <1>5, <1>8, <2>1, CallOutStep
  <2>3. /\ at'[t].phase = at[t].phase /\ at'[t].list = k /\ at'[t].mode = "call"
        /\ at'[t].i = i /\ at'[t].fn = 1 /\ at'[t].n = Routines[o.image]
        /\ <<"init", 1, o.image>> \in DOMAIN calls'
    BY <2>2 DEF CallsOut, k
  <2>4. ASSUME NEW n \in 1 .. Routines[M]
        PROVE  InitialisedOrPending(n, M, K, I)'
    <3>1. CASE n = 1
      <4>1. <<"init", n, o.image>> \in DOMAIN calls'
        BY <2>3, <3>1
      <4> QED
        BY <1>c, <4>1 DEF InitialisedOrPending
    <3>2. CASE n # 1
      <4>1. 1 < n /\ n <= at'[t].n
        BY <1>6, <1>c, <2>3, <3>2
      <4>2. InitWork(t, n, K, I)'
        BY <1>1, <1>c, <2>3, <4>1 DEF InitWork
      <4> QED
        BY <4>2 DEF InitialisedOrPending
    <3> QED
      BY <3>1, <3>2
  <2> QED
    BY <1>5, <1>7, <1>8, <2>3, <2>4 DEF k
<1>9. CASE /\ ~CallsMade(t) \/ o.inited \/ ~(Routines[o.image] > 0)
           /\ SetHere(t, i, InitEnded(begun)) /\ GoOn(t, i + 1)
  <2>1. /\ at'[t].phase = at[t].phase /\ at'[t].list = at[t].list
        /\ at'[t].mode = "scan" /\ at'[t].i = i + 1
    BY <1>1, <1>9, GoOnFrame
  <2>2. ASSUME NEW n \in 1 .. Routines[M]
        PROVE  InitialisedOrPending(n, M, K, I)'
    <3>1. o.inited
      BY <1>6, <1>9, <1>b, <1>c
    <3>2. InitialisedOrPending(n, M, K, I)
      BY <1>1, <1>5, <1>a, <1>c, <3>1 DEF CallsInv, CallsAt, Owes
    <3>3. \A u \in Threads : InitWork(u, n, K, I) => u # t
      BY <1>1 DEF InitWork
    <3>4. \A u \in Threads : InitWork(u, n, K, I) => InitWork(u, n, K, I)'
      BY <1>1, <3>3 DEF InitWork, Local
    <3> QED
      BY <1>1, <3>2, <3>4 DEF InitialisedOrPending, Local
  <2> QED
    BY <1>5, <1>7, <1>9, <2>1, <2>2
<1> QED
  BY <1>4, <1>8, <1>9

(* The search ends; the last one of the delayed calls has passed everything. *)
LEMMA InitDoneCalls ==
  ASSUME TypeInv, LaunchInv, CallsInv, NEW t \in Threads, InitDone(t)
  PROVE  CallsInv'
<1> DEFINE wanted == {e \in Entries(t) : ToInitialise(t, e)}
<1>1. FramesOk /\ ImagesOk /\ at[t].phase \in {"init", "initDelayed"} /\ at[t].mode = "scan"
      /\ Local(t) /\ UNCHANGED images /\ Hits(t, wanted) = {} /\ delayModInit \in BOOLEAN
  BY LocalSteps DEF TypeInv, Typed, RestOk, InitDone, At, In, Step
<1>2. \A k \in Kinds : \A j \in DOMAIN images[k] :
        k = at[t].list /\ ToInitialise(t, images[k][j]) => images[k][j] \in wanted
  BY DEF Entries, Here
<1> HIDE DEF wanted
<1> SUFFICES ASSUME NEW k \in Kinds, NEW j \in DOMAIN images[k]
             PROVE  CallsAt(k, j)'
  BY <1>1 DEF CallsInv
<1>3. KeepsInit(t, k, j)
  BY <1>1 DEF KeepsInit, InitWork
<1>4. SameForCalls(images'[k][j], images[k][j])
  BY <1>1 DEF SameForCalls
<1>5. \/ Passed(k, j)' => Passed(k, j)
      \/ images[k][j].state \notin {"LINKED", "INITIALIZING"}
  <2>1. CASE NextList(t) /\ UNCHANGED delayModInit
    <3>1. at'[t].phase = at[t].phase /\ at'[t].list = "libs" /\ at'[t].mode = "scan"
          /\ at'[t].i = 1
      BY <1>1, <2>1, NextListStep
    <3>2. ~Before(t, k, j)' /\ Before(t, k, j) => ~ToInitialise(t, images[k][j])
      BY <1>1, <1>2, <3>1, NotFoundKeeps DEF Before, ComesTo
    <3> QED
      BY <1>1, <2>1, <3>1, <3>2, PassesUnlinked
  <2>2. CASE /\ at[t].list = "libs" /\ Leave(t)
             /\ delayModInit' = (delayModInit /\ ~MakingDelayed(t))
    <3>1. at'[t].phase = "out"
      BY <1>1, <2>2, LeaveStep DEF Idle
    <3>2. CASE at[t].phase = "init"
      <4>1. NotPassed(t, k, j)
        BY <1>1, <2>2, <3>1, <3>2 DEF NotPassed, MakingDelayed
      <4> QED
        BY <1>1, <4>1, PassedKept
    <3>3. CASE at[t].phase = "initDelayed" /\ ~Before(t, k, j)
      BY <3>3 DEF Passed
    <3>4. CASE at[t].phase = "initDelayed" /\ Before(t, k, j)
      <4>1. ~ToInitialise(t, images[k][j])
        BY <1>1, <1>2, <2>2, <3>4, NotFoundKeeps DEF ComesTo
      <4>2. images[k][j].state # "LINKED"
        BY <3>4, <4>1 DEF ToInitialise, MakingDelayed
      <4>3. images[k][j].state # "INITIALIZING"
        BY <3>4 DEF LaunchInv
      <4> QED
        BY <4>2, <4>3
    <3> QED
      BY <1>1, <3>2, <3>3, <3>4
  <2> QED
    BY <2>1, <2>2 DEF InitDone
<1> QED
  BY <1>1, <1>3, <1>4, <1>5, CallsSame

(* The next initialiser is called, or all were.                              *)
LEMMA NextInitCalls ==
  ASSUME TypeInv, CallsInv, NEW t \in Threads, NextInit(t)
  PROVE  CallsInv'
<1> DEFINE i == at[t].i
           o == This(t)
           e == InitEnded(o)
           next == IF MakingDelayed(t) THEN i + 1 ELSE Again(t)
<1>1. FramesOk /\ ImagesOk /\ IsABag(calls) /\ at[t] \in Frames /\ FrameStands(t)
      /\ at[t].phase \in {"init", "initDelayed"} /\ at[t].mode = "next" /\ Local(t)
      /\ delayModInit' = delayModInit
  BY LocalSteps DEF TypeInv, Typed, FramesOk, FramesStand, NextInit, At, In, Step
<1>2. \/ at[t].fn < at[t].n /\ CallOut(t, i, "init", at[t].fn + 1, o.image) /\ UNCHANGED images
      \/ at[t].fn = at[t].n /\ SetHere(t, i, e) /\ GoOn(t, next)
  BY DEF NextInit
<1>3. i \in DOMAIN Here(t) /\ o = Here(t)[i] /\ o \in EntryRecords /\ at[t].list \in Kinds
      /\ i \in Nat \ {0} /\ at[t].fn \in Nat \ {0} /\ at[t].n \in Nat
      /\ (o.state # "UNUSED" => o.image \in Images)
  BY <1>1 DEF FrameStands, RoutinePhases, Here, This, ImagesOk, Frames, TypeInv, UsedHaveImages
<1>4. CASE at[t].fn < at[t].n /\ CallOut(t, i, "init", at[t].fn + 1, o.image) /\ UNCHANGED images
  <2>1. at[t].fn + 1 \in AnyFn /\ at[t].fn + 1 # 1 /\ o.image \in Images \cup {None}
    BY <1>3 DEF AnyFn, EntryRecords
  <2> HIDE DEF i, o
  <2>2. CallsOut(t, i, "init", at[t].fn + 1, o.image)
    BY <1>1, <1>3, <1>4, <2>1, CallOutStep
  <2>3. /\ at'[t].phase = at[t].phase /\ at'[t].list = at[t].list /\ at'[t].mode = "call"
        /\ at'[t].i = at[t].i /\ at'[t].fn = at[t].fn + 1 /\ at'[t].n = at[t].n
        /\ <<"init", at[t].fn + 1, o.image>> \in DOMAIN calls'
    BY <2>1, <2>2 DEF CallsOut, i
  <2> SUFFICES ASSUME NEW k \in Kinds, NEW j \in DOMAIN images[k]
               PROVE  CallsAt(k, j)'
    BY <1>4 DEF CallsInv
  <2>4. KeepsInit(t, k, j)
    <3> SUFFICES ASSUME NEW n \in Nat, NEW im \in Images, images[k][j].image = im,
                        InitWork(t, n, k, j)
                 PROVE  <<"init", n, im>> \in DOMAIN calls' \/ InitWork(t, n, k, j)'
      BY DEF KeepsInit
    <3>1. k = at[t].list /\ j = at[t].i /\ at[t].fn < n /\ n <= at[t].n
      BY DEF InitWork
    <3>2. im = o.image
      BY <1>3, <3>1 DEF Here, i
    <3>3. CASE n = at[t].fn + 1
      BY <2>3, <3>2, <3>3
    <3>4. CASE n # at[t].fn + 1
      <4>1. at[t].fn + 1 < n
        BY <1>3, <3>1, <3>4
      <4> QED
        BY <1>1, <2>3, <3>1, <4>1 DEF InitWork
    <3> QED
      BY <3>3, <3>4
  <2>5. NotPassed(t, k, j)
    BY <1>1, <2>3 DEF NotPassed, Before
  <2>6. SameForCalls(images'[k][j], images[k][j])
    BY <1>4 DEF SameForCalls
  <2> QED
    BY <1>1, <2>4, <2>5, <2>6, PassedKept, CallsSame
<1>5. CASE at[t].fn = at[t].n /\ SetHere(t, i, e) /\ GoOn(t, next)
  <2>1. /\ at'[t].phase = at[t].phase /\ at'[t].list = at[t].list /\ at'[t].mode = "scan"
        /\ at[t].phase = "initDelayed" => at'[t].i = at[t].i + 1
    BY <1>1, <1>5, GoOnFrame DEF MakingDelayed
  <2> HIDE DEF o
  <2>2. e \in EntryRecords /\ SameForCalls(e, o)
    BY <1>3 DEF InitEnded, EntryRecords, States, SameForCalls
  <2>3. e.state # "UNUSED" => e.image \in Images
    BY <1>3, <2>2 DEF SameForCalls
  <2>4. SetHere(t, i, e)
    BY <1>5
  <2> HIDE DEF e, i
  <2>5. /\ \A q \in Kinds : DOMAIN images'[q] = DOMAIN images[q]
        /\ images'[at[t].list][i] = e
        /\ \A q \in Kinds : \A j \in DOMAIN images[q] :
             q # at[t].list \/ j # i => images'[q][j] = images[q][j]
    BY <1>3, <2>2, <2>3, <2>4, OtherEntry
  <2> SUFFICES ASSUME NEW k \in Kinds, NEW j \in DOMAIN images[k]
               PROVE  CallsAt(k, j)'
    BY <2>5 DEF CallsInv
  <2>6. KeepsInit(t, k, j)
    <3>1. ASSUME NEW n \in Nat PROVE ~InitWork(t, n, k, j)
      <4>1. ~(at[t].fn < n /\ n <= at[t].n)
        BY <1>3, <1>5
      <4> QED
        BY <4>1 DEF InitWork
    <3> QED
      BY <3>1 DEF KeepsInit
  <2>7. NotPassed(t, k, j)
    <3>1. j \in Nat /\ at[t].i \in Nat
      BY <1>1, <1>3 DEF ImagesOk, i
    <3>2. at[t].i < j => at[t].i + 1 <= j
      BY <3>1
    <3>3. at[t].phase = "initDelayed" /\ Before(t, k, j) => Before(t, k, j)'
      BY <1>1, <2>1, <3>2 DEF Before
    <3> QED
      BY <1>1, <2>1, <3>3 DEF NotPassed
  <2>8. SameForCalls(images'[k][j], images[k][j])
    <3>1. CASE k = at[t].list /\ j = i
      BY <1>3, <2>2, <2>5, <3>1 DEF Here
    <3>2. CASE k # at[t].list \/ j # i
      BY <2>5, <3>2 DEF SameForCalls
    <3> QED
      BY <3>1, <3>2
  <2> QED
    BY <1>1, <2>6, <2>7, <2>8, PassedKept, CallsSame
<1> QED
  BY <1>2, <1>4, <1>5

(* At the start the initialisers are delayed, and none is owed.              *)
LEMMA InitCalls == Init => LaunchInv /\ CallsInv
<1> SUFFICES ASSUME Init PROVE LaunchInv /\ CallsInv
  OBVIOUS
<1>1. \A t \in Threads : at[t].phase = "out"
  BY DEF Init, Idle
<1>2. ASSUME NEW k \in Kinds, NEW i \in DOMAIN images[k]
      PROVE  images[k][i].state \in {"UNLINKED", "LINKED"} /\ ~images[k][i].inited
  BY <1>2 DEF Init, Kinds, Entry
<1>3. LaunchInv
  BY <1>1, <1>2 DEF LaunchInv, Init
<1>4. ASSUME NEW k \in Kinds, NEW i \in DOMAIN images[k]
      PROVE  CallsAt(k, i)
  <2>1. ~Passed(k, i)
    BY <1>1 DEF Passed, Init
  <2> QED
    BY <1>2, <2>1 DEF CallsAt, Owes
<1> QED
  BY <1>3, <1>4 DEF CallsInv

(* What linked modules owe, with what holds during the launch                *)
LinkedInv == TypeInv /\ HalfInv /\ LaunchInv /\ CallsInv

(* Every step keeps it, in a program that links after its launch.            *)
LEMMA NextCalls ==
  ASSUME ~CallsDuringLaunch, LinkedInv, [Next]_vars
  PROVE  LinkedInv'
<1>1. TypeInv' /\ HalfInv'
  BY NextTyped, NextHalf DEF LinkedInv
<1> USE DEF LinkedInv
<1>2. LaunchInv' /\ CallsInv'
  <2>1. CASE UNCHANGED vars
    <3>1. LaunchInv'
      BY <2>1 DEF vars, callVars, LaunchInv
    <3>2. CallsInv'
      BY <2>1 DEF vars, CallsInv, CallsAt, Owes, Passed, Before, InitialisedOrPending, InitWork
    <3> QED
      BY <3>1, <3>2
  <2>2. ASSUME NEW t \in Threads, Call(t) PROVE LaunchInv' /\ CallsInv'
    <3>1. CallsInv'
      BY <2>2, LinkModuleCalls, BindModuleCalls, OthersCall DEF Call
    <3> QED
      BY <2>2, <3>1, LaunchStep
  <2>3. ASSUME NEW t \in Threads, Step(t) PROVE LaunchInv' /\ CallsInv'
    <3>1. CallsInv'
      BY <2>3, ReturnCalls, InitModuleCalls, InitDoneCalls, NextInitCalls, OthersCall DEF Step
    <3> QED
      BY <2>3, <3>1, LaunchStep
  <2> QED
    BY <2>1, <2>2, <2>3 DEF Next, Stopped
<1> QED
  BY <1>1, <1>2

(* What LinkedIsInitialised says, of the lists' entries                      *)
LEMMA CallsInvShows == TypeInv /\ CallsInv => LinkedIsInitialised
<1> SUFFICES ASSUME TypeInv, CallsInv, AllOut, ~delayModInit, NEW e \in Loaded,
                    e.state = "LINKED", NEW n \in 1 .. Routines[e.image]
             PROVE  Called("init", n, e.image) >= 1
  BY DEF LinkedIsInitialised
<1>1. PICK k \in Kinds : \E i \in DOMAIN images[k] : e = images[k][i] /\ e.state # "UNUSED"
  BY DEF Loaded
<1>2. PICK i \in DOMAIN images[k] : e = images[k][i] /\ e.state # "UNUSED"
  BY <1>1
<1>3. Owes(k, i)
  BY <1>2 DEF Owes, Passed
<1>4. InitialisedOrPending(n, e.image, k, i)
  BY <1>2, <1>3 DEF CallsInv, CallsAt
<1>5. <<"init", n, e.image>> \in DOMAIN calls
  BY <1>4 DEF InitialisedOrPending, InitWork, AllOut, Out
<1>6. calls[<<"init", n, e.image>>] \in Nat \ {0}
  BY <1>5 DEF TypeInv, Typed, IsABag
<1> QED
  BY <1>5, <1>6 DEF Called, BagIn, BagToSet

(* When no thread is in the dynamic linker, a module is UNLINKED or it is    *)
(* linked and, once the program runs, every one of its initialisers was      *)
(* called: whichever threads linked it, bound it or unlinked others at the   *)
(* same time.  A program is meant that links nothing before its launch has   *)
(* made the delayed calls.                                                   *)
THEOREM LinksCompletely ==
  ASSUME ~CallsDuringLaunch
  PROVE  Spec => []LinkedCompletely
<1>1. Init => LinkedInv
  BY InitTyped, InitHalf, InitCalls DEF LinkedInv
<1>2. LinkedInv /\ [Next]_vars => LinkedInv'
  BY NextCalls
<1>3. LinkedInv => LinkedCompletely
  BY HalfInvShows, CallsInvShows DEF LinkedInv, LinkedCompletely
<1> QED
  BY <1>1, <1>2, <1>3, PTL DEF Spec
-----------------------------------------------------------------------------
(* Terminators at exit *)

(* A thread in a loop is the one inside, but while it calls a function.      *)
Holding(t) == at[t].phase # "out" /\ at[t].mode # "call" => holder = t

TermWork(t, n, k, i) ==
  /\ at[t].phase = "exit" /\ at[t].mode # "scan"
  /\ at[t].list = k /\ at[t].i = i
  /\ at[t].fn < n /\ n <= at[t].n

TerminatedOrPending(n, im, k, i) ==
  <<"term", n, im>> \in DOMAIN calls \/ \E t \in Threads : TermWork(t, n, k, i)

(* What is marked was terminated, or the thread that marked it is at it.     *)
TermAt(k, i) ==
  LET e == images[k][i]
  IN /\ e.state = "UNUSED" => ~e.termed
     /\ e.state # "UNUSED" /\ e.termed =>
          \A n \in 1 .. Routines[e.image] : TerminatedOrPending(n, e.image, k, i)

(* A pass is clean as long as it has left nothing behind it.                 *)
CleanAt(t, k, i) ==
  at[t].phase = "exit" /\ at[t].mode = "scan" /\ cleanPass /\ ~Before(t, k, i)
    => ~ToBeTerminated(images[k][i])

TermInv ==
  /\ \A t, u \in Threads : at[t].phase = "exit" /\ at[u].phase = "exit" => t = u
  /\ \A t \in Threads : at[t].phase = "exit" => exited
  /\ \A t \in Threads : Holding(t)
  /\ \A k \in Kinds : \A i \in DOMAIN images[k] :
       TermAt(k, i) /\ \A t \in Threads : CleanAt(t, k, i)

\* One thread at a time is inside.
LEMMA NobodyElse ==
  ASSUME TypeInv, \A u \in Threads : Holding(u), NEW t \in Threads, Call(t) \/ Step(t),
         NEW u \in Threads, u # t
  PROVE  at[u].phase = "out" \/ at[u].mode = "call"
<1>1. holder = None \/ holder = t
  BY DEF Call, Step, LinkModule, BindModule, Register, RegisterRemove, Launch, UnlinkModule, Exit,
     Return, Walk, AddImages, LinkModules, NextFunction, InitModule, InitDone, NextInit,
     Terminate, RemoveImage, ExitModules, NextTerm, Enter, At, In
<1>2. holder # u
  BY <1>1, CalloutsAssumption
<1> QED
  BY <1>2 DEF Holding

\* ... and every step keeps it so.
LEMMA HoldingStep ==
  ASSUME TypeInv, \A u \in Threads : Holding(u), NEW t \in Threads, Call(t) \/ Step(t)
  PROVE  \A u \in Threads : Holding(u)'
<1>1. FramesOk /\ Local(t) /\ at[t] \in Frames
  BY LocalSteps DEF TypeInv, Typed, FramesOk
<1>2. ASSUME NEW u \in Threads, u # t PROVE Holding(u)'
  BY <1>1, <1>2, NobodyElse DEF Holding, Local
<1>3. holder' = t \/ at'[t].phase = "out" \/ at'[t].mode = "call"
  <2>1. CASE Call(t)
    <3>1. ASSUME NEW b \in Bundles, LinkModule(t, b) PROVE holder' = t
      BY <3>1 DEF LinkModule, Enter
    <3>2. ASSUME NEW i \in DOMAIN images.libs, BindModule(t, i) PROVE holder' = t
      BY <3>2 DEF BindModule, Enter
    <3>3. ASSUME NEW k \in DOMAIN Functions, Register(t, k) PROVE holder' = t
      BY <3>3 DEF Register, Enter
    <3>4. RegisterRemove(t) => at'[t].phase = "out"
      BY DEF RegisterRemove, Out
    <3>5. ASSUME NEW i \in DOMAIN images.objects, UnlinkModule(t, i) PROVE holder' = t
      BY <3>5 DEF UnlinkModule, Enter
    <3>6. Launch(t) \/ Exit(t) => holder' = t
      BY DEF Launch, Exit, Enter
    <3> QED
      BY <2>1, <3>1, <3>2, <3>3, <3>4, <3>5, <3>6 DEF Call
  <2>2. Return(t) => holder' = t
    BY DEF Return
  <2>3. CASE Step(t) /\ holder = t
    <3>1. \A i : GoOn(t, i) => holder' = t
      BY <2>3 DEF GoOn
    <3>2. NextList(t) => holder' = t
      BY <2>3 DEF NextList
    <3>3. \A phase : NextPhase(t, phase) => holder' = t
      BY <2>3 DEF NextPhase
    <3>4. \A i, kind, fn, image : CallOut(t, i, kind, fn, image) => at'[t].mode = "call"
      BY <1>1, CallOutFrame
    <3>5. Leave(t) => at'[t].phase = "out"
      BY <1>1, LeaveStep DEF Idle
    <3>6. Walk(t) \/ NextFunction(t) \/ InitModule(t) \/ InitDone(t) \/ NextInit(t) \/ NextTerm(t)
            => holder' = t \/ at'[t].phase = "out" \/ at'[t].mode = "call"
      BY <3>1, <3>2, <3>4, <3>5 DEF Walk, NextFunction, InitModule, InitDone, NextInit, NextTerm
    <3>7. AddImages(t) \/ LinkModules(t) \/ ExitModules(t)
            => holder' = t \/ at'[t].phase = "out" \/ at'[t].mode = "call"
      BY <3>1, <3>2, <3>3, <3>4, <3>5 DEF AddImages, LinkModules, ExitModules
    <3>8. Terminate(t) \/ RemoveImage(t)
            => holder' = t \/ at'[t].phase = "out" \/ at'[t].mode = "call"
      BY <2>3, <3>4, <3>5 DEF Terminate, RemoveImage
    <3> QED
      BY <2>2, <2>3, <3>6, <3>7, <3>8 DEF Step
  <2>4. Step(t) => Return(t) \/ holder = t
    BY DEF Step, Walk, AddImages, LinkModules, NextFunction, InitModule, InitDone, NextInit,
       Terminate, RemoveImage, ExitModules, NextTerm, At, In
  <2> QED
    BY <2>1, <2>2, <2>3, <2>4
<1>4. Holding(t)'
  BY <1>3 DEF Holding
<1> QED
  BY <1>2, <1>4

(* The terminators are called by a thread that called exit().                *)
LEMMA ExitPhases ==
  ASSUME TypeInv, NEW t \in Threads, Call(t) \/ Step(t)
  PROVE  at'[t].phase = "exit" => at[t].phase = "exit" \/ Exit(t)
<1>1. FramesOk /\ at[t] \in Frames
  BY DEF TypeInv, Typed, FramesOk
<1>2. ASSUME NEW phase \in {"link", "init"}, NextPhase(t, phase)
      PROVE  at'[t].phase # "exit"
  <2>1. phase \in Phases
    BY DEF Phases
  <2> QED
    BY <1>1, <1>2, <2>1, NextPhaseStep
<1>3. Leave(t) => at'[t].phase # "exit"
  BY <1>1, LeaveStep DEF Idle
<1>4. CASE Call(t)
  <2>1. ASSUME NEW b \in Bundles, LinkModule(t, b) PROVE at'[t].phase = "add"
    BY <1>1, <2>1 DEF LinkModule, Enter, FramesOk, Idle
  <2>2. ASSUME NEW i \in DOMAIN images.libs, BindModule(t, i) PROVE at'[t].phase = "add"
    BY <1>1, <2>2 DEF BindModule, Enter, FramesOk, Idle
  <2>3. ASSUME NEW k \in DOMAIN Functions, Register(t, k)
        PROVE  at'[t].phase \in {"walkAdd", "walkLink"}
    BY <1>1, <2>3 DEF Register, Enter, FramesOk, Idle
  <2>4. RegisterRemove(t) => at'[t].phase = at[t].phase
    BY DEF RegisterRemove
  <2>5. ASSUME NEW i \in DOMAIN images.objects, UnlinkModule(t, i)
        PROVE  at'[t].phase = "terminate"
    BY <1>1, <2>5 DEF UnlinkModule, Enter, FramesOk, Idle
  <2>6. Launch(t) => at'[t].phase = "initDelayed"
    BY <1>1 DEF Launch, Enter, FramesOk, Idle
  <2> QED
    BY <1>4, <2>1, <2>2, <2>3, <2>4, <2>5, <2>6 DEF Call
<1>5. CASE Step(t) /\ at[t].phase # "exit"
  <2>1. Return(t) => at'[t].phase = at[t].phase
    BY <1>1 DEF Return, FramesOk, Frames
  <2>2. Walk(t) \/ NextFunction(t) \/ InitModule(t) \/ InitDone(t) \/ NextInit(t)
          => at'[t].phase = at[t].phase \/ at'[t].phase # "exit"
    BY <1>1, <1>3, SamePhase DEF Walk, NextFunction, InitModule, InitDone, NextInit
  <2>3. AddImages(t) \/ LinkModules(t)
          => at'[t].phase = at[t].phase \/ at'[t].phase # "exit"
    BY <1>1, <1>2, <1>3, SamePhase DEF AddImages, LinkModules
  <2>4. Terminate(t) => at'[t].phase = at[t].phase \/ at'[t].phase = "remove"
    <3>1. at' = [at EXCEPT ![t].phase = "remove", ![t].mode = "scan"] => at'[t].phase = "remove"
      BY <1>1 DEF FramesOk, Frames
    <3> QED
      BY <1>1, <3>1, SamePhase DEF Terminate
  <2>5. RemoveImage(t) => at'[t].phase = at[t].phase \/ at'[t].phase # "exit"
    BY <1>1, <1>3, SamePhase DEF RemoveImage
  <2>6. ~ExitModules(t) /\ ~NextTerm(t)
    BY <1>5 DEF ExitModules, NextTerm, At, In
  <2> QED
    BY <1>5, <2>1, <2>2, <2>3, <2>4, <2>5, <2>6 DEF Step
<1> QED
  BY <1>4, <1>5

(* exit() is called once.                                                    *)
LEMMA ExitOnce ==
  ASSUME TypeInv, TermInv, NEW t \in Threads, Call(t) \/ Step(t)
  PROVE  /\ \A u, w \in Threads : at'[u].phase = "exit" /\ at'[w].phase = "exit" => u = w
         /\ \A u \in Threads : at'[u].phase = "exit" => exited'
<1>1. Local(t) /\ exited \in BOOLEAN
  BY LocalSteps DEF TypeInv, Typed, RestOk
<1>2. exited' = exited \/ Exit(t)
  BY DEF Call, Step, LinkModule, BindModule, Register, RegisterRemove, Launch, UnlinkModule, Exit,
     Return, Walk, AddImages, LinkModules, NextFunction, InitModule, InitDone, NextInit,
     Terminate, RemoveImage, ExitModules, NextTerm, callVars
<1>3. Exit(t) => ~exited /\ exited'
  BY DEF Exit
<1>4. \A u \in Threads : at'[u].phase = "exit" => at[u].phase = "exit" \/ (u = t /\ Exit(t))
  BY <1>1, ExitPhases DEF Local
<1> QED
  BY <1>1, <1>2, <1>3, <1>4 DEF TermInv

KeepsTerm(t, k, i) ==
  \A n \in Nat, im \in Images :
    images[k][i].image = im /\ TermWork(t, n, k, i)
      => <<"term", n, im>> \in DOMAIN calls' \/ TermWork(t, n, k, i)'

SameForTerm(e, o) ==
  /\ e.image = o.image /\ e.termed = o.termed
  /\ e.state = "UNUSED" <=> o.state = "UNUSED"

(* An entry keeps its image and its mark, and t its work.                    *)
LEMMA TermKept ==
  ASSUME TypeInv, TermInv, NEW t \in Threads, Local(t),
         NEW k \in Kinds, NEW i \in DOMAIN images[k],
         SameForTerm(images'[k][i], images[k][i]), KeepsTerm(t, k, i)
  PROVE  TermAt(k, i)'
<1>1. TermAt(k, i)
  BY DEF TermInv
<1>2. CASE images[k][i].state = "UNUSED"
  BY <1>1, <1>2 DEF TermAt, SameForTerm
<1>3. CASE images[k][i].state # "UNUSED" /\ images'[k][i].termed
  <2>1. images[k][i].image \in Images
    BY <1>3 DEF TypeInv, UsedHaveImages
  <2>2. ASSUME NEW im \in Images, im = images[k][i].image, NEW n \in 1 .. Routines[im]
        PROVE  TerminatedOrPending(n, im, k, i)'
    <3>1. n \in Nat
      BY CalloutsAssumption
    <3>2. TerminatedOrPending(n, im, k, i)
      BY <1>1, <1>3, <2>2 DEF TermAt, SameForTerm
    <3>3. CASE <<"term", n, im>> \in DOMAIN calls
      BY <3>3 DEF TerminatedOrPending, Local
    <3>4. ASSUME NEW u \in Threads, TermWork(u, n, k, i)
          PROVE  TerminatedOrPending(n, im, k, i)'
      <4>1. CASE u = t
        BY <2>2, <3>1, <3>4, <4>1 DEF KeepsTerm, TerminatedOrPending
      <4>2. CASE u # t
        <5>1. TermWork(u, n, k, i)'
          BY <3>4, <4>2 DEF TermWork, Local
        <5> QED
          BY <5>1 DEF TerminatedOrPending
      <4> QED
        BY <4>1, <4>2
    <3> QED
      BY <3>2, <3>3, <3>4 DEF TerminatedOrPending
  <2>3. \E im \in Images :
          /\ im = images'[k][i].image
          /\ \A n \in 1 .. Routines[im] : TerminatedOrPending(n, im, k, i)'
    BY <2>1, <2>2 DEF SameForTerm
  <2> QED
    BY <1>3, <2>3 DEF TermAt, SameForTerm
<1>4. CASE ~images'[k][i].termed
  BY <1>4 DEF TermAt
<1> QED
  BY <1>2, <1>3, <1>4

(* One that is not marked owes nothing.                                      *)
LEMMA TermNew ==
  ASSUME NEW k, NEW i, ~images'[k][i].termed
  PROVE  TermAt(k, i)'
BY DEF TermAt

(* Where the thread has no pass behind it, or what it has passed is clean    *)
LEMMA CleanStep ==
  ASSUME TypeInv, TermInv, NEW t \in Threads, Call(t) \/ Step(t), Local(t),
         NEW k, NEW i, CleanAt(t, k, i)'
  PROVE  \A u \in Threads : CleanAt(u, k, i)'
<1>1. ASSUME NEW u \in Threads, u # t PROVE CleanAt(u, k, i)'
  <2>1. at[u].phase = "out" \/ at[u].mode = "call"
    BY <1>1, NobodyElse DEF TermInv
  <2>2. at'[u] = at[u]
    BY <1>1 DEF Local
  <2> QED
    BY <2>1, <2>2 DEF CleanAt
<1> QED
  BY <1>1

(* How the entries change in a step that is not one of exit()                *)
KeepsMarks ==
  \A k \in Kinds : \A i \in DOMAIN images'[k] :
    \/ i \in DOMAIN images[k] /\ SameForTerm(images'[k][i], images[k][i])
    \/ ~images'[k][i].termed

\* ... which has no work of this kind.
LEMMA TermElsewhere ==
  ASSUME TypeInv, TermInv, NEW t \in Threads, Call(t) \/ Step(t), at[t].phase # "exit",
         ImagesOk', KeepsMarks
  PROVE  TermInv'
<1>1. FramesOk /\ Local(t)
  BY LocalSteps DEF TypeInv, Typed
<1>2. ASSUME NEW k \in Kinds, NEW i \in DOMAIN images'[k]
      PROVE  TermAt(k, i)'
  <2>1. KeepsTerm(t, k, i)
    BY DEF KeepsTerm, TermWork
  <2> QED
    BY <1>1, <1>2, <2>1, TermKept, TermNew DEF KeepsMarks
<1>3. ASSUME NEW k \in Kinds, NEW i \in DOMAIN images'[k]
      PROVE  \A u \in Threads : CleanAt(u, k, i)'
  <2>1. 1 <= i
    BY <1>3 DEF ImagesOk
  <2>2. CASE Exit(t)
    <3>1. at'[t].list = "objects" /\ at'[t].mode = "scan" /\ at'[t].i = 1
      BY <1>1, <2>2 DEF Exit, Enter, FramesOk, Idle
    <3>2. CleanAt(t, k, i)'
      BY <2>1, <3>1 DEF CleanAt, Before, Kinds
    <3> QED
      BY <1>1, <3>2, CleanStep
  <2>3. CASE ~Exit(t)
    <3>1. at'[t].phase # "exit"
      BY <2>3, ExitPhases
    <3>2. CleanAt(t, k, i)'
      BY <3>1 DEF CleanAt
    <3> QED
      BY <1>1, <3>2, CleanStep
  <2> QED
    BY <2>2, <2>3
<1>4. \A u \in Threads : Holding(u)'
  BY HoldingStep DEF TermInv
<1> QED
  BY <1>2, <1>3, <1>4, ExitOnce DEF TermInv

\* A module that is not marked anew, or not any more, owes no calls it did not owe.
LEMMA MarksSetHere ==
  ASSUME TypeInv, NEW t \in Threads, NEW i \in DOMAIN Here(t), NEW e \in EntryRecords,
         SetHere(t, i, e), e.state # "UNUSED" => e.image \in Images,
         SameForTerm(e, Here(t)[i]) \/ ~e.termed
  PROVE  ImagesOk' /\ KeepsMarks
<1>1. /\ ImagesOk'
      /\ \A q \in Kinds : DOMAIN images'[q] = DOMAIN images[q]
      /\ images'[at[t].list][i] = e
      /\ \A q \in Kinds : \A j \in DOMAIN images[q] :
           q # at[t].list \/ j # i => images'[q][j] = images[q][j]
  BY OtherEntry
<1>2. ASSUME NEW k \in Kinds, NEW j \in DOMAIN images'[k]
      PROVE  \/ j \in DOMAIN images[k] /\ SameForTerm(images'[k][j], images[k][j])
             \/ ~images'[k][j].termed
  <2>1. CASE k = at[t].list /\ j = i
    BY <1>1, <1>2, <2>1 DEF Here
  <2>2. CASE k # at[t].list \/ j # i
    BY <1>1, <1>2, <2>2 DEF SameForTerm
  <2> QED
    BY <2>1, <2>2
<1> QED
  BY <1>1, <1>2 DEF KeepsMarks

(* Linking, initialising and removing leave the marks, or clear one with its *)
(* entry.                                                                    *)
LEMMA OtherSteps ==
  ASSUME TypeInv, TermInv, NEW t \in Threads, Call(t) \/ Step(t), at[t].phase # "exit"
  PROVE  ImagesOk' /\ KeepsMarks
<1>1. FramesOk /\ ImagesOk /\ at[t] \in Frames /\ FrameStands(t)
  BY DEF TypeInv, Typed, FramesOk, FramesStand
<1>2. CASE UNCHANGED images
  BY <1>1, <1>2 DEF ImagesOk, KeepsMarks, SameForTerm
<1>3. ASSUME NEW b \in Bundles, LinkModule(t, b) PROVE ImagesOk' /\ KeepsMarks
  <2>1. ImagesOk' /\ \A k \in Kinds : \A i \in DOMAIN images'[k] : LinkedEntry(k, i, b)
    BY <1>3, LinkModuleImages DEF LinkModule
  <2>2. ASSUME NEW k \in Kinds, NEW i \in DOMAIN images'[k]
        PROVE  \/ i \in DOMAIN images[k] /\ SameForTerm(images'[k][i], images[k][i])
               \/ ~images'[k][i].termed
    <3> DEFINE e == images'[k][i]
               o == images[k][i]
    <3>1. LinkedEntry(k, i, b)
      BY <2>1, <2>2
    <3>2. i \in DOMAIN images[k] => o \in EntryRecords /\ TermAt(k, i)
      BY <1>1 DEF ImagesOk, TermInv
    <3>3. CASE i \in DOMAIN images[k] /\ o.state = "UNUSED"
               /\ e = [o EXCEPT !.image = b, !.state = "RELOCATED"]
      <4>1. ~o.termed
        BY <3>2, <3>3 DEF TermAt
      <4> QED
        BY <3>2, <3>3, <4>1 DEF EntryRecords
    <3>4. CASE i \in DOMAIN images[k] /\ o.state = "UNLINKED"
               /\ e = [o EXCEPT !.state = "RELOCATED"]
      BY <3>2, <3>4 DEF EntryRecords, SameForTerm
    <3>5. CASE i \in DOMAIN images[k] /\ e = o
      BY <3>5 DEF SameForTerm
    <3>6. CASE \E im \in Images : e = Entry(im, "RELOCATED", FALSE)
      BY <3>6 DEF Entry
    <3> QED
      BY <3>1, <3>3, <3>4, <3>5, <3>6 DEF LinkedEntry
  <2> QED
    BY <2>1, <2>2 DEF KeepsMarks
<1>4. ASSUME NEW i \in DOMAIN images.libs, BindModule(t, i) PROVE ImagesOk' /\ KeepsMarks
  <2>1. /\ ImagesOk'
        /\ images.libs[i].state = "UNLINKED"
        /\ images'["libs"][i] = [images.libs[i] EXCEPT !.state = "RELOCATED"]
        /\ \A k \in Kinds : DOMAIN images'[k] = DOMAIN images[k]
        /\ \A k \in Kinds : \A j \in DOMAIN images[k] :
             k # "libs" \/ j # i => images'[k][j] = images[k][j]
    BY <1>4, BindModuleTyped DEF TypeInv, Typed
  <2>2. images.libs[i] \in EntryRecords
    BY <1>1 DEF ImagesOk, Kinds
  <2>3. ASSUME NEW k \in Kinds, NEW j \in DOMAIN images[k]
        PROVE  SameForTerm(images'[k][j], images[k][j])
    <3>1. CASE k = "libs" /\ j = i
      BY <2>1, <2>2, <3>1 DEF EntryRecords, SameForTerm
    <3>2. CASE k # "libs" \/ j # i
      BY <2>1, <3>2 DEF SameForTerm
    <3> QED
      BY <3>1, <3>2
  <2> QED
    BY <2>1, <2>3 DEF KeepsMarks
<1>5. ASSUME NEW wanted, Hits(t, wanted) # {}, NEW i, i = Min(Hits(t, wanted)), NEW e,
             SetHere(t, i, e),
             Here(t)[i] \in EntryRecords /\ Here(t)[i] \in wanted =>
               /\ e \in EntryRecords /\ SameForTerm(e, Here(t)[i])
      PROVE  ImagesOk' /\ KeepsMarks
  <2>1. i \in DOMAIN Here(t) /\ Here(t)[i] \in EntryRecords /\ Here(t)[i] \in wanted
    BY <1>1, <1>5, FirstHit
  <2>2. e.state # "UNUSED" => e.image \in Images
    BY <1>1, <1>5, <2>1 DEF TypeInv, UsedHaveImages, Here, Frames, SameForTerm
  <2> QED
    BY <1>5, <2>1, <2>2, MarksSetHere
<1>6. CASE AddImages(t)
  <2> DEFINE wanted == {e \in Entries(t) : e.state # "UNUSED" /\ ~e.registered}
             i == Min(Hits(t, wanted))
             o == Here(t)[i]
             e == [o EXCEPT !.registered = TRUE]
  <2>1. o \in EntryRecords => e \in EntryRecords /\ SameForTerm(e, o)
    BY DEF EntryRecords, SameForTerm
  <2>2. UNCHANGED images \/ (Hits(t, wanted) # {} /\ SetHere(t, i, e))
    BY <1>6 DEF AddImages
  <2>3. i = Min(Hits(t, wanted))
    OBVIOUS
  <2>4. CASE Hits(t, wanted) # {} /\ SetHere(t, i, e)
    <3> HIDE DEF wanted, e, i
    <3> QED
      BY <1>5, <2>1, <2>3, <2>4
  <2> QED
    BY <1>2, <2>2, <2>4
<1>7. CASE LinkModules(t)
  <2> DEFINE wanted == {e \in Entries(t) : e.state = "RELOCATED"}
             i == Min(Hits(t, wanted))
             o == Here(t)[i]
             e == Registering(o)
  <2>1. o \in EntryRecords /\ o \in wanted => e \in EntryRecords /\ SameForTerm(e, o)
    BY DEF EntryRecords, SameForTerm, Registering, States
  <2>2. UNCHANGED images \/ (Hits(t, wanted) # {} /\ SetHere(t, i, e))
    BY <1>7 DEF LinkModules
  <2>3. i = Min(Hits(t, wanted))
    OBVIOUS
  <2>4. CASE Hits(t, wanted) # {} /\ SetHere(t, i, e)
    <3> HIDE DEF wanted, e, i
    <3> QED
      BY <1>5, <2>1, <2>3, <2>4
  <2> QED
    BY <1>2, <2>2, <2>4
<1>8. CASE InitModule(t)
  <2> DEFINE wanted == {e \in Entries(t) : ToInitialise(t, e)}
             i == Min(Hits(t, wanted))
             o == Here(t)[i]
             begun == InitBegun(t, o)
  <2>1. SetHere(t, i, begun) \/ SetHere(t, i, InitEnded(begun))
    BY <1>8 DEF InitModule
  <2>2. Hits(t, wanted) # {} /\ i = Min(Hits(t, wanted))
    BY <1>8 DEF InitModule
  <2>3. CallsMade(t) \in BOOLEAN
    BY DEF CallsMade, MakingDelayed, TypeInv, Typed, RestOk
  <2>4. o \in EntryRecords /\ o \in wanted =>
          /\ begun \in EntryRecords /\ SameForTerm(begun, o)
          /\ InitEnded(begun) \in EntryRecords /\ SameForTerm(InitEnded(begun), o)
    <3>1. o \in wanted => o.state \in {"REGISTERING", "LINKED"}
      BY DEF ToInitialise
    <3> HIDE DEF o, wanted
    <3> QED
      BY <2>3, <3>1 DEF InitBegun, InitEnded, EntryRecords, States, SameForTerm
  <2> HIDE DEF wanted, begun, i
  <2> QED
    BY <1>5, <2>1, <2>2, <2>4
<1>9. CASE NextInit(t) /\ ~UNCHANGED images
  <2> DEFINE i == at[t].i
             o == This(t)
             e == InitEnded(o)
  <2>1. SetHere(t, i, e) /\ at[t].mode = "next"
    BY <1>9 DEF NextInit, At
  <2>2. i \in DOMAIN Here(t) /\ o = Here(t)[i] /\ o \in EntryRecords
        /\ (o.state # "UNUSED" => o.image \in Images)
    BY <1>1, <2>1 DEF FrameStands, Here, This, ImagesOk, Frames, TypeInv, UsedHaveImages
  <2> HIDE DEF o
  <2>3. e \in EntryRecords /\ SameForTerm(e, o)
    BY <2>2 DEF InitEnded, EntryRecords, States, SameForTerm
  <2>4. e.state # "UNUSED" => e.image \in Images
    BY <2>2, <2>3 DEF SameForTerm
  <2> HIDE DEF e, i
  <2> QED
    BY <2>1, <2>2, <2>3, <2>4, MarksSetHere
<1>10. CASE RemoveImage(t) /\ images' = [images EXCEPT !.objects[at[t].i] = Unused(@)]
  <2> DEFINE e == Unused(images.objects[at[t].i])
             i == at[t].i
  <2>1. e \in EntryRecords /\ e.state = "UNUSED" /\ ~e.termed
    BY DEF Unused, Entry, EntryRecords, States
  <2>2. SetHere(t, i, e) /\ i \in DOMAIN Here(t)
    BY <1>1, <1>10 DEF SetHere, Here, FrameStands, RemoveImage, In
  <2> HIDE DEF e, i
  <2> QED
    BY <2>1, <2>2, MarksSetHere
<1>11. CASE Call(t)
  BY <1>2, <1>3, <1>4, <1>11 DEF Call, Register, RegisterRemove, Launch, UnlinkModule, Exit
<1>12. CASE Step(t)
  <2>1. Return(t) \/ Walk(t) \/ NextFunction(t) \/ InitDone(t) \/ Terminate(t) => UNCHANGED images
    BY DEF Return, Walk, NextFunction, InitDone, Terminate
  <2>2. RemoveImage(t) =>
          UNCHANGED images \/ images' = [images EXCEPT !.objects[at[t].i] = Unused(@)]
    BY DEF RemoveImage
  <2>3. ~ExitModules(t) /\ ~NextTerm(t)
    BY DEF ExitModules, NextTerm, At, In
  <2> QED
    BY <1>2, <1>6, <1>7, <1>8, <1>9, <1>10, <1>12, <2>1, <2>2, <2>3 DEF Step
<1> QED
  BY <1>11, <1>12

(* A terminator returns to exit().                                           *)
LEMMA ReturnToExit ==
  ASSUME TypeInv, TermInv, NEW t \in Threads, Return(t), at[t].phase = "exit"
  PROVE  TermInv'
<1>1. at[t] \in Frames /\ FramesOk /\ Local(t) /\ Step(t)
  BY LocalSteps DEF TypeInv, Typed, FramesOk, Step
<1>2. at'[t] = [at[t] EXCEPT !.mode = "next"] /\ at[t].mode = "call" /\ UNCHANGED images
  BY <1>1 DEF Return, FramesOk
<1>3. /\ at'[t].phase = at[t].phase /\ at'[t].list = at[t].list /\ at'[t].i = at[t].i
      /\ at'[t].fn = at[t].fn /\ at'[t].n = at[t].n /\ at'[t].mode = "next"
  BY <1>1, <1>2 DEF Frames
<1>4. ASSUME NEW k \in Kinds, NEW i \in DOMAIN images[k]
      PROVE  TermAt(k, i)' /\ \A u \in Threads : CleanAt(u, k, i)'
  <2>1. KeepsTerm(t, k, i)
    BY <1>2, <1>3 DEF KeepsTerm, TermWork
  <2>2. SameForTerm(images'[k][i], images[k][i])
    BY <1>2 DEF SameForTerm
  <2>3. CleanAt(t, k, i)'
    BY <1>3 DEF CleanAt
  <2> QED
    BY <1>1, <2>1, <2>2, <2>3, TermKept, CleanStep
<1> QED
  BY <1>1, <1>2, <1>4, HoldingStep, ExitOnce DEF TermInv

(* The next terminator is called, or all were, and the pass is not clean.    *)
LEMMA NextTermSteps ==
  ASSUME TypeInv, TermInv, NEW t \in Threads, NextTerm(t)
  PROVE  TermInv'
<1> DEFINE i == at[t].i
           o == This(t)
<1>1. FramesOk /\ ImagesOk /\ IsABag(calls) /\ at[t] \in Frames /\ FrameStands(t)
      /\ at[t].phase = "exit" /\ at[t].mode = "next" /\ Local(t) /\ Step(t)
      /\ UNCHANGED images
  BY LocalSteps DEF TypeInv, Typed, FramesOk, FramesStand, NextTerm, At, In, Step
<1>2. \/ at[t].fn < at[t].n /\ CallOut(t, i, "term", at[t].fn + 1, o.image)
      \/ at[t].fn = at[t].n /\ cleanPass' = FALSE
  BY DEF NextTerm
<1>3. i \in DOMAIN Here(t) /\ o = Here(t)[i] /\ o \in EntryRecords /\ at[t].list \in Kinds
      /\ i \in Nat \ {0} /\ at[t].fn \in Nat \ {0} /\ at[t].n \in Nat
  BY <1>1 DEF FrameStands, RoutinePhases, Here, This, ImagesOk, Frames
<1>4. CASE at[t].fn < at[t].n /\ CallOut(t, i, "term", at[t].fn + 1, o.image)
  <2>1. at[t].fn + 1 \in AnyFn /\ at[t].fn + 1 # 1 /\ o.image \in Images \cup {None}
    BY <1>3 DEF AnyFn, EntryRecords
  <2> HIDE DEF i, o
  <2>2. CallsOut(t, i, "term", at[t].fn + 1, o.image)
    BY <1>1, <1>3, <1>4, <2>1, CallOutStep
  <2>3. /\ at'[t].phase = at[t].phase /\ at'[t].list = at[t].list /\ at'[t].mode = "call"
        /\ at'[t].i = at[t].i /\ at'[t].fn = at[t].fn + 1 /\ at'[t].n = at[t].n
        /\ <<"term", at[t].fn + 1, o.image>> \in DOMAIN calls'
    BY <2>1, <2>2 DEF CallsOut, i
  <2>4. ASSUME NEW k \in Kinds, NEW j \in DOMAIN images[k] PROVE KeepsTerm(t, k, j)
    <3> SUFFICES ASSUME NEW n \in Nat, NEW im \in Images, images[k][j].image = im,
                        TermWork(t, n, k, j)
                 PROVE  <<"term", n, im>> \in DOMAIN calls' \/ TermWork(t, n, k, j)'
      BY DEF KeepsTerm
    <3>1. k = at[t].list /\ j = at[t].i /\ at[t].fn < n /\ n <= at[t].n
      BY DEF TermWork
    <3>2. im = o.image
      BY <1>3, <3>1 DEF Here, i
    <3>3. CASE n = at[t].fn + 1
      BY <2>3, <3>2, <3>3
    <3>4. CASE n # at[t].fn + 1
      <4>1. at[t].fn + 1 < n
        BY <1>3, <3>1, <3>4
      <4> QED
        BY <1>1, <2>3, <3>1, <4>1 DEF TermWork
    <3> QED
      BY <3>3, <3>4
  <2>5. ASSUME NEW k \in Kinds, NEW j \in DOMAIN images[k]
        PROVE  TermAt(k, j)' /\ \A u \in Threads : CleanAt(u, k, j)'
    <3>1. SameForTerm(images'[k][j], images[k][j])
      BY <1>1 DEF SameForTerm
    <3>2. CleanAt(t, k, j)'
      BY <2>3 DEF CleanAt
    <3> QED
      BY <1>1, <2>4, <3>1, <3>2, TermKept, CleanStep
  <2> QED
    BY <1>1, <2>5, HoldingStep, ExitOnce DEF TermInv
<1>5. CASE at[t].fn = at[t].n /\ cleanPass' = FALSE
  <2>1. ASSUME NEW k \in Kinds, NEW j \in DOMAIN images[k]
        PROVE  TermAt(k, j)' /\ \A u \in Threads : CleanAt(u, k, j)'
    <3>1. ASSUME NEW n \in Nat PROVE ~TermWork(t, n, k, j)
      <4>1. ~(at[t].fn < n /\ n <= at[t].n)
        BY <1>3, <1>5
      <4> QED
        BY <4>1 DEF TermWork
    <3>2. KeepsTerm(t, k, j)
      BY <3>1 DEF KeepsTerm
    <3>3. SameForTerm(images'[k][j], images[k][j])
      BY <1>1 DEF SameForTerm
    <3>4. CleanAt(t, k, j)'
      BY <1>5 DEF CleanAt
    <3> QED
      BY <1>1, <3>2, <3>3, <3>4, TermKept, CleanStep
  <2> QED
    BY <1>1, <2>1, HoldingStep, ExitOnce DEF TermInv
<1> QED
  BY <1>2, <1>4, <1>5

(* The search ends or goes to the libraries: what it has passed is clean.    *)
LEMMA PassesClean ==
  ASSUME TypeInv, TermInv, NEW t \in Threads, at[t].phase = "exit", at[t].mode = "scan",
         cleanPass, Hits(t, {e \in Entries(t) : ToBeTerminated(e)}) = {},
         NEW k \in Kinds, NEW j \in DOMAIN images[k], k = at[t].list \/ ~Before(t, k, j)
  PROVE  ~ToBeTerminated(images[k][j])
<1>1. FramesOk /\ ImagesOk
  BY DEF TypeInv, Typed
<1>2. CASE ~Before(t, k, j)
  BY <1>2 DEF TermInv, CleanAt
<1>3. CASE k = at[t].list /\ Before(t, k, j)
  <2>1. at[t].i <= j
    BY <1>3 DEF Before, Kinds
  <2> QED
    BY <1>1, <1>3, <2>1, NoHit DEF Entries, Here
<1> QED
  BY <1>2, <1>3

(* A module is marked before its first terminator is called; a pass that     *)
(* finds none passes what it looked at.                                      *)
LEMMA ExitModulesSteps ==
  ASSUME TypeInv, TermInv, NEW t \in Threads, ExitModules(t)
  PROVE  TermInv'
<1> DEFINE wanted == {e \in Entries(t) : ToBeTerminated(e)}
           left == Hits(t, wanted)
           i == Min(left)
           o == Here(t)[i]
           e == [o EXCEPT !.termed = TRUE]
           k == at[t].list
<1>1. FramesOk /\ ImagesOk /\ IsABag(calls) /\ at[t] \in Frames /\ k \in Kinds
      /\ at[t].phase = "exit" /\ at[t].mode = "scan" /\ Local(t) /\ Step(t)
  BY LocalSteps DEF TypeInv, Typed, FramesOk, Frames, ExitModules, At, In, Step
<1>2. \A q \in Kinds : \A j \in DOMAIN images[q] : KeepsTerm(t, q, j)
  BY <1>1 DEF KeepsTerm, TermWork
<1>3. CASE UNCHANGED images /\ left = {}
  <2>1. ASSUME NEW q \in Kinds, NEW j \in DOMAIN images[q] PROVE TermAt(q, j)'
    <3>1. SameForTerm(images'[q][j], images[q][j])
      BY <1>3 DEF SameForTerm
    <3> QED
      BY <1>1, <1>2, <3>1, TermKept
  <2>2. ASSUME NEW q \in Kinds, NEW j \in DOMAIN images[q] PROVE CleanAt(t, q, j)'
    <3>1. 1 <= j
      BY <1>1 DEF ImagesOk
    <3>2. CASE NextList(t) /\ UNCHANGED cleanPass
      <4>1. /\ at[t].list = "objects" /\ at'[t].list = "libs" /\ at'[t].mode = "scan"
            /\ at'[t].i = 1
        BY <1>1, <3>2, NextListStep
      <4>2. ~Before(t, q, j)' => q = at[t].list
        BY <3>1, <4>1 DEF Before, Kinds
      <4> QED
        BY <1>1, <1>3, <3>2, <4>2, PassesClean DEF CleanAt
    <3>3. CASE NextPhase(t, "exit")
      <4>1. /\ at'[t].list = "objects" /\ at'[t].mode = "scan" /\ at'[t].i = 1
        <5>1. "exit" \in Phases
          BY DEF Phases
        <5> QED
          BY <1>1, <3>3, <5>1, NextPhaseStep
      <4>2. Before(t, q, j)'
        BY <3>1, <4>1 DEF Before, Kinds
      <4> QED
        BY <4>2 DEF CleanAt
    <3>4. CASE Leave(t)
      <4>1. at'[t].phase = "out"
        BY <1>1, <3>4, LeaveStep DEF Idle
      <4> QED
        BY <4>1 DEF CleanAt
    <3> QED
      BY <1>3, <3>2, <3>3, <3>4 DEF ExitModules
  <2>3. ASSUME NEW q \in Kinds, NEW j \in DOMAIN images[q]
        PROVE  \A u \in Threads : CleanAt(u, q, j)'
    BY <1>1, <2>2, CleanStep
  <2> QED
    BY <1>1, <1>3, <2>1, <2>3, HoldingStep, ExitOnce DEF TermInv
<1>4. CASE /\ left # {} /\ SetHere(t, i, e) /\ UNCHANGED cleanPass
           /\ \/ Routines[o.image] = 0 /\ GoOn(t, i + 1)
              \/ CallOut(t, i, "term", 1, o.image)
  <2>1. i \in DOMAIN Here(t) /\ o \in EntryRecords /\ o \in wanted /\ i \in Nat \ {0}
        /\ \A j \in DOMAIN Here(t) : at[t].i <= j /\ j < i => Here(t)[j] \notin wanted
    BY <1>1, <1>4, FirstHit
  <2>2. o.state = "LINKED" /\ i \in DOMAIN images[k] /\ images[k][i] = o
    BY <2>1 DEF ToBeTerminated, Here
  <2>3. o.image \in Images
    BY <1>1, <2>2 DEF TypeInv, UsedHaveImages
  <2> HIDE DEF i, o, left, k
  <2>4. e \in EntryRecords /\ e.image = o.image /\ e.termed /\ e.state # "UNUSED"
    BY <2>1, <2>2 DEF EntryRecords
  <2>5. SetHere(t, i, e)
    BY <1>4
  <2> HIDE DEF e
  <2>6. /\ \A q \in Kinds : DOMAIN images'[q] = DOMAIN images[q]
        /\ images'[k][i] = e
        /\ \A q \in Kinds : \A j \in DOMAIN images[q] :
             q # k \/ j # i => images'[q][j] = images[q][j]
    BY <2>1, <2>3, <2>4, <2>5, OtherEntry DEF k
  <2>7. PICK K \in Kinds, I \in Nat \ {0}, M \in Images : K = k /\ I = i /\ M = o.image
    BY <1>1, <2>1, <2>3
  <2>8. \A n \in 1 .. Routines[M] : TerminatedOrPending(n, M, K, I)'
    <3> SUFFICES ASSUME NEW n \in 1 .. Routines[M]
                 PROVE  TerminatedOrPending(n, M, K, I)'
      OBVIOUS
    <3>1. Routines[M] \in Nat
      BY CalloutsAssumption
    <3>2. CallOut(t, i, "term", 1, o.image)
      BY <1>4, <2>7, <3>1
    <3>3. CallsOut(t, i, "term", 1, o.image)
      <4>1. 1 \in AnyFn
        BY DEF AnyFn
      <4> QED
        BY <1>1, <2>1, <2>3, <3>2, <4>1, CallOutStep
    <3>4. /\ at'[t].phase = "exit" /\ at'[t].list = K /\ at'[t].mode = "call"
          /\ at'[t].i = I /\ at'[t].fn = 1 /\ at'[t].n = Routines[M]
          /\ <<"term", 1, M>> \in DOMAIN calls'
      BY <1>1, <2>7, <3>3 DEF CallsOut, k
    <3>5. CASE n = 1
      BY <3>4, <3>5 DEF TerminatedOrPending
    <3>6. CASE n # 1
      <4>1. 1 < n /\ n <= at'[t].n
        BY <3>1, <3>4, <3>6
      <4>2. TermWork(t, n, K, I)'
        BY <3>4, <4>1 DEF TermWork
      <4> QED
        BY <4>2 DEF TerminatedOrPending
    <3> QED
      BY <3>5, <3>6
  <2>9. ASSUME NEW q \in Kinds, NEW j \in DOMAIN images[q] PROVE TermAt(q, j)'
    <3>1. CASE q = K /\ j = I
      <4>1. images'[q][j].image = M /\ images'[q][j].state # "UNUSED"
        BY <2>4, <2>6, <2>7, <3>1
      <4> QED
        BY <2>8, <3>1, <4>1 DEF TermAt
    <3>2. CASE q # K \/ j # I
      <4>1. SameForTerm(images'[q][j], images[q][j])
        BY <2>6, <2>7, <2>9, <3>2 DEF SameForTerm
      <4> QED
        BY <1>1, <1>2, <4>1, TermKept
    <3> QED
      BY <3>1, <3>2
  <2>10. /\ at'[t].phase = "exit" /\ at'[t].list = k
         /\ \/ at'[t].mode = "scan" /\ at'[t].i = i + 1
            \/ at'[t].mode = "call"
    BY <1>1, <1>4, CallOutFrame, GoOnFrame DEF k
  <2>11. ASSUME NEW q \in Kinds, NEW j \in DOMAIN images[q] PROVE CleanAt(t, q, j)'
    <3> SUFFICES ASSUME at'[t].mode = "scan", cleanPass', ~Before(t, q, j)'
                 PROVE  ~ToBeTerminated(images'[q][j])
      BY DEF CleanAt
    <3>1. j \in Nat /\ at[t].i \in Nat
      BY <1>1 DEF ImagesOk, Frames
    <3>2. CASE q = k /\ j = i
      BY <2>4, <2>6, <3>2 DEF ToBeTerminated
    <3>3. CASE q # k \/ j # i
      <4>1. images'[q][j] = images[q][j]
        BY <2>6, <3>3
      <4>2. CASE ~Before(t, q, j)
        BY <1>1, <1>4, <4>1, <4>2 DEF TermInv, CleanAt
      <4>3. CASE Before(t, q, j)
        <5>1. q = k /\ at[t].i <= j /\ ~(i + 1 <= j)
          BY <1>1, <2>10, <4>3 DEF Before, k
        <5>2. j < i
          BY <2>1, <3>1, <3>3, <5>1
        <5>3. images[q][j] \notin wanted
          BY <2>1, <5>1, <5>2 DEF Here, k
        <5>4. images[q][j] \in Entries(t)
          BY <5>1 DEF Entries, Here, k
        <5> QED
          BY <4>1, <5>3, <5>4
      <4> QED
        BY <4>2, <4>3
    <3> QED
      BY <3>2, <3>3
  <2>12. ASSUME NEW q \in Kinds, NEW j \in DOMAIN images[q]
         PROVE  \A u \in Threads : CleanAt(u, q, j)'
    BY <1>1, <2>11, CleanStep
  <2> QED
    BY <1>1, <2>6, <2>9, <2>12, HoldingStep, ExitOnce DEF TermInv
<1>5. \/ UNCHANGED images /\ left = {}
      \/ /\ left # {} /\ SetHere(t, i, e) /\ UNCHANGED cleanPass
         /\ \/ Routines[o.image] = 0 /\ GoOn(t, i + 1)
            \/ CallOut(t, i, "term", 1, o.image)
  BY DEF ExitModules
<1> QED
  BY <1>3, <1>4, <1>5

\* At the start no module is terminated.
LEMMA InitTerm == Init => TermInv
<1> SUFFICES ASSUME Init PROVE TermInv
  OBVIOUS
<1>1. \A t \in Threads : at[t].phase = "out"
  BY DEF Init, Idle
<1>2. ASSUME NEW k \in Kinds, NEW i \in DOMAIN images[k] PROVE ~images[k][i].termed
  BY <1>2 DEF Init, Kinds, Entry
<1> QED
  BY <1>1, <1>2 DEF TermInv, TermAt, CleanAt, Holding

\* Every step keeps it.
LEMMA NextTermInv == TypeInv /\ TermInv /\ [Next]_vars => TermInv'
<1> SUFFICES ASSUME TypeInv, TermInv, [Next]_vars PROVE TermInv'
  OBVIOUS
<1>1. CASE UNCHANGED vars
  BY <1>1 DEF vars, callVars, TermInv, TermAt, CleanAt, Holding, Before, TerminatedOrPending,
     TermWork, ToBeTerminated
<1>2. ASSUME NEW t \in Threads, Call(t) \/ Step(t), at[t].phase # "exit" PROVE TermInv'
  BY <1>2, OtherSteps, TermElsewhere
<1>3. ASSUME NEW t \in Threads, Call(t) \/ Step(t), at[t].phase = "exit" PROVE TermInv'
  <2>1. Return(t) \/ ExitModules(t) \/ NextTerm(t)
    BY <1>3 DEF Call, Step, LinkModule, BindModule, Register, RegisterRemove, Launch, UnlinkModule,
       Exit, Walk, AddImages, LinkModules, NextFunction, InitModule, InitDone, NextInit,
       Terminate, RemoveImage, Enter, Out, At, In
  <2> QED
    BY <1>3, <2>1, ReturnToExit, ExitModulesSteps, NextTermSteps
<1> QED
  BY <1>1, <1>2, <1>3 DEF Next, Stopped

\* It holds in every state.
LEMMA TermInvHolds == Spec => [](TypeInv /\ TermInv)
<1>1. Init => TypeInv /\ TermInv
  BY InitTyped, InitTerm
<1>2. (TypeInv /\ TermInv) /\ [Next]_vars => (TypeInv /\ TermInv)'
  BY NextTyped, NextTermInv
<1> QED
  BY <1>1, <1>2, PTL DEF Spec

(* exit() ends after a clean pass over both lists.                           *)
LEMMA ExitEnds ==
  ASSUME TypeInv, TermInv, NEW t \in Threads, Call(t) \/ Step(t),
         at[t].phase = "exit", at'[t].phase = "out"
  PROVE  /\ at[t].mode = "scan"
         /\ \A k \in Kinds : \A i \in DOMAIN images[k] : ~ToBeTerminated(images[k][i])
<1>1. FramesOk /\ at[t] \in Frames
  BY DEF TypeInv, Typed, FramesOk
<1>2. Return(t) \/ ExitModules(t) \/ NextTerm(t)
  BY DEF Call, Step, LinkModule, BindModule, Register, RegisterRemove, Launch, UnlinkModule,
     Exit, Walk, AddImages, LinkModules, NextFunction, InitModule, InitDone, NextInit,
     Terminate, RemoveImage, Enter, Out, At, In
<1>3. ~Return(t)
  BY <1>1 DEF Return, FramesOk, Frames
<1>4. ~NextTerm(t)
  BY <1>1, SamePhase DEF NextTerm
<1>5. ExitModules(t)
  BY <1>2, <1>3, <1>4
<1> DEFINE left == Hits(t, {e \in Entries(t) : ToBeTerminated(e)})
<1>6. left = {} /\ cleanPass /\ at[t].list = "libs"
  <2>1. ~NextPhase(t, "exit")
    <3>1. "exit" \in Phases
      BY DEF Phases
    <3> QED
      BY <1>1, <3>1, NextPhaseStep
  <2> QED
    BY <1>1, <1>5, <2>1, SamePhase DEF ExitModules
<1>7. at[t].mode = "scan"
  BY <1>5 DEF ExitModules, At
<1>8. ASSUME NEW k \in Kinds, NEW i \in DOMAIN images[k]
      PROVE  k = at[t].list \/ ~Before(t, k, i)
  BY <1>6, <1>7 DEF Before, Kinds
<1> QED
  BY <1>6, <1>7, <1>8, PassesClean

(* When exit() is done with them, every module that is linked was terminated *)
(* completely, those other threads linked meanwhile included, for any number *)
(* of threads and modules.                                                   *)
THEOREM ExitHasTerminatedAll == Spec => ExitTerminatesAll
<1>1. ASSUME TypeInv, TermInv, [Next]_vars
      PROVE  [\A t \in Threads : at[t].phase = "exit" /\ Out(t)' =>
                \A e \in Loaded : e.state = "LINKED" =>
                  \A n \in 1..Routines[e.image] : Called("term", n, e.image) >= 1]_vars
  <2> SUFFICES ASSUME NEW t \in Threads, at[t].phase = "exit", at'[t].phase = "out",
                      NEW e \in Loaded, e.state = "LINKED", NEW n \in 1..Routines[e.image]
               PROVE  Called("term", n, e.image) >= 1
    BY DEF Out
  <2>1. PICK u \in Threads : Call(u) \/ Step(u)
    BY <1>1 DEF Next, Stopped, vars
  <2>2. u = t
    BY <1>1, <2>1, LocalSteps DEF Local
  <2>3. /\ at[t].mode = "scan"
        /\ \A k \in Kinds : \A i \in DOMAIN images[k] : ~ToBeTerminated(images[k][i])
    BY <1>1, <2>1, <2>2, ExitEnds
  <2>4. PICK k \in Kinds : \E i \in DOMAIN images[k] : e = images[k][i]
    BY DEF Loaded
  <2>5. PICK i \in DOMAIN images[k] : e = images[k][i]
    BY <2>4
  <2>6. e.termed
    BY <2>3, <2>5 DEF ToBeTerminated
  <2>7. TerminatedOrPending(n, e.image, k, i)
    BY <1>1, <2>5, <2>6 DEF TermInv, TermAt
  <2>8. \A w \in Threads : ~TermWork(w, n, k, i)
    BY <1>1, <2>3 DEF TermWork, TermInv
  <2>9. <<"term", n, e.image>> \in DOMAIN calls
    BY <2>7, <2>8 DEF TerminatedOrPending
  <2>10. calls[<<"term", n, e.image>>] \in Nat \ {0}
    BY <1>1, <2>9 DEF TypeInv, Typed, IsABag
  <2> QED
    BY <2>9, <2>10 DEF Called, BagIn, BagToSet
<1> QED
  BY <1>1, TermInvHolds, PTL DEF Spec, ExitTerminatesAll
-----------------------------------------------------------------------------
(* Each routine once *)

(* Which image is where: the executable first, a bundle or nothing in the    *)
(* entries behind it, each image in one entry, and no more entries than      *)
(* bundles were linked.                                                      *)
PlacesInv ==
  /\ 1 \in DOMAIN images.objects /\ images.objects[1].image = Executable
  /\ \A i \in DOMAIN images.objects :
       i # 1 => images.objects[i].image \in linked \cup {None}
  /\ \A i \in DOMAIN images.libs : images.libs[i].image \in InLibraries \cup Needed
  /\ \A k \in Kinds : \A i \in DOMAIN images[k] :
       images[k][i].image = None <=> images[k][i].state = "UNUSED"
  /\ \A k, q \in Kinds : \A i \in DOMAIN images[k] : \A j \in DOMAIN images[q] :
       images[k][i].image = images[q][j].image /\ images[k][i].image # None
         => k = q /\ i = j
  /\ IsFiniteSet(linked) /\ Len(images.objects) <= Cardinality(linked) + 1

\* The program had the handle of the bundle, and has not any more.
GivenUp(e) == e \in linked \ usable /\ \A t \in Threads : at[t].module # e

(* A bundle has a handle when the thread that links it is done, and one      *)
(* thread at most unlinks it.                                                *)
Unlinking(t) == at[t].phase \in {"terminate", "remove"}

HandlesInv ==
  /\ \A t \in Threads : at[t].module # None => at[t].module \notin usable /\ ~Unlinking(t)
  /\ \A t, u \in Threads : at[t].module = at[u].module /\ at[t].module # None => t = u
  /\ \A t \in Threads : Unlinking(t) => /\ GivenUp(at[t].image)
                                        /\ images.objects[at[t].i].image = at[t].image
  /\ \A t, u \in Threads :
       Unlinking(t) /\ Unlinking(u) /\ at[t].image = at[u].image => t = u

(* One thread makes the delayed calls.                                       *)
DelayInv ==
  /\ \A t, u \in Threads :
       at[t].phase = "initDelayed" /\ at[u].phase = "initDelayed" => t = u
  /\ \A t \in Threads : at[t].phase = "initDelayed" => delayModInit

(* What a module's routines of a kind are called by, "init" or "term", where *)
(* they have been begun, and what is still to be called by the thread there. *)
Routine == {"init", "term"}

PhasesOf(r) == IF r = "init" THEN {"init", "initDelayed"} ELSE {"exit"}

Working(r, t, k, i) ==
  /\ at[t].phase \in PhasesOf(r)
  /\ at[t].mode # "scan" /\ at[t].list = k /\ at[t].i = i

StillCalls(r, t, n, k, i) == Working(r, t, k, i) /\ at[t].fn < n /\ n <= at[t].n

Begun(r, k, i) ==
  IF r = "term" THEN images[k][i].termed
  ELSE IF k = "libs" THEN images[k][i].inited
  ELSE images[k][i].state \in {"INITIALIZING", "LINKED"} /\ Passed(k, i)

\* Where another bundle may be by now
Changing(k, i) == k = "objects" /\ i # 1 /\ EntryReused

WorkInv(r) ==
  \A t \in Threads : \A k \in Kinds : \A i \in DOMAIN images[k] :
    Working(r, t, k, i) =>
      /\ \/ Begun(r, k, i) \/ Changing(k, i)
         \/ k = "objects" /\ i # 1 /\ images[k][i].state = "UNUSED"
      /\ \A u \in Threads : Working(r, u, k, i) => u = t \/ Changing(k, i)

Excused(r, e, n) == MayBeMistaken(e, n) \/ (r = "term" /\ GivenUp(e))

\* The image is gone, and is not linked again.
Gone(e) == e \in linked /\ \A k \in Kinds : \A i \in DOMAIN images[k] : images[k][i].image # e

\* It is where its routines have been begun, and this one is not called again.
DoneAt(r, e, n, k, i) ==
  /\ images[k][i].image = e /\ Begun(r, k, i)
  /\ \A t \in Threads : ~StillCalls(r, t, n, k, i)

Done(r, e, n) == Gone(e) \/ \E k \in Kinds : \E i \in DOMAIN images[k] : DoneAt(r, e, n, k, i)

Once(r, e, n) ==
  Excused(r, e, n) \/ Called(r, n, e) = 0 \/ (Called(r, n, e) = 1 /\ Done(r, e, n))

OnceInv(r) == \A e \in Images : \A n \in 1 .. Routines[e] : Once(r, e, n)

OnceInvs == PlacesInv /\ HandlesInv /\ DelayInv /\ \A r \in Routine : WorkInv(r) /\ OnceInv(r)

(* An entry that keeps its image, and goes no step back                      *)
Further(e, o) ==
  /\ e.image = o.image
  /\ e.state = "UNUSED" <=> o.state = "UNUSED"
  /\ o.inited => e.inited
  /\ o.termed => e.termed
  /\ o.state \in {"INITIALIZING", "LINKED"} => e.state \in {"INITIALIZING", "LINKED"}

AllKept ==
  \A k \in Kinds : /\ DOMAIN images'[k] = DOMAIN images[k]
                   /\ \A i \in DOMAIN images[k] : Further(images'[k][i], images[k][i])

\* One entry goes further, the others do not change.
LEMMA KeptSetHere ==
  ASSUME TypeInv, NEW t \in Threads, NEW i \in DOMAIN Here(t), NEW e \in EntryRecords,
         SetHere(t, i, e), Further(e, Here(t)[i])
  PROVE  AllKept
<1>1. e.state # "UNUSED" => e.image \in Images
  BY DEF Further, TypeInv, Typed, UsedHaveImages, Here, FramesOk, Frames
<1>2. /\ \A q \in Kinds : DOMAIN images'[q] = DOMAIN images[q]
      /\ images'[at[t].list][i] = e
      /\ \A q \in Kinds : \A j \in DOMAIN images[q] :
           q # at[t].list \/ j # i => images'[q][j] = images[q][j]
  BY <1>1, OtherEntry
<1>3. ASSUME NEW k \in Kinds, NEW j \in DOMAIN images[k]
      PROVE  Further(images'[k][j], images[k][j])
  <2>1. CASE k = at[t].list /\ j = i
    BY <1>2, <2>1 DEF Here
  <2>2. CASE k # at[t].list \/ j # i
    BY <1>2, <1>3, <2>2 DEF Further
  <2> QED
    BY <2>1, <2>2
<1> QED
  BY <1>2, <1>3 DEF AllKept

\* What unload_bundle_image() leaves
Removes(t) ==
  /\ at[t].phase = "remove" /\ Leave(t)
  /\ images' = [images EXCEPT !.objects[at[t].i] = Unused(@)]
  /\ UNCHANGED <<callVars, calls>>

(* Every step but the linking and the unloading of a bundle leaves each      *)
(* image where it is.                                                        *)
LEMMA StepsKeep ==
  ASSUME TypeInv, NEW t \in Threads, Call(t) \/ Step(t)
  PROVE  \/ \E b \in Bundles : LinkModule(t, b)
         \/ Removes(t)
         \/ AllKept /\ linked' = linked
<1>1. FramesOk /\ ImagesOk /\ at[t] \in Frames /\ FrameStands(t)
  BY DEF TypeInv, Typed, FramesOk, FramesStand
<1>2. UNCHANGED images => AllKept
  BY DEF AllKept, Further
<1>3. ASSUME NEW i \in DOMAIN images.libs, BindModule(t, i) PROVE AllKept
  <2>1. /\ images.libs[i].state = "UNLINKED"
        /\ images'["libs"][i] = [images.libs[i] EXCEPT !.state = "RELOCATED"]
        /\ \A k \in Kinds : DOMAIN images'[k] = DOMAIN images[k]
        /\ \A k \in Kinds : \A j \in DOMAIN images[k] :
             k # "libs" \/ j # i => images'[k][j] = images[k][j]
    BY <1>3, BindModuleTyped
  <2>2. images.libs[i] \in EntryRecords
    BY <1>1 DEF ImagesOk, Kinds
  <2>3. ASSUME NEW k \in Kinds, NEW j \in DOMAIN images[k]
        PROVE  Further(images'[k][j], images[k][j])
    <3>1. CASE k = "libs" /\ j = i
      BY <2>1, <2>2, <3>1 DEF EntryRecords, Further
    <3>2. CASE k # "libs" \/ j # i
      BY <2>1, <2>3, <3>2 DEF Further
    <3> QED
      BY <3>1, <3>2
  <2> QED
    BY <2>1, <2>3 DEF AllKept
<1>4. ASSUME NEW wanted, Hits(t, wanted) # {}, NEW i, i = Min(Hits(t, wanted)), NEW e,
             SetHere(t, i, e),
             Here(t)[i] \in EntryRecords /\ Here(t)[i] \in wanted =>
               e \in EntryRecords /\ Further(e, Here(t)[i])
      PROVE  AllKept
  <2>1. i \in DOMAIN Here(t) /\ Here(t)[i] \in EntryRecords /\ Here(t)[i] \in wanted
    BY <1>1, <1>4, FirstHit
  <2> QED
    BY <1>4, <2>1, KeptSetHere
<1>5. ASSUME AddImages(t) PROVE AllKept
  <2> DEFINE wanted == {e \in Entries(t) : e.state # "UNUSED" /\ ~e.registered}
             i == Min(Hits(t, wanted))
             o == Here(t)[i]
             e == [o EXCEPT !.registered = TRUE]
  <2>1. o \in EntryRecords => e \in EntryRecords /\ Further(e, o)
    BY DEF EntryRecords, Further
  <2>2. UNCHANGED images \/ (Hits(t, wanted) # {} /\ SetHere(t, i, e))
    BY <1>5 DEF AddImages
  <2>3. i = Min(Hits(t, wanted))
    OBVIOUS
  <2>4. CASE Hits(t, wanted) # {} /\ SetHere(t, i, e)
    <3> HIDE DEF wanted, e, i
    <3> QED
      BY <1>4, <2>1, <2>3, <2>4
  <2> QED
    BY <1>2, <2>2, <2>4
<1>6. ASSUME LinkModules(t) PROVE AllKept
  <2> DEFINE wanted == {e \in Entries(t) : e.state = "RELOCATED"}
             i == Min(Hits(t, wanted))
             o == Here(t)[i]
             e == Registering(o)
  <2>1. o \in EntryRecords /\ o \in wanted => e \in EntryRecords /\ Further(e, o)
    BY DEF EntryRecords, Further, Registering, States
  <2>2. UNCHANGED images \/ (Hits(t, wanted) # {} /\ SetHere(t, i, e))
    BY <1>6 DEF LinkModules
  <2>3. i = Min(Hits(t, wanted))
    OBVIOUS
  <2>4. CASE Hits(t, wanted) # {} /\ SetHere(t, i, e)
    <3> HIDE DEF wanted, e, i
    <3> QED
      BY <1>4, <2>1, <2>3, <2>4
  <2> QED
    BY <1>2, <2>2, <2>4
<1>7. ASSUME InitModule(t) PROVE AllKept
  <2> DEFINE wanted == {e \in Entries(t) : ToInitialise(t, e)}
             i == Min(Hits(t, wanted))
             o == Here(t)[i]
             begun == InitBegun(t, o)
  <2>1. SetHere(t, i, begun) \/ SetHere(t, i, InitEnded(begun))
    BY <1>7 DEF InitModule
  <2>2. Hits(t, wanted) # {} /\ i = Min(Hits(t, wanted))
    BY <1>7 DEF InitModule
  <2>3. CallsMade(t) \in BOOLEAN
    BY DEF CallsMade, MakingDelayed, TypeInv, Typed, RestOk
  <2>4. o \in EntryRecords /\ o \in wanted =>
          /\ begun \in EntryRecords /\ Further(begun, o)
          /\ InitEnded(begun) \in EntryRecords /\ Further(InitEnded(begun), o)
    <3>1. o \in wanted => o.state \in {"REGISTERING", "LINKED"}
      BY DEF ToInitialise
    <3> HIDE DEF o, wanted
    <3> QED
      BY <2>3, <3>1 DEF InitBegun, InitEnded, EntryRecords, States, Further
  <2> HIDE DEF wanted, begun, i
  <2> QED
    BY <1>4, <2>1, <2>2, <2>4
<1>8. ASSUME ExitModules(t) PROVE AllKept
  <2> DEFINE wanted == {e \in Entries(t) : ToBeTerminated(e)}
             i == Min(Hits(t, wanted))
             o == Here(t)[i]
             e == [o EXCEPT !.termed = TRUE]
  <2>1. o \in EntryRecords => e \in EntryRecords /\ Further(e, o)
    BY DEF EntryRecords, Further
  <2>2. UNCHANGED images \/ (Hits(t, wanted) # {} /\ SetHere(t, i, e))
    BY <1>8 DEF ExitModules
  <2>3. i = Min(Hits(t, wanted))
    OBVIOUS
  <2>4. CASE Hits(t, wanted) # {} /\ SetHere(t, i, e)
    <3> HIDE DEF wanted, e, i
    <3> QED
      BY <1>4, <2>1, <2>3, <2>4
  <2> QED
    BY <1>2, <2>2, <2>4
<1>9. ASSUME NextInit(t), ~UNCHANGED images PROVE AllKept
  <2> DEFINE i == at[t].i
             o == This(t)
             e == InitEnded(o)
  <2>1. SetHere(t, i, e) /\ at[t].mode = "next"
    BY <1>9 DEF NextInit, At
  <2>2. i \in DOMAIN Here(t) /\ o = Here(t)[i] /\ o \in EntryRecords
    BY <1>1, <2>1 DEF FrameStands, Here, This, ImagesOk, Frames
  <2> HIDE DEF o
  <2>3. e \in EntryRecords /\ Further(e, o)
    BY <2>2 DEF InitEnded, EntryRecords, States, Further
  <2> HIDE DEF e, i
  <2> QED
    BY <2>1, <2>2, <2>3, KeptSetHere
<1>10. CASE Call(t)
  BY <1>2, <1>3, <1>10 DEF Call, BindModule, Register, RegisterRemove, Launch, UnlinkModule, Exit,
     callVars
<1>11. CASE Step(t)
  <2>1. Return(t) \/ Walk(t) \/ NextFunction(t) \/ InitDone(t) \/ Terminate(t) \/ NextTerm(t)
          => UNCHANGED images
    BY DEF Return, Walk, NextFunction, InitDone, Terminate, NextTerm
  <2>2. RemoveImage(t) => UNCHANGED images \/ Removes(t)
    BY DEF RemoveImage, Removes, In
  <2>3. linked' = linked
    BY <1>11 DEF Step, Return, Walk, AddImages, LinkModules, NextFunction, InitModule, InitDone,
       NextInit, Terminate, RemoveImage, ExitModules, NextTerm, callVars
  <2> QED
    BY <1>2, <1>5, <1>6, <1>7, <1>8, <1>9, <1>11, <2>1, <2>2, <2>3 DEF Step
<1> QED
  BY <1>10, <1>11

\* A library that is added was not there.
LEMMA WithLibraryAdds ==
  ASSUME NEW s \in Seq(EntryRecords), NEW l \in Images,
         NEW i \in DOMAIN WithLibrary(s, l) \ DOMAIN s
  PROVE  i = Len(s) + 1 /\ \A j \in DOMAIN s : s[j].image # l
<1>1. DOMAIN s = 1 .. Len(s) /\ Len(s) \in Nat
  OBVIOUS
<1>2. CASE \E j \in DOMAIN s : s[j].image = l
  BY <1>2 DEF WithLibrary
<1>3. CASE \A j \in DOMAIN s : s[j].image # l
  <2> DEFINE e == Entry(l, "RELOCATED", FALSE)
  <2>1. e \in EntryRecords
    BY DEF Entry, EntryRecords, States
  <2>2. WithLibrary(s, l) = Append(s, e)
    BY <1>3 DEF WithLibrary
  <2> HIDE DEF e
  <2>3. DOMAIN Append(s, e) = 1 .. Len(s) + 1
    BY <2>1
  <2> QED
    BY <1>1, <1>3, <2>2, <2>3
<1> QED
  BY <1>2, <1>3

\* What NSLinkModule() adds: a bundle in an entry that is UNUSED or new, and a
\* library behind the others, when it was not there.
BundleAt(b, j) ==
  /\ DOMAIN images'["objects"] = DOMAIN images["objects"] \cup {j}
  /\ \A i \in DOMAIN images["objects"] :
       i # j => images'["objects"][i] = images["objects"][i]
  /\ j \in DOMAIN images["objects"] => images["objects"][j].state = "UNUSED"
  /\ images'["objects"][j].image = b /\ images'["objects"][j].state = "RELOCATED"

LibrariesAdded(b) ==
  /\ DOMAIN images["libs"] \subseteq DOMAIN images'["libs"]
  /\ \A i \in DOMAIN images["libs"] : Further(images'["libs"][i], images["libs"][i])
  /\ \A i \in DOMAIN images'["libs"] \ DOMAIN images["libs"] :
       /\ images'["libs"][i].image = Needs[b] /\ Needs[b] \in Needed
       /\ images'["libs"][i].state = "RELOCATED"
       /\ \A j \in DOMAIN images["libs"] : images["libs"][j].image # Needs[b]
       /\ \A j \in DOMAIN images'["libs"] \ DOMAIN images["libs"] : i = j

\* There is such an entry.
LEMMA LinkPlaces ==
  ASSUME TypeInv, NEW t \in Threads, NEW b \in Bundles, LinkModule(t, b)
  PROVE  (\E j \in Nat \ {0} : BundleAt(b, j)) /\ LibrariesAdded(b)
<1>1. /\ images["objects"] \in Seq(EntryRecords) /\ images["libs"] \in Seq(EntryRecords)
  BY DEF TypeInv, Typed, ImagesOk, Kinds
<1> DEFINE r == WithBundle(images.objects, b)
           q == IF Needs[b] = None THEN images.libs ELSE WithLibrary(images.libs, Needs[b])
<1>2. images'["objects"] = r /\ images'["libs"] = q
  BY DEF LinkModule
<1> HIDE DEF r, q
<1>3. PICK j \in Nat \ {0} :
        /\ r \in Seq(EntryRecords)
        /\ DOMAIN r = DOMAIN images.objects \cup {j}
        /\ \A i \in DOMAIN images.objects : i # j => r[i] = images.objects[i]
        /\ j \in DOMAIN images.objects =>
             /\ images.objects[j].state = "UNUSED"
             /\ r[j] = [images.objects[j] EXCEPT !.image = b, !.state = "RELOCATED"]
        /\ j \notin DOMAIN images.objects => r[j] = Entry(b, "RELOCATED", FALSE)
  BY <1>1, WithBundleTyped DEF r
<1>4. r[j].image = b /\ r[j].state = "RELOCATED"
  <2>1. CASE j \in DOMAIN images.objects
    <3>1. images.objects[j] \in EntryRecords
      BY <1>1, <2>1
    <3> QED
      BY <1>3, <2>1, <3>1 DEF EntryRecords
  <2>2. CASE j \notin DOMAIN images.objects
    BY <1>3, <2>2 DEF Entry
  <2> QED
    BY <2>1, <2>2
<1>5. BundleAt(b, j)
  BY <1>2, <1>3, <1>4 DEF BundleAt
<1>6. LibrariesAdded(b)
  <2>1. CASE Needs[b] = None
    BY <1>2, <2>1 DEF q, LibrariesAdded, Further
  <2>2. CASE Needs[b] # None
    <3>1. Needs[b] \in Needed /\ Needs[b] \in Images
      BY <2>2 DEF Images, Needed
    <3> DEFINE l == Needs[b]
               w == WithLibrary(images.libs, l)
    <3>2. q = w
      BY <2>2 DEF q
    <3> HIDE DEF l
    <3>3. /\ w \in Seq(EntryRecords) /\ DOMAIN images.libs \subseteq DOMAIN w
          /\ \A i \in DOMAIN images.libs :
               \/ w[i] = images.libs[i]
               \/ /\ images.libs[i].state = "UNLINKED"
                  /\ w[i] = [images.libs[i] EXCEPT !.state = "RELOCATED"]
          /\ \A i \in DOMAIN w \ DOMAIN images.libs : w[i] = Entry(l, "RELOCATED", FALSE)
      BY <1>1, <3>1, WithLibraryTyped DEF l
    <3>4. \A i \in DOMAIN w \ DOMAIN images.libs :
            i = Len(images.libs) + 1 /\ \A j1 \in DOMAIN images.libs : images.libs[j1].image # l
      BY <1>1, <3>1, WithLibraryAdds DEF l
    <3> HIDE DEF w
    <3>5. ASSUME NEW i \in DOMAIN images.libs
          PROVE  Further(w[i], images.libs[i])
      <4>1. images.libs[i] \in EntryRecords
        BY <1>1
      <4> QED
        BY <3>3, <4>1 DEF Further, EntryRecords
    <3>6. \A i \in DOMAIN w \ DOMAIN images.libs : w[i].image = l /\ w[i].state = "RELOCATED"
      BY <3>3 DEF Entry
    <3> QED
      BY <1>2, <3>1, <3>2, <3>3, <3>4, <3>5, <3>6 DEF l, LibrariesAdded
  <2> QED
    BY <2>1, <2>2
<1> QED
  BY <1>5, <1>6

\* The list grows by one entry at most, if it has no UNUSED one.
LEMMA OneMoreEntry ==
  ASSUME TypeInv, ImagesOk', NEW b, NEW j \in Nat \ {0}, BundleAt(b, j)
  PROVE  /\ Len(images.objects) \in Nat /\ Len(images'["objects"]) \in Nat
         /\ Len(images'["objects"]) <= Len(images.objects) + 1
         /\ j \in DOMAIN images.objects => Len(images'["objects"]) = Len(images.objects)
<1>1. images["objects"] \in Seq(EntryRecords) /\ images'["objects"] \in Seq(EntryRecords)
  BY DEF TypeInv, Typed, ImagesOk, Kinds
<1> DEFINE m == Len(images["objects"])
           l == Len(images'["objects"])
<1>2. /\ m \in Nat /\ l \in Nat
      /\ DOMAIN images["objects"] = 1 .. m /\ DOMAIN images'["objects"] = 1 .. l
  BY <1>1
<1>3. 1 .. l = 1 .. m \cup {j}
  BY <1>2 DEF BundleAt
<1> HIDE DEF m, l
<1>4. l <= m + 1
  <2> SUFFICES ASSUME l > m + 1 PROVE FALSE
    BY <1>2
  <2>1. m + 1 \in 1 .. l /\ m + 2 \in 1 .. l
    BY <1>2
  <2>2. m + 1 \notin 1 .. m /\ m + 2 \notin 1 .. m
    BY <1>2
  <2>3. m + 1 = j /\ m + 2 = j
    BY <1>3, <2>1, <2>2
  <2> QED
    BY <1>2, <2>3
<1>5. j \in 1 .. m => l = m
  <2> SUFFICES ASSUME j \in 1 .. m PROVE l = m
    OBVIOUS
  <2>1. 1 .. l = 1 .. m
    BY <1>3
  <2>2. l \in 1 .. l \/ l = 0
    BY <1>2
  <2>3. m \in 1 .. m \/ m = 0
    BY <1>2
  <2> QED
    BY <1>2, <2>1, <2>2, <2>3
<1> QED
  BY <1>2, <1>4, <1>5 DEF m, l

\* Another bundle was linked.
LEMMA OneMoreLinked ==
  ASSUME PlacesInv, NEW b, b \notin linked, linked' = linked \cup {b}
  PROVE  /\ IsFiniteSet(linked') /\ Cardinality(linked) \in Nat
         /\ Cardinality(linked') = Cardinality(linked) + 1
BY FS_AddElement, FS_CardinalityType DEF PlacesInv

\* The number of entries stays when none is added.
LEMMA SameLength ==
  ASSUME ImagesOk, ImagesOk', DOMAIN images'["objects"] = DOMAIN images["objects"]
  PROVE  Len(images'["objects"]) = Len(images.objects)
<1>1. images["objects"] \in Seq(EntryRecords) /\ images'["objects"] \in Seq(EntryRecords)
  BY DEF ImagesOk, Kinds
<1> QED
  BY <1>1

(* Images keep their places.                                                 *)
LEMMA PlacesKept ==
  ASSUME TypeInv, ImagesOk', PlacesInv, AllKept, linked' = linked
  PROVE  PlacesInv'
<1>1. "objects" \in Kinds /\ "libs" \in Kinds
  BY DEF Kinds
<1>2. \A k \in Kinds : /\ DOMAIN images'[k] = DOMAIN images[k]
                       /\ \A i \in DOMAIN images[k] :
                            /\ images'[k][i].image = images[k][i].image
                            /\ images'[k][i].state = "UNUSED" <=> images[k][i].state = "UNUSED"
  BY DEF AllKept, Further
<1>3. Len(images'["objects"]) = Len(images.objects)
  BY <1>1, <1>2, SameLength DEF TypeInv, Typed
<1>4. 1 \in DOMAIN images'["objects"] /\ images'["objects"][1].image = Executable
  BY <1>1, <1>2 DEF PlacesInv
<1>5. \A i \in DOMAIN images'["objects"] :
        i # 1 => images'["objects"][i].image \in linked' \cup {None}
  BY <1>1, <1>2 DEF PlacesInv
<1>6. \A i \in DOMAIN images'["libs"] : images'["libs"][i].image \in InLibraries \cup Needed
  BY <1>1, <1>2 DEF PlacesInv
<1>7. \A k \in Kinds : \A i \in DOMAIN images'[k] :
        images'[k][i].image = None <=> images'[k][i].state = "UNUSED"
  BY <1>2 DEF PlacesInv
<1>8. \A k, q \in Kinds : \A i \in DOMAIN images'[k] : \A j \in DOMAIN images'[q] :
        images'[k][i].image = images'[q][j].image /\ images'[k][i].image # None
          => k = q /\ i = j
  BY <1>2 DEF PlacesInv
<1> QED
  BY <1>3, <1>4, <1>5, <1>6, <1>7, <1>8 DEF PlacesInv

(* An entry is cleared.                                                      *)
LEMMA Cleared ==
  ASSUME TypeInv, NEW t \in Threads, Removes(t)
  PROVE  /\ at[t].i \in DOMAIN images["objects"]
         /\ \A k \in Kinds : DOMAIN images'[k] = DOMAIN images[k]
         /\ images'["objects"][at[t].i] = Entry(None, "UNUSED", FALSE)
         /\ \A k \in Kinds : \A i \in DOMAIN images[k] :
              k # "objects" \/ i # at[t].i => images'[k][i] = images[k][i]
<1>1. FrameStands(t) /\ ImagesOk
  BY DEF TypeInv, Typed, FramesStand
<1>2. at[t].i \in DOMAIN images["objects"]
  BY <1>1 DEF FrameStands, Removes
<1>3. images["objects"] \in Seq(EntryRecords) /\ DOMAIN images = Kinds
  BY <1>1 DEF ImagesOk, Kinds
<1> DEFINE e == Entry(None, "UNUSED", FALSE)
           s == [images["objects"] EXCEPT ![at[t].i] = e]
<1>4. images' = [images EXCEPT !["objects"] = s]
  BY DEF Removes, Unused
<1> HIDE DEF e
<1>5. DOMAIN s = DOMAIN images["objects"] /\ s[at[t].i] = e
      /\ \A i \in DOMAIN images["objects"] : i # at[t].i => s[i] = images["objects"][i]
  BY <1>2
<1> HIDE DEF s
<1>6. images'["objects"] = s /\ \A k \in Kinds : k # "objects" => images'[k] = images[k]
  BY <1>3, <1>4 DEF Kinds
<1> QED
  BY <1>2, <1>5, <1>6 DEF e

\* ... and the others keep their images.
LEMMA PlacesCleared ==
  ASSUME TypeInv, ImagesOk', PlacesInv, HandlesInv, NEW t \in Threads, Removes(t)
  PROVE  PlacesInv'
<1>1. /\ at[t].i \in DOMAIN images["objects"]
      /\ \A k \in Kinds : DOMAIN images'[k] = DOMAIN images[k]
      /\ images'["objects"][at[t].i] = Entry(None, "UNUSED", FALSE)
      /\ \A k \in Kinds : \A i \in DOMAIN images[k] :
           k # "objects" \/ i # at[t].i => images'[k][i] = images[k][i]
  BY Cleared
<1>2. images'["objects"][at[t].i].image = None /\ images'["objects"][at[t].i].state = "UNUSED"
  BY <1>1 DEF Entry
<1>3. "objects" \in Kinds /\ "libs" \in Kinds /\ linked' = linked
  BY DEF Kinds, Removes, callVars
<1>4. at[t].i # 1
  <2>1. images.objects[at[t].i].image \in linked
    BY DEF HandlesInv, Unlinking, Removes, GivenUp
  <2>2. linked \subseteq Bundles
    BY DEF TypeInv, Typed, RestOk
  <2> QED
    BY <2>1, <2>2, CalloutsAssumption DEF PlacesInv
<1>5. Len(images'["objects"]) = Len(images.objects)
  BY <1>1, <1>3, SameLength DEF TypeInv, Typed
<1>6. 1 \in DOMAIN images'["objects"] /\ images'["objects"][1].image = Executable
  BY <1>1, <1>3, <1>4 DEF PlacesInv
<1>7. ASSUME NEW k \in Kinds, NEW i \in DOMAIN images'[k]
      PROVE  /\ i \in DOMAIN images[k]
             /\ \/ k = "objects" /\ i = at[t].i /\ images'[k][i].image = None
                   /\ images'[k][i].state = "UNUSED"
                \/ images'[k][i] = images[k][i]
  BY <1>1, <1>2, <1>7
<1>8. \A i \in DOMAIN images'["objects"] :
        i # 1 => images'["objects"][i].image \in linked' \cup {None}
  BY <1>3, <1>7 DEF PlacesInv
<1>9. \A i \in DOMAIN images'["libs"] : images'["libs"][i].image \in InLibraries \cup Needed
  BY <1>3, <1>7 DEF PlacesInv
<1>10. \A k \in Kinds : \A i \in DOMAIN images'[k] :
         images'[k][i].image = None <=> images'[k][i].state = "UNUSED"
  BY <1>7 DEF PlacesInv
<1>11. \A k, q \in Kinds : \A i \in DOMAIN images'[k] : \A j \in DOMAIN images'[q] :
         images'[k][i].image = images'[q][j].image /\ images'[k][i].image # None
           => k = q /\ i = j
  BY <1>7 DEF PlacesInv
<1> QED
  BY <1>3, <1>5, <1>6, <1>8, <1>9, <1>10, <1>11 DEF PlacesInv

\* Where the entries are of the images they were of, when a bundle is linked
LEMMA LinkedPlaces ==
  ASSUME TypeInv, PlacesInv, NEW b \in Bundles \ linked, NEW j \in Nat \ {0},
         BundleAt(b, j), LibrariesAdded(b), NEW k \in Kinds, NEW i \in DOMAIN images'[k]
  PROVE  \/ i \in DOMAIN images[k] /\ Further(images'[k][i], images[k][i])
         \/ /\ k = "objects" /\ i = j /\ images'[k][i].image = b
            /\ images'[k][i].state = "RELOCATED"
         \/ /\ k = "libs" /\ i \notin DOMAIN images[k] /\ images'[k][i].state = "RELOCATED"
            /\ images'[k][i].image = Needs[b] /\ Needs[b] \in Needed
            /\ \A q \in Kinds : \A i1 \in DOMAIN images[q] : images[q][i1].image # Needs[b]
            /\ \A i1 \in DOMAIN images'[k] \ DOMAIN images[k] : i = i1
<1>1. CASE k = "objects"
  <2>1. CASE i = j
    BY <1>1, <2>1 DEF BundleAt
  <2>2. CASE i # j
    <3>1. i \in DOMAIN images[k] /\ images'[k][i] = images[k][i]
      BY <1>1, <2>2 DEF BundleAt
    <3> QED
      BY <3>1 DEF Further
  <2> QED
    BY <2>1, <2>2
<1>2. CASE k = "libs"
  <2>1. CASE i \in DOMAIN images[k]
    BY <1>2, <2>1 DEF LibrariesAdded
  <2>2. CASE i \notin DOMAIN images[k]
    <3>1. /\ images'[k][i].image = Needs[b] /\ Needs[b] \in Needed
          /\ images'[k][i].state = "RELOCATED"
          /\ \A j1 \in DOMAIN images["libs"] : images["libs"][j1].image # Needs[b]
          /\ \A i1 \in DOMAIN images'[k] \ DOMAIN images[k] : i = i1
      BY <1>2, <2>2 DEF LibrariesAdded
    <3>2. ASSUME NEW i1 \in DOMAIN images["objects"]
          PROVE  images["objects"][i1].image # Needs[b]
      <4>1. images["objects"][i1].image \in Bundles \cup {None, Executable}
        BY DEF PlacesInv, TypeInv, Typed, RestOk
      <4> QED
        BY <3>1, <4>1, CalloutsAssumption DEF Needed
    <3>3. \A q \in Kinds : \A i1 \in DOMAIN images[q] : images[q][i1].image # Needs[b]
      BY <3>1, <3>2 DEF Kinds
    <3> QED
      BY <1>2, <2>2, <3>1, <3>3
  <2> QED
    BY <2>1, <2>2
<1> QED
  BY <1>1, <1>2 DEF Kinds

\* ... and those that arrive are in one place each.
LEMMA PlacesLinked ==
  ASSUME TypeInv, ImagesOk', PlacesInv, NEW t \in Threads, NEW b \in Bundles, LinkModule(t, b)
  PROVE  PlacesInv'
<1>1. b \notin linked /\ linked' = linked \cup {b}
  BY DEF LinkModule
<1>2. PICK j \in Nat \ {0} : BundleAt(b, j)
  BY LinkPlaces
<1>3. LibrariesAdded(b)
  BY LinkPlaces
<1> DEFINE Stays(k, i) == i \in DOMAIN images[k] /\ images'[k][i].image = images[k][i].image
                          /\ (images'[k][i].state = "UNUSED" <=> images[k][i].state = "UNUSED")
           IsNew(k, i) == k = "objects" /\ i = j /\ images'[k][i].image = b
                          /\ images'[k][i].state = "RELOCATED"
           IsLib(k, i) ==
             /\ k = "libs" /\ i \notin DOMAIN images[k] /\ images'[k][i].state = "RELOCATED"
             /\ images'[k][i].image = Needs[b] /\ Needs[b] \in Needed
             /\ \A q \in Kinds : \A i1 \in DOMAIN images[q] : images[q][i1].image # Needs[b]
             /\ \A i1 \in DOMAIN images'[k] \ DOMAIN images[k] : i = i1
<1>4. ASSUME NEW k \in Kinds, NEW i \in DOMAIN images'[k]
      PROVE  Stays(k, i) \/ IsNew(k, i) \/ IsLib(k, i)
  <2> HIDE DEF Stays, IsNew, IsLib
  <2>1. i \in DOMAIN images[k] /\ Further(images'[k][i], images[k][i]) => Stays(k, i)
    BY DEF Further, Stays
  <2> QED
    BY <1>1, <1>2, <1>3, <2>1, LinkedPlaces DEF IsNew, IsLib
<1>5. /\ "objects" \in Kinds /\ "libs" \in Kinds /\ "objects" # "libs"
      /\ None \notin Bundles /\ None \notin Needed /\ b \notin Needed /\ b # Executable
  BY CalloutsAssumption DEF Kinds, Needed
<1>6. \A k \in Kinds : \A i \in DOMAIN images[k] : images[k][i].image # b
  <2> SUFFICES ASSUME NEW k \in Kinds, NEW i \in DOMAIN images[k] PROVE images[k][i].image # b
    OBVIOUS
  <2>1. CASE k = "libs"
    BY <1>5, <2>1, CalloutsAssumption DEF PlacesInv
  <2>2. CASE k = "objects"
    BY <1>1, <1>5, <2>2 DEF PlacesInv
  <2> QED
    BY <2>1, <2>2 DEF Kinds
<1>7. 1 \in DOMAIN images'["objects"] /\ images'["objects"][1].image = Executable
  <2>1. 1 \in DOMAIN images["objects"] /\ images["objects"][1].image = Executable
    BY DEF PlacesInv
  <2>2. images["objects"][1].state # "UNUSED"
    BY <1>5, <2>1, CalloutsAssumption DEF PlacesInv
  <2>3. 1 # j
    BY <1>2, <2>1, <2>2 DEF BundleAt
  <2> QED
    BY <1>2, <2>1, <2>3 DEF BundleAt
<1>8. ASSUME NEW i \in DOMAIN images'["objects"], i # 1
      PROVE  images'["objects"][i].image \in linked' \cup {None}
  BY <1>1, <1>4, <1>5, <1>8 DEF PlacesInv
<1>9. ASSUME NEW i \in DOMAIN images'["libs"]
      PROVE  images'["libs"][i].image \in InLibraries \cup Needed
  BY <1>4, <1>5, <1>9 DEF PlacesInv
<1>10. ASSUME NEW k \in Kinds, NEW i \in DOMAIN images'[k]
       PROVE  images'[k][i].image = None <=> images'[k][i].state = "UNUSED"
  <2>1. CASE Stays(k, i)
    BY <2>1 DEF PlacesInv
  <2>2. CASE IsNew(k, i) \/ IsLib(k, i)
    BY <1>5, <2>2
  <2> QED
    BY <1>4, <2>1, <2>2
<1>11. ASSUME NEW k \in Kinds, NEW q \in Kinds, NEW i \in DOMAIN images'[k],
              NEW i1 \in DOMAIN images'[q], images'[k][i].image = images'[q][i1].image,
              images'[k][i].image # None
       PROVE  k = q /\ i = i1
  <2>1. CASE Stays(k, i) /\ Stays(q, i1)
    <3>1. /\ i \in DOMAIN images[k] /\ i1 \in DOMAIN images[q]
          /\ images[k][i].image = images[q][i1].image /\ images[k][i].image # None
      BY <1>11, <2>1
    <3> HIDE DEF Stays, IsNew, IsLib
    <3> QED
      BY <3>1 DEF PlacesInv
  <2>2. CASE IsNew(k, i)
    <3>1. ~Stays(q, i1) /\ ~IsLib(q, i1)
      BY <1>5, <1>6, <1>11, <2>2
    <3> QED
      BY <1>4, <2>2, <3>1
  <2>3. CASE IsNew(q, i1)
    <3>1. ~Stays(k, i) /\ ~IsLib(k, i)
      BY <1>5, <1>6, <1>11, <2>3
    <3> QED
      BY <1>4, <2>3, <3>1
  <2>4. CASE IsLib(k, i) /\ Stays(q, i1)
    BY <1>11, <2>4
  <2>5. CASE IsLib(q, i1) /\ Stays(k, i)
    BY <1>11, <2>5
  <2>6. CASE IsLib(k, i) /\ IsLib(q, i1)
    BY <2>6
  <2> HIDE DEF Stays, IsNew, IsLib
  <2> QED
    BY <1>4, <2>1, <2>2, <2>3, <2>4, <2>5, <2>6
<1>12. IsFiniteSet(linked') /\ Len(images'["objects"]) <= Cardinality(linked') + 1
  <2>1. IsFiniteSet(linked') /\ Cardinality(linked) \in Nat
        /\ Cardinality(linked') = Cardinality(linked) + 1
    BY <1>1, OneMoreLinked
  <2>2. Len(images["objects"]) \in Nat /\ Len(images'["objects"]) \in Nat
        /\ Len(images'["objects"]) <= Len(images["objects"]) + 1
    BY <1>2, OneMoreEntry
  <2>3. Len(images["objects"]) <= Cardinality(linked) + 1
    BY DEF PlacesInv
  <2> QED
    BY <2>1, <2>2, <2>3
<1> HIDE DEF Stays, IsNew, IsLib
<1> QED
  BY <1>7, <1>8, <1>9, <1>10, <1>11, <1>12 DEF PlacesInv

(* How a step changes the entries: some go further, a new image gets one     *)
(* that is new or was UNUSED, or a bundle's is cleared.                      *)
Arrives(k, i) ==
  /\ images'[k][i].image \notin linked
  /\ i \in DOMAIN images[k] =>
       k = "objects" /\ i # 1 /\ images[k][i].state = "UNUSED" /\ EntryReused'

Clears(k, i) ==
  /\ k = "objects" /\ i # 1 /\ i \in DOMAIN images[k]
  /\ images'[k][i].image = None /\ images'[k][i].state = "UNUSED"
  /\ images[k][i].image \in linked
  /\ \E t \in Threads : at[t].phase = "remove" /\ at[t].i = i /\ at'[t].phase = "out"

EntriesStep ==
  /\ linked \subseteq linked' /\ (EntryReused => EntryReused')
  /\ \A k \in Kinds : DOMAIN images[k] \subseteq DOMAIN images'[k]
  /\ \A k \in Kinds : \A i \in DOMAIN images'[k] :
       \/ i \in DOMAIN images[k] /\ Further(images'[k][i], images[k][i])
       \/ Arrives(k, i)
       \/ Clears(k, i)

\* Most steps keep every image where it is.
LEMMA EntriesKept ==
  ASSUME TypeInv, ImagesOk', AllKept, linked' = linked
  PROVE  EntriesStep
<1>1. "objects" \in Kinds
  BY DEF Kinds
<1>2. Len(images'["objects"]) = Len(images.objects)
  BY <1>1, SameLength DEF AllKept, TypeInv, Typed
<1>3. EntryReused => EntryReused'
  BY <1>2 DEF EntryReused
<1> QED
  BY <1>3 DEF AllKept, EntriesStep

\* unload_bundle_image() clears one entry, which is not the first.
LEMMA EntriesCleared ==
  ASSUME TypeInv, ImagesOk', PlacesInv, HandlesInv, NEW t \in Threads, Removes(t)
  PROVE  EntriesStep
<1>1. /\ at[t].i \in DOMAIN images["objects"]
      /\ \A k \in Kinds : DOMAIN images'[k] = DOMAIN images[k]
      /\ images'["objects"][at[t].i] = Entry(None, "UNUSED", FALSE)
      /\ \A k \in Kinds : \A i \in DOMAIN images[k] :
           k # "objects" \/ i # at[t].i => images'[k][i] = images[k][i]
  BY Cleared
<1>2. "objects" \in Kinds /\ linked' = linked
  BY DEF Kinds, Removes, callVars
<1>3. Len(images'["objects"]) = Len(images.objects)
  BY <1>1, <1>2, SameLength DEF TypeInv, Typed
<1>4. EntryReused => EntryReused'
  BY <1>2, <1>3 DEF EntryReused
<1>5. images["objects"][at[t].i].image \in linked
  BY DEF HandlesInv, Unlinking, Removes, GivenUp
<1>6. at[t].i # 1
  BY <1>5, CalloutsAssumption DEF PlacesInv, TypeInv, Typed, RestOk
<1>7. images'["objects"][at[t].i].image = None /\ images'["objects"][at[t].i].state = "UNUSED"
  BY <1>1 DEF Entry
<1>8. Clears("objects", at[t].i)
  <2>1. at[t].phase = "remove" /\ at'[t].phase = "out"
    BY LeaveStep DEF TypeInv, Typed, Removes, Idle
  <2> QED
    BY <1>1, <1>5, <1>6, <1>7, <2>1 DEF Clears
<1>9. ASSUME NEW k \in Kinds, NEW i \in DOMAIN images'[k]
      PROVE  \/ i \in DOMAIN images[k] /\ Further(images'[k][i], images[k][i])
             \/ Arrives(k, i)
             \/ Clears(k, i)
  <2>1. CASE k = "objects" /\ i = at[t].i
    BY <1>8, <2>1
  <2>2. CASE k # "objects" \/ i # at[t].i
    <3>1. i \in DOMAIN images[k] /\ images'[k][i] = images[k][i]
      BY <1>1, <1>9, <2>2
    <3> QED
      BY <3>1 DEF Further
  <2> QED
    BY <2>1, <2>2
<1> QED
  BY <1>1, <1>2, <1>4, <1>9 DEF EntriesStep

\* NSLinkModule() gives a bundle an entry, and its library one if it has none.
LEMMA EntriesLinked ==
  ASSUME TypeInv, ImagesOk', PlacesInv, NEW t \in Threads, NEW b \in Bundles, LinkModule(t, b)
  PROVE  EntriesStep
<1>1. b \in Bundles \ linked /\ linked' = linked \cup {b} /\ linked \subseteq Bundles
  BY DEF LinkModule, TypeInv, Typed, RestOk
<1>2. PICK j \in Nat \ {0} : BundleAt(b, j)
  BY LinkPlaces
<1>3. LibrariesAdded(b)
  BY LinkPlaces
<1>4. /\ Len(images.objects) \in Nat /\ Len(images'["objects"]) \in Nat
      /\ Len(images'["objects"]) <= Len(images.objects) + 1
      /\ j \in DOMAIN images.objects => Len(images'["objects"]) = Len(images.objects)
  BY <1>2, OneMoreEntry
<1>5. Cardinality(linked) \in Nat /\ Cardinality(linked') = Cardinality(linked) + 1
  BY <1>1, OneMoreLinked
<1>6. EntryReused => EntryReused'
  BY <1>4, <1>5 DEF EntryReused
<1>7. j \in DOMAIN images.objects => EntryReused'
  BY <1>4, <1>5 DEF EntryReused, PlacesInv
<1>8. j \in DOMAIN images.objects => j # 1 /\ images["objects"][j].state = "UNUSED"
  <2>1. images.objects[1].image # None /\ 1 \in DOMAIN images.objects
    BY CalloutsAssumption DEF PlacesInv
  <2>2. images.objects[1].state # "UNUSED"
    BY <2>1 DEF PlacesInv, Kinds
  <2> QED
    BY <1>2, <2>2 DEF BundleAt
<1>9. ASSUME NEW k \in Kinds, NEW i \in DOMAIN images'[k]
      PROVE  \/ i \in DOMAIN images[k] /\ Further(images'[k][i], images[k][i])
             \/ Arrives(k, i)
             \/ Clears(k, i)
  <2>1. \/ i \in DOMAIN images[k] /\ Further(images'[k][i], images[k][i])
        \/ k = "objects" /\ i = j /\ images'[k][i].image = b
        \/ k = "libs" /\ i \notin DOMAIN images[k]
           /\ images'[k][i].image = Needs[b] /\ Needs[b] \in Needed
    BY <1>1, <1>2, <1>3, <1>9, LinkedPlaces
  <2>2. CASE k = "objects" /\ i = j /\ images'[k][i].image = b
    BY <1>1, <1>7, <1>8, <2>2 DEF Arrives
  <2>3. CASE k = "libs" /\ i \notin DOMAIN images[k]
             /\ images'[k][i].image = Needs[b] /\ Needs[b] \in Needed
    <3>1. images'[k][i].image \notin linked
      BY <1>1, <2>3, CalloutsAssumption
    <3> QED
      BY <2>3, <3>1 DEF Arrives
  <2> QED
    BY <2>1, <2>2, <2>3
<1>10. \A k \in Kinds : DOMAIN images[k] \subseteq DOMAIN images'[k]
  BY <1>2, <1>3 DEF BundleAt, LibrariesAdded, Kinds
<1> QED
  BY <1>1, <1>6, <1>9, <1>10 DEF EntriesStep

(* Every step is of one of these kinds, and leaves the images in places.     *)
LEMMA EntriesChange ==
  ASSUME TypeInv, ImagesOk', PlacesInv, HandlesInv, NEW t \in Threads, Call(t) \/ Step(t)
  PROVE  EntriesStep /\ PlacesInv'
BY StepsKeep, EntriesKept, EntriesCleared, EntriesLinked, PlacesKept, PlacesCleared, PlacesLinked

(* What a call out of a loop, the search that goes on and the next list      *)
(* leave of the frame                                                        *)
LEMMA CallOutKeeps ==
  ASSUME FramesOk, NEW t \in Threads, NEW i, NEW kind, NEW fn, NEW image,
         CallOut(t, i, kind, fn, image)
  PROVE  /\ at'[t].phase = at[t].phase /\ at'[t].list = at[t].list
         /\ at'[t].module = at[t].module /\ at'[t].mode = "call"
         /\ at'[t].i = i /\ at'[t].fn = fn /\ at'[t].image = image
         /\ at'[t].n = IF kind \in {"init", "term"} /\ fn = 1 THEN Routines[image]
                                                             ELSE at[t].n
<1> DEFINE n == IF kind \in {"init", "term"} /\ fn = 1 THEN Routines[image] ELSE at[t].n
<1>1. at[t] \in Frames
  BY DEF FramesOk
<1>2. at' = [at EXCEPT ![t] = [at[t] EXCEPT !.mode = "call", !.i = i, !.fn = fn,
                                            !.image = image, !.n = n]]
  BY <1>1 DEF CallOut, FramesOk
<1> HIDE DEF n
<1>3. at'[t] = [at[t] EXCEPT !.mode = "call", !.i = i, !.fn = fn, !.image = image, !.n = n]
  BY <1>2 DEF FramesOk
<1>4. at'[t].n = n
  BY <1>1, <1>3 DEF Frames
<1>5. /\ at'[t].phase = at[t].phase /\ at'[t].list = at[t].list
      /\ at'[t].module = at[t].module /\ at'[t].mode = "call"
      /\ at'[t].i = i /\ at'[t].fn = fn /\ at'[t].image = image
  BY <1>1, <1>3 DEF Frames
<1> QED
  BY <1>4, <1>5 DEF n

\* It stays in its phase, with its module.
LEMMA GoOnKeeps ==
  ASSUME FramesOk, NEW t \in Threads, (\E i : GoOn(t, i)) \/ NextList(t)
  PROVE  /\ at'[t].phase = at[t].phase /\ at'[t].module = at[t].module
         /\ at'[t].mode \in {"scan", at[t].mode} /\ calls' = calls
<1>1. at[t] \in Frames
  BY DEF FramesOk
<1>2. ASSUME NEW i, GoOn(t, i)
      PROVE  at'[t] = [at[t] EXCEPT !.mode = "scan", !.i = i]
  BY <1>2 DEF GoOn, FramesOk
<1>3. NextList(t) => at'[t] = [at[t] EXCEPT !.list = "libs", !.i = 1]
  BY DEF NextList, FramesOk
<1>4. calls' = calls
  BY DEF GoOn, NextList
<1> QED
  BY <1>1, <1>2, <1>3, <1>4 DEF Frames

(* The bundle a thread links, and the handle it gives up                     *)
Links(t) ==
  \E b \in Bundles : /\ b \notin linked /\ linked' = linked \cup {b} /\ usable' = usable
                     /\ at'[t].module = b /\ ~Unlinking(t)'

GivesUp(t) ==
  \E i \in DOMAIN images.objects :
    /\ images.objects[i].image \in usable
    /\ usable' = usable \ {images.objects[i].image}
    /\ at'[t].module = None /\ at'[t].i = i /\ at'[t].image = images.objects[i].image
    /\ UNCHANGED <<linked, images>>

Returns(t) ==
  /\ linked' = linked /\ usable' = usable \cup ({at[t].module} \ {None})
  /\ at'[t].module = None /\ ~Unlinking(t)'

KeepsHandles(t) ==
  /\ UNCHANGED <<linked, usable>>
  /\ at'[t].module \in {at[t].module, None}
  /\ Unlinking(t)' => /\ Unlinking(t) /\ at'[t].module = at[t].module
                      /\ at'[t].image = at[t].image /\ at'[t].i = at[t].i

\* A step is of one of these kinds.
LEMMA HandleSteps ==
  ASSUME TypeInv, NEW t \in Threads, Call(t) \/ Step(t)
  PROVE  Links(t) \/ GivesUp(t) \/ Returns(t) \/ KeepsHandles(t)
<1>1. FramesOk /\ at[t] \in Frames
  BY DEF TypeInv, Typed, FramesOk
<1>2. Leave(t) => at'[t].module = None /\ at'[t].phase = "out"
  BY <1>1, LeaveStep DEF Idle
<1>3. ASSUME NEW i, NEW kind, NEW fn, NEW image, CallOut(t, i, kind, fn, image)
      PROVE  /\ at'[t].phase = at[t].phase /\ at'[t].module = at[t].module
             /\ at'[t].i = i /\ at'[t].image = image
  BY <1>1, <1>3, CallOutKeeps
<1>4. (\E i : GoOn(t, i)) \/ NextList(t)
        => at'[t].phase = at[t].phase /\ at'[t].module = at[t].module
  BY <1>1, GoOnKeeps
<1>5. ASSUME NEW phase \in {"link", "init", "exit"}, NextPhase(t, phase)
      PROVE  at'[t].phase = phase /\ at'[t].module = at[t].module
  <2>1. phase \in Phases
    BY DEF Phases
  <2> QED
    BY <1>1, <1>5, <2>1, NextPhaseStep
<1>6. CASE Call(t)
  <2>1. ASSUME NEW b \in Bundles, LinkModule(t, b) PROVE Links(t)
    <3>1. at'[t].module = b /\ at'[t].phase = "add"
      BY <1>1, <2>1 DEF LinkModule, Enter, FramesOk, Idle
    <3> QED
      BY <2>1, <3>1 DEF LinkModule, Links, Unlinking
  <2>2. ASSUME NEW i \in DOMAIN images.objects, UnlinkModule(t, i) PROVE GivesUp(t)
    <3>1. /\ at'[t].module = None /\ at'[t].i = i
          /\ at'[t].image = images.objects[i].image
      BY <1>1, <2>2 DEF UnlinkModule, Enter, FramesOk, Idle
    <3> QED
      BY <2>2, <3>1 DEF UnlinkModule, GivesUp
  <2>3. ASSUME NEW i \in DOMAIN images.libs, BindModule(t, i) PROVE KeepsHandles(t)
    <3>1. at'[t].module = None /\ at'[t].phase = "add"
      BY <1>1, <2>3 DEF BindModule, Enter, FramesOk, Idle
    <3> QED
      BY <2>3, <3>1 DEF BindModule, KeepsHandles, Unlinking, callVars
  <2>4. ASSUME NEW k \in DOMAIN Functions, Register(t, k) PROVE KeepsHandles(t)
    <3>1. at'[t].module = None /\ at'[t].phase \in {"walkAdd", "walkLink"}
      BY <1>1, <2>4 DEF Register, Enter, FramesOk, Idle
    <3> QED
      BY <2>4, <3>1 DEF Register, KeepsHandles, Unlinking, callVars
  <2>5. RegisterRemove(t) => KeepsHandles(t)
    BY DEF RegisterRemove, KeepsHandles, Unlinking, callVars
  <2>6. Launch(t) => KeepsHandles(t)
    <3>1. Launch(t) => at'[t].module = None /\ at'[t].phase = "initDelayed"
      BY <1>1 DEF Launch, Enter, FramesOk, Idle
    <3> QED
      BY <3>1 DEF Launch, KeepsHandles, Unlinking, callVars
  <2>7. Exit(t) => KeepsHandles(t)
    <3>1. Exit(t) => at'[t].module = None /\ at'[t].phase = "exit"
      BY <1>1 DEF Exit, Enter, FramesOk, Idle
    <3> QED
      BY <3>1 DEF Exit, KeepsHandles, Unlinking
  <2> QED
    BY <1>6, <2>1, <2>2, <2>3, <2>4, <2>5, <2>6, <2>7 DEF Call
<1>7. CASE Step(t)
  <2>1. Return(t) => KeepsHandles(t)
    <3>1. Return(t) => at'[t] = [at[t] EXCEPT !.mode = "next"]
      BY DEF Return, FramesOk, TypeInv, Typed
    <3> QED
      BY <1>1, <3>1 DEF Return, KeepsHandles, Unlinking, Frames, callVars
  <2>2. Walk(t) => KeepsHandles(t)
    BY <1>2, <1>3, <1>4 DEF Walk, In, KeepsHandles, Unlinking, callVars
  <2>3. AddImages(t) => KeepsHandles(t)
    BY <1>3, <1>4, <1>5 DEF AddImages, At, In, KeepsHandles, Unlinking, callVars
  <2>4. LinkModules(t) => KeepsHandles(t)
    BY <1>3, <1>4, <1>5 DEF LinkModules, At, In, KeepsHandles, Unlinking, callVars
  <2>5. NextFunction(t) => KeepsHandles(t)
    BY <1>3, <1>4 DEF NextFunction, At, In, KeepsHandles, Unlinking, callVars
  <2>6. InitModule(t) => KeepsHandles(t)
    BY <1>3, <1>4 DEF InitModule, At, In, KeepsHandles, Unlinking, callVars
  <2>7. InitDone(t) => KeepsHandles(t) \/ Returns(t)
    BY <1>2, <1>4 DEF InitDone, At, In, KeepsHandles, Returns, Unlinking, callVars
  <2>8. NextInit(t) => KeepsHandles(t)
    BY <1>3, <1>4 DEF NextInit, At, In, KeepsHandles, Unlinking, callVars
  <2>9. Terminate(t) => KeepsHandles(t)
    <3>1. at' = [at EXCEPT ![t].phase = "remove", ![t].mode = "scan"]
            => /\ at'[t].module = at[t].module /\ at'[t].image = at[t].image
               /\ at'[t].i = at[t].i
      BY <1>1 DEF FramesOk, Frames
    <3> QED
      BY <1>3, <3>1 DEF Terminate, In, KeepsHandles, Unlinking, callVars
  <2>10. RemoveImage(t) => KeepsHandles(t)
    BY <1>2, <1>3 DEF RemoveImage, In, KeepsHandles, Unlinking, callVars
  <2>11. ExitModules(t) => KeepsHandles(t)
    BY <1>2, <1>3, <1>4, <1>5 DEF ExitModules, At, In, KeepsHandles, Unlinking
  <2>12. NextTerm(t) => KeepsHandles(t)
    BY <1>3, <1>4 DEF NextTerm, At, In, KeepsHandles, Unlinking
  <2> QED
    BY <1>7, <2>1, <2>2, <2>3, <2>4, <2>5, <2>6, <2>7, <2>8, <2>9, <2>10, <2>11, <2>12 DEF Step
<1> QED
  BY <1>6, <1>7

(* A handle that was given up is not had again.                              *)
LEMMA GivenUpStays ==
  ASSUME TypeInv, NEW t \in Threads, Call(t) \/ Step(t), NEW e, GivenUp(e)
  PROVE  GivenUp(e)'
<1>1. Local(t) /\ e \in linked \ usable /\ (\A u \in Threads : at[u].module # e) /\ e # None
  BY LocalSteps, CalloutsAssumption DEF GivenUp, TypeInv, Typed, RestOk
<1>2. e \in linked' \ usable' /\ at'[t].module # e
  BY <1>1, HandleSteps DEF Links, GivesUp, Returns, KeepsHandles
<1>3. \A u \in Threads : at'[u].module # e
  BY <1>1, <1>2 DEF Local
<1> QED
  BY <1>2, <1>3 DEF GivenUp

\* Every step keeps what is known of the handles.
LEMMA HandlesStep ==
  ASSUME TypeInv, PlacesInv, HandlesInv, EntriesStep, NEW t \in Threads, Call(t) \/ Step(t)
  PROVE  HandlesInv'
<1>1. /\ Local(t) /\ usable \subseteq linked /\ linked \subseteq Bundles /\ None \notin Bundles
      /\ \A u \in Threads : at[u].module \in linked \cup {None}
  BY LocalSteps, CalloutsAssumption DEF TypeInv, Typed, RestOk, FramesStand, FrameStands
<1>2. Links(t) \/ GivesUp(t) \/ Returns(t) \/ KeepsHandles(t)
  BY HandleSteps
<1>3. \A u \in Threads : u # t => at'[u] = at[u]
  BY <1>1 DEF Local
<1>4. /\ \A u \in Threads : at[u].module # None => at[u].module \notin usable /\ ~Unlinking(u)
      /\ \A u, w \in Threads : at[u].module = at[w].module /\ at[u].module # None => u = w
      /\ \A u \in Threads : Unlinking(u) => /\ GivenUp(at[u].image)
                                            /\ images.objects[at[u].i].image = at[u].image
      /\ \A u, w \in Threads :
           Unlinking(u) /\ Unlinking(w) /\ at[u].image = at[w].image => u = w
  BY DEF HandlesInv
<1>5. \A u \in Threads : u # t => (Unlinking(u)' <=> Unlinking(u))
  BY <1>3 DEF Unlinking
<1>6. ASSUME NEW u \in Threads, at'[u].module # None
      PROVE  at'[u].module \notin usable' /\ ~Unlinking(u)'
  <2>1. CASE u = t
    BY <1>1, <1>2, <1>4, <1>6, <2>1 DEF Links, GivesUp, Returns, KeepsHandles
  <2>2. CASE u # t
    <3>1. at'[u].module = at[u].module /\ ~Unlinking(u)' /\ at[u].module \notin usable
      BY <1>3, <1>4, <1>5, <1>6, <2>2
    <3>2. Returns(t) => at[u].module # at[t].module
      BY <1>4, <1>6, <2>2, <3>1
    <3> QED
      BY <1>2, <3>1, <3>2 DEF Links, GivesUp, Returns, KeepsHandles
  <2> QED
    BY <2>1, <2>2
<1>7. ASSUME NEW u \in Threads, NEW w \in Threads, at'[u].module = at'[w].module,
             at'[u].module # None
      PROVE  u = w
  BY <1>1, <1>2, <1>3, <1>4, <1>7 DEF Links, GivesUp, Returns, KeepsHandles
<1>8. \A u \in Threads : Unlinking(u) => at[u].image \in linked \ usable
  BY <1>4 DEF GivenUp
<1>9. ASSUME NEW u \in Threads, Unlinking(u), Unlinking(u)', at'[u].image = at[u].image,
             at'[u].i = at[u].i
      PROVE  GivenUp(at[u].image)' /\ images'.objects[at'[u].i].image = at'[u].image
  <2>1. PICK e : e = at[u].image
    OBVIOUS
  <2>2. GivenUp(e) /\ e \in linked /\ images.objects[at[u].i].image = e
    BY <1>4, <1>9, <2>1 DEF GivenUp
  <2>3. GivenUp(e)'
    BY <2>2, GivenUpStays
  <2>4. at[u].i \in DOMAIN images.objects /\ "objects" \in Kinds
    BY <1>9 DEF TypeInv, FramesStand, FrameStands, Unlinking, Kinds
  <2>5. ~Arrives("objects", at[u].i)
    BY <1>1, <2>2, <2>4 DEF Arrives, PlacesInv
  <2>6. ~Clears("objects", at[u].i)
    <3> SUFFICES ASSUME NEW w \in Threads, at[w].phase = "remove", at[w].i = at[u].i,
                        at'[w].phase = "out"
                 PROVE  FALSE
      BY DEF Clears
    <3>1. Unlinking(w) /\ ~Unlinking(w)'
      BY DEF Unlinking
    <3>2. at[w].image = at[u].image
      BY <1>4, <1>9, <3>1
    <3> QED
      BY <1>4, <1>9, <3>1, <3>2
  <2>7. images'["objects"][at[u].i].image = e
    BY <2>2, <2>4, <2>5, <2>6 DEF EntriesStep, Further
  <2> QED
    BY <1>9, <2>1, <2>3, <2>7 DEF GivenUp
<1>10. ASSUME NEW u \in Threads, Unlinking(u)'
       PROVE  /\ GivenUp(at[u].image)' /\ images'.objects[at'[u].i].image = at'[u].image
              /\ at'[u].image \notin usable'
              /\ \A w \in Threads : Unlinking(w)' /\ at'[u].image = at'[w].image => u = w
  <2>1. CASE u # t \/ ~GivesUp(t)
    <3>1. Unlinking(u) /\ at'[u].image = at[u].image /\ at'[u].i = at[u].i
      BY <1>2, <1>3, <1>5, <1>10, <2>1 DEF Links, Returns, KeepsHandles
    <3>2. GivenUp(at[u].image)' /\ images'.objects[at'[u].i].image = at'[u].image
      BY <1>9, <1>10, <3>1
    <3>3. ASSUME NEW w \in Threads, Unlinking(w)', at'[u].image = at'[w].image
          PROVE  u = w
      <4>1. CASE w # t \/ ~GivesUp(t)
        <5>1. Unlinking(w) /\ at'[w].image = at[w].image
          BY <1>2, <1>3, <1>5, <3>3, <4>1 DEF Links, Returns, KeepsHandles
        <5> QED
          BY <1>4, <3>1, <3>3, <5>1
      <4>2. CASE w = t /\ GivesUp(t)
        BY <1>8, <3>1, <3>3, <4>2 DEF GivesUp
      <4> QED
        BY <4>1, <4>2
    <3> QED
      BY <3>2, <3>3 DEF GivenUp
  <2>2. CASE u = t /\ GivesUp(t)
    <3>1. PICK i \in DOMAIN images.objects :
            /\ images.objects[i].image \in usable
            /\ usable' = usable \ {images.objects[i].image}
            /\ at'[t].module = None /\ at'[t].i = i /\ at'[t].image = images.objects[i].image
            /\ UNCHANGED <<linked, images>>
      BY <2>2 DEF GivesUp
    <3>2. PICK e : e = at'[t].image
      OBVIOUS
    <3>3. e \in usable /\ e \notin usable' /\ e \in linked' /\ e # None
      BY <1>1, <3>1, <3>2
    <3>4. \A w \in Threads : at'[w].module # e
      BY <1>3, <1>4, <3>1, <3>3
    <3>5. GivenUp(e)'
      BY <3>3, <3>4 DEF GivenUp
    <3>6. ASSUME NEW w \in Threads, Unlinking(w)', at'[w].image = e PROVE w = t
      BY <1>3, <1>5, <1>8, <3>3, <3>6
    <3> QED
      BY <2>2, <3>1, <3>2, <3>3, <3>5, <3>6 DEF GivenUp
  <2> QED
    BY <2>1, <2>2
<1> QED
  BY <1>6, <1>7, <1>10 DEF HandlesInv

(* One thread makes the delayed calls.                                       *)
LEMMA DelayStep ==
  ASSUME TypeInv, DelayInv, NEW t \in Threads, Call(t) \/ Step(t)
  PROVE  DelayInv'
<1>1. FramesOk /\ Local(t)
  BY LocalSteps DEF TypeInv, Typed
<1>2. at'[t].phase = "initDelayed" => at[t].phase = "initDelayed" \/ Launch(t)
  BY NewPhases
<1>3. Launch(t) => /\ delayModInit /\ delayModInit' = delayModInit
                   /\ \A u \in Threads : at[u].phase # "initDelayed"
  BY DEF Launch, MakingDelayed
<1>4. \A u, w \in Threads :
        at'[u].phase = "initDelayed" /\ at'[w].phase = "initDelayed" => u = w
  BY <1>1, <1>2, <1>3 DEF DelayInv, Local
<1>5. ASSUME NEW u \in Threads, at'[u].phase = "initDelayed"
      PROVE  delayModInit'
  <2>1. CASE delayModInit' = delayModInit
    BY <1>1, <1>2, <1>3, <1>5, <2>1 DEF DelayInv, Local
  <2>2. CASE at[t].phase = "initDelayed" /\ Leave(t)
    <3>1. at'[t].phase = "out"
      BY <1>1, <2>2, LeaveStep DEF Idle
    <3> QED
      BY <1>1, <1>5, <2>2, <3>1 DEF DelayInv, Local
  <2> QED
    BY <2>1, <2>2, DelayEnds
<1> QED
  BY <1>4, <1>5 DEF DelayInv

(* What the delayed calls have come past they have not before them again.    *)
LEMMA PassedStays ==
  ASSUME TypeInv, NEW t \in Threads, Call(t) \/ Step(t),
         NEW k \in Kinds, NEW i \in DOMAIN images[k], Passed(k, i)
  PROVE  Passed(k, i)'
<1>1. /\ FramesOk /\ Local(t) /\ at[t] \in Frames /\ ImagesOk
      /\ i \in Nat
  BY LocalSteps DEF TypeInv, Typed, FramesOk, ImagesOk
<1>2. CASE ~delayModInit
  BY <1>2, DelayEnds DEF Passed
<1>3. ASSUME NEW u \in Threads, at[u].phase = "initDelayed", ~Before(u, k, i), u # t
      PROVE  Passed(k, i)'
  <2>1. at'[u] = at[u]
    BY <1>1, <1>3 DEF Local
  <2> QED
    BY <1>3, <2>1 DEF Passed, Before
<1>4. CASE at[t].phase = "initDelayed" /\ ~Before(t, k, i)
  <2>1. Return(t) \/ InitModule(t) \/ InitDone(t) \/ NextInit(t)
    BY <1>4 DEF Call, Step, LinkModule, BindModule, Register, RegisterRemove, Launch,
       UnlinkModule, Exit, Walk, AddImages, LinkModules, NextFunction, Terminate, RemoveImage,
       ExitModules, NextTerm, Enter, Out, At, In
  <2>2. at'[t].phase = "initDelayed" /\ ~Before(t, k, i)' => Passed(k, i)'
    BY DEF Passed
  <2>3. CASE Return(t)
    <3>1. at'[t] = [at[t] EXCEPT !.mode = "next"] /\ at[t].mode = "call"
      BY <1>1, <2>3 DEF Return, FramesOk
    <3>2. /\ at'[t].phase = at[t].phase /\ at'[t].list = at[t].list
          /\ at'[t].i = at[t].i /\ at'[t].mode = "next"
      BY <1>1, <3>1 DEF Frames
    <3> QED
      BY <1>4, <2>2, <3>1, <3>2 DEF Before
  <2>4. CASE InitModule(t)
    <3> DEFINE wanted == {e \in Entries(t) : ToInitialise(t, e)}
               m == Min(Hits(t, wanted))
    <3>1. /\ Hits(t, wanted) # {} /\ at[t].mode = "scan"
          /\ \/ \E im : CallOut(t, m, "init", 1, im)
             \/ GoOn(t, m + 1)
      BY <2>4 DEF InitModule, At, In
    <3> HIDE DEF wanted
    <3>2. m \in Nat /\ at[t].i <= m
      BY <1>1, <3>1, FirstHit
    <3> HIDE DEF m
    <3>3. /\ at'[t].phase = at[t].phase /\ at'[t].list = at[t].list
          /\ \/ at'[t].mode = "call" /\ at'[t].i = m
             \/ at'[t].mode = "scan" /\ at'[t].i = m + 1
      BY <1>1, <3>1, CallOutFrame, GoOnFrame
    <3>4. at[t].i \in Nat
      BY <1>1 DEF Frames
    <3>5. ~Before(t, k, i)'
      BY <1>1, <1>4, <3>1, <3>2, <3>3, <3>4 DEF Before
    <3> QED
      BY <1>4, <2>2, <3>3, <3>5
  <2>5. CASE InitDone(t)
    <3>1. CASE NextList(t)
      <4>1. at[t].list = "objects" /\ at'[t].list = "libs" /\ at'[t].phase = at[t].phase
        BY <1>1, <3>1, NextListStep
      <4> QED
        BY <1>4, <2>2, <4>1 DEF Before, Kinds
    <3>2. CASE delayModInit' = (delayModInit /\ ~MakingDelayed(t))
      BY <1>4, <3>2 DEF MakingDelayed, Passed
    <3> QED
      BY <2>5, <3>1, <3>2 DEF InitDone
  <2>6. CASE NextInit(t)
    <3>1. /\ at[t].mode = "next"
          /\ \/ \E fn, im : CallOut(t, at[t].i, "init", fn, im)
             \/ GoOn(t, at[t].i + 1)
      BY <1>4, <2>6 DEF NextInit, At, In, MakingDelayed
    <3>2. /\ at'[t].phase = at[t].phase /\ at'[t].list = at[t].list
          /\ \/ at'[t].mode = "call" /\ at'[t].i = at[t].i
             \/ at'[t].mode = "scan" /\ at'[t].i = at[t].i + 1
      BY <1>1, <3>1, CallOutFrame, GoOnFrame
    <3>3. at[t].i \in Nat
      BY <1>1 DEF Frames
    <3>4. ~Before(t, k, i)'
      BY <1>1, <1>4, <3>1, <3>2, <3>3 DEF Before
    <3> QED
      BY <1>4, <2>2, <3>2, <3>4
  <2> QED
    BY <2>1, <2>3, <2>4, <2>5, <2>6
<1> QED
  BY <1>2, <1>3, <1>4 DEF Passed

\* Routines that were begun are begun, as long as the image is there.
LEMMA BegunStays ==
  ASSUME TypeInv, NEW t \in Threads, Call(t) \/ Step(t), NEW r \in Routine,
         NEW k \in Kinds, NEW i \in DOMAIN images[k],
         Further(images'[k][i], images[k][i]), Begun(r, k, i)
  PROVE  Begun(r, k, i)'
<1>1. Passed(k, i) => Passed(k, i)'
  BY PassedStays
<1> QED
  BY <1>1 DEF Begun, Further, Routine

(* How often a routine was called: a call raises that number, and no other.  *)
LEMMA CallCounts ==
  ASSUME IsABag(calls), NEW kind, NEW fn, NEW image, calls' = Noted(<<kind, fn, image>>)
  PROVE  /\ kind \in {"add", "link", "remove"} =>
              \A r \in Routine : \A n, e : Called(r, n, e)' = Called(r, n, e)
         /\ kind \in Routine =>
              /\ Called(kind, fn, image)' = Called(kind, fn, image) + 1
              /\ \A r, n, e : <<r, n, e>> # <<kind, fn, image>> =>
                   Called(r, n, e)' = Called(r, n, e)
<1> DEFINE c == <<kind, fn, image>>
<1>1. c[1] = kind
  OBVIOUS
<1>2. \A r, n, e : Called(r, n, e) = IF <<r, n, e>> \in DOMAIN calls
                                       THEN calls[<<r, n, e>>] ELSE 0
  BY DEF Called, BagIn, BagToSet
<1>3. \A r, n, e : Called(r, n, e)' = IF <<r, n, e>> \in DOMAIN calls'
                                        THEN calls'[<<r, n, e>>] ELSE 0
  BY DEF Called, BagIn, BagToSet
<1>4. CASE calls' = calls /\ kind \notin Routine
  BY <1>2, <1>3, <1>4
<1>5. CASE calls' = calls (+) SetToBag({c})
  <2>1. SetToBag({c}) = [x \in {c} |-> 1]
    BY DEF SetToBag
  <2>2. DOMAIN calls' = DOMAIN calls \cup {c}
    BY <1>5, <2>1 DEF (+)
  <2>3. \A x \in DOMAIN calls' :
          calls'[x] = (IF x \in DOMAIN calls THEN calls[x] ELSE 0) + (IF x = c THEN 1 ELSE 0)
    BY <1>5, <2>1 DEF (+)
  <2>4. \A x \in DOMAIN calls : calls[x] \in Nat /\ calls[x] + 0 = calls[x]
    BY DEF IsABag
  <2>5. Called(kind, fn, image)' = Called(kind, fn, image) + 1
    BY <1>2, <1>3, <2>2, <2>3
  <2>6. ASSUME NEW r, NEW n, NEW e, <<r, n, e>> # c
        PROVE  Called(r, n, e)' = Called(r, n, e)
    <3> DEFINE x == <<r, n, e>>
    <3>1. x # c
      BY <2>6
    <3> HIDE DEF x, c
    <3>2. x \in DOMAIN calls => calls'[x] = calls[x]
      BY <2>2, <2>3, <2>4, <3>1
    <3>3. x \in DOMAIN calls <=> x \in DOMAIN calls'
      BY <2>2, <3>1
    <3>4. /\ Called(r, n, e) = IF x \in DOMAIN calls THEN calls[x] ELSE 0
          /\ Called(r, n, e)' = IF x \in DOMAIN calls' THEN calls'[x] ELSE 0
      BY <1>2, <1>3 DEF x
    <3> QED
      BY <3>2, <3>3, <3>4
  <2>7. kind \in {"add", "link", "remove"} => \A r \in Routine : \A n, e : <<r, n, e>> # c
    BY DEF Routine
  <2> QED
    BY <2>5, <2>6, <2>7
<1> QED
  BY <1>1, <1>4, <1>5 DEF Noted, Routine

(* The routines a step calls: none; the first of a module, which begins      *)
(* them; the one behind the one that returned; or one of a bundle that is    *)
(* unlinked                                                                  *)
Quiet(t) ==
  \A r \in Routine :
    /\ \A n, e : Called(r, n, e)' = Called(r, n, e)
    /\ \A k, i : Working(r, t, k, i)' =>
         Working(r, t, k, i) /\ at'[t].fn = at[t].fn /\ at'[t].n = at[t].n

Begins(r, t) ==
  \E k \in Kinds : \E i \in DOMAIN images[k] : \E im \in Images :
    /\ at[t].phase \in PhasesOf(r) /\ at[t].mode = "scan" /\ at[t].list = k
    /\ im = images[k][i].image /\ images[k][i].state # "UNUSED"
    /\ ~Begun(r, k, i) /\ Begun(r, k, i)'
    /\ CallOut(t, i, r, 1, im)

Continues(r, t) ==
  /\ at[t].phase \in PhasesOf(r) /\ at[t].mode = "next" /\ at[t].fn < at[t].n
  /\ CallOut(t, at[t].i, r, at[t].fn + 1, This(t).image)

TermCalls(t) ==
  at[t].phase = "terminate" /\ \E n : CallOut(t, at[t].i, "term", n, at[t].image)

\* Steps that do nothing of the kind
LEMMA QuietScan ==
  ASSUME NEW t \in Threads, at'[t].mode = "scan", calls' = calls
  PROVE  Quiet(t)
BY DEF Quiet, Working, Called

\* ... as a search that goes on,
LEMMA QuietGoOn ==
  ASSUME FramesOk, NEW t \in Threads,
         (\E i : GoOn(t, i)) \/ (NextList(t) /\ at[t].mode = "scan")
  PROVE  Quiet(t)
<1>1. at'[t].mode = "scan" /\ calls' = calls
  BY GoOnKeeps, GoOnFrame
<1> QED
  BY <1>1, QuietScan

\* the end of an operation,
LEMMA QuietLeave ==
  ASSUME FramesOk, NEW t \in Threads, Leave(t), calls' = calls
  PROVE  Quiet(t)
<1>1. at'[t].mode = "scan"
  BY LeaveStep DEF Idle
<1> QED
  BY <1>1, QuietScan

\* its next loop,
LEMMA QuietNextPhase ==
  ASSUME FramesOk, NEW t \in Threads, NEW phase \in Phases, NextPhase(t, phase),
         at[t].mode = "scan"
  PROVE  Quiet(t)
<1>1. at'[t].mode = "scan" /\ calls' = calls
  BY NextPhaseStep
<1> QED
  BY <1>1, QuietScan

\* or the call of a registered function
LEMMA QuietCall ==
  ASSUME FramesOk, IsABag(calls), NEW t \in Threads, NEW i, NEW kind \in ListPhases, NEW fn,
         NEW im, CallOut(t, i, kind, fn, im), at[t].phase \notin {"init", "initDelayed", "exit"}
  PROVE  Quiet(t)
<1>1. at'[t].phase \notin {"init", "initDelayed", "exit"}
  BY CallOutKeeps
<1>2. \A r \in Routine : \A n, e : Called(r, n, e)' = Called(r, n, e)
  BY CallCounts DEF CallOut, ListPhases
<1> QED
  BY <1>1, <1>2 DEF Quiet, Working, PhasesOf, Routine

\* An entry that is initialised was not begun before.
LEMMA InitBegins ==
  ASSUME TypeInv, DelayInv, NEW t \in Threads, InitModule(t)
  PROVE  Quiet(t) \/ Begins("init", t)
<1> DEFINE wanted == {e \in Entries(t) : ToInitialise(t, e)}
           i == Min(Hits(t, wanted))
           o == Here(t)[i]
           e == InitBegun(t, o)
           k == at[t].list
<1>1. FramesOk /\ ImagesOk /\ at[t] \in Frames
  BY DEF TypeInv, Typed, FramesOk
<1>2. /\ at[t].phase \in {"init", "initDelayed"} /\ at[t].mode = "scan"
      /\ Hits(t, wanted) # {} /\ delayModInit' = delayModInit
      /\ \/ /\ CallsMade(t) /\ ~o.inited /\ SetHere(t, i, e) /\ CallOut(t, i, "init", 1, o.image)
         \/ GoOn(t, i + 1)
  BY DEF InitModule, At, In
<1>3. CASE GoOn(t, i + 1)
  BY <1>1, <1>3, QuietGoOn
<1>4. CASE CallsMade(t) /\ ~o.inited /\ SetHere(t, i, e) /\ CallOut(t, i, "init", 1, o.image)
  <2>1. o \in wanted => o.state = "REGISTERING" \/ (MakingDelayed(t) /\ o.state = "LINKED")
    BY DEF ToInitialise
  <2> HIDE DEF wanted
  <2>2. /\ i \in DOMAIN Here(t) /\ i \in Nat /\ at[t].i <= i /\ o \in wanted
        /\ o \in EntryRecords
    BY <1>1, <1>2, FirstHit
  <2> HIDE DEF i
  <2>3. k \in Kinds /\ i \in DOMAIN images[k] /\ o = images[k][i]
    BY <1>1, <2>2 DEF Here, Frames
  <2>4. /\ e \in EntryRecords
        /\ e.state = (IF o.state = "REGISTERING" THEN "INITIALIZING" ELSE o.state)
        /\ k = "libs" => e.inited
    <3>1. CallsMade(t) \in BOOLEAN
      BY DEF CallsMade, MakingDelayed, TypeInv, Typed, RestOk
    <3> HIDE DEF o
    <3> QED
      BY <1>4, <2>2, <3>1 DEF InitBegun, EntryRecords, States
  <2>5. o.image \in Images
    BY <2>1, <2>2, <2>3 DEF TypeInv, UsedHaveImages
  <2>6. o.image = e.image
    <3> HIDE DEF o
    <3> QED
      BY <2>2 DEF InitBegun, EntryRecords
  <2>7. images'[k][i] = e
    <3> HIDE DEF e, o
    <3> QED
      BY <1>4, <2>2, <2>4, <2>5, <2>6, OtherEntry
  <2>8. ~Begun("init", k, i)
    <3>1. MakingDelayed(t) => ~Passed(k, i)
      <4> SUFFICES ASSUME MakingDelayed(t) PROVE ~Passed(k, i)
        OBVIOUS
      <4>1. at[t].phase = "initDelayed" /\ delayModInit
        BY DEF MakingDelayed, DelayInv
      <4>2. Before(t, k, i)
        BY <1>2, <2>2 DEF Before
      <4>3. \A u \in Threads : at[u].phase = "initDelayed" => u = t
        BY <4>1 DEF DelayInv
      <4> QED
        BY <4>1, <4>2, <4>3 DEF Passed
    <3> HIDE DEF k
    <3> QED
      BY <1>4, <2>1, <2>2, <2>3, <3>1 DEF Begun
  <2>9. PICK q \in Kinds, m \in Nat : q = k /\ m = i
    BY <2>2, <2>3
  <2>10. CallOut(t, m, "init", 1, o.image) /\ m \in DOMAIN images[q]
    BY <1>4, <2>3, <2>9
  <2>11. /\ at[t].phase \in PhasesOf("init") /\ at[t].mode = "scan" /\ at[t].list = q
         /\ o.image = images[q][m].image /\ images[q][m].state # "UNUSED"
         /\ ~Begun("init", q, m)
    BY <1>2, <2>1, <2>2, <2>3, <2>8, <2>9 DEF PhasesOf
  <2>12. Passed(q, m)'
    <3>1. CASE ~delayModInit
      BY <1>2, <3>1 DEF Passed
    <3>2. CASE MakingDelayed(t)
      <4> HIDE DEF o, e, k
      <4>1. /\ at'[t].phase = at[t].phase /\ at'[t].list = at[t].list
            /\ at'[t].mode = "call" /\ at'[t].i = m
        BY <1>1, <2>10, CallOutKeeps
      <4>2. ~Before(t, q, m)'
        BY <2>9, <2>11, <4>1 DEF Before
      <4>3. at'[t].phase = "initDelayed"
        BY <3>2, <4>1 DEF MakingDelayed
      <4> QED
        BY <4>2, <4>3 DEF Passed
    <3> QED
      BY <1>4, <3>1, <3>2 DEF CallsMade
  <2> HIDE DEF e
  <2>13. /\ images'[q][m].state \in {"INITIALIZING", "LINKED"}
         /\ q = "libs" => images'[q][m].inited
    BY <2>1, <2>2, <2>4, <2>7, <2>9
  <2>14. Begun("init", q, m)'
    BY <2>12, <2>13 DEF Begun
  <2> HIDE DEF o, k
  <2> QED
    BY <2>5, <2>10, <2>11, <2>14 DEF Begins
<1> QED
  BY <1>2, <1>3, <1>4

\* Nor was one that exit() finds.
LEMMA TermBegins ==
  ASSUME TypeInv, NEW t \in Threads, ExitModules(t)
  PROVE  Quiet(t) \/ Begins("term", t)
<1> DEFINE wanted == {e \in Entries(t) : ToBeTerminated(e)}
           i == Min(Hits(t, wanted))
           o == Here(t)[i]
           e == [o EXCEPT !.termed = TRUE]
<1>1. FramesOk /\ ImagesOk /\ at[t] \in Frames /\ "exit" \in Phases
  BY DEF TypeInv, Typed, FramesOk, Phases
<1>2. /\ at[t].phase = "exit" /\ at[t].mode = "scan"
      /\ \/ Hits(t, wanted) # {} /\ SetHere(t, i, e) /\ CallOut(t, i, "term", 1, o.image)
         \/ GoOn(t, i + 1) \/ NextList(t) \/ NextPhase(t, "exit")
         \/ Leave(t) /\ calls' = calls
  BY DEF ExitModules, At, In
<1>3. GoOn(t, i + 1) \/ NextList(t) \/ NextPhase(t, "exit") \/ (Leave(t) /\ calls' = calls)
        => Quiet(t)
  BY <1>1, <1>2, QuietGoOn, QuietLeave, QuietNextPhase
<1>4. CASE Hits(t, wanted) # {} /\ SetHere(t, i, e) /\ CallOut(t, i, "term", 1, o.image)
  <2>1. o \in wanted => o.state = "LINKED" /\ ~o.termed
    BY DEF ToBeTerminated
  <2> HIDE DEF wanted
  <2>2. i \in DOMAIN Here(t) /\ o \in wanted /\ o \in EntryRecords
    BY <1>1, <1>4, FirstHit
  <2> HIDE DEF i
  <2>3. PICK q \in Kinds, m \in DOMAIN Here(t) : q = at[t].list /\ m = i
    BY <1>1, <2>2 DEF Frames
  <2>4. m \in DOMAIN images[q] /\ o = images[q][m]
    BY <2>2, <2>3 DEF Here
  <2>5. o.image \in Images
    BY <2>1, <2>2, <2>4 DEF TypeInv, UsedHaveImages
  <2>6. e \in EntryRecords /\ e.image = o.image /\ e.termed
    <3> HIDE DEF o
    <3> QED
      BY <2>2 DEF EntryRecords
  <2> HIDE DEF e
  <2>7. images'[q][m] = e
    <3>1. images'[at[t].list][i] = e
      <4> HIDE DEF o
      <4> QED
        BY <1>4, <2>2, <2>5, <2>6, OtherEntry
    <3> QED
      BY <2>3, <3>1
  <2>8. Begun("term", q, m)' /\ ~Begun("term", q, m)
    BY <2>1, <2>2, <2>4, <2>6, <2>7 DEF Begun
  <2>9. /\ at[t].phase \in PhasesOf("term") /\ at[t].mode = "scan" /\ at[t].list = q
        /\ o.image = images[q][m].image /\ images[q][m].state # "UNUSED"
    BY <1>2, <2>1, <2>2, <2>3, <2>4 DEF PhasesOf
  <2>10. CallOut(t, m, "term", 1, o.image)
    BY <1>4, <2>3
  <2> HIDE DEF o
  <2> QED
    BY <2>4, <2>5, <2>8, <2>9, <2>10 DEF Begins
<1> QED
  BY <1>2, <1>3, <1>4

\* Every step is of one of the four kinds.
LEMMA CallKinds ==
  ASSUME TypeInv, DelayInv, NEW t \in Threads, Call(t) \/ Step(t)
  PROVE  Quiet(t) \/ TermCalls(t) \/ \E r \in Routine : Begins(r, t) \/ Continues(r, t)
<1>1. FramesOk /\ IsABag(calls) /\ at[t] \in Frames
      /\ "link" \in Phases /\ "init" \in Phases
  BY DEF TypeInv, Typed, FramesOk, Phases
<1>2. ASSUME NEW frame, Enter(t, frame), frame.mode = "scan", calls' = calls
      PROVE  Quiet(t)
  <2>1. at'[t] = frame
    BY <1>1, <1>2 DEF Enter, FramesOk
  <2> QED
    BY <1>2, <2>1, QuietScan
<1>3. CASE Call(t)
  <2>1. ASSUME NEW b, LinkModule(t, b) PROVE Quiet(t)
    <3>1. [Idle EXCEPT !.phase = "add", !.module = b].mode = "scan"
      BY DEF Idle
    <3> QED
      BY <1>2, <2>1, <3>1 DEF LinkModule
  <2>2. ASSUME NEW i, BindModule(t, i) PROVE Quiet(t)
    <3>1. [Idle EXCEPT !.phase = "add"].mode = "scan"
      BY DEF Idle
    <3> QED
      BY <1>2, <2>2, <3>1 DEF BindModule
  <2>3. ASSUME NEW k, Register(t, k) PROVE Quiet(t)
    <3>1. \A f : [Idle EXCEPT !.phase = IF k = "add" THEN "walkAdd" ELSE "walkLink",
                              !.fn = f].mode = "scan"
      BY DEF Idle
    <3> QED
      BY <1>2, <2>3, <3>1 DEF Register
  <2>4. RegisterRemove(t) => Quiet(t)
    BY DEF RegisterRemove, Quiet, Working, Called
  <2>5. Launch(t) => Quiet(t)
    <3>1. [Idle EXCEPT !.phase = "initDelayed"].mode = "scan"
      BY DEF Idle
    <3> QED
      BY <1>2, <3>1 DEF Launch
  <2>6. ASSUME NEW i, UnlinkModule(t, i) PROVE Quiet(t)
    <3>1. \A im : [Idle EXCEPT !.phase = "terminate", !.i = i, !.fn = 0,
                               !.image = im].mode = "scan"
      BY DEF Idle
    <3> QED
      BY <1>2, <2>6, <3>1 DEF UnlinkModule
  <2>7. Exit(t) => Quiet(t)
    <3>1. [Idle EXCEPT !.phase = "exit"].mode = "scan"
      BY DEF Idle
    <3> QED
      BY <1>2, <3>1 DEF Exit
  <2> QED
    BY <1>3, <2>1, <2>2, <2>3, <2>4, <2>5, <2>6, <2>7 DEF Call
<1>4. CASE Step(t)
  <2>1. Return(t) => Quiet(t)
    <3> SUFFICES ASSUME Return(t) PROVE Quiet(t)
      OBVIOUS
    <3>1. at'[t] = [at[t] EXCEPT !.mode = "next"] /\ at[t].mode = "call" /\ calls' = calls
      BY <1>1 DEF Return, FramesOk
    <3>2. /\ at'[t].phase = at[t].phase /\ at'[t].list = at[t].list /\ at'[t].i = at[t].i
          /\ at'[t].fn = at[t].fn /\ at'[t].n = at[t].n
      BY <1>1, <3>1 DEF Frames
    <3> QED
      BY <3>1, <3>2 DEF Quiet, Working, Called
  <2>2. Walk(t) => Quiet(t)
    <3>1. ASSUME NEW hits, NEW i, NEW kind, kind \in {"add", "link"}, NEW fn, NEW im,
                 at[t].phase \in {"walkAdd", "walkLink"},
                 hits # {} /\ CallOut(t, i, kind, fn, im)
          PROVE  Quiet(t)
      BY <1>1, <3>1, QuietCall DEF ListPhases
    <3> QED
      BY <1>1, <3>1, QuietGoOn, QuietLeave DEF Walk, In
  <2>3. AddImages(t) => Quiet(t)
    BY <1>1, QuietCall, QuietGoOn, QuietNextPhase DEF AddImages, At, In, ListPhases
  <2>4. LinkModules(t) => Quiet(t)
    BY <1>1, QuietCall, QuietGoOn, QuietNextPhase DEF LinkModules, At, In, ListPhases
  <2>5. NextFunction(t) => Quiet(t)
    BY <1>1, QuietCall, QuietGoOn DEF NextFunction, At, In, ListPhases
  <2>6. InitModule(t) => Quiet(t) \/ Begins("init", t)
    BY InitBegins
  <2>7. InitDone(t) => Quiet(t)
    BY <1>1, QuietGoOn, QuietLeave DEF InitDone, At, In
  <2>8. NextInit(t) => Quiet(t) \/ Continues("init", t)
    BY <1>1, QuietGoOn DEF NextInit, At, In, Continues, PhasesOf
  <2>9. Terminate(t) => Quiet(t) \/ TermCalls(t)
    <3>1. at' = [at EXCEPT ![t].phase = "remove", ![t].mode = "scan"] => at'[t].mode = "scan"
      BY <1>1 DEF FramesOk, Frames
    <3> QED
      BY <3>1, QuietScan DEF Terminate, In, TermCalls
  <2>10. RemoveImage(t) => Quiet(t)
    BY <1>1, QuietCall, QuietLeave DEF RemoveImage, In, ListPhases
  <2>11. ExitModules(t) => Quiet(t) \/ Begins("term", t)
    BY TermBegins
  <2>12. NextTerm(t) => Quiet(t) \/ Continues("term", t)
    BY <1>1, QuietGoOn DEF NextTerm, At, In, Continues, PhasesOf
  <2> QED
    BY <1>4, <2>1, <2>2, <2>3, <2>4, <2>5, <2>6, <2>7, <2>8, <2>9, <2>10, <2>11, <2>12
    DEF Step, Routine
<1> QED
  BY <1>3, <1>4

(* Who works at an entry did so before, and is as far at least, or has just  *)
(* begun there.                                                              *)
LEMMA WhoWorks ==
  ASSUME TypeInv, DelayInv, NEW t \in Threads, Call(t) \/ Step(t), NEW r \in Routine,
         NEW u \in Threads, NEW k \in Kinds, NEW i, Working(r, u, k, i)'
  PROVE  /\ i \in DOMAIN images[k]
         /\ \/ /\ Working(r, u, k, i) /\ at'[u].n = at[u].n
               /\ at[u].fn \in Nat \ {0} /\ at[u].fn <= at'[u].fn
            \/ /\ u = t /\ ~Begun(r, k, i) /\ Begun(r, k, i)'
               /\ images[k][i].state # "UNUSED"
<1>1. FramesOk /\ Local(t) /\ IsABag(calls)
  BY LocalSteps DEF TypeInv, Typed
<1>2. Working(r, u, k, i) => i \in DOMAIN images[k] /\ at[u].fn \in Nat \ {0}
  BY DEF Working, PhasesOf, TypeInv, FramesStand, FrameStands, RoutinePhases, Routine
<1>3. \A x \in Nat \ {0} : x <= x /\ x <= x + 1 /\ x + 1 # 1
  OBVIOUS
<1>4. CASE u # t
  <2>1. at'[u] = at[u]
    BY <1>1, <1>4 DEF Local
  <2>2. Working(r, u, k, i)
    BY <2>1 DEF Working
  <2> QED
    BY <1>2, <1>3, <2>1, <2>2
<1>5. CASE u = t /\ Quiet(t)
  <2>1. Working(r, u, k, i) /\ at'[u].n = at[u].n /\ at'[u].fn = at[u].fn
    BY <1>5 DEF Quiet
  <2> QED
    BY <1>2, <1>3, <2>1
<1>6. CASE u = t /\ TermCalls(t)
  <2>1. at'[t].phase = "terminate"
    BY <1>1, <1>6, CallOutKeeps DEF TermCalls
  <2> QED
    BY <1>6, <2>1 DEF Working, PhasesOf
<1>7. ASSUME u = t, NEW s \in Routine, Begins(s, t)
      PROVE  /\ i \in DOMAIN images[k] /\ ~Begun(r, k, i) /\ Begun(r, k, i)'
             /\ images[k][i].state # "UNUSED"
  <2>1. PICK q \in Kinds : \E j \in DOMAIN images[q] : \E im \in Images :
          /\ at[t].phase \in PhasesOf(s) /\ at[t].mode = "scan" /\ at[t].list = q
          /\ im = images[q][j].image /\ images[q][j].state # "UNUSED"
          /\ ~Begun(s, q, j) /\ Begun(s, q, j)'
          /\ CallOut(t, j, s, 1, im)
    BY <1>7 DEF Begins
  <2>2. PICK j \in DOMAIN images[q] : \E im \in Images :
          /\ at[t].phase \in PhasesOf(s) /\ at[t].mode = "scan" /\ at[t].list = q
          /\ im = images[q][j].image /\ images[q][j].state # "UNUSED"
          /\ ~Begun(s, q, j) /\ Begun(s, q, j)'
          /\ CallOut(t, j, s, 1, im)
    BY <2>1
  <2>3. at'[t].phase = at[t].phase /\ at'[t].list = q /\ at'[t].i = j
    BY <1>1, <2>2, CallOutKeeps
  <2>4. s = r
    BY <1>7, <2>2, <2>3 DEF Working, PhasesOf, Routine
  <2>5. k = q /\ i = j
    BY <1>7, <2>3 DEF Working
  <2> QED
    BY <2>2, <2>4, <2>5
<1>8. ASSUME u = t, NEW s \in Routine, Continues(s, t)
      PROVE  /\ i \in DOMAIN images[k] /\ Working(r, u, k, i) /\ at'[u].n = at[u].n
             /\ at[u].fn \in Nat \ {0} /\ at[u].fn <= at'[u].fn
  <2>1. /\ at[t].mode = "next" /\ at'[t].phase = at[t].phase /\ at'[t].list = at[t].list
        /\ at'[t].i = at[t].i /\ at'[t].fn = at[t].fn + 1
        /\ at'[t].n = IF s \in {"init", "term"} /\ at[t].fn + 1 = 1
                        THEN Routines[This(t).image] ELSE at[t].n
    BY <1>1, <1>8, CallOutKeeps DEF Continues
  <2>2. Working(r, t, k, i)
    BY <1>8, <2>1 DEF Working
  <2> QED
    BY <1>2, <1>3, <1>8, <2>1, <2>2
<1> QED
  BY <1>4, <1>5, <1>6, <1>7, <1>8, CallKinds

\* Every step keeps one thread at a module, unless another may be there by now.
LEMMA WorkStep ==
  ASSUME TypeInv, DelayInv, EntriesStep, NEW t \in Threads, Call(t) \/ Step(t),
         NEW r \in Routine, WorkInv(r)
  PROVE  WorkInv(r)'
<1>1. ASSUME NEW k \in Kinds, NEW i, Changing(k, i) PROVE Changing(k, i)'
  BY <1>1 DEF Changing, EntriesStep
<1>2. ASSUME NEW u \in Threads, NEW k \in Kinds, NEW i \in DOMAIN images'[k],
             Working(r, u, k, i)'
      PROVE  /\ \/ Begun(r, k, i)' \/ Changing(k, i)'
                \/ k = "objects" /\ i # 1 /\ images'[k][i].state = "UNUSED"
             /\ \A w \in Threads : Working(r, w, k, i)' => w = u \/ Changing(k, i)'
  <2>1. /\ i \in DOMAIN images[k]
        /\ \/ Working(r, u, k, i)
           \/ /\ u = t /\ ~Begun(r, k, i) /\ Begun(r, k, i)'
              /\ images[k][i].state # "UNUSED"
    BY <1>2, WhoWorks
  <2>2. \A w \in Threads : Working(r, w, k, i) =>
          /\ \/ Begun(r, k, i) \/ Changing(k, i)
             \/ k = "objects" /\ i # 1 /\ images[k][i].state = "UNUSED"
          /\ \A v \in Threads : Working(r, v, k, i) => v = w \/ Changing(k, i)
    BY <2>1 DEF WorkInv
  <2>3. \/ Begun(r, k, i)' \/ Changing(k, i)'
        \/ k = "objects" /\ i # 1 /\ images'[k][i].state = "UNUSED"
    <3>1. CASE Working(r, u, k, i)
      <4>1. CASE Further(images'[k][i], images[k][i])
        BY <1>1, <2>1, <2>2, <3>1, <4>1, BegunStays DEF Further
      <4>2. CASE Arrives(k, i)
        BY <2>1, <4>2 DEF Arrives, Changing
      <4>3. CASE Clears(k, i)
        BY <4>3 DEF Clears
      <4> QED
        BY <4>1, <4>2, <4>3 DEF EntriesStep
    <3> QED
      BY <2>1, <3>1
  <2>4. ASSUME NEW w \in Threads, Working(r, w, k, i)' PROVE w = u \/ Changing(k, i)'
    <3>1. \/ Working(r, w, k, i)
          \/ w = t /\ ~Begun(r, k, i) /\ images[k][i].state # "UNUSED"
      BY <2>4, WhoWorks
    <3> QED
      BY <1>1, <2>1, <2>2, <3>1
  <2> QED
    BY <2>3, <2>4
<1> QED
  BY <1>2 DEF WorkInv

(* A routine that was not called in this step is called as often as before.  *)
LEMMA ExcusedStays ==
  ASSUME TypeInv, EntriesStep, NEW t \in Threads, Call(t) \/ Step(t), NEW r, NEW e, NEW n,
         Excused(r, e, n)
  PROVE  Excused(r, e, n)'
<1>1. GivenUp(e) => GivenUp(e)'
  BY GivenUpStays
<1> QED
  BY <1>1 DEF Excused, MayBeMistaken, EntriesStep

\* An entry without an image is of none.
LEMMA NoneIsNoImage == None \notin Images
BY CalloutsAssumption DEF Images, Needed

\* What is done stays done, or goes with its image.
LEMMA DoneStays ==
  ASSUME TypeInv, PlacesInv, DelayInv, EntriesStep, NEW t \in Threads, Call(t) \/ Step(t),
         NEW r \in Routine, NEW e \in Images, NEW n \in Nat, Done(r, e, n)
  PROVE  Done(r, e, n)'
<1>1. CASE Gone(e)
  <2>1. ASSUME NEW k \in Kinds, NEW i \in DOMAIN images'[k] PROVE images'[k][i].image # e
    <3>1. CASE i \in DOMAIN images[k] /\ Further(images'[k][i], images[k][i])
      BY <1>1, <3>1 DEF Further, Gone
    <3>2. CASE Arrives(k, i)
      BY <1>1, <3>2 DEF Arrives, Gone
    <3>3. CASE Clears(k, i)
      BY <3>3, NoneIsNoImage DEF Clears
    <3> QED
      BY <3>1, <3>2, <3>3 DEF EntriesStep
  <2>2. Gone(e)'
    BY <1>1, <2>1 DEF Gone, EntriesStep
  <2> QED
    BY <2>2 DEF Done
<1>2. ASSUME NEW k \in Kinds, NEW i \in DOMAIN images[k], DoneAt(r, e, n, k, i)
      PROVE  Done(r, e, n)'
  <2>1. i \in DOMAIN images'[k] /\ images[k][i].image = e /\ Begun(r, k, i)
    BY <1>2 DEF EntriesStep, DoneAt
  <2>2. CASE Further(images'[k][i], images[k][i])
    <3>1. images'[k][i].image = e /\ Begun(r, k, i)'
      BY <2>1, <2>2, BegunStays DEF Further
    <3>2. ASSUME NEW u \in Threads, StillCalls(r, u, n, k, i)' PROVE FALSE
      <4>1. Working(r, u, k, i)' /\ at'[u].fn < n /\ n <= at'[u].n
        BY <3>2 DEF StillCalls
      <4>2. /\ Working(r, u, k, i) /\ at'[u].n = at[u].n
            /\ at[u].fn \in Nat \ {0} /\ at[u].fn <= at'[u].fn
        BY <2>1, <4>1, WhoWorks
      <4>3. at'[u].fn \in Nat
        <5>1. CASE u = t
          <6>1. CASE Quiet(t)
            BY <4>1, <4>2, <5>1, <6>1 DEF Quiet
          <6>2. ASSUME NEW s \in Routine, Continues(s, t) PROVE at'[t].fn = at[t].fn + 1
            BY <6>2, CallOutKeeps DEF Continues, TypeInv, Typed
          <6>3. ASSUME NEW s \in Routine, Begins(s, t) PROVE FALSE
            BY <4>2, <5>1, <6>3 DEF Begins, Working
          <6>4. ~TermCalls(t)
            BY <4>2, <5>1 DEF TermCalls, Working, PhasesOf
          <6> QED
            BY <4>2, <5>1, <6>1, <6>2, <6>3, <6>4, CallKinds
        <5>2. CASE u # t
          BY <4>2, <5>2, LocalSteps DEF Local
        <5> QED
          BY <5>1, <5>2
      <4>4. at[u].fn < n
        BY <4>1, <4>2, <4>3
      <4>5. StillCalls(r, u, n, k, i)
        BY <4>1, <4>2, <4>4 DEF StillCalls
      <4> QED
        BY <1>2, <4>5 DEF DoneAt
    <3>3. DoneAt(r, e, n, k, i)'
      BY <3>1, <3>2 DEF DoneAt
    <3> QED
      BY <2>1, <3>3 DEF Done
  <2>3. CASE Arrives(k, i)
    BY <1>2, <2>1, <2>3, NoneIsNoImage DEF Arrives, PlacesInv
  <2>4. CASE Clears(k, i)
    <3>1. e \in linked /\ images'[k][i].image # e
      BY <2>1, <2>4, NoneIsNoImage DEF Clears
    <3>2. ASSUME NEW q \in Kinds, NEW j \in DOMAIN images'[q], images'[q][j].image = e
          PROVE  FALSE
      <4>1. ~Arrives(q, j) /\ ~Clears(q, j)
        BY <3>1, <3>2, NoneIsNoImage DEF Arrives, Clears
      <4>2. j \in DOMAIN images[q] /\ images[q][j].image = e
        BY <3>2, <4>1 DEF EntriesStep, Further
      <4>3. k = q /\ i = j
        BY <2>1, <4>2, NoneIsNoImage DEF PlacesInv
      <4> QED
        BY <3>1, <3>2, <4>3
    <3>3. Gone(e)'
      BY <3>1, <3>2 DEF Gone, EntriesStep
    <3> QED
      BY <3>3 DEF Done
  <2> QED
    BY <2>1, <2>2, <2>3, <2>4 DEF EntriesStep
<1> QED
  BY <1>1, <1>2 DEF Done

\* So a number that does not change is right.
LEMMA OnceStays ==
  ASSUME TypeInv, PlacesInv, DelayInv, EntriesStep, NEW t \in Threads, Call(t) \/ Step(t),
         NEW r \in Routine, NEW e \in Images, NEW n \in Nat, Once(r, e, n),
         Called(r, n, e)' = Called(r, n, e)
  PROVE  Once(r, e, n)'
BY ExcusedStays, DoneStays DEF Once

(* The entry a routine is called of keeps its image meanwhile.               *)
LEMMA CallsKeepEntry ==
  ASSUME TypeInv, PlacesInv, EntriesStep, NEW t \in Threads, Call(t) \/ Step(t),
         NEW j, NEW kind, NEW fn, NEW im, CallOut(t, j, kind, fn, im),
         NEW k \in Kinds, NEW i \in DOMAIN images[k], images[k][i].image \in Images
  PROVE  Further(images'[k][i], images[k][i]) /\ i \in DOMAIN images'[k]
<1>1. FramesOk /\ Local(t)
  BY LocalSteps DEF TypeInv, Typed
<1>2. ~Arrives(k, i)
  BY NoneIsNoImage DEF Arrives, PlacesInv
<1>3. ~Clears(k, i)
  <2> SUFFICES ASSUME NEW w \in Threads, at[w].phase = "remove", at'[w].phase = "out"
               PROVE  FALSE
    BY DEF Clears
  <2>1. at'[t].phase = at[t].phase
    BY <1>1, CallOutKeeps
  <2> QED
    BY <1>1, <2>1 DEF Local
<1> QED
  BY <1>2, <1>3 DEF EntriesStep

\* The first routine is called where none was.
LEMMA OnceBegins ==
  ASSUME TypeInv, TypeInv', PlacesInv, DelayInv, EntriesStep, NEW t \in Threads,
         Call(t) \/ Step(t), NEW r \in Routine, NEW k \in Kinds, NEW i \in DOMAIN images[k],
         NEW e \in Images, e = images[k][i].image, ~Begun(r, k, i), Begun(r, k, i)',
         CallOut(t, i, r, 1, e), Once(r, e, 1)
  PROVE  Once(r, e, 1)'
<1>1. Called(r, 1, e)' = Called(r, 1, e) + 1
  BY CallCounts DEF CallOut, TypeInv, Typed
<1>2. CASE Excused(r, e, 1)
  BY <1>2, ExcusedStays DEF Once
<1>3. CASE Called(r, 1, e) = 0
  <2>1. images'[k][i].image = e /\ i \in DOMAIN images'[k]
    BY CallsKeepEntry DEF Further
  <2>2. \A u \in Threads : ~StillCalls(r, u, 1, k, i)'
    <3> SUFFICES ASSUME NEW u \in Threads, StillCalls(r, u, 1, k, i)' PROVE FALSE
      OBVIOUS
    <3>1. at'[u].phase \in RoutinePhases /\ at'[u].mode # "scan" /\ at'[u].fn < 1
      BY DEF StillCalls, Working, PhasesOf, RoutinePhases, Routine
    <3>2. at'[u].fn \in Nat \ {0}
      BY <3>1 DEF TypeInv, FramesStand, FrameStands
    <3> QED
      BY <3>1, <3>2
  <2>3. DoneAt(r, e, 1, k, i)'
    BY <2>1, <2>2 DEF DoneAt
  <2>4. Done(r, e, 1)'
    BY <2>1, <2>3 DEF Done
  <2> QED
    BY <1>1, <1>3, <2>4 DEF Once
<1>4. ~Done(r, e, 1)
  <2>1. ~Gone(e)
    BY DEF Gone
  <2>2. ASSUME NEW q \in Kinds, NEW j \in DOMAIN images[q], DoneAt(r, e, 1, q, j) PROVE FALSE
    <3>1. q = k /\ j = i
      BY <2>2, NoneIsNoImage DEF DoneAt, PlacesInv
    <3> QED
      BY <2>2, <3>1 DEF DoneAt
  <2> QED
    BY <2>1, <2>2 DEF Done
<1> QED
  BY <1>2, <1>3, <1>4 DEF Once

\* The next one is called by the one thread there, or of an image that may be
\* another than the one whose turn it is.
LEMMA OnceContinues ==
  ASSUME TypeInv, TypeInv', PlacesInv, DelayInv, EntriesStep, NEW t \in Threads,
         Call(t) \/ Step(t), NEW r \in Routine, WorkInv(r), Continues(r, t),
         NEW n, n = at[t].fn + 1, NEW e \in Images, e = This(t).image, Once(r, e, n)
  PROVE  Once(r, e, n)'
<1>1. FramesOk /\ at[t] \in Frames /\ Local(t) /\ IsABag(calls) /\ linked \subseteq Bundles
  BY LocalSteps DEF TypeInv, Typed, FramesOk, RestOk
<1>2. PICK k \in Kinds, i \in Nat : k = at[t].list /\ i = at[t].i
  BY <1>1 DEF Frames
<1>3. /\ Working(r, t, k, i) /\ i \in DOMAIN images[k] /\ e = images[k][i].image
      /\ at[t].fn \in Nat \ {0} /\ at[t].n \in Nat /\ at[t].fn < at[t].n
  BY <1>1, <1>2 DEF Continues, Working, PhasesOf, Routine, TypeInv, FramesStand, FrameStands,
     RoutinePhases, This, Here, Frames
<1>4. CallOut(t, i, r, n, e)
  BY <1>2 DEF Continues
<1>5. Called(r, n, e)' = Called(r, n, e) + 1
  BY <1>1, <1>4, CallCounts DEF CallOut
<1>6. n \in Nat /\ n > 1 /\ at[t].fn < n /\ n <= at[t].n
  BY <1>3
<1>7. CASE Excused(r, e, n)
  BY <1>7, ExcusedStays DEF Once
<1>8. CASE Changing(k, i)
  <2>1. e \in Bundles /\ EntryReused
    BY <1>1, <1>3, <1>8, NoneIsNoImage DEF Changing, PlacesInv
  <2>2. Excused(r, e, n)
    BY <1>6, <2>1 DEF Excused, MayBeMistaken
  <2> QED
    BY <1>7, <2>2
<1>9. CASE ~Changing(k, i)
  <2>1. /\ Begun(r, k, i)
        /\ \A u \in Threads : Working(r, u, k, i) => u = t
    BY <1>3, <1>9, NoneIsNoImage DEF WorkInv, PlacesInv
  <2>2. /\ Further(images'[k][i], images[k][i]) /\ i \in DOMAIN images'[k]
        /\ images'[k][i].image = e
    BY <1>3, <1>4, CallsKeepEntry DEF Further
  <2>3. Begun(r, k, i)'
    BY <1>3, <2>1, <2>2, BegunStays
  <2>4. at'[t].fn = n
    BY <1>1, <1>4, CallOutKeeps
  <2>5. \A u \in Threads : ~StillCalls(r, u, n, k, i)'
    <3> SUFFICES ASSUME NEW u \in Threads, StillCalls(r, u, n, k, i)' PROVE FALSE
      OBVIOUS
    <3>1. Working(r, u, k, i)' /\ at'[u].fn < n
      BY DEF StillCalls
    <3>2. u = t
      BY <2>1, <3>1, WhoWorks
    <3> QED
      BY <1>6, <2>4, <3>1, <3>2
  <2>6. Done(r, e, n)'
    BY <2>2, <2>3, <2>5 DEF Done, DoneAt
  <2>7. CASE Called(r, n, e) = 0
    BY <1>5, <2>6, <2>7 DEF Once
  <2>8. ~Done(r, e, n)
    <3>1. ~Gone(e)
      BY <1>3 DEF Gone
    <3>2. ASSUME NEW q \in Kinds, NEW j \in DOMAIN images[q], DoneAt(r, e, n, q, j)
          PROVE  FALSE
      <4>1. q = k /\ j = i
        BY <1>3, <3>2, NoneIsNoImage DEF DoneAt, PlacesInv
      <4>2. StillCalls(r, t, n, k, i)
        BY <1>3, <1>6 DEF StillCalls
      <4> QED
        BY <3>2, <4>1, <4>2 DEF DoneAt
    <3> QED
      BY <3>1, <3>2 DEF Done
  <2> QED
    BY <1>7, <2>7, <2>8 DEF Once
<1> QED
  BY <1>8, <1>9

\* Every step calls one that was not called, if any.
LEMMA OnceStep ==
  ASSUME TypeInv, TypeInv', OnceInvs, EntriesStep, NEW t \in Threads, Call(t) \/ Step(t),
         NEW r \in Routine
  PROVE  OnceInv(r)'
<1> SUFFICES ASSUME NEW e \in Images, NEW n \in 1 .. Routines[e] PROVE Once(r, e, n)'
  BY DEF OnceInv
<1>1. /\ PlacesInv /\ HandlesInv /\ DelayInv /\ n \in Nat /\ IsABag(calls)
      /\ \A s \in Routine : WorkInv(s) /\ OnceInv(s)
  BY CalloutsAssumption DEF OnceInvs, TypeInv, Typed
<1>2. Once(r, e, n)
  BY <1>1 DEF OnceInv
<1>3. Called(r, n, e)' = Called(r, n, e) => Once(r, e, n)'
  BY <1>1, <1>2, OnceStays
<1>4. ASSUME NEW i, NEW s \in Routine, NEW m, NEW im, CallOut(t, i, s, m, im),
             ~(r = s /\ n = m /\ e = im)
      PROVE  Once(r, e, n)'
  <2>1. <<r, n, e>> # <<s, m, im>>
    BY <1>4
  <2>2. Called(r, n, e)' = Called(r, n, e)
    BY <1>1, <1>4, <2>1, CallCounts DEF CallOut
  <2> QED
    BY <1>3, <2>2
<1>5. CASE Quiet(t)
  BY <1>3, <1>5 DEF Quiet
<1>6. CASE TermCalls(t)
  <2>1. PICK m : at[t].phase = "terminate" /\ CallOut(t, at[t].i, "term", m, at[t].image)
    BY <1>6 DEF TermCalls
  <2>2. CASE r = "term" /\ n = m /\ e = at[t].image
    <3>1. GivenUp(e)
      BY <1>1, <2>1, <2>2 DEF HandlesInv, Unlinking
    <3>2. Excused(r, e, n)
      BY <2>2, <3>1 DEF Excused
    <3> QED
      BY <3>2, ExcusedStays DEF Once
  <2> QED
    BY <1>4, <2>1, <2>2 DEF Routine
<1>7. ASSUME NEW s \in Routine, Begins(s, t) PROVE Once(r, e, n)'
  <2>1. PICK k \in Kinds : \E i \in DOMAIN images[k] : \E im \in Images :
          /\ im = images[k][i].image /\ ~Begun(s, k, i) /\ Begun(s, k, i)'
          /\ CallOut(t, i, s, 1, im)
    BY <1>7 DEF Begins
  <2>2. PICK i \in DOMAIN images[k] : \E im \in Images :
          /\ im = images[k][i].image /\ ~Begun(s, k, i) /\ Begun(s, k, i)'
          /\ CallOut(t, i, s, 1, im)
    BY <2>1
  <2>3. CASE r = s /\ n = 1 /\ e = images[k][i].image
    BY <1>1, <1>2, <2>2, <2>3, OnceBegins
  <2> QED
    BY <1>4, <2>2, <2>3
<1>8. ASSUME NEW s \in Routine, Continues(s, t) PROVE Once(r, e, n)'
  <2>1. CallOut(t, at[t].i, s, at[t].fn + 1, This(t).image)
    BY <1>8 DEF Continues
  <2>2. CASE r = s /\ n = at[t].fn + 1 /\ e = This(t).image
    BY <1>1, <1>2, <1>8, <2>2, OnceContinues
  <2> QED
    BY <1>4, <1>8, <2>1, <2>2
<1> QED
  BY <1>1, <1>5, <1>6, <1>7, <1>8, CallKinds

\* At the start nothing was called.
LEMMA InitOnce == Init => OnceInvs
<1> SUFFICES ASSUME Init PROVE OnceInvs
  OBVIOUS
<1>1. /\ \A t \in Threads : at[t] = Idle
      /\ linked = {} /\ usable = {} /\ calls = EmptyBag
      /\ images["objects"] = <<Entry(Executable, "LINKED", TRUE)>>
      /\ DOMAIN images["libs"] = DOMAIN Libraries
      /\ \A i \in DOMAIN Libraries :
           /\ images["libs"][i].image = Libraries[i]
           /\ images["libs"][i].state # "UNUSED"
  BY DEF Init, Entry
<1>2. Idle.phase = "out" /\ Idle.module = None /\ Idle.mode = "scan"
  BY DEF Idle
<1>3. /\ DOMAIN images["objects"] = {1} /\ images["objects"][1].image = Executable
      /\ images["objects"][1].state = "LINKED" /\ Len(images["objects"]) = 1
  BY <1>1 DEF Entry
<1>4. /\ \A i \in DOMAIN Libraries : Libraries[i] \in InLibraries
      /\ Executable \notin InLibraries /\ None \notin InLibraries /\ Executable # None
      /\ \A i, j \in DOMAIN Libraries : Libraries[i] = Libraries[j] => i = j
  BY CalloutsAssumption DEF InLibraries
<1>5. PlacesInv
  <2>1. ASSUME NEW k \in Kinds, NEW i \in DOMAIN images[k]
        PROVE  /\ images[k][i].state # "UNUSED" /\ images[k][i].image # None
               /\ \/ k = "objects" /\ i = 1 /\ images[k][i].image = Executable
                  \/ /\ k = "libs" /\ i \in DOMAIN Libraries
                     /\ images[k][i].image = Libraries[i] /\ Libraries[i] \in InLibraries
    <3>1. CASE k = "objects"
      <4>1. i = 1
        BY <1>3, <2>1, <3>1
      <4> QED
        BY <1>3, <1>4, <3>1, <4>1
    <3>2. CASE k = "libs"
      BY <1>1, <1>4, <2>1, <3>2
    <3> QED
      BY <3>1, <3>2 DEF Kinds
  <2>2. ASSUME NEW k \in Kinds, NEW q \in Kinds, NEW i \in DOMAIN images[k],
               NEW j \in DOMAIN images[q], images[k][i].image = images[q][j].image
        PROVE  k = q /\ i = j
    BY <1>4, <2>1, <2>2
  <2>3. IsFiniteSet(linked) /\ Len(images["objects"]) <= Cardinality(linked) + 1
    BY <1>1, <1>3, FS_EmptySet
  <2>4. 1 \in DOMAIN images["objects"] /\ images["objects"][1].image = Executable
    BY <1>3
  <2>5. /\ \A i \in DOMAIN images["objects"] : i = 1
        /\ \A i \in DOMAIN images["libs"] : images["libs"][i].image \in InLibraries
    BY <1>1, <1>3, <1>4
  <2> QED
    BY <2>1, <2>2, <2>3, <2>4, <2>5 DEF PlacesInv
<1>6. HandlesInv /\ DelayInv
  BY <1>1, <1>2 DEF HandlesInv, DelayInv, Unlinking
<1>7. ASSUME NEW r \in Routine PROVE WorkInv(r) /\ OnceInv(r)
  <2>1. WorkInv(r)
    BY <1>1, <1>2 DEF WorkInv, Working
  <2>2. \A n, e : Called(r, n, e) = 0
    BY <1>1 DEF Called, BagIn, BagToSet, EmptyBag, SetToBag
  <2> QED
    BY <2>1, <2>2 DEF OnceInv, Once
<1> QED
  BY <1>5, <1>6, <1>7 DEF OnceInvs

\* Every step keeps the whole.
LEMMA NextOnce == TypeInv /\ OnceInvs /\ [Next]_vars => OnceInvs'
<1> SUFFICES ASSUME TypeInv, OnceInvs, [Next]_vars PROVE OnceInvs'
  OBVIOUS
<1>1. CASE UNCHANGED vars
  <2>1. UNCHANGED <<images, at, linked, usable, delayModInit, calls>>
    BY <1>1 DEF vars, callVars
  <2>2. PlacesInv' /\ HandlesInv' /\ DelayInv'
    BY <2>1 DEF OnceInvs, PlacesInv, HandlesInv, GivenUp, Unlinking, DelayInv
  <2>3. ASSUME NEW r \in Routine PROVE WorkInv(r)' /\ OnceInv(r)'
    <3>1. WorkInv(r) /\ OnceInv(r)
      BY DEF OnceInvs
    <3>2. WorkInv(r)'
      BY <2>1, <3>1 DEF WorkInv, Working, Begun, Passed, Before, Changing, EntryReused
    <3>3. OnceInv(r)'
      BY <2>1, <3>1 DEF OnceInv, Once, Excused, MayBeMistaken, EntryReused, GivenUp, Called, Done,
         Gone, DoneAt, Begun, Passed, Before, StillCalls, Working
    <3> QED
      BY <3>2, <3>3
  <2> QED
    BY <2>2, <2>3 DEF OnceInvs
<1>2. ASSUME NEW t \in Threads, Call(t) \/ Step(t) PROVE OnceInvs'
  <2>1. TypeInv' /\ ImagesOk'
    BY NextTyped, <1>2 DEF Next, TypeInv, Typed
  <2>2. PlacesInv /\ HandlesInv /\ DelayInv /\ \A r \in Routine : WorkInv(r)
    BY DEF OnceInvs
  <2>3. EntriesStep /\ PlacesInv'
    BY <1>2, <2>1, <2>2, EntriesChange
  <2>4. HandlesInv' /\ DelayInv'
    BY <1>2, <2>2, <2>3, HandlesStep, DelayStep
  <2>5. ASSUME NEW r \in Routine PROVE WorkInv(r)' /\ OnceInv(r)'
    BY <1>2, <2>1, <2>2, <2>3, WorkStep, OnceStep
  <2> QED
    BY <2>3, <2>4, <2>5 DEF OnceInvs
<1> QED
  BY <1>1, <1>2 DEF Next, Stopped

\* A routine called once is not called twice.
LEMMA OnceInvShows == OnceInvs => CalledOnce
<1> SUFFICES ASSUME OnceInvs PROVE CalledOnce
  OBVIOUS
<1>1. \A r \in Routine : \A e \in Images : \A n \in 1 .. Routines[e] :
        Excused(r, e, n) \/ Called(r, n, e) \in {0, 1}
  BY DEF OnceInvs, OnceInv, Once
<1>2. 0 <= 1 /\ 1 <= 1
  OBVIOUS
<1>3. InitialisedOnce
  BY <1>1, <1>2 DEF InitialisedOnce, Excused, Routine
<1>4. TerminatedOnce
  BY <1>1, <1>2 DEF TerminatedOnce, Excused, GivenUp, Routine
<1> QED
  BY <1>3, <1>4 DEF CalledOnce

(* No initialiser of a module is called twice, nor a terminator of one that  *)
(* stays in the program, whichever threads link, bind, launch and exit at    *)
(* the same time, and for any number of them: but for the second and later   *)
(* routines of a bundle where entries are reused.                            *)
THEOREM EachIsCalledOnce == Spec => []CalledOnce
<1>1. Init => TypeInv /\ OnceInvs
  BY InitTyped, InitOnce
<1>2. (TypeInv /\ OnceInvs) /\ [Next]_vars => (TypeInv /\ OnceInvs)'
  BY NextTyped, NextOnce
<1> QED
  BY <1>1, <1>2, OnceInvShows, PTL DEF Spec
=============================================================================
