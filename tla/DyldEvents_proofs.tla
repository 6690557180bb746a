--------------------------- MODULE DyldEvents_proofs ---------------------------
(***************************************************************************)
(* Proofs about DyldEvents, for any number of threads, subscribers and     *)
(* images, and any images that fail: what a subscriber that takes its      *)
(* messages knows is what is in the program.  The first entry of the list  *)
(* is taken not to stop (~HeadMayStop): when it does, send_event() does    *)
(* not look behind it any more.                                            *)
(***************************************************************************)
EXTENDS DyldEvents, SequenceLemmas, FiniteSetTheorems, TLAPS

USE EventsAssumption

\* The phases a thread is inside the dynamic linker in, ...
Inside == {"link", "linkHandler", "backOut", "relocate", "bound", "unload"}

\* ... in which it loads images, ...
Loading == {"link", "linkHandler", "backOut"}

\* ... and from when on a bundle is unlinked.
Unlinking == {"remove", "unload", "unloadUndefined"}

Removals == {"MODULE_REMOVED", "IMAGE_REMOVED"}

\* The images that are loaded by one call
Brought(f) == {f.bundle} \cup ToSet(f.new)

\* The list is not empty behind an empty head, and nobody is lost from it.
PortsInv ==
  /\ \/ ports = <<None>> /\ subscribed = {}
     \/ None \notin ToSet(ports) /\ ports[1] \in answering
  /\ Listening \subseteq ToSet(ports)

\* Two threads are never about the same bundle; the images a call brings are in
\* the lists until it has backed out, and UNLINKED no longer than that.
FramesInv ==
  /\ \A t \in Threads :
       /\ holder = t <=> at[t].phase \in Inside
       /\ at[t].bundle = None <=> at[t].phase = "out"
       /\ at[t].phase # "out" => at[t].bundle \in DOMAIN state
       /\ \A u \in Threads : at[t].phase # "out" /\ u # t => at[u].bundle # at[t].bundle
       /\ at[t].phase \in Loading =>
            ToSet(at[t].new) \subseteq ToSet(LoadsWith[at[t].bundle])
              /\ ToSet(LoadsWith[at[t].bundle]) \subseteq DOMAIN state
       /\ at[t].phase \in Unlinking => state[at[t].bundle] = "LINKED"
  /\ \A i \in DOMAIN state : state[i] = "UNLINKED" =>
       \E t \in Threads : at[t].phase \in Loading /\ i \in Brought(at[t])

\* What may still have to be sent, and from where
EventsInv ==
  \A t \in Threads : \A e \in ToSet(at[t].events) :
    \/ at[t].phase = "link" /\ e.type = "IMAGE_ADDED" /\ e.image \in Brought(at[t])
    \/ at[t].phase = "backOut" /\ e.type \in Removals /\ e.image \in Brought(at[t])
    \/ at[t].phase = "bound" /\ e.type = "MODULE_BOUND" /\ e.image \in DOMAIN state
         /\ state[e.image] \in {"BEING_LINKED", "RELOCATED"}
    \/ at[t].phase = "unload" /\ e.type \in Removals /\ e.image = at[t].bundle

Pending(type, image) == \E t \in Threads : Event(type, image) \in ToSet(at[t].events)

\* The images whose removal is sent, or was
Leaving == {i \in AllImages : \E t \in Threads :
              \/ at[t].phase = "backOut" /\ i \in Brought(at[t])
              \/ at[t].phase \in {"unload", "unloadUndefined"} /\ i = at[t].bundle}

\* A subscriber has been told of an image, or will be before the thread leaves.
KnownInv ==
  \A s \in Listening :
    /\ \A i \in DOMAIN state : i \in known[s] \cup Leaving \/ Pending("IMAGE_ADDED", i)
    /\ known[s] \subseteq DOMAIN state \cup kept \cup since[s].unloaded
    /\ \A t \in Threads : \A i \in known[s] :
         /\ at[t].phase = "backOut" /\ i \in Brought(at[t]) => Pending("IMAGE_REMOVED", i)
         /\ at[t].phase \in {"unload", "unloadUndefined"} /\ i = at[t].bundle =>
              at[t].keep \/ Pending("IMAGE_REMOVED", i) \/ i \in since[s].unloaded

BoundInv ==
  \A s \in Listening :
    /\ \A i \in DOMAIN state : state[i] \in {"RELOCATED", "LINKED"} =>
         i \in knownBound[s] \cup Leaving \cup since[s].bound \/ Pending("MODULE_BOUND", i)
    /\ knownBound[s] \subseteq known[s]

EventsInvariants ==
  /\ TypeOK /\ IsFiniteSet(DOMAIN state)
  /\ PortsInv /\ FramesInv /\ EventsInv /\ KnownInv /\ BoundInv
-----------------------------------------------------------------------------
(* Operators on lists *)

(* There is one way to put places in their order, and it leaves none out.    *)
LEMMA PlacesHaveAnOrder ==
  ASSUME NEW n \in Nat, NEW places \in SUBSET (1 .. n)
  PROVE  /\ Cardinality(places) \in Nat
         /\ \E f \in [1 .. Cardinality(places) -> places] :
              \A i, j \in DOMAIN f : i < j => f[i] < f[j]
         /\ \A f \in [1 .. Cardinality(places) -> places] :
              (\A i, j \in DOMAIN f : i < j => f[i] < f[j])
                => \A p \in places : \E i \in DOMAIN f : f[i] = p
<1> DEFINE m == Cardinality(places)
           upTo(i) == {k \in places : k <= i}
           rank == [i \in places |-> Cardinality(upTo(i))]
<1>0. \A i \in places : i \in Nat
  OBVIOUS
<1>1. IsFiniteSet(places) /\ m \in Nat
  <2>1. IsFiniteSet(1 .. n)
    BY FS_Interval
  <2>2. IsFiniteSet(places)
    BY <2>1, FS_Subset
  <2> QED
    BY <2>2, FS_CardinalityType
<1>2. IsFiniteSet(1 .. m) /\ Cardinality(1 .. m) = m
  BY <1>1, FS_Interval
<1> HIDE DEF m
<1>3. \A i \in places : rank[i] \in 1 .. m
  <2> SUFFICES ASSUME NEW i \in places PROVE Cardinality(upTo(i)) \in 1 .. m
    OBVIOUS
  <2>1. upTo(i) \in SUBSET places /\ i \in upTo(i)
    OBVIOUS
  <2> HIDE DEF upTo
  <2>2. IsFiniteSet(upTo(i)) /\ Cardinality(upTo(i)) <= m
    BY <1>1, <2>1, FS_Subset DEF m
  <2>3. Cardinality(upTo(i)) \in Nat /\ Cardinality(upTo(i)) # 0
    BY <2>1, <2>2, FS_CardinalityType, FS_EmptySet
  <2> QED
    BY <1>1, <2>2, <2>3
<1>4. \A i, j \in places : i < j => rank[i] < rank[j]
  <2> SUFFICES ASSUME NEW i \in places, NEW j \in places, i < j
               PROVE  Cardinality(upTo(i)) < Cardinality(upTo(j))
    OBVIOUS
  <2>b. \A k \in places : k <= i => k <= j
    BY <1>0
  <2>1. upTo(i) \in SUBSET upTo(j) /\ upTo(j) \in SUBSET places
    BY <2>b
  <2>a. j \in upTo(j) /\ j \notin upTo(i)
    BY <1>0
  <2> HIDE DEF upTo
  <2>2. IsFiniteSet(upTo(j))
    BY <1>1, <2>1, FS_Subset
  <2>3. IsFiniteSet(upTo(i)) /\ Cardinality(upTo(i)) <= Cardinality(upTo(j))
        /\ Cardinality(upTo(i)) # Cardinality(upTo(j))
    BY <2>1, <2>a, <2>2, FS_Subset
  <2>4. Cardinality(upTo(i)) \in Nat /\ Cardinality(upTo(j)) \in Nat
    BY <2>2, <2>3, FS_CardinalityType
  <2> QED
    BY <2>3, <2>4
<1>5. rank \in [places -> 1 .. m]
  BY <1>3
<1> HIDE DEF rank
<1>6. rank \in Injection(places, 1 .. m)
  <2>1. \A i, j \in places : rank[i] = rank[j] => i = j
    <3> SUFFICES ASSUME NEW i \in places, NEW j \in places, i # j
                 PROVE  rank[i] # rank[j]
      OBVIOUS
    <3>1. i < j \/ j < i
      OBVIOUS
    <3>2. rank[i] \in Nat /\ rank[j] \in Nat
      BY <1>3
    <3> QED
      BY <1>4, <3>1, <3>2
  <2> QED
    BY <1>5, <2>1 DEF Injection, IsInjective
<1>7. \A k \in 1 .. m : \E i \in places : rank[i] = k
  <2>1. rank \in Surjection(places, 1 .. m)
    BY <1>1, <1>2, <1>6, FS_Injection DEF m
  <2> QED
    BY <2>1 DEF Surjection
<1>8. \E f \in [1 .. m -> places] : \A i, j \in DOMAIN f : i < j => f[i] < f[j]
  <2> DEFINE f == [k \in 1 .. m |-> CHOOSE i \in places : rank[i] = k]
  <2>1. \A k \in 1 .. m : f[k] \in places /\ rank[f[k]] = k
    BY <1>7
  <2>2. f \in [1 .. m -> places] /\ DOMAIN f = 1 .. m
    BY <2>1
  <2> HIDE DEF f
  <2>3. ASSUME NEW i \in 1 .. m, NEW j \in 1 .. m, i < j PROVE f[i] < f[j]
    <3>1. f[i] \in Nat /\ f[j] \in Nat
      BY <1>0, <2>1
    <3>2. CASE f[j] < f[i]
      <4>1. rank[f[j]] < rank[f[i]]
        BY <1>4, <2>1, <3>2
      <4> QED
        BY <2>1, <2>3, <4>1
    <3>3. CASE f[j] = f[i]
      BY <2>1, <2>3, <3>3
    <3> QED
      BY <3>1, <3>2, <3>3
  <2> QED
    BY <2>2, <2>3
<1>9. ASSUME NEW f \in [1 .. m -> places], \A i, j \in DOMAIN f : i < j => f[i] < f[j]
      PROVE  \A p \in places : \E i \in DOMAIN f : f[i] = p
  <2>1. \A i, j \in 1 .. m : f[i] = f[j] => i = j
    <3> SUFFICES ASSUME NEW i \in 1 .. m, NEW j \in 1 .. m, i # j PROVE f[i] # f[j]
      OBVIOUS
    <3>1. i < j \/ j < i
      BY <1>1
    <3>2. f[i] \in Nat /\ f[j] \in Nat
      BY <1>0
    <3> QED
      BY <1>9, <3>1, <3>2
  <2>2. f \in Injection(1 .. m, places)
    BY <2>1 DEF Injection, IsInjective
  <2>3. f \in Surjection(1 .. m, places)
    BY <1>1, <1>2, <2>2, FS_Injection DEF m
  <2> QED
    BY <2>3 DEF Surjection
<1> QED
  BY <1>1, <1>8, <1>9 DEF m

(* The entries selected are those that have the places.                      *)
LEMMA SelectedElements ==
  ASSUME NEW S, NEW list \in Seq(S), NEW places \in SUBSET DOMAIN list
  PROVE  /\ Selected(list, places) \in Seq(S)
         /\ ToSet(Selected(list, places)) = {list[i] : i \in places}
         /\ \A i \in DOMAIN Selected(list, places) :
              \E p \in places : Selected(list, places)[i] = list[p]
         /\ places # {} => Selected(list, places) # << >>
<1> DEFINE m == Cardinality(places)
           Increasing(f) == \A i, j \in DOMAIN f : i < j => f[i] < f[j]
           order == CHOOSE f \in [1 .. m -> places] : Increasing(f)
           r == [i \in DOMAIN order |-> list[order[i]]]
<1>1. DOMAIN list = 1 .. Len(list) /\ Len(list) \in Nat
  OBVIOUS
<1>2. /\ m \in Nat
      /\ \E f \in [1 .. m -> places] : Increasing(f)
      /\ \A f \in [1 .. m -> places] :
           Increasing(f) => \A p \in places : \E i \in DOMAIN f : f[i] = p
  BY <1>1, PlacesHaveAnOrder
<1> HIDE DEF Increasing, m
<1>3. order \in [1 .. m -> places] /\ Increasing(order)
  BY <1>2
<1>4. \A p \in places : \E i \in DOMAIN order : order[i] = p
  BY <1>2, <1>3
<1>5. Selected(list, places) = r
  BY DEF Selected, Increasing, m
<1> HIDE DEF order
<1>6. \A i \in 1 .. m : order[i] \in places /\ list[order[i]] \in S
  BY <1>3
<1>7. r \in [1 .. m -> S] /\ r \in Seq(S) /\ DOMAIN r = 1 .. m
  BY <1>2, <1>3, <1>6
<1>8. ToSet(r) = {list[i] : i \in places}
  <2>1. ToSet(r) = {list[order[i]] : i \in DOMAIN order}
    BY <1>3 DEF ToSet
  <2> QED
    BY <1>3, <1>4, <1>6, <2>1
<1>9. places # {} => r # << >>
  <2>1. places # {} => DOMAIN r # {}
    BY <1>3, <1>4, <1>7
  <2> QED
    BY <2>1
<1> QED
  BY <1>3, <1>5, <1>6, <1>7, <1>8, <1>9
-----------------------------------------------------------------------------
(* The images, the frames of the threads, and the events they have to send   *)

(* What is in a list is a finite set.                                        *)
LEMMA ListIsFinite ==
  ASSUME NEW S, NEW list \in Seq(S)
  PROVE  IsFiniteSet(ToSet(list)) /\ ToSet(list) \subseteq S
<1>1. Len(list) \in Nat /\ DOMAIN list = 1 .. Len(list) /\ IsFiniteSet(1 .. Len(list))
  BY FS_Interval
<1>2. list \in [1 .. Len(list) -> ToSet(list)]
  BY <1>1 DEF ToSet
<1>3. list \in Surjection(1 .. Len(list), ToSet(list))
  BY <1>1, <1>2 DEF Surjection, ToSet
<1>4. ToSet(list) \subseteq S
  BY <1>1 DEF ToSet
<1> QED
  BY <1>1, <1>3, <1>4, FS_Surjection

(* Libraries are no bundles.                                                 *)
LEMMA LibraryFacts ==
  /\ Libraries \cap Bundles = {} /\ Libraries \subseteq AllImages /\ Bundles \subseteq AllImages
  /\ \A b \in Bundles : LoadsWith[b] \in Seq(Libraries)
                        /\ ToSet(LoadsWith[b]) \subseteq Libraries
<1>1. \A b \in Bundles : ToSet(LoadsWith[b]) \cap Bundles = {}
  <2> TAKE b \in Bundles
  <2>1. LoadsWith[b] \in Seq(ToSet(LoadsWith[b]) \ Bundles)
    BY DEF EventsAssumption
  <2> QED
    BY <2>1, ListIsFinite
<1>2. \A b \in Bundles : ToSet(LoadsWith[b]) \subseteq Libraries
  BY DEF Libraries
<1>3. \A b \in Bundles : LoadsWith[b] \in Seq(Libraries)
  <2> TAKE b \in Bundles
  <2>1. LoadsWith[b] \in Seq(ToSet(LoadsWith[b]) \ Bundles)
    BY DEF EventsAssumption
  <2>2. ToSet(LoadsWith[b]) \ Bundles \subseteq Libraries
    BY <1>2
  <2> QED
    BY <2>1, <2>2
<1>4. Libraries \cap Bundles = {}
  BY <1>1 DEF Libraries
<1> QED
  BY <1>2, <1>3, <1>4 DEF AllImages

(* What the fields of a frame are                                            *)
LEMMA FrameFacts ==
  ASSUME TypeOK, NEW t \in Threads
  PROVE  /\ at[t].phase \in Phases /\ at[t].bundle \in Bundles \cup {None}
         /\ at[t].new \in Seq(Libraries) /\ at[t].keep \in BOOLEAN
         /\ at[t].events \in Seq([type : EventTypes, image : AllImages])
         /\ ToSet(at[t].new) \subseteq Libraries
         /\ ToSet(at[t].events) \subseteq [type : EventTypes, image : AllImages]
<1>1. at[t] \in Frames
  BY DEF TypeOK
<1>2. /\ at[t].phase \in Phases /\ at[t].bundle \in Bundles \cup {None}
      /\ at[t].new \in Seq(Libraries) /\ at[t].keep \in BOOLEAN
      /\ at[t].events \in Seq([type : EventTypes, image : AllImages])
  BY <1>1 DEF Frames
<1> QED
  BY <1>2, ListIsFinite

(* A thread that is outside has nothing to send.                             *)
LEMMA OutIsAFrame == Out \in Frames /\ ToSet(Out.events) = {}
BY DEF Out, Frames, Phases, ToSet

(* A thread is given another frame, and the others keep theirs.              *)
LEMMA NewFrame ==
  ASSUME TypeOK, NEW t \in Threads, NEW f \in Frames, at' = [at EXCEPT ![t] = f]
  PROVE  /\ at' \in [Threads -> Frames] /\ at'[t] = f
         /\ \A u \in Threads \ {t} : at'[u] = at[u]
BY DEF TypeOK

(* GoTo changes the phase and the events only.                               *)
LEMMA GoToFrame ==
  ASSUME TypeOK, NEW t \in Threads, NEW phase \in Phases,
         NEW events \in Seq([type : EventTypes, image : AllImages]),
         GoTo(t, phase, events)
  PROVE  /\ at' \in [Threads -> Frames]
         /\ at'[t].phase = phase /\ at'[t].events = events
         /\ at'[t].bundle = at[t].bundle /\ at'[t].new = at[t].new
         /\ at'[t].keep = at[t].keep
         /\ \A u \in Threads \ {t} : at'[u] = at[u]
<1> DEFINE f == [at[t] EXCEPT !.phase = phase, !.events = events]
<1>1. at[t] \in Frames
  BY DEF TypeOK
<1>2. /\ f \in Frames /\ f.phase = phase /\ f.events = events
      /\ f.bundle = at[t].bundle /\ f.new = at[t].new /\ f.keep = at[t].keep
  BY <1>1 DEF Frames
<1>3. at' = [at EXCEPT ![t] = f]
  BY <1>1 DEF GoTo, TypeOK, Frames
<1> HIDE DEF f
<1> QED
  BY <1>2, <1>3, NewFrame

(* A call of Events lists one event for each image.                          *)
LEMMA EventsElements ==
  ASSUME NEW type \in EventTypes, NEW S \in SUBSET AllImages, NEW images \in Seq(S)
  PROVE  /\ Events(type, images) \in Seq([type : EventTypes, image : AllImages])
         /\ ToSet(Events(type, images)) = {Event(type, i) : i \in ToSet(images)}
<1>1. DOMAIN images = 1 .. Len(images) /\ Len(images) \in Nat
      /\ \A i \in DOMAIN images : images[i] \in S
  OBVIOUS
<1>2. \A i \in DOMAIN images :
        Event(type, images[i]) \in [type : EventTypes, image : AllImages]
  BY <1>1 DEF Event
<1>3. Events(type, images) \in Seq([type : EventTypes, image : AllImages])
  BY <1>1, <1>2 DEF Events
<1>4. ToSet(Events(type, images)) = {Event(type, images[i]) : i \in DOMAIN images}
  BY DEF ToSet, Events
<1>5. ToSet(images) = {images[i] : i \in DOMAIN images}
  BY DEF ToSet
<1> QED
  BY <1>3, <1>4, <1>5

(* The fields of an event, and an event from its fields                      *)
LEMMA EventFields ==
  /\ \A type, image : Event(type, image).type = type /\ Event(type, image).image = image
  /\ \A e \in [type : EventTypes, image : AllImages] : e = Event(e.type, e.image)
BY DEF Event

(* Only the thread inside has events to send, ...                            *)
LEMMA SenderIsInside ==
  ASSUME TypeOK, FramesInv, EventsInv, NEW t \in Threads, ToSet(at[t].events) # {}
  PROVE  holder = t /\ at[t].phase \in {"link", "backOut", "bound", "unload"}
BY DEF EventsInv, FramesInv, Inside

(* ... so when it has none, or nobody is inside, none is pending.            *)
LEMMA NothingPending ==
  ASSUME TypeOK, FramesInv, EventsInv, NEW t \in Threads,
         holder = None \/ (holder = t /\ at[t].events = << >>)
  PROVE  /\ \A u \in Threads : ToSet(at[u].events) = {}
         /\ \A type, image : ~Pending(type, image)
<1>1. \A u \in Threads : ToSet(at[u].events) = {}
  <2> SUFFICES ASSUME NEW u \in Threads, ToSet(at[u].events) # {} PROVE FALSE
    OBVIOUS
  <2>1. holder = u
    BY SenderIsInside
  <2>2. holder # None
    BY <2>1 DEF EventsAssumption
  <2>3. ToSet(<< >>) = {}
    BY DEF ToSet
  <2> QED
    BY <2>1, <2>2, <2>3
<1> QED
  BY <1>1 DEF Pending
-----------------------------------------------------------------------------
(* What a step of one thread does to the invariants, when nothing is pending *)

Quiet == UNCHANGED <<ports, answering, subscribed, told, since>>

\* Nobody is inside but perhaps t, which has no event to send, and t moves.
Moves(t) ==
  /\ holder = None \/ (holder = t /\ at[t].events = << >>)
  /\ holder' \in {None, t}
  /\ at' \in [Threads -> Frames]
  /\ \A u \in Threads \ {t} : at'[u] = at[u]

(* FramesInv after a step of t: what t left behind and what it entered       *)
LEMMA FramesStep ==
  ASSUME TypeOK, FramesInv, NEW t \in Threads, Moves(t),
         holder' = t <=> at'[t].phase \in Inside,
         at'[t].bundle = None <=> at'[t].phase = "out",
         at'[t].phase # "out" =>
           /\ at'[t].bundle \in DOMAIN state'
           /\ \A u \in Threads \ {t} : at[u].bundle # at'[t].bundle,
         at'[t].phase \in Loading =>
           /\ ToSet(at'[t].new) \subseteq ToSet(LoadsWith[at'[t].bundle])
           /\ ToSet(LoadsWith[at'[t].bundle]) \subseteq DOMAIN state',
         at'[t].phase \in Unlinking => state'[at'[t].bundle] = "LINKED",
         \A i \in DOMAIN state \cap Bundles : i # at[t].bundle =>
           i \in DOMAIN state' /\ (state[i] = "LINKED" => state'[i] = "LINKED"),
         \A i \in DOMAIN state' : state'[i] = "UNLINKED" =>
           at'[t].phase \in Loading /\ i \in Brought(at'[t])
  PROVE  FramesInv'
<1>1. \A u \in Threads : at[u].phase \in Inside => holder = u
  BY DEF FramesInv
<1>2. \A u \in Threads \ {t} : at'[u] = at[u] /\ holder # u /\ holder' # u
  BY DEF Moves, EventsAssumption
<1>3. \A u \in Threads \ {t} : at'[u].phase \notin Inside \cup Loading
  BY <1>1, <1>2 DEF Inside, Loading
<1>4. \A u \in Threads \ {t} : at[u].phase # "out" =>
        /\ at[u].bundle \in DOMAIN state' /\ at[u].bundle # at[t].bundle
        /\ at[u].phase \in Unlinking => state'[at[u].bundle] = "LINKED"
  <2> TAKE u \in Threads \ {t}
  <2> HAVE at[u].phase # "out"
  <2>1. /\ at[u].bundle \in DOMAIN state /\ at[u].bundle # at[t].bundle
        /\ at[u].bundle \in Bundles
        /\ at[u].phase \in Unlinking => state[at[u].bundle] = "LINKED"
    BY FrameFacts DEF FramesInv
  <2> QED
    BY <2>1
<1>5. ASSUME NEW u \in Threads
      PROVE  /\ holder' = u <=> at'[u].phase \in Inside
             /\ at'[u].bundle = None <=> at'[u].phase = "out"
             /\ at'[u].phase # "out" => at'[u].bundle \in DOMAIN state'
             /\ at'[u].phase \in Loading =>
                  ToSet(at'[u].new) \subseteq ToSet(LoadsWith[at'[u].bundle])
                    /\ ToSet(LoadsWith[at'[u].bundle]) \subseteq DOMAIN state'
             /\ at'[u].phase \in Unlinking => state'[at'[u].bundle] = "LINKED"
  <2>1. CASE u = t
    BY <2>1
  <2>2. CASE u # t
    BY <1>2, <1>3, <1>4, <2>2 DEF FramesInv, Unlinking
  <2> QED
    BY <2>1, <2>2
<1>6. ASSUME NEW u \in Threads, NEW w \in Threads, at'[u].phase # "out", w # u
      PROVE  at'[w].bundle # at'[u].bundle
  <2>1. CASE u = t
    BY <1>2, <1>6, <2>1
  <2>2. CASE w = t
    <3>1. at'[u].bundle = at[u].bundle /\ at'[u].bundle # None
      BY <1>2, <1>5, <1>6, <2>2
    <3>2. at'[t].bundle = None \/ at[u].bundle # at'[t].bundle
      BY <1>6, <2>2
    <3> QED
      BY <2>2, <3>1, <3>2
  <2>3. CASE u # t /\ w # t
    BY <1>2, <1>6, <2>3 DEF FramesInv
  <2> QED
    BY <2>1, <2>2, <2>3
<1> QED
  BY <1>5, <1>6 DEF FramesInv

(* EventsInv after such a step: the events t has to send are its own.        *)
LEMMA EventsStep ==
  ASSUME TypeOK, FramesInv, EventsInv, NEW t \in Threads, Moves(t),
         \A e \in ToSet(at'[t].events) :
           \/ at'[t].phase = "link" /\ e.type = "IMAGE_ADDED" /\ e.image \in Brought(at'[t])
           \/ at'[t].phase = "backOut" /\ e.type \in Removals /\ e.image \in Brought(at'[t])
           \/ at'[t].phase = "bound" /\ e.type = "MODULE_BOUND" /\ e.image \in DOMAIN state'
                /\ state'[e.image] \in {"BEING_LINKED", "RELOCATED"}
           \/ at'[t].phase = "unload" /\ e.type \in Removals /\ e.image = at'[t].bundle
  PROVE  EventsInv'
<1>1. \A u \in Threads \ {t} : ToSet(at'[u].events) = {}
  BY NothingPending DEF Moves
<1>2. EventsInv!(t)'
  OBVIOUS
<1> QED
  BY <1>1, <1>2 DEF EventsInv

(* KnownInv and BoundInv after such a step: each change of the lists has     *)
(* its event to send, or is one no subscriber sees.                          *)
LEMMA TellStep ==
  ASSUME TypeOK, FramesInv, EventsInv, KnownInv, BoundInv,
         NEW t \in Threads, Moves(t), Quiet,
         \A i \in DOMAIN state' :
           i \in DOMAIN state \/ Event("IMAGE_ADDED", i) \in ToSet(at'[t].events),
         \A i \in Leaving : i \in DOMAIN state' => i \in Leaving',
         \A i \in DOMAIN state \cup kept :
           \/ i \in DOMAIN state' \cup kept'
           \/ \A s \in Listening : i \in known[s] => i \in since[s].unloaded,
         at'[t].phase = "backOut" => \A i \in Brought(at'[t]) :
           Event("IMAGE_REMOVED", i) \in ToSet(at'[t].events),
         at'[t].phase \in {"unload", "unloadUndefined"} =>
           \/ at'[t].keep
           \/ Event("IMAGE_REMOVED", at'[t].bundle) \in ToSet(at'[t].events)
           \/ \A s \in Listening : at'[t].bundle \in known[s] =>
                at'[t].bundle \in since[s].unloaded,
         \A i \in DOMAIN state' : state'[i] \in {"RELOCATED", "LINKED"} =>
           \/ i \in DOMAIN state /\ state[i] \in {"RELOCATED", "LINKED"}
           \/ Event("MODULE_BOUND", i) \in ToSet(at'[t].events)
  PROVE  KnownInv' /\ BoundInv'
<1>1. \A type, image : ~Pending(type, image)
  BY NothingPending DEF Moves
<1>2. \A type, image : Event(type, image) \in ToSet(at'[t].events) => Pending(type, image)'
  BY DEF Pending
<1>3. /\ Listening' = Listening /\ known' = known /\ knownBound' = knownBound
      /\ since' = since
  BY DEF Quiet, told, Listening
<1>4. KnownInv'
  <2> SUFFICES ASSUME NEW s \in Listening PROVE KnownInv!(s)'
    BY <1>3 DEF KnownInv
  <2>1. /\ \A i \in DOMAIN state : i \in known[s] \cup Leaving
        /\ known[s] \subseteq DOMAIN state \cup kept \cup since[s].unloaded
    BY <1>1 DEF KnownInv
  <2>2. \A i \in DOMAIN state' : i \in known'[s] \cup Leaving' \/ Pending("IMAGE_ADDED", i)'
    BY <1>2, <1>3, <2>1
  <2>3. known'[s] \subseteq DOMAIN state' \cup kept' \cup since'[s].unloaded
    BY <1>3, <2>1
  <2>4. ASSUME NEW u \in Threads, NEW i \in known'[s]
        PROVE  /\ at'[u].phase = "backOut" /\ i \in Brought(at'[u]) =>
                    Pending("IMAGE_REMOVED", i)'
               /\ at'[u].phase \in {"unload", "unloadUndefined"} /\ i = at'[u].bundle =>
                    at'[u].keep \/ Pending("IMAGE_REMOVED", i)' \/ i \in since'[s].unloaded
    <3>1. CASE u = t
      BY <1>2, <1>3, <2>4, <3>1
    <3>2. CASE u # t
      <4>1. at'[u] = at[u] /\ at[u].phase # "backOut"
        BY <3>2 DEF Moves, FramesInv, Inside, EventsAssumption
      <4>2. at[u].phase \in {"unload", "unloadUndefined"} /\ i = at[u].bundle =>
              at[u].keep \/ i \in since[s].unloaded
        BY <1>1, <1>3, <2>4 DEF KnownInv
      <4> QED
        BY <1>3, <4>1, <4>2
    <3> QED
      BY <3>1, <3>2
  <2> QED
    BY <2>2, <2>3, <2>4
<1>5. BoundInv'
  <2> SUFFICES ASSUME NEW s \in Listening PROVE BoundInv!(s)'
    BY <1>3 DEF BoundInv
  <2>1. /\ \A i \in DOMAIN state : state[i] \in {"RELOCATED", "LINKED"} =>
             i \in knownBound[s] \cup Leaving \cup since[s].bound
        /\ knownBound[s] \subseteq known[s]
    BY <1>1 DEF BoundInv
  <2>2. ASSUME NEW i \in DOMAIN state', state'[i] \in {"RELOCATED", "LINKED"}
        PROVE  i \in knownBound'[s] \cup Leaving' \cup since'[s].bound
                 \/ Pending("MODULE_BOUND", i)'
    BY <1>2, <1>3, <2>1, <2>2
  <2> QED
    BY <1>3, <2>1, <2>2
<1> QED
  BY <1>4, <1>5
-----------------------------------------------------------------------------
(* The steps of the program *)

\* What an event of a thread in this frame may be
MaySend(f, e) ==
  \/ f.phase = "link" /\ e.type = "IMAGE_ADDED" /\ e.image \in Brought(f)
  \/ f.phase = "backOut" /\ e.type \in Removals /\ e.image \in Brought(f)
  \/ f.phase = "unload" /\ e.type \in Removals /\ e.image = f.bundle

(* A step of the program leaves the list of subscribers alone.               *)
LEMMA QuietStep ==
  ASSUME EventsInvariants, NEW t \in Threads, Moves(t), Quiet,
         DOMAIN state' \subseteq AllImages, Range(state') \subseteq LinkStates,
         IsFiniteSet(DOMAIN state'), kept' \subseteq Bundles \ DOMAIN state',
         FramesInv', EventsInv', KnownInv' /\ BoundInv'
  PROVE  EventsInvariants'
<1>1. PortsInv'
  BY DEF EventsInvariants, PortsInv, Quiet, Listening
<1>2. TypeOK'
  BY DEF EventsInvariants, TypeOK, Moves, Quiet, told
<1> QED
  BY <1>1, <1>2 DEF EventsInvariants

(* A step inside one operation, which leaves the lists alone                 *)
LEMMA GoOnStep ==
  ASSUME EventsInvariants, NEW t \in Threads, Moves(t), Quiet, UNCHANGED <<state, kept>>,
         at'[t].bundle = at[t].bundle, at'[t].new = at[t].new, at'[t].keep = at[t].keep,
         at[t].phase # "out", at'[t].phase # "out", at[t].phase # "backOut",
         holder' = t <=> at'[t].phase \in Inside,
         at'[t].phase \in Loading <=> at[t].phase \in Loading,
         at'[t].phase \in Unlinking <=> at[t].phase \in Unlinking,
         at'[t].phase # "remove",
         \A e \in ToSet(at'[t].events) : MaySend(at'[t], e),
         at'[t].phase = "backOut" => \A i \in Brought(at'[t]) :
           Event("IMAGE_REMOVED", i) \in ToSet(at'[t].events),
         at[t].phase = "remove" =>
           at[t].keep \/ Event("IMAGE_REMOVED", at[t].bundle) \in ToSet(at'[t].events)
  PROVE  EventsInvariants'
<1> USE DEF EventsInvariants
<1>1. at[t].bundle # None /\ at[t].bundle \in DOMAIN state
  BY DEF FramesInv
<1>2. FramesInv'
  <2>1. \A u \in Threads \ {t} : at[u].bundle # at'[t].bundle
    BY DEF FramesInv
  <2>2. at'[t].phase \in Loading =>
           /\ ToSet(at'[t].new) \subseteq ToSet(LoadsWith[at'[t].bundle])
           /\ ToSet(LoadsWith[at'[t].bundle]) \subseteq DOMAIN state'
    BY DEF FramesInv
  <2>3. at'[t].phase \in Unlinking => state'[at'[t].bundle] = "LINKED"
    BY DEF FramesInv
  <2>4. \A i \in DOMAIN state' : state'[i] = "UNLINKED" =>
          at'[t].phase \in Loading /\ i \in Brought(at'[t])
    <3> SUFFICES ASSUME NEW i \in DOMAIN state, state[i] = "UNLINKED"
                 PROVE  at'[t].phase \in Loading /\ i \in Brought(at'[t])
      OBVIOUS
    <3>1. PICK u \in Threads : at[u].phase \in Loading /\ i \in Brought(at[u])
      BY DEF FramesInv
    <3>2. u = t
      BY <3>1 DEF FramesInv, Moves, Loading, Inside, EventsAssumption
    <3> QED
      BY <3>1, <3>2 DEF Brought
  <2> QED
    BY <1>1, <2>1, <2>2, <2>3, <2>4, FramesStep
<1>3. EventsInv'
  BY EventsStep DEF MaySend
<1>4. KnownInv' /\ BoundInv'
  <2>1. \A i \in Leaving : i \in Leaving'
    <3> SUFFICES ASSUME NEW i \in Leaving PROVE i \in Leaving'
      OBVIOUS
    <3>1. PICK u \in Threads :
            \/ at[u].phase = "backOut" /\ i \in Brought(at[u])
            \/ at[u].phase \in {"unload", "unloadUndefined"} /\ i = at[u].bundle
      BY DEF Leaving
    <3>2. CASE u = t
      BY <3>1, <3>2 DEF Leaving, Unlinking
    <3>3. CASE u # t
      BY <3>1, <3>3 DEF Leaving, Moves
    <3> QED
      BY <3>2, <3>3
  <2>2. at'[t].phase \in {"unload", "unloadUndefined"} =>
           \/ at'[t].keep
           \/ Event("IMAGE_REMOVED", at'[t].bundle) \in ToSet(at'[t].events)
           \/ \A s \in Listening : at'[t].bundle \in known[s] =>
                at'[t].bundle \in since[s].unloaded
    <3> HAVE at'[t].phase \in {"unload", "unloadUndefined"}
    <3>1. CASE at[t].phase = "remove"
      BY <3>1
    <3>2. CASE at[t].phase \in {"unload", "unloadUndefined"}
      <4>1. \A type, image : ~Pending(type, image)
        BY NothingPending DEF Moves
      <4>2. \A s \in Listening : at[t].bundle \in known[s] =>
              at[t].keep \/ at[t].bundle \in since[s].unloaded
        BY <3>2, <4>1 DEF KnownInv
      <4> QED
        BY <4>2
    <3> QED
      BY <3>1, <3>2 DEF Unlinking
  <2> QED
    BY <2>1, <2>2, TellStep
<1>5. DOMAIN state' \subseteq AllImages /\ Range(state') \subseteq LinkStates
      /\ IsFiniteSet(DOMAIN state') /\ kept' \subseteq Bundles \ DOMAIN state'
  BY DEF TypeOK
<1> HIDE DEF EventsInvariants
<1> QED
  BY <1>2, <1>3, <1>4, <1>5, QuietStep

(* GoTo, without events                                                      *)
LEMMA GoToNoEvents ==
  ASSUME EventsInvariants, NEW t \in Threads, NEW phase \in Phases, GoTo(t, phase, << >>)
  PROVE  /\ at' \in [Threads -> Frames]
         /\ at'[t].phase = phase /\ at'[t].events = << >> /\ ToSet(at'[t].events) = {}
         /\ at'[t].bundle = at[t].bundle /\ at'[t].new = at[t].new
         /\ at'[t].keep = at[t].keep
         /\ \A u \in Threads \ {t} : at'[u] = at[u]
<1>1. << >> \in Seq([type : EventTypes, image : AllImages]) /\ ToSet(<< >>) = {}
  BY DEF ToSet
<1>2. TypeOK
  BY DEF EventsInvariants
<1> DEFINE none == << >>
<1>3. none \in Seq([type : EventTypes, image : AllImages]) /\ GoTo(t, phase, none)
  BY <1>1
<1> HIDE DEF none
<1>4. /\ at' \in [Threads -> Frames]
      /\ at'[t].phase = phase /\ at'[t].events = none
      /\ at'[t].bundle = at[t].bundle /\ at'[t].new = at[t].new
      /\ at'[t].keep = at[t].keep
      /\ \A u \in Threads \ {t} : at'[u] = at[u]
  BY <1>2, <1>3, GoToFrame
<1> QED
  BY <1>1, <1>4 DEF none

(* The multiply defined handler is called.                                   *)
LEMMA LinkHandlerStep ==
  ASSUME EventsInvariants, NEW t \in Threads, LinkHandler(t), Quiet
  PROVE  EventsInvariants'
<1>0. GoTo(t, "linkHandler", << >>) /\ "linkHandler" \in Phases
  BY DEF LinkHandler, Phases
<1>1. /\ at' \in [Threads -> Frames]
      /\ at'[t].phase = "linkHandler" /\ at'[t].events = << >>
      /\ at'[t].bundle = at[t].bundle /\ at'[t].new = at[t].new /\ at'[t].keep = at[t].keep
      /\ \A u \in Threads \ {t} : at'[u] = at[u]
  BY <1>0, GoToNoEvents
<1>2. /\ holder = t /\ at[t].phase = "link" /\ at[t].events = << >>
      /\ UNCHANGED <<holder, state, kept>>
  BY DEF LinkHandler, In
<1>3. Moves(t) /\ ToSet(at'[t].events) = {}
  BY <1>1, <1>2 DEF Moves, ToSet
<1> QED
  BY <1>1, <1>2, <1>3, GoOnStep DEF Inside, Loading, Unlinking

(* The undefined handler is called before an image is unloaded ...           *)
LEMMA ReportUndefinedStep ==
  ASSUME EventsInvariants, NEW t \in Threads, ReportUndefined(t), Quiet
  PROVE  EventsInvariants'
<1>0. GoTo(t, "unloadUndefined", << >>) /\ "unloadUndefined" \in Phases
  BY DEF ReportUndefined, GiveUp, Phases
<1>1. /\ at' \in [Threads -> Frames]
      /\ at'[t].phase = "unloadUndefined" /\ at'[t].events = << >>
      /\ at'[t].bundle = at[t].bundle /\ at'[t].new = at[t].new /\ at'[t].keep = at[t].keep
      /\ \A u \in Threads \ {t} : at'[u] = at[u]
  BY <1>0, GoToNoEvents
<1>2. /\ holder = t /\ at[t].phase = "unload" /\ at[t].events = << >>
      /\ holder' = None /\ UNCHANGED <<state, kept>>
  BY DEF ReportUndefined, GiveUp, In
<1>3. Moves(t) /\ ToSet(at'[t].events) = {} /\ holder' # t
  BY <1>1, <1>2 DEF Moves, ToSet, EventsAssumption
<1> QED
  BY <1>1, <1>2, <1>3, GoOnStep DEF Inside, Loading, Unlinking

(* ... and, like the functions to call, after modules are bound.             *)
LEMMA CallUserStep ==
  ASSUME EventsInvariants, NEW t \in Threads, CallUser(t), Quiet
  PROVE  EventsInvariants'
<1> PICK phase \in {"undefined", "callouts"} : GiveUp(t, phase)
  BY DEF CallUser
<1>0. GoTo(t, phase, << >>) /\ phase \in Phases
  BY DEF GiveUp, Phases
<1>1. /\ at' \in [Threads -> Frames]
      /\ at'[t].phase = phase /\ at'[t].events = << >>
      /\ at'[t].bundle = at[t].bundle /\ at'[t].new = at[t].new /\ at'[t].keep = at[t].keep
      /\ \A u \in Threads \ {t} : at'[u] = at[u]
  BY <1>0, GoToNoEvents
<1>2. /\ holder = t /\ at[t].phase = "bound" /\ at[t].events = << >>
      /\ holder' = None /\ UNCHANGED <<state, kept>>
  BY DEF CallUser, GiveUp, In
<1>3. Moves(t) /\ ToSet(at'[t].events) = {} /\ holder' # t
  BY <1>1, <1>2 DEF Moves, ToSet, EventsAssumption
<1> QED
  BY <1>1, <1>2, <1>3, GoOnStep DEF Inside, Loading, Unlinking

(* The undefined handler has returned: relocated again.                      *)
LEMMA UndefinedReturnsStep ==
  ASSUME EventsInvariants, NEW t \in Threads, UndefinedReturns(t), Quiet
  PROVE  EventsInvariants'
<1>0. GoTo(t, "relocate", << >>) /\ "relocate" \in Phases
  BY DEF UndefinedReturns, Phases
<1>1. /\ at' \in [Threads -> Frames]
      /\ at'[t].phase = "relocate" /\ at'[t].events = << >>
      /\ at'[t].bundle = at[t].bundle /\ at'[t].new = at[t].new /\ at'[t].keep = at[t].keep
      /\ \A u \in Threads \ {t} : at'[u] = at[u]
  BY <1>0, GoToNoEvents
<1>2. /\ holder = None /\ at[t].phase = "undefined"
      /\ holder' = t /\ UNCHANGED <<state, kept>>
  BY DEF UndefinedReturns, Returns
<1>3. Moves(t) /\ ToSet(at'[t].events) = {}
  BY <1>1, <1>2 DEF Moves, ToSet
<1> QED
  BY <1>1, <1>2, <1>3, GoOnStep DEF Inside, Loading, Unlinking

(* The events of a failed link are those of all it brought.                  *)
LEMMA RemovalElements ==
  ASSUME NEW b \in Bundles, NEW new \in Seq(Libraries)
  PROVE  /\ RemovalEvents(b, new) \in Seq([type : EventTypes, image : AllImages])
         /\ ToSet(RemovalEvents(b, new)) =
              {Event("IMAGE_REMOVED", i) : i \in ToSet(new)}
                \cup {Event("MODULE_REMOVED", b), Event("IMAGE_REMOVED", b)}
<1> DEFINE Ev == [type : EventTypes, image : AllImages]
           front == Events("IMAGE_REMOVED", new)
           back  == <<Event("MODULE_REMOVED", b), Event("IMAGE_REMOVED", b)>>
<1>1. front \in Seq(Ev) /\ ToSet(front) = {Event("IMAGE_REMOVED", i) : i \in ToSet(new)}
  BY EventsElements, LibraryFacts DEF EventTypes
<1>2. back \in Seq(Ev)
  BY LibraryFacts DEF Event, EventTypes
<1>3. ToSet(back) = {Event("MODULE_REMOVED", b), Event("IMAGE_REMOVED", b)}
  <2>1. DOMAIN back = {1, 2} /\ back[1] = Event("MODULE_REMOVED", b)
        /\ back[2] = Event("IMAGE_REMOVED", b)
    OBVIOUS
  <2> HIDE DEF back
  <2> QED
    BY <2>1 DEF ToSet
<1> HIDE DEF Ev, front, back
<1>4. front \o back \in Seq(Ev) /\ ToSet(front \o back) = ToSet(front) \cup ToSet(back)
  BY <1>1, <1>2, ConcatElements
<1> QED
  BY <1>1, <1>3, <1>4 DEF RemovalEvents, Ev, front, back

(* A link fails: each image it brought is announced to go.                   *)
LEMMA BackOutStep ==
  ASSUME EventsInvariants, NEW t \in Threads, BackOut(t), Quiet
  PROVE  EventsInvariants'
<1> DEFINE events == RemovalEvents(at[t].bundle, at[t].new)
<1>1. /\ holder = t /\ at[t].phase \in {"link", "linkHandler"} /\ at[t].events = << >>
      /\ GoTo(t, "backOut", events)
      /\ UNCHANGED <<holder, state, kept>>
  BY DEF BackOut, In
<1>2. at[t].bundle \in Bundles /\ at[t].new \in Seq(Libraries)
  BY <1>1, FrameFacts DEF EventsInvariants, FramesInv
<1>3. /\ events \in Seq([type : EventTypes, image : AllImages])
      /\ ToSet(events) =
              {Event("IMAGE_REMOVED", i) : i \in ToSet(at[t].new)}
                \cup {Event("MODULE_REMOVED", at[t].bundle), Event("IMAGE_REMOVED", at[t].bundle)}
  BY <1>2, RemovalElements
<1> HIDE DEF events
<1>4. /\ at' \in [Threads -> Frames]
      /\ at'[t].phase = "backOut" /\ at'[t].events = events
      /\ at'[t].bundle = at[t].bundle /\ at'[t].new = at[t].new /\ at'[t].keep = at[t].keep
      /\ \A u \in Threads \ {t} : at'[u] = at[u]
  <2>1. "backOut" \in Phases /\ TypeOK
    BY DEF Phases, EventsInvariants
  <2> QED
    BY <1>1, <1>3, <2>1, GoToFrame
<1>5. Moves(t)
  BY <1>1, <1>4 DEF Moves
<1>6. \A e \in ToSet(at'[t].events) : MaySend(at'[t], e)
  BY <1>3, <1>4, EventFields DEF MaySend, Removals, Brought
<1>7. \A i \in Brought(at'[t]) : Event("IMAGE_REMOVED", i) \in ToSet(at'[t].events)
  BY <1>3, <1>4 DEF Brought
<1> QED
  BY <1>1, <1>4, <1>5, <1>6, <1>7, GoOnStep DEF Inside, Loading, Unlinking

(* The lock is taken for the unload, and the removal announced.              *)
LEMMA RemoveReturnsStep ==
  ASSUME EventsInvariants, NEW t \in Threads, RemoveReturns(t), Quiet
  PROVE  EventsInvariants'
<1> DEFINE b == at[t].bundle
           Ev == [type : EventTypes, image : AllImages]
           events == <<Event("MODULE_REMOVED", b)>>
                       \o IF at[t].keep THEN << >> ELSE <<Event("IMAGE_REMOVED", b)>>
<1>1. /\ holder = None /\ at[t].phase = "remove" /\ holder' = t
      /\ GoTo(t, "unload", events)
      /\ UNCHANGED <<state, kept>>
  BY DEF RemoveReturns, Returns
<1>2. b \in Bundles
  BY <1>1, FrameFacts DEF EventsInvariants, FramesInv
<1>3. Event("MODULE_REMOVED", b) \in Ev /\ Event("IMAGE_REMOVED", b) \in Ev
  BY <1>2, LibraryFacts DEF Event, EventTypes
<1>4. /\ events \in Seq(Ev)
      /\ ToSet(events) \subseteq {Event("MODULE_REMOVED", b), Event("IMAGE_REMOVED", b)}
      /\ at[t].keep \/ Event("IMAGE_REMOVED", b) \in ToSet(events)
  <2>1. CASE at[t].keep
    <3>1. events = <<Event("MODULE_REMOVED", b)>> /\ events \in Seq(Ev)
      BY <1>3, <2>1
    <3>2. DOMAIN events = {1} /\ events[1] = Event("MODULE_REMOVED", b)
      BY <3>1
    <3> HIDE DEF events
    <3> QED
      BY <2>1, <3>1, <3>2 DEF ToSet
  <2>2. CASE ~at[t].keep
    <3> DEFINE first == <<Event("MODULE_REMOVED", b)>>
               then  == <<Event("IMAGE_REMOVED", b)>>
    <3>1. /\ first \in Seq(Ev) /\ DOMAIN first = {1} /\ first[1] = Event("MODULE_REMOVED", b)
          /\ then \in Seq(Ev) /\ DOMAIN then = {1} /\ then[1] = Event("IMAGE_REMOVED", b)
      BY <1>3
    <3>2. events = first \o then
      BY <2>2
    <3> HIDE DEF events, first, then, Ev
    <3>3. events \in Seq(Ev) /\ ToSet(events) = ToSet(first) \cup ToSet(then)
      BY <3>1, <3>2, ConcatElements
    <3> QED
      BY <3>1, <3>3 DEF ToSet
  <2> QED
    BY <2>1, <2>2
<1> HIDE DEF events
<1>5. /\ at' \in [Threads -> Frames]
      /\ at'[t].phase = "unload" /\ at'[t].events = events
      /\ at'[t].bundle = at[t].bundle /\ at'[t].new = at[t].new /\ at'[t].keep = at[t].keep
      /\ \A u \in Threads \ {t} : at'[u] = at[u]
  <2>1. "unload" \in Phases /\ TypeOK
    BY DEF Phases, EventsInvariants
  <2> QED
    BY <1>1, <1>4, <2>1, GoToFrame
<1>6. Moves(t)
  BY <1>1, <1>5 DEF Moves
<1>7. \A e \in ToSet(at'[t].events) : MaySend(at'[t], e)
  BY <1>4, <1>5, EventFields DEF MaySend, Removals, Brought
<1> QED
  BY <1>1, <1>4, <1>5, <1>6, <1>7, GoOnStep DEF Inside, Loading, Unlinking

(* An unlink begins: nothing is announced yet.                               *)
LEMMA UnlinkModuleStep ==
  ASSUME EventsInvariants, NEW t \in Threads, NEW b \in Bundles, NEW keep \in BOOLEAN,
         UnlinkModule(t, b, keep), Quiet
  PROVE  EventsInvariants'
<1> DEFINE f == [phase |-> "remove", bundle |-> b, new |-> << >>, keep |-> keep,
                 events |-> << >>]
<1> USE DEF EventsInvariants
<1>1. /\ b \in DOMAIN state /\ state[b] = "LINKED"
      /\ \A u \in Threads : at[u].bundle # b
      /\ holder = None /\ at[t].phase = "out"
      /\ at' = [at EXCEPT ![t] = f]
      /\ UNCHANGED <<holder, state, kept>>
  BY DEF UnlinkModule, Returns
<1>2. f \in Frames /\ f.phase = "remove" /\ f.bundle = b /\ ToSet(f.events) = {}
  BY DEF Frames, Phases, ToSet
<1> HIDE DEF f
<1>3. /\ at' \in [Threads -> Frames] /\ at'[t] = f
      /\ \A u \in Threads \ {t} : at'[u] = at[u]
  BY <1>1, <1>2, NewFrame
<1>4. Moves(t)
  BY <1>1, <1>3 DEF Moves
<1>5. FramesInv'
  <2>1. holder' # t /\ b # None
    BY <1>1 DEF EventsAssumption
  <2>2. \A i \in DOMAIN state' : state'[i] # "UNLINKED"
    BY <1>1 DEF FramesInv, Loading, Inside, EventsAssumption
  <2> QED
    BY <1>1, <1>2, <1>3, <1>4, <2>1, <2>2, FramesStep DEF Inside, Loading, Unlinking
<1>6. EventsInv'
  BY <1>2, <1>3, <1>4, EventsStep
<1>7. KnownInv' /\ BoundInv'
  <2>1. \A i \in Leaving : i \in Leaving'
    <3> SUFFICES ASSUME NEW i \in Leaving PROVE i \in Leaving'
      OBVIOUS
    <3>1. PICK u \in Threads :
            \/ at[u].phase = "backOut" /\ i \in Brought(at[u])
            \/ at[u].phase \in {"unload", "unloadUndefined"} /\ i = at[u].bundle
      BY DEF Leaving
    <3>2. u # t
      BY <1>1, <3>1
    <3> QED
      BY <1>3, <3>1, <3>2 DEF Leaving
  <2> QED
    BY <1>1, <1>2, <1>3, <1>4, <2>1, TellStep
<1>8. DOMAIN state' \subseteq AllImages /\ Range(state') \subseteq LinkStates
      /\ IsFiniteSet(DOMAIN state') /\ kept' \subseteq Bundles \ DOMAIN state'
  BY <1>1 DEF TypeOK
<1> HIDE DEF EventsInvariants
<1> QED
  BY <1>4, <1>5, <1>6, <1>7, <1>8, QuietStep
-----------------------------------------------------------------------------
(* Steps that change the lists, or link states                               *)

(* An image that is not linked yet is one that the thread inside brought.    *)
LEMMA UnlinkedIsBrought ==
  ASSUME EventsInvariants, NEW t \in Threads, holder \in {None, t},
         NEW i \in DOMAIN state, state[i] = "UNLINKED"
  PROVE  holder = t /\ at[t].phase \in Loading /\ i \in Brought(at[t])
<1>1. PICK u \in Threads : at[u].phase \in Loading /\ i \in Brought(at[u])
  BY DEF EventsInvariants, FramesInv
<1>2. holder = u
  BY <1>1 DEF EventsInvariants, FramesInv, Loading, Inside
<1> QED
  BY <1>1, <1>2 DEF EventsAssumption

(* A step that links, and leaves nothing behind that is not                  *)
LEMMA RelinkStep ==
  ASSUME EventsInvariants, NEW t \in Threads, Moves(t), Quiet,
         UNCHANGED kept, DOMAIN state' = DOMAIN state,
         at[t].phase \in {"link", "linkHandler", "relocate", "callouts"},
         at'[t].phase \in {"relocate", "bound", "out"},
         holder' = t <=> at'[t].phase \in Inside,
         at'[t].bundle = IF at'[t].phase = "out" THEN None ELSE at[t].bundle,
         \A i \in DOMAIN state :
           /\ state'[i] \in LinkStates \ {"UNLINKED"}
           /\ state[i] = "LINKED" /\ i # at[t].bundle => state'[i] = "LINKED"
           /\ state'[i] \in {"RELOCATED", "LINKED"} =>
                state[i] \in {"RELOCATED", "LINKED"}
                  \/ Event("MODULE_BOUND", i) \in ToSet(at'[t].events),
         \A e \in ToSet(at'[t].events) :
           at'[t].phase = "bound" /\ e.type = "MODULE_BOUND" /\ e.image \in DOMAIN state'
             /\ state'[e.image] \in {"BEING_LINKED", "RELOCATED"}
  PROVE  EventsInvariants'
<1> USE DEF EventsInvariants
<1>1. at[t].bundle # None /\ at[t].bundle \in DOMAIN state
      /\ \A u \in Threads \ {t} : at[u].bundle # at[t].bundle
  BY DEF FramesInv
<1>2. FramesInv'
  BY <1>1, FramesStep DEF Loading, Unlinking
<1>3. EventsInv'
  BY EventsStep
<1>4. KnownInv' /\ BoundInv'
  <2>1. \A i \in Leaving : i \in Leaving'
    <3> SUFFICES ASSUME NEW i \in Leaving PROVE i \in Leaving'
      OBVIOUS
    <3>1. PICK u \in Threads :
            \/ at[u].phase = "backOut" /\ i \in Brought(at[u])
            \/ at[u].phase \in {"unload", "unloadUndefined"} /\ i = at[u].bundle
      BY DEF Leaving
    <3>2. u # t
      BY <3>1
    <3> QED
      BY <3>1, <3>2 DEF Leaving, Moves
  <2> QED
    BY <2>1, TellStep
<1>5. DOMAIN state' \subseteq AllImages /\ Range(state') \subseteq LinkStates
      /\ IsFiniteSet(DOMAIN state') /\ kept' \subseteq Bundles \ DOMAIN state'
  BY DEF TypeOK, Range
<1> HIDE DEF EventsInvariants
<1> QED
  BY <1>2, <1>3, <1>4, <1>5, QuietStep

(* A link is resolved: nothing it brought stays UNLINKED.                    *)
LEMMA ResolveStep ==
  ASSUME EventsInvariants, NEW t \in Threads, Resolve(t), Quiet
  PROVE  EventsInvariants'
<1> DEFINE b == at[t].bundle
           linked == {b} \cup {l \in ToSet(LoadsWith[b]) : state[l] = "UNLINKED"}
<1>0. GoTo(t, "relocate", << >>) /\ "relocate" \in Phases
  BY DEF Resolve, Phases
<1>1. /\ at' \in [Threads -> Frames]
      /\ at'[t].phase = "relocate" /\ at'[t].events = << >>
      /\ at'[t].bundle = b /\ at'[t].new = at[t].new /\ at'[t].keep = at[t].keep
      /\ \A u \in Threads \ {t} : at'[u] = at[u]
  BY <1>0, GoToNoEvents
<1>2. /\ holder = t /\ at[t].phase \in {"link", "linkHandler"} /\ at[t].events = << >>
      /\ state' = Restates(linked, "BEING_LINKED")
      /\ UNCHANGED <<holder, kept>>
  BY DEF Resolve, In
<1>3. Moves(t) /\ ToSet(at'[t].events) = {} /\ holder' = t /\ at'[t].phase \in Inside
  BY <1>1, <1>2 DEF Moves, ToSet, Inside
<1>4. /\ b \in DOMAIN state /\ b # None
      /\ ToSet(at[t].new) \subseteq ToSet(LoadsWith[b])
      /\ ToSet(LoadsWith[b]) \subseteq DOMAIN state
  BY <1>2 DEF EventsInvariants, FramesInv, Loading
<1>5. linked \subseteq DOMAIN state
      /\ \A i \in linked : i = b \/ state[i] = "UNLINKED"
  BY <1>4
<1>6. \A i \in DOMAIN state : state[i] = "UNLINKED" => i \in linked
  <2> SUFFICES ASSUME NEW i \in DOMAIN state, state[i] = "UNLINKED" PROVE i \in linked
    OBVIOUS
  <2>1. i \in Brought(at[t])
    BY <1>2, UnlinkedIsBrought
  <2> QED
    BY <1>4, <2>1 DEF Brought
<1> HIDE DEF linked, b
<1>7. DOMAIN state' = DOMAIN state
      /\ \A i \in DOMAIN state : state'[i] = IF i \in linked THEN "BEING_LINKED" ELSE state[i]
  BY <1>2, <1>5 DEF Restates
<1>8. \A i \in DOMAIN state : state[i] \in LinkStates
  BY DEF EventsInvariants, TypeOK, Range
<1>9. \A i \in DOMAIN state :
           /\ state'[i] \in LinkStates \ {"UNLINKED"}
           /\ state[i] = "LINKED" /\ i # b => state'[i] = "LINKED"
           /\ state'[i] \in {"RELOCATED", "LINKED"} => state[i] \in {"RELOCATED", "LINKED"}
  BY <1>5, <1>6, <1>7, <1>8 DEF LinkStates
<1> QED
  BY <1>1, <1>2, <1>3, <1>7, <1>9, RelinkStep DEF b

(* What is relocated is announced, and so is what has to wait.               *)
LEMMA RelocateStep ==
  ASSUME EventsInvariants, NEW t \in Threads, Relocate(t), Quiet
  PROVE  EventsInvariants'
<1> DEFINE beingLinked == {i \in DOMAIN state : state[i] = "BEING_LINKED"}
           events == Events("MODULE_BOUND", SetToSeq(beingLinked))
<1>1. PICK partly \in SUBSET beingLinked :
        /\ holder = t /\ at[t].phase = "relocate" /\ at[t].events = << >>
        /\ state' = Restates(beingLinked \ partly, "RELOCATED")
        /\ GoTo(t, "bound", events)
        /\ UNCHANGED <<holder, kept>>
  BY DEF Relocate, In
<1>2. /\ events \in Seq([type : EventTypes, image : AllImages])
      /\ ToSet(events) = {Event("MODULE_BOUND", i) : i \in beingLinked}
  <2>1. IsFiniteSet(beingLinked) /\ beingLinked \in SUBSET AllImages
    BY FS_Subset DEF EventsInvariants, TypeOK
  <2> HIDE DEF beingLinked
  <2>2. SetToSeq(beingLinked) \in Seq(beingLinked)
        /\ ToSet(SetToSeq(beingLinked)) = beingLinked
    BY <2>1, SetToSeqElements
  <2>3. "MODULE_BOUND" \in EventTypes
    BY DEF EventTypes
  <2> QED
    BY <2>1, <2>2, <2>3, EventsElements
<1> HIDE DEF events
<1>3. /\ at' \in [Threads -> Frames]
      /\ at'[t].phase = "bound" /\ at'[t].events = events
      /\ at'[t].bundle = at[t].bundle /\ at'[t].new = at[t].new /\ at'[t].keep = at[t].keep
      /\ \A u \in Threads \ {t} : at'[u] = at[u]
  <2>1. "bound" \in Phases /\ TypeOK
    BY DEF Phases, EventsInvariants
  <2> QED
    BY <1>1, <1>2, <2>1, GoToFrame
<1>4. Moves(t) /\ holder' = t /\ at'[t].phase \in Inside
  BY <1>1, <1>3 DEF Moves, Inside
<1>5. at[t].bundle # None
  BY <1>1 DEF EventsInvariants, FramesInv
<1>6. DOMAIN state' = DOMAIN state
      /\ \A i \in DOMAIN state :
           state'[i] = IF i \in beingLinked \ partly THEN "RELOCATED" ELSE state[i]
  BY <1>1 DEF Restates
<1>7. \A i \in DOMAIN state : state[i] \in LinkStates \ {"UNLINKED"}
  BY <1>1, UnlinkedIsBrought DEF EventsInvariants, TypeOK, Range, Loading
<1>8. \A i \in DOMAIN state :
           /\ state'[i] \in LinkStates \ {"UNLINKED"}
           /\ state[i] = "LINKED" /\ i # at[t].bundle => state'[i] = "LINKED"
           /\ state'[i] \in {"RELOCATED", "LINKED"} =>
                state[i] \in {"RELOCATED", "LINKED"}
                  \/ Event("MODULE_BOUND", i) \in ToSet(at'[t].events)
  BY <1>2, <1>3, <1>6, <1>7 DEF LinkStates
<1>9. \A e \in ToSet(at'[t].events) :
        e.type = "MODULE_BOUND" /\ e.image \in DOMAIN state'
          /\ state'[e.image] \in {"BEING_LINKED", "RELOCATED"}
  BY <1>2, <1>3, <1>6, EventFields
<1> QED
  BY <1>1, <1>3, <1>4, <1>5, <1>6, <1>8, <1>9, RelinkStep

(* A thread that leaves has no bundle, and the lock is free.                 *)
LEMMA LeaveFrame ==
  ASSUME TypeOK, NEW t \in Threads, Leave(t)
  PROVE  /\ at' \in [Threads -> Frames] /\ holder' = None /\ holder' # t
         /\ at'[t].phase = "out" /\ at'[t].bundle = None /\ ToSet(at'[t].events) = {}
         /\ \A u \in Threads \ {t} : at'[u] = at[u]
<1>1. at' = [at EXCEPT ![t] = Out] /\ holder' = None
  BY DEF Leave
<1>2. at' \in [Threads -> Frames] /\ at'[t] = Out
      /\ \A u \in Threads \ {t} : at'[u] = at[u]
  BY <1>1, OutIsAFrame, NewFrame
<1>3. Out.phase = "out" /\ Out.bundle = None
  BY DEF Out
<1> QED
  BY <1>1, <1>2, <1>3, OutIsAFrame DEF EventsAssumption

(* The functions have returned: what was relocated is linked.                *)
LEMMA CalloutsReturnStep ==
  ASSUME EventsInvariants, NEW t \in Threads, CalloutsReturn(t), Quiet
  PROVE  EventsInvariants'
<1>1. /\ holder = None /\ at[t].phase = "callouts"
      /\ state' = Restates({i \in DOMAIN state : state[i] = "RELOCATED"}, "LINKED")
      /\ Leave(t) /\ UNCHANGED kept
  BY DEF CalloutsReturn, Returns
<1>2. /\ at' \in [Threads -> Frames] /\ holder' = None /\ holder' # t
      /\ at'[t].phase = "out" /\ at'[t].bundle = None /\ ToSet(at'[t].events) = {}
      /\ \A u \in Threads \ {t} : at'[u] = at[u]
  BY <1>1, LeaveFrame DEF EventsInvariants
<1>3. Moves(t) /\ at'[t].phase \notin Inside
  BY <1>1, <1>2 DEF Moves, Inside
<1>4. DOMAIN state' = DOMAIN state
      /\ \A i \in DOMAIN state : state'[i] = IF state[i] = "RELOCATED" THEN "LINKED" ELSE state[i]
  BY <1>1 DEF Restates
<1>5. \A i \in DOMAIN state : state[i] \in LinkStates \ {"UNLINKED"}
  BY <1>1, UnlinkedIsBrought DEF EventsInvariants, TypeOK, Range, EventsAssumption
<1>6. \A i \in DOMAIN state :
           /\ state'[i] \in LinkStates \ {"UNLINKED"}
           /\ state[i] = "LINKED" => state'[i] = "LINKED"
           /\ state'[i] \in {"RELOCATED", "LINKED"} => state[i] \in {"RELOCATED", "LINKED"}
  BY <1>4, <1>5 DEF LinkStates
<1> QED
  BY <1>1, <1>2, <1>3, <1>4, <1>6, RelinkStep

(* A step that takes images out of the lists and leaves                      *)
LEMMA TakeOutStep ==
  ASSUME EventsInvariants, NEW t \in Threads, Moves(t), Quiet, Leave(t),
         NEW gone \in SUBSET AllImages, DOMAIN state' = DOMAIN state \ gone,
         \A i \in DOMAIN state \ gone : state'[i] = state[i],
         at[t].phase \in {"backOut", "unload", "unloadUndefined"},
         gone \cap Bundles = {at[t].bundle},
         at[t].phase = "backOut" => gone = Brought(at[t]),
         kept \subseteq kept', kept' \subseteq kept \cup {at[t].bundle},
         \A i \in gone : i \in kept' \/ \A s \in Listening :
           i \in known[s] => i \in since[s].unloaded
  PROVE  EventsInvariants'
<1> USE DEF EventsInvariants
<1>1. /\ at' \in [Threads -> Frames] /\ holder' = None /\ holder' # t
      /\ at'[t].phase = "out" /\ at'[t].bundle = None /\ ToSet(at'[t].events) = {}
      /\ \A u \in Threads \ {t} : at'[u] = at[u]
  BY LeaveFrame
<1>2. DOMAIN state' = DOMAIN state \ gone
      /\ \A i \in DOMAIN state \ gone : state'[i] = state[i]
  OBVIOUS
<1>3. at[t].bundle \in gone /\ at[t].bundle \in Bundles
  OBVIOUS
<1>4. FramesInv'
  <2>1. at'[t].phase \notin Inside \cup Loading \cup Unlinking
    BY <1>1 DEF Inside, Loading, Unlinking
  <2>2. \A i \in DOMAIN state \cap Bundles : i # at[t].bundle =>
           i \in DOMAIN state' /\ (state[i] = "LINKED" => state'[i] = "LINKED")
    BY <1>2
  <2>3. \A i \in DOMAIN state' : state'[i] # "UNLINKED"
    <3> SUFFICES ASSUME NEW i \in DOMAIN state', state'[i] = "UNLINKED" PROVE FALSE
      OBVIOUS
    <3>1. i \in DOMAIN state /\ i \notin gone /\ state[i] = "UNLINKED"
      BY <1>2
    <3>2. at[t].phase \in Loading /\ i \in Brought(at[t])
      BY <3>1, UnlinkedIsBrought DEF Moves
    <3> QED
      BY <3>1, <3>2 DEF Loading
  <2> QED
    BY <1>1, <2>1, <2>2, <2>3, FramesStep
<1>5. EventsInv'
  BY <1>1, EventsStep
<1>6. KnownInv' /\ BoundInv'
  <2>1. \A i \in Leaving : i \in DOMAIN state' => i \in Leaving'
    <3> SUFFICES ASSUME NEW i \in Leaving, i \notin gone PROVE i \in Leaving'
      BY <1>2
    <3>1. PICK u \in Threads :
            \/ at[u].phase = "backOut" /\ i \in Brought(at[u])
            \/ at[u].phase \in {"unload", "unloadUndefined"} /\ i = at[u].bundle
      BY DEF Leaving
    <3>2. u # t
      BY <1>3, <3>1
    <3> QED
      BY <1>1, <3>1, <3>2 DEF Leaving
  <2>2. \A i \in DOMAIN state \cup kept :
           \/ i \in DOMAIN state' \cup kept'
           \/ \A s \in Listening : i \in known[s] => i \in since[s].unloaded
    BY <1>2
  <2>3. \A i \in DOMAIN state' : i \in DOMAIN state /\
          (state'[i] \in {"RELOCATED", "LINKED"} => state[i] \in {"RELOCATED", "LINKED"})
    BY <1>2
  <2>4. at'[t].phase \notin {"backOut", "unload", "unloadUndefined"}
    BY <1>1
  <2> QED
    BY <2>1, <2>2, <2>3, <2>4, TellStep
<1>7. DOMAIN state' \subseteq AllImages /\ Range(state') \subseteq LinkStates
      /\ kept' \subseteq Bundles \ DOMAIN state'
  BY <1>2, <1>3 DEF TypeOK, Range
<1>8. IsFiniteSet(DOMAIN state')
  BY <1>2, FS_Subset
<1> HIDE DEF EventsInvariants
<1> QED
  BY <1>4, <1>5, <1>6, <1>7, <1>8, QuietStep

(* A failed link leaves: nobody knows of what it brought.                    *)
LEMMA BackedOutStep ==
  ASSUME EventsInvariants, NEW t \in Threads, BackedOut(t), Quiet
  PROVE  EventsInvariants'
<1>1. /\ holder = t /\ at[t].phase = "backOut" /\ at[t].events = << >>
      /\ DOMAIN state' = DOMAIN state \ Brought(at[t])
      /\ \A i \in DOMAIN state \ Brought(at[t]) : state'[i] = state[i]
      /\ Leave(t) /\ UNCHANGED kept
  BY DEF BackedOut, In, Brought, Restrict
<1>2. /\ at' \in [Threads -> Frames] /\ holder' = None
      /\ \A u \in Threads \ {t} : at'[u] = at[u]
  BY <1>1, LeaveFrame DEF EventsInvariants
<1>3. Moves(t)
  BY <1>1, <1>2 DEF Moves
<1>4. /\ at[t].bundle \in Bundles /\ ToSet(at[t].new) \subseteq Libraries
      /\ Brought(at[t]) = {at[t].bundle} \cup ToSet(at[t].new)
  BY <1>1, FrameFacts DEF EventsInvariants, FramesInv, Brought
<1>5. Brought(at[t]) \in SUBSET AllImages /\ Brought(at[t]) \cap Bundles = {at[t].bundle}
  BY <1>4, LibraryFacts
<1>6. \A type, image : ~Pending(type, image)
  BY <1>1, NothingPending DEF EventsInvariants
<1>7. \A i \in Brought(at[t]) : \A s \in Listening : i \notin known[s]
  BY <1>1, <1>6 DEF EventsInvariants, KnownInv
<1> QED
  BY <1>1, <1>3, <1>5, <1>7, TakeOutStep

(* An image is unloaded: who knows of it subscribed meanwhile, or it is      *)
(* kept.                                                                     *)
LEMMA UnloadStep ==
  ASSUME EventsInvariants, NEW t \in Threads, Unload(t), Quiet
  PROVE  EventsInvariants'
<1> DEFINE b == at[t].bundle
<1>1. /\ \/ holder = t /\ at[t].phase = "unload" /\ at[t].events = << >>
         \/ holder = None /\ at[t].phase = "unloadUndefined"
      /\ DOMAIN state' = DOMAIN state \ {b}
      /\ \A i \in DOMAIN state \ {b} : state'[i] = state[i]
      /\ kept' = IF at[t].keep THEN kept \cup {b} ELSE kept
      /\ Leave(t)
  BY DEF Unload, In, Returns, Restrict
<1>2. /\ at' \in [Threads -> Frames] /\ holder' = None
      /\ \A u \in Threads \ {t} : at'[u] = at[u]
  BY <1>1, LeaveFrame DEF EventsInvariants
<1>3. Moves(t)
  BY <1>1, <1>2 DEF Moves
<1>4. b \in Bundles /\ {b} \in SUBSET AllImages
  BY <1>1, FrameFacts, LibraryFacts DEF EventsInvariants, FramesInv
<1>5. \A type, image : ~Pending(type, image)
  BY <1>1, NothingPending DEF EventsInvariants
<1>6. at[t].keep \/ \A s \in Listening : b \in known[s] => b \in since[s].unloaded
  BY <1>1, <1>5 DEF EventsInvariants, KnownInv
<1>7. b \in kept' \/ \A s \in Listening : b \in known[s] => b \in since[s].unloaded
  BY <1>1, <1>6
<1>8. kept \subseteq kept' /\ kept' \subseteq kept \cup {b}
  BY <1>1
<1>9. {b} \cap Bundles = {b} /\ \A i \in {b} : i \in kept' \/ \A s \in Listening :
        i \in known[s] => i \in since[s].unloaded
  BY <1>4, <1>7
<1>10. at[t].phase \in {"unload", "unloadUndefined"}
  BY <1>1
<1> QED
  BY <1>1, <1>3, <1>4, <1>8, <1>9, <1>10, TakeOutStep

(* A bundle and its new libraries are loaded, and all are announced.         *)
LEMMA LinkModuleStep ==
  ASSUME EventsInvariants, NEW t \in Threads, NEW b \in Bundles, LinkModule(t, b), Quiet
  PROVE  EventsInvariants'
<1> DEFINE places == {i \in DOMAIN LoadsWith[b] : LoadsWith[b][i] \notin DOMAIN state}
           new == Selected(LoadsWith[b], places)
           images == {b} \cup ToSet(new)
           events == Events("IMAGE_ADDED", <<b>> \o new)
           f == [phase |-> "link", bundle |-> b, new |-> new, keep |-> FALSE,
                 events |-> events]
<1> USE DEF EventsInvariants
<1>1. /\ b \notin DOMAIN state /\ b \notin kept
      /\ holder = None /\ at[t] = Out /\ holder' = t
      /\ at' = [at EXCEPT ![t] = f]
      /\ state' = Restates(images, "UNLINKED")
      /\ UNCHANGED kept
  BY DEF LinkModule, Unmapped, Enter
<1>2. new \in Seq(Libraries) /\ ToSet(new) = {LoadsWith[b][i] : i \in places}
  <2>1. LoadsWith[b] \in Seq(Libraries) /\ places \in SUBSET DOMAIN LoadsWith[b]
    BY LibraryFacts
  <2> QED
    BY <2>1, SelectedElements
<1>3. /\ ToSet(new) \subseteq ToSet(LoadsWith[b]) /\ ToSet(new) \cap DOMAIN state = {}
      /\ ToSet(LoadsWith[b]) \subseteq DOMAIN state \cup ToSet(new)
  BY <1>2 DEF ToSet
<1>4. ToSet(new) \subseteq Libraries /\ IsFiniteSet(ToSet(new))
  BY <1>2, ListIsFinite
<1>5. images \cap Bundles = {b} /\ images \cap DOMAIN state = {} /\ images \subseteq AllImages
  BY <1>1, <1>3, <1>4, LibraryFacts
<1>6. /\ events \in Seq([type : EventTypes, image : AllImages])
      /\ ToSet(events) = {Event("IMAGE_ADDED", i) : i \in images}
  <2>1. new \in Seq(AllImages) /\ b \in AllImages
    BY <1>2, LibraryFacts
  <2> HIDE DEF new
  <2>2. <<b>> \o new \in Seq(AllImages) /\ ToSet(<<b>> \o new) = images
    BY <2>1, ConsElements
  <2>3. "IMAGE_ADDED" \in EventTypes
    BY DEF EventTypes
  <2> QED
    BY <2>2, <2>3, EventsElements
<1> HIDE DEF new, events
<1>7. f \in Frames
  BY <1>2, <1>6 DEF Frames, Phases
<1>8. f.phase = "link" /\ f.bundle = b /\ f.new = new /\ f.events = events
      /\ Brought(f) = images
  BY DEF Brought
<1> HIDE DEF f, images
<1>9. /\ at' \in [Threads -> Frames] /\ at'[t] = f
      /\ \A u \in Threads \ {t} : at'[u] = at[u]
  BY <1>1, <1>7, NewFrame
<1>10. Moves(t)
  BY <1>1, <1>9 DEF Moves
<1>11. DOMAIN state' = DOMAIN state \cup images
       /\ \A i \in DOMAIN state' : state'[i] = IF i \in images THEN "UNLINKED" ELSE state[i]
  BY <1>1 DEF Restates
<1>12. \A i \in DOMAIN state : i \notin images /\ state'[i] = state[i]
  BY <1>5, <1>11
<1>13. b \in images /\ b # None
  BY DEF images, EventsAssumption
<1>14. FramesInv'
  <2>1. holder' = t /\ at'[t].phase \in Inside /\ at'[t].phase \in Loading
        /\ at'[t].phase \notin Unlinking /\ at'[t].phase # "out"
    BY <1>1, <1>8, <1>9 DEF Inside, Loading, Unlinking
  <2>2. \A u \in Threads \ {t} : at[u].bundle # b
    BY <1>1, <1>13 DEF FramesInv
  <2>3. /\ ToSet(at'[t].new) \subseteq ToSet(LoadsWith[b])
        /\ ToSet(LoadsWith[b]) \subseteq DOMAIN state'
    BY <1>3, <1>8, <1>9, <1>11 DEF images
  <2>4. \A i \in DOMAIN state' : state'[i] = "UNLINKED" => i \in Brought(at'[t])
    <3> SUFFICES ASSUME NEW i \in DOMAIN state, state[i] = "UNLINKED" PROVE FALSE
      BY <1>8, <1>9, <1>11
    <3> QED
      BY <1>1, UnlinkedIsBrought DEF EventsAssumption
  <2>5. \A i \in DOMAIN state \cap Bundles :
           i \in DOMAIN state' /\ (state[i] = "LINKED" => state'[i] = "LINKED")
    BY <1>11, <1>12
  <2> QED
    BY <1>8, <1>9, <1>10, <1>11, <1>13, <2>1, <2>2, <2>3, <2>4, <2>5, FramesStep
<1>15. EventsInv'
  <2>1. \A e \in ToSet(at'[t].events) :
          at'[t].phase = "link" /\ e.type = "IMAGE_ADDED" /\ e.image \in Brought(at'[t])
    BY <1>6, <1>8, <1>9, EventFields
  <2> QED
    BY <1>10, <2>1, EventsStep
<1>16. KnownInv' /\ BoundInv'
  <2>1. \A i \in Leaving : i \in Leaving'
    <3> SUFFICES ASSUME NEW i \in Leaving PROVE i \in Leaving'
      OBVIOUS
    <3>1. PICK u \in Threads :
            \/ at[u].phase = "backOut" /\ i \in Brought(at[u])
            \/ at[u].phase \in {"unload", "unloadUndefined"} /\ i = at[u].bundle
      BY DEF Leaving
    <3>2. u # t
      BY <1>1, <3>1 DEF Out
    <3> QED
      BY <1>9, <3>1, <3>2 DEF Leaving
  <2>2. \A i \in DOMAIN state' :
           i \in DOMAIN state \/ Event("IMAGE_ADDED", i) \in ToSet(at'[t].events)
    BY <1>6, <1>8, <1>9, <1>11
  <2>3. \A i \in DOMAIN state' : state'[i] \in {"RELOCATED", "LINKED"} =>
          i \in DOMAIN state /\ state[i] \in {"RELOCATED", "LINKED"}
    BY <1>11
  <2>4. \A i \in DOMAIN state \cup kept : i \in DOMAIN state' \cup kept'
    BY <1>1, <1>11
  <2>5. at'[t].phase \notin {"backOut", "unload", "unloadUndefined"}
    BY <1>8, <1>9
  <2> QED
    BY <1>10, <2>1, <2>2, <2>3, <2>4, <2>5, TellStep
<1>17. DOMAIN state' \subseteq AllImages /\ Range(state') \subseteq LinkStates
       /\ kept' \subseteq Bundles \ DOMAIN state'
  <2>1. kept' \subseteq Bundles \ DOMAIN state'
    BY <1>1, <1>5, <1>11 DEF TypeOK
  <2>2. \A i \in DOMAIN state' : state'[i] \in LinkStates
    BY <1>11 DEF TypeOK, Range, LinkStates
  <2> QED
    BY <1>5, <1>11, <2>1, <2>2 DEF TypeOK, Range
<1>18. IsFiniteSet(DOMAIN state')
  <2>1. IsFiniteSet({b}) /\ IsFiniteSet(ToSet(new))
    BY <1>4, FS_Singleton
  <2>2. IsFiniteSet(images)
    BY <2>1, FS_Union DEF images
  <2>3. IsFiniteSet(DOMAIN state \cup images)
    BY <2>2, FS_Union
  <2> QED
    BY <1>11, <2>3
<1> HIDE DEF EventsInvariants
<1> QED
  BY <1>10, <1>14, <1>15, <1>16, <1>17, <1>18, QuietStep
-----------------------------------------------------------------------------
(* send_event() and the subscriptions                                        *)

(* While the first entry takes its messages, an event reaches all that do,   *)
(* and the list keeps them.                                                  *)
LEMMA SendingReachesAll ==
  ASSUME TypeOK, PortsInv
  PROVE  /\ PortsAfterSending \in Seq(Subscribers \cup {None}) /\ PortsAfterSending # << >>
         /\ \/ PortsAfterSending = <<None>> /\ subscribed = {}
            \/ None \notin ToSet(PortsAfterSending) /\ PortsAfterSending[1] \in answering
         /\ Listening \subseteq ToSet(PortsAfterSending)
         /\ Listening \subseteq ToSet(Reached) \cap answering
<1> DEFINE E == Subscribers \cup {None}
           empty == {i \in DOMAIN ports : ports[i] = None}
           got == {i \in DOMAIN Reached : Reached[i] \in answering}
           silent == IF got = {} THEN Len(Reached) ELSE Min(got) - 1
           front == [i \in 1 .. silent |-> None]
           rest == SubSeq(ports, Len(Reached) + 1, Len(ports))
<1>0. /\ ports \in Seq(E) /\ ports # << >> /\ Len(ports) \in Nat
      /\ DOMAIN ports = 1 .. Len(ports) /\ 1 \in DOMAIN ports
  BY DEF TypeOK
<1>1. PortsAfterSending = front \o Selected(Reached, got) \o rest
  BY DEF PortsAfterSending
<1>2. CASE ports = <<None>> /\ subscribed = {}
  <2>1. Reached = << >>
    <3>1. empty = {1} /\ empty # {} /\ empty \in SUBSET Nat
      BY <1>2
    <3>a. Reached = IF empty = {} THEN ports ELSE SubSeq(ports, 1, Min(empty) - 1)
      BY DEF Reached
    <3> HIDE DEF empty
    <3>2. Min(empty) = 1
      <4>1. Min(empty) \in empty
        BY <3>1, MinIsLeast
      <4> QED
        BY <3>1, <4>1
    <3>3. Reached = SubSeq(ports, 1, 0)
      BY <3>1, <3>2, <3>a
    <3> QED
      BY <1>0, <3>3
  <2>2. got = {} /\ silent = 0
    BY <2>1
  <2>3. front = << >>
    BY <2>2
  <2>4. Selected(Reached, got) = << >>
    <3>1. << >> \in Seq({}) /\ {} \in SUBSET DOMAIN << >>
      OBVIOUS
    <3>2. Selected(<< >>, {}) \in Seq({})
      BY <3>1, SelectedElements
    <3>3. \A q \in Seq({}) : q = << >>
      OBVIOUS
    <3>4. got = {}
      BY <2>2
    <3> HIDE DEF got
    <3> QED
      BY <2>1, <3>2, <3>3, <3>4
  <2>5. rest = <<None>>
    <3>1. Len(Reached) + 1 = 1
      BY <2>1
    <3>2. SubSeq(ports, 1, Len(ports)) = ports
      BY <1>0
    <3>3. rest = SubSeq(ports, 1, Len(ports))
      BY <3>1, Zenon
    <3> HIDE DEF rest
    <3> QED
      BY <1>2, <3>2, <3>3
  <2>6. PortsAfterSending = <<None>>
    <3>1. << >> \o << >> \o <<None>> = <<None>>
      OBVIOUS
    <3> HIDE DEF front, rest, got
    <3> QED
      BY <1>1, <2>3, <2>4, <2>5, <3>1, Zenon
  <2> QED
    BY <1>0, <1>2, <2>6 DEF Listening
<1>3. CASE None \notin ToSet(ports) /\ ports[1] \in answering
  <2>1. Reached = ports
    <3>1. empty = {}
      BY <1>3 DEF ToSet
    <3> QED
      BY <3>1 DEF Reached
  <2>2. got = {i \in DOMAIN ports : ports[i] \in answering} /\ 1 \in got
    BY <1>0, <1>3, <2>1
  <2>3. silent = 0
    <3>1. got \in SUBSET Nat /\ got # {} /\ \A i \in got : i >= 1
      BY <1>0, <2>2
    <3> HIDE DEF got
    <3>2. Min(got) \in got /\ \A n \in got : Min(got) <= n
      BY <3>1, MinIsLeast
    <3>3. Min(got) \in Nat /\ Min(got) >= 1 /\ Min(got) <= 1
      BY <2>2, <3>1, <3>2
    <3>4. Min(got) = 1
      BY <3>3
    <3>5. silent = Min(got) - 1
      BY <3>1, Zenon
    <3>6. Min(got) - 1 = 0
      BY <3>4
    <3> HIDE DEF silent
    <3> QED
      BY <3>5, <3>6
  <2>4. front = << >> /\ rest = << >>
    <3> HIDE DEF silent
    <3>1. front = << >>
      BY <2>3
    <3>2. SubSeq(ports, Len(ports) + 1, Len(ports)) = << >>
      BY <1>0
    <3> QED
      BY <2>1, <3>1, <3>2, Zenon
  <2> DEFINE sel == Selected(ports, got)
  <2> HIDE DEF got, front, rest, silent, E
  <2>5. got \in SUBSET DOMAIN ports
    BY <2>2
  <2>6. /\ sel \in Seq(E) /\ sel # << >>
        /\ ToSet(sel) = {ports[i] : i \in got}
        /\ \A i \in DOMAIN sel : \E p \in got : sel[i] = ports[p]
    <3>1. got # {}
      BY <2>2
    <3> QED
      BY <1>0, <2>5, <3>1, SelectedElements
  <2> HIDE DEF sel
  <2>7. PortsAfterSending = sel
    <3>1. PortsAfterSending = << >> \o sel \o << >>
      BY <1>1, <2>1, <2>4 DEF sel
    <3> QED
      BY <2>6, <3>1
  <2>8. 1 \in DOMAIN sel /\ sel[1] \in answering
    <3>1. 1 \in DOMAIN sel
      BY <2>6
    <3> QED
      BY <2>2, <2>6, <3>1
  <2>9. None \notin ToSet(sel)
    <3>1. answering \subseteq Subscribers
      BY DEF TypeOK
    <3> QED
      BY <2>2, <2>6, <3>1 DEF EventsAssumption
  <2>10. Listening \subseteq ToSet(sel)
    <3> SUFFICES ASSUME NEW s \in Listening PROVE s \in ToSet(sel)
      OBVIOUS
    <3>1. PICK i \in DOMAIN ports : ports[i] = s
      BY DEF PortsInv, ToSet
    <3> QED
      BY <2>2, <2>6, <3>1 DEF Listening
  <2>11. Listening \subseteq ToSet(Reached) \cap answering
    BY <2>1 DEF PortsInv, Listening
  <2> QED
    BY <2>6, <2>7, <2>8, <2>9, <2>10, <2>11 DEF E
<1> QED
  BY <1>2, <1>3 DEF PortsInv

(* A listening subscriber takes in the first event of the thread inside.     *)
LEMMA SendEventFacts ==
  ASSUME EventsInvariants, NEW t \in Threads, SendEvent(t)
  PROVE  LET e == Head(at[t].events)
         IN /\ e \in [type : EventTypes, image : AllImages] /\ e \in ToSet(at[t].events)
            /\ at' \in [Threads -> Frames]
            /\ \A u \in Threads :
                 /\ at'[u].phase = at[u].phase /\ at'[u].bundle = at[u].bundle
                 /\ at'[u].new = at[u].new /\ at'[u].keep = at[u].keep
                 /\ ToSet(at'[u].events) \subseteq ToSet(at[u].events)
            /\ \A type, i : Pending(type, i) => Pending(type, i)' \/ e = Event(type, i)
            /\ \A s \in Listening : /\ known'[s] = Knows(known[s], e)
                                    /\ knownBound'[s] = KnowsBound(knownBound[s], e)
            /\ known' \in [Subscribers -> SUBSET AllImages]
            /\ knownBound' \in [Subscribers -> SUBSET AllImages]
<1> DEFINE e == Head(at[t].events)
           Ev == [type : EventTypes, image : AllImages]
           left == Tail(at[t].events)
           f == [at[t] EXCEPT !.events = left]
<1>1. /\ holder = t /\ at[t].events # << >>
      /\ at' = [at EXCEPT ![t].events = Tail(@)]
  BY DEF SendEvent
<1>2. at[t] \in Frames /\ at[t].events \in Seq(Ev)
  BY FrameFacts DEF EventsInvariants, TypeOK
<1>3. e \in Ev /\ left \in Seq(Ev) /\ ToSet(at[t].events) = {e} \cup ToSet(left)
  BY <1>1, <1>2, TailElements
<1>4. /\ f \in Frames /\ f.events = left
      /\ f.phase = at[t].phase /\ f.bundle = at[t].bundle
      /\ f.new = at[t].new /\ f.keep = at[t].keep
  BY <1>2, <1>3 DEF Frames
<1>5. at' = [at EXCEPT ![t] = f]
  BY <1>1, <1>2 DEF EventsInvariants, TypeOK, Frames
<1> HIDE DEF f
<1>6. /\ at' \in [Threads -> Frames] /\ at'[t] = f
      /\ \A u \in Threads \ {t} : at'[u] = at[u]
  BY <1>4, <1>5, NewFrame DEF EventsInvariants
<1> DEFINE got == ToSet(Reached) \cap answering
<1>7. /\ known' = [s \in Subscribers |-> IF s \in got THEN Knows(known[s], e) ELSE known[s]]
      /\ knownBound' = [s \in Subscribers |->
             IF s \in got THEN KnowsBound(knownBound[s], e) ELSE knownBound[s]]
  BY DEF SendEvent
<1>8. Listening \subseteq got /\ Listening \subseteq Subscribers
  BY SendingReachesAll DEF EventsInvariants, TypeOK, Listening
<1> HIDE DEF e, left, got
<1>9. \A s \in Listening : /\ known'[s] = Knows(known[s], e)
                           /\ knownBound'[s] = KnowsBound(knownBound[s], e)
  BY <1>7, <1>8
<1>10. /\ known' \in [Subscribers -> SUBSET AllImages]
       /\ knownBound' \in [Subscribers -> SUBSET AllImages]
  <2>1. e.image \in AllImages
    BY <1>3
  <2>2. \A s \in Subscribers : known[s] \in SUBSET AllImages /\ knownBound[s] \in SUBSET AllImages
    BY DEF EventsInvariants, TypeOK
  <2>3. \A s \in Subscribers : /\ Knows(known[s], e) \in SUBSET AllImages
                               /\ KnowsBound(knownBound[s], e) \in SUBSET AllImages
    BY <2>1, <2>2 DEF Knows, KnowsBound
  <2> QED
    BY <1>7, <2>2, <2>3
<1>11. \A u \in Threads :
         /\ at'[u].phase = at[u].phase /\ at'[u].bundle = at[u].bundle
         /\ at'[u].new = at[u].new /\ at'[u].keep = at[u].keep
         /\ ToSet(at'[u].events) \subseteq ToSet(at[u].events)
  BY <1>3, <1>4, <1>6
<1>12. ASSUME NEW type, NEW i, Pending(type, i)
       PROVE  Pending(type, i)' \/ e = Event(type, i)
  <2>1. PICK u \in Threads : Event(type, i) \in ToSet(at[u].events)
    BY <1>12 DEF Pending
  <2>2. e = Event(type, i) \/ Event(type, i) \in ToSet(at'[u].events)
    BY <1>3, <1>4, <1>6, <2>1
  <2> QED
    BY <2>2 DEF Pending
<1>13. e \in ToSet(at[t].events)
  BY <1>3
<1> QED
  BY <1>3, <1>6, <1>9, <1>10, <1>11, <1>12, <1>13 DEF e

(* An event is sent: what it tells is known, and no event is pending that a  *)
(* subscriber does not need.                                                 *)
LEMMA SendEventStep ==
  ASSUME EventsInvariants, NEW t \in Threads, SendEvent(t)
  PROVE  EventsInvariants'
<1> DEFINE e == Head(at[t].events)
<1> USE DEF EventsInvariants
<1>1. /\ holder = t /\ ports' = PortsAfterSending
      /\ UNCHANGED <<holder, state, kept, answering, subscribed, since>>
  BY DEF SendEvent
<1>2. /\ e \in [type : EventTypes, image : AllImages] /\ e \in ToSet(at[t].events)
      /\ at' \in [Threads -> Frames]
      /\ \A u \in Threads :
           /\ at'[u].phase = at[u].phase /\ at'[u].bundle = at[u].bundle
           /\ at'[u].new = at[u].new /\ at'[u].keep = at[u].keep
           /\ ToSet(at'[u].events) \subseteq ToSet(at[u].events)
      /\ \A type, i : Pending(type, i) => Pending(type, i)' \/ e = Event(type, i)
      /\ \A s \in Listening : /\ known'[s] = Knows(known[s], e)
                              /\ knownBound'[s] = KnowsBound(knownBound[s], e)
      /\ known' \in [Subscribers -> SUBSET AllImages]
      /\ knownBound' \in [Subscribers -> SUBSET AllImages]
  BY SendEventFacts
<1> HIDE DEF e
<1>3. /\ Listening' = Listening
      /\ \A u \in Threads : Brought(at'[u]) = Brought(at[u])
  BY <1>1, <1>2 DEF Listening, Brought
<1>4. Leaving' = Leaving
  BY <1>2, <1>3 DEF Leaving
<1>5. \A u \in Threads : at[u].phase \in Inside => u = t
  BY <1>1 DEF FramesInv
<1>6. \/ at[t].phase = "link" /\ e.type = "IMAGE_ADDED" /\ e.image \in Brought(at[t])
      \/ at[t].phase = "backOut" /\ e.type \in Removals /\ e.image \in Brought(at[t])
      \/ at[t].phase = "bound" /\ e.type = "MODULE_BOUND" /\ e.image \in DOMAIN state
           /\ state[e.image] \in {"BEING_LINKED", "RELOCATED"}
      \/ at[t].phase = "unload" /\ e.type \in Removals /\ e.image = at[t].bundle
  BY <1>2 DEF EventsInv
<1>7. e.type \in Removals => e.image \in Leaving
  <2>1. e.image \in AllImages
    BY <1>2
  <2> QED
    BY <1>6, <2>1 DEF Leaving, Removals
<1>8. \A s \in Listening :
        /\ e.type = "IMAGE_ADDED" => known'[s] = known[s] \cup {e.image}
                                     /\ knownBound'[s] = knownBound[s]
        /\ e.type = "MODULE_BOUND" => known'[s] = known[s]
                                      /\ knownBound'[s] = knownBound[s] \cup {e.image}
        /\ e.type = "MODULE_REMOVED" => known'[s] = known[s]
                                      /\ knownBound'[s] = knownBound[s] \ {e.image}
        /\ e.type = "IMAGE_REMOVED" => known'[s] = known[s] \ {e.image}
                                      /\ knownBound'[s] = knownBound[s] \ {e.image}
  BY <1>2 DEF Knows, KnowsBound
<1>9. e.type \in {"IMAGE_ADDED", "MODULE_BOUND", "MODULE_REMOVED", "IMAGE_REMOVED"}
  BY <1>2 DEF EventTypes
<1>10. \A type, i : e = Event(type, i) => e.type = type /\ e.image = i
  BY EventFields
<1>11. PortsInv'
  BY <1>1, <1>3, SendingReachesAll DEF PortsInv
<1>12. FramesInv'
  <2>1. ASSUME NEW u \in Threads PROVE FramesInv!1!(u)'
    <3>1. FramesInv!1!(u)
      BY DEF FramesInv
    <3>2. \A w \in Threads : at'[w].bundle = at[w].bundle
      BY <1>2
    <3>3. /\ at'[u].phase = at[u].phase /\ at'[u].bundle = at[u].bundle
          /\ at'[u].new = at[u].new
      BY <1>2
    <3> HIDE DEF EventsInvariants
    <3> QED
      BY <1>1, <3>1, <3>2, <3>3
  <2>2. \A i \in DOMAIN state' : state'[i] = "UNLINKED" =>
          \E u \in Threads : at'[u].phase \in Loading /\ i \in Brought(at'[u])
    BY <1>1, <1>2, <1>3 DEF FramesInv
  <2> QED
    BY <2>1, <2>2 DEF FramesInv
<1>13. EventsInv'
  <2> SUFFICES ASSUME NEW u \in Threads, NEW ev \in ToSet(at'[u].events)
               PROVE  EventsInv!(u)!(ev)'
    BY DEF EventsInv
  <2>1. /\ ev \in ToSet(at[u].events) /\ at'[u].phase = at[u].phase
        /\ at'[u].bundle = at[u].bundle /\ Brought(at'[u]) = Brought(at[u])
    BY <1>2, <1>3
  <2>2. EventsInv!(u)!(ev)
    BY <2>1 DEF EventsInv
  <2> HIDE DEF EventsInvariants
  <2> QED
    BY <1>1, <2>1, <2>2
<1>14. TypeOK'
  BY <1>1, <1>2, SendingReachesAll DEF TypeOK
<1>15. KnownInv'
  <2> SUFFICES ASSUME NEW s \in Listening PROVE KnownInv!(s)'
    BY <1>3 DEF KnownInv
  <2>1. ASSUME NEW i \in DOMAIN state'
        PROVE  i \in known'[s] \cup Leaving' \/ Pending("IMAGE_ADDED", i)'
    <3>1. i \in known[s] \cup Leaving \/ Pending("IMAGE_ADDED", i)
      BY <1>1, <2>1 DEF KnownInv
    <3>2. CASE i \in Leaving
      BY <1>4, <3>2
    <3>3. CASE i \in known[s] /\ i \notin Leaving
      BY <1>7, <1>8, <1>9, <3>3 DEF Removals
    <3>4. CASE Pending("IMAGE_ADDED", i)
      BY <1>2, <1>8, <1>10, <3>4
    <3> QED
      BY <3>1, <3>2, <3>3, <3>4
  <2>2. known'[s] \subseteq DOMAIN state' \cup kept' \cup since'[s].unloaded
    <3>1. known[s] \subseteq DOMAIN state \cup kept \cup since[s].unloaded
      BY DEF KnownInv
    <3>2. e.type = "IMAGE_ADDED" => e.image \in DOMAIN state
      BY <1>6 DEF FramesInv, Brought, Loading, Removals
    <3> QED
      BY <1>1, <1>8, <1>9, <3>1, <3>2
  <2>3. ASSUME NEW u \in Threads, NEW i \in known'[s],
               at[u].phase = "backOut" /\ i \in Brought(at[u])
        PROVE  Pending("IMAGE_REMOVED", i)'
    <3>1. u = t
      BY <1>5, <2>3 DEF Inside
    <3>2. e.type \in Removals
      BY <1>6, <2>3, <3>1
    <3>3. i \in known[s]
      BY <1>8, <2>3, <3>2 DEF Removals
    <3>4. Pending("IMAGE_REMOVED", i)
      BY <2>3, <3>3 DEF KnownInv
    <3> QED
      BY <1>2, <1>8, <1>10, <2>3, <3>4
  <2>4. ASSUME NEW u \in Threads, NEW i \in known'[s],
               at[u].phase \in {"unload", "unloadUndefined"}, i = at[u].bundle
        PROVE  at[u].keep \/ Pending("IMAGE_REMOVED", i)' \/ i \in since[s].unloaded
    <3>1. i \in known[s]
      <4>1. CASE e.type = "IMAGE_ADDED"
        <5>1. at[t].phase = "link" /\ e.image \in Brought(at[t])
          BY <1>6, <4>1 DEF Removals
        <5>2. i \in Bundles /\ at[t].bundle # i
          BY <2>4, <5>1, FrameFacts DEF FramesInv
        <5>3. ToSet(at[t].new) \cap Bundles = {}
          BY FrameFacts, LibraryFacts
        <5>4. e.image # i
          BY <5>1, <5>2, <5>3 DEF Brought
        <5> QED
          BY <1>8, <2>4, <4>1, <5>4
      <4> QED
        BY <1>8, <1>9, <2>4, <4>1
    <3>2. at[u].keep \/ Pending("IMAGE_REMOVED", i) \/ i \in since[s].unloaded
      BY <2>4, <3>1 DEF KnownInv
    <3> QED
      BY <1>2, <1>8, <1>10, <2>4, <3>2
  <2> QED
    BY <1>1, <1>2, <1>3, <2>1, <2>2, <2>3, <2>4
<1>16. BoundInv'
  <2> SUFFICES ASSUME NEW s \in Listening PROVE BoundInv!(s)'
    BY <1>3 DEF BoundInv
  <2>1. ASSUME NEW i \in DOMAIN state', state'[i] \in {"RELOCATED", "LINKED"}
        PROVE  i \in knownBound'[s] \cup Leaving' \cup since'[s].bound
                 \/ Pending("MODULE_BOUND", i)'
    <3>1. i \in knownBound[s] \cup Leaving \cup since[s].bound \/ Pending("MODULE_BOUND", i)
      BY <1>1, <2>1 DEF BoundInv
    <3>2. CASE i \in Leaving \cup since[s].bound
      BY <1>1, <1>4, <3>2
    <3>3. CASE i \in knownBound[s] /\ i \notin Leaving
      BY <1>7, <1>8, <1>9, <3>3 DEF Removals
    <3>4. CASE Pending("MODULE_BOUND", i)
      BY <1>2, <1>8, <1>10, <3>4
    <3> QED
      BY <3>1, <3>2, <3>3, <3>4
  <2>2. knownBound'[s] \subseteq known'[s]
    <3>1. knownBound[s] \subseteq known[s]
      BY DEF BoundInv
    <3>2. ASSUME e.type = "MODULE_BOUND" PROVE e.image \in known[s]
      <4>1. at[t].phase = "bound" /\ e.image \in DOMAIN state
            /\ state[e.image] \in {"BEING_LINKED", "RELOCATED"}
        BY <1>6, <3>2 DEF Removals
      <4>2. e.image \notin Leaving
        <5> SUFFICES ASSUME e.image \in Leaving PROVE FALSE
          OBVIOUS
        <5>1. PICK u \in Threads :
                \/ at[u].phase = "backOut" /\ e.image \in Brought(at[u])
                \/ at[u].phase \in {"unload", "unloadUndefined"} /\ e.image = at[u].bundle
          BY DEF Leaving
        <5>2. CASE u = t
          BY <4>1, <5>1, <5>2
        <5>3. CASE u # t
          BY <1>5, <4>1, <5>1, <5>3 DEF Inside, Unlinking, FramesInv
        <5> QED
          BY <5>2, <5>3
      <4>3. ~Pending("IMAGE_ADDED", e.image)
        <5> SUFFICES ASSUME NEW u \in Threads,
                            Event("IMAGE_ADDED", e.image) \in ToSet(at[u].events)
                     PROVE  FALSE
          BY DEF Pending
        <5>1. at[u].phase = "link"
          BY EventFields DEF EventsInv, Removals
        <5> QED
          BY <1>5, <4>1, <5>1 DEF Inside
      <4> QED
        BY <4>1, <4>2, <4>3 DEF KnownInv
    <3> QED
      BY <1>8, <1>9, <3>1, <3>2
  <2> QED
    BY <2>1, <2>2
<1>17. IsFiniteSet(DOMAIN state')
  BY <1>1
<1> QED
  BY <1>11, <1>12, <1>13, <1>14, <1>15, <1>16, <1>17

(* A new subscriber is added without anybody being lost.                     *)
LEMMA AddedElements ==
  ASSUME TypeOK, PortsInv, NEW s \in Subscribers, s \in answering
  PROVE  /\ Added(s) \in Seq(Subscribers \cup {None}) /\ Added(s) # << >>
         /\ None \notin ToSet(Added(s)) /\ Added(s)[1] \in answering
         /\ Listening \cup {s} \subseteq ToSet(Added(s))
<1> DEFINE E == Subscribers \cup {None}
<1>0. /\ ports \in Seq(E) /\ ports # << >> /\ Len(ports) \in Nat
      /\ DOMAIN ports = 1 .. Len(ports) /\ 1 \in DOMAIN ports /\ s # None
  BY DEF TypeOK, EventsAssumption
<1>1. CASE ports = <<None>> /\ subscribed = {}
  <2>1. Added(s) = <<s>>
    <3>1. <<s>> \o Tail(<<None>>) = <<s>>
      OBVIOUS
    <3> QED
      BY <1>1, <3>1 DEF Added
  <2>2. ToSet(<<s>>) = {s}
    BY DEF ToSet
  <2>3. <<s>> \in Seq(E) /\ <<s>> # << >> /\ <<s>>[1] = s
    OBVIOUS
  <2> QED
    BY <1>0, <1>1, <2>1, <2>2, <2>3 DEF Listening
<1>2. CASE None \notin ToSet(ports) /\ ports[1] \in answering
  <2> DEFINE front == SubSeq(ports, 1, 1)
             rest  == SubSeq(ports, 2, Len(ports))
             mid   == <<s>>
  <2>1. Added(s) = front \o mid \o rest
    <3>1. ports[1] # None
      BY <1>0, <1>2 DEF ToSet
    <3> QED
      BY <3>1 DEF Added, InsertAt
  <2>2. /\ front \in Seq(E) /\ mid \in Seq(E) /\ rest \in Seq(E)
        /\ DOMAIN front = {1} /\ front[1] = ports[1] /\ Len(front) = 1
        /\ DOMAIN mid = {1} /\ mid[1] = s
    BY <1>0
  <2>3. /\ Len(rest) = Len(ports) - 1
        /\ \A i \in DOMAIN rest : i + 1 \in DOMAIN ports /\ rest[i] = ports[i + 1]
        /\ \A i \in DOMAIN ports : i = 1 \/ (i - 1 \in DOMAIN rest /\ rest[i - 1] = ports[i])
    BY <1>0
  <2>4. ToSet(front) \cup ToSet(rest) = ToSet(ports) /\ ToSet(mid) = {s}
    <3> HIDE DEF front, rest, mid
    <3>1. ToSet(front) = {ports[1]} /\ ToSet(mid) = {s}
      BY <2>2 DEF ToSet
    <3>2. {ports[1]} \cup ToSet(rest) = ToSet(ports)
      BY <1>0, <2>3 DEF ToSet
    <3> QED
      BY <3>1, <3>2
  <2> HIDE DEF front, rest, mid, E
  <2>5. front \o mid \in Seq(E) /\ ToSet(front \o mid) = ToSet(front) \cup ToSet(mid)
    BY <2>2, ConcatElements
  <2>6. \A p, q \in Seq(E) : Len(p) >= 1 =>
          p \o q # << >> /\ Len(p \o q) >= 1 /\ (p \o q)[1] = p[1]
    OBVIOUS
  <2>7. Len(front \o mid) >= 1 /\ (front \o mid)[1] = ports[1]
    BY <2>2, <2>6
  <2> DEFINE most == front \o mid
  <2>8. Added(s) = most \o rest /\ most \in Seq(E) /\ rest \in Seq(E)
        /\ ToSet(most) = ToSet(front) \cup {s}
        /\ Len(most) >= 1 /\ most[1] = ports[1]
    BY <2>1, <2>2, <2>4, <2>5, <2>7
  <2> HIDE DEF most
  <2>9. Added(s) \in Seq(E) /\ ToSet(Added(s)) = ToSet(ports) \cup {s}
    <3>1. most \o rest \in Seq(E) /\ ToSet(most \o rest) = ToSet(most) \cup ToSet(rest)
      BY <2>8, ConcatElements
    <3> QED
      BY <2>4, <2>8, <3>1
  <2>10. Added(s) # << >> /\ Added(s)[1] = ports[1]
    BY <2>6, <2>8
  <2> QED
    BY <1>0, <1>2, <2>9, <2>10 DEF E, PortsInv
<1> QED
  BY <1>1, <1>2 DEF PortsInv

(* A subscription is served while nothing is pending, and is sent all there  *)
(* is.                                                                       *)
LEMMA SubscribeStep ==
  ASSUME EventsInvariants, NEW s \in Subscribers, Subscribe(s)
  PROVE  EventsInvariants'
<1> USE DEF EventsInvariants
<1>1. /\ s \in answering
      /\ \/ holder = None
         \/ \E t \in Threads : holder = t /\ at[t].phase = "linkHandler"
      /\ known' = [known EXCEPT ![s] = DOMAIN state]
      /\ knownBound' = [knownBound EXCEPT ![s] = Announced]
      /\ ports' = Added(s) /\ subscribed' = subscribed \cup {s}
      /\ since' = [since EXCEPT ![s] = [bound |-> {i \in DOMAIN state : state[i] = "RELOCATED"},
                                        unloaded |-> BeingUnloaded]]
      /\ UNCHANGED <<holder, state, kept, at, answering>>
  BY DEF Subscribe, Served, PastEvents, program
<1>2. \A u \in Threads : at[u].phase \notin {"backOut", "unload"}
  BY <1>1 DEF FramesInv, Inside, EventsAssumption
<1>3. \A u \in Threads : at[u].phase = "unloadUndefined" =>
        at[u].bundle \in BeingUnloaded
  BY DEF BeingUnloaded
<1>4. BeingUnloaded \subseteq Bundles
  BY FrameFacts DEF BeingUnloaded, FramesInv
<1>5. Listening' = Listening \cup {s}
  BY <1>1 DEF Listening
<1>6. Leaving' = Leaving /\ \A type, i : Pending(type, i)' = Pending(type, i)
  BY <1>1 DEF Leaving, Pending, Brought
<1>7. /\ known'[s] = DOMAIN state
      /\ knownBound'[s] = {i \in DOMAIN state : state[i] = "LINKED"}
      /\ since'[s].bound = {i \in DOMAIN state : state[i] = "RELOCATED"}
      /\ since'[s].unloaded = BeingUnloaded
      /\ \A r \in Subscribers \ {s} : known'[r] = known[r] /\ knownBound'[r] = knownBound[r]
                                      /\ since'[r] = since[r]
  BY <1>1 DEF TypeOK, Announced
<1>8. PortsInv'
  BY <1>1, <1>5, AddedElements DEF PortsInv
<1>9. FramesInv' /\ EventsInv' /\ IsFiniteSet(DOMAIN state')
  BY <1>1 DEF FramesInv, EventsInv, Brought
<1>10. TypeOK'
  <2>1. /\ ports' \in Seq(Subscribers \cup {None}) /\ ports' # << >>
    BY <1>1, AddedElements
  <2>2. [bound |-> {i \in DOMAIN state : state[i] = "RELOCATED"}, unloaded |-> BeingUnloaded]
          \in [bound : SUBSET AllImages, unloaded : SUBSET Bundles]
    BY <1>4 DEF TypeOK
  <2>3. since' \in [Subscribers -> [bound : SUBSET AllImages, unloaded : SUBSET Bundles]]
    BY <1>1, <2>2 DEF TypeOK
  <2>4. /\ known' \in [Subscribers -> SUBSET AllImages]
        /\ knownBound' \in [Subscribers -> SUBSET AllImages]
    BY <1>1 DEF TypeOK, Announced
  <2> QED
    BY <1>1, <2>1, <2>3, <2>4 DEF TypeOK
<1>11. KnownInv'
  <2> SUFFICES ASSUME NEW r \in Listening' PROVE KnownInv!(r)'
    BY DEF KnownInv
  <2>1. CASE r = s
    BY <1>1, <1>2, <1>3, <1>7, <2>1
  <2>2. CASE r # s
    <3>1. r \in Listening /\ r \in Subscribers \ {s}
      BY <1>5, <2>2 DEF Listening, TypeOK
    <3>2. KnownInv!(r)
      BY <3>1 DEF KnownInv
    <3> QED
      BY <1>1, <1>6, <1>7, <3>1, <3>2 DEF Brought
  <2> QED
    BY <2>1, <2>2
<1>12. BoundInv'
  <2> SUFFICES ASSUME NEW r \in Listening' PROVE BoundInv!(r)'
    BY DEF BoundInv
  <2>1. CASE r = s
    BY <1>1, <1>7, <2>1
  <2>2. CASE r # s
    <3>1. r \in Listening /\ r \in Subscribers \ {s}
      BY <1>5, <2>2 DEF Listening, TypeOK
    <3>2. BoundInv!(r)
      BY <3>1 DEF BoundInv
    <3> QED
      BY <1>1, <1>6, <1>7, <3>1, <3>2
  <2> QED
    BY <2>1, <2>2
<1> QED
  BY <1>8, <1>9, <1>10, <1>11, <1>12

(* A subscriber stops that is not the first.                                 *)
LEMMA StopStep ==
  ASSUME ~HeadMayStop, EventsInvariants, NEW s \in Subscribers, Stop(s)
  PROVE  EventsInvariants'
<1> USE DEF EventsInvariants
<1>1. /\ ports[1] # s /\ answering' = answering \ {s}
      /\ UNCHANGED <<holder, state, kept, at, ports, subscribed, known, knownBound, since>>
  BY DEF Stop, program, told
<1>2. Listening' \subseteq Listening
  BY <1>1 DEF Listening
<1>3. Leaving' = Leaving /\ \A type, i : Pending(type, i)' = Pending(type, i)
  BY <1>1 DEF Leaving, Pending, Brought
<1>4. PortsInv'
  BY <1>1, <1>2 DEF PortsInv
<1>5. FramesInv' /\ EventsInv' /\ IsFiniteSet(DOMAIN state')
  BY <1>1 DEF FramesInv, EventsInv, Brought
<1>6. TypeOK'
  BY <1>1 DEF TypeOK
<1>7. KnownInv'
  <2> SUFFICES ASSUME NEW r \in Listening PROVE KnownInv!(r)'
    BY <1>2 DEF KnownInv
  <2>1. KnownInv!(r)
    BY DEF KnownInv
  <2> QED
    BY <1>1, <1>3, <2>1 DEF Brought
<1>8. BoundInv'
  <2> SUFFICES ASSUME NEW r \in Listening PROVE BoundInv!(r)'
    BY <1>2 DEF BoundInv
  <2>1. BoundInv!(r)
    BY DEF BoundInv
  <2> QED
    BY <1>1, <1>3, <2>1
<1> QED
  BY <1>4, <1>5, <1>6, <1>7, <1>8
-----------------------------------------------------------------------------
(* The theorems *)

(* At first nobody has subscribed, and all images are linked.                *)
LEMMA InitEstablishesEvents == Init => EventsInvariants
<1> SUFFICES ASSUME Init PROVE EventsInvariants
  OBVIOUS
<1>1. Images \in Seq(ToSet(Images) \ Bundles)
  BY DEF EventsAssumption
<1>2. IsFiniteSet(ToSet(Images))
  BY <1>1, ListIsFinite
<1>3. DOMAIN state = ToSet(Images) /\ \A i \in DOMAIN state : state[i] = "LINKED"
  BY DEF Init
<1>4. \A t \in Threads : at[t] = Out
  BY DEF Init
<1>5. TypeOK
  <2>1. DOMAIN state \subseteq AllImages /\ Range(state) \subseteq LinkStates
    BY <1>3 DEF AllImages, LinkStates, Range
  <2>2. ports \in Seq(Subscribers \cup {None}) /\ ports # << >>
    BY DEF Init
  <2>3. at \in [Threads -> Frames]
    BY OutIsAFrame DEF Init
  <2> QED
    BY <2>1, <2>2, <2>3 DEF Init, TypeOK
<1>6. PortsInv
  BY DEF PortsInv, Listening, Init
<1>7. FramesInv
  BY <1>3, <1>4 DEF FramesInv, Out, Inside, Loading, Unlinking, Init, EventsAssumption
<1>8. EventsInv
  BY <1>4, OutIsAFrame DEF EventsInv
<1>9. KnownInv /\ BoundInv
  BY DEF KnownInv, BoundInv, Listening, Init
<1> QED
  BY <1>2, <1>3, <1>5, <1>6, <1>7, <1>8, <1>9 DEF EventsInvariants

(* Every step of the program keeps the invariant, ...                        *)
LEMMA ProgramStepKeepsEvents ==
  ASSUME EventsInvariants, NEW t \in Threads, ProgramStep(t)
  PROVE  EventsInvariants'
<1>1. Quiet
  BY DEF ProgramStep, Quiet
<1>2. CASE \E b \in Bundles : LinkModule(t, b)
  BY <1>1, <1>2, LinkModuleStep
<1>3. CASE \E b \in Unlinks, keep \in BOOLEAN : UnlinkModule(t, b, keep)
  <2>1. Unlinks \subseteq Bundles
    BY DEF EventsAssumption
  <2> QED
    BY <1>1, <1>3, <2>1, UnlinkModuleStep
<1>4. CASE LinkHandler(t)
  BY <1>1, <1>4, LinkHandlerStep
<1>5. CASE Resolve(t)
  BY <1>1, <1>5, ResolveStep
<1>6. CASE BackOut(t)
  BY <1>1, <1>6, BackOutStep
<1>7. CASE BackedOut(t)
  BY <1>1, <1>7, BackedOutStep
<1>8. CASE Relocate(t)
  BY <1>1, <1>8, RelocateStep
<1>9. CASE CallUser(t)
  BY <1>1, <1>9, CallUserStep
<1>10. CASE UndefinedReturns(t)
  BY <1>1, <1>10, UndefinedReturnsStep
<1>11. CASE CalloutsReturn(t)
  BY <1>1, <1>11, CalloutsReturnStep
<1>12. CASE RemoveReturns(t)
  BY <1>1, <1>12, RemoveReturnsStep
<1>13. CASE ReportUndefined(t)
  BY <1>1, <1>13, ReportUndefinedStep
<1>14. CASE Unload(t)
  BY <1>1, <1>14, UnloadStep
<1> QED
  BY <1>2, <1>3, <1>4, <1>5, <1>6, <1>7, <1>8, <1>9, <1>10, <1>11, <1>12, <1>13, <1>14
     DEF ProgramStep

(* ... and so does every step.                                               *)
LEMMA NextKeepsEvents ==
  ASSUME ~HeadMayStop, EventsInvariants, [Next]_vars
  PROVE  EventsInvariants'
<1>1. CASE \E t \in Threads : ProgramStep(t)
  BY <1>1, ProgramStepKeepsEvents
<1>2. CASE \E t \in Threads : SendEvent(t)
  BY <1>2, SendEventStep
<1>3. CASE \E s \in Subscribers : SubscriberStep(s)
  BY <1>3, SubscribeStep, StopStep DEF SubscriberStep
<1>4. CASE UNCHANGED vars
  <2>1. UNCHANGED <<holder, state, kept, at, ports, answering, subscribed, known, knownBound,
                    since>>
    BY <1>4 DEF vars, program, told
  <2>2. Listening' = Listening /\ Leaving' = Leaving
        /\ \A type, i : Pending(type, i)' = Pending(type, i)
    BY <2>1 DEF Listening, Leaving, Pending, Brought
  <2>3. TypeOK' /\ PortsInv'
    BY <2>1, <2>2 DEF EventsInvariants, TypeOK, PortsInv
  <2>4. FramesInv' /\ EventsInv' /\ IsFiniteSet(DOMAIN state')
    BY <2>1 DEF EventsInvariants, FramesInv, EventsInv, Brought
  <2>5. KnownInv'
    BY <2>1, <2>2 DEF EventsInvariants, KnownInv, Brought
  <2>6. BoundInv'
    BY <2>1, <2>2 DEF EventsInvariants, BoundInv
  <2> QED
    BY <2>3, <2>4, <2>5, <2>6 DEF EventsInvariants
<1> QED
  BY <1>1, <1>2, <1>3, <1>4 DEF Next

(* The invariant: what a subscriber knows and what it has still to be told   *)
(* make up what is in the program, and nobody falls out of the list.         *)
THEOREM EventsInvariant == ASSUME ~HeadMayStop PROVE Spec => []EventsInvariants
<1>1. Init => EventsInvariants
  BY InitEstablishesEvents
<1>2. EventsInvariants /\ [Next]_vars => EventsInvariants'
  BY NextKeepsEvents
<1> QED
  BY <1>1, <1>2, PTL DEF Spec

(* Every variable keeps its type: the event list has an entry at any time,   *)
(* and no image is kept mapped and in the lists at once.                     *)
THEOREM EventsTypeCorrectness == ASSUME ~HeadMayStop PROVE Spec => []TypeOK
<1>1. EventsInvariants => TypeOK
  BY DEF EventsInvariants
<1> QED
  BY <1>1, EventsInvariant, PTL

(* While nobody is inside, no thread is backing out or removing, and of the  *)
(* images on their way out only those being unloaded are left.               *)
LEMMA NobodyInside ==
  ASSUME EventsInvariants, holder = None, NEW i \in AllImages
  PROVE  /\ \A type : ~Pending(type, i)
         /\ i \in Leaving => i \in BeingUnloaded
<1> USE DEF EventsInvariants
<1>1. \A t \in Threads : at[t].phase \notin Inside
  BY DEF FramesInv, EventsAssumption
<1>2. \A t \in Threads : ToSet(at[t].events) = {}
  BY <1>1, SenderIsInside DEF Inside
<1>3. \A type : ~Pending(type, i)
  BY <1>2 DEF Pending
<1>4. i \in Leaving => i \in BeingUnloaded
  BY <1>1 DEF Leaving, BeingUnloaded, Inside
<1> QED
  BY <1>3, <1>4

(* "send_event() sends the specified event to all the event ports": every    *)
(* subscriber that takes its messages knows every image, however many        *)
(* subscribe, stop and are taken out of the list in between.                 *)
THEOREM ImagesAreKnownHolds == ASSUME ~HeadMayStop PROVE Spec => []ImagesAreKnown
<1>1. EventsInvariants => ImagesAreKnown
  <2> SUFFICES ASSUME EventsInvariants, holder = None, NEW s \in Listening,
                      NEW i \in DOMAIN state, i \notin BeingUnloaded
               PROVE  i \in known[s]
    BY DEF ImagesAreKnown
  <2>1. i \in AllImages
    BY DEF EventsInvariants, TypeOK
  <2>2. ~Pending("IMAGE_ADDED", i) /\ i \notin Leaving
    BY <2>1, NobodyInside
  <2> QED
    BY <2>2 DEF EventsInvariants, KnownInv
<1> QED
  BY <1>1, EventsInvariant, PTL

(* A subscriber is told when an image it knows goes, of a failed link's too. *)
THEOREM KnownAreMappedHolds == ASSUME ~HeadMayStop PROVE Spec => []KnownAreMapped
<1>1. EventsInvariants => KnownAreMapped
  BY DEF EventsInvariants, KnownInv, KnownAreMapped
<1> QED
  BY <1>1, EventsInvariant, PTL

(* The modules a subscriber takes to be bound are those that are, but for    *)
(* the two windows of past events the property names.                        *)
THEOREM BoundAreKnownHolds == ASSUME ~HeadMayStop PROVE Spec => []BoundAreKnown
<1>1. EventsInvariants => BoundAreKnown
  <2> SUFFICES ASSUME EventsInvariants, holder = None, NEW s \in Listening
               PROVE  BoundAreKnown!2!(s)
    BY DEF BoundAreKnown
  <2>1. ASSUME NEW i \in DOMAIN state, state[i] = "LINKED"
        PROVE  i \in knownBound[s] \cup BeingUnloaded \cup since[s].bound
    <3>1. i \in AllImages
      BY DEF EventsInvariants, TypeOK
    <3>2. ~Pending("MODULE_BOUND", i) /\ (i \in Leaving => i \in BeingUnloaded)
      BY <3>1, NobodyInside
    <3> QED
      BY <2>1, <3>2 DEF EventsInvariants, BoundInv
  <2>2. knownBound[s] \subseteq known[s]
    BY DEF EventsInvariants, BoundInv
  <2>3. \A i \in DOMAIN state : state[i] # "UNLINKED"
    BY DEF EventsInvariants, FramesInv, Loading, Inside, EventsAssumption
  <2> QED
    BY <2>1, <2>2, <2>3
<1> QED
  BY <1>1, EventsInvariant, PTL
================================================================================
