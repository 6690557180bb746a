------------------------------ MODULE DyldEvents ------------------------------
(***************************************************************************)
(* Dynamic link events: what dyld tells the debuggers that have subscribed *)
(* (cctools/dyld/debug.c, the calls of send_event() in images.c and        *)
(* reloc.c) against what is in the program.                                *)
(*                                                                         *)
(* The debug thread serves a subscription while nobody is inside the       *)
(* dynamic linker, or in a handler that is called with the lock held, and  *)
(* no other thread runs meanwhile: this is what DyldDebug is about, and    *)
(* taken for granted here.  An image has one module.  Messages to one port *)
(* arrive in order, so a subscriber knows what was sent to it.             *)
(***************************************************************************)
EXTENDS Naturals, Sequences, SequencesExt, FiniteSets, FiniteSetsExt, Functions

CONSTANTS Threads,
          None,
          Subscribers,
          Inconsistent,  \* those that ask with inconsistent_data_ok
          MayStop,       \* those that may stop taking messages, or die
          HeadMayStop,   \* even while first of the list?
          Images,        \* those of the launch, in their order
          Bundles,
          LoadsWith,     \* the libraries a bundle loads, in their order
          Failing,       \* bundles that cannot be linked
          Unlinks,       \* bundles the program unlinks
          Referenced     \* bundles others refer to, even then

ASSUME EventsAssumption ==
  /\ None \notin Threads \cup Subscribers \cup Bundles
  /\ Inconsistent \cup MayStop \subseteq Subscribers
  /\ HeadMayStop \in BOOLEAN
  /\ Failing \cup Unlinks \cup Referenced \subseteq Bundles
  \* Only bundles are linked by name: what an image loads are libraries.
  /\ Images \in Seq(ToSet(Images) \ Bundles)
  /\ \A b \in Bundles : LoadsWith[b] \in Seq(ToSet(LoadsWith[b]) \ Bundles)

VARIABLES
  holder,      \* the thread inside the dynamic linker
  state,       \* of each image in the lists, the link state of its module
  kept,        \* unlinked, and their memory kept mapped
  ports,       \* event_port_list, from its head: a subscriber, or None
  answering,   \* the subscribers that take their messages
  subscribed,  \* those that were told DYLD_SUCCESS
  known,       \* the images each has been told of
  knownBound,  \* the modules each has been told are bound
  since,       \* history: what was under way when it subscribed
  at           \* where each thread is, and the events it has still to send

program == <<holder, state, kept, at>>
told    == <<known, knownBound>>
vars    == <<program, ports, answering, subscribed, told, since>>

Libraries  == UNION {ToSet(LoadsWith[b]) : b \in Bundles}
AllImages  == ToSet(Images) \cup Bundles \cup Libraries
LinkStates == {"UNLINKED", "BEING_LINKED", "RELOCATED", "LINKED"}
EventTypes == {"IMAGE_ADDED", "MODULE_BOUND", "MODULE_REMOVED", "IMAGE_REMOVED"}
Phases     == {"out", "link", "linkHandler", "backOut", "relocate", "bound",
               "undefined", "callouts", "remove", "unload", "unloadUndefined"}

\* What a thread is doing, for which bundle, and the libraries it has added
Frames == [phase : Phases, bundle : Bundles \cup {None}, new : Seq(Libraries),
           keep : BOOLEAN, events : Seq([type : EventTypes, image : AllImages])]

TypeOK ==
  /\ holder \in Threads \cup {None}
  /\ DOMAIN state \subseteq AllImages /\ Range(state) \subseteq LinkStates
  /\ kept \subseteq Bundles \ DOMAIN state
  /\ ports \in Seq(Subscribers \cup {None}) /\ ports # << >>
  /\ answering \subseteq Subscribers /\ subscribed \subseteq Subscribers
  /\ known \in [Subscribers -> SUBSET AllImages]
  /\ knownBound \in [Subscribers -> SUBSET AllImages]
  /\ since \in [Subscribers -> [bound : SUBSET AllImages, unloaded : SUBSET Bundles]]
  /\ at \in [Threads -> Frames]

Out == [phase |-> "out", bundle |-> None, new |-> << >>, keep |-> FALSE, events |-> << >>]

Init ==
  /\ holder = None
  /\ state = [i \in ToSet(Images) |-> "LINKED"]
  /\ kept = {}
  /\ ports = <<None>>
  /\ answering = Subscribers
  /\ subscribed = {}
  /\ known = [s \in Subscribers |-> {}]
  /\ knownBound = [s \in Subscribers |-> {}]
  /\ since = [s \in Subscribers |-> [bound |-> {}, unloaded |-> {}]]
  /\ at = [t \in Threads |-> Out]
-----------------------------------------------------------------------------
(* send_event() *)

Event(type, image) == [type |-> type, image |-> image]
Events(type, images) == [i \in DOMAIN images |-> Event(type, images[i])]

\* The entries of a list that have these places, in their order
Selected(list, places) ==
  LET order == CHOOSE f \in [1 .. Cardinality(places) -> places] :
                 \A i, j \in DOMAIN f : i < j => f[i] < f[j]
  IN [i \in DOMAIN order |-> list[order[i]]]

\* The loop ends at the first empty entry ...
Reached ==
  LET empty == {i \in DOMAIN ports : ports[i] = None}
  IN IF empty = {} THEN ports ELSE SubSeq(ports, 1, Min(empty) - 1)

CutBehindFailed ==
  LET failed == {i \in DOMAIN Reached : Reached[i] \notin answering}
  IN IF failed = {} \/ 1 \in failed THEN ports ELSE SubSeq(ports, 1, Min(failed) - 1)

\* ... and only takes out an entry behind one that has got the event.
PortsAfterSending ==
  LET got    == {i \in DOMAIN Reached : Reached[i] \in answering}
      silent == IF got = {} THEN Len(Reached) ELSE Min(got) - 1
  IN [i \in 1 .. silent |-> None] \o Selected(Reached, got)
       \o SubSeq(ports, Len(Reached) + 1, Len(ports))

\* What a subscriber makes of an event
Knows(images, e) ==
  CASE e.type = "IMAGE_ADDED"   -> images \cup {e.image}
    [] e.type = "IMAGE_REMOVED" -> images \ {e.image}
    [] OTHER                    -> images

KnowsBound(modules, e) ==
  CASE e.type = "MODULE_BOUND"                         -> modules \cup {e.image}
    [] e.type \in {"MODULE_REMOVED", "IMAGE_REMOVED"} -> modules \ {e.image}
    [] OTHER                                           -> modules

SendEvent(t) ==
  /\ holder = t
  /\ at[t].events # << >>
  /\ LET e   == Head(at[t].events)
         got == ToSet(Reached) \cap answering
     IN /\ known' = [s \in Subscribers |-> IF s \in got THEN Knows(known[s], e) ELSE known[s]]
        /\ knownBound' = [s \in Subscribers |->
             IF s \in got THEN KnowsBound(knownBound[s], e) ELSE knownBound[s]]
  /\ ports' = PortsAfterSending
  /\ at' = [at EXCEPT ![t].events = Tail(@)]
  /\ UNCHANGED <<holder, state, kept, answering, subscribed, since>>
-----------------------------------------------------------------------------
(* server_dyld_debug_add_event_subscriber() *)

AnnouncedRelocated == {i \in DOMAIN state : state[i] = "RELOCATED"}
Announced == {i \in DOMAIN state : state[i] = "LINKED"}

\* An image on its way out, whose removal has been sent
BeingUnloaded == {at[t].bundle : t \in {u \in Threads : at[u].phase = "unloadUndefined"}}

\* send_past_events()
PastEvents(s) ==
  /\ known' = [known EXCEPT ![s] = DOMAIN state]
  /\ knownBound' = [knownBound EXCEPT ![s] = Announced]

\* The empty head is filled, or an entry is put behind the head.
Added(s) == IF ports[1] = None THEN <<s>> \o Tail(ports) ELSE InsertAt(ports, 2, s)

\* Otherwise the debug thread waits for the lock, or finds it set: refused.
Served(s) ==
  \/ holder = None
  \/ s \in Inconsistent /\ \E t \in Threads : holder = t /\ at[t].phase = "linkHandler"

\* Where it fails, for a message or for memory, the debugger is told so, drops
\* the past events it was sent, and nothing has changed.
Subscribe(s) ==
  /\ s \in answering \ subscribed
  /\ Served(s)
  /\ PastEvents(s)
  /\ ports' = Added(s)
  /\ subscribed' = subscribed \cup {s}
  /\ since' = [since EXCEPT ![s] =
       [bound |-> {i \in DOMAIN state : state[i] = "RELOCATED"}, unloaded |-> BeingUnloaded]]
  /\ UNCHANGED <<program, answering>>

\* A subscriber dies, or its queue fills up and messages to it time out.
Stop(s) ==
  /\ s \in MayStop \cap answering
  /\ HeadMayStop \/ ports[1] # s
  /\ answering' = answering \ {s}
  /\ UNCHANGED <<program, ports, subscribed, told, since>>
-----------------------------------------------------------------------------
(* The program *)

In(t, phase) == holder = t /\ at[t].phase = phase /\ at[t].events = << >>

Enter(t, frame) ==
  /\ holder = None
  /\ at[t] = Out
  /\ holder' = t
  /\ at' = [at EXCEPT ![t] = frame]

Leave(t) == holder' = None /\ at' = [at EXCEPT ![t] = Out]

GoTo(t, phase, events) == at' = [at EXCEPT ![t].phase = phase, ![t].events = events]

\* The lock is given up around user code, and taken again after it.
GiveUp(t, phase) == holder' = None /\ GoTo(t, phase, << >>)

Restates(images, link_state) ==
  [i \in DOMAIN state \cup images |-> IF i \in images THEN link_state ELSE state[i]]

NotLoaded(b) == b \notin DOMAIN state

\* An image is known by its address, which is free again when it is unmapped.
Unmapped(b) == b \notin DOMAIN state \cup kept

\* map_bundle_image() and, for each library it loads, map_library_image()
LinkModule(t, b) ==
  LET new == Selected(LoadsWith[b],
                      {i \in DOMAIN LoadsWith[b] : LoadsWith[b][i] \notin DOMAIN state})
  IN /\ Unmapped(b)
     /\ Enter(t, [phase |-> "link", bundle |-> b, new |-> new, keep |-> FALSE,
                 events |-> Events("IMAGE_ADDED", <<b>> \o new)])
     /\ state' = Restates({b} \cup ToSet(new), "UNLINKED")
     /\ UNCHANGED kept

\* The multiply defined handler is called with the lock held.
LinkHandler(t) ==
  /\ In(t, "link")
  /\ GoTo(t, "linkHandler", << >>)
  /\ UNCHANGED <<holder, state, kept>>

Resolve(t) ==
  LET b == at[t].bundle
  IN /\ In(t, "link") \/ In(t, "linkHandler")
     /\ b \notin Failing
     /\ state' = Restates({b} \cup {l \in ToSet(LoadsWith[b]) : state[l] = "UNLINKED"},
                          "BEING_LINKED")
     /\ GoTo(t, "relocate", << >>)
     /\ UNCHANGED <<holder, kept>>

BundleRemovedOnly(b, new) == <<Event("MODULE_REMOVED", b), Event("IMAGE_REMOVED", b)>>

\* unload_remove_on_error_libraries() and unload_bundle_image()
RemovalEvents(b, new) ==
  Events("IMAGE_REMOVED", new) \o <<Event("MODULE_REMOVED", b), Event("IMAGE_REMOVED", b)>>

BackOut(t) ==
  LET b == at[t].bundle
  IN /\ In(t, "link") \/ In(t, "linkHandler")
     /\ b \in Failing
     /\ GoTo(t, "backOut", RemovalEvents(b, at[t].new))
     /\ UNCHANGED <<holder, state, kept>>

BackedOut(t) ==
  /\ In(t, "backOut")
  /\ state' = Restrict(state, DOMAIN state \ ({at[t].bundle} \cup ToSet(at[t].new)))
  /\ Leave(t)
  /\ UNCHANGED kept

\* relocate_modules_being_linked(): those that still refer to something
\* undefined stay BEING_LINKED, and are sent again the next time.
Relocate(t) ==
  LET beingLinked == {i \in DOMAIN state : state[i] = "BEING_LINKED"}
  IN /\ In(t, "relocate")
     /\ \E partly \in SUBSET beingLinked :
          state' = Restates(beingLinked \ partly, "RELOCATED")
     /\ GoTo(t, "bound", Events("MODULE_BOUND", SetToSeq(beingLinked)))
     /\ UNCHANGED <<holder, kept>>

\* check_and_report_undefineds(), then the calls of link_in_need_modules()
CallUser(t) ==
  /\ In(t, "bound")
  /\ GiveUp(t, IF "BEING_LINKED" \in Range(state) THEN "undefined" ELSE "callouts")
  /\ UNCHANGED <<state, kept>>

\* and the lock taken again
Returns(t, phase) == holder = None /\ at[t].phase = phase

UndefinedReturns(t) ==
  /\ Returns(t, "undefined")
  /\ holder' = t
  /\ GoTo(t, "relocate", << >>)
  /\ UNCHANGED <<state, kept>>

CalloutsReturn(t) ==
  /\ Returns(t, "callouts")
  /\ state' = Restates({i \in DOMAIN state : state[i] = "RELOCATED"}, "LINKED")
  /\ Leave(t)
  /\ UNCHANGED kept

\* _dyld_unlink_module(): first the program is told, with the lock released ...
UnlinkModule(t, b, keep) ==
  /\ b \in DOMAIN state
  /\ state[b] = "LINKED"
  /\ \A u \in Threads : at[u].bundle # b
  /\ Returns(t, "out")
  /\ at' = [at EXCEPT ![t] = [phase |-> "remove", bundle |-> b, new |-> << >>,
                               keep |-> keep, events |-> << >>]]
  /\ UNCHANGED <<holder, state, kept>>

\* ... then the debuggers ...
RemoveReturns(t) ==
  LET b == at[t].bundle
  IN /\ Returns(t, "remove")
     /\ holder' = t
     /\ GoTo(t, "unload", <<Event("MODULE_REMOVED", b)>>
          \o IF at[t].keep THEN << >> ELSE <<Event("IMAGE_REMOVED", b)>>)
     /\ UNCHANGED <<state, kept>>

\* ... then what is undefined now is reported, and only then is it gone.
ReportUndefined(t) ==
  /\ In(t, "unload")
  /\ at[t].bundle \in Referenced
  /\ GiveUp(t, "unloadUndefined")
  /\ UNCHANGED <<state, kept>>

Unload(t) ==
  LET b == at[t].bundle
  IN /\ \/ In(t, "unload") /\ b \notin Referenced
        \/ Returns(t, "unloadUndefined")
     /\ state' = Restrict(state, DOMAIN state \ {b})
     /\ kept' = IF at[t].keep THEN kept \cup {b} ELSE kept
     /\ Leave(t)
-----------------------------------------------------------------------------
ProgramStep(t) ==
  /\ \/ \E b \in Bundles : LinkModule(t, b)
     \/ \E b \in Unlinks, keep \in BOOLEAN : UnlinkModule(t, b, keep)
     \/ LinkHandler(t) \/ Resolve(t) \/ BackOut(t) \/ BackedOut(t) \/ Relocate(t)
     \/ CallUser(t) \/ UndefinedReturns(t) \/ CalloutsReturn(t)
     \/ RemoveReturns(t) \/ ReportUndefined(t) \/ Unload(t)
  /\ UNCHANGED <<ports, answering, subscribed, told, since>>

SubscriberStep(s) == Subscribe(s) \/ Stop(s)

Next == \/ \E t \in Threads : ProgramStep(t) \/ SendEvent(t)
        \/ \E s \in Subscribers : SubscriberStep(s)

Spec == Init /\ [][Next]_vars
-----------------------------------------------------------------------------
Listening == subscribed \cap answering

(* "send_event() sends the specified event to all the event ports": while    *)
(* nobody is inside, a subscriber that takes its messages knows every image  *)
(* there is, however others come and stop, but for one being unloaded.       *)
ImagesAreKnown ==
  holder = None => \A s \in Listening : DOMAIN state \ BeingUnloaded \subseteq known[s]

(* No debugger reads an image whose memory is gone: it was told of the       *)
(* removal, of a failed link's images too; except for an image that was      *)
(* being unloaded when it subscribed (see StaleFromUnload).                  *)
KnownAreMapped ==
  holder = None => \A s \in Listening :
    known[s] \subseteq DOMAIN state \cup kept \cup since[s].unloaded

(* What modules a debugger takes to be bound are those that are: each is     *)
(* sent when it is relocated or with the past events, except one that was    *)
(* between the two when it subscribed (see PastEventsComplete).              *)
BoundAreKnown ==
  holder = None => \A s \in Listening :
    /\ \A i \in DOMAIN state :
         state[i] = "LINKED" => i \in knownBound[s] \cup BeingUnloaded \cup since[s].bound
    /\ knownBound[s] \subseteq known[s]
    /\ \A i \in knownBound[s] \cap DOMAIN state : state[i] # "UNLINKED"

(* "Then all past events are sent to the subscriber."                        *)
PastEventsComplete ==
  holder = None => \A s \in Listening :
    \A i \in DOMAIN state : state[i] = "LINKED" => i \in knownBound[s] \cup BeingUnloaded

(* DYLD_IMAGE_REMOVED "is sent for each image that is removed".              *)
StaleFromUnload ==
  holder = None => \A s \in Listening : known[s] \subseteq DOMAIN state \cup kept \cup BeingUnloaded
=============================================================================
