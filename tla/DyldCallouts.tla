----------------------------- MODULE DyldCallouts -----------------------------
(***************************************************************************)
(* The user's functions dyld calls with its lock released: the functions   *)
(* registered for added images, linked modules and removed images          *)
(* (cctools/dyld/register_funcs.c), and the modules' initialisers and      *)
(* terminators (cctools/dyld/mod_init_funcs.c).  Each loop over the images *)
(* gives the lock up around each call and goes on in data that every other *)
(* thread may have changed meanwhile.                                      *)
(*                                                                         *)
(* The lock is the one LinkEditLock promises.  What comes before the       *)
(* calls, the loading, resolving and relocating of an image, is one step   *)
(* inside the lock.  A library has one module here, and no initialisation  *)
(* routine of its own (rc = NULL).  A call that a called function makes    *)
(* into dyld is a call of another thread.                                  *)
(***************************************************************************)
EXTENDS Naturals, Sequences, FiniteSets, Bags, FiniteSetsExt

CONSTANTS Threads,
          None,
          Executable,        \* the first object image
          Bundles,           \* what the program links with NSLinkModule()
          Libraries,         \* the libraries of the launch, in their order
          Unbound,           \* those no module of which is linked at launch
          Needs,             \* the library a bundle needs, or None
          Functions,         \* "add", "link", "remove": the user's functions
          Routines,          \* how many initialisers and terminators has it?
          CallsDuringLaunch  \* may programs link before main()?

VARIABLES
  holder,        \* the thread inside the dynamic linker
  images,        \* "objects", "libs": object_images and library_images
  funcs,         \* the lists of functions, from their heads
  delayModInit,  \* delay_mod_init
  at,            \* where each thread is in which loop
  linked,        \* the bundles there have been
  usable,        \* those whose handle the program has
  exited,        \* has _dyld_mod_term_funcs() been called?
  cleanPass,     \* clean_pass
  calls          \* the calls of the user's functions so far, see Noted

callVars == <<linked, usable, exited, cleanPass>>
vars == <<holder, images, funcs, delayModInit, at, callVars, calls>>

Kinds  == {"objects", "libs"}
States == {"UNLINKED", "RELOCATED", "REGISTERING", "INITIALIZING", "LINKED",
           "UNUSED"}
Phases == {"out", "add", "link", "init", "initDelayed", "walkAdd", "walkLink",
           "terminate", "remove", "exit"}

InLibraries == {Libraries[i] : i \in DOMAIN Libraries}
Needed      == {Needs[b] : b \in Bundles} \ {None}
Images      == {Executable} \cup Bundles \cup InLibraries \cup Needed

\* Bundles, libraries and the executable are different images, and the program
\* is linked with each of its libraries once.
ASSUME CalloutsAssumption ==
  /\ None \notin Threads \cup Bundles \cup InLibraries \cup {Executable}
  /\ Executable \notin Bundles \cup InLibraries \cup Needed
  /\ Bundles \cap (InLibraries \cup Needed) = {}
  /\ Libraries \in Seq(InLibraries)
  /\ \A i, j \in DOMAIN Libraries : Libraries[i] = Libraries[j] => i = j
  /\ DOMAIN Needs = Bundles
  /\ DOMAIN Functions = {"add", "link", "remove"}
  /\ Routines \in [Images -> Nat]
  /\ CallsDuringLaunch \in BOOLEAN

\* An object_image or library_image, its module's bits included.
Entry(image, state, registered) ==
  [image |-> image, state |-> state, registered |-> registered,
   inited |-> FALSE, termed |-> FALSE]

TypeOK ==
  /\ holder \in Threads \cup {None}
  /\ \A k \in Kinds : \A i \in DOMAIN images[k] :
       LET e == images[k][i]
       IN /\ e.image \in Images \cup {None}
          /\ e.state \in States
          /\ {e.registered, e.inited, e.termed} \subseteq BOOLEAN
  /\ \A k \in DOMAIN funcs : \A i \in DOMAIN funcs[k] : funcs[k][i] \in Functions[k]
  /\ delayModInit \in BOOLEAN
  /\ \A t \in Threads : /\ at[t].phase \in Phases
                        /\ at[t].mode \in {"scan", "call", "next"}
                        /\ at[t].list \in Kinds
                        /\ at[t].i \in Nat \ {0}
                        /\ at[t].n \in Nat
  /\ usable \subseteq linked /\ linked \subseteq Bundles
  /\ {exited, cleanPass} \subseteq BOOLEAN
  /\ IsABag(calls)

Idle == [phase |-> "out", mode |-> "scan", list |-> "objects", i |-> 1,
         fn |-> None, n |-> 0, image |-> None, module |-> None]

\* The program is linked and its images are registered; its initialisers wait
\* for the runtime start-off.
Init ==
  /\ holder = None
  /\ images = [objects |-> <<Entry(Executable, "LINKED", TRUE)>>,
               libs |-> [i \in DOMAIN Libraries |->
                           Entry(Libraries[i],
                                 IF Libraries[i] \in Unbound
                                   THEN "UNLINKED" ELSE "LINKED",
                                 TRUE)]]
  /\ funcs = [k \in DOMAIN Functions |-> << >>]
  /\ delayModInit = TRUE
  /\ at = [t \in Threads |-> Idle]
  /\ linked = {}
  /\ usable = {}
  /\ exited = FALSE
  /\ cleanPass = TRUE
  /\ calls = EmptyBag
-----------------------------------------------------------------------------
(* The shape of the loops. *)

Out(t) == at[t].phase = "out"
AllOut == \A t \in Threads : Out(t)

In(t, phases)       == holder = t /\ at[t].phase \in phases
At(t, phases, mode) == In(t, phases) /\ at[t].mode = mode

Here(t) == images[at[t].list]

This(t) == Here(t)[at[t].i]

Entries(t) == {Here(t)[i] : i \in DOMAIN Here(t)}

\* Where the search of the list finds one of the entries wanted.
Hits(t, wanted) == {i \in at[t].i .. Len(Here(t)) : Here(t)[i] \in wanted}

SetHere(t, i, entry) == images' = [images EXCEPT ![at[t].list][i] = entry]

\* set_lock() at the beginning of an operation
Enter(t, frame) ==
  /\ holder = None
  /\ Out(t)
  /\ holder' = t
  /\ at' = [at EXCEPT ![t] = frame]

Leave(t) == holder' = None /\ at' = [at EXCEPT ![t] = Idle]

GoOn(t, i) ==
  /\ at' = [at EXCEPT ![t].mode = "scan", ![t].i = i]
  /\ UNCHANGED <<holder, calls>>

\* Functions for removed images are not noted, and of those for added images and
\* linked modules only that they were called.
Noted(call) == IF \/ call[1] = "remove"
                  \/ call[1] \in {"add", "link"} /\ BagIn(call, calls)
                 THEN calls
                 ELSE calls (+) SetToBag({call})

\* release_lock() and the call
CallOut(t, i, kind, fn, image) ==
  /\ at' = [at EXCEPT ![t].mode = "call", ![t].i = i, ![t].fn = fn,
                      ![t].image = image,
                      ![t].n = IF kind \in {"init", "term"} /\ fn = 1
                                 THEN Routines[image] ELSE @]
  /\ holder' = None
  /\ calls' = Noted(<<kind, fn, image>>)

\* The call returns: set_lock().
Return(t) ==
  /\ at[t].mode = "call"
  /\ holder = None
  /\ holder' = t
  /\ at' = [at EXCEPT ![t].mode = "next"]
  /\ UNCHANGED <<images, funcs, delayModInit, callVars, calls>>

\* The libraries follow the objects.
NextList(t) ==
  /\ at[t].list = "objects"
  /\ at' = [at EXCEPT ![t].list = "libs", ![t].i = 1]
  /\ UNCHANGED <<holder, calls>>

NextPhase(t, phase) ==
  /\ at[t].list = "libs"
  /\ at' = [at EXCEPT ![t].phase = phase, ![t].list = "objects", ![t].i = 1]
  /\ UNCHANGED <<holder, calls>>

AgainFromZero(t) == IF at[t].list = "objects" THEN 0 ELSE at[t].i + 1

\* Objects are searched from the start again, "because objects can be unloaded".
Again(t) == IF at[t].list = "objects" THEN 1 ELSE at[t].i + 1

After(list, f) ==
  LET i == CHOOSE i \in DOMAIN list : list[i] = f
  IN SubSeq(list, i + 1, Len(list))
-----------------------------------------------------------------------------
(* Linking *)

MayLink == CallsDuringLaunch \/ ~delayModInit

\* The library's module is linked; a library that is not there yet is loaded.
WithLibrary(libs, l) ==
  IF \E i \in DOMAIN libs : libs[i].image = l
    THEN [i \in DOMAIN libs |->
            IF libs[i].image = l /\ libs[i].state = "UNLINKED"
              THEN [libs[i] EXCEPT !.state = "RELOCATED"]
              ELSE libs[i]]
    ELSE Append(libs, Entry(l, "RELOCATED", FALSE))

\* new_object_image() reuses an entry that is UNUSED, as it was left.
WithBundle(objects, b) ==
  LET unused == {i \in DOMAIN objects : objects[i].state = "UNUSED"}
      i      == Min(unused)
  IN IF unused = {}
       THEN Append(objects, Entry(b, "RELOCATED", FALSE))
       ELSE [objects EXCEPT ![i].image = b, ![i].state = "RELOCATED"]

LinkModule(t, b) ==
  /\ MayLink
  /\ b \notin linked
  /\ Enter(t, [Idle EXCEPT !.phase = "add", !.module = b])
  /\ linked' = linked \cup {b}
  /\ images' = [objects |-> WithBundle(images.objects, b),
                libs |-> IF Needs[b] = None THEN images.libs
                         ELSE WithLibrary(images.libs, Needs[b])]
  /\ UNCHANGED <<funcs, delayModInit, usable, exited, cleanPass, calls>>

BindModule(t, i) ==
  /\ MayLink
  /\ images.libs[i].state = "UNLINKED"
  /\ images' = [images EXCEPT !.libs[i].state = "RELOCATED"]
  /\ Enter(t, [Idle EXCEPT !.phase = "add"])
  /\ UNCHANGED <<funcs, delayModInit, callVars, calls>>

\* A function goes behind the first one.
Inserted(list, f) == IF list = << >> THEN <<f>> ELSE <<Head(list), f>> \o Tail(list)

Unregistered(k) == {f \in Functions[k] : \A i \in DOMAIN funcs[k] : funcs[k][i] # f}

\* register_func_for_add_image(), register_func_for_link_module()
Register(t, k) ==
  /\ k # "remove"
  /\ \E f \in Unregistered(k) :
       /\ Enter(t, [Idle EXCEPT !.phase = IF k = "add" THEN "walkAdd" ELSE "walkLink",
                                !.fn = f])
       /\ funcs' = [funcs EXCEPT ![k] = Inserted(@, f)]
  /\ UNCHANGED <<images, delayModInit, callVars, calls>>

RegisterRemove(t) ==
  /\ Out(t)
  /\ holder = None
  /\ \E f \in Unregistered("remove") :
       funcs' = [funcs EXCEPT !["remove"] = Inserted(@, f)]
  /\ UNCHANGED <<holder, images, delayModInit, at, callVars, calls>>

\* The new function is called for what is there already.  The call's image is
\* the one of the entry when the lock is released; the program reads it after
\* that, which is the same image unless the entry is reused in between.
Walked(t, e) == IF at[t].phase = "walkAdd" THEN e.state # "UNUSED"
                                           ELSE e.state = "LINKED"

Walk(t) ==
  /\ In(t, {"walkAdd", "walkLink"})
  /\ \/ /\ at[t].mode = "next"
        /\ GoOn(t, at[t].i + 1)
     \/ /\ at[t].mode = "scan"
        /\ LET hits == Hits(t, {e \in Entries(t) : Walked(t, e)})
           IN \/ /\ hits # {}
                 /\ CallOut(t, Min(hits),
                            IF at[t].phase = "walkAdd" THEN "add" ELSE "link",
                            at[t].fn, Here(t)[Min(hits)].image)
              \/ hits = {} /\ NextList(t)
              \/ hits = {} /\ at[t].list = "libs" /\ Leave(t) /\ UNCHANGED calls
  /\ UNCHANGED <<images, funcs, delayModInit, callVars>>
-----------------------------------------------------------------------------
(* call_registered_funcs_for_add_images(), ..._for_linked_modules() *)

AddImages(t) ==
  /\ At(t, {"add"}, "scan")
  /\ LET new == Hits(t, {e \in Entries(t) : e.state # "UNUSED" /\ ~e.registered})
         i   == Min(new)
     IN \/ /\ new # {}
           /\ SetHere(t, i, [Here(t)[i] EXCEPT !.registered = TRUE])
           /\ IF funcs["add"] = << >>
                THEN GoOn(t, i + 1)
                ELSE CallOut(t, i, "add", Head(funcs["add"]), Here(t)[i].image)
        \/ new = {} /\ (NextList(t) \/ NextPhase(t, "link")) /\ UNCHANGED images
  /\ UNCHANGED <<funcs, delayModInit, callVars>>

Registering(e) == [e EXCEPT !.state = "REGISTERING"]

LinkModules(t) ==
  /\ At(t, {"link"}, "scan")
  /\ LET new == Hits(t, {e \in Entries(t) : e.state = "RELOCATED"})
         i   == Min(new)
     IN \/ /\ new # {}
           /\ SetHere(t, i, Registering(Here(t)[i]))
           /\ IF funcs["link"] = << >>
                THEN GoOn(t, i + 1)
                ELSE CallOut(t, i, "link", Head(funcs["link"]), Here(t)[i].image)
        \/ new = {} /\ (NextList(t) \/ NextPhase(t, "init")) /\ UNCHANGED images
  /\ UNCHANGED <<funcs, delayModInit, callVars>>

\* The next function of the list as it is now: an added image's for its header
\* and slide, a linked module's for the address of its state, in the entry.
NextFunction(t) ==
  /\ \E k \in {"add", "link"} :
       /\ At(t, {k}, "next")
       /\ LET later == After(funcs[k], at[t].fn)
          IN IF later = << >>
               THEN GoOn(t, Again(t))
               ELSE CallOut(t, at[t].i, k, Head(later),
                            IF k = "add" THEN at[t].image ELSE This(t).image)
  /\ UNCHANGED <<images, funcs, delayModInit, callVars>>
-----------------------------------------------------------------------------
(* call_module_initializers() *)

MakingDelayed(t) == at[t].phase = "initDelayed"

ToInitialiseNew(t, e) == e.state = "REGISTERING"

ToInitialise(t, e) == \/ e.state = "REGISTERING"
                      \/ MakingDelayed(t) /\ e.state = "LINKED"

\* Are the calls made now?
CallsMade(t) == ~delayModInit \/ MakingDelayed(t)

InitBegunUnmarked(t, e) ==
  [e EXCEPT !.inited = @ \/ (CallsMade(t) /\ at[t].list = "libs")]

\* The modules of libraries have a bit that says they were initialised.
InitBegun(t, e) ==
  [e EXCEPT !.state  = IF @ = "REGISTERING" THEN "INITIALIZING" ELSE @,
            !.inited = @ \/ (CallsMade(t) /\ at[t].list = "libs")]

InitEnded(e) ==
  IF e.state = "INITIALIZING" THEN [e EXCEPT !.state = "LINKED"] ELSE e

InitModule(t) ==
  LET new == Hits(t, {e \in Entries(t) : ToInitialise(t, e)})
      i   == Min(new)
      e   == Here(t)[i]
  IN /\ At(t, {"init", "initDelayed"}, "scan")
     /\ new # {}
     /\ IF CallsMade(t) /\ ~e.inited /\ Routines[e.image] > 0
          THEN /\ SetHere(t, i, InitBegun(t, e))
               /\ CallOut(t, i, "init", 1, e.image)
          ELSE /\ SetHere(t, i, InitEnded(InitBegun(t, e)))
               /\ GoOn(t, i + 1)
     /\ UNCHANGED <<funcs, delayModInit, callVars>>

\* The end of the operation, too: NSLinkModule() returns the module.
InitDone(t) ==
  /\ At(t, {"init", "initDelayed"}, "scan")
  /\ Hits(t, {e \in Entries(t) : ToInitialise(t, e)}) = {}
  /\ \/ /\ NextList(t)
        /\ UNCHANGED <<delayModInit, usable>>
     \/ /\ at[t].list = "libs"
        /\ Leave(t)
        /\ delayModInit' = (delayModInit /\ ~MakingDelayed(t))
        /\ usable' = usable \cup ({at[t].module} \ {None})
        /\ UNCHANGED calls
  /\ UNCHANGED <<images, funcs, linked, exited, cleanPass>>

\* How many routines there are is known from the start, but where they are is
\* read from the entry before each call, which may be another's, or nobody's.
NextInit(t) ==
  /\ At(t, {"init", "initDelayed"}, "next")
  /\ \/ /\ at[t].fn < at[t].n
        /\ CallOut(t, at[t].i, "init", at[t].fn + 1, This(t).image)
        /\ UNCHANGED images
     \/ /\ at[t].fn = at[t].n
        /\ SetHere(t, at[t].i, InitEnded(This(t)))
        /\ GoOn(t, IF MakingDelayed(t) THEN at[t].i + 1 ELSE Again(t))
  /\ UNCHANGED <<funcs, delayModInit, callVars>>

\* _dyld_make_delayed_module_initializer_calls(), from the start of the program
Launch(t) ==
  /\ delayModInit
  /\ \A u \in Threads : ~MakingDelayed(u)
  /\ Enter(t, [Idle EXCEPT !.phase = "initDelayed"])
  /\ UNCHANGED <<images, funcs, delayModInit, callVars, calls>>
-----------------------------------------------------------------------------
(* _dyld_unlink_module() *)

\* The program does not use a handle again that it has given up.
UnlinkModule(t, i) ==
  /\ images.objects[i].image \in usable
  /\ usable' = usable \ {images.objects[i].image}
  /\ Enter(t, [Idle EXCEPT !.phase = "terminate", !.i = i, !.fn = 0,
                           !.image = images.objects[i].image])
  /\ UNCHANGED <<images, funcs, delayModInit, linked, exited, cleanPass, calls>>

\* call_module_terminator_for_object()
Terminate(t) ==
  /\ In(t, {"terminate"})
  /\ \/ /\ at[t].fn < Routines[at[t].image]
        /\ CallOut(t, at[t].i, "term", at[t].fn + 1, at[t].image)
     \/ /\ at[t].fn = Routines[at[t].image]
        /\ at' = [at EXCEPT ![t].phase = "remove", ![t].mode = "scan"]
        /\ UNCHANGED <<holder, calls>>
  /\ UNCHANGED <<images, funcs, delayModInit, callVars>>

UnusedOnly(e) == [e EXCEPT !.state = "UNUSED"]

\* The entry is cleared.
Unused(e) == Entry(None, "UNUSED", FALSE)

\* call_funcs_for_remove_image(), then unload_bundle_image()
RemoveImage(t) ==
  /\ In(t, {"remove"})
  /\ LET later == IF at[t].mode = "scan" THEN funcs["remove"]
                                         ELSE After(funcs["remove"], at[t].fn)
     IN \/ /\ later # << >>
           /\ CallOut(t, at[t].i, "remove", Head(later), at[t].image)
           /\ UNCHANGED images
        \/ /\ later = << >>
           /\ images' = [images EXCEPT !.objects[at[t].i] = Unused(@)]
           /\ Leave(t)
           /\ UNCHANGED calls
  /\ UNCHANGED <<funcs, delayModInit, callVars>>
-----------------------------------------------------------------------------
(* _dyld_mod_term_funcs(), at exit *)

Exit(t) ==
  /\ ~delayModInit
  /\ ~exited
  /\ exited' = TRUE
  /\ Enter(t, [Idle EXCEPT !.phase = "exit"])
  /\ UNCHANGED <<images, funcs, delayModInit, linked, usable, cleanPass, calls>>

ToBeTerminated(e) == e.state = "LINKED" /\ ~e.termed

ExitModules(t) ==
  /\ At(t, {"exit"}, "scan")
  /\ LET left == Hits(t, {e \in Entries(t) : ToBeTerminated(e)})
         i    == Min(left)
     IN \/ /\ left # {}
           /\ SetHere(t, i, [Here(t)[i] EXCEPT !.termed = TRUE])
           /\ IF Routines[Here(t)[i].image] = 0
                THEN GoOn(t, i + 1)
                ELSE CallOut(t, i, "term", 1, Here(t)[i].image)
           /\ UNCHANGED cleanPass
        \/ /\ left = {}
           /\ NextList(t)
           /\ UNCHANGED <<images, cleanPass>>
        \/ /\ left = {}
           /\ ~cleanPass
           /\ NextPhase(t, "exit")
           /\ cleanPass' = TRUE
           /\ UNCHANGED images
        \/ /\ left = {}
           /\ cleanPass
           /\ at[t].list = "libs"
           /\ Leave(t)
           /\ UNCHANGED <<images, cleanPass, calls>>
  /\ UNCHANGED <<funcs, delayModInit, linked, usable, exited>>

NextTermUnnoted(t) ==
  /\ At(t, {"exit"}, "next")
  /\ \/ /\ at[t].fn < at[t].n
        /\ CallOut(t, at[t].i, "term", at[t].fn + 1, This(t).image)
     \/ /\ at[t].fn = at[t].n
        /\ GoOn(t, at[t].i + 1)
  /\ UNCHANGED <<images, funcs, delayModInit, callVars>>

NextTerm(t) ==
  /\ At(t, {"exit"}, "next")
  /\ \/ /\ at[t].fn < at[t].n
        /\ CallOut(t, at[t].i, "term", at[t].fn + 1, This(t).image)
        /\ UNCHANGED <<images, cleanPass>>
     \/ /\ at[t].fn = at[t].n
        /\ cleanPass' = FALSE
        /\ GoOn(t, at[t].i + 1)
        /\ UNCHANGED images
  /\ UNCHANGED <<funcs, delayModInit, linked, usable, exited>>
-----------------------------------------------------------------------------
Call(t) == \/ \E b \in Bundles : LinkModule(t, b)
           \/ \E i \in DOMAIN images.libs : BindModule(t, i)
           \/ \E k \in DOMAIN Functions : Register(t, k)
           \/ RegisterRemove(t)
           \/ Launch(t)
           \/ \E i \in DOMAIN images.objects : UnlinkModule(t, i)
           \/ Exit(t)

\* The rest of an operation, the user's functions included.
Step(t) == \/ Return(t) \/ Walk(t) \/ AddImages(t) \/ LinkModules(t)
           \/ NextFunction(t) \/ InitModule(t) \/ InitDone(t) \/ NextInit(t)
           \/ Terminate(t) \/ RemoveImage(t) \/ ExitModules(t) \/ NextTerm(t)

\* Nobody calls any more.
Stopped == AllOut /\ UNCHANGED vars

Next == (\E t \in Threads : Call(t) \/ Step(t)) \/ Stopped

Spec == Init /\ [][Next]_vars
-----------------------------------------------------------------------------
Loaded == {e \in UNION {{images[k][i] : i \in DOMAIN images[k]} : k \in Kinds} :
             e.state # "UNUSED"}

Called(kind, fn, image) ==
  IF BagIn(<<kind, fn, image>>, calls) THEN calls[<<kind, fn, image>>] ELSE 0

\* A bundle has the entry of object_images that another one had.
EntryReused == Cardinality(linked) >= Len(images.objects)

\* After each routine the entry is read again, which may be another bundle's by
\* now: what is called next is not the routine whose turn it is.
MayBeMistaken(e, n) == e \in Bundles /\ n > 1 /\ EntryReused

(* No initialiser is called twice, whoever links or binds meanwhile and      *)
(* whatever entry an image gets, but for a bundle's second and later ones    *)
(* when entries are reused.                                                  *)
InitialisedOnce ==
  \A e \in Images : \A n \in 1..Routines[e] :
    MayBeMistaken(e, n) \/ Called("init", n, e) <= 1

(* When no thread is in dyld no module is half linked: "module initializers  *)
(* called user can now use module" (images.h) holds of each that was begun.  *)
NothingHalfLinked ==
  AllOut => \A e \in Loaded : e.state \in {"UNLINKED", "LINKED"}

(* ... and after the launch its initialisers were really called: "This makes *)
(* the calls to the module initialization routines that have been delayed"   *)
(* (call_module_initializers).                                               *)
LinkedIsInitialised ==
  AllOut /\ ~delayModInit =>
    \A e \in Loaded : e.state = "LINKED" =>
      \A n \in 1..Routines[e.image] : Called("init", n, e.image) >= 1

(* A function registered for added images has been called for every image    *)
(* in the program, whether the image or the function came first              *)
(* (man/dyld.3, _dyld_register_func_for_add_image).                          *)
AddFunctionsSeeAll ==
  AllOut => \A i \in DOMAIN funcs["add"] : \A e \in Loaded :
              Called("add", funcs["add"][i], e.image) >= 1

(* A function registered for linked modules is called "when a module is      *)
(* bound into the program" and, at first, "for each module that is currently *)
(* bound" (man/dyld.3): of two that overlap, none falls between.             *)
LinkFunctionsSeeAll ==
  AllOut => \A i \in DOMAIN funcs["link"] : \A e \in Loaded :
              e.state = "LINKED" => Called("link", funcs["link"][i], e.image) >= 1

(* The terminators of a module that stays in the program are called once,    *)
(* with the same exception.                                                  *)
TerminatedOnce ==
  \A e \in Images \ (linked \ usable) : \A n \in 1..Routines[e] :
    MayBeMistaken(e, n) \/ Called("term", n, e) <= 1

(* ... and whatever threads do at the same time, no routine of a module that *)
(* stays in the program is called twice, but where it may be mistaken.       *)
CalledOnce == InitialisedOnce /\ TerminatedOnce

(* A module is left UNLINKED or linked completely, its initialisers called.  *)
LinkedCompletely == NothingHalfLinked /\ LinkedIsInitialised

(* At exit "we have make sure we have done a clean pass through them to know *)
(* all of them have been called" (_dyld_mod_term_funcs).                     *)
ExitTerminatesAll ==
  [][\A t \in Threads : at[t].phase = "exit" /\ Out(t)' =>
       \A e \in Loaded : e.state = "LINKED" =>
         \A n \in 1..Routines[e.image] : Called("term", n, e.image) >= 1]_vars

(* The handle NSLinkModule() returns is of a module the "user can now use":   *)
(* "module initializers called" (images.h), by whichever thread.             *)
UsableIsLinked ==
  \A b \in usable : \E e \in Loaded : e.image = b /\ e.state = "LINKED"
=============================================================================
