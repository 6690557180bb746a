------------------------------- MODULE DyldLink -------------------------------
(***************************************************************************)
(* Linking at run time: NSLinkModule(), binding by name and                *)
(* NSUnLinkModule() (cctools/dyld/dyld_libfuncs.c) down to the two lists   *)
(* of symbols, the states of modules and what a failed link backs out      *)
(* (symbols.c, images.c, reloc.c, errors.c).                               *)
(*                                                                         *)
(* The namespace is flat and nothing is prebound; of a module the symbols  *)
(* it defines and those it refers to at once are kept, so that lazy        *)
(* references, full binding, weak and coalesced symbols are left out.      *)
(* RELOCATED stands for that state and those that follow it, which lookups *)
(* do not tell apart; the calls that are made there are in DyldCallouts.   *)
(* The program has no multiply defined handler.                            *)
(* A call that the undefined handler makes is a call of another thread.    *)
(***************************************************************************)
EXTENDS Naturals, Sequences, SequencesExt, FiniteSets, FiniteSetsExt, Functions

CONSTANTS Threads,
          None,
          Executable,
          Bundles,      \* what NSLinkModule() is called for
          Libraries,
          Launched,     \* the libraries loaded at launch, in their order
          Modules,      \* the modules of a library, in their order
          InitModule,   \* the one with its initialisation routine, or None
          Dependents,   \* the libraries a bundle loads, all of them, in order
          Missing,      \* libraries that cannot be loaded
          Defines,      \* the symbols a module defines
          Needs,        \* the symbols it refers to, in their order
          LinkOptions,  \* of NSLinkModule(): <<return on error?, private?>>
          Unlinks,      \* the bundles the program unlinks
          ByName,       \* the symbols the program binds by name
          Handler       \* has the program an undefined handler?

Objects        == Bundles \cup {Executable}
LibraryModules == UNION {ToSet(Modules[l]) : l \in Libraries}
AllModules     == Objects \cup LibraryModules
Symbols        == (UNION {Defines[m] \cup ToSet(Needs[m]) : m \in AllModules}) \cup ByName

\* A file is of one type, a module in one library.  The executable has been
\* linked at launch, and with nothing it refers to, as no library is linked yet.
ASSUME LinkAssumption ==
  /\ None \notin Threads \cup AllModules
  /\ Executable \notin Bundles
  /\ Objects \cap LibraryModules = {}
  /\ Launched \in Seq(Libraries \ Missing)
  /\ \A l \in Libraries : /\ Modules[l] \in Seq(LibraryModules)
                          /\ InitModule[l] \in ToSet(Modules[l]) \cup {None}
  /\ \A k, l \in Libraries : ToSet(Modules[k]) \cap ToSet(Modules[l]) # {} => k = l
  /\ \A b \in Bundles : Dependents[b] \in Seq(Libraries)
  /\ \A m \in AllModules : Needs[m] \in Seq(Symbols) /\ IsFiniteSet(Defines[m])
  /\ Needs[Executable] = << >>
  /\ Unlinks \subseteq Bundles
  /\ LinkOptions \subseteq BOOLEAN \X BOOLEAN
  /\ Handler \in BOOLEAN

VARIABLES
  holder,         \* the thread inside the dynamic linker
  returnOnError,  \* return_on_error
  objects,        \* object_images: a bundle, or None when UNUSED
  private,        \* the bundles whose image is private
  libs,           \* library_images: which, and its remove_on_error
  state,          \* of each module that is loaded, its link state
  initBound,      \* the libraries with init_bound
  undefined,      \* undefined_list
  beingLinked,    \* being_linked_list
  saved,          \* the saved states of the modules that have one
  bound,          \* what the references of the modules loaded point to
  at,             \* where each thread is
  before,         \* history: what there was before a link that may fail
  exited          \* the process has reported an error and exited

lists  == <<undefined, beingLinked>>
images == <<objects, private, libs, state, initBound>>
vars   == <<holder, returnOnError, images, lists, saved, bound, at, before, exited>>

LinkStates == {"UNLINKED", "BEING_LINKED", "RELOCATED"}
Phases     == {"out", "link", "resolve", "relocate", "report", "handler",
               "backOut", "spin", "unlink", "unlinkHandler"}

TypeOK ==
  /\ holder \in Threads \cup {None}
  /\ returnOnError \in BOOLEAN
  /\ ToSet(objects) \subseteq Objects \cup {None}
  /\ private \subseteq Bundles
  /\ \A i \in DOMAIN libs : libs[i] \in [lib : Libraries, remove : BOOLEAN]
  /\ DOMAIN state = (ToSet(objects) \ {None})
                     \cup UNION {ToSet(Modules[libs[i].lib]) : i \in DOMAIN libs}
  /\ Range(state) \subseteq LinkStates
  /\ initBound \subseteq Libraries
  /\ \A i \in DOMAIN undefined : undefined[i] \in [sym : Symbols, remove : BOOLEAN]
  /\ \A i \in DOMAIN beingLinked :
       beingLinked[i] \in [sym : Symbols, remove : BOOLEAN, module : AllModules]
  /\ DOMAIN saved \subseteq AllModules /\ Range(saved) \subseteq LinkStates
  /\ DOMAIN bound = DOMAIN state
  /\ \A t \in Threads : /\ at[t].phase \in Phases
                        /\ at[t].bundle \in Bundles \cup {None}
  /\ exited \in BOOLEAN

Out == [phase |-> "out", bundle |-> None]

Init ==
  /\ holder = None
  /\ returnOnError = FALSE
  /\ objects = <<Executable>>
  /\ private = {}
  /\ libs = [i \in DOMAIN Launched |-> [lib |-> Launched[i], remove |-> FALSE]]
  /\ state = [m \in {Executable} \cup UNION {ToSet(Modules[l]) : l \in ToSet(Launched)}
                |-> IF m = Executable THEN "RELOCATED" ELSE "UNLINKED"]
  /\ initBound = {}
  /\ undefined = << >>
  /\ beingLinked = << >>
  /\ saved = << >>
  /\ bound = [m \in DOMAIN state |-> << >>]
  /\ at = [t \in Threads |-> Out]
  /\ before = << >>
  /\ exited = FALSE
-----------------------------------------------------------------------------
(* Lists and functions, and lookups *)

\* What a list has of these, in its order
Filter(list, these) ==
  LET upTo[i \in 0 .. Len(list)] ==
        IF i = 0 THEN << >>
        ELSE IF list[i] \in these THEN Append(upTo[i - 1], list[i]) ELSE upTo[i - 1]
  IN upTo[Len(list)]

\* f, and g where f says nothing
Over(f, g) == [x \in DOMAIN f \cup DOMAIN g |-> IF x \in DOMAIN f THEN f[x] ELSE g[x]]

Linked(m) == state[m] \in {"BEING_LINKED", "RELOCATED"}

\* The flat namespace: lookup_symbol() goes through the objects, then through
\* the modules of the libraries, to the first one that defines the symbol.
LookupPast(hidden, s) ==
  LET places(l) == {j \in DOMAIN Modules[l] : s \in Defines[Modules[l][j]]}
      os == {i \in DOMAIN objects : /\ objects[i] \notin private \cup hidden \cup {None}
                                    /\ s \in Defines[objects[i]]}
      ls == {i \in DOMAIN libs : places(libs[i].lib) # {}}
  IN IF os # {} THEN objects[Min(os)]
     ELSE IF ls # {} THEN LET l == libs[Min(ls)].lib IN Modules[l][Min(places(l))]
     ELSE None

Lookup(s) == LookupPast({}, s)

\* Looked up while the bundle's own module is UNUSED.
LookupElsewhere(b, s) == LookupPast({b}, s)

LibraryOf(m) == CHOOSE l \in Libraries : m \in ToSet(Modules[l])

\* Somebody linked defines it already: the multiply defined error.
MultiplyDefined(m) ==
  \E s \in Defines[m] :
    LET other == IF m \in Objects THEN LookupElsewhere(m, s) ELSE Lookup(s)
    IN other \notin {m, None} /\ Linked(other)
-----------------------------------------------------------------------------
(* The two lists *)

Entry(s)        == [sym |-> s, remove |-> returnOnError]
LinkedTo(e, m)  == [sym |-> e.sym, remove |-> e.remove, module |-> m]
Unresolved(e)   == [sym |-> e.sym, remove |-> e.remove]
AllRemoved(list) == TRUE
Removable(list) == \A i \in DOMAIN list : list[i].remove

\* add_reference(), for each of the references in turn: what is defined in a
\* linked module is only to be bound, the rest is undefined yet.
References(m) ==
  LET there  == {s \in ToSet(Needs[m]) : Lookup(s) # None /\ Linked(Lookup(s))}
      listed == {s \in there : \E i \in DOMAIN beingLinked :
                   beingLinked[i].sym = s /\ beingLinked[i].module = Lookup(s)}
  IN [undefined   |-> Filter(Needs[m], ToSet(Needs[m]) \ there),
      beingLinked |-> Filter(Needs[m], there \ listed)]

\* The lists with the references of these modules at their ends.  A symbol that
\* two modules of one library refer to is one name, and the program lists it once
\* (add_to_undefined_list compares the pointers); here it is listed for each.
WithUndefined(list, ms) ==
  list \o FlattenSeq([i \in DOMAIN ms |->
    LET new == References(ms[i]).undefined
    IN [j \in DOMAIN new |-> Entry(new[j])]])

WithBeingLinked(list, ms) ==
  list \o FlattenSeq([i \in DOMAIN ms |->
    LET new == References(ms[i]).beingLinked
    IN [j \in DOMAIN new |-> LinkedTo(Entry(new[j]), Lookup(new[j]))]])
-----------------------------------------------------------------------------
(* Loading and unloading *)

IsLoaded(ls, l) == \E i \in DOMAIN ls : ls[i].lib = l

UpTo(list, P(_)) ==
  LET i == SelectInSeq(list, P)
  IN IF i = 0 THEN list ELSE SubSeq(list, 1, i - 1)

\* load_images_libraries() and load_dependent_libraries(), up to a missing one
WithDependents(b, roe) ==
  LET found == UpTo(Dependents[b], LAMBDA l : l \in Missing)
      new   == Filter(found, {l \in Libraries : ~IsLoaded(libs, l)})
  IN libs \o [i \in DOMAIN new |-> [lib |-> new[i], remove |-> roe]]

LoadFails(b) == \E i \in DOMAIN Dependents[b] : Dependents[b][i] \in Missing

\* unload_remove_on_error_libraries(): the first one marked, and all behind it
WithoutRemoveOnError(ls) == UpTo(ls, LAMBDA e : e.remove)

StillMarked(ls) == ls

\* clear_remove_on_error_libraries()
Unmarked(ls) == [i \in DOMAIN ls |-> [ls[i] EXCEPT !.remove = FALSE]]

SlotLast(b) == [objects EXCEPT ![Len(objects)] = b]

\* new_object_image() takes the first UNUSED entry.
Slot(b) ==
  LET unused == {i \in DOMAIN objects : objects[i] = None}
  IN IF unused = {} THEN Append(objects, b)
                    ELSE [objects EXCEPT ![Min(unused)] = b]

WithoutBundle(objs, b) == [i \in DOMAIN objs |-> IF objs[i] = b THEN None ELSE objs[i]]

InLibraries(ls) == UNION {ToSet(Modules[ls[i].lib]) : i \in DOMAIN ls}

\* The images that stay, with the states they are to have
Keep(objs, ls, states) ==
  LET stay == (ToSet(objs) \ {None}) \cup InLibraries(ls)
  IN /\ objects' = objs
     /\ private' = private \cap stay
     /\ state' = Restrict(states, stay)
     /\ initBound' = initBound \cap {ls[i].lib : i \in DOMAIN ls}
     /\ bound' = Restrict(bound, stay)
-----------------------------------------------------------------------------
In(t, phase) == holder = t /\ at[t].phase = phase /\ ~exited

GoTo(t, phase) == at' = [at EXCEPT ![t].phase = phase]

\* set_lock()
Enter(t, phase, b) ==
  /\ ~exited
  /\ at[t] = Out
  /\ holder = None
  /\ holder' = t
  /\ at' = [at EXCEPT ![t] = [phase |-> phase, bundle |-> b]]

\* release_lock() with these libraries: it clears return_on_error and, if that
\* was set, remove_on_error of all of them.
Release(ls) ==
  /\ holder' = None
  /\ returnOnError' = FALSE
  /\ libs' = IF returnOnError THEN Unmarked(ls) ELSE ls

Leave(t, ls) == Release(ls) /\ at' = [at EXCEPT ![t] = Out]

Exit == exited' = TRUE /\ UNCHANGED <<holder, returnOnError, images, lists, saved,
                                      bound, at, before>>

\* What a failed link is to leave as it was
Changeable == [objects |-> Filter(objects, Objects), private |-> private,
               libs |-> libs, state |-> state, bound |-> bound, lists |-> lists]

Callable(t, b) == ~exited /\ at[t] = Out /\ holder = None /\ b \notin ToSet(objects)

\* _dyld_link_module(), to where the libraries are loaded
LinkModule(t, b, roe, priv) ==
  LET ls == WithDependents(b, roe)
  IN /\ Callable(t, b)
     /\ ~LoadFails(b)
     /\ Enter(t, "link", b)
     /\ returnOnError' = roe
     /\ before' = IF roe THEN Changeable ELSE before
     /\ objects' = Slot(b)
     /\ private' = IF priv THEN private \cup {b} ELSE private
     /\ libs' = ls
     /\ state' = Over(state, [m \in {b} \cup InLibraries(ls) |-> "UNLINKED"])
     /\ bound' = Over(bound, [m \in {b} \cup InLibraries(ls) |-> << >>])
     /\ saved' = IF roe THEN << >> ELSE saved
     /\ UNCHANGED <<initBound, lists, exited>>

\* A library is missing: those loaded so far are unloaded, or that is an error.
LinkWithMissing(t, b, roe) ==
  LET ls == WithoutRemoveOnError(WithDependents(b, roe))
  IN /\ Callable(t, b)
     /\ LoadFails(b)
     /\ IF roe
          THEN /\ libs' = ls
               /\ Keep(objects, ls, state)
               /\ saved' = << >>
               /\ UNCHANGED <<holder, returnOnError, lists, at, before, exited>>
          ELSE Exit

\* link_object_module()
LinkObject(t) ==
  LET b == at[t].bundle
  IN /\ In(t, "link")
     /\ b \in private \/ ~MultiplyDefined(b)
     /\ undefined' = WithUndefined(undefined, <<b>>)
     /\ beingLinked' = WithBeingLinked(beingLinked, <<b>>)
     /\ state' = [state EXCEPT ![b] = "BEING_LINKED"]
     /\ GoTo(t, "resolve")
     /\ UNCHANGED <<holder, returnOnError, objects, private, libs, initBound, saved,
                    bound, before, exited>>

PutBackNothing == undefined

\* clear_being_linked_list(TRUE) puts what is not to be removed back.
PutBack ==
  undefined \o Filter([i \in DOMAIN beingLinked |-> Unresolved(beingLinked[i])],
                      [sym : Symbols, remove : {FALSE}])

\* The bundle is unloaded, and not the libraries that were loaded for it.
LinkObjectFails(t) ==
  LET b == at[t].bundle
  IN /\ In(t, "link")
     /\ b \notin private /\ MultiplyDefined(b)
     /\ IF returnOnError
          THEN /\ Keep(WithoutBundle(objects, b), libs, state)
               /\ beingLinked' = << >>
               /\ undefined' = PutBack
               /\ Leave(t, libs)
               /\ UNCHANGED <<saved, before, exited>>
          ELSE Exit
-----------------------------------------------------------------------------
(* resolve_undefineds() *)

Found(i) == Lookup(undefined[i].sym) # None

\* Those whose states are saved before one of them is changed
SavedWith(m) ==
  LET ms == IF m \in Objects THEN {m} ELSE ToSet(Modules[LibraryOf(m)])
      marked == m \notin Objects /\ \E i \in DOMAIN libs :
                  libs[i].lib = LibraryOf(m) /\ libs[i].remove
  IN IF returnOnError /\ ~marked THEN Over(saved, Restrict(state, ms)) ELSE saved

\* The module and, the first time in its library, the one that initialises it
ToLink(m) ==
  IF state[m] # "UNLINKED" THEN << >>
  ELSE LET l    == LibraryOf(m)
           init == InitModule[l]
       IN IF l \notin initBound /\ init \notin {None, m} /\ state[init] = "UNLINKED"
            THEN <<m, init>> ELSE <<m>>

\* The first one that is found; its module is linked, too.  When only the one
\* that initialises the library is multiply defined, the library's init_bound has
\* been set, and that is not backed out.
Resolve(t) ==
  \E i \in DOMAIN undefined :
    LET e     == undefined[i]
        m     == Lookup(e.sym)
        ms    == ToLink(m)
        moved == Append(beingLinked, LinkedTo(e, m))
    IN /\ In(t, "resolve")
       /\ Found(i) /\ \A j \in 1 .. i - 1 : ~Found(j)
       /\ IF \E k \in DOMAIN ms : MultiplyDefined(ms[k])
            THEN IF returnOnError
                   THEN /\ undefined' = RemoveAt(undefined, i)
                        /\ beingLinked' = moved
                        /\ saved' = SavedWith(m)
                        /\ initBound' = IF MultiplyDefined(m) THEN initBound
                                        ELSE initBound \cup {LibraryOf(m)}
                        /\ GoTo(t, "backOut")
                        /\ UNCHANGED <<holder, returnOnError, objects, private, libs,
                                       state, bound, before, exited>>
                   ELSE Exit
            ELSE /\ undefined' = WithUndefined(RemoveAt(undefined, i), ms)
                 /\ beingLinked' = WithBeingLinked(moved, ms)
                 /\ state' = Over([n \in ToSet(ms) |-> "BEING_LINKED"], state)
                 /\ initBound' = IF ms = << >> THEN initBound
                                 ELSE initBound \cup {LibraryOf(m)}
                 /\ saved' = SavedWith(m)
                 /\ UNCHANGED <<holder, returnOnError, objects, private, libs, bound,
                                at, before, exited>>

\* link_in_need_modules(): nothing more is found.
Resolved(t) ==
  /\ In(t, "resolve")
  /\ \A i \in DOMAIN undefined : ~Found(i)
  /\ GoTo(t, IF returnOnError /\ undefined # << >> THEN "backOut" ELSE "relocate")
  /\ UNCHANGED <<holder, returnOnError, images, lists, saved, bound, before, exited>>
-----------------------------------------------------------------------------
(* The backing out of a failed link *)

StatesKept == state

\* clear_state_changes_to_the_modules(), from what was saved
RestoredStates == Over(saved, state)

\* clear_undefined_list(TRUE) removes from the head ...
BackOut(t) ==
  /\ In(t, "backOut")
  /\ Removable(PutBack)
  /\ undefined' = << >>
  /\ beingLinked' = << >>
  /\ Keep(WithoutBundle(objects, at[t].bundle), WithoutRemoveOnError(libs), RestoredStates)
  /\ saved' = << >>
  /\ Leave(t, WithoutRemoveOnError(libs))
  /\ UNCHANGED <<before, exited>>

\* ... and does not go past an entry that is not to be removed.
BackOutForever(t) ==
  /\ In(t, "backOut")
  /\ ~Removable(PutBack)
  /\ state' = RestoredStates
  /\ saved' = << >>
  /\ beingLinked' = << >>
  /\ undefined' = LET i == SelectInSeq(PutBack, LAMBDA e : ~e.remove)
                  IN SubSeq(PutBack, i, Len(PutBack))
  /\ GoTo(t, "spin")
  /\ UNCHANGED <<holder, returnOnError, objects, private, libs, initBound, bound,
                 before, exited>>

Spin(t) == In(t, "spin") /\ UNCHANGED vars
-----------------------------------------------------------------------------
(* relocate_modules_being_linked() *)

AllDefined(m) == \A s \in ToSet(Needs[m]) : Lookup(s) # None

\* Symbol pointers are set from the list, relocation entries by looking up.
BoundAnew(m) ==
  LET listed(s) == {i \in DOMAIN beingLinked : beingLinked[i].sym = s}
      now == IF state[m] = "BEING_LINKED" /\ AllDefined(m) THEN ToSet(Needs[m])
             ELSE {s \in ToSet(Needs[m]) : listed(s) # {}}
  IN Over([s \in now |-> IF listed(s) # {} THEN beingLinked[Max(listed(s))].module
                                           ELSE Lookup(s)],
          bound[m])

Relocate(t) ==
  /\ In(t, "relocate")
  /\ state' = [m \in DOMAIN state |->
                 IF state[m] = "BEING_LINKED" /\ AllDefined(m) THEN "RELOCATED"
                                                               ELSE state[m]]
  /\ bound' = [m \in DOMAIN bound |-> BoundAnew(m)]
  /\ beingLinked' = << >>
  /\ GoTo(t, "report")
  /\ UNCHANGED <<holder, returnOnError, objects, private, libs, initBound, undefined,
                 saved, before, exited>>
-----------------------------------------------------------------------------
(* check_and_report_undefineds() and the end of the operation *)

\* The handler is called with the lock released ...
CallHandler(t) ==
  /\ In(t, "report") \/ (In(t, "unlink") /\ at[t].bundle \notin private)
  /\ undefined # << >>
  /\ IF Handler
       THEN /\ Release(libs)
            /\ at' = [at EXCEPT ![t].phase = IF @ = "report" THEN "handler"
                                                             ELSE "unlinkHandler"]
            /\ UNCHANGED <<objects, private, state, initBound, lists, saved, bound, before,
                           exited>>
       ELSE Exit

\* ... and called again while there is anything undefined.
HandlerReturns(t) ==
  /\ at[t].phase \in {"handler", "unlinkHandler"}
  /\ ~exited
  /\ holder = None
  /\ holder' = t
  /\ GoTo(t, IF at[t].phase = "handler" THEN "report" ELSE "unlink")
  /\ UNCHANGED <<returnOnError, images, lists, saved, bound, before, exited>>

EndOfLink(t) ==
  /\ In(t, "report")
  /\ undefined = << >>
  /\ Leave(t, libs)
  /\ UNCHANGED <<objects, private, state, initBound, lists, saved, bound, before, exited>>

Usable(s) == Lookup(s) # None /\ state[Lookup(s)] = "RELOCATED"

\* bind_symbol_by_name(), of a symbol whose module is not linked
BindByName(t, s) ==
  /\ ~Usable(s)
  /\ Enter(t, "resolve", None)
  /\ undefined' = Append(undefined, Entry(s))
  /\ UNCHANGED <<returnOnError, images, beingLinked, saved, bound, before, exited>>

Referenced(b) ==
  LET refer(s) == {m \in DOMAIN state : s \in ToSet(Needs[m])}
  IN SetToSeq({s \in Defines[b] : \E m \in refer(s) : m \in Objects \/ Linked(m)})

\* unload_bundle_image(): the symbols of a public bundle become undefined.
UnlinkModule(t, b) ==
  /\ b \in ToSet(objects) /\ state[b] = "RELOCATED"
  /\ \A u \in Threads : at[u].bundle # b
  /\ Enter(t, "unlink", b)
  /\ undefined' = IF b \in private THEN undefined
                  ELSE undefined \o [i \in DOMAIN Referenced(b) |-> Entry(Referenced(b)[i])]
  /\ UNCHANGED <<returnOnError, images, beingLinked, saved, bound, before, exited>>

EndOfUnlink(t) ==
  /\ In(t, "unlink")
  /\ at[t].bundle \in private \/ undefined = << >>
  /\ Keep(WithoutBundle(objects, at[t].bundle), libs, state)
  /\ saved' = Restrict(saved, DOMAIN saved \ {at[t].bundle})
  /\ Leave(t, libs)
  /\ UNCHANGED <<lists, before, exited>>
-----------------------------------------------------------------------------
Call(t) == \/ \E b \in Bundles, o \in LinkOptions :
                LinkModule(t, b, o[1], o[2]) \/ LinkWithMissing(t, b, o[1])
           \/ \E s \in ByName : BindByName(t, s)
           \/ \E b \in Unlinks : UnlinkModule(t, b)

Step(t) == \/ LinkObject(t) \/ LinkObjectFails(t) \/ Resolve(t) \/ Resolved(t)
           \/ BackOut(t) \/ BackOutForever(t) \/ Spin(t) \/ Relocate(t)
           \/ CallHandler(t) \/ EndOfLink(t) \/ EndOfUnlink(t)

\* Nobody calls any more, or the process is gone.
Stopped == (exited \/ \A t \in Threads : at[t] = Out) /\ UNCHANGED vars

Next == (\E t \in Threads : Call(t) \/ Step(t) \/ HandlerReturns(t)) \/ Stopped

Spec == Init /\ [][Next]_vars

\* The thread that has the lock is not stopped.
LiveSpec == Spec /\ \A t \in Threads : WF_vars(Step(t))
-----------------------------------------------------------------------------
AllOut == \A t \in Threads : at[t] = Out

\* There is nothing else than in old, but for libraries that are loaded only:
\* not linked, bound to nothing and not marked for the next link to unload.
OnlyLoadedSince(old) ==
  /\ old = [Changeable EXCEPT !.libs  = SubSeq(@, 1, Len(old.libs)),
                              !.state = Restrict(@, DOMAIN old.state),
                              !.bound = Restrict(@, DOMAIN old.bound)]
  /\ \A i \in DOMAIN libs : ~libs[i].remove
  /\ \A m \in DOMAIN state \ DOMAIN old.state : /\ state[m] = "UNLINKED"
                                               /\ bound[m] = << >>

(* A link with NSLINKMODULE_OPTION_RETURN_ON_ERROR that fails, on a library   *)
(* that is missing or in resolving, leaves images, states, lists and pointers *)
(* as they were (dyld_libfuncs.c:778).  When it is the bundle's own symbols   *)
(* that are multiply defined the libraries loaded for it stay                 *)
(* (dyld_libfuncs.c:883-897), and they are all that does.                     *)
FailedLinkBacksOut ==
  [][\A t \in Threads :
       /\ (\E b \in Bundles : LinkWithMissing(t, b, TRUE)) => Changeable' = Changeable
       /\ at'[t] = Out /\ ~exited' =>
            /\ at[t].phase = "backOut" => Changeable' = before
            /\ at[t].phase = "link" => OnlyLoadedSince(before)']_vars

(* The words of _dyld_link_module() are of "all changes to be backed out if   *)
(* an error occurs" (dyld_libfuncs.c:778), the loading of libraries included. *)
AllChangesBackedOut ==
  [][\A t \in Threads : at[t].phase \in {"link", "backOut"} /\ at'[t] = Out /\ ~exited'
       => Changeable' = before]_vars

(* Whatever was backed out or unlinked since: what a module in use points to *)
(* is there, and linked.                                                     *)
BoundStayLoaded ==
  \A m \in DOMAIN state : state[m] = "RELOCATED" =>
    \A s \in DOMAIN bound[m] : /\ bound[m][s] \in DOMAIN state
                               /\ Linked(bound[m][s])

(* When no thread is in dyld every module is linked completely or not at     *)
(* all, and all its references are bound.                                    *)
NothingHalfBound ==
  AllOut /\ ~exited =>
    /\ undefined = << >> /\ beingLinked = << >> /\ ~returnOnError
    /\ \A m \in DOMAIN state :
         /\ state[m] # "BEING_LINKED"
         /\ m \in Objects => state[m] = "RELOCATED"
         /\ state[m] = "RELOCATED" => ToSet(Needs[m]) \subseteq DOMAIN bound[m]

(* While handlers run, what dyld asks them for is what is missing: no symbol *)
(* that a linked module defines, and for each module that is left partly     *)
(* bound (man NSModule.3) one that it needs, marked to stay on the list.     *)
UndefinedIsWhatIsMissing ==
  holder = None /\ ~exited =>
    /\ \A i \in DOMAIN undefined : /\ ~undefined[i].remove
                                   /\ Found(i) => ~Linked(Lookup(undefined[i].sym))
    /\ \A m \in DOMAIN state : state[m] = "BEING_LINKED" =>
         \E i \in DOMAIN undefined : undefined[i].sym \in ToSet(Needs[m])

(* "we have to make sure the module for the initialization routine for this  *)
(* library is fully bound" (link_library_module) as soon as one is linked.   *)
InitRoutineIsLinked ==
  holder = None => \A i \in DOMAIN libs :
    LET l == libs[i].lib
    IN InitModule[l] # None /\ (\E m \in ToSet(Modules[l]) : Linked(m)) =>
         Linked(InitModule[l])

(* "NSLinkModule with LINK_OPTION_RETURN_ON_ERROR could have been called     *)
(* from an undefined error handler" (_dyld_link_module): it returns, too.    *)
LinksReturn == \A t \in Threads : holder = t ~> (holder # t \/ exited)
=============================================================================
