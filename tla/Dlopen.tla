------------------------------- MODULE Dlopen -------------------------------
(***************************************************************************)
(* dlopen() and dlclose() (cctools/libdyld/dlopen.c): the list of handles, *)
(* their counts and modes, against the modules that are linked.            *)
(*                                                                         *)
(* There is no lock.  The program does not run two calls at once, but the  *)
(* code of the user that a call runs (what linking and unlinking calls,    *)
(* __init, __fini) makes calls itself; these are calls of another caller   *)
(* here, and the steps are what is done between two pieces of user code.   *)
(* The program closes what it has opened, as often as it has opened it.    *)
(***************************************************************************)
EXTENDS Naturals, Sequences, SequencesExt, FiniteSets, FiniteSetsExt, Functions

CONSTANTS Callers,       \* a call and those made from inside it
          None,
          Files,         \* bundles, by device and inode number
          Handles,       \* the memory malloc() takes handles from
          Modules,       \* the entries dyld has for modules, by position
          Modes,         \* of dlopen(): sets of flags
          MaxRefs,       \* bound: how often the program has a handle open
          FiniReopens    \* is a file opened while its handle is being closed?

ASSUME DlopenAssumption ==
  /\ None \notin Callers \cup Handles \cup Files
  /\ Modules \subseteq Nat
  /\ \A mode \in Modes : mode \subseteq {"GLOBAL", "NOLOAD", "UNSHARED"}
  /\ MaxRefs \in Nat \ {0}
  /\ FiniReopens \in BOOLEAN

VARIABLES
  list,     \* dlopen_handles, from its head
  handle,   \* of each handle that is allocated, its file, mode, count, module
  linked,   \* dyld: of each module that is linked, its file
  private,  \* dyld: the modules whose image is private
  refs,     \* how often the program has each handle open
  lost,     \* history: the modules there was no memory for a handle for
  at        \* the calls that are running user code

vars == <<list, handle, linked, private, refs, lost, at>>

Phases == {"out", "link", "init", "fini", "unlink", "loop"}

\* What a handle and a call that is running user code remember
Opened == [file : Files, mode : SUBSET {"LOCAL", "GLOBAL", "UNSHARED"},
           count : Nat, module : Modules]
Running == [phase : Phases, handle : Handles \cup {None}, module : Modules \cup {0},
            file : Files \cup {None}, mode : Modes \cup {{}}]

TypeOK ==
  /\ list \in Seq(Handles) /\ IsInjective(list) /\ ToSet(list) = DOMAIN handle
  /\ handle \in [DOMAIN handle -> Opened]
  /\ DOMAIN linked \subseteq Modules /\ linked \in [DOMAIN linked -> Files]
  /\ private \subseteq DOMAIN linked
  /\ refs \in [Handles -> 0 .. MaxRefs]
  /\ lost \subseteq DOMAIN linked
  /\ at \in [Callers -> Running]

Out == [phase |-> "out", handle |-> None, module |-> 0, file |-> None, mode |-> {}]

Init ==
  /\ list = << >>
  /\ handle = << >>
  /\ linked = << >>
  /\ private = {}
  /\ refs = [h \in Handles |-> 0]
  /\ lost = {}
  /\ at = [c \in Callers |-> Out]

\* A table with one more entry
Extended(f, x, v) == [y \in DOMAIN f \cup {x} |-> IF y = x THEN v ELSE f[y]]
-----------------------------------------------------------------------------
(* dlopen() *)

Calls(c) == at[c] = Out

\* The handle the search comes to first
Existing(f) ==
  LET found == {i \in DOMAIN list : handle[list[i]].file = f}
  IN IF found = {} THEN None ELSE list[Min(found)]

BeingClosed(f) == \E c \in Callers : at[c].phase \in {"fini", "unlink"} /\ at[c].file = f

Opens(c, f, mode) ==
  /\ Calls(c)
  /\ FiniReopens \/ ~BeingClosed(f)

\* An unshared handle is to be skipped, but the search does not go on from it.
SearchForever(c, f, mode) ==
  /\ Opens(c, f, mode)
  /\ "UNSHARED" \notin mode
  /\ Existing(f) # None
  /\ "UNSHARED" \in handle[Existing(f)].mode
  /\ at' = [at EXCEPT ![c] = [Out EXCEPT !.phase = "loop"]]
  /\ UNCHANGED <<list, handle, linked, private, refs, lost>>

Promoted(mode) == (mode \ {"LOCAL"}) \cup {"GLOBAL"}

\* NSMakePrivateModulePublic()
CanPromote(m) == m \in DOMAIN linked /\ m \in private

OpenAgain(c, f, mode) ==
  LET h       == Existing(f)
      promote == "LOCAL" \in handle[h].mode /\ "GLOBAL" \in mode
      opened  == [handle[h] EXCEPT !.count = @ + 1,
                                   !.mode = IF promote THEN Promoted(@) ELSE @]
  IN /\ Opens(c, f, mode)
     /\ "UNSHARED" \notin mode
     /\ h # None
     /\ "UNSHARED" \notin handle[h].mode
     /\ promote => CanPromote(handle[h].module)
     /\ handle' = [handle EXCEPT ![h] = opened]
     /\ private' = IF promote THEN private \ {handle[h].module} ELSE private
     /\ refs[h] < MaxRefs
     /\ refs' = [refs EXCEPT ![h] = @ + 1]
     /\ UNCHANGED <<list, linked, lost, at>>

\* NSLinkModule() of a file without a handle, always private and to return on
\* error: one that cannot be linked changes nothing (DyldLink).
OpenNew(c, f, mode) ==
  /\ Opens(c, f, mode)
  /\ "UNSHARED" \in mode \/ Existing(f) = None
  /\ "NOLOAD" \notin mode
  /\ Modules \ DOMAIN linked # {}
  /\ LET m == Min(Modules \ DOMAIN linked)
     IN /\ linked' = Extended(linked, m, f)
        /\ private' = private \cup {m}
        /\ at' = [at EXCEPT ![c] = [Out EXCEPT !.phase = "link", !.module = m,
                                               !.file = f, !.mode = mode]]
  /\ UNCHANGED <<list, handle, refs, lost>>

\* The flags a handle keeps (and two more, for NSUnLinkModule() later)
Kept(mode) == (mode \cap {"UNSHARED"}) \cup {IF "GLOBAL" \in mode THEN "GLOBAL" ELSE "LOCAL"}

\* The module is linked: it gets a handle, at the head of the list.
AddHandle(c) ==
  LET m == at[c].module
  IN /\ at[c].phase = "link"
     /\ private' = IF "GLOBAL" \in at[c].mode THEN private \ {m} ELSE private
     /\ \E h \in Handles \ DOMAIN handle :
          /\ handle' = Extended(handle, h,
                               [file |-> at[c].file, mode |-> Kept(at[c].mode),
                                count |-> 1, module |-> m])
          /\ list' = <<h>> \o list
          /\ at' = [at EXCEPT ![c] = [@ EXCEPT !.phase = "init", !.handle = h]]
     /\ UNCHANGED <<linked, refs, lost>>

\* No memory for a handle: the module stays.
NoHandle(c) ==
  LET m == at[c].module
  IN /\ at[c].phase = "link"
     /\ private' = IF "GLOBAL" \in at[c].mode THEN private \ {m} ELSE private
     /\ lost' = lost \cup {m}
     /\ at' = [at EXCEPT ![c] = Out]
     /\ UNCHANGED <<list, handle, linked, refs>>

\* __init, if there is one, has returned, and so does dlopen().
InitReturns(c) ==
  /\ at[c].phase = "init"
  /\ refs' = [refs EXCEPT ![at[c].handle] = @ + 1]
  /\ refs[at[c].handle] < MaxRefs
  /\ at' = [at EXCEPT ![c] = Out]
  /\ UNCHANGED <<list, handle, linked, private, lost>>
-----------------------------------------------------------------------------
(* dlclose() *)

InList(h) == h \in ToSet(list)

Uncounted(h) == handle
Discounted(h) == [handle EXCEPT ![h].count = @ - 1]

\* A handle that is not in the list is refused.
Close(c, h) ==
  /\ Calls(c)
  /\ refs[h] > 0
  /\ refs' = [refs EXCEPT ![h] = @ - 1]
  /\ IF InList(h)
       THEN /\ handle' = Discounted(h)
            /\ at' = IF handle'[h].count # 0 THEN at
                     ELSE [at EXCEPT ![c] = [phase |-> "fini", handle |-> h,
                             module |-> handle[h].module, file |-> handle[h].file,
                             mode |-> {}]]
       ELSE UNCHANGED <<handle, at>>
  /\ UNCHANGED <<list, linked, private, lost>>

\* __fini has returned.  NSUnLinkModule() of a module that is gone fails.
FiniReturns(c) ==
  /\ at[c].phase = "fini"
  /\ at' = IF at[c].module \in DOMAIN linked THEN [at EXCEPT ![c].phase = "unlink"]
                                             ELSE [at EXCEPT ![c] = Out]
  /\ UNCHANGED <<list, handle, linked, private, refs, lost>>

WithoutHead(h) == Tail(list)
StillAllocated(h) == handle

Freed(h) == Restrict(handle, DOMAIN handle \ {h})
Without(h) == RemoveAt(list, CHOOSE i \in DOMAIN list : list[i] = h)

\* NSUnLinkModule() has called the user's code and removed the module.
FreeHandle(c) ==
  LET h == at[c].handle
      m == at[c].module
  IN /\ at[c].phase = "unlink"
     /\ linked' = Restrict(linked, DOMAIN linked \ {m})
     /\ private' = private \ {m}
     /\ list' = Without(h)
     /\ handle' = Freed(h)
     /\ at' = [at EXCEPT ![c] = Out]
     /\ UNCHANGED <<refs, lost>>
-----------------------------------------------------------------------------
Open(c) == \E f \in Files, mode \in Modes :
             OpenAgain(c, f, mode) \/ OpenNew(c, f, mode) \/ SearchForever(c, f, mode)

Return(c) == AddHandle(c) \/ NoHandle(c) \/ InitReturns(c) \/ FiniReturns(c) \/ FreeHandle(c)

Next == \E c \in Callers : Open(c) \/ (\E h \in Handles : Close(c, h)) \/ Return(c)

Spec == Init /\ [][Next]_vars
-----------------------------------------------------------------------------
(* The program can use what it has opened: a handle it has is in the list,   *)
(* counted as often as it has it (and once by a dlopen() about to return),   *)
(* and its module is linked, from its file, however calls are nested and     *)
(* the memory of closed handles and modules is used again.  Its mode is what *)
(* dyld does: the symbols are private if it is LOCAL, public once promoted.  *)
OpenHandlesWork ==
  \A h \in Handles :
    LET opening == {c \in Callers : at[c].phase = "init" /\ at[c].handle = h}
    IN refs[h] > 0 \/ opening # {} =>
         /\ InList(h)
         /\ handle[h].count = refs[h] + Cardinality(opening)
         /\ handle[h].module \in DOMAIN linked
         /\ linked[handle[h].module] = handle[h].file
         /\ "LOCAL" \in handle[h].mode <=> handle[h].module \in private
         /\ "GLOBAL" \in handle[h].mode <=> "LOCAL" \notin handle[h].mode

(* Nothing else is left behind: when no call is under way, the modules that  *)
(* are linked are those of the handles, each of one, and each handle is open.*)
NothingLeaks ==
  (\A c \in Callers : at[c].phase \in {"out", "loop"}) =>
    /\ DOMAIN linked \ lost = {handle[h].module : h \in DOMAIN handle}
    /\ Cardinality(DOMAIN linked \ lost) = Len(list)
    /\ \A h \in DOMAIN handle : refs[h] > 0

(* "skip unshared handles": every search of dlopen() comes to an end.        *)
SearchesEnd == \A c \in Callers : at[c].phase # "loop"

(* "We have already created a handle for this path": a second one is not     *)
(* made for a caller that does not want an unshared one.                     *)
OneSharedHandle ==
  \A g, h \in DOMAIN handle :
    handle[g].file = handle[h].file /\ "UNSHARED" \notin handle[g].mode \cup handle[h].mode
      => g = h
=============================================================================
