----------------------------- MODULE Dlopen_proofs -----------------------------
(***************************************************************************)
(* Proofs about Dlopen, for any callers, files, modules and memory.        *)
(***************************************************************************)
EXTENDS Dlopen, SequenceLemmas, FiniteSetTheorems, TLAPS

\* A handle that is allocated has a module of its own, linked from its file,
\* and the mode dyld keeps for it.
HandlesInv ==
  \A h \in DOMAIN handle :
    /\ handle[h].module \in DOMAIN linked \ lost
    /\ linked[handle[h].module] = handle[h].file
    /\ "LOCAL" \in handle[h].mode <=> handle[h].module \in private
    /\ "GLOBAL" \in handle[h].mode <=> "LOCAL" \notin handle[h].mode
    /\ \A g \in DOMAIN handle : handle[g].module = handle[h].module => g = h

Closing(h) == \E c \in Callers : at[c].phase \in {"fini", "unlink"} /\ at[c].handle = h
Opening(h) == \E c \in Callers : at[c].phase = "init" /\ at[c].handle = h

\* A call under way is alone with its module or its handle.
CallsInv ==
  \A c \in Callers :
    /\ at[c].phase = "link" =>
         /\ at[c].module \in (DOMAIN linked \ lost) \cap private
         /\ linked[at[c].module] = at[c].file
         /\ \A h \in DOMAIN handle : handle[h].module # at[c].module
         /\ \A d \in Callers : at[d].phase = "link" /\ at[d].module = at[c].module => d = c
    /\ at[c].phase \in {"init", "fini", "unlink"} =>
         /\ at[c].handle \in DOMAIN handle
         /\ \A d \in Callers :
              at[d].phase \in {"init", "fini", "unlink"} /\ at[d].handle = at[c].handle
                => d = c
    /\ at[c].phase \in {"fini", "unlink"} =>
         /\ at[c].module = handle[at[c].handle].module
         /\ at[c].file = handle[at[c].handle].file

\* A handle is counted as often as it is open, and at zero it is being closed.
CountsInv ==
  \A h \in Handles :
    /\ h \in DOMAIN handle =>
         /\ Opening(h) => handle[h].count = refs[h] + 1
         /\ ~Opening(h) => handle[h].count = refs[h]
         /\ handle[h].count = 0 <=> Closing(h)
    /\ h \notin DOMAIN handle => refs[h] = 0

\* A module that is linked has a handle, is getting one, or could not.
ModulesInv ==
  \A m \in DOMAIN linked \ lost :
    \/ \E h \in DOMAIN handle : handle[h].module = m
    \/ \E c \in Callers : at[c].phase = "link" /\ at[c].module = m

DlopenInv == TypeOK /\ HandlesInv /\ CallsInv /\ CountsInv /\ ModulesInv
USE DlopenAssumption DEF Phases, Opened, Running

LEMMA InitDlopenInv == Init => DlopenInv
<1> SUFFICES ASSUME Init PROVE DlopenInv
  OBVIOUS
<1>1. DOMAIN handle = {} /\ DOMAIN linked = {} /\ ToSet(list) = {}
  BY DEF Init, ToSet
<1>2. TypeOK
  BY <1>1 DEF Init, TypeOK, Out, IsInjective
<1>3. HandlesInv /\ CallsInv /\ CountsInv /\ ModulesInv
  BY <1>1 DEF Init, HandlesInv, CallsInv, CountsInv, ModulesInv, Out
<1> QED
  BY <1>2, <1>3 DEF DlopenInv

(* The search of dlopen() finds a handle of the file that is in the list.    *)
LEMMA ExistingIsInList ==
  ASSUME TypeOK, NEW f, Existing(f) # None
  PROVE  Existing(f) \in DOMAIN handle /\ handle[Existing(f)].file = f
<1> DEFINE found == {i \in DOMAIN list : handle[list[i]].file = f}
<1>1. found \in SUBSET Nat
  BY DEF TypeOK
<1>2. found # {} /\ Existing(f) = list[Min(found)]
  BY DEF Existing
<1>3. Min(found) \in found
  BY <1>1, <1>2, MinIsLeast
<1>4. /\ Min(found) \in DOMAIN list
      /\ handle[list[Min(found)]].file = f
  BY <1>3
<1>5. list[Min(found)] \in ToSet(list)
  BY <1>4 DEF ToSet
<1> QED
  BY <1>2, <1>4, <1>5 DEF TypeOK

(* A search that does not end changes nothing.                               *)
LEMMA SearchForeverStep ==
  ASSUME DlopenInv, NEW c \in Callers, NEW f \in Files, NEW mode \in Modes,
         SearchForever(c, f, mode)
  PROVE  DlopenInv'
<1> USE DEF SearchForever, Opens, Calls, Out, DlopenInv
<1>1. TypeOK'
  <2>1. at' \in [Callers -> Running]
    BY DEF TypeOK
  <2> QED
    BY <2>1 DEF TypeOK
<1>2. /\ at[c].phase = "out" /\ at'[c].phase = "loop"
      /\ \A d \in Callers : d # c => at'[d] = at[d]
      /\ UNCHANGED <<list, handle, linked, private, refs, lost>>
  BY DEF TypeOK
<1>3. HandlesInv' /\ ModulesInv' /\ CountsInv'
  BY <1>2 DEF HandlesInv, ModulesInv, CountsInv, Opening, Closing
<1>4. CallsInv'
  BY <1>2 DEF CallsInv
<1> QED
  BY <1>1, <1>3, <1>4

(* dlopen() of a file that has a handle counts it up, and promotes it.       *)
LEMMA OpenAgainStep ==
  ASSUME DlopenInv, ~FiniReopens, NEW c \in Callers, NEW f \in Files,
         NEW mode \in Modes, OpenAgain(c, f, mode)
  PROVE  DlopenInv'
<1> DEFINE h == Existing(f)
<1>1. h \in DOMAIN handle /\ handle[h].file = f
  BY ExistingIsInList DEF OpenAgain, DlopenInv
<1>2. h \in Handles
  BY <1>1 DEF DlopenInv, TypeOK, ToSet
<1>3. ~Closing(h)
  \* The calls that close h know its file, which is not opened meanwhile.
  BY <1>1 DEF OpenAgain, Opens, BeingClosed, Closing, DlopenInv, CallsInv
<1> DEFINE promote == "LOCAL" \in handle[h].mode /\ "GLOBAL" \in mode
           new == [handle[h] EXCEPT !.count = @ + 1,
                                    !.mode = IF promote THEN Promoted(@) ELSE @]
<1>4. /\ promote => CanPromote(handle[h].module)
      /\ handle' = [handle EXCEPT ![h] = new]
      /\ private' = IF promote THEN private \ {handle[h].module} ELSE private
      /\ refs[h] < MaxRefs /\ refs' = [refs EXCEPT ![h] = @ + 1]
      /\ UNCHANGED <<list, linked, lost, at>>
  BY DEF OpenAgain
<1> HIDE DEF h, promote
<1>b. /\ handle[h] \in Opened
      /\ Promoted(handle[h].mode) \in SUBSET {"LOCAL", "GLOBAL", "UNSHARED"}
      /\ handle[h].count + 1 \in Nat
  BY <1>1 DEF DlopenInv, TypeOK, Promoted
<1>c. new \in Opened
  BY <1>b
<1>d. /\ new.file = handle[h].file
      /\ new.module = handle[h].module
      /\ new.count = handle[h].count + 1
      /\ new.mode = IF promote THEN Promoted(handle[h].mode) ELSE handle[h].mode
  BY <1>b
<1> HIDE DEF new
<1>5. /\ DOMAIN handle' = DOMAIN handle
      /\ \A g \in DOMAIN handle : g # h => handle'[g] = handle[g]
      /\ handle'[h].file = handle[h].file
      /\ handle'[h].module = handle[h].module
      /\ handle'[h].count = handle[h].count + 1
      /\ handle'[h].mode = IF promote THEN Promoted(handle[h].mode) ELSE handle[h].mode
  BY <1>1, <1>4, <1>d DEF DlopenInv, TypeOK
<1>6. TypeOK'
  <2>2. handle' \in [DOMAIN handle' -> Opened]
    BY <1>1, <1>4, <1>c DEF DlopenInv, TypeOK
  <2>3. refs' \in [Handles -> 0 .. MaxRefs]
    BY <1>2, <1>4 DEF DlopenInv, TypeOK
  <2> QED
    BY <1>4, <1>5, <2>2, <2>3 DEF DlopenInv, TypeOK
<1>7. HandlesInv'
  <2>1. "LOCAL" \in handle'[h].mode <=> handle'[h].module \in private'
    BY <1>1, <1>4, <1>5 DEF DlopenInv, HandlesInv, Promoted, promote
  <2>2. "GLOBAL" \in handle'[h].mode <=> "LOCAL" \notin handle'[h].mode
    BY <1>1, <1>5 DEF DlopenInv, HandlesInv, Promoted
  <2>3. \A g \in DOMAIN handle :
          g # h => (handle[g].module \in private' <=> handle[g].module \in private)
    BY <1>1, <1>4 DEF DlopenInv, HandlesInv
  <2> QED
    BY <1>1, <1>4, <1>5, <2>1, <2>2, <2>3 DEF DlopenInv, HandlesInv
<1>8. CallsInv'
  BY <1>1, <1>4, <1>5 DEF DlopenInv, CallsInv
<1>9. CountsInv'
  <2>1. /\ refs[h] \in Nat /\ refs'[h] = refs[h] + 1
        /\ \A g \in Handles : g # h => refs'[g] = refs[g]
    BY <1>2, <1>4 DEF DlopenInv, TypeOK
  <2>2. \A g \in Handles : Opening(g)' <=> Opening(g)
    BY <1>4 DEF Opening
  <2>3. \A g \in Handles : Closing(g)' <=> Closing(g)
    BY <1>4 DEF Closing
  <2>4. /\ Opening(h) => handle[h].count = refs[h] + 1
        /\ ~Opening(h) => handle[h].count = refs[h]
    BY <1>1, <1>2 DEF DlopenInv, CountsInv
  <2>5. /\ Opening(h) => handle'[h].count = refs'[h] + 1
        /\ ~Opening(h) => handle'[h].count = refs'[h]
        /\ handle'[h].count # 0
    BY <1>2, <1>5, <2>1, <2>4
  <2> QED
    BY <1>1, <1>3, <1>5, <2>1, <2>2, <2>3, <2>5 DEF DlopenInv, CountsInv
<1>10. ModulesInv'
  BY <1>4, <1>5 DEF DlopenInv, ModulesInv
<1> QED
  BY <1>6, <1>7, <1>8, <1>9, <1>10 DEF DlopenInv

(* dlopen() of a file without a handle links a module no one else has.       *)
LEMMA OpenNewStep ==
  ASSUME DlopenInv, NEW c \in Callers, NEW f \in Files, NEW mode \in Modes,
         OpenNew(c, f, mode)
  PROVE  DlopenInv'
<1> DEFINE m == Min(Modules \ DOMAIN linked)
<1>1. m \in Modules \ DOMAIN linked
  BY MinIsLeast DEF OpenNew
<1>2. /\ linked' = Extended(linked, m, f)
      /\ private' = private \cup {m}
      /\ at' = [at EXCEPT ![c] = [Out EXCEPT !.phase = "link", !.module = m,
                                             !.file = f, !.mode = mode]]
      /\ at[c].phase = "out"
      /\ UNCHANGED <<list, handle, refs, lost>>
  BY DEF OpenNew, Opens, Calls, Out
<1> HIDE DEF m
<1>3. /\ DOMAIN linked' = DOMAIN linked \cup {m}
      /\ linked'[m] = f
      /\ \A n \in DOMAIN linked : linked'[n] = linked[n]
  BY <1>1, <1>2 DEF Extended
<1>4. /\ at'[c].phase = "link" /\ at'[c].module = m /\ at'[c].file = f
      /\ \A d \in Callers : d # c => at'[d] = at[d]
  BY <1>2 DEF Out, DlopenInv, TypeOK
<1>5. TypeOK'
  <2>1. at' \in [Callers -> Running]
    BY <1>1, <1>2 DEF DlopenInv, TypeOK, Out
  <2>2. linked' \in [DOMAIN linked' -> Files]
    BY <1>2, <1>3 DEF DlopenInv, TypeOK, Extended
  <2> QED
    BY <1>1, <1>2, <1>3, <2>1, <2>2 DEF DlopenInv, TypeOK
<1>6. HandlesInv'
  BY <1>1, <1>2, <1>3 DEF DlopenInv, HandlesInv, TypeOK
<1>7. CallsInv'
  BY <1>1, <1>2, <1>3, <1>4 DEF DlopenInv, CallsInv, HandlesInv, TypeOK
<1>8. CountsInv'
  BY <1>2, <1>4 DEF DlopenInv, CountsInv, Opening, Closing
<1>9. ModulesInv'
  BY <1>2, <1>3, <1>4 DEF DlopenInv, ModulesInv
<1> QED
  BY <1>5, <1>6, <1>7, <1>8, <1>9 DEF DlopenInv
(* The module that is linked gets a handle, at the head of the list.         *)
LEMMA AddHandleStep ==
  ASSUME DlopenInv, NEW c \in Callers, AddHandle(c)
  PROVE  DlopenInv'
<1> DEFINE m == at[c].module
<1>1. /\ at[c].phase = "link"
      /\ private' = IF "GLOBAL" \in at[c].mode THEN private \ {m} ELSE private
      /\ UNCHANGED <<linked, refs, lost>>
  BY DEF AddHandle
<1>2. PICK h \in Handles \ DOMAIN handle :
        /\ handle' = Extended(handle, h,
                              [file |-> at[c].file, mode |-> Kept(at[c].mode),
                               count |-> 1, module |-> m])
        /\ list' = <<h>> \o list
        /\ at' = [at EXCEPT ![c] = [@ EXCEPT !.phase = "init", !.handle = h]]
  BY DEF AddHandle
<1>3. /\ m \in (DOMAIN linked \ lost) \cap private
      /\ linked[m] = at[c].file
      /\ \A g \in DOMAIN handle : handle[g].module # m
      /\ \A d \in Callers : at[d].phase = "link" /\ at[d].module = m => d = c
  BY <1>1 DEF DlopenInv, CallsInv
<1> HIDE DEF m
<1>4. /\ DOMAIN handle' = DOMAIN handle \cup {h}
      /\ \A g \in DOMAIN handle : handle'[g] = handle[g]
      /\ handle'[h] = [file |-> at[c].file, mode |-> Kept(at[c].mode),
                       count |-> 1, module |-> m]
  BY <1>2 DEF Extended
<1>5. /\ at'[c].phase = "init" /\ at'[c].handle = h
      /\ \A d \in Callers : d # c => at'[d] = at[d]
  BY <1>2 DEF DlopenInv, TypeOK
<1>a. /\ handle'[h].module = m
      /\ handle'[h].file = at[c].file
      /\ handle'[h].mode = Kept(at[c].mode)
      /\ handle'[h].count = 1
      /\ h \in Handles /\ h \notin DOMAIN handle
  BY <1>2, <1>4
<1>6. TypeOK'
  <2>1. /\ linked[m] \in Files /\ m \in Modules
        /\ Kept(at[c].mode) \in SUBSET {"LOCAL", "GLOBAL", "UNSHARED"}
    BY <1>3 DEF DlopenInv, TypeOK, Kept
  <2>2. handle' \in [DOMAIN handle' -> Opened]
    BY <1>2, <1>3, <1>4, <2>1 DEF DlopenInv, TypeOK, Extended
  <2>3. list' \in Seq(Handles) /\ IsInjective(list') /\ ToSet(list') = DOMAIN handle'
    <3>1. list \in Seq(Handles) /\ IsInjective(list) /\ h \notin ToSet(list)
      BY <1>a DEF DlopenInv, TypeOK
    <3>2. ToSet(list') = ToSet(list) \cup {h}
      BY <1>2, <1>a, <3>1, ConsElements
    <3>3. list' \in Seq(Handles) /\ IsInjective(list')
      BY <1>2, <1>a, <3>1, ConsElements
    <3> QED
      BY <1>4, <3>2, <3>3 DEF DlopenInv, TypeOK
  <2>4. at' \in [Callers -> Running]
    <3>1. at[c] \in Running /\ at \in [Callers -> Running]
      BY DEF DlopenInv, TypeOK
    <3>2. [at[c] EXCEPT !.phase = "init", !.handle = h] \in Running
      BY <1>a, <3>1
    <3> QED
      BY <1>2, <3>1, <3>2
  <2> QED
    BY <1>1, <2>2, <2>3, <2>4 DEF DlopenInv, TypeOK
<1>7. HandlesInv'
  <2>1. /\ "LOCAL" \in handle'[h].mode <=> "GLOBAL" \notin at[c].mode
        /\ "GLOBAL" \in handle'[h].mode <=> "GLOBAL" \in at[c].mode
    BY <1>a DEF Kept
  <2>2. "LOCAL" \in handle'[h].mode <=> m \in private'
    BY <1>1, <1>3, <2>1
  <2>3. \A g \in DOMAIN handle :
          handle[g].module \in private' <=> handle[g].module \in private
    BY <1>1, <1>3
  <2> QED
    BY <1>1, <1>3, <1>4, <1>a, <2>1, <2>2, <2>3 DEF DlopenInv, HandlesInv
<1>8. CallsInv'
  <2> SUFFICES ASSUME NEW d \in Callers PROVE CallsInv!(d)'
    BY DEF CallsInv
  <2>1. CASE d = c
    BY <1>4, <1>5, <1>a, <2>1 DEF DlopenInv, CallsInv
  <2>2. CASE d # c
    <3>1. /\ at'[d] = at[d] /\ CallsInv!(d)
          /\ at[d].phase \in {"init", "fini", "unlink"} => at[d].handle # h
      BY <1>5, <1>a, <2>2 DEF DlopenInv, CallsInv
    <3>2. at[d].phase = "link" => at[d].module # m
      BY <1>3, <2>2
    <3> QED
      BY <1>1, <1>4, <1>5, <1>a, <2>2, <3>1, <3>2
  <2> QED
    BY <2>1, <2>2
<1>9. CountsInv'
  <2>1. refs[h] = 0 /\ refs'[h] = 0
    BY <1>1, <1>a DEF DlopenInv, CountsInv
  <2>2. Opening(h)'
    BY <1>5 DEF Opening
  <2>3. ~Closing(h)'
    BY <1>5, <1>a DEF DlopenInv, CallsInv, Closing
  <2>4. \A g \in Handles : g # h => (Opening(g)' <=> Opening(g))
    BY <1>1, <1>5 DEF Opening
  <2>5. \A g \in Handles : g # h => (Closing(g)' <=> Closing(g))
    BY <1>1, <1>5 DEF Closing
  <2> QED
    BY <1>1, <1>4, <1>a, <2>1, <2>2, <2>3, <2>4, <2>5 DEF DlopenInv, CountsInv
<1>10. ModulesInv'
  <2> SUFFICES ASSUME NEW n \in DOMAIN linked \ lost
               PROVE  \/ \E g \in DOMAIN handle' : handle'[g].module = n
                      \/ \E d \in Callers : at'[d].phase = "link" /\ at'[d].module = n
    BY <1>1 DEF ModulesInv
  <2>1. CASE n = m
    BY <1>4, <1>a, <2>1
  <2>2. CASE \E g \in DOMAIN handle : handle[g].module = n
    BY <1>4, <2>2
  <2>3. CASE \E d \in Callers : d # c /\ at[d].phase = "link" /\ at[d].module = n
    BY <1>5, <2>3
  <2> QED
    BY <2>1, <2>2, <2>3 DEF DlopenInv, ModulesInv, m
<1> QED
  BY <1>6, <1>7, <1>8, <1>9, <1>10 DEF DlopenInv

(* ... or stays linked without one, if there is no memory.                   *)
LEMMA NoHandleStep ==
  ASSUME DlopenInv, NEW c \in Callers, NoHandle(c)
  PROVE  DlopenInv'
<1> DEFINE m == at[c].module
<1>1. /\ at[c].phase = "link"
      /\ private' = IF "GLOBAL" \in at[c].mode THEN private \ {m} ELSE private
      /\ lost' = lost \cup {m}
      /\ at' = [at EXCEPT ![c] = Out]
      /\ UNCHANGED <<list, handle, linked, refs>>
  BY DEF NoHandle
<1>2. /\ m \in (DOMAIN linked \ lost) \cap private
      /\ \A g \in DOMAIN handle : handle[g].module # m
      /\ \A d \in Callers : at[d].phase = "link" /\ at[d].module = m => d = c
  BY <1>1 DEF DlopenInv, CallsInv
<1>3. /\ at'[c].phase = "out"
      /\ \A d \in Callers : d # c => at'[d] = at[d]
  BY <1>1 DEF DlopenInv, TypeOK, Out
<1>4. TypeOK'
  <2>1. at' \in [Callers -> Running]
    BY <1>1 DEF DlopenInv, TypeOK, Out
  <2> QED
    BY <1>1, <1>2, <2>1 DEF DlopenInv, TypeOK
<1>5. HandlesInv'
  BY <1>1, <1>2 DEF DlopenInv, HandlesInv
<1>6. CallsInv'
  BY <1>1, <1>2, <1>3 DEF DlopenInv, CallsInv
<1>7. CountsInv'
  BY <1>1, <1>3 DEF DlopenInv, CountsInv, Opening, Closing
<1>8. ModulesInv'
  BY <1>1, <1>3 DEF DlopenInv, ModulesInv
<1> QED
  BY <1>4, <1>5, <1>6, <1>7, <1>8 DEF DlopenInv
(* __init returns, and with it dlopen(): the program has the handle.         *)
LEMMA InitReturnsStep ==
  ASSUME DlopenInv, NEW c \in Callers, InitReturns(c)
  PROVE  DlopenInv'
<1>0. PICK h \in DOMAIN handle : h = at[c].handle
  BY DEF InitReturns, DlopenInv, CallsInv
<1>1. /\ at[c].phase = "init"
      /\ refs[h] < MaxRefs /\ refs' = [refs EXCEPT ![h] = @ + 1]
      /\ at' = [at EXCEPT ![c] = Out]
      /\ UNCHANGED <<list, handle, linked, private, lost>>
  BY <1>0 DEF InitReturns
<1>2. /\ h \in Handles
      /\ \A d \in Callers :
           at[d].phase \in {"init", "fini", "unlink"} /\ at[d].handle = h => d = c
  BY <1>0, <1>1 DEF DlopenInv, CallsInv, TypeOK, ToSet
<1>3. /\ at'[c].phase = "out"
      /\ \A d \in Callers : d # c => at'[d] = at[d]
  BY <1>1 DEF DlopenInv, TypeOK, Out
<1>4. /\ refs[h] \in Nat /\ refs'[h] = refs[h] + 1
      /\ \A g \in Handles : g # h => refs'[g] = refs[g]
  BY <1>1, <1>2 DEF DlopenInv, TypeOK
<1>5. TypeOK'
  <2>1. at' \in [Callers -> Running]
    BY <1>1 DEF DlopenInv, TypeOK, Out
  <2>2. refs' \in [Handles -> 0 .. MaxRefs]
    BY <1>1, <1>2 DEF DlopenInv, TypeOK
  <2> QED
    BY <1>1, <2>1, <2>2 DEF DlopenInv, TypeOK
<1>6. HandlesInv'
  BY <1>1 DEF DlopenInv, HandlesInv
<1>7. CallsInv'
  BY <1>1, <1>3 DEF DlopenInv, CallsInv
<1>8. CountsInv'
  <2>1. Opening(h)
    BY <1>1, <1>0 DEF Opening
  <2>a. ~Closing(h)
    BY <1>1, <1>2 DEF Closing
  <2>2. ~Opening(h)'
    BY <1>2, <1>3 DEF Opening
  <2>b. ~Closing(h)'
    BY <1>2, <1>3 DEF Closing
  <2>3. \A g \in Handles : g # h => (Opening(g)' <=> Opening(g))
    BY <1>1, <1>3, <1>0 DEF Opening
  <2>4. \A g \in Handles : g # h => (Closing(g)' <=> Closing(g))
    BY <1>1, <1>3 DEF Closing
  <2> QED
    BY <1>1, <1>2, <1>4, <2>1, <2>a, <2>2, <2>b, <2>3, <2>4
       DEF DlopenInv, CountsInv
<1>9. ModulesInv'
  BY <1>1, <1>3 DEF DlopenInv, ModulesInv
<1> QED
  BY <1>5, <1>6, <1>7, <1>8, <1>9 DEF DlopenInv

(* dlclose() counts a handle down, and goes on to close it at zero.          *)
LEMMA CloseStep ==
  ASSUME DlopenInv, NEW c \in Callers, NEW h \in Handles, Close(c, h)
  PROVE  DlopenInv'
\* A handle the program has is in the list: it is not refused.
<1>1. h \in DOMAIN handle /\ InList(h) /\ refs[h] \in Nat /\ refs[h] # 0
  BY DEF Close, DlopenInv, CountsInv, TypeOK, InList
<1>2. /\ at[c] = Out
      /\ refs' = [refs EXCEPT ![h] = @ - 1]
      /\ handle' = Discounted(h)
      /\ UNCHANGED <<list, linked, private, lost>>
  BY <1>1 DEF Close, Calls
<1>3. /\ DOMAIN handle' = DOMAIN handle
      /\ \A g \in DOMAIN handle : g # h => handle'[g] = handle[g]
      /\ handle'[h].file = handle[h].file
      /\ handle'[h].module = handle[h].module
      /\ handle'[h].mode = handle[h].mode
      /\ handle'[h].count = handle[h].count - 1
  BY <1>1, <1>2 DEF Discounted, DlopenInv, TypeOK
<1>4. /\ refs'[h] = refs[h] - 1
      /\ \A g \in Handles : g # h => refs'[g] = refs[g]
  BY <1>2 DEF DlopenInv, TypeOK
<1>5. at[c].phase = "out"
  BY <1>2 DEF Out
\* It is open, so nobody is closing it yet.
<1>6. ~Closing(h)
  BY <1>1 DEF DlopenInv, CountsInv
\* What it goes on with, if it does
<1>7. \/ handle'[h].count # 0 /\ at' = at
      \/ /\ handle'[h].count = 0
         /\ at' = [at EXCEPT ![c] = [phase |-> "fini", handle |-> h,
                      module |-> handle[h].module, file |-> handle[h].file,
                      mode |-> {}]]
  BY <1>1 DEF Close
<1>8. /\ \A d \in Callers : d # c => at'[d] = at[d]
      /\ handle'[h].count # 0 => at'[c] = at[c]
      /\ handle'[h].count = 0 =>
           /\ at'[c].phase = "fini" /\ at'[c].handle = h
           /\ at'[c].module = handle[h].module /\ at'[c].file = handle[h].file
  BY <1>7 DEF DlopenInv, TypeOK, Out
\* At zero, no dlopen() is about to return it either.
<1>9. handle'[h].count = 0 => ~Opening(h)
  BY <1>1, <1>3 DEF DlopenInv, CountsInv
<1>10. /\ handle[h].count - 1 \in Nat
       /\ Opening(h) => handle'[h].count = refs'[h] + 1
       /\ ~Opening(h) => handle'[h].count = refs'[h]
  BY <1>1, <1>3, <1>4 DEF DlopenInv, CountsInv
<1>11. TypeOK'
  <2>1. handle[h] \in Opened
    BY <1>1 DEF DlopenInv, TypeOK
  <2>2. handle' \in [DOMAIN handle' -> Opened]
    BY <1>1, <1>2, <1>3, <1>10, <2>1 DEF DlopenInv, TypeOK, Discounted
  <2>3. at' \in [Callers -> Running]
    <3>1. at \in [Callers -> Running]
      BY DEF DlopenInv, TypeOK
    <3>2. [phase |-> "fini", handle |-> h, module |-> handle[h].module,
           file |-> handle[h].file, mode |-> {}] \in Running
      BY <2>1
    <3> QED
      BY <1>7, <3>1, <3>2
  <2>4. refs' \in [Handles -> 0 .. MaxRefs]
    BY <1>1, <1>2 DEF DlopenInv, TypeOK
  <2> QED
    BY <1>2, <1>3, <2>2, <2>3, <2>4 DEF DlopenInv, TypeOK
<1>12. HandlesInv'
  BY <1>1, <1>2, <1>3 DEF DlopenInv, HandlesInv
<1>13. CallsInv'
  <2> SUFFICES ASSUME NEW d \in Callers PROVE CallsInv!(d)'
    BY DEF CallsInv
  <2>1. CASE handle'[h].count # 0
    <3>1. \A e \in Callers : at'[e] = at[e]
      BY <1>8, <2>1
    <3> QED
      BY <1>1, <1>2, <1>3, <3>1 DEF DlopenInv, CallsInv
  <2>2. ASSUME handle'[h].count = 0
        PROVE  \A e \in Callers :
                 at[e].phase \in {"init", "fini", "unlink"} => at[e].handle # h
    BY <1>6, <1>9, <2>2 DEF Opening, Closing
  <2>3. CASE handle'[h].count = 0 /\ d = c
    BY <1>1, <1>3, <1>8, <2>2, <2>3
  <2>4. CASE handle'[h].count = 0 /\ d # c
    BY <1>1, <1>2, <1>3, <1>8, <2>2, <2>4 DEF DlopenInv, CallsInv
  <2> QED
    BY <2>1, <2>3, <2>4
<1>14. CountsInv'
  <2>1. \A g \in Handles : Opening(g)' <=> Opening(g)
    BY <1>5, <1>8 DEF Opening
  <2>2. \A g \in Handles : g # h => (Closing(g)' <=> Closing(g))
    BY <1>5, <1>8 DEF Closing
  <2>3. handle'[h].count = 0 <=> Closing(h)'
    BY <1>6, <1>8 DEF Closing
  <2> QED
    BY <1>1, <1>3, <1>4, <1>10, <2>1, <2>2, <2>3 DEF DlopenInv, CountsInv
<1>15. ModulesInv'
  BY <1>2, <1>3, <1>5, <1>8 DEF DlopenInv, ModulesInv
<1> QED
  BY <1>11, <1>12, <1>13, <1>14, <1>15 DEF DlopenInv

(* __fini has returned: its module is there, and is unlinked.                *)
LEMMA FiniReturnsStep ==
  ASSUME DlopenInv, NEW c \in Callers, FiniReturns(c)
  PROVE  DlopenInv'
<1>1. /\ at[c].phase = "fini"
      /\ at[c].module \in DOMAIN linked
  BY DEF FiniReturns, DlopenInv, CallsInv, HandlesInv
<1>2. /\ at' = [at EXCEPT ![c] = [at[c] EXCEPT !.phase = "unlink"]]
      /\ UNCHANGED <<list, handle, linked, private, refs, lost>>
  BY <1>1 DEF FiniReturns, DlopenInv, TypeOK
<1>3. /\ at'[c].phase = "unlink" /\ at'[c].handle = at[c].handle
      /\ at'[c].module = at[c].module /\ at'[c].file = at[c].file
      /\ \A d \in Callers : d # c => at'[d] = at[d]
  BY <1>2 DEF DlopenInv, TypeOK
<1>4. TypeOK'
  <2>1. at' \in [Callers -> Running]
    <3>1. at[c] \in Running /\ at \in [Callers -> Running]
      BY DEF DlopenInv, TypeOK
    <3>2. [at[c] EXCEPT !.phase = "unlink"] \in Running
      BY <3>1
    <3> QED
      BY <1>2, <3>1, <3>2
  <2> QED
    BY <1>2, <2>1 DEF DlopenInv, TypeOK
<1>5. HandlesInv'
  BY <1>2 DEF DlopenInv, HandlesInv
<1>6. CallsInv'
  BY <1>1, <1>2, <1>3 DEF DlopenInv, CallsInv
<1>7. CountsInv'
  <2>1. \A g \in Handles : Opening(g)' <=> Opening(g)
    BY <1>1, <1>3 DEF Opening
  <2>2. \A g \in Handles : Closing(g)' <=> Closing(g)
    BY <1>1, <1>3 DEF Closing
  <2> QED
    BY <1>2, <2>1, <2>2 DEF DlopenInv, CountsInv
<1>8. ModulesInv'
  BY <1>1, <1>2, <1>3 DEF DlopenInv, ModulesInv
<1> QED
  BY <1>4, <1>5, <1>6, <1>7, <1>8 DEF DlopenInv
(* NSUnLinkModule() has removed the module; its handle is freed.             *)
LEMMA FreeHandleStep ==
  ASSUME DlopenInv, NEW c \in Callers, FreeHandle(c)
  PROVE  DlopenInv'
<1>0. PICK h \in DOMAIN handle, m \in DOMAIN linked :
        h = at[c].handle /\ m = at[c].module /\ m = handle[h].module
  BY DEF FreeHandle, DlopenInv, CallsInv, HandlesInv
<1>1. /\ at[c].phase = "unlink"
      /\ linked' = Restrict(linked, DOMAIN linked \ {m})
      /\ private' = private \ {m}
      /\ list' = Without(h)
      /\ handle' = Freed(h)
      /\ at' = [at EXCEPT ![c] = Out]
      /\ UNCHANGED <<refs, lost>>
  BY <1>0 DEF FreeHandle
<1>2. /\ h \in Handles /\ m \notin lost
      /\ \A d \in Callers :
           at[d].phase \in {"init", "fini", "unlink"} /\ at[d].handle = h => d = c
      /\ \A d \in Callers : at[d].phase = "link" => at[d].module # m
      /\ \A g \in DOMAIN handle : handle[g].module = m => g = h
  BY <1>0, <1>1 DEF DlopenInv, CallsInv, HandlesInv, TypeOK, ToSet
<1>3. /\ at'[c].phase = "out"
      /\ \A d \in Callers : d # c => at'[d] = at[d]
  BY <1>1 DEF DlopenInv, TypeOK, Out
<1>4. /\ DOMAIN handle' = DOMAIN handle \ {h}
      /\ \A g \in DOMAIN handle' : handle'[g] = handle[g]
      /\ DOMAIN linked' = DOMAIN linked \ {m}
      /\ \A n \in DOMAIN linked' : linked'[n] = linked[n]
  BY <1>1 DEF Freed, Restrict
<1>b. private' = private \ {m} /\ lost' = lost
  BY <1>1
\* The program does not have it any longer.
<1>5. refs[h] = 0
  <2>1. Closing(h) /\ ~Opening(h)
    BY <1>0, <1>1, <1>2 DEF Closing, Opening
  <2> QED
    BY <1>0, <1>2, <2>1 DEF DlopenInv, CountsInv
<1>6. TypeOK'
  <2>1. at' \in [Callers -> Running]
    BY <1>1 DEF DlopenInv, TypeOK, Out
  <2>2. handle' \in [DOMAIN handle' -> Opened] /\ linked' \in [DOMAIN linked' -> Files]
    BY <1>1, <1>4 DEF DlopenInv, TypeOK, Freed, Restrict
  <2>3. list' \in Seq(Handles) /\ IsInjective(list') /\ ToSet(list') = DOMAIN handle'
    <3>1. list \in Seq(Handles) /\ IsInjective(list) /\ h \in ToSet(list)
      BY <1>0 DEF DlopenInv, TypeOK
    <3>2. PICK i \in DOMAIN list : list[i] = h /\ list' = RemoveAt(list, i)
      BY <1>1, <3>1 DEF Without, ToSet
    <3>3. list' \in Seq(Handles)
      BY <3>1, <3>2, RemoveAtElements
    <3>4. IsInjective(list') /\ ToSet(list') = ToSet(list) \ {h}
      BY <3>1, <3>2, RemoveAtOfInjective
    <3> QED
      BY <1>4, <3>3, <3>4 DEF DlopenInv, TypeOK
  <2> QED
    BY <1>1, <1>2, <1>4, <2>1, <2>2, <2>3 DEF DlopenInv, TypeOK
<1>7. HandlesInv'
  <2> SUFFICES ASSUME NEW g \in DOMAIN handle' PROVE HandlesInv!(g)'
    BY DEF HandlesInv
  <2>1. /\ g \in DOMAIN handle /\ HandlesInv!(g)
        /\ handle'[g] = handle[g] /\ handle[g].module # m
    BY <1>2, <1>4 DEF DlopenInv, HandlesInv
  <2>2. /\ handle[g].module \in DOMAIN linked' \ lost'
        /\ linked'[handle[g].module] = handle[g].file
        /\ handle[g].module \in private <=> handle[g].module \in private'
    BY <1>b, <1>4, <2>1
  <2>3. \A k \in DOMAIN handle' : handle'[k].module = handle[g].module => k = g
    BY <1>4, <2>1
  <2> QED
    BY <2>1, <2>2, <2>3
<1>8. CallsInv'
  <2> SUFFICES ASSUME NEW d \in Callers PROVE CallsInv!(d)'
    BY DEF CallsInv
  <2>1. CASE d = c
    BY <1>3, <2>1
  <2>2. CASE d # c
    <3>1. /\ at'[d] = at[d] /\ CallsInv!(d)
          /\ at[d].phase \in {"init", "fini", "unlink"} => at[d].handle # h
          /\ at[d].phase = "link" => at[d].module # m
      BY <1>2, <1>3, <2>2 DEF DlopenInv, CallsInv
    <3>2. at[d].phase = "link" =>
            /\ at[d].module \in (DOMAIN linked' \ lost') \cap private'
            /\ linked'[at[d].module] = at[d].file
            /\ \A g \in DOMAIN handle' : handle'[g].module # at[d].module
            /\ \A e \in Callers :
                 at'[e].phase = "link" /\ at'[e].module = at[d].module => e = d
      BY <1>b, <1>3, <1>4, <3>1
    <3>3. at[d].phase \in {"init", "fini", "unlink"} =>
            /\ at[d].handle \in DOMAIN handle'
            /\ handle'[at[d].handle] = handle[at[d].handle]
            /\ \A e \in Callers :
                 at'[e].phase \in {"init", "fini", "unlink"}
                 /\ at'[e].handle = at[d].handle => e = d
      BY <1>3, <1>4, <3>1
    <3> QED
      BY <3>1, <3>2, <3>3
  <2> QED
    BY <2>1, <2>2
<1>9. CountsInv'
  <2>1. \A g \in Handles : g # h => (Opening(g)' <=> Opening(g))
    BY <1>1, <1>3 DEF Opening
  <2>2. \A g \in Handles : g # h => (Closing(g)' <=> Closing(g))
    BY <1>0, <1>1, <1>3 DEF Closing
  <2> QED
    BY <1>1, <1>4, <1>5, <2>1, <2>2 DEF DlopenInv, CountsInv
<1>10. ModulesInv'
  BY <1>1, <1>0, <1>3, <1>4 DEF DlopenInv, ModulesInv
<1> QED
  BY <1>6, <1>7, <1>8, <1>9, <1>10 DEF DlopenInv

LEMMA DlopenStep ==
  ASSUME DlopenInv, ~FiniReopens, [Next]_vars
  PROVE  DlopenInv'
<1>1. CASE UNCHANGED vars
  BY <1>1 DEF vars, DlopenInv, TypeOK, HandlesInv, CallsInv, CountsInv, ModulesInv,
              Opening, Closing
<1>2. CASE \E c \in Callers : Open(c)
  BY <1>2, OpenAgainStep, OpenNewStep, SearchForeverStep DEF Open
<1>3. CASE \E c \in Callers, h \in Handles : Close(c, h)
  BY <1>3, CloseStep
<1>4. CASE \E c \in Callers : Return(c)
  BY <1>4, AddHandleStep, NoHandleStep, InitReturnsStep, FiniReturnsStep,
     FreeHandleStep DEF Return
<1> QED
  BY <1>1, <1>2, <1>3, <1>4 DEF Next

(* The inductive invariant of dlopen() and dlclose(), while no __fini opens  *)
(* the file it is called for.                                                *)
THEOREM DlopenInvariant ==
  ASSUME ~FiniReopens
  PROVE  Spec => []DlopenInv
<1>1. DlopenInv /\ [Next]_vars => DlopenInv'
  BY DlopenStep
<1> QED
  BY <1>1, InitDlopenInv, PTL DEF Spec

(* Every variable of dlopen() keeps its type, and the handles in the list    *)
(* are those that are allocated, each once.                                  *)
THEOREM DlopenTypeCorrectness ==
  ASSUME ~FiniReopens
  PROVE  Spec => []TypeOK
<1>1. DlopenInv => TypeOK
  BY DEF DlopenInv
<1> QED
  BY <1>1, DlopenInvariant, PTL

(* The program can use what it has opened: a handle it has is in the list,   *)
(* counted right, and its module is linked, from its file and in its mode.   *)
THEOREM OpenHandlesWorkHolds ==
  ASSUME ~FiniReopens
  PROVE  Spec => []OpenHandlesWork
<1>1. DlopenInv => OpenHandlesWork
  <2> SUFFICES ASSUME DlopenInv, NEW h \in Handles
               PROVE  OpenHandlesWork!(h)
    BY DEF OpenHandlesWork
  <2> DEFINE opening == {c \in Callers : at[c].phase = "init" /\ at[c].handle = h}
  <2>1. h \in DOMAIN handle => handle[h].count = refs[h] + Cardinality(opening)
    <3> SUFFICES ASSUME h \in DOMAIN handle
                 PROVE  handle[h].count = refs[h] + Cardinality(opening)
      OBVIOUS
    <3>1. CASE Opening(h)
      \* One dlopen() at most is about to return it.
      <4>1. \E c \in Callers : opening = {c}
        BY <3>1 DEF Opening, DlopenInv, CallsInv
      <4>2. Cardinality(opening) = 1
        BY <4>1, FS_Singleton
      <4> QED
        BY <3>1, <4>2 DEF DlopenInv, CountsInv
    <3>2. CASE ~Opening(h)
      <4>1. opening = {}
        BY <3>2 DEF Opening
      <4>2. Cardinality(opening) = 0
        BY <4>1, FS_EmptySet
      <4>3. refs[h] \in Nat
        BY DEF DlopenInv, TypeOK
      <4> QED
        BY <3>2, <4>2, <4>3 DEF DlopenInv, CountsInv
    <3> QED
      BY <3>1, <3>2
  <2>2. refs[h] > 0 \/ opening # {} => h \in DOMAIN handle
    BY DEF DlopenInv, CountsInv, CallsInv, TypeOK
  <2>3. h \in DOMAIN handle => InList(h)
    BY DEF DlopenInv, TypeOK, InList
  <2>4. h \in DOMAIN handle =>
          /\ handle[h].module \in DOMAIN linked
          /\ linked[handle[h].module] = handle[h].file
          /\ "LOCAL" \in handle[h].mode <=> handle[h].module \in private
          /\ "GLOBAL" \in handle[h].mode <=> "LOCAL" \notin handle[h].mode
    BY DEF DlopenInv, HandlesInv
  <2> QED
    BY <2>1, <2>2, <2>3, <2>4
<1> QED
  BY <1>1, DlopenInvariant, PTL

(* When no call is under way, what is linked is what the program has open:   *)
(* no module or handle outlives its last dlclose().                          *)
THEOREM NothingLeaksHolds ==
  ASSUME ~FiniReopens
  PROVE  Spec => []NothingLeaks
<1>1. DlopenInv => NothingLeaks
  <2> SUFFICES ASSUME DlopenInv, \A c \in Callers : at[c].phase \in {"out", "loop"}
               PROVE  /\ DOMAIN linked \ lost = {handle[h].module : h \in DOMAIN handle}
                      /\ Cardinality(DOMAIN linked \ lost) = Len(list)
                      /\ \A h \in DOMAIN handle : refs[h] > 0
    BY DEF NothingLeaks
  <2>1. DOMAIN linked \ lost = {handle[h].module : h \in DOMAIN handle}
    BY DEF DlopenInv, ModulesInv, HandlesInv
  <2>2. \A h \in DOMAIN handle : refs[h] > 0
    <3> SUFFICES ASSUME NEW h \in DOMAIN handle PROVE refs[h] > 0
      OBVIOUS
    <3>1. h \in Handles /\ refs[h] \in Nat
      BY DEF DlopenInv, TypeOK, ToSet
    <3>2. ~Closing(h) /\ ~Opening(h)
      BY DEF Closing, Opening
    <3> QED
      BY <3>1, <3>2 DEF DlopenInv, CountsInv
  \* Place by place, the list goes through the modules, through each once.
  <2>3. Cardinality(DOMAIN linked \ lost) = Len(list)
    <3> DEFINE f == [i \in 1 .. Len(list) |-> handle[list[i]].module]
    <3>0. list \in Seq(Handles) /\ ToSet(list) = DOMAIN handle
      BY DEF DlopenInv, TypeOK
    <3>1. /\ Len(list) \in Nat /\ DOMAIN list = 1 .. Len(list)
          /\ \A i \in 1 .. Len(list) : list[i] \in DOMAIN handle
          /\ \A h \in DOMAIN handle : \E i \in 1 .. Len(list) : list[i] = h
      BY <3>0 DEF ToSet
    <3>2. \A i, j \in 1 .. Len(list) : list[i] = list[j] => i = j
      BY <3>1 DEF DlopenInv, TypeOK, IsInjective
    <3>3. f \in [1 .. Len(list) -> DOMAIN linked \ lost]
      BY <3>1 DEF DlopenInv, HandlesInv
    <3>4. \A i, j \in 1 .. Len(list) : f[i] = f[j] => i = j
      BY <3>1, <3>2 DEF DlopenInv, HandlesInv
    <3>5. \A m \in DOMAIN linked \ lost : \E i \in 1 .. Len(list) : f[i] = m
      BY <2>1, <3>1
    <3>6. ExistsBijection(1 .. Len(list), DOMAIN linked \ lost)
      <4> HIDE DEF f
      <4>1. f \in Bijection(1 .. Len(list), DOMAIN linked \ lost)
        BY <3>3, <3>4, <3>5 DEF Bijection, Injection, Surjection, IsInjective
      <4> QED
        BY <4>1 DEF ExistsBijection
    <3>7. IsFiniteSet(1 .. Len(list)) /\ Cardinality(1 .. Len(list)) = Len(list)
      <4>1. 1 \in Int /\ Len(list) \in Int
        BY <3>1
      <4>2. /\ IsFiniteSet(1 .. Len(list))
            /\ Cardinality(1 .. Len(list))
                 = IF 1 > Len(list) THEN 0 ELSE Len(list) - 1 + 1
        BY <4>1, FS_Interval
      <4> QED
        BY <3>1, <4>2
    <3> QED
      BY <3>6, <3>7, FS_Bijection
  <2> QED
    BY <2>1, <2>2, <2>3
<1> QED
  BY <1>1, DlopenInvariant, PTL
================================================================================
