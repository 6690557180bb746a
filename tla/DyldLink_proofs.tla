---------------------------- MODULE DyldLink_proofs ----------------------------
(***************************************************************************)
(* Proofs about DyldLink, for any number of threads, bundles, libraries    *)
(* and symbols, whatever defines and needs what: what is half linked is    *)
(* waited for, and a link that fails leaves nothing behind.                *)
(***************************************************************************)
EXTENDS DyldLink, SequenceLemmas, TLAPS

(* Nothing refers to what the program unlinks, or its links are all private, *)
(* or it has no undefined handler: a symbol of a public bundle on its way    *)
(* out is still found, and bound to, while the handler runs.                 *)
UnlinksSafely ==
  Handler /\ (\E o \in LinkOptions : ~o[2]) =>
    \A b \in Unlinks, m \in AllModules : Defines[b] \cap ToSet(Needs[m]) = {}

LibEntries == [lib : Libraries, remove : BOOLEAN]
Unres      == [sym : Symbols, remove : BOOLEAN]
Linking    == [sym : Symbols, remove : BOOLEAN, module : AllModules]

\* What is loaded with these images
Loaded(objs, ls) == (ToSet(objs) \ {None}) \cup InLibraries(ls)

\* The phases a thread is inside the dynamic linker in
Inside == Phases \ {"out", "handler", "unlinkHandler"}

\* Where the thread is that is inside, and what it links or unlinks
Phase  == IF holder = None THEN "out" ELSE at[holder].phase
Bundle == at[holder].bundle

\* Its own bundle is UNUSED until link_object_module() has looked at the others.
Hidden == IF Phase = "link" THEN {Bundle} ELSE {}

\* Each module that is loaded has a state and a list of what it is bound to.
TypeInv ==
  /\ returnOnError \in BOOLEAN
  /\ objects \in Seq(Objects \cup {None})
  /\ private \subseteq Bundles
  /\ libs \in Seq(LibEntries)
  /\ state \in [Loaded(objects, libs) -> LinkStates]
  /\ initBound \subseteq Libraries
  /\ undefined \in Seq(Unres)
  /\ beingLinked \in Seq(Linking)
  /\ DOMAIN saved \subseteq Loaded(objects, libs)
  /\ saved \in [DOMAIN saved -> LinkStates]
  /\ bound = [m \in Loaded(objects, libs) |-> bound[m]]
  /\ exited \in BOOLEAN

\* One thread is inside, ...
FramesInv ==
  /\ holder \in Threads \cup {None}
  /\ at \in [Threads -> [phase : Phases, bundle : Bundles \cup {None}]]
  /\ \A t \in Threads :
       /\ at[t].phase \in Inside <=> holder = t
       /\ at[t].phase = "out" => at[t].bundle = None
       /\ at[t].phase \in {"link", "unlink", "unlinkHandler"} => at[t].bundle \in Bundles

\* ... and what is to return an error is a link.
ReturnInv ==
  /\ Phase \in {"backOut", "spin"} => returnOnError
  /\ returnOnError => /\ holder # None
                      /\ Bundle \in Bundles
                      /\ Phase # "unlink"

\* An object is UNLINKED until it is linked, which is the first thing done to it.
ObjectsInv ==
  /\ \A o \in ToSet(objects) \ {None} :
       state[o] = "UNLINKED" => Phase = "link" /\ o = Bundle
  /\ \A o \in Objects \cap DOMAIN saved : saved[o] # "UNLINKED"
  /\ returnOnError /\ Phase = "link" => saved = << >>

BaseInv == TypeInv /\ FramesInv /\ ReturnInv /\ ObjectsInv
-----------------------------------------------------------------------------
(* Constants *)

(* Nothing that is loaded is called None, and no object is in a library.     *)
LEMMA LoadedAreModules ==
  ASSUME NEW objs \in Seq(Objects \cup {None}), NEW ls \in Seq(LibEntries)
  PROVE  /\ InLibraries(ls) \subseteq LibraryModules
         /\ Loaded(objs, ls) \subseteq AllModules
         /\ None \notin Loaded(objs, ls)
         /\ \A o \in Objects : o \in Loaded(objs, ls) <=> o \in ToSet(objs)
<1>1. \A i \in DOMAIN ls : ls[i].lib \in Libraries
  <2> TAKE i \in DOMAIN ls
  <2>1. ls[i] \in LibEntries
    OBVIOUS
  <2> QED
    BY <2>1 DEF LibEntries
<1>2. InLibraries(ls) \subseteq LibraryModules
  BY <1>1 DEF InLibraries, LibraryModules
<1>3. ToSet(objs) \subseteq Objects \cup {None}
  BY DEF ToSet
<1>4. None \notin AllModules /\ Objects \cap LibraryModules = {}
  BY LinkAssumption
<1> QED
  BY <1>2, <1>3, <1>4 DEF Loaded, AllModules

(* What is defined, needed or bound by name is a symbol.                     *)
LEMMA SymbolsOfModules ==
  /\ ByName \subseteq Symbols
  /\ \A m \in AllModules : Defines[m] \subseteq Symbols /\ ToSet(Needs[m]) \subseteq Symbols
<1>1. ByName \subseteq Symbols
  BY DEF Symbols
<1>2. ASSUME NEW m \in AllModules
      PROVE  Defines[m] \subseteq Symbols /\ ToSet(Needs[m]) \subseteq Symbols
  <2>1. Defines[m] \cup ToSet(Needs[m]) \in {Defines[n] \cup ToSet(Needs[n]) : n \in AllModules}
    OBVIOUS
  <2> QED
    BY <2>1 DEF Symbols
<1> QED
  BY <1>1, <1>2

(* A module is in one library.                                               *)
LEMMA LibraryOfModule ==
  ASSUME NEW l \in Libraries, NEW m \in ToSet(Modules[l])
  PROVE  LibraryOf(m) = l
<1>1. \A k \in Libraries : m \in ToSet(Modules[k]) => k = l
  BY LinkAssumption
<1> QED
  BY <1>1 DEF LibraryOf
(* What the recursion of Filter computes, place by place.                    *)
LEMMA FilterRecursion ==
  ASSUME NEW S, NEW s \in Seq(S), NEW P
  PROVE  \E f : /\ f = [i \in 0 .. Len(s) |->
                          IF i = 0 THEN << >>
                          ELSE IF s[i] \in P THEN Append(f[i - 1], s[i]) ELSE f[i - 1]]
                /\ Filter(s, P) = f[Len(s)]
<1> DEFINE step(g, i) == IF i = 0 THEN << >>
                         ELSE IF s[i] \in P THEN Append(g[i - 1], s[i]) ELSE g[i - 1]
           upTo(n)    == \E g : g = [i \in 0 .. n |-> step(g, i)]
           bad        == {n \in Nat : ~upTo(n)}
<1>1. upTo(0)
  <2> DEFINE g == [i \in 0 .. 0 |-> << >>]
  <2>1. g = [i \in 0 .. 0 |-> step(g, i)]
    OBVIOUS
  <2> QED
    BY <2>1
<1>2. ASSUME NEW n \in Nat, upTo(n)
      PROVE  upTo(n + 1)
  <2>1. PICK g : g = [i \in 0 .. n |-> step(g, i)]
    BY <1>2
  <2> DEFINE h == [i \in 0 .. n + 1 |-> IF i = n + 1 THEN step(g, i) ELSE g[i]]
  <2>2. ASSUME NEW i \in 0 .. n + 1
        PROVE  h[i] = step(h, i)
    <3>1. CASE i = 0
      BY <2>1, <3>1
    <3>2. CASE i # 0
      <4>1. i - 1 \in 0 .. n /\ i - 1 # n + 1 /\ i - 1 \in 0 .. n + 1
        BY <3>2
      <4>2. h[i - 1] = g[i - 1]
        BY <4>1
      <4>3. step(h, i) = step(g, i)
        BY <4>2
      <4>4. h[i] = step(g, i)
        <5>1. CASE i = n + 1
          BY <5>1
        <5>2. CASE i # n + 1
          <6>1. i \in 0 .. n
            BY <5>2
          <6>2. h[i] = g[i]
            BY <5>2
          <6>3. g[i] = step(g, i)
            BY <2>1, <6>1
          <6> QED
            BY <6>2, <6>3
        <5> QED
          BY <5>1, <5>2
      <4> QED
        BY <4>3, <4>4
    <3> QED
      BY <3>1, <3>2
  <2>3. h = [i \in 0 .. n + 1 |-> step(h, i)]
    <3> HIDE DEF step
    <3> QED
      BY <2>2
  <2> QED
    BY <2>3
<1> HIDE DEF upTo
<1>3. bad = {}
  <2> SUFFICES ASSUME bad # {} PROVE FALSE
    OBVIOUS
  <2> DEFINE m == Min(bad)
  <2>1. m \in bad /\ \A k \in bad : m <= k
    BY MinIsLeast
  <2> HIDE DEF m
  <2>2. m \in Nat /\ m # 0
    BY <1>1, <2>1
  <2>3. m - 1 \in Nat /\ ~(m <= m - 1) /\ (m - 1) + 1 = m
    BY <2>2
  <2>4. upTo(m - 1)
    BY <2>1, <2>3
  <2> QED
    BY <1>2, <2>1, <2>3, <2>4
<1>4. Len(s) \in Nat
  OBVIOUS
<1>5. upTo(Len(s))
  BY <1>3, <1>4
<1> DEFINE f == CHOOSE g : g = [i \in 0 .. Len(s) |-> step(g, i)]
<1>6. f = [i \in 0 .. Len(s) |-> step(f, i)]
  <2> HIDE DEF step
  <2> QED
    BY <1>5 DEF upTo
<1>7. Filter(s, P) = f[Len(s)]
  BY DEF Filter
<1> HIDE DEF f
<1> QED
  BY <1>6, <1>7

(* Filter keeps the elements that are wanted, and no others.                 *)
LEMMA FilterElements ==
  ASSUME NEW S, NEW s \in Seq(S), NEW P
  PROVE  /\ Filter(s, P) \in Seq(S \cap P)
         /\ ToSet(Filter(s, P)) = ToSet(s) \cap P
<1>1. PICK f : /\ f = [i \in 0 .. Len(s) |->
                        IF i = 0 THEN << >>
                        ELSE IF s[i] \in P THEN Append(f[i - 1], s[i]) ELSE f[i - 1]]
               /\ Filter(s, P) = f[Len(s)]
  BY FilterRecursion
<1>2. Len(s) \in Nat /\ DOMAIN s = 1 .. Len(s)
  OBVIOUS
<1> DEFINE part(n) == {s[i] : i \in 1 .. n} \cap P
           good(n) == f[n] \in Seq(S \cap P) /\ ToSet(f[n]) = part(n)
           bad     == {n \in 0 .. Len(s) : ~good(n)}
<1>3. good(0)
  <2>1. f[0] = << >>
    BY <1>1, <1>2
  <2>2. f[0] \in Seq(S \cap P)
    BY <2>1
  <2>3. ToSet(f[0]) = {} /\ part(0) = {}
    BY <2>1 DEF ToSet
  <2> QED
    BY <2>2, <2>3
<1>4. ASSUME NEW n \in 1 .. Len(s), good(n - 1)
      PROVE  good(n)
  <2>1. n \in 0 .. Len(s) /\ n # 0 /\ n - 1 \in 0 .. Len(s) /\ s[n] \in S
    BY <1>2
  <2>2. f[n] = IF s[n] \in P THEN Append(f[n - 1], s[n]) ELSE f[n - 1]
    BY <1>1, <2>1
  <2>3. \A i \in 1 .. n : i = n \/ i \in 1 .. n - 1
    BY <1>2
  <2>4. n \in 1 .. n /\ 1 .. n - 1 \subseteq 1 .. n
    BY <1>2
  <2>5. CASE s[n] \in P
    <3>1. /\ Append(f[n - 1], s[n]) \in Seq(S \cap P)
          /\ ToSet(Append(f[n - 1], s[n])) = ToSet(f[n - 1]) \cup {s[n]}
      BY <1>4, <2>1, <2>5, AppendElements
    <3>2. part(n) = part(n - 1) \cup {s[n]}
      BY <2>3, <2>4, <2>5
    <3> HIDE DEF part
    <3> QED
      BY <1>4, <2>2, <2>5, <3>1, <3>2
  <2>6. CASE s[n] \notin P
    <3>1. part(n) = part(n - 1)
      BY <2>3, <2>4, <2>6
    <3> HIDE DEF part
    <3> QED
      BY <1>4, <2>2, <2>6, <3>1
  <2> QED
    BY <2>5, <2>6
<1> HIDE DEF good
<1>5. bad = {}
  <2> SUFFICES ASSUME bad # {} PROVE FALSE
    OBVIOUS
  <2> DEFINE m == Min(bad)
  <2>1. bad \in SUBSET Nat
    BY <1>2
  <2>2. m \in bad /\ \A k \in bad : m <= k
    BY <2>1, MinIsLeast
  <2> HIDE DEF m
  <2>3. m \in 1 .. Len(s)
    BY <1>2, <1>3, <2>2
  <2>4. m - 1 \in 0 .. Len(s) /\ ~(m <= m - 1)
    BY <1>2, <2>3
  <2>5. good(m - 1)
    BY <2>2, <2>4
  <2> QED
    BY <1>4, <2>2, <2>3, <2>5
<1>6. good(Len(s))
  BY <1>2, <1>5
<1>7. part(Len(s)) = ToSet(s) \cap P
  BY <1>2 DEF ToSet
<1> QED
  BY <1>1, <1>6, <1>7 DEF good

(* An element at the end is kept or not.                                     *)
LEMMA FilterAppend ==
  ASSUME NEW S, NEW s \in Seq(S), NEW e \in S, NEW P
  PROVE  Filter(Append(s, e), P) = IF e \in P THEN Append(Filter(s, P), e)
                                              ELSE Filter(s, P)
<1> DEFINE r == Append(s, e)
           n == Len(s)
<1>1. /\ r \in Seq(S) /\ Len(r) = n + 1 /\ r[n + 1] = e
      /\ \A i \in 1 .. n : r[i] = s[i]
      /\ n \in Nat
  OBVIOUS
<1> HIDE DEF r
<1>2. PICK f : /\ f = [i \in 0 .. n |->
                        IF i = 0 THEN << >>
                        ELSE IF s[i] \in P THEN Append(f[i - 1], s[i]) ELSE f[i - 1]]
               /\ Filter(s, P) = f[n]
  BY FilterRecursion
<1>3. PICK g : /\ g = [i \in 0 .. Len(r) |->
                        IF i = 0 THEN << >>
                        ELSE IF r[i] \in P THEN Append(g[i - 1], r[i]) ELSE g[i - 1]]
               /\ Filter(r, P) = g[Len(r)]
  BY <1>1, FilterRecursion
<1> HIDE DEF n
<1> DEFINE bad == {i \in 0 .. n : g[i] # f[i]}
<1>4. bad = {}
  <2> SUFFICES ASSUME bad # {} PROVE FALSE
    OBVIOUS
  <2> DEFINE m == Min(bad)
  <2>1. bad \in SUBSET Nat
    BY <1>1
  <2>2. m \in bad /\ \A k \in bad : m <= k
    BY <2>1, MinIsLeast
  <2> HIDE DEF m
  <2>3. m \in 0 .. n /\ m \in 0 .. Len(r) /\ g[m] # f[m]
    BY <1>1, <2>2
  <2>4. CASE m = 0
    BY <1>2, <1>3, <2>3, <2>4
  <2>5. CASE m # 0
    <3>1. m - 1 \in 0 .. n /\ ~(m <= m - 1) /\ m \in 1 .. n
      BY <1>1, <2>3, <2>5
    <3>2. g[m - 1] = f[m - 1] /\ r[m] = s[m]
      BY <1>1, <2>2, <3>1
    <3>3. f[m] = IF s[m] \in P THEN Append(f[m - 1], s[m]) ELSE f[m - 1]
      BY <1>2, <2>3, <2>5
    <3>4. g[m] = IF r[m] \in P THEN Append(g[m - 1], r[m]) ELSE g[m - 1]
      BY <1>3, <2>3, <2>5
    <3> QED
      BY <2>3, <3>2, <3>3, <3>4
  <2> QED
    BY <2>4, <2>5
<1>5. g[n] = f[n]
  BY <1>1, <1>4
<1>6. g[n + 1] = IF r[n + 1] \in P THEN Append(g[n], r[n + 1]) ELSE g[n]
  <2>1. n + 1 \in 0 .. Len(r) /\ n + 1 # 0 /\ (n + 1) - 1 = n
    BY <1>1
  <2> QED
    BY <1>3, <2>1
<1> QED
  BY <1>1, <1>2, <1>3, <1>5, <1>6 DEF r

-----------------------------------------------------------------------------
(* Lookups *)

\* Where a library defines a symbol, ...
PlacesIn(l, s) == {j \in DOMAIN Modules[l] : s \in Defines[Modules[l][j]]}

\* ... and where the objects do
ObjectPlaces(objs, out, s) ==
  {i \in DOMAIN objs : objs[i] \notin out \cup {None} /\ s \in Defines[objs[i]]}

LibraryPlaces(ls, s) == {i \in DOMAIN ls : PlacesIn(ls[i].lib, s) # {}}

\* LookupPast, of these images
LookupAt(objs, out, ls, s) ==
  IF ObjectPlaces(objs, out, s) # {} THEN objs[Min(ObjectPlaces(objs, out, s))]
  ELSE IF LibraryPlaces(ls, s) # {}
    THEN Modules[ls[Min(LibraryPlaces(ls, s))].lib]
                [Min(PlacesIn(ls[Min(LibraryPlaces(ls, s))].lib, s))]
    ELSE None

\* What is gone through
Searched(objs, out, ls) == (ToSet(objs) \ (out \cup {None})) \cup InLibraries(ls)

(* A lookup depends on the images, and on which of them are hidden.          *)
LEMMA LookupPastAt ==
  ASSUME NEW H, NEW s
  PROVE  LookupPast(H, s) = LookupAt(objects, private \cup H, libs, s)
BY DEF LookupPast, LookupAt, ObjectPlaces, LibraryPlaces, PlacesIn

(* It finds what defines the symbol if anything does that is gone through.   *)
LEMMA LookupFinds ==
  ASSUME NEW objs \in Seq(Objects \cup {None}), NEW out, NEW ls \in Seq(LibEntries), NEW s
  PROVE  LET m == LookupAt(objs, out, ls, s)
         IN /\ m # None => m \in Searched(objs, out, ls) /\ s \in Defines[m]
            /\ m = None => \A n \in Searched(objs, out, ls) : s \notin Defines[n]
<1> DEFINE m == LookupAt(objs, out, ls, s)
           os == ObjectPlaces(objs, out, s)
           lp == LibraryPlaces(ls, s)
<1>1. /\ DOMAIN objs \in SUBSET Nat
      /\ DOMAIN ls \in SUBSET Nat
      /\ os \in SUBSET Nat /\ lp \in SUBSET Nat
  BY DEF ObjectPlaces, LibraryPlaces
<1>2. \A i \in DOMAIN ls : ls[i].lib \in Libraries
  <2> TAKE i \in DOMAIN ls
  <2>1. ls[i] \in LibEntries
    OBVIOUS
  <2> QED
    BY <2>1 DEF LibEntries
<1>3. None \notin LibraryModules
  BY LinkAssumption DEF AllModules
<1>4. CASE os # {}
  <2>1. Min(os) \in os
    BY <1>1, <1>4, MinIsLeast
  <2>2. m = objs[Min(os)]
    BY <1>4 DEF LookupAt
  <2>3. m \in ToSet(objs) \ (out \cup {None}) /\ s \in Defines[m]
    BY <2>1, <2>2 DEF ObjectPlaces, ToSet
  <2> QED
    BY <2>3 DEF Searched
<1>5. CASE os = {} /\ lp # {}
  <2> DEFINE k == Min(lp)
             l == ls[k].lib
             j == Min(PlacesIn(l, s))
  <2>1. k \in lp
    BY <1>1, <1>5, MinIsLeast
  <2>2. k \in DOMAIN ls /\ PlacesIn(l, s) # {}
    BY <2>1 DEF LibraryPlaces
  <2>3. l \in Libraries /\ Modules[l] \in Seq(LibraryModules)
    BY <1>2, <2>2, LinkAssumption
  <2>4. m = Modules[l][j]
    BY <1>5 DEF LookupAt
  <2> HIDE DEF m, k, l
  <2>5. PlacesIn(l, s) \in SUBSET Nat
    BY <2>3 DEF PlacesIn
  <2>6. j \in PlacesIn(l, s)
    BY <2>2, <2>5, MinIsLeast
  <2> HIDE DEF j
  <2>7. j \in DOMAIN Modules[l] /\ s \in Defines[m]
    BY <2>4, <2>6 DEF PlacesIn
  <2>8. m \in ToSet(Modules[l]) /\ m \in LibraryModules
    BY <2>3, <2>4, <2>7 DEF ToSet
  <2>9. m \in InLibraries(ls)
    BY <2>2, <2>8 DEF InLibraries, l
  <2> QED
    BY <1>3, <2>7, <2>8, <2>9 DEF Searched, m
<1>6. CASE os = {} /\ lp = {}
  <2>1. m = None
    BY <1>6 DEF LookupAt
  <2>2. ASSUME NEW n \in ToSet(objs) \ (out \cup {None})
        PROVE  s \notin Defines[n]
    BY <1>6 DEF ObjectPlaces, ToSet
  <2>3. ASSUME NEW n \in InLibraries(ls)
        PROVE  s \notin Defines[n]
    <3>1. PICK i \in DOMAIN ls : n \in ToSet(Modules[ls[i].lib])
      BY DEF InLibraries
    <3>2. PlacesIn(ls[i].lib, s) = {}
      BY <1>6 DEF LibraryPlaces
    <3> QED
      BY <3>1, <3>2 DEF PlacesIn, ToSet
  <2> QED
    BY <2>1, <2>2, <2>3 DEF Searched
<1> QED
  BY <1>4, <1>5, <1>6

(* More libraries at the end do not change what is found, nor do objects     *)
(* that do not define the symbol or are hidden before and after.             *)
LEMMA LookupStays ==
  ASSUME NEW objs, NEW out, NEW ls \in Seq(LibEntries), NEW s,
         NEW objs2, NEW out2, NEW ls2 \in Seq(LibEntries),
         LookupAt(objs, out, ls, s) # None,
         ObjectPlaces(objs2, out2, s) = ObjectPlaces(objs, out, s),
         \A i \in ObjectPlaces(objs, out, s) : objs2[i] = objs[i],
         ObjectPlaces(objs, out, s) \in SUBSET Nat,
         Len(ls) <= Len(ls2),
         \A i \in 1 .. Len(ls) : ls2[i].lib = ls[i].lib
  PROVE  LookupAt(objs2, out2, ls2, s) = LookupAt(objs, out, ls, s)
<1> DEFINE os == ObjectPlaces(objs, out, s)
<1>1. CASE os # {}
  <2>1. Min(os) \in os
    BY <1>1, MinIsLeast
  <2> QED
    BY <1>1, <2>1 DEF LookupAt
<1>2. CASE os = {}
  <2> DEFINE lp  == LibraryPlaces(ls, s)
             lp2 == LibraryPlaces(ls2, s)
  <2>1. /\ Len(ls) \in Nat /\ DOMAIN ls = 1 .. Len(ls)
        /\ Len(ls2) \in Nat /\ DOMAIN ls2 = 1 .. Len(ls2)
    OBVIOUS
  <2>2. lp # {}
    BY <1>2 DEF LookupAt
  <2>3. lp \subseteq lp2
    BY <2>1 DEF LibraryPlaces
  <2>4. \A i \in lp2 : i <= Len(ls) => i \in lp
    BY <2>1 DEF LibraryPlaces
  <2>5. lp \in SUBSET Nat /\ lp2 \in SUBSET Nat /\ \A i \in lp : i \in 1 .. Len(ls)
    BY <2>1 DEF LibraryPlaces
  <2> HIDE DEF lp, lp2
  <2>6. Min(lp) \in lp /\ \A i \in lp : Min(lp) <= i
    BY <2>2, <2>5, MinIsLeast
  <2>7. Min(lp2) \in lp2 /\ \A i \in lp2 : Min(lp2) <= i
    BY <2>2, <2>3, <2>5, MinIsLeast
  <2>8. Min(lp2) <= Min(lp) /\ Min(lp) \in 1 .. Len(ls) /\ Min(lp2) \in Nat
    BY <2>3, <2>5, <2>6, <2>7
  <2>9. Min(lp2) \in lp
    BY <2>1, <2>4, <2>7, <2>8
  <2>10. Min(lp2) = Min(lp)
    BY <2>5, <2>6, <2>8, <2>9
  <2>11. ls2[Min(lp)].lib = ls[Min(lp)].lib
    BY <2>8
  <2> QED
    BY <1>2, <2>2, <2>3, <2>10, <2>11 DEF LookupAt, lp, lp2
<1> QED
  BY <1>1, <1>2
-----------------------------------------------------------------------------
(* The two lists *)

(* A list made from another one, element by element                          *)
LEMMA MadeFrom ==
  ASSUME NEW S, NEW T, NEW s \in Seq(S), NEW r,
         r = [i \in DOMAIN s |-> r[i]], \A i \in DOMAIN s : r[i] \in T
  PROVE  r \in Seq(T) /\ DOMAIN r = DOMAIN s /\ Len(r) = Len(s)
<1>1. Len(s) \in Nat /\ DOMAIN s = 1 .. Len(s)
  OBVIOUS
<1>2. r \in [1 .. Len(s) -> T]
  BY <1>1
<1> QED
  BY <1>1, <1>2

\* What is defined in a linked module
There(s) == Lookup(s) # None /\ Linked(Lookup(s))

(* What add_reference() finds is loaded.                                     *)
LEMMA LookupType ==
  ASSUME TypeInv, NEW H, NEW s
  PROVE  LET m == LookupPast(H, s)
         IN /\ m # None => /\ m \in Searched(objects, private \cup H, libs)
                           /\ m \in Loaded(objects, libs)
                           /\ m \in AllModules
                           /\ state[m] \in LinkStates
                           /\ s \in Defines[m]
            /\ m = None => \A n \in Searched(objects, private \cup H, libs) : s \notin Defines[n]
<1> DEFINE m == LookupPast(H, s)
<1>1. objects \in Seq(Objects \cup {None}) /\ libs \in Seq(LibEntries)
  BY DEF TypeInv
<1>2. m = LookupAt(objects, private \cup H, libs, s)
  BY LookupPastAt
<1> DEFINE out == private \cup H
           at2 == LookupAt(objects, out, libs, s)
<1> HIDE DEF m
<1>3. /\ m # None => m \in Searched(objects, private \cup H, libs) /\ s \in Defines[m]
      /\ m = None => \A n \in Searched(objects, private \cup H, libs) : s \notin Defines[n]
  <2> HIDE DEF out
  <2>1. /\ at2 # None => at2 \in Searched(objects, out, libs) /\ s \in Defines[at2]
        /\ at2 = None => \A n \in Searched(objects, out, libs) : s \notin Defines[n]
    BY <1>1, LookupFinds
  <2> HIDE DEF at2
  <2>2. m = at2
    BY <1>2 DEF at2, out
  <2> QED
    BY <2>1, <2>2 DEF out
<1>4. /\ Searched(objects, private \cup H, libs) \subseteq Loaded(objects, libs)
      /\ Loaded(objects, libs) \subseteq AllModules
  BY <1>1, LoadedAreModules DEF Searched, Loaded
<1>5. \A n \in Loaded(objects, libs) : state[n] \in LinkStates
  BY DEF TypeInv
<1> HIDE DEF out, at2
<1> QED
  BY <1>3, <1>4, <1>5 DEF m

(* The references of a module are added as undefined unless they are there.  *)
LEMMA UndefinedReferences ==
  ASSUME TypeInv, NEW list \in Seq(Unres), NEW ms \in Seq(AllModules)
  PROVE  /\ WithUndefined(list, ms) \in Seq(Unres)
         /\ \A e : e \in ToSet(WithUndefined(list, ms)) <=>
              \/ e \in ToSet(list)
              \/ \E k \in DOMAIN ms : \E s \in ToSet(Needs[ms[k]]) : ~There(s) /\ e = Entry(s)
<1> DEFINE new(k)  == References(ms[k]).undefined
           made(k) == [j \in DOMAIN new(k) |-> Entry(new(k)[j])]
           all     == [k \in DOMAIN ms |-> made(k)]
<1>1. ASSUME NEW k \in DOMAIN ms
      PROVE  /\ made(k) \in Seq(Unres)
             /\ \A e : e \in ToSet(made(k)) <=>
                  \E s \in ToSet(Needs[ms[k]]) : ~There(s) /\ e = Entry(s)
  <2> DEFINE n == Needs[ms[k]]
             P == ToSet(n) \ {s \in ToSet(n) : There(s)}
  <2>1. n \in Seq(Symbols)
    BY LinkAssumption
  <2>2. new(k) = Filter(n, P)
    BY DEF References, There
  <2> HIDE DEF n, P
  <2>3. Filter(n, P) \in Seq(Symbols \cap P) /\ ToSet(Filter(n, P)) = ToSet(n) \cap P
    BY <2>1, FilterElements
  <2> DEFINE f == Filter(n, P)
             r == [j \in DOMAIN f |-> Entry(f[j])]
  <2>4. f \in Seq(Symbols) /\ ToSet(f) = P
    BY <2>3 DEF P
  <2> HIDE DEF f
  <2>5. \A j \in DOMAIN f : r[j] \in Unres
    BY <2>4 DEF Entry, Unres, TypeInv
  <2>6. r \in Seq(Unres) /\ DOMAIN r = DOMAIN f
    <3>1. r = [j \in DOMAIN f |-> r[j]]
      OBVIOUS
    <3> HIDE DEF r
    <3> QED
      BY <2>4, <2>5, <3>1, MadeFrom
  <2>7. \A e : e \in ToSet(r) <=> \E s \in ToSet(f) : e = Entry(s)
    BY DEF ToSet
  <2>8. made(k) = r
    BY <2>2 DEF f
  <2> QED
    BY <2>4, <2>6, <2>7, <2>8 DEF P, n
<1> HIDE DEF made
<1>2. all \in Seq(Seq(Unres)) /\ DOMAIN all = DOMAIN ms
  <2>1. all = [k \in DOMAIN ms |-> all[k]]
    OBVIOUS
  <2>2. \A k \in DOMAIN ms : all[k] \in Seq(Unres)
    BY <1>1
  <2> HIDE DEF all
  <2> QED
    BY <2>1, <2>2, MadeFrom
<1>3. WithUndefined(list, ms) = list \o FlattenSeq(all)
  BY DEF WithUndefined, made
<1>4. \A k \in DOMAIN ms : all[k] = made(k)
  OBVIOUS
<1> HIDE DEF all
<1>5. /\ FlattenSeq(all) \in Seq(Unres)
      /\ ToSet(FlattenSeq(all)) = UNION {ToSet(all[k]) : k \in DOMAIN all}
  BY <1>2, FlattenElements
<1>6. /\ WithUndefined(list, ms) \in Seq(Unres)
      /\ ToSet(WithUndefined(list, ms)) = ToSet(list) \cup ToSet(FlattenSeq(all))
  BY <1>3, <1>5, ConcatElements
<1>7. \A e : e \in ToSet(FlattenSeq(all)) <=> \E k \in DOMAIN ms : e \in ToSet(made(k))
  BY <1>2, <1>4, <1>5
<1> QED
  BY <1>1, <1>6, <1>7

(* Those that are there are to be bound to the module that defines them.     *)
LEMMA BeingLinkedReferences ==
  ASSUME TypeInv, NEW list \in Seq(Linking), NEW ms \in Seq(AllModules)
  PROVE  /\ WithBeingLinked(list, ms) \in Seq(Linking)
         /\ \A e \in ToSet(WithBeingLinked(list, ms)) :
              \/ e \in ToSet(list)
              \/ \E s \in Symbols : There(s) /\ e = LinkedTo(Entry(s), Lookup(s))
         /\ ToSet(list) \subseteq ToSet(WithBeingLinked(list, ms))
<1> DEFINE new(k)  == References(ms[k]).beingLinked
           made(k) == [j \in DOMAIN new(k) |-> LinkedTo(Entry(new(k)[j]), Lookup(new(k)[j]))]
           all     == [k \in DOMAIN ms |-> made(k)]
<1>1. ASSUME NEW k \in DOMAIN ms
      PROVE  /\ made(k) \in Seq(Linking)
             /\ \A e \in ToSet(made(k)) :
                  \E s \in Symbols : There(s) /\ e = LinkedTo(Entry(s), Lookup(s))
  <2> DEFINE n == Needs[ms[k]]
             there == {s \in ToSet(n) : There(s)}
  <2>1. n \in Seq(Symbols)
    BY LinkAssumption
  <2>2. PICK P : new(k) = Filter(n, P) /\ P \subseteq there
    BY DEF References, There
  <2> HIDE DEF n
  <2>3. Filter(n, P) \in Seq(Symbols \cap P) /\ ToSet(Filter(n, P)) = ToSet(n) \cap P
    BY <2>1, FilterElements
  <2> DEFINE f == Filter(n, P)
             r == [j \in DOMAIN f |-> LinkedTo(Entry(f[j]), Lookup(f[j]))]
  <2>4. f \in Seq(Symbols) /\ \A j \in DOMAIN f : f[j] \in Symbols /\ There(f[j])
    BY <2>2, <2>3
  <2> HIDE DEF f
  <2>5. \A j \in DOMAIN f : r[j] \in Linking
    <3> TAKE j \in DOMAIN f
    <3>1. Lookup(f[j]) \in AllModules
      BY <2>4, LookupType DEF There, Lookup
    <3> QED
      BY <2>4, <3>1 DEF Entry, LinkedTo, Linking, TypeInv
  <2>6. r \in Seq(Linking) /\ DOMAIN r = DOMAIN f
    <3>1. r = [j \in DOMAIN f |-> r[j]]
      OBVIOUS
    <3> HIDE DEF r
    <3> QED
      BY <2>4, <2>5, <3>1, MadeFrom
  <2>7. \A e \in ToSet(r) : \E j \in DOMAIN f : e = LinkedTo(Entry(f[j]), Lookup(f[j]))
    BY DEF ToSet
  <2>8. made(k) = r
    BY <2>2 DEF f
  <2> QED
    BY <2>4, <2>6, <2>7, <2>8
<1> HIDE DEF made
<1>2. all \in Seq(Seq(Linking)) /\ DOMAIN all = DOMAIN ms
  <2>1. all = [k \in DOMAIN ms |-> all[k]]
    OBVIOUS
  <2>2. \A k \in DOMAIN ms : all[k] \in Seq(Linking)
    BY <1>1
  <2> HIDE DEF all
  <2> QED
    BY <2>1, <2>2, MadeFrom
<1>3. WithBeingLinked(list, ms) = list \o FlattenSeq(all)
  BY DEF WithBeingLinked, made
<1>4. \A k \in DOMAIN ms : all[k] = made(k)
  OBVIOUS
<1> HIDE DEF all
<1>5. /\ FlattenSeq(all) \in Seq(Linking)
      /\ ToSet(FlattenSeq(all)) = UNION {ToSet(all[k]) : k \in DOMAIN all}
  BY <1>2, FlattenElements
<1>6. /\ WithBeingLinked(list, ms) \in Seq(Linking)
      /\ ToSet(WithBeingLinked(list, ms)) = ToSet(list) \cup ToSet(FlattenSeq(all))
  BY <1>3, <1>5, ConcatElements
<1>7. \A e : e \in ToSet(FlattenSeq(all)) => \E k \in DOMAIN ms : e \in ToSet(made(k))
  BY <1>2, <1>4, <1>5
<1> QED
  BY <1>1, <1>6, <1>7
(* What clear_being_linked_list(TRUE) leaves is removable if all of it was.  *)
LEMMA PutBackElements ==
  ASSUME TypeInv
  PROVE  /\ PutBack \in Seq(Unres)
         /\ Removable(PutBack) => Removable(undefined) /\ Removable(beingLinked)
<1> DEFINE r == [i \in DOMAIN beingLinked |-> Unresolved(beingLinked[i])]
           P == [sym : Symbols, remove : {FALSE}]
<1>1. beingLinked \in Seq(Linking) /\ undefined \in Seq(Unres)
  BY DEF TypeInv
<1>2. \A i \in DOMAIN beingLinked : /\ beingLinked[i] \in Linking
                                    /\ r[i] \in Unres
                                    /\ r[i].remove = beingLinked[i].remove
                                    /\ ~beingLinked[i].remove => r[i] \in P
  <2> TAKE i \in DOMAIN beingLinked
  <2>1. beingLinked[i] \in Linking
    BY <1>1
  <2> QED
    BY <2>1 DEF Linking, Unres, Unresolved
<1>3. r \in Seq(Unres) /\ DOMAIN r = DOMAIN beingLinked
  <2>1. r = [i \in DOMAIN beingLinked |-> r[i]]
    OBVIOUS
  <2> HIDE DEF r
  <2> QED
    BY <1>1, <1>2, <2>1, MadeFrom
<1>4. PutBack = undefined \o Filter(r, P)
  BY DEF PutBack
<1> HIDE DEF r, P
<1>5. Filter(r, P) \in Seq(Unres \cap P) /\ ToSet(Filter(r, P)) = ToSet(r) \cap P
  BY <1>3, FilterElements
<1>6. Filter(r, P) \in Seq(Unres)
  BY <1>5
<1>7. PutBack \in Seq(Unres) /\ ToSet(PutBack) = ToSet(undefined) \cup ToSet(Filter(r, P))
  BY <1>1, <1>4, <1>6, ConcatElements
<1>8. ASSUME Removable(PutBack)
      PROVE  Removable(undefined) /\ Removable(beingLinked)
  <2>1. \A e \in ToSet(PutBack) : e.remove
    BY <1>8 DEF Removable, ToSet
  <2>2. \A i \in DOMAIN undefined : undefined[i] \in ToSet(PutBack)
    BY <1>7 DEF ToSet
  <2>3. \A i \in DOMAIN beingLinked : ~beingLinked[i].remove => r[i] \in ToSet(PutBack)
    BY <1>2, <1>3, <1>5, <1>7 DEF ToSet
  <2> QED
    BY <1>2, <2>1, <2>2, <2>3 DEF Removable
<1> QED
  BY <1>7, <1>8

(* What stays in front of the entry that is not to be removed goes ...       *)
LEMMA RestOfPutBack ==
  ASSUME TypeInv, ~Removable(PutBack)
  PROVE  LET i == SelectInSeq(PutBack, LAMBDA e : ~e.remove)
         IN SubSeq(PutBack, i, Len(PutBack)) \in Seq(Unres)
<1> DEFINE I == {i \in 1 .. Len(PutBack) : ~PutBack[i].remove}
           i == SelectInSeq(PutBack, LAMBDA e : ~e.remove)
<1>1. PutBack \in Seq(Unres)
  BY PutBackElements
<1>2. Len(PutBack) \in Nat /\ DOMAIN PutBack = 1 .. Len(PutBack)
  BY <1>1
<1>3. I # {} /\ I \in SUBSET Nat
  BY <1>2 DEF Removable
<1>4. Min(I) \in I
  BY <1>3, MinIsLeast
<1>5. i = Min(I)
  BY <1>3 DEF SelectInSeq
<1>6. i \in 1 .. Len(PutBack)
  BY <1>4, <1>5
<1> HIDE DEF i
<1>7. SubSeq(PutBack, i, Len(PutBack)) \in Seq(Unres)
  BY <1>1, <1>2, <1>6
<1> QED
  BY <1>7 DEF i

(* Loading adds libraries at the end, that were not loaded.                  *)
LEMMA LibrariesLoaded ==
  ASSUME TypeInv, NEW b \in Bundles, NEW roe \in BOOLEAN
  PROVE  LET ls == WithDependents(b, roe)
         IN /\ ls \in Seq(LibEntries)
            /\ Len(libs) <= Len(ls)
            /\ \A i \in 1 .. Len(libs) : ls[i] = libs[i]
            /\ \A i \in Len(libs) + 1 .. Len(ls) :
                 ls[i].remove = roe /\ \A j \in 1 .. Len(libs) : libs[j].lib # ls[i].lib
<1> DEFINE D     == Dependents[b]
           I     == {i \in 1 .. Len(D) : D[i] \in Missing}
           found == UpTo(D, LAMBDA l : l \in Missing)
           P     == {l \in Libraries : ~IsLoaded(libs, l)}
           new   == Filter(found, P)
           more  == [i \in DOMAIN new |-> [lib |-> new[i], remove |-> roe]]
<1>1. D \in Seq(Libraries)
  BY LinkAssumption
<1>2. libs \in Seq(LibEntries)
  BY DEF TypeInv
<1>3. found \in Seq(Libraries)
  <2>1. found = IF I = {} \/ Min(I) = 0 THEN D ELSE SubSeq(D, 1, Min(I) - 1)
    BY DEF UpTo, SelectInSeq
  <2>2. CASE I # {}
    <3>1. Min(I) \in I
      <4>1. I \in SUBSET Nat
        OBVIOUS
      <4> HIDE DEF I
      <4> QED
        BY <2>2, <4>1, MinIsLeast
    <3>2. Min(I) \in 1 .. Len(D)
      BY <3>1
    <3> HIDE DEF I, D
    <3>3. SubSeq(D, 1, Min(I) - 1) \in Seq(Libraries)
      BY <1>1, <3>2
    <3> QED
      BY <1>1, <2>1, <3>3
  <2> QED
    BY <1>1, <2>1, <2>2
<1>4. new \in Seq(Libraries \cap P)
  <2> HIDE DEF found, P
  <2> QED
    BY <1>3, FilterElements
<1> HIDE DEF found, new
<1>5. \A i \in DOMAIN new : new[i] \in P /\ new[i] \in Libraries
  BY <1>4
<1>6. more \in Seq(LibEntries) /\ Len(more) = Len(new) /\ DOMAIN more = DOMAIN new
  <2>1. more = [i \in DOMAIN new |-> more[i]]
    OBVIOUS
  <2>2. \A i \in DOMAIN new : more[i] \in LibEntries
    BY <1>5 DEF LibEntries
  <2> HIDE DEF more
  <2> QED
    BY <1>4, <2>1, <2>2, MadeFrom
<1>7. \A i \in DOMAIN more : /\ more[i].remove = roe
                             /\ ~IsLoaded(libs, more[i].lib)
  BY <1>5, <1>6
<1>8. WithDependents(b, roe) = libs \o more
  BY DEF WithDependents, found, new
<1> DEFINE ls == libs \o more
<1> HIDE DEF more
<1>9. /\ ls \in Seq(LibEntries)
      /\ Len(ls) = Len(libs) + Len(more)
      /\ \A i \in 1 .. Len(libs) : ls[i] = libs[i]
      /\ \A i \in 1 .. Len(more) : ls[Len(libs) + i] = more[i]
      /\ Len(libs) \in Nat /\ Len(more) \in Nat
      /\ DOMAIN more = 1 .. Len(more) /\ DOMAIN libs = 1 .. Len(libs)
  BY <1>2, <1>6
<1> HIDE DEF ls
<1>10. ASSUME NEW i \in Len(libs) + 1 .. Len(ls)
       PROVE  ls[i].remove = roe /\ \A j \in 1 .. Len(libs) : libs[j].lib # ls[i].lib
  <2>1. i - Len(libs) \in 1 .. Len(more) /\ Len(libs) + (i - Len(libs)) = i
    BY <1>9
  <2>2. ls[i] = more[i - Len(libs)]
    BY <1>9, <2>1
  <2> QED
    BY <1>7, <1>9, <2>1, <2>2 DEF IsLoaded
<1> QED
  BY <1>8, <1>9, <1>10 DEF ls

(* Unloading what is marked leaves the front of the list ...                 *)
LEMMA LibrariesLeft ==
  ASSUME NEW ls \in Seq(LibEntries)
  PROVE  /\ WithoutRemoveOnError(ls) \in Seq(LibEntries)
         /\ Len(WithoutRemoveOnError(ls)) <= Len(ls)
         /\ \A i \in 1 .. Len(WithoutRemoveOnError(ls)) :
              WithoutRemoveOnError(ls)[i] = ls[i] /\ ~ls[i].remove
         /\ \/ WithoutRemoveOnError(ls) = ls
            \/ ls[Len(WithoutRemoveOnError(ls)) + 1].remove
<1> DEFINE I == {i \in 1 .. Len(ls) : ls[i].remove}
           r == WithoutRemoveOnError(ls)
<1>1. r = IF I = {} \/ Min(I) = 0 THEN ls ELSE SubSeq(ls, 1, Min(I) - 1)
  BY DEF WithoutRemoveOnError, UpTo, SelectInSeq
<1>2. Len(ls) \in Nat
  OBVIOUS
<1>3. CASE I = {}
  BY <1>1, <1>2, <1>3
<1>4. CASE I # {}
  <2>1. I \in SUBSET Nat
    OBVIOUS
  <2>2. Min(I) \in I /\ \A i \in I : Min(I) <= i
    <3> HIDE DEF I
    <3> QED
      BY <1>4, <2>1, MinIsLeast
  <2> DEFINE m == Min(I)
  <2>3. m \in 1 .. Len(ls) /\ ls[m].remove
    BY <2>2
  <2>4. \A i \in 1 .. m - 1 : ~ls[i].remove
    BY <1>2, <2>2, <2>3
  <2>5. r = SubSeq(ls, 1, m - 1)
    <3>1. m # 0
      BY <1>2, <2>3
    <3> HIDE DEF I, r
    <3> QED
      BY <1>1, <1>4, <3>1
  <2> HIDE DEF m, I, r
  <2>6. /\ SubSeq(ls, 1, m - 1) \in Seq(LibEntries)
        /\ Len(SubSeq(ls, 1, m - 1)) = m - 1
        /\ \A i \in 1 .. m - 1 : SubSeq(ls, 1, m - 1)[i] = ls[i]
    BY <1>2, <2>3
  <2>7. Len(r) + 1 = m /\ Len(r) <= Len(ls)
    BY <1>2, <2>3, <2>5, <2>6
  <2> QED
    BY <2>3, <2>4, <2>5, <2>6, <2>7 DEF r
<1> QED
  BY <1>3, <1>4

(* ... so that nothing else is loaded then.                                  *)
LEMMA InLibrariesLeft ==
  ASSUME NEW ls \in Seq(LibEntries), NEW ls2 \in Seq(LibEntries), Len(ls2) <= Len(ls),
         \A i \in 1 .. Len(ls2) : ls2[i].lib = ls[i].lib
  PROVE  InLibraries(ls2) \subseteq InLibraries(ls)
<1>1. \A i \in DOMAIN ls2 : i \in DOMAIN ls /\ i \in 1 .. Len(ls2)
  OBVIOUS
<1> QED
  BY <1>1 DEF InLibraries

(* The bundle gets an entry that is UNUSED, or one more.                     *)
LEMMA SlotElements ==
  ASSUME TypeInv, NEW b \in Bundles, b \notin ToSet(objects)
  PROVE  /\ Slot(b) \in Seq(Objects \cup {None})
         /\ ToSet(Slot(b)) \ {None} = (ToSet(objects) \ {None}) \cup {b}
         /\ \A i \in DOMAIN objects : objects[i] # None =>
              i \in DOMAIN Slot(b) /\ Slot(b)[i] = objects[i]
         /\ \A i \in DOMAIN Slot(b) : Slot(b)[i] \notin {b, None} =>
              i \in DOMAIN objects /\ Slot(b)[i] = objects[i]
         /\ Filter(WithoutBundle(Slot(b), b), Objects) = Filter(objects, Objects)
<1> DEFINE U == {i \in DOMAIN objects : objects[i] = None}
           T == Objects \cup {None}
<1>1. objects \in Seq(T) /\ b \in Objects /\ b # None /\ b \in T /\ None \in T
  BY LinkAssumption DEF TypeInv, Objects, AllModules
<1>2. Len(objects) \in Nat /\ DOMAIN objects = 1 .. Len(objects)
  BY <1>1
<1>3. \A i \in DOMAIN objects : objects[i] # b
  BY DEF ToSet
<1> HIDE DEF T
<1>4. CASE U = {}
  <2>1. Slot(b) = Append(objects, b)
    BY <1>4 DEF Slot
  <2> DEFINE r == Append(objects, b)
  <2>2. /\ r \in Seq(T) /\ ToSet(r) = ToSet(objects) \cup {b}
    BY <1>1, AppendElements
  <2>3. /\ Len(r) = Len(objects) + 1 /\ DOMAIN r = 1 .. Len(objects) + 1
        /\ r[Len(objects) + 1] = b
        /\ \A i \in 1 .. Len(objects) : r[i] = objects[i]
    BY <1>1
  <2> HIDE DEF r
  <2>4. WithoutBundle(r, b) = Append(objects, None)
    <3> DEFINE w == WithoutBundle(r, b)
               a == Append(objects, None)
    <3>1. /\ a \in Seq(T) /\ Len(a) = Len(objects) + 1
          /\ DOMAIN a = 1 .. Len(objects) + 1
          /\ a[Len(objects) + 1] = None
          /\ \A i \in 1 .. Len(objects) : a[i] = objects[i]
      BY <1>1
    <3> HIDE DEF a
    <3>2. \A i \in 1 .. Len(objects) + 1 : i = Len(objects) + 1 \/ i \in 1 .. Len(objects)
      BY <1>2
    <3>3. \A i \in DOMAIN a : (IF r[i] = b THEN None ELSE r[i]) = a[i]
      BY <1>2, <1>3, <2>3, <3>1, <3>2
    <3>4. w = [i \in DOMAIN a |-> IF r[i] = b THEN None ELSE r[i]]
      BY <2>3, <3>1 DEF WithoutBundle
    <3>5. a = [i \in DOMAIN a |-> a[i]]
      BY <3>1
    <3>6. w = a
      BY <3>3, <3>4, <3>5
    <3> QED
      BY <3>6 DEF a
  <2>5. Filter(Append(objects, None), Objects) = Filter(objects, Objects)
    <3>1. None \notin Objects
      BY LinkAssumption DEF AllModules
    <3> QED
      BY <1>1, <3>1, FilterAppend
  <2>6. \A i \in DOMAIN r : r[i] # b => i \in DOMAIN objects
    <3> TAKE i \in DOMAIN r
    <3>1. i # Len(objects) + 1 => i \in 1 .. Len(objects)
      BY <1>2, <2>3
    <3> QED
      BY <1>2, <2>3, <3>1
  <2>7. \A i \in DOMAIN objects : i \in DOMAIN r /\ r[i] = objects[i]
    BY <1>2, <2>3
  <2>8. Slot(b) = r
    BY <2>1 DEF r
  <2> QED
    BY <1>1, <2>2, <2>4, <2>5, <2>6, <2>7, <2>8 DEF T
<1>5. CASE U # {}
  <2> DEFINE k == Min(U)
             r == [objects EXCEPT ![k] = b]
  <2>1. Slot(b) = r
    BY <1>5 DEF Slot
  <2>2. U \in SUBSET Nat
    BY <1>2
  <2>3. k \in U
    BY <1>5, <2>2, MinIsLeast
  <2> HIDE DEF k
  <2>4. k \in DOMAIN objects /\ objects[k] = None
    BY <2>3
  <2>5. /\ r \in Seq(T) /\ DOMAIN r = DOMAIN objects /\ r[k] = b
        /\ \A i \in DOMAIN objects : i # k => r[i] = objects[i]
    BY <1>1, <2>4
  <2>6. r = [i \in DOMAIN objects |-> r[i]]
    OBVIOUS
  <2> HIDE DEF r
  <2>7. ToSet(r) \ {None} = (ToSet(objects) \ {None}) \cup {b}
    BY <1>1, <2>4, <2>5 DEF ToSet
  <2>8. WithoutBundle(r, b) = objects
    <3>1. \A i \in DOMAIN objects : (IF r[i] = b THEN None ELSE r[i]) = objects[i]
      BY <1>3, <2>4, <2>5
    <3>2. WithoutBundle(r, b) = [i \in DOMAIN objects |-> IF r[i] = b THEN None ELSE r[i]]
      BY <2>5 DEF WithoutBundle
    <3>3. objects = [i \in DOMAIN objects |-> objects[i]]
      BY <1>1
    <3> QED
      BY <3>1, <3>2, <3>3
  <2>9. /\ \A i \in DOMAIN objects : objects[i] # None => r[i] = objects[i]
        /\ \A i \in DOMAIN r : r[i] # b => r[i] = objects[i]
    BY <2>4, <2>5
  <2> QED
    BY <2>1, <2>5, <2>7, <2>8, <2>9 DEF T
<1> QED
  BY <1>4, <1>5

(* Its entry is UNUSED when it is unloaded.                                  *)
LEMMA WithoutBundleElements ==
  ASSUME NEW objs \in Seq(Objects \cup {None}), NEW b, b # None
  PROVE  /\ WithoutBundle(objs, b) \in Seq(Objects \cup {None})
         /\ ToSet(WithoutBundle(objs, b)) \ {None} = ToSet(objs) \ {None, b}
<1> DEFINE T == Objects \cup {None}
           r == WithoutBundle(objs, b)
<1>1. r = [i \in DOMAIN objs |-> IF objs[i] = b THEN None ELSE objs[i]]
  BY DEF WithoutBundle
<1>2. \A i \in DOMAIN objs : objs[i] \in T /\ r[i] \in T
  BY <1>1
<1>3. r = [i \in DOMAIN objs |-> r[i]]
  BY <1>1
<1> HIDE DEF r, T
<1>4. objs \in Seq(T)
  BY DEF T
<1>5. r \in Seq(T) /\ DOMAIN r = DOMAIN objs
  BY <1>2, <1>3, <1>4, MadeFrom
<1>6. \A i \in DOMAIN objs : r[i] = IF objs[i] = b THEN None ELSE objs[i]
  BY <1>1
<1>7. ToSet(r) \ {None} = ToSet(objs) \ {None, b}
  BY <1>5, <1>6 DEF ToSet
<1> QED
  BY <1>5, <1>7 DEF r, T
-----------------------------------------------------------------------------
(* Who is inside *)

(* What is said of the thread inside is said of its frame.                   *)
LEMMA InsideIs ==
  ASSUME FramesInv, NEW t \in Threads, holder = t
  PROVE  Phase = at[t].phase /\ Bundle = at[t].bundle /\ Phase \in Inside
BY LinkAssumption DEF Phase, Bundle, FramesInv

(* Nobody is.                                                                *)
LEMMA NobodyInside ==
  ASSUME FramesInv
  PROVE  /\ holder = None <=> Phase = "out"
         /\ Phase \in Inside \cup {"out"}
         /\ holder # None => holder \in Threads /\ Phase = at[holder].phase
<1>1. CASE holder = None
  BY <1>1 DEF Phase
<1>2. CASE holder # None
  <2>1. holder \in Threads
    BY <1>2 DEF FramesInv
  <2>2. Phase \in Inside /\ Phase = at[holder].phase
    BY <2>1, InsideIs
  <2> QED
    BY <1>2, <2>1, <2>2 DEF Inside
<1> QED
  BY <1>1, <1>2

(* A thread gets in, ...                                                     *)
LEMMA Entered ==
  ASSUME FramesInv, NEW t \in Threads, NEW ph \in {"link", "resolve", "unlink"},
         NEW b \in Bundles \cup {None}, ph # "resolve" => b \in Bundles,
         Enter(t, ph, b)
  PROVE  /\ FramesInv'
         /\ holder = None /\ Phase = "out" /\ at[t] = Out
         /\ Phase' = ph /\ Bundle' = b /\ holder' = t
         /\ at'[t] = [phase |-> ph, bundle |-> b]
         /\ \A u \in Threads \ {t} : at'[u] = at[u]
<1>1. /\ at'[t] = [phase |-> ph, bundle |-> b]
      /\ \A u \in Threads \ {t} : at'[u] = at[u]
      /\ at' \in [Threads -> [phase : Phases, bundle : Bundles \cup {None}]]
  BY DEF Enter, FramesInv, Phases
<1>2. holder = None /\ holder' = t /\ at[t] = Out
  BY DEF Enter
<1>3. \A u \in Threads : at[u].phase \notin Inside
  BY <1>2, LinkAssumption DEF FramesInv
<1>4. ph \in Inside /\ ph # "out"
  BY DEF Inside, Phases
<1>5. ASSUME NEW u \in Threads
      PROVE  /\ at'[u].phase \in Inside <=> holder' = u
             /\ at'[u].phase = "out" => at'[u].bundle = None
             /\ at'[u].phase \in {"link", "unlink", "unlinkHandler"} => at'[u].bundle \in Bundles
  <2>1. CASE u = t
    BY <1>1, <1>2, <1>4, <2>1
  <2>2. CASE u # t
    BY <1>1, <1>2, <1>3, <2>2 DEF FramesInv
  <2> QED
    BY <2>1, <2>2
<1>6. FramesInv'
  BY <1>1, <1>2, <1>5 DEF FramesInv
<1>7. Phase = "out"
  BY <1>2 DEF Phase
<1>8. Phase' = ph /\ Bundle' = b
  BY <1>1, <1>2, LinkAssumption DEF Phase, Bundle
<1> QED
  BY <1>1, <1>2, <1>6, <1>7, <1>8

(* ... goes on, ...                                                          *)
LEMMA WentTo ==
  ASSUME FramesInv, NEW t \in Threads, holder = t, holder' = holder,
         NEW ph \in Inside \ {"link", "unlink"}, GoTo(t, ph)
  PROVE  /\ FramesInv'
         /\ Phase' = ph /\ Bundle' = Bundle
         /\ at'[t].bundle = at[t].bundle /\ at'[t].phase = ph
         /\ \A u \in Threads \ {t} : at'[u] = at[u]
<1>0. ph \in Phases /\ ph # "out" /\ ph # "unlinkHandler"
  BY DEF Inside
<1>1. /\ at'[t].phase = ph /\ at'[t].bundle = at[t].bundle
      /\ \A u \in Threads \ {t} : at'[u] = at[u]
      /\ at' \in [Threads -> [phase : Phases, bundle : Bundles \cup {None}]]
  BY <1>0 DEF GoTo, FramesInv
<1>2. ASSUME NEW u \in Threads
      PROVE  /\ at'[u].phase \in Inside <=> holder' = u
             /\ at'[u].phase = "out" => at'[u].bundle = None
             /\ at'[u].phase \in {"link", "unlink", "unlinkHandler"} => at'[u].bundle \in Bundles
  <2>1. CASE u = t
    BY <1>0, <1>1, <2>1
  <2>2. CASE u # t
    BY <1>1, <2>2 DEF FramesInv
  <2> QED
    BY <2>1, <2>2
<1>3. FramesInv'
  BY <1>1, <1>2 DEF FramesInv
<1>4. Phase' = ph /\ Bundle' = Bundle
  BY <1>1, LinkAssumption DEF Phase, Bundle
<1> QED
  BY <1>1, <1>3, <1>4

(* ... and leaves, ...                                                       *)
LEMMA Left ==
  ASSUME FramesInv, NEW t \in Threads, holder = t, NEW ls, Leave(t, ls)
  PROVE  /\ FramesInv'
         /\ Phase' = "out" /\ holder' = None /\ ~returnOnError'
         /\ at'[t] = Out
         /\ \A u \in Threads \ {t} : at'[u] = at[u]
<1>1. /\ at'[t] = Out
      /\ \A u \in Threads \ {t} : at'[u] = at[u]
      /\ at' \in [Threads -> [phase : Phases, bundle : Bundles \cup {None}]]
      /\ holder' = None
  BY DEF Leave, Release, FramesInv, Out, Phases
<1>2. ASSUME NEW u \in Threads
      PROVE  /\ at'[u].phase \in Inside <=> holder' = u
             /\ at'[u].phase = "out" => at'[u].bundle = None
             /\ at'[u].phase \in {"link", "unlink", "unlinkHandler"} => at'[u].bundle \in Bundles
  <2>1. holder' # u
    BY <1>1, LinkAssumption
  <2>2. CASE u = t
    BY <1>1, <2>1, <2>2 DEF Out, Inside
  <2>3. CASE u # t
    BY <1>1, <2>1, <2>3 DEF FramesInv
  <2> QED
    BY <2>2, <2>3
<1>3. FramesInv'
  BY <1>1, <1>2 DEF FramesInv
<1>4. Phase' = "out"
  BY <1>1 DEF Phase
<1> QED
  BY <1>1, <1>3, <1>4 DEF Leave, Release

(* ... or lets the undefined handler run, ...                                *)
LEMMA CalledHandler ==
  ASSUME FramesInv, NEW t \in Threads, CallHandler(t), exited' = exited
  PROVE  /\ FramesInv'
         /\ holder = t /\ Phase = at[t].phase /\ Phase \in {"report", "unlink"}
         /\ Phase' = "out" /\ holder' = None /\ ~returnOnError'
         /\ at'[t].bundle = at[t].bundle
         /\ at'[t].phase = IF at[t].phase = "report" THEN "handler" ELSE "unlinkHandler"
         /\ \A u \in Threads \ {t} : at'[u] = at[u]
         /\ Release(libs)
         /\ UNCHANGED <<objects, private, state, initBound, lists, saved, bound, before>>
<1>1. holder = t /\ at[t].phase \in {"report", "unlink"} /\ ~exited
  BY DEF CallHandler, In
<1>2. /\ Release(libs) /\ holder' = None /\ returnOnError' = FALSE
      /\ at' = [at EXCEPT ![t].phase = IF @ = "report" THEN "handler" ELSE "unlinkHandler"]
      /\ UNCHANGED <<objects, private, state, initBound, lists, saved, bound, before>>
  BY <1>1 DEF CallHandler, Exit, Release
<1>3. /\ at'[t].bundle = at[t].bundle
      /\ at'[t].phase = IF at[t].phase = "report" THEN "handler" ELSE "unlinkHandler"
      /\ \A u \in Threads \ {t} : at'[u] = at[u]
      /\ at' \in [Threads -> [phase : Phases, bundle : Bundles \cup {None}]]
  BY <1>2 DEF FramesInv, Phases
<1>4. ASSUME NEW u \in Threads
      PROVE  /\ at'[u].phase \in Inside <=> holder' = u
             /\ at'[u].phase = "out" => at'[u].bundle = None
             /\ at'[u].phase \in {"link", "unlink", "unlinkHandler"} => at'[u].bundle \in Bundles
  <2>1. holder' # u
    BY <1>2, LinkAssumption
  <2>2. CASE u = t
    BY <1>1, <1>3, <2>1, <2>2 DEF Inside, FramesInv
  <2>3. CASE u # t
    BY <1>1, <1>3, <2>1, <2>3 DEF FramesInv
  <2> QED
    BY <2>2, <2>3
<1>5. FramesInv'
  BY <1>2, <1>3, <1>4 DEF FramesInv
<1>6. Phase' = "out" /\ Phase = at[t].phase
  BY <1>1, <1>2, InsideIs DEF Phase
<1> QED
  BY <1>1, <1>2, <1>3, <1>5, <1>6

(* ... after which it is in again.                                           *)
LEMMA HandlerReturned ==
  ASSUME FramesInv, NEW t \in Threads, HandlerReturns(t)
  PROVE  /\ FramesInv'
         /\ holder = None /\ Phase = "out" /\ holder' = t
         /\ at[t].phase \in {"handler", "unlinkHandler"}
         /\ Phase' = IF at[t].phase = "handler" THEN "report" ELSE "unlink"
         /\ Bundle' = at[t].bundle
         /\ at'[t].bundle = at[t].bundle /\ at'[t].phase = Phase'
         /\ \A u \in Threads \ {t} : at'[u] = at[u]
         /\ UNCHANGED <<returnOnError, images, lists, saved, bound, before, exited>>
<1> DEFINE ph == IF at[t].phase = "handler" THEN "report" ELSE "unlink"
<1>1. /\ holder = None /\ holder' = t
      /\ at[t].phase \in {"handler", "unlinkHandler"}
      /\ UNCHANGED <<returnOnError, images, lists, saved, bound, before, exited>>
  BY DEF HandlerReturns
<1>2. /\ at'[t].bundle = at[t].bundle /\ at'[t].phase = ph
      /\ \A u \in Threads \ {t} : at'[u] = at[u]
      /\ at' \in [Threads -> [phase : Phases, bundle : Bundles \cup {None}]]
  BY DEF HandlerReturns, GoTo, FramesInv, Phases
<1>3. ASSUME NEW u \in Threads
      PROVE  /\ at'[u].phase \in Inside <=> holder' = u
             /\ at'[u].phase = "out" => at'[u].bundle = None
             /\ at'[u].phase \in {"link", "unlink", "unlinkHandler"} => at'[u].bundle \in Bundles
  <2>1. CASE u = t
    BY <1>1, <1>2, <2>1 DEF Inside, Phases, FramesInv
  <2>2. CASE u # t
    <3>1. at[u].phase \notin Inside
      BY <1>1, LinkAssumption DEF FramesInv
    <3> QED
      BY <1>1, <1>2, <2>2, <3>1 DEF FramesInv
  <2> QED
    BY <2>1, <2>2
<1>4. FramesInv'
  BY <1>1, <1>2, <1>3 DEF FramesInv
<1>5. Phase = "out" /\ Phase' = ph /\ Bundle' = at[t].bundle
  BY <1>1, <1>2, LinkAssumption DEF Phase, Bundle
<1> QED
  BY <1>1, <1>2, <1>4, <1>5

(* Libraries are not marked any more when the lock is released.              *)
LEMMA ReleasedLibraries ==
  ASSUME NEW ls \in Seq(LibEntries), Release(ls)
  PROVE  /\ libs' \in Seq(LibEntries) /\ Len(libs') = Len(ls)
         /\ DOMAIN libs' = DOMAIN ls
         /\ \A i \in DOMAIN ls : /\ libs'[i].lib = ls[i].lib
                                 /\ ~ls[i].remove => libs'[i] = ls[i]
         /\ InLibraries(libs') = InLibraries(ls)
         /\ \A objs : Loaded(objs, libs') = Loaded(objs, ls)
         /\ returnOnError => \A i \in DOMAIN libs' : ~libs'[i].remove
         /\ ~returnOnError => libs' = ls
         /\ (\A i \in DOMAIN ls : ~ls[i].remove) => libs' = ls
<1> DEFINE new == Unmarked(ls)
<1>1. libs' = IF returnOnError THEN new ELSE ls
  BY DEF Release
<1>2. new = [i \in DOMAIN ls |-> new[i]]
  BY DEF Unmarked
<1>3. ASSUME NEW i \in DOMAIN ls
      PROVE  /\ new[i] \in LibEntries /\ new[i].lib = ls[i].lib /\ ~new[i].remove
             /\ ~ls[i].remove => new[i] = ls[i]
  <2>1. ls[i] \in LibEntries /\ new[i] = [ls[i] EXCEPT !.remove = FALSE]
    BY DEF Unmarked
  <2> QED
    BY <2>1 DEF LibEntries
<1> HIDE DEF new
<1>4. new \in Seq(LibEntries) /\ Len(new) = Len(ls) /\ DOMAIN new = DOMAIN ls
  <2>1. \A i \in DOMAIN ls : new[i] \in LibEntries
    BY <1>3
  <2> QED
    BY <1>2, <2>1, MadeFrom
<1>5. (\A i \in DOMAIN ls : ~ls[i].remove) => new = ls
  BY <1>3, <1>4
<1>6. /\ libs' \in Seq(LibEntries) /\ Len(libs') = Len(ls) /\ DOMAIN libs' = DOMAIN ls
      /\ \A i \in DOMAIN ls : /\ libs'[i].lib = ls[i].lib
                              /\ ~ls[i].remove => libs'[i] = ls[i]
  BY <1>1, <1>3, <1>4
<1>7. InLibraries(libs') = InLibraries(ls)
  BY <1>6 DEF InLibraries
<1>8. \A objs : Loaded(objs, libs') = Loaded(objs, ls)
  BY <1>7 DEF Loaded
<1>9. returnOnError => \A i \in DOMAIN libs' : ~libs'[i].remove
  BY <1>1, <1>3, <1>4
<1> QED
  BY <1>1, <1>5, <1>6, <1>7, <1>8, <1>9

(* Nobody moves.                                                             *)
LEMMA NobodyMoved ==
  ASSUME FramesInv, UNCHANGED <<holder, at>>
  PROVE  FramesInv' /\ Phase' = Phase /\ Bundle' = Bundle
BY DEF FramesInv, Phase, Bundle
-----------------------------------------------------------------------------
(* Types, frames and the states of objects *)

(* The type invariant, from what an action says of each variable.            *)
LEMMA KeptType ==
  ASSUME TypeInv, NEW objs \in Seq(Objects \cup {None}), NEW ls \in Seq(LibEntries),
         NEW states, Keep(objs, ls, states),
         \A m \in Loaded(objs, ls) : states[m] \in LinkStates
  PROVE  /\ objects' = objs
         /\ private' = private \cap Loaded(objs, ls) /\ private' \subseteq Bundles
         /\ state' \in [Loaded(objs, ls) -> LinkStates]
         /\ \A m \in Loaded(objs, ls) : state'[m] = states[m]
         /\ bound' = [m \in Loaded(objs, ls) |-> bound[m]]
         /\ initBound' \subseteq Libraries
<1>1. /\ objects' = objs
      /\ private' = private \cap Loaded(objs, ls)
      /\ state' = [m \in Loaded(objs, ls) |-> states[m]]
      /\ bound' = [m \in Loaded(objs, ls) |-> bound[m]]
      /\ initBound' \subseteq initBound
  BY DEF Keep, Loaded, Restrict
<1>2. private \subseteq Bundles /\ initBound \subseteq Libraries
  BY DEF TypeInv
<1>3. state' \in [Loaded(objs, ls) -> LinkStates]
  BY <1>1
<1> QED
  BY <1>1, <1>2, <1>3

(* What the lemma above leaves open of the types                             *)
LEMMA TypeFrom ==
  ASSUME NEW ls, NEW objs, objects' = objs, libs' = ls,
         objs \in Seq(Objects \cup {None}), ls \in Seq(LibEntries),
         private' \subseteq Bundles, state' \in [Loaded(objs, ls) -> LinkStates],
         bound' = [m \in Loaded(objs, ls) |-> bound'[m]], initBound' \subseteq Libraries,
         returnOnError' \in BOOLEAN, undefined' \in Seq(Unres),
         beingLinked' \in Seq(Linking), DOMAIN saved' \subseteq Loaded(objs, ls),
         saved' \in [DOMAIN saved' -> LinkStates], exited' \in BOOLEAN
  PROVE  TypeInv'
BY DEF TypeInv

(* Nothing has been linked yet but the executable.                           *)
LEMMA BaseInit ==
  ASSUME Init
  PROVE  BaseInv
<1> DEFINE was == {Executable} \cup UNION {ToSet(Modules[l]) : l \in ToSet(Launched)}
<1>1. /\ None \notin AllModules /\ Launched \in Seq(Libraries)
      /\ Objects \cap LibraryModules = {}
  BY LinkAssumption
<1>2. objects = <<Executable>> /\ objects \in Seq(Objects \cup {None})
  BY DEF Init, Objects
<1>3. ToSet(objects) = {Executable} /\ Executable # None /\ Executable \in Objects
  BY <1>1, <1>2 DEF ToSet, Objects, AllModules
<1>4. /\ libs = [i \in DOMAIN Launched |-> libs[i]]
      /\ \A i \in DOMAIN Launched : libs[i].lib = Launched[i] /\ libs[i] \in LibEntries
  <2>1. libs = [i \in DOMAIN Launched |-> [lib |-> Launched[i], remove |-> FALSE]]
    BY DEF Init
  <2>2. \A i \in DOMAIN Launched : Launched[i] \in Libraries
    BY <1>1
  <2> QED
    BY <2>1, <2>2 DEF LibEntries
<1>5. libs \in Seq(LibEntries) /\ DOMAIN libs = DOMAIN Launched
  BY <1>1, <1>4, MadeFrom
<1>6. InLibraries(libs) = UNION {ToSet(Modules[l]) : l \in ToSet(Launched)}
  <2>1. ToSet(Launched) = {libs[i].lib : i \in DOMAIN libs}
    BY <1>4, <1>5 DEF ToSet
  <2> QED
    BY <2>1 DEF InLibraries
<1>7. Loaded(objects, libs) = was
  BY <1>3, <1>6 DEF Loaded
<1> HIDE DEF was
<1>8. /\ state = [m \in was |-> IF m = Executable THEN "RELOCATED" ELSE "UNLINKED"]
      /\ bound = [m \in DOMAIN state |-> << >>]
  BY DEF Init, was
<1>9. saved = << >> /\ DOMAIN saved = {} /\ saved \in [DOMAIN saved -> LinkStates]
  BY DEF Init
<1>10. TypeInv
  <2>1. state \in [Loaded(objects, libs) -> LinkStates]
    BY <1>7, <1>8 DEF LinkStates
  <2>2. bound = [m \in Loaded(objects, libs) |-> bound[m]]
    BY <1>7, <1>8
  <2>3. /\ private \subseteq Bundles /\ initBound \subseteq Libraries
        /\ undefined = << >> /\ beingLinked = << >>
        /\ returnOnError = FALSE /\ exited = FALSE
    BY DEF Init
  <2>4. undefined \in Seq(Unres) /\ beingLinked \in Seq(Linking)
    BY <2>3
  <2> QED
    BY <1>2, <1>5, <1>9, <2>1, <2>2, <2>3, <2>4 DEF TypeInv
<1>11. FramesInv
  <2>1. holder = None /\ at = [t \in Threads |-> Out]
    BY DEF Init
  <2> QED
    BY <2>1, LinkAssumption DEF FramesInv, Out, Phases, Inside
<1>12. ReturnInv
  BY DEF Init, ReturnInv, Phase
<1>13. ObjectsInv
  <2>1. state[Executable] = "RELOCATED"
    BY <1>8 DEF was
  <2> QED
    BY <1>3, <1>9, <2>1 DEF ObjectsInv
<1> QED
  BY <1>10, <1>11, <1>12, <1>13 DEF BaseInv

(* Loading: the new bundle and the modules of new libraries are UNLINKED.    *)
LEMMA LoadedByLink ==
  ASSUME TypeInv, NEW t \in Threads, NEW b \in Bundles, NEW roe \in BOOLEAN,
         NEW priv \in BOOLEAN, LinkModule(t, b, roe, priv)
  PROVE  LET ls == WithDependents(b, roe)
         IN /\ Loaded(Slot(b), ls) = {b} \cup Loaded(objects, libs) \cup InLibraries(ls)
            /\ b \notin Loaded(objects, libs)
            /\ InLibraries(libs) \subseteq InLibraries(ls)
            /\ \A m \in Loaded(objects, libs) :
                 state'[m] = state[m] /\ bound'[m] = bound[m]
            /\ \A m \in ({b} \cup InLibraries(ls)) \ Loaded(objects, libs) :
                 state'[m] = "UNLINKED" /\ bound'[m] = << >>
            /\ DOMAIN state' = Loaded(Slot(b), ls)
            /\ bound' = [m \in Loaded(Slot(b), ls) |-> bound'[m]]
            /\ TypeInv'
<1> DEFINE ls   == WithDependents(b, roe)
           was  == Loaded(objects, libs)
           more == {b} \cup InLibraries(ls)
<1>1. /\ b \notin ToSet(objects) /\ ~LoadFails(b)
      /\ returnOnError' = roe
      /\ objects' = Slot(b)
      /\ private' = IF priv THEN private \cup {b} ELSE private
      /\ libs' = ls
      /\ state' = Over(state, [m \in more |-> "UNLINKED"])
      /\ bound' = Over(bound, [m \in more |-> << >>])
      /\ saved' = IF roe THEN << >> ELSE saved
      /\ UNCHANGED <<initBound, undefined, beingLinked, exited>>
  BY DEF LinkModule, Callable, lists
<1>2. /\ objects \in Seq(Objects \cup {None}) /\ libs \in Seq(LibEntries)
      /\ state \in [was -> LinkStates] /\ bound = [m \in was |-> bound[m]]
  BY DEF TypeInv
<1>3. b \in Objects /\ b # None
  BY LinkAssumption DEF Objects, AllModules
<1>4. /\ Slot(b) \in Seq(Objects \cup {None})
      /\ ToSet(Slot(b)) \ {None} = (ToSet(objects) \ {None}) \cup {b}
  BY <1>1, SlotElements
<1>5. /\ ls \in Seq(LibEntries) /\ Len(libs) <= Len(ls)
      /\ \A i \in 1 .. Len(libs) : ls[i] = libs[i]
  BY LibrariesLoaded
<1> HIDE DEF ls
<1>6. InLibraries(libs) \subseteq InLibraries(ls)
  BY <1>2, <1>5, InLibrariesLeft
<1>7. b \notin was
  BY <1>1, <1>2, <1>3, LoadedAreModules
<1>8. Loaded(Slot(b), ls) = was \cup more
  BY <1>4, <1>6 DEF Loaded
<1> HIDE DEF was, more
<1>9. DOMAIN state = was /\ DOMAIN bound = was
  BY <1>2
<1>10. /\ \A m \in was : state'[m] = state[m] /\ bound'[m] = bound[m]
       /\ \A m \in more \ was : state'[m] = "UNLINKED" /\ bound'[m] = << >>
       /\ state' = [m \in was \cup more |-> state'[m]]
       /\ bound' = [m \in was \cup more |-> bound'[m]]
  BY <1>1, <1>9 DEF Over
<1>11. state' \in [was \cup more -> LinkStates]
  BY <1>2, <1>10 DEF LinkStates
<1>12. /\ private' \subseteq Bundles /\ initBound' \subseteq Libraries
       /\ undefined' \in Seq(Unres) /\ beingLinked' \in Seq(Linking)
       /\ returnOnError' \in BOOLEAN /\ exited' \in BOOLEAN
  BY <1>1 DEF TypeInv
<1>13. DOMAIN saved' \subseteq was /\ saved' \in [DOMAIN saved' -> LinkStates]
  <2>1. CASE roe
    <3>1. saved' = << >> /\ DOMAIN saved' = {}
      BY <1>1, <2>1
    <3> QED
      BY <3>1
  <2>2. CASE ~roe
    <3>1. saved' = saved
      BY <1>1, <2>2
    <3> QED
      BY <3>1 DEF TypeInv, was
  <2> QED
    BY <2>1, <2>2
<1>14. TypeInv'
  <2>1. DOMAIN saved' \subseteq was \cup more
    BY <1>13
  <2>2. objects' = Slot(b) /\ libs' = ls
    BY <1>1
  <2> QED
    BY <1>4, <1>5, <1>8, <1>10, <1>11, <1>12, <1>13, <2>1, <2>2 DEF TypeInv
<1> QED
  BY <1>6, <1>7, <1>8, <1>10, <1>14 DEF was, more, ls

(* NSLinkModule() loads.                                                     *)
LEMMA LinkModuleBase ==
  ASSUME BaseInv, NEW t \in Threads, NEW b \in Bundles, NEW roe \in BOOLEAN,
         NEW priv \in BOOLEAN, LinkModule(t, b, roe, priv)
  PROVE  BaseInv'
<1>0. TypeInv /\ FramesInv /\ ReturnInv /\ ObjectsInv
  BY DEF BaseInv
<1> DEFINE ls  == WithDependents(b, roe)
           was == Loaded(objects, libs)
<1>1. /\ Enter(t, "link", b) /\ b \notin ToSet(objects)
      /\ returnOnError' = roe
      /\ objects' = Slot(b) /\ libs' = ls
      /\ saved' = IF roe THEN << >> ELSE saved
  BY DEF LinkModule, Callable
<1>2. /\ FramesInv' /\ Phase = "out" /\ Phase' = "link" /\ Bundle' = b /\ holder' = t
  BY <1>0, <1>1, Entered
<1>3. /\ TypeInv'
      /\ b \notin was
      /\ \A m \in was : state'[m] = state[m]
  BY <1>0, LoadedByLink
<1>4. ReturnInv'
  BY <1>2, LinkAssumption DEF ReturnInv
<1>5. ToSet(Slot(b)) \ {None} = (ToSet(objects) \ {None}) \cup {b}
  BY <1>0, <1>1, SlotElements
<1>6. ObjectsInv'
  <2>1. ASSUME NEW o \in ToSet(objects') \ {None}, state'[o] = "UNLINKED"
        PROVE  o = b
    <3>1. CASE o \in ToSet(objects) \ {None}
      <4>1. o \in was
        BY <3>1 DEF Loaded
      <4>2. state[o] # "UNLINKED"
        BY <1>0, <1>2, <3>1 DEF ObjectsInv
      <4> QED
        BY <1>3, <2>1, <4>1, <4>2
    <3> QED
      BY <1>1, <1>5, <3>1
  <2>2. \A o \in Objects \cap DOMAIN saved' : saved'[o] # "UNLINKED"
    BY <1>0, <1>1 DEF ObjectsInv
  <2>3. returnOnError' => saved' = << >>
    BY <1>1
  <2> QED
    BY <1>2, <2>1, <2>2, <2>3 DEF ObjectsInv
<1> QED
  BY <1>2, <1>3, <1>4, <1>6 DEF BaseInv

(* A library is missing: what there was is kept.                             *)
LEMMA MissingKept ==
  ASSUME TypeInv, NEW t \in Threads, NEW b \in Bundles, LinkWithMissing(t, b, TRUE)
  PROVE  LET ls == WithoutRemoveOnError(WithDependents(b, TRUE))
         IN /\ Len(ls) <= Len(libs) /\ ls \in Seq(LibEntries)
            /\ \A i \in 1 .. Len(ls) : ls[i] = libs[i] /\ ~libs[i].remove
            /\ ls = libs \/ libs[Len(ls) + 1].remove
            /\ Loaded(objects, ls) \subseteq Loaded(objects, libs)
            /\ objects' = objects /\ libs' = ls
            /\ private' = private \cap Loaded(objects, ls)
            /\ state' = [m \in Loaded(objects, ls) |-> state[m]]
            /\ bound' = [m \in Loaded(objects, ls) |-> bound[m]]
            /\ saved' = << >>
            /\ UNCHANGED <<holder, returnOnError, undefined, beingLinked, at, before, exited>>
            /\ TypeInv'
<1> DEFINE new == WithDependents(b, TRUE)
           ls  == WithoutRemoveOnError(new)
<1>1. /\ Keep(objects, ls, state) /\ libs' = ls /\ saved' = << >>
      /\ UNCHANGED <<holder, returnOnError, undefined, beingLinked, at, before, exited>>
  BY DEF LinkWithMissing, lists
<1>2. /\ objects \in Seq(Objects \cup {None}) /\ libs \in Seq(LibEntries)
      /\ state \in [Loaded(objects, libs) -> LinkStates]
  BY DEF TypeInv
<1>3. /\ new \in Seq(LibEntries) /\ Len(libs) <= Len(new)
      /\ \A i \in 1 .. Len(libs) : new[i] = libs[i]
      /\ \A i \in Len(libs) + 1 .. Len(new) : new[i].remove = TRUE
  BY LibrariesLoaded
<1> HIDE DEF new
<1>4. /\ ls \in Seq(LibEntries) /\ Len(ls) <= Len(new)
      /\ \A i \in 1 .. Len(ls) : ls[i] = new[i] /\ ~new[i].remove
      /\ ls = new \/ new[Len(ls) + 1].remove
  BY <1>3, LibrariesLeft
<1> HIDE DEF ls
<1>5. Len(ls) \in Nat /\ Len(libs) \in Nat /\ Len(new) \in Nat
  BY <1>2, <1>3, <1>4
<1>6. Len(ls) <= Len(libs)
  <2>1. CASE Len(ls) > Len(libs)
    <3>1. Len(libs) + 1 \in 1 .. Len(ls) /\ Len(libs) + 1 \in Len(libs) + 1 .. Len(new)
      BY <1>4, <1>5, <2>1
    <3> QED
      BY <1>3, <1>4, <3>1
  <2> QED
    BY <1>5, <2>1
<1>7. \A i \in 1 .. Len(ls) : ls[i] = libs[i] /\ ~libs[i].remove
  <2> TAKE i \in 1 .. Len(ls)
  <2>1. i \in 1 .. Len(libs)
    BY <1>5, <1>6
  <2> QED
    BY <1>3, <1>4, <2>1
<1>8. ls = libs \/ libs[Len(ls) + 1].remove
  <2>1. CASE Len(ls) = Len(libs)
    BY <1>2, <1>4, <1>7, <2>1
  <2>2. CASE Len(ls) < Len(libs)
    <3>1. ls # new /\ Len(ls) + 1 \in 1 .. Len(libs)
      BY <1>3, <1>5, <2>2
    <3> QED
      BY <1>3, <1>4, <3>1
  <2> QED
    BY <1>5, <1>6, <2>1, <2>2
<1>9. Loaded(objects, ls) \subseteq Loaded(objects, libs)
  <2>1. InLibraries(ls) \subseteq InLibraries(libs)
    BY <1>2, <1>4, <1>6, <1>7, InLibrariesLeft
  <2> QED
    BY <2>1 DEF Loaded
<1>10. /\ objects' = objects /\ libs' = ls
       /\ private' = private \cap Loaded(objects, ls) /\ private' \subseteq Bundles
       /\ state' \in [Loaded(objects, ls) -> LinkStates]
       /\ \A m \in Loaded(objects, ls) : state'[m] = state[m]
       /\ bound' = [m \in Loaded(objects, ls) |-> bound[m]]
       /\ initBound' \subseteq Libraries
  <2>1. \A m \in Loaded(objects, ls) : state[m] \in LinkStates
    BY <1>2, <1>9
  <2> QED
    BY <1>1, <1>2, <1>4, <2>1, KeptType
<1>11. TypeInv'
  <2>1. saved' = << >> /\ DOMAIN saved' = {} /\ saved' \in [DOMAIN saved' -> LinkStates]
    BY <1>1
  <2>2. /\ returnOnError' \in BOOLEAN /\ exited' \in BOOLEAN
        /\ undefined' \in Seq(Unres) /\ beingLinked' \in Seq(Linking)
    BY <1>1 DEF TypeInv
  <2>3. bound' = [m \in Loaded(objects, ls) |-> bound'[m]]
    BY <1>10
  <2> QED
    BY <1>2, <1>4, <1>10, <2>1, <2>2, <2>3, TypeFrom
<1>12. state' = [m \in Loaded(objects, ls) |-> state[m]]
  BY <1>10
<1> QED
  BY <1>1, <1>4, <1>6, <1>7, <1>8, <1>9, <1>10, <1>11, <1>12 DEF ls, new

(* Only the process exits.                                                   *)
LEMMA ExitBase ==
  ASSUME BaseInv, Exit
  PROVE  BaseInv'
<1>1. exited' = TRUE
  BY DEF Exit
<1>2. UNCHANGED <<holder, returnOnError, objects, private, libs, state, initBound,
                  undefined, beingLinked, saved, bound, at>>
  BY DEF Exit, images, lists
<1>3. TypeInv'
  BY <1>1, <1>2 DEF BaseInv, TypeInv
<1>4. FramesInv'
  BY <1>2 DEF BaseInv, FramesInv
<1>5. ReturnInv' /\ ObjectsInv'
  BY <1>2 DEF BaseInv, ReturnInv, ObjectsInv, Phase, Bundle
<1> QED
  BY <1>3, <1>4, <1>5 DEF BaseInv

(* A library is missing.                                                     *)
LEMMA LinkWithMissingBase ==
  ASSUME BaseInv, NEW t \in Threads, NEW b \in Bundles, NEW roe \in BOOLEAN,
         LinkWithMissing(t, b, roe)
  PROVE  BaseInv'
<1>0. TypeInv /\ FramesInv /\ ReturnInv /\ ObjectsInv
  BY DEF BaseInv
<1>1. CASE ~roe
  BY <1>1, ExitBase DEF LinkWithMissing
<1>2. CASE roe
  <2> DEFINE ls == WithoutRemoveOnError(WithDependents(b, TRUE))
  <2>1. LinkWithMissing(t, b, TRUE)
    BY <1>2
  <2>2. /\ objects' = objects /\ libs' = ls
        /\ state' = [m \in Loaded(objects, ls) |-> state[m]]
        /\ saved' = << >>
        /\ UNCHANGED <<holder, returnOnError, at>>
        /\ TypeInv'
    BY <1>0, <2>1, MissingKept
  <2> HIDE DEF ls
  <2>3. FramesInv' /\ Phase' = Phase /\ Bundle' = Bundle
    BY <1>0, <2>2, NobodyMoved
  <2>4. ReturnInv'
    BY <1>0, <2>2, <2>3 DEF ReturnInv
  <2>5. ObjectsInv'
    <3>1. \A o \in ToSet(objects) \ {None} : state'[o] = state[o]
      BY <2>2 DEF Loaded
    <3>2. DOMAIN saved' = {}
      BY <2>2
    <3> QED
      BY <1>0, <2>2, <2>3, <3>1, <3>2 DEF ObjectsInv
  <2> QED
    BY <2>2, <2>3, <2>4, <2>5 DEF BaseInv
<1> QED
  BY <1>1, <1>2

(* The references of the bundle are added; it is BEING_LINKED.               *)
LEMMA LinkObjectBase ==
  ASSUME BaseInv, NEW t \in Threads, LinkObject(t)
  PROVE  BaseInv'
<1> DEFINE b == at[t].bundle
<1>0. TypeInv /\ FramesInv /\ ReturnInv /\ ObjectsInv
  BY DEF BaseInv
<1>1. /\ holder = t /\ at[t].phase = "link" /\ GoTo(t, "resolve")
      /\ undefined' = WithUndefined(undefined, <<b>>)
      /\ beingLinked' = WithBeingLinked(beingLinked, <<b>>)
      /\ state' = [state EXCEPT ![b] = "BEING_LINKED"]
      /\ UNCHANGED <<holder, returnOnError, objects, private, libs, initBound, saved,
                     bound, exited>>
  BY DEF LinkObject, In
<1>2. Phase = "link" /\ Bundle = b /\ b \in Bundles
  BY <1>0, <1>1, InsideIs DEF FramesInv
<1>3. FramesInv' /\ Phase' = "resolve" /\ Bundle' = b
  BY <1>0, <1>1, <1>2, WentTo DEF Inside, Phases
<1> HIDE DEF b
<1>4. TypeInv'
  <2>1. <<b>> \in Seq(AllModules)
    BY <1>2 DEF AllModules, Objects
  <2>2. undefined \in Seq(Unres) /\ beingLinked \in Seq(Linking)
    BY <1>0 DEF TypeInv
  <2>3. undefined' \in Seq(Unres)
    BY <1>0, <1>1, <2>1, <2>2, UndefinedReferences
  <2>4. beingLinked' \in Seq(Linking)
    BY <1>0, <1>1, <2>1, <2>2, BeingLinkedReferences
  <2>5. state' \in [Loaded(objects, libs) -> LinkStates]
    BY <1>0, <1>1 DEF TypeInv, LinkStates
  <2> QED
    BY <1>0, <1>1, <2>3, <2>4, <2>5 DEF TypeInv
<1>5. ReturnInv'
  BY <1>0, <1>1, <1>2, <1>3 DEF ReturnInv
<1>6. ObjectsInv'
  <2>1. ASSUME NEW o \in ToSet(objects) \ {None}
        PROVE  state'[o] # "UNLINKED"
    <3>1. o \in DOMAIN state
      BY <1>0 DEF TypeInv, Loaded
    <3> QED
      BY <1>0, <1>1, <1>2, <3>1 DEF ObjectsInv
  <2> QED
    BY <1>0, <1>1, <1>3, <2>1 DEF ObjectsInv
<1> QED
  BY <1>3, <1>4, <1>5, <1>6 DEF BaseInv

(* The bundle that is unloaded is all that goes.                             *)
LEMMA LoadedWithout ==
  ASSUME TypeInv, NEW b \in Bundles
  PROVE  /\ WithoutBundle(objects, b) \in Seq(Objects \cup {None})
         /\ ToSet(WithoutBundle(objects, b)) \ {None} = ToSet(objects) \ {None, b}
         /\ Loaded(WithoutBundle(objects, b), libs) = Loaded(objects, libs) \ {b}
<1>1. objects \in Seq(Objects \cup {None}) /\ libs \in Seq(LibEntries)
  BY DEF TypeInv
<1>2. b # None /\ b \in Objects
  BY LinkAssumption DEF Objects, AllModules
<1>3. /\ WithoutBundle(objects, b) \in Seq(Objects \cup {None})
      /\ ToSet(WithoutBundle(objects, b)) \ {None} = ToSet(objects) \ {None, b}
  BY <1>1, <1>2, WithoutBundleElements
<1>4. b \notin InLibraries(libs)
  BY <1>1, <1>2, LoadedAreModules, LinkAssumption
<1> QED
  BY <1>3, <1>4 DEF Loaded

(* A symbol of the bundle is defined twice.                                  *)
LEMMA LinkObjectFailsBase ==
  ASSUME BaseInv, NEW t \in Threads, LinkObjectFails(t)
  PROVE  BaseInv'
<1> DEFINE b    == at[t].bundle
           objs == WithoutBundle(objects, b)
<1>0. TypeInv /\ FramesInv /\ ReturnInv /\ ObjectsInv
  BY DEF BaseInv
<1>1. holder = t /\ at[t].phase = "link"
  BY DEF LinkObjectFails, In
<1>2. CASE ~returnOnError
  BY <1>2, ExitBase DEF LinkObjectFails
<1>3. CASE returnOnError
  <2>1. /\ Keep(objs, libs, state)
        /\ beingLinked' = << >> /\ undefined' = PutBack
        /\ Leave(t, libs) /\ Release(libs) /\ saved' = saved /\ exited' = exited
    BY <1>3 DEF LinkObjectFails, Leave
  <2>2. Phase = "link" /\ Bundle = b /\ b \in Bundles
    BY <1>0, <1>1, InsideIs DEF FramesInv
  <2>3. FramesInv' /\ Phase' = "out" /\ holder' = None /\ ~returnOnError' /\ returnOnError' \in BOOLEAN
    BY <1>0, <1>1, <2>1, Left DEF Release
  <2> HIDE DEF b
  <2>4. /\ objs \in Seq(Objects \cup {None})
        /\ ToSet(objs) \ {None} = ToSet(objects) \ {None, b}
        /\ Loaded(objs, libs) \subseteq Loaded(objects, libs)
    BY <1>0, <2>2, LoadedWithout
  <2> HIDE DEF objs
  <2>5. libs \in Seq(LibEntries) /\ \A m \in Loaded(objects, libs) : state[m] \in LinkStates
    BY <1>0 DEF TypeInv
  <2>6. /\ objects' = objs
        /\ private' = private \cap Loaded(objs, libs) /\ private' \subseteq Bundles
        /\ state' \in [Loaded(objs, libs) -> LinkStates]
        /\ \A m \in Loaded(objs, libs) : state'[m] = state[m]
        /\ bound' = [m \in Loaded(objs, libs) |-> bound[m]]
        /\ initBound' \subseteq Libraries
    BY <1>0, <2>1, <2>4, <2>5, KeptType
  <2>61. libs' \in Seq(LibEntries) /\ Loaded(objs, libs') = Loaded(objs, libs)
    BY <2>1, <2>5, ReleasedLibraries
  <2>7. saved' = << >> /\ DOMAIN saved' = {}
    BY <1>0, <1>3, <2>1, <2>2 DEF ObjectsInv
  <2>8. TypeInv'
    <3>1. undefined' \in Seq(Unres) /\ beingLinked' \in Seq(Linking)
      BY <1>0, <2>1, PutBackElements
    <3>2. saved' \in [DOMAIN saved' -> LinkStates] /\ DOMAIN saved' \subseteq Loaded(objs, libs)
      BY <2>7
    <3>3. bound' = [m \in Loaded(objs, libs) |-> bound'[m]] /\ exited' \in BOOLEAN
      BY <1>0, <2>1, <2>6 DEF TypeInv
    <3> QED
      BY <2>3, <2>4, <2>6, <2>61, <3>1, <3>2, <3>3, TypeFrom
  <2>9. ReturnInv'
    BY <2>3 DEF ReturnInv
  <2>10. ObjectsInv'
    <3>1. ASSUME NEW o \in ToSet(objs) \ {None}
          PROVE  state'[o] # "UNLINKED"
      <4>1. o \in Loaded(objs, libs) /\ o \in ToSet(objects) \ {None} /\ o # b
        BY <2>4 DEF Loaded
      <4> QED
        BY <1>0, <2>2, <2>6, <4>1 DEF ObjectsInv
    <3> QED
      BY <2>3, <2>6, <2>7, <3>1 DEF ObjectsInv
  <2> QED
    BY <2>3, <2>8, <2>9, <2>10 DEF BaseInv
<1> QED
  BY <1>2, <1>3

(* A module that is loaded, and no object, is there with its library.        *)
LEMMA LibraryLoaded ==
  ASSUME TypeInv, NEW m \in Loaded(objects, libs), m \notin Objects
  PROVE  /\ LibraryOf(m) \in Libraries /\ m \in ToSet(Modules[LibraryOf(m)])
         /\ ToSet(Modules[LibraryOf(m)]) \subseteq Loaded(objects, libs)
         /\ ToSet(Modules[LibraryOf(m)]) \subseteq LibraryModules
         /\ \E i \in DOMAIN libs : libs[i].lib = LibraryOf(m)
<1>1. objects \in Seq(Objects \cup {None}) /\ libs \in Seq(LibEntries)
  BY DEF TypeInv
<1>2. m \in InLibraries(libs)
  BY <1>1 DEF Loaded, ToSet
<1>3. PICK i \in DOMAIN libs : m \in ToSet(Modules[libs[i].lib])
  BY <1>2 DEF InLibraries
<1> DEFINE l == libs[i].lib
<1>4. l \in Libraries
  <2>1. libs[i] \in LibEntries
    BY <1>1
  <2> QED
    BY <2>1 DEF LibEntries
<1>5. LibraryOf(m) = l
  BY <1>3, <1>4, LibraryOfModule
<1>6. ToSet(Modules[l]) \subseteq InLibraries(libs)
  BY DEF InLibraries
<1>7. ToSet(Modules[l]) \subseteq LibraryModules
  BY <1>4 DEF LibraryModules
<1> QED
  BY <1>3, <1>4, <1>5, <1>6, <1>7 DEF Loaded

(* What is to be linked is UNLINKED yet, and in a library.                   *)
LEMMA ToLinkElements ==
  ASSUME TypeInv, NEW m \in Loaded(objects, libs),
         m \in Objects => state[m] # "UNLINKED"
  PROVE  /\ ToLink(m) \in Seq(AllModules)
         /\ ToSet(ToLink(m)) \subseteq Loaded(objects, libs) \ Objects
         /\ \A n \in ToSet(ToLink(m)) : /\ state[n] = "UNLINKED"
                                        /\ m \notin Objects
                                        /\ n \in ToSet(Modules[LibraryOf(m)])
         /\ state[m] = "UNLINKED" => m \in ToSet(ToLink(m))
         /\ state[m] # "UNLINKED" => ToLink(m) = << >>
<1>1. CASE state[m] # "UNLINKED"
  <2>1. ToLink(m) = << >>
    BY <1>1 DEF ToLink
  <2> QED
    BY <1>1, <2>1 DEF ToSet
<1>2. CASE state[m] = "UNLINKED"
  <2> DEFINE l    == LibraryOf(m)
             init == InitModule[l]
  <2>1. m \notin Objects
    BY <1>2
  <2>2. /\ l \in Libraries /\ m \in ToSet(Modules[l])
        /\ ToSet(Modules[l]) \subseteq Loaded(objects, libs)
        /\ ToSet(Modules[l]) \subseteq LibraryModules
    BY <2>1, LibraryLoaded
  <2>3. init \in ToSet(Modules[l]) \cup {None}
    BY <2>2, LinkAssumption
  <2>4. \/ ToLink(m) = <<m>>
        \/ init # None /\ state[init] = "UNLINKED" /\ ToLink(m) = <<m, init>>
    BY <1>2 DEF ToLink
  <2>5. Objects \cap LibraryModules = {} /\ LibraryModules \subseteq AllModules
    BY LinkAssumption DEF AllModules
  <2> HIDE DEF l, init
  <2>6. CASE ToLink(m) = <<m>>
    <3>1. ToSet(ToLink(m)) = {m} /\ ToLink(m) \in Seq(AllModules)
      BY <2>2, <2>5, <2>6 DEF ToSet
    <3> QED
      BY <1>2, <2>1, <2>2, <3>1 DEF l
  <2>7. CASE init # None /\ state[init] = "UNLINKED" /\ ToLink(m) = <<m, init>>
    <3>1. ToSet(ToLink(m)) = {m, init} /\ ToLink(m) \in Seq(AllModules)
      BY <2>2, <2>3, <2>5, <2>7 DEF ToSet
    <3> QED
      BY <1>2, <2>1, <2>2, <2>3, <2>5, <2>7, <3>1 DEF l
  <2> QED
    BY <2>4, <2>6, <2>7
<1> QED
  BY <1>1, <1>2

(* States are saved as they are, ...                                         *)
LEMMA SavedElements ==
  ASSUME TypeInv, NEW m \in Loaded(objects, libs)
  PROVE  /\ DOMAIN SavedWith(m) \subseteq Loaded(objects, libs)
         /\ SavedWith(m) \in [DOMAIN SavedWith(m) -> LinkStates]
         /\ \A n : Over(SavedWith(m), state)[n] = Over(saved, state)[n]
                     \/ n \notin Loaded(objects, libs)
         /\ \A n \in DOMAIN SavedWith(m) :
              \/ n \in DOMAIN saved /\ SavedWith(m)[n] = saved[n]
              \/ /\ n = m \/ (m \notin Objects /\ n \in ToSet(Modules[LibraryOf(m)]))
                 /\ SavedWith(m)[n] = state[n]
                 /\ m \notin Objects =>
                      ~ \E i \in DOMAIN libs : libs[i].lib = LibraryOf(m) /\ libs[i].remove
         /\ returnOnError /\ m \notin Objects =>
              \/ \E i \in DOMAIN libs : libs[i].lib = LibraryOf(m) /\ libs[i].remove
              \/ ToSet(Modules[LibraryOf(m)]) \subseteq DOMAIN SavedWith(m)
<1> DEFINE ms     == IF m \in Objects THEN {m} ELSE ToSet(Modules[LibraryOf(m)])
           marked == m \notin Objects /\ \E i \in DOMAIN libs :
                       libs[i].lib = LibraryOf(m) /\ libs[i].remove
<1>1. /\ DOMAIN saved \subseteq Loaded(objects, libs)
      /\ saved \in [DOMAIN saved -> LinkStates]
      /\ state \in [Loaded(objects, libs) -> LinkStates]
  BY DEF TypeInv
<1>2. ms \subseteq Loaded(objects, libs)
  BY LibraryLoaded
<1>3. SavedWith(m) = IF returnOnError /\ ~marked THEN Over(saved, Restrict(state, ms)) ELSE saved
  BY DEF SavedWith
<1>4. ms = {m} \/ (m \notin Objects /\ ms = ToSet(Modules[LibraryOf(m)]))
  OBVIOUS
<1>5. m \notin Objects => /\ ms = ToSet(Modules[LibraryOf(m)])
                          /\ marked <=> \E i \in DOMAIN libs :
                               libs[i].lib = LibraryOf(m) /\ libs[i].remove
  OBVIOUS
<1> HIDE DEF ms, marked
<1>6. CASE returnOnError /\ ~marked
  <2>1. /\ DOMAIN SavedWith(m) = DOMAIN saved \cup ms
        /\ \A n \in DOMAIN saved : SavedWith(m)[n] = saved[n]
        /\ \A n \in ms \ DOMAIN saved : SavedWith(m)[n] = state[n]
        /\ SavedWith(m) = [n \in DOMAIN saved \cup ms |-> SavedWith(m)[n]]
    BY <1>3, <1>6 DEF Over, Restrict
  <2>2. \A n \in DOMAIN saved \cup ms : SavedWith(m)[n] \in LinkStates
    BY <1>1, <1>2, <2>1
  <2>3. SavedWith(m) \in [DOMAIN SavedWith(m) -> LinkStates]
    BY <2>1, <2>2
  <2>4. \A n \in Loaded(objects, libs) :
          Over(SavedWith(m), state)[n] = Over(saved, state)[n]
    BY <1>1, <1>2, <2>1 DEF Over
  <2> QED
    BY <1>1, <1>2, <1>4, <1>5, <1>6, <2>1, <2>3, <2>4
<1>7. CASE ~(returnOnError /\ ~marked)
  <2>1. SavedWith(m) = saved
    BY <1>3, <1>7
  <2> QED
    BY <1>1, <1>5, <1>7, <2>1
<1> QED
  BY <1>6, <1>7

(* ... of objects after they were linked.                                    *)
LEMMA SavedObjects ==
  ASSUME TypeInv, ObjectsInv, Phase = "resolve", NEW m \in Loaded(objects, libs)
  PROVE  /\ \A o \in Objects \cap DOMAIN SavedWith(m) : SavedWith(m)[o] # "UNLINKED"
         /\ m \in Objects => state[m] # "UNLINKED"
<1>1. objects \in Seq(Objects \cup {None}) /\ libs \in Seq(LibEntries)
  BY DEF TypeInv
<1>2. m \in Objects => state[m] # "UNLINKED"
  <2> HAVE m \in Objects
  <2>1. m \in ToSet(objects) \ {None}
    BY <1>1, LoadedAreModules
  <2> QED
    BY <2>1 DEF ObjectsInv
<1>3. ASSUME NEW o \in Objects \cap DOMAIN SavedWith(m)
      PROVE  SavedWith(m)[o] # "UNLINKED"
  <2>1. \/ o \in DOMAIN saved /\ SavedWith(m)[o] = saved[o]
        \/ /\ o = m \/ (m \notin Objects /\ o \in ToSet(Modules[LibraryOf(m)]))
           /\ SavedWith(m)[o] = state[o]
    BY <1>3, SavedElements
  <2>2. ~(m \notin Objects /\ o \in ToSet(Modules[LibraryOf(m)]))
    BY LibraryLoaded, LinkAssumption
  <2> QED
    BY <1>2, <2>1, <2>2 DEF ObjectsInv
<1> QED
  BY <1>2, <1>3

(* An undefined symbol is found.                                             *)
LEMMA ResolveBase ==
  ASSUME BaseInv, NEW t \in Threads, Resolve(t)
  PROVE  BaseInv'
<1>0. TypeInv /\ FramesInv /\ ReturnInv /\ ObjectsInv
  BY DEF BaseInv
<1>1. PICK i \in DOMAIN undefined :
        LET m     == Lookup(undefined[i].sym)
            ms    == ToLink(m)
            moved == Append(beingLinked, LinkedTo(undefined[i], m))
        IN /\ In(t, "resolve") /\ Found(i)
           /\ \/ Exit
              \/ /\ returnOnError /\ DOMAIN ms # {}
                 /\ undefined' = RemoveAt(undefined, i) /\ beingLinked' = moved
                 /\ saved' = SavedWith(m) /\ GoTo(t, "backOut")
                 /\ initBound' \subseteq initBound \cup {LibraryOf(m)}
                 /\ UNCHANGED <<holder, returnOnError, objects, private, libs, state,
                                bound, before, exited>>
              \/ /\ undefined' = WithUndefined(RemoveAt(undefined, i), ms)
                 /\ beingLinked' = WithBeingLinked(moved, ms)
                 /\ state' = Over([n \in ToSet(ms) |-> "BEING_LINKED"], state)
                 /\ initBound' = IF ms = << >> THEN initBound
                                 ELSE initBound \cup {LibraryOf(m)}
                 /\ saved' = SavedWith(m)
                 /\ UNCHANGED <<holder, returnOnError, objects, private, libs, bound,
                                at, before, exited>>
  BY DEF Resolve
<1> DEFINE m     == Lookup(undefined[i].sym)
           ms    == ToLink(m)
           moved == Append(beingLinked, LinkedTo(undefined[i], m))
<1>2. /\ undefined \in Seq(Unres) /\ beingLinked \in Seq(Linking)
      /\ undefined[i] \in Unres
      /\ state \in [Loaded(objects, libs) -> LinkStates]
  BY <1>0 DEF TypeInv
<1>3. m \in Loaded(objects, libs) /\ m \in AllModules
  BY <1>0, <1>1, LookupType DEF Found, Lookup
<1>4. holder = t /\ Phase = "resolve"
  BY <1>0, <1>1, InsideIs DEF In
<1>5. /\ RemoveAt(undefined, i) \in Seq(Unres) /\ moved \in Seq(Linking)
  <2>1. LinkedTo(undefined[i], m) \in Linking
    BY <1>2, <1>3 DEF LinkedTo, Linking, Unres
  <2> QED
    BY <1>2, <2>1, RemoveAtElements, AppendElements
<1> HIDE DEF m, moved
<1>6. /\ DOMAIN SavedWith(m) \subseteq Loaded(objects, libs)
      /\ SavedWith(m) \in [DOMAIN SavedWith(m) -> LinkStates]
  BY <1>0, <1>3, SavedElements
<1>7. /\ \A o \in Objects \cap DOMAIN SavedWith(m) : SavedWith(m)[o] # "UNLINKED"
      /\ m \in Objects => state[m] # "UNLINKED"
  BY <1>0, <1>3, <1>4, SavedObjects
<1>8. CASE Exit
  BY <1>8, ExitBase
<1>9. CASE /\ returnOnError /\ DOMAIN ms # {}
           /\ undefined' = RemoveAt(undefined, i) /\ beingLinked' = moved
           /\ saved' = SavedWith(m) /\ GoTo(t, "backOut")
           /\ initBound' \subseteq initBound \cup {LibraryOf(m)}
           /\ UNCHANGED <<holder, returnOnError, objects, private, libs, state, bound,
                          before, exited>>
  <2>1. FramesInv' /\ Phase' = "backOut" /\ Bundle' = Bundle
    BY <1>0, <1>4, <1>9, WentTo DEF Inside, Phases
  <2>2. UNCHANGED <<objects, private, libs, state, bound, returnOnError, holder, exited>>
    BY <1>9
  <2>21. initBound' \subseteq Libraries
    <3>1. m \notin Objects
      <4>1. state[m] # "UNLINKED" => ms = << >>
        BY <1>0, <1>3, <1>7, ToLinkElements
      <4> QED
        BY <1>7, <1>9, <4>1
    <3> QED
      BY <1>0, <1>3, <1>9, <3>1, LibraryLoaded DEF TypeInv
  <2>3. TypeInv'
    BY <1>0, <1>5, <1>6, <1>9, <2>2, <2>21 DEF TypeInv
  <2>4. ReturnInv'
    BY <1>0, <1>4, <1>9, <2>1, <2>2 DEF ReturnInv
  <2>5. ObjectsInv'
    BY <1>0, <1>4, <1>7, <1>9, <2>1, <2>2 DEF ObjectsInv
  <2> QED
    BY <2>1, <2>3, <2>4, <2>5 DEF BaseInv
<1>10. CASE /\ undefined' = WithUndefined(RemoveAt(undefined, i), ms)
            /\ beingLinked' = WithBeingLinked(moved, ms)
            /\ state' = Over([n \in ToSet(ms) |-> "BEING_LINKED"], state)
            /\ initBound' = IF ms = << >> THEN initBound
                            ELSE initBound \cup {LibraryOf(m)}
            /\ saved' = SavedWith(m)
            /\ UNCHANGED <<holder, returnOnError, objects, private, libs, bound,
                           at, before, exited>>
  <2>1. /\ ms \in Seq(AllModules)
        /\ ToSet(ms) \subseteq Loaded(objects, libs) \ Objects
        /\ ms # << >> => m \notin Objects
    <3>1. /\ ms \in Seq(AllModules)
          /\ ToSet(ms) \subseteq Loaded(objects, libs) \ Objects
          /\ state[m] # "UNLINKED" => ms = << >>
      BY <1>0, <1>3, <1>7, ToLinkElements
    <3> QED
      BY <1>7, <3>1
  <2> HIDE DEF ms
  <2>2. FramesInv' /\ Phase' = Phase /\ Bundle' = Bundle
    BY <1>0, <1>10, NobodyMoved
  <2>3. undefined' \in Seq(Unres)
    BY <1>0, <1>5, <1>10, <2>1, UndefinedReferences
  <2>4. beingLinked' \in Seq(Linking)
    BY <1>0, <1>5, <1>10, <2>1, BeingLinkedReferences
  <2>5. /\ state' = [n \in Loaded(objects, libs) |-> state'[n]]
        /\ \A n \in Loaded(objects, libs) :
             state'[n] = IF n \in ToSet(ms) THEN "BEING_LINKED" ELSE state[n]
    BY <1>2, <1>10, <2>1 DEF Over
  <2>6. state' \in [Loaded(objects, libs) -> LinkStates]
    BY <1>2, <2>5 DEF LinkStates
  <2>7. initBound' \subseteq Libraries
    BY <1>0, <1>3, <1>10, <2>1, LibraryLoaded DEF TypeInv
  <2>8. TypeInv'
    BY <1>0, <1>6, <1>10, <2>3, <2>4, <2>6, <2>7 DEF TypeInv
  <2>9. ReturnInv'
    BY <1>0, <1>10, <2>2 DEF ReturnInv
  <2>10. ObjectsInv'
    <3>1. \A o \in ToSet(objects) \ {None} : o \in Loaded(objects, libs)
      BY DEF Loaded
    <3>2. \A o \in ToSet(objects) \ {None} : state'[o] # "UNLINKED"
      BY <1>0, <1>4, <2>5, <3>1 DEF ObjectsInv
    <3> QED
      BY <1>4, <1>7, <1>10, <2>2, <3>2 DEF ObjectsInv
  <2> QED
    BY <2>2, <2>8, <2>9, <2>10 DEF BaseInv
<1> QED
  BY <1>1, <1>8, <1>9, <1>10 DEF m, ms, moved

(* Nothing more is found.                                                    *)
LEMMA ResolvedBase ==
  ASSUME BaseInv, NEW t \in Threads, Resolved(t)
  PROVE  BaseInv'
<1> DEFINE ph == IF returnOnError /\ undefined # << >> THEN "backOut" ELSE "relocate"
<1>0. TypeInv /\ FramesInv /\ ReturnInv /\ ObjectsInv
  BY DEF BaseInv
<1>1. /\ holder = t /\ at[t].phase = "resolve" /\ GoTo(t, ph)
      /\ UNCHANGED <<holder, returnOnError, objects, private, libs, state, initBound,
                     undefined, beingLinked, saved, bound, exited>>
  BY DEF Resolved, In, images, lists
<1>2. Phase = "resolve"
  BY <1>0, <1>1, InsideIs
<1>3. ph \in Inside \ {"link", "unlink"} /\ (ph = "backOut" => returnOnError) /\ ph # "spin"
  BY DEF Inside, Phases
<1> HIDE DEF ph
<1>4. FramesInv' /\ Phase' = ph /\ Bundle' = Bundle
  BY <1>0, <1>1, <1>3, WentTo
<1>5. TypeInv'
  BY <1>0, <1>1 DEF TypeInv
<1>6. ReturnInv'
  BY <1>0, <1>1, <1>3, <1>4 DEF ReturnInv
<1>7. ObjectsInv'
  BY <1>0, <1>1, <1>2, <1>3, <1>4 DEF ObjectsInv
<1> QED
  BY <1>4, <1>5, <1>6, <1>7 DEF BaseInv

(* The states that were saved are those of modules.                          *)
LEMMA Restored ==
  ASSUME TypeInv
  PROVE  /\ RestoredStates \in [Loaded(objects, libs) -> LinkStates]
         /\ \A m \in DOMAIN saved : RestoredStates[m] = saved[m]
         /\ \A m \in Loaded(objects, libs) \ DOMAIN saved : RestoredStates[m] = state[m]
<1>1. /\ DOMAIN saved \subseteq Loaded(objects, libs)
      /\ saved \in [DOMAIN saved -> LinkStates]
      /\ state \in [Loaded(objects, libs) -> LinkStates]
  BY DEF TypeInv
<1>2. /\ DOMAIN RestoredStates = Loaded(objects, libs)
      /\ RestoredStates = [m \in Loaded(objects, libs) |-> RestoredStates[m]]
      /\ \A m \in DOMAIN saved : RestoredStates[m] = saved[m]
      /\ \A m \in Loaded(objects, libs) \ DOMAIN saved : RestoredStates[m] = state[m]
  BY <1>1 DEF RestoredStates, Over
<1>3. \A m \in Loaded(objects, libs) : RestoredStates[m] \in LinkStates
  BY <1>1, <1>2
<1> QED
  BY <1>2, <1>3

(* The changes are backed out.                                               *)
LEMMA BackedOut ==
  ASSUME TypeInv, FramesInv, ReturnInv, NEW t \in Threads, BackOut(t)
  PROVE  LET b    == at[t].bundle
             objs == WithoutBundle(objects, b)
             ls   == WithoutRemoveOnError(libs)
         IN /\ holder = t /\ Phase = "backOut" /\ returnOnError
            /\ b \in Bundles /\ b = Bundle
            /\ Removable(PutBack)
            /\ FramesInv' /\ Phase' = "out" /\ holder' = None /\ ~returnOnError'
            /\ at'[t] = Out /\ \A u \in Threads \ {t} : at'[u] = at[u]
            /\ objs \in Seq(Objects \cup {None}) /\ ls \in Seq(LibEntries)
            /\ ToSet(objs) \ {None} = ToSet(objects) \ {None, b}
            /\ Loaded(objs, ls) \subseteq Loaded(objects, libs) \ {b}
            /\ objects' = objs /\ libs' = ls
            /\ private' = private \cap Loaded(objs, ls)
            /\ DOMAIN state' = Loaded(objs, ls)
            /\ \A m \in Loaded(objs, ls) : state'[m] = RestoredStates[m]
            /\ bound' = [m \in Loaded(objs, ls) |-> bound[m]]
            /\ undefined' = << >> /\ beingLinked' = << >> /\ saved' = << >>
            /\ before' = before /\ exited' = exited /\ ~exited
            /\ TypeInv'
<1> DEFINE b    == at[t].bundle
           objs == WithoutBundle(objects, b)
           ls   == WithoutRemoveOnError(libs)
<1>1. /\ holder = t /\ at[t].phase = "backOut" /\ ~exited
      /\ Removable(PutBack)
      /\ undefined' = << >> /\ beingLinked' = << >> /\ saved' = << >>
      /\ Keep(objs, ls, RestoredStates)
      /\ Leave(t, ls) /\ Release(ls)
      /\ UNCHANGED <<before, exited>>
  BY DEF BackOut, In, Leave
<1>2. Phase = "backOut" /\ Bundle = b
  BY <1>1, InsideIs
<1>3. returnOnError /\ b \in Bundles
  BY <1>2 DEF ReturnInv
<1>4. /\ FramesInv' /\ Phase' = "out" /\ holder' = None /\ ~returnOnError'
      /\ returnOnError' \in BOOLEAN
      /\ at'[t] = Out /\ \A u \in Threads \ {t} : at'[u] = at[u]
  BY <1>1, Left DEF Release
<1>5. /\ objs \in Seq(Objects \cup {None})
      /\ ToSet(objs) \ {None} = ToSet(objects) \ {None, b}
      /\ Loaded(objs, libs) = Loaded(objects, libs) \ {b}
  BY <1>3, LoadedWithout
<1>6. libs \in Seq(LibEntries)
  BY DEF TypeInv
<1>7. ls \in Seq(LibEntries) /\ InLibraries(ls) \subseteq InLibraries(libs) /\ libs' = ls
  <2>1. /\ ls \in Seq(LibEntries) /\ Len(ls) <= Len(libs)
        /\ \A i \in 1 .. Len(ls) : ls[i] = libs[i] /\ ~libs[i].remove
    BY <1>6, LibrariesLeft
  <2> HIDE DEF ls
  <2>2. libs' = ls
    <3>1. \A i \in DOMAIN ls : ~ls[i].remove
      BY <2>1
    <3> QED
      BY <1>1, <2>1, <3>1, ReleasedLibraries
  <2> QED
    BY <1>6, <2>1, <2>2, InLibrariesLeft
<1> HIDE DEF objs, ls
<1>8. Loaded(objs, ls) \subseteq Loaded(objects, libs) \ {b}
  BY <1>5, <1>7 DEF Loaded
<1>9. /\ objects' = objs /\ libs' = ls
      /\ private' = private \cap Loaded(objs, ls) /\ private' \subseteq Bundles
      /\ state' \in [Loaded(objs, ls) -> LinkStates]
      /\ \A m \in Loaded(objs, ls) : state'[m] = RestoredStates[m]
      /\ bound' = [m \in Loaded(objs, ls) |-> bound[m]]
      /\ initBound' \subseteq Libraries
  <2>1. \A m \in Loaded(objs, ls) : RestoredStates[m] \in LinkStates
    BY <1>8, Restored
  <2> QED
    BY <1>1, <1>5, <1>7, <2>1, KeptType
<1>10. TypeInv'
  <2>1. /\ undefined' \in Seq(Unres) /\ beingLinked' \in Seq(Linking)
        /\ saved' = << >> /\ DOMAIN saved' = {} /\ exited' \in BOOLEAN
    BY <1>1 DEF TypeInv
  <2>2. saved' \in [DOMAIN saved' -> LinkStates] /\ DOMAIN saved' \subseteq Loaded(objs, ls)
    BY <2>1
  <2>3. bound' = [m \in Loaded(objs, ls) |-> bound'[m]]
    BY <1>9
  <2> QED
    BY <1>4, <1>5, <1>7, <1>9, <2>1, <2>2, <2>3, TypeFrom
<1>11. DOMAIN state' = Loaded(objs, ls)
  BY <1>9
<1> QED
  BY <1>1, <1>2, <1>3, <1>4, <1>5, <1>7, <1>8, <1>9, <1>10, <1>11 DEF b, objs, ls

(* The backing out.                                                          *)
LEMMA BackOutBase ==
  ASSUME BaseInv, NEW t \in Threads, BackOut(t)
  PROVE  BaseInv'
<1> DEFINE b    == at[t].bundle
           objs == WithoutBundle(objects, b)
           ls   == WithoutRemoveOnError(libs)
<1>0. TypeInv /\ FramesInv /\ ReturnInv /\ ObjectsInv
  BY DEF BaseInv
<1>1. /\ Phase = "backOut"
      /\ FramesInv' /\ Phase' = "out" /\ ~returnOnError'
      /\ ToSet(objs) \ {None} = ToSet(objects) \ {None, b}
      /\ Loaded(objs, ls) \subseteq Loaded(objects, libs)
      /\ objects' = objs /\ \A m \in Loaded(objs, ls) : state'[m] = RestoredStates[m]
      /\ saved' = << >> /\ TypeInv'
  BY <1>0, BackedOut
<1> HIDE DEF b, objs, ls
<1>2. ReturnInv'
  BY <1>1 DEF ReturnInv
<1>3. ObjectsInv'
  <2>1. ASSUME NEW o \in ToSet(objs) \ {None}
        PROVE  state'[o] # "UNLINKED"
    <3>1. o \in Loaded(objs, ls) /\ o \in ToSet(objects) \ {None}
      BY <1>1 DEF Loaded
    <3>2. o \in Objects
      BY <1>0, <3>1 DEF TypeInv, ToSet
    <3>3. state[o] # "UNLINKED" /\ (o \in DOMAIN saved => saved[o] # "UNLINKED")
      BY <1>0, <1>1, <3>1, <3>2 DEF ObjectsInv
    <3>4. RestoredStates[o] # "UNLINKED"
      BY <1>0, <1>1, <3>1, <3>3, Restored
    <3> QED
      BY <1>1, <3>1, <3>4
  <2>2. DOMAIN saved' = {}
    BY <1>1
  <2> QED
    BY <1>1, <2>1, <2>2 DEF ObjectsInv
<1> QED
  BY <1>1, <1>2, <1>3 DEF BaseInv

(* The loop over what is not to be removed begins.                           *)
LEMMA BackOutForeverBase ==
  ASSUME BaseInv, NEW t \in Threads, BackOutForever(t)
  PROVE  BaseInv'
<1>0. TypeInv /\ FramesInv /\ ReturnInv /\ ObjectsInv
  BY DEF BaseInv
<1>1. /\ holder = t /\ at[t].phase = "backOut" /\ ~Removable(PutBack)
      /\ state' = RestoredStates
      /\ saved' = << >> /\ beingLinked' = << >>
      /\ undefined' = LET i == SelectInSeq(PutBack, LAMBDA e : ~e.remove)
                      IN SubSeq(PutBack, i, Len(PutBack))
      /\ GoTo(t, "spin")
      /\ UNCHANGED <<holder, returnOnError, objects, private, libs, initBound, bound, exited>>
  BY DEF BackOutForever, In
<1>2. Phase = "backOut" /\ returnOnError
  BY <1>0, <1>1, InsideIs DEF ReturnInv
<1>3. FramesInv' /\ Phase' = "spin" /\ Bundle' = Bundle
  BY <1>0, <1>1, WentTo DEF Inside, Phases
<1>4. undefined' \in Seq(Unres)
  BY <1>0, <1>1, RestOfPutBack
<1>5. /\ state' \in [Loaded(objects, libs) -> LinkStates]
      /\ \A m \in DOMAIN saved : state'[m] = saved[m]
      /\ \A m \in Loaded(objects, libs) \ DOMAIN saved : state'[m] = state[m]
  BY <1>0, <1>1, Restored
<1>6. DOMAIN saved' = {} /\ saved' = << >>
  BY <1>1
<1>7. TypeInv'
  <2>1. saved' \in [DOMAIN saved' -> LinkStates] /\ beingLinked' \in Seq(Linking)
    BY <1>1, <1>6
  <2> QED
    BY <1>0, <1>1, <1>4, <1>5, <1>6, <2>1 DEF TypeInv
<1>8. ReturnInv'
  BY <1>0, <1>1, <1>2, <1>3 DEF ReturnInv
<1>9. ObjectsInv'
  <2>1. ASSUME NEW o \in ToSet(objects) \ {None}
        PROVE  state'[o] # "UNLINKED"
    <3>1. o \in Loaded(objects, libs) /\ o \in Objects
      BY <1>0 DEF Loaded, TypeInv, ToSet
    <3> QED
      BY <1>0, <1>2, <1>5, <3>1 DEF ObjectsInv
  <2> QED
    BY <1>1, <1>3, <1>6, <2>1 DEF ObjectsInv
<1> QED
  BY <1>3, <1>7, <1>8, <1>9 DEF BaseInv

(* What is BEING_LINKED is relocated if all it needs is there.               *)
LEMMA RelocateBase ==
  ASSUME BaseInv, NEW t \in Threads, Relocate(t)
  PROVE  BaseInv'
<1>0. TypeInv /\ FramesInv /\ ReturnInv /\ ObjectsInv
  BY DEF BaseInv
<1>1. /\ holder = t /\ at[t].phase = "relocate"
      /\ state' = [m \in DOMAIN state |->
                     IF state[m] = "BEING_LINKED" /\ AllDefined(m) THEN "RELOCATED"
                                                                   ELSE state[m]]
      /\ bound' = [m \in DOMAIN bound |-> BoundAnew(m)]
      /\ beingLinked' = << >>
      /\ GoTo(t, "report")
      /\ UNCHANGED <<holder, returnOnError, objects, private, libs, initBound, undefined,
                     saved, exited>>
  BY DEF Relocate, In
<1>2. Phase = "relocate"
  BY <1>0, <1>1, InsideIs
<1>3. FramesInv' /\ Phase' = "report" /\ Bundle' = Bundle
  BY <1>0, <1>1, WentTo DEF Inside, Phases
<1>4. /\ DOMAIN state = Loaded(objects, libs) /\ DOMAIN bound = Loaded(objects, libs)
      /\ state \in [Loaded(objects, libs) -> LinkStates]
  BY <1>0 DEF TypeInv
<1>5. /\ state' \in [Loaded(objects, libs) -> LinkStates]
      /\ \A m \in Loaded(objects, libs) : state'[m] = "UNLINKED" => state[m] = "UNLINKED"
  BY <1>1, <1>4 DEF LinkStates
<1>6. bound' = [m \in Loaded(objects, libs) |-> bound'[m]]
  BY <1>1, <1>4
<1>7. TypeInv'
  <2>1. beingLinked' \in Seq(Linking)
    BY <1>1
  <2> QED
    BY <1>0, <1>1, <1>5, <1>6, <2>1 DEF TypeInv
<1>8. ReturnInv'
  BY <1>0, <1>1, <1>2, <1>3 DEF ReturnInv
<1>9. ObjectsInv'
  <2>1. \A o \in ToSet(objects) \ {None} : o \in Loaded(objects, libs)
    BY DEF Loaded
  <2> QED
    BY <1>0, <1>1, <1>2, <1>3, <1>5, <2>1 DEF ObjectsInv
<1> QED
  BY <1>3, <1>7, <1>8, <1>9 DEF BaseInv

(* The undefined handler is called, ...                                      *)
LEMMA CallHandlerBase ==
  ASSUME BaseInv, NEW t \in Threads, CallHandler(t)
  PROVE  BaseInv'
<1>0. TypeInv /\ FramesInv /\ ReturnInv /\ ObjectsInv
  BY DEF BaseInv
<1>1. CASE Exit
  BY <1>1, ExitBase
<1>2. CASE ~Exit
  <2>0. exited' = exited
    BY <1>2 DEF CallHandler
  <2>1. /\ FramesInv' /\ Phase \in {"report", "unlink"}
        /\ Phase' = "out" /\ holder' = None /\ ~returnOnError' /\ Release(libs)
        /\ UNCHANGED <<objects, private, state, initBound, undefined, beingLinked, saved,
                       bound>>
    BY <1>0, <2>0, CalledHandler DEF lists
  <2>2. returnOnError' \in BOOLEAN
    BY <2>1 DEF Release
  <2>3. TypeInv'
    <3>1. /\ libs' \in Seq(LibEntries)
          /\ Loaded(objects, libs') = Loaded(objects, libs)
      BY <1>0, <2>1, ReleasedLibraries DEF TypeInv
    <3> QED
      BY <1>0, <2>0, <2>1, <2>2, <3>1 DEF TypeInv
  <2>4. ReturnInv' /\ ObjectsInv'
    BY <1>0, <2>1 DEF ReturnInv, ObjectsInv
  <2> QED
    BY <2>1, <2>3, <2>4 DEF BaseInv
<1> QED
  BY <1>1, <1>2

(* ... and has returned.                                                     *)
LEMMA HandlerReturnsBase ==
  ASSUME BaseInv, NEW t \in Threads, HandlerReturns(t)
  PROVE  BaseInv'
<1>0. TypeInv /\ FramesInv /\ ReturnInv /\ ObjectsInv
  BY DEF BaseInv
<1>1. /\ FramesInv' /\ Phase = "out" /\ holder = None
      /\ Phase' \in {"report", "unlink"}
      /\ UNCHANGED <<returnOnError, objects, private, libs, state, initBound, undefined,
                     beingLinked, saved, bound, exited>>
  BY <1>0, HandlerReturned DEF images, lists
<1>2. TypeInv'
  BY <1>0, <1>1 DEF TypeInv
<1>3. ReturnInv' /\ ObjectsInv'
  BY <1>0, <1>1 DEF ReturnInv, ObjectsInv
<1> QED
  BY <1>1, <1>2, <1>3 DEF BaseInv

(* The link is done.                                                         *)
LEMMA EndOfLinkBase ==
  ASSUME BaseInv, NEW t \in Threads, EndOfLink(t)
  PROVE  /\ BaseInv'
         /\ Loaded(objects, libs') = Loaded(objects, libs)
<1>0. TypeInv /\ FramesInv /\ ReturnInv /\ ObjectsInv
  BY DEF BaseInv
<1>1. /\ holder = t /\ at[t].phase = "report" /\ Leave(t, libs) /\ Release(libs)
      /\ UNCHANGED <<objects, private, state, initBound, undefined, beingLinked, saved,
                     bound, exited>>
  BY DEF EndOfLink, In, lists, Leave
<1>2. Phase = "report"
  BY <1>0, <1>1, InsideIs
<1>3. FramesInv' /\ Phase' = "out" /\ holder' = None /\ ~returnOnError' /\ returnOnError' \in BOOLEAN
  BY <1>0, <1>1, Left DEF Release
<1>4. libs \in Seq(LibEntries)
  BY <1>0 DEF TypeInv
<1>7. libs' \in Seq(LibEntries) /\ Loaded(objects, libs') = Loaded(objects, libs)
  BY <1>1, <1>4, ReleasedLibraries
<1>8. TypeInv'
  BY <1>0, <1>1, <1>3, <1>7 DEF TypeInv
<1>9. ReturnInv' /\ ObjectsInv'
  BY <1>0, <1>1, <1>2, <1>3 DEF ReturnInv, ObjectsInv
<1> QED
  BY <1>3, <1>7, <1>8, <1>9 DEF BaseInv

(* A symbol is bound by name.                                                *)
LEMMA BindByNameBase ==
  ASSUME BaseInv, NEW t \in Threads, NEW s \in ByName, BindByName(t, s)
  PROVE  BaseInv'
<1>0. TypeInv /\ FramesInv /\ ReturnInv /\ ObjectsInv
  BY DEF BaseInv
<1>1. /\ Enter(t, "resolve", None) /\ undefined' = Append(undefined, Entry(s))
      /\ UNCHANGED <<returnOnError, objects, private, libs, state, initBound,
                     beingLinked, saved, bound, exited>>
  BY DEF BindByName, images
<1>2. FramesInv' /\ holder = None /\ Phase = "out" /\ Phase' = "resolve"
  BY <1>0, <1>1, Entered
<1>3. undefined' \in Seq(Unres)
  <2>1. returnOnError \in BOOLEAN /\ undefined \in Seq(Unres)
    BY <1>0 DEF TypeInv
  <2>2. Entry(s) \in Unres
    BY <2>1, SymbolsOfModules DEF Entry, Unres
  <2> QED
    BY <1>1, <2>1, <2>2
<1>4. TypeInv'
  BY <1>0, <1>1, <1>3 DEF TypeInv
<1>5. ReturnInv' /\ ObjectsInv'
  BY <1>0, <1>1, <1>2 DEF ReturnInv, ObjectsInv
<1> QED
  BY <1>2, <1>4, <1>5 DEF BaseInv

(* What becomes undefined with a public bundle is what is referred to.       *)
LEMMA ReferencedElements ==
  ASSUME TypeInv, NEW b \in Bundles
  PROVE  /\ Referenced(b) \in Seq(Symbols)
         /\ \A s \in ToSet(Referenced(b)) :
              s \in Defines[b] /\ \E m \in Loaded(objects, libs) : s \in ToSet(Needs[m])
         /\ [i \in DOMAIN Referenced(b) |-> Entry(Referenced(b)[i])] \in Seq(Unres)
         /\ \A e \in ToSet([i \in DOMAIN Referenced(b) |-> Entry(Referenced(b)[i])]) :
              e.remove = returnOnError /\ e.sym \in ToSet(Referenced(b))
         /\ \A s \in Defines[b] :
              (\E m \in Loaded(objects, libs) :
                 s \in ToSet(Needs[m]) /\ (m \in Objects \/ Linked(m)))
                => s \in ToSet(Referenced(b))
<1> DEFINE refer(s) == {m \in DOMAIN state : s \in ToSet(Needs[m])}
           S == {s \in Defines[b] : \E m \in refer(s) : m \in Objects \/ Linked(m)}
           r == [i \in DOMAIN Referenced(b) |-> Entry(Referenced(b)[i])]
<1>1. b \in AllModules /\ DOMAIN state = Loaded(objects, libs)
  BY DEF AllModules, Objects, TypeInv
<1>2. IsFiniteSet(Defines[b]) /\ Defines[b] \subseteq Symbols
  BY <1>1, LinkAssumption, SymbolsOfModules
<1>3. S \subseteq Defines[b] /\ IsFiniteSet(S)
  BY <1>2, FS_Subset
<1>4. Referenced(b) = SetToSeq(S)
  BY DEF Referenced
<1>5. \A s : s \in S <=> s \in Defines[b] /\ \E m \in Loaded(objects, libs) :
                 s \in ToSet(Needs[m]) /\ (m \in Objects \/ Linked(m))
  BY <1>1
<1> HIDE DEF S
<1>6. Referenced(b) \in Seq(S) /\ ToSet(Referenced(b)) = S
  BY <1>3, <1>4, SetToSeqElements
<1>7. Referenced(b) \in Seq(Symbols)
  BY <1>2, <1>3, <1>6
<1>8. /\ r = [i \in DOMAIN Referenced(b) |-> r[i]]
      /\ \A i \in DOMAIN Referenced(b) : r[i] = Entry(Referenced(b)[i])
  OBVIOUS
<1>9. \A i \in DOMAIN Referenced(b) :
        /\ r[i] \in Unres /\ r[i].remove = returnOnError
        /\ r[i].sym \in ToSet(Referenced(b))
  <2> TAKE i \in DOMAIN Referenced(b)
  <2>1. Referenced(b)[i] \in Symbols /\ Referenced(b)[i] \in ToSet(Referenced(b))
    BY <1>7 DEF ToSet
  <2> QED
    BY <1>8, <2>1 DEF Entry, Unres, TypeInv
<1> HIDE DEF r
<1>10. r \in Seq(Unres) /\ DOMAIN r = DOMAIN Referenced(b)
  BY <1>7, <1>8, <1>9, MadeFrom
<1>11. \A e \in ToSet(r) : e.remove = returnOnError /\ e.sym \in ToSet(Referenced(b))
  BY <1>9, <1>10 DEF ToSet
<1> QED
  BY <1>5, <1>6, <1>7, <1>10, <1>11 DEF r

(* A bundle is to be unlinked.                                               *)
LEMMA UnlinkModuleBase ==
  ASSUME BaseInv, NEW t \in Threads, NEW b \in Bundles, UnlinkModule(t, b)
  PROVE  BaseInv'
<1>0. TypeInv /\ FramesInv /\ ReturnInv /\ ObjectsInv
  BY DEF BaseInv
<1> DEFINE r == [i \in DOMAIN Referenced(b) |-> Entry(Referenced(b)[i])]
<1>1. /\ Enter(t, "unlink", b)
      /\ undefined' = IF b \in private THEN undefined ELSE undefined \o r
      /\ UNCHANGED <<returnOnError, objects, private, libs, state, initBound,
                     beingLinked, saved, bound, exited>>
  BY DEF UnlinkModule, images
<1>2. FramesInv' /\ holder = None /\ Phase = "out" /\ Phase' = "unlink"
  BY <1>0, <1>1, Entered
<1>3. r \in Seq(Unres)
  BY <1>0, ReferencedElements
<1> HIDE DEF r
<1>4. undefined' \in Seq(Unres)
  <2>1. undefined \in Seq(Unres)
    BY <1>0 DEF TypeInv
  <2> QED
    BY <1>1, <1>3, <2>1, ConcatElements
<1>5. TypeInv'
  BY <1>0, <1>1, <1>4 DEF TypeInv
<1>6. ReturnInv' /\ ObjectsInv'
  BY <1>0, <1>1, <1>2 DEF ReturnInv, ObjectsInv
<1> QED
  BY <1>2, <1>5, <1>6 DEF BaseInv

(* The bundle is gone, and no library with it.                               *)
LEMMA Unlinked ==
  ASSUME TypeInv, FramesInv, ReturnInv, NEW t \in Threads, EndOfUnlink(t)
  PROVE  LET b    == at[t].bundle
             objs == WithoutBundle(objects, b)
         IN /\ holder = t /\ Phase = "unlink" /\ b \in Bundles /\ b = Bundle
            /\ b \in private \/ undefined = << >>
            /\ FramesInv' /\ Phase' = "out" /\ holder' = None /\ ~returnOnError'
            /\ at'[t] = Out /\ \A u \in Threads \ {t} : at'[u] = at[u]
            /\ objs \in Seq(Objects \cup {None})
            /\ ToSet(objs) \ {None} = ToSet(objects) \ {None, b}
            /\ Loaded(objs, libs) = Loaded(objects, libs) \ {b}
            /\ objects' = objs /\ libs' = libs
            /\ private' = private \cap Loaded(objs, libs)
            /\ DOMAIN state' = Loaded(objs, libs)
            /\ \A m \in Loaded(objs, libs) : state'[m] = state[m]
            /\ bound' = [m \in Loaded(objs, libs) |-> bound[m]]
            /\ saved' = [m \in DOMAIN saved \ {b} |-> saved[m]]
            /\ UNCHANGED <<undefined, beingLinked, before, exited>>
            /\ TypeInv'
<1> DEFINE b    == at[t].bundle
           objs == WithoutBundle(objects, b)
<1>1. /\ holder = t /\ at[t].phase = "unlink"
      /\ b \in private \/ undefined = << >>
      /\ Keep(objs, libs, state)
      /\ saved' = [m \in DOMAIN saved \ {b} |-> saved[m]]
      /\ Leave(t, libs) /\ Release(libs)
      /\ UNCHANGED <<undefined, beingLinked, before, exited>>
  BY DEF EndOfUnlink, In, lists, Restrict, Leave
<1>2. Phase = "unlink" /\ Bundle = b /\ b \in Bundles
  BY <1>1, InsideIs DEF FramesInv
<1>4. /\ FramesInv' /\ Phase' = "out" /\ holder' = None /\ ~returnOnError'
      /\ returnOnError' \in BOOLEAN
      /\ at'[t] = Out /\ \A u \in Threads \ {t} : at'[u] = at[u]
  BY <1>1, Left DEF Release
<1>5. /\ objs \in Seq(Objects \cup {None})
      /\ ToSet(objs) \ {None} = ToSet(objects) \ {None, b}
      /\ Loaded(objs, libs) = Loaded(objects, libs) \ {b}
  BY <1>2, LoadedWithout
<1>6. libs \in Seq(LibEntries) /\ libs' = libs
  <2>1. ~returnOnError /\ libs \in Seq(LibEntries)
    BY <1>2 DEF ReturnInv, TypeInv
  <2> QED
    BY <1>1, <2>1, ReleasedLibraries
<1> HIDE DEF objs, b
<1>7. /\ objects' = objs /\ libs' = libs
      /\ private' = private \cap Loaded(objs, libs) /\ private' \subseteq Bundles
      /\ state' \in [Loaded(objs, libs) -> LinkStates]
      /\ \A m \in Loaded(objs, libs) : state'[m] = state[m]
      /\ bound' = [m \in Loaded(objs, libs) |-> bound[m]]
      /\ initBound' \subseteq Libraries
  <2>1. \A m \in Loaded(objs, libs) : state[m] \in LinkStates
    BY <1>5 DEF TypeInv
  <2> QED
    BY <1>1, <1>5, <1>6, <2>1, KeptType
<1>8. TypeInv'
  <2>1. /\ undefined' \in Seq(Unres) /\ beingLinked' \in Seq(Linking)
        /\ exited' \in BOOLEAN
    BY <1>1 DEF TypeInv
  <2>2. saved' \in [DOMAIN saved' -> LinkStates] /\ DOMAIN saved' \subseteq Loaded(objs, libs)
    BY <1>1, <1>5 DEF TypeInv
  <2>3. bound' = [m \in Loaded(objs, libs) |-> bound'[m]]
    BY <1>7
  <2> QED
    BY <1>4, <1>5, <1>6, <1>7, <2>1, <2>2, <2>3, TypeFrom
<1>9. DOMAIN state' = Loaded(objs, libs)
  BY <1>7
<1> QED
  BY <1>1, <1>2, <1>4, <1>5, <1>7, <1>8, <1>9 DEF b, objs

(* The end of an unlinking.                                                  *)
LEMMA EndOfUnlinkBase ==
  ASSUME BaseInv, NEW t \in Threads, EndOfUnlink(t)
  PROVE  BaseInv'
<1> DEFINE b    == at[t].bundle
           objs == WithoutBundle(objects, b)
<1>0. TypeInv /\ FramesInv /\ ReturnInv /\ ObjectsInv
  BY DEF BaseInv
<1>1. /\ Phase = "unlink"
      /\ FramesInv' /\ Phase' = "out" /\ ~returnOnError'
      /\ ToSet(objs) \ {None} = ToSet(objects) \ {None, b}
      /\ objects' = objs /\ \A m \in Loaded(objs, libs) : state'[m] = state[m]
      /\ saved' = [m \in DOMAIN saved \ {b} |-> saved[m]] /\ TypeInv'
  BY <1>0, Unlinked
<1> HIDE DEF b, objs
<1>2. ReturnInv'
  BY <1>1 DEF ReturnInv
<1>3. ObjectsInv'
  <2>1. \A o \in ToSet(objs) \ {None} : o \in Loaded(objs, libs) /\ o \in ToSet(objects) \ {None}
    BY <1>1 DEF Loaded
  <2> QED
    BY <1>0, <1>1, <2>1 DEF ObjectsInv
<1> QED
  BY <1>1, <1>2, <1>3 DEF BaseInv

(* Types, frames and the states of objects are kept by every step.           *)
LEMMA BaseStep ==
  ASSUME BaseInv, [Next]_vars
  PROVE  BaseInv'
<1>1. CASE UNCHANGED vars
  <2>1. UNCHANGED <<holder, returnOnError, objects, private, libs, state, initBound,
                    undefined, beingLinked, saved, bound, at, exited>>
    BY <1>1 DEF vars, images, lists
  <2> QED
    BY <2>1 DEF BaseInv, TypeInv, FramesInv, ReturnInv, ObjectsInv, Phase, Bundle
<1>2. ASSUME NEW t \in Threads, Call(t) \/ Step(t) \/ HandlerReturns(t)
      PROVE  BaseInv'
  <2>1. ASSUME NEW b \in Bundles, NEW o \in LinkOptions,
               LinkModule(t, b, o[1], o[2]) \/ LinkWithMissing(t, b, o[1])
        PROVE  BaseInv'
    <3>1. o[1] \in BOOLEAN /\ o[2] \in BOOLEAN
      BY LinkAssumption
    <3> QED
      BY <2>1, <3>1, LinkModuleBase, LinkWithMissingBase
  <2>2. ASSUME NEW b \in Unlinks, UnlinkModule(t, b)
        PROVE  BaseInv'
    BY <2>2, UnlinkModuleBase, LinkAssumption
  <2>3. CASE Call(t)
    BY <2>1, <2>2, <2>3, BindByNameBase DEF Call
  <2>4. CASE Step(t)
    <3>1. CASE Spin(t)
      BY <1>1, <3>1 DEF Spin
    <3> QED
      BY <2>4, <3>1, LinkObjectBase, LinkObjectFailsBase, ResolveBase, ResolvedBase,
         BackOutBase, BackOutForeverBase, RelocateBase, CallHandlerBase, EndOfLinkBase,
         EndOfUnlinkBase DEF Step
  <2> QED
    BY <1>2, <2>3, <2>4, HandlerReturnsBase
<1> QED
  BY <1>1, <1>2 DEF Next, Stopped

(* What is kept is the type invariant that the runs check.                   *)
LEMMA BaseIsTyped ==
  ASSUME BaseInv
  PROVE  TypeOK
<1>1. TypeInv /\ FramesInv
  BY DEF BaseInv
<1>2. DOMAIN state = (ToSet(objects) \ {None})
                      \cup UNION {ToSet(Modules[libs[i].lib]) : i \in DOMAIN libs}
  BY <1>1 DEF TypeInv, Loaded, InLibraries
<1>3. /\ ToSet(objects) \subseteq Objects \cup {None}
      /\ Range(state) \subseteq LinkStates
      /\ Range(saved) \subseteq LinkStates
      /\ DOMAIN bound = DOMAIN state
  BY <1>1 DEF TypeInv, ToSet, Range
<1>4. DOMAIN saved \subseteq AllModules
  <2>1. Loaded(objects, libs) \subseteq AllModules
    BY <1>1, LoadedAreModules DEF TypeInv
  <2> QED
    BY <1>1, <2>1 DEF TypeInv
<1>5. /\ \A i \in DOMAIN libs : libs[i] \in [lib : Libraries, remove : BOOLEAN]
      /\ \A i \in DOMAIN undefined : undefined[i] \in [sym : Symbols, remove : BOOLEAN]
      /\ \A i \in DOMAIN beingLinked :
           beingLinked[i] \in [sym : Symbols, remove : BOOLEAN, module : AllModules]
  <2>1. /\ libs \in Seq(LibEntries) /\ undefined \in Seq(Unres) /\ beingLinked \in Seq(Linking)
    BY <1>1 DEF TypeInv
  <2>2. /\ \A i \in DOMAIN libs : libs[i] \in LibEntries
        /\ \A i \in DOMAIN undefined : undefined[i] \in Unres
        /\ \A i \in DOMAIN beingLinked : beingLinked[i] \in Linking
    BY <2>1
  <2> QED
    BY <2>2 DEF LibEntries, Unres, Linking
<1>6. /\ holder \in Threads \cup {None} /\ returnOnError \in BOOLEAN
      /\ private \subseteq Bundles /\ initBound \subseteq Libraries /\ exited \in BOOLEAN
      /\ \A t \in Threads : at[t].phase \in Phases /\ at[t].bundle \in Bundles \cup {None}
  BY <1>1 DEF TypeInv, FramesInv
<1> QED
  BY <1>2, <1>3, <1>4, <1>5, <1>6 DEF TypeOK

(* Images, lists, states and what the threads do are always what they are    *)
(* said to be, whatever is linked, unlinked and backed out.                  *)
THEOREM LinkTypeCorrectness == Spec => []TypeOK
<1>1. Spec => []BaseInv
  BY BaseInit, BaseStep, PTL DEF Spec
<1> QED
  BY <1>1, BaseIsTyped, PTL
-----------------------------------------------------------------------------
(* What is half linked, and what a link that may fail is to restore          *)

\* What undefined_list asks for
Asked == {e.sym : e \in ToSet(undefined)}

\* Only a link that may fail marks libraries and entries; symbols are to be
\* bound within one call, and a link that may fail reports nothing undefined.
ListsInv ==
  /\ ~returnOnError => \A i \in DOMAIN libs : ~libs[i].remove
  /\ ~returnOnError \/ Phase = "link" => \A e \in ToSet(undefined) : ~e.remove
  /\ beingLinked # << >> => Phase \in {"resolve", "relocate", "backOut"}
  /\ returnOnError /\ Phase \in {"relocate", "report"} => undefined = << >>

\* What is being linked or unlinked is loaded, and unlinked by one thread.
BundlesInv ==
  /\ private \subseteq ToSet(objects)
  /\ \A t \in Threads : at[t].phase \in {"link", "unlink", "unlinkHandler"} =>
       at[t].bundle \in ToSet(objects)
  /\ \A t, u \in Threads :
       at[t].phase \in {"unlink", "unlinkHandler"} /\ at[u].bundle = at[t].bundle => u = t

\* The thread is to see to what is undefined before it is out.
Owes(t) ==
  \/ at[t].phase \in {"resolve", "relocate", "report", "handler", "backOut", "spin"}
  \/ at[t].phase \in {"unlink", "unlinkHandler"} /\ at[t].bundle \notin private

OwedInv == undefined # << >> => \E t \in Threads : Owes(t)

\* A symbol is there, for what is linked by now.
Provided(s) ==
  /\ LookupPast(Hidden, s) # None
  /\ Linked(LookupPast(Hidden, s))

\* What a module that is half linked needs is there or asked for, ...
ProvidedInv ==
  Phase \notin {"backOut", "spin"} =>
    \A m \in DOMAIN state : state[m] = "BEING_LINKED" =>
      \A s \in ToSet(Needs[m]) : s \in Asked \/ Provided(s)

\* ... and for one thing at least that it needs it waits.
AskedForInv ==
  Phase \notin {"resolve", "relocate", "backOut", "spin"} =>
    \A m \in DOMAIN state : state[m] = "BEING_LINKED" =>
      ToSet(Needs[m]) \cap Asked # {}

\* What is linked is bound.
NeedsInv ==
  Phase # "spin" => \A m \in DOMAIN state : state[m] = "RELOCATED" =>
                      ToSet(Needs[m]) \subseteq DOMAIN bound[m]

WaitingInv == OwedInv /\ ProvidedInv /\ AskedForInv /\ NeedsInv

\* What there was before, ...
Was == Loaded(before.objects, before.libs)

BeforeTyped ==
  /\ before = [objects |-> before.objects, private |-> before.private,
               libs |-> before.libs, state |-> before.state,
               bound |-> before.bound, lists |-> before.lists]
  /\ before.objects \in Seq(Objects) /\ before.libs \in Seq(LibEntries)
  /\ before.private \subseteq ToSet(before.objects)
  /\ before.state \in [Was -> LinkStates]
  /\ before.bound = [m \in Was |-> before.bound[m]]
  /\ before.lists = <<before.lists[1], << >> >>
  /\ before.lists[1] = << >> => \A m \in Was : before.state[m] # "BEING_LINKED"
  /\ \A m \in Was : before.state[m] = "RELOCATED" =>
       ToSet(Needs[m]) \subseteq DOMAIN before.bound[m]

\* ... and what has been loaded since
ImagesSince(b) ==
  /\ Filter(WithoutBundle(objects, b), Objects) = before.objects
  /\ private \ {b} = before.private
  /\ b \notin before.private
  /\ Len(before.libs) <= Len(libs)
  /\ \A i \in 1 .. Len(before.libs) : libs[i] = before.libs[i] /\ ~libs[i].remove
  /\ \A i \in Len(before.libs) + 1 .. Len(libs) :
       /\ libs[i].remove
       /\ \A j \in 1 .. Len(before.libs) : libs[j].lib # libs[i].lib

\* The states that are saved and those that did not change are those there were;
\* of a public bundle that is looked up its own state may be saved.
StatesSince ==
  /\ DOMAIN saved \subseteq Was \cup {Bundle}
  /\ \A m \in Was : Over(saved, state)[m] = before.state[m]
  /\ \A m \in Was : bound[m] = before.bound[m]

\* What was undefined before is not to be removed.
ListsSince ==
  before.lists[1] # << >> =>
    \E e \in ToSet(undefined) \cup ToSet(beingLinked) : ~e.remove

\* Before the bundle is linked nothing else is, either.
FreshSince ==
  Phase = "link" =>
    /\ lists = before.lists
    /\ \A m \in DOMAIN state \ Was : state[m] = "UNLINKED" /\ bound[m] = << >>

BeforeInv ==
  returnOnError /\ Phase \in {"link", "resolve", "backOut"} =>
    BeforeTyped /\ ImagesSince(Bundle) /\ StatesSince /\ ListsSince /\ FreshSince

LinkInv == BaseInv /\ ListsInv /\ BundlesInv /\ WaitingInv /\ BeforeInv

(* A symbol that is there stays there while the objects that define it and   *)
(* the libraries that were loaded stay, and what was linked stays linked.    *)
LEMMA ProvidedStays ==
  ASSUME TypeInv, NEW s, Provided(s), NEW ls, libs' = ls, ls \in Seq(LibEntries),
         ObjectPlaces(objects', private' \cup Hidden', s)
           = ObjectPlaces(objects, private \cup Hidden, s),
         \A i \in ObjectPlaces(objects, private \cup Hidden, s) : objects'[i] = objects[i],
         Len(libs) <= Len(ls), \A i \in 1 .. Len(libs) : ls[i].lib = libs[i].lib,
         \A m \in Searched(objects, private \cup Hidden, libs) :
           Linked(m) => state'[m] \in {"BEING_LINKED", "RELOCATED"}
  PROVE  Provided(s)'
<1> DEFINE m == LookupPast(Hidden, s)
<1>1. m # None /\ Linked(m)
  BY DEF Provided
<1>2. m \in Searched(objects, private \cup Hidden, libs)
  BY <1>1, LookupType
<1>3. m = LookupAt(objects, private \cup Hidden, libs, s)
  BY LookupPastAt
<1>4. LookupPast(Hidden, s)' = LookupAt(objects', private' \cup Hidden', libs', s)
  BY DEF LookupPast, LookupAt, ObjectPlaces, LibraryPlaces, PlacesIn
<1> DEFINE old  == ObjectPlaces(objects, private \cup Hidden, s)
           H    == Hidden
           out  == private \cup H
           out2 == private' \cup Hidden'
           objs == objects'
<1>5. libs \in Seq(LibEntries) /\ old \in SUBSET Nat
  <2>1. objects \in Seq(Objects \cup {None}) /\ libs \in Seq(LibEntries)
    BY DEF TypeInv
  <2>2. DOMAIN objects \subseteq Nat
    BY <2>1
  <2> QED
    BY <2>1, <2>2 DEF ObjectPlaces
<1>6. LookupAt(objs, out2, ls, s) = LookupAt(objects, out, libs, s)
  <2>1. LookupAt(objects, out, libs, s) # None
    BY <1>1, <1>3
  <2>2. ObjectPlaces(objs, out2, s) = ObjectPlaces(objects, out, s)
    OBVIOUS
  <2>3. /\ \A i \in ObjectPlaces(objects, out, s) : objs[i] = objects[i]
        /\ ObjectPlaces(objects, out, s) \in SUBSET Nat
    BY <1>5
  <2> HIDE DEF out, out2, objs
  <2> QED
    BY <1>5, <2>1, <2>2, <2>3, LookupStays
<1>7. LookupPast(Hidden, s)' = m
  BY <1>3, <1>4, <1>6
<1>8. state'[m] \in {"BEING_LINKED", "RELOCATED"}
  BY <1>1, <1>2
<1> HIDE DEF m
<1>9. Linked(LookupPast(Hidden, s))'
  BY <1>7, <1>8 DEF Linked
<1> QED
  BY <1>1, <1>7, <1>9 DEF Provided

(* So it does when the images stay as they are.                              *)
LEMMA ProvidedSame ==
  ASSUME TypeInv, NEW s, Provided(s), UNCHANGED <<objects, private, libs>>, Hidden' = Hidden,
         \A m \in Loaded(objects, libs) :
           Linked(m) => state'[m] \in {"BEING_LINKED", "RELOCATED"}
  PROVE  Provided(s)'
<1>1. Searched(objects, private \cup Hidden, libs) \subseteq Loaded(objects, libs)
  BY DEF Searched, Loaded
<1>2. libs \in Seq(LibEntries) /\ Len(libs) \in Nat
  BY DEF TypeInv
<1>3. objects' = objects /\ private' = private /\ libs' = libs
  OBVIOUS
<1>4. /\ ObjectPlaces(objects', private' \cup Hidden', s)
           = ObjectPlaces(objects, private \cup Hidden, s)
      /\ \A i \in ObjectPlaces(objects, private \cup Hidden, s) : objects'[i] = objects[i]
  BY <1>3
<1>5. /\ \A m \in Searched(objects, private \cup Hidden, libs) :
           Linked(m) => state'[m] \in {"BEING_LINKED", "RELOCATED"}
      /\ libs' \in Seq(LibEntries) /\ Len(libs) <= Len(libs')
      /\ \A i \in 1 .. Len(libs) : libs'[i].lib = libs[i].lib
  <2>1. /\ libs' \in Seq(LibEntries) /\ Len(libs) <= Len(libs')
        /\ \A i \in 1 .. Len(libs) : libs'[i].lib = libs[i].lib
    BY <1>2, <1>3
  <2>2. ASSUME NEW m \in Searched(objects, private \cup Hidden, libs), Linked(m)
        PROVE  state'[m] \in {"BEING_LINKED", "RELOCATED"}
    BY <1>1, <2>2
  <2> QED
    BY <2>1, <2>2
<1> QED
  BY <1>4, <1>5, ProvidedStays

(* What is there is what a lookup finds, except for what it must not see.    *)
LEMMA ProvidedIsThere ==
  ASSUME Hidden = {}, NEW s
  PROVE  Provided(s) <=> There(s)
BY DEF Provided, There, Lookup

(* An action that changes none of it changes none of what is waited for.     *)
LEMMA NothingMoved ==
  ASSUME LinkInv, BaseInv',
         UNCHANGED <<holder, returnOnError, objects, private, libs, state, undefined,
                     beingLinked, bound, at, before>>,
         saved' = saved \/ ~returnOnError
  PROVE  LinkInv'
<1>1. Phase' = Phase /\ Bundle' = Bundle
  BY DEF Phase, Bundle
<1>2. Hidden' = Hidden /\ Asked' = Asked
  BY <1>1 DEF Hidden, Asked
<1>3. ListsInv'
  BY <1>1 DEF LinkInv, ListsInv
<1>4. BundlesInv'
  BY <1>1 DEF LinkInv, BundlesInv
<1>5. WaitingInv'
  <2>1. \A m : Linked(m) => state'[m] \in {"BEING_LINKED", "RELOCATED"}
    BY DEF Linked
  <2>2. \A s : Provided(s) => Provided(s)'
    BY <1>2, <2>1, ProvidedSame DEF LinkInv, BaseInv
  <2>3. ProvidedInv'
    BY <1>1, <1>2, <2>2 DEF LinkInv, WaitingInv, ProvidedInv
  <2>4. OwedInv' /\ AskedForInv' /\ NeedsInv'
    BY <1>1, <1>2 DEF LinkInv, WaitingInv, OwedInv, Owes, AskedForInv, NeedsInv
  <2> QED
    BY <2>3, <2>4 DEF WaitingInv
<1>6. BeforeInv'
  <2>1. CASE ~returnOnError
    BY <2>1 DEF BeforeInv
  <2>2. CASE saved' = saved
    BY <1>1, <2>2 DEF LinkInv, BeforeInv, BeforeTyped, ImagesSince, StatesSince, ListsSince,
                      FreshSince, Was, lists
  <2> QED
    BY <2>1, <2>2
<1> QED
  BY <1>3, <1>4, <1>5, <1>6 DEF LinkInv

(* A library is missing: what had been loaded before it for this call is     *)
(* marked, and nothing else is.                                              *)
LEMMA MissingLibraryLeaves ==
  ASSUME LinkInv, NEW t \in Threads, NEW b \in Bundles, LinkWithMissing(t, b, TRUE)
  PROVE  UNCHANGED <<objects, private, libs, state, bound, undefined, beingLinked, at>>
<1> DEFINE ls == WithoutRemoveOnError(WithDependents(b, TRUE))
<1>0. TypeInv /\ FramesInv /\ ReturnInv
  BY DEF LinkInv, BaseInv
<1>1. holder = None /\ ~returnOnError
  BY <1>0 DEF LinkWithMissing, Callable, ReturnInv
<1>2. /\ Len(ls) <= Len(libs) /\ ls \in Seq(LibEntries)
      /\ ls = libs \/ libs[Len(ls) + 1].remove
      /\ \A i \in 1 .. Len(ls) : ls[i] = libs[i] /\ ~libs[i].remove
      /\ objects' = objects /\ libs' = ls
      /\ private' = private \cap Loaded(objects, ls)
      /\ state' = [m \in Loaded(objects, ls) |-> state[m]]
      /\ bound' = [m \in Loaded(objects, ls) |-> bound[m]]
      /\ UNCHANGED <<undefined, beingLinked, at>>
  BY <1>0, MissingKept
<1> HIDE DEF ls
<1>3. ls = libs
  <2>1. \A i \in DOMAIN libs : ~libs[i].remove
    BY <1>1 DEF LinkInv, ListsInv
  <2>2. libs \in Seq(LibEntries) /\ Len(libs) \in Nat /\ Len(ls) \in Nat
    BY <1>0, <1>2 DEF TypeInv
  <2>3. CASE Len(ls) = Len(libs)
    BY <1>2, <2>2, <2>3
  <2>4. CASE Len(ls) < Len(libs)
    <3>1. Len(ls) + 1 \in DOMAIN libs /\ ls # libs
      BY <2>2, <2>4
    <3> QED
      BY <1>2, <2>1, <3>1
  <2> QED
    BY <1>2, <2>2, <2>3, <2>4
<1>4. private' = private
  <2>1. private \subseteq ToSet(objects) /\ None \notin private
    BY <1>0, LinkAssumption DEF LinkInv, BundlesInv, TypeInv, AllModules, Objects
  <2> QED
    BY <1>2, <2>1 DEF Loaded
<1>5. state' = state /\ bound' = bound
  BY <1>0, <1>2, <1>3 DEF TypeInv
<1> QED
  BY <1>2, <1>3, <1>4, <1>5

(* A library is missing: nothing is left behind.                       *)
LEMMA LinkWithMissingLink ==
  ASSUME LinkInv, NEW t \in Threads, NEW b \in Bundles, NEW roe \in BOOLEAN,
         LinkWithMissing(t, b, roe)
  PROVE  LinkInv'
<1>0. BaseInv /\ TypeInv /\ FramesInv /\ ReturnInv
  BY DEF LinkInv, BaseInv
<1>1. BaseInv'
  BY <1>0, LinkWithMissingBase
<1>2. CASE Exit
  <2>1. UNCHANGED <<holder, returnOnError, objects, private, libs, state, undefined,
                    beingLinked, saved, bound, at, before>>
    BY <1>2 DEF Exit, images, lists
  <2> QED
    BY <1>1, <2>1, NothingMoved
<1>3. CASE ~Exit
  <2>1. LinkWithMissing(t, b, TRUE) /\ roe
    BY <1>3 DEF LinkWithMissing
  <2>2. /\ UNCHANGED <<objects, private, libs, state, bound, undefined, beingLinked, at>>
        /\ UNCHANGED <<holder, returnOnError, before>> /\ ~returnOnError
    BY <1>0, <2>1, MissingLibraryLeaves DEF LinkWithMissing, Callable, ReturnInv
  <2> QED
    BY <1>1, <2>2, NothingMoved
<1> QED
  BY <1>2, <1>3

(* What a link changes first: an object that lookups do not see yet, and     *)
(* libraries behind the others.                                              *)
LEMMA LinkModuleWaiting ==
  ASSUME LinkInv, NEW t \in Threads, NEW b \in Bundles, NEW roe \in BOOLEAN,
         NEW priv \in BOOLEAN, LinkModule(t, b, roe, priv)
  PROVE  WaitingInv'
<1> DEFINE ls  == WithDependents(b, roe)
           was == Loaded(objects, libs)
<1>0. TypeInv /\ FramesInv
  BY DEF LinkInv, BaseInv
<1>1. /\ Enter(t, "link", b) /\ b \notin ToSet(objects)
      /\ objects' = Slot(b) /\ libs' = ls
      /\ private' = IF priv THEN private \cup {b} ELSE private
      /\ undefined' = undefined
  BY DEF LinkModule, Callable, lists
<1>2. /\ Phase = "out" /\ Phase' = "link" /\ Bundle' = b /\ at[t] = Out
      /\ \A u \in Threads \ {t} : at'[u] = at[u]
  BY <1>0, <1>1, Entered
<1>3. Hidden = {} /\ Hidden' = {b} /\ Asked' = Asked
  BY <1>1, <1>2 DEF Hidden, Asked
<1>4. /\ b \notin was
      /\ \A m \in was : state'[m] = state[m] /\ bound'[m] = bound[m]
      /\ DOMAIN state' = {b} \cup was \cup InLibraries(ls)
      /\ \A m \in DOMAIN state' \ was : state'[m] = "UNLINKED"
      /\ DOMAIN state = was
  BY <1>0, LoadedByLink DEF TypeInv
<1>5. /\ objects \in Seq(Objects \cup {None}) /\ libs \in Seq(LibEntries) /\ b # None
  BY <1>0, LinkAssumption DEF TypeInv, AllModules, Objects
<1>6. OwedInv'
  <2>1. CASE undefined # << >>
    <3>1. PICK u \in Threads : Owes(u)
      BY <2>1 DEF LinkInv, WaitingInv, OwedInv
    <3>2. u # t /\ at'[u] = at[u]
      BY <1>2, <3>1 DEF Owes, Out
    <3>3. at[u].phase \in {"unlink", "unlinkHandler"} => at[u].bundle # b
      BY <1>1 DEF LinkInv, BundlesInv
    <3>4. Owes(u)'
      BY <1>1, <3>1, <3>2, <3>3 DEF Owes
    <3> QED
      BY <3>4 DEF OwedInv
  <2> QED
    BY <1>1, <2>1 DEF OwedInv
<1>7. ASSUME NEW s, Provided(s)
      PROVE  Provided(s)'
  <2>1. ls \in Seq(LibEntries) /\ Len(libs) <= Len(ls) /\ \A i \in 1 .. Len(libs) : ls[i] = libs[i]
    BY <1>0, LibrariesLoaded
  <2>2. /\ \A i \in DOMAIN objects : objects[i] # None =>
             i \in DOMAIN Slot(b) /\ Slot(b)[i] = objects[i]
        /\ \A i \in DOMAIN Slot(b) : Slot(b)[i] \notin {b, None} =>
             i \in DOMAIN objects /\ Slot(b)[i] = objects[i]
    BY <1>0, <1>1, SlotElements
  <2>3. \A i \in DOMAIN objects : objects[i] # b
    BY <1>1 DEF ToSet
  <2>4. private' \cup Hidden' = private \cup Hidden \cup {b}
    BY <1>1, <1>3
  <2>5. /\ ObjectPlaces(objects', private' \cup Hidden', s)
             = ObjectPlaces(objects, private \cup Hidden, s)
        /\ \A i \in ObjectPlaces(objects, private \cup Hidden, s) : objects'[i] = objects[i]
    BY <1>1, <2>2, <2>3, <2>4 DEF ObjectPlaces
  <2>6. \A m \in Searched(objects, private \cup Hidden, libs) :
          Linked(m) => state'[m] \in {"BEING_LINKED", "RELOCATED"}
    BY <1>4 DEF Searched, Loaded, Linked
  <2> HIDE DEF ls
  <2> QED
    BY <1>0, <1>1, <1>7, <2>1, <2>5, <2>6, ProvidedStays
<1>8. ProvidedInv' /\ AskedForInv' /\ NeedsInv'
  <2>1. \A m \in DOMAIN state' : state'[m] # "UNLINKED" =>
          m \in DOMAIN state /\ state'[m] = state[m] /\ bound'[m] = bound[m]
    BY <1>4
  <2>2. ProvidedInv /\ AskedForInv /\ NeedsInv
    BY DEF LinkInv, WaitingInv
  <2>3. ProvidedInv'
    BY <1>2, <1>3, <1>7, <2>1, <2>2 DEF ProvidedInv
  <2>4. AskedForInv'
    BY <1>2, <1>3, <2>1, <2>2 DEF AskedForInv
  <2>5. NeedsInv'
    BY <1>2, <2>1, <2>2 DEF NeedsInv
  <2> QED
    BY <2>3, <2>4, <2>5
<1> QED
  BY <1>6, <1>8 DEF WaitingInv

(* What there was is kept in mind if the link may fail.                      *)
LEMMA LinkModuleBefore ==
  ASSUME LinkInv, NEW t \in Threads, NEW b \in Bundles, NEW priv \in BOOLEAN,
         LinkModule(t, b, TRUE, priv)
  PROVE  BeforeTyped' /\ ImagesSince(b)' /\ StatesSince' /\ ListsSince' /\ FreshSince'
<1> DEFINE ls  == WithDependents(b, TRUE)
           was == Loaded(objects, libs)
           f   == Filter(objects, Objects)
<1>0. TypeInv /\ FramesInv /\ ReturnInv
  BY DEF LinkInv, BaseInv
<1>1. /\ Enter(t, "link", b) /\ b \notin ToSet(objects)
      /\ objects' = Slot(b) /\ libs' = ls
      /\ private' = IF priv THEN private \cup {b} ELSE private
      /\ undefined' = undefined /\ beingLinked' = beingLinked /\ saved' = << >>
      /\ before' = [objects |-> f, private |-> private, libs |-> libs, state |-> state,
                    bound |-> bound, lists |-> <<undefined, beingLinked>>]
  BY DEF LinkModule, Callable, Changeable, lists
<1>2. Phase = "out" /\ ~returnOnError
  BY <1>0, <1>1, Entered DEF ReturnInv
<1>3. /\ before'.objects = f /\ before'.private = private /\ before'.libs = libs
      /\ before'.state = state /\ before'.bound = bound
      /\ before'.lists = <<undefined, beingLinked>>
  BY <1>1
<1>4. beingLinked = << >>
  BY <1>2 DEF LinkInv, ListsInv
<1>5. objects \in Seq(Objects \cup {None}) /\ libs \in Seq(LibEntries)
      /\ private \subseteq Bundles /\ None \notin Objects
  BY <1>0, LinkAssumption DEF TypeInv, AllModules
<1>6. f \in Seq(Objects) /\ ToSet(f) = ToSet(objects) \ {None}
  <2>1. f \in Seq((Objects \cup {None}) \cap Objects) /\ ToSet(f) = ToSet(objects) \cap Objects
    BY <1>5, FilterElements
  <2>2. (Objects \cup {None}) \cap Objects = Objects
    OBVIOUS
  <2>3. ToSet(objects) \cap Objects = ToSet(objects) \ {None}
    BY <1>5 DEF ToSet
  <2> QED
    BY <2>1, <2>2, <2>3
<1>7. Was' = was
  BY <1>3, <1>5, <1>6 DEF Was, Loaded
<1> HIDE DEF f
<1>8. BeforeTyped'
  <2>1. private \subseteq ToSet(f)
    BY <1>5, <1>6 DEF LinkInv, BundlesInv, Objects
  <2>2. state \in [was -> LinkStates] /\ bound = [m \in was |-> bound[m]]
    BY <1>0 DEF TypeInv
  <2>3. before'.lists[1] = undefined
    BY <1>3
  <2>4. before'.lists = <<before'.lists[1], << >> >>
    BY <1>3, <1>4
  <2>5. before'.lists[1] = << >> => \A m \in Was' : before'.state[m] # "BEING_LINKED"
    <3>1. ASSUME undefined = << >>, NEW m \in was, state[m] = "BEING_LINKED"
          PROVE  FALSE
      <4>1. Asked = {}
        BY <3>1 DEF Asked, ToSet
      <4>2. ToSet(Needs[m]) \cap Asked # {}
        BY <1>2, <2>2, <3>1 DEF LinkInv, WaitingInv, AskedForInv
      <4> QED
        BY <4>1, <4>2
    <3> QED
      BY <1>3, <1>7, <2>3, <3>1
  <2>6. \A m \in Was' : before'.state[m] = "RELOCATED" =>
          ToSet(Needs[m]) \subseteq DOMAIN before'.bound[m]
    BY <1>2, <1>3, <1>7, <2>2 DEF LinkInv, WaitingInv, NeedsInv
  <2>7. before'.state \in [Was' -> LinkStates] /\ before'.bound = [m \in Was' |-> before'.bound[m]]
    BY <1>3, <1>7, <2>2
  <2>8. before' = [objects |-> before'.objects, private |-> before'.private,
                   libs |-> before'.libs, state |-> before'.state,
                   bound |-> before'.bound, lists |-> before'.lists]
    BY <1>1
  <2>9. before'.objects \in Seq(Objects) /\ before'.libs \in Seq(LibEntries)
        /\ before'.private \subseteq ToSet(before'.objects)
    BY <1>3, <1>5, <1>6, <2>1
  <2> QED
    BY <2>4, <2>5, <2>6, <2>7, <2>8, <2>9 DEF BeforeTyped
<1>9. ImagesSince(b)'
  <2>1. Filter(WithoutBundle(Slot(b), b), Objects) = f
    BY <1>0, <1>1, SlotElements DEF f
  <2>2. /\ Len(libs) <= Len(ls)
        /\ \A i \in 1 .. Len(libs) : ls[i] = libs[i]
        /\ \A i \in Len(libs) + 1 .. Len(ls) :
             ls[i].remove = TRUE /\ \A j \in 1 .. Len(libs) : libs[j].lib # ls[i].lib
    BY <1>0, LibrariesLoaded
  <2>3. \A i \in 1 .. Len(libs) : ~libs[i].remove
    BY <1>2, <1>5 DEF LinkInv, ListsInv
  <2>4. b \notin private
    BY <1>1 DEF LinkInv, BundlesInv
  <2> HIDE DEF ls
  <2>5. /\ Filter(WithoutBundle(objects', b), Objects) = before'.objects
        /\ private' \ {b} = before'.private /\ b \notin before'.private
    BY <1>1, <1>3, <2>1, <2>4
  <2>6. /\ Len(before'.libs) <= Len(libs')
        /\ \A i \in 1 .. Len(before'.libs) : libs'[i] = before'.libs[i] /\ ~libs'[i].remove
        /\ \A i \in Len(before'.libs) + 1 .. Len(libs') :
             /\ libs'[i].remove
             /\ \A j \in 1 .. Len(before'.libs) : libs'[j].lib # libs'[i].lib
    BY <1>1, <1>3, <2>2, <2>3
  <2> QED
    BY <2>5, <2>6 DEF ImagesSince
<1>10. StatesSince'
  <2>1. \A m \in was : state'[m] = state[m] /\ bound'[m] = bound[m] /\ m \in DOMAIN state'
    BY <1>0, LoadedByLink
  <2>2. DOMAIN saved' = {}
    BY <1>1
  <2>3. \A m \in was : Over(saved', state')[m] = state[m]
    BY <2>1, <2>2 DEF Over
  <2> QED
    BY <1>3, <1>7, <2>1, <2>2, <2>3 DEF StatesSince
<1>11. ListsSince'
  <2>1. ASSUME undefined # << >>
        PROVE  \E e \in ToSet(undefined) : ~e.remove
    <3>1. undefined[1] \in ToSet(undefined)
      BY <1>0, <2>1 DEF TypeInv, ToSet
    <3> QED
      BY <1>2, <3>1 DEF LinkInv, ListsInv
  <2> QED
    BY <1>1, <1>3, <2>1 DEF ListsSince
<1>12. FreshSince'
  <2>1. DOMAIN state' = {b} \cup was \cup InLibraries(ls)
        /\ \A m \in ({b} \cup InLibraries(ls)) \ was :
             state'[m] = "UNLINKED" /\ bound'[m] = << >>
    BY <1>0, LoadedByLink
  <2>2. \A m \in DOMAIN state' \ Was' : state'[m] = "UNLINKED" /\ bound'[m] = << >>
    BY <1>7, <2>1
  <2>3. lists' = before'.lists
    BY <1>1, <1>3 DEF lists
  <2> QED
    BY <2>2, <2>3 DEF FreshSince
<1> QED
  BY <1>8, <1>9, <1>10, <1>11, <1>12

(* NSLinkModule() loads.                                                     *)
LEMMA LinkModuleLink ==
  ASSUME LinkInv, NEW t \in Threads, NEW b \in Bundles, NEW roe \in BOOLEAN,
         NEW priv \in BOOLEAN, LinkModule(t, b, roe, priv)
  PROVE  LinkInv'
<1> DEFINE ls  == WithDependents(b, roe)
<1>0. BaseInv /\ TypeInv /\ FramesInv /\ ReturnInv
  BY DEF LinkInv, BaseInv
<1>1. /\ Enter(t, "link", b) /\ b \notin ToSet(objects)
      /\ returnOnError' = roe
      /\ objects' = Slot(b) /\ libs' = ls
      /\ private' = IF priv THEN private \cup {b} ELSE private
      /\ undefined' = undefined /\ beingLinked' = beingLinked
  BY DEF LinkModule, Callable, lists
<1>2. /\ Phase = "out" /\ Phase' = "link" /\ Bundle' = b /\ at[t] = Out
      /\ at'[t] = [phase |-> "link", bundle |-> b]
      /\ \A u \in Threads \ {t} : at'[u] = at[u]
  BY <1>0, <1>1, Entered
<1>3. ~returnOnError
  BY <1>0, <1>1, Entered DEF ReturnInv
<1>4. ListsInv'
  <2>1. /\ ls \in Seq(LibEntries)
        /\ Len(libs) <= Len(ls)
        /\ \A i \in 1 .. Len(libs) : ls[i] = libs[i]
        /\ \A i \in Len(libs) + 1 .. Len(ls) : ls[i].remove = roe
    BY <1>0, LibrariesLoaded
  <2> HIDE DEF ls
  <2>2. \A i \in 1 .. Len(libs) : ~libs[i].remove
    BY <1>0, <1>3 DEF LinkInv, ListsInv, TypeInv
  <2>3. ~roe => \A i \in DOMAIN ls : ~ls[i].remove
    <3>1. Len(libs) \in Nat /\ DOMAIN ls = 1 .. Len(ls) /\ Len(ls) \in Nat
      BY <1>0, <2>1 DEF TypeInv
    <3> QED
      BY <2>1, <2>2, <3>1
  <2>4. beingLinked = << >>
    BY <1>2 DEF LinkInv, ListsInv
  <2> QED
    BY <1>1, <1>2, <1>3, <2>3, <2>4 DEF LinkInv, ListsInv
<1>5. BundlesInv'
  <2>1. ToSet(Slot(b)) \ {None} = (ToSet(objects) \ {None}) \cup {b}
    BY <1>0, <1>1, SlotElements
  <2>2. None \notin Bundles
    BY LinkAssumption DEF AllModules, Objects
  <2>3. ToSet(objects) \cap Bundles \subseteq ToSet(objects') /\ b \in ToSet(objects')
    BY <1>1, <2>1, <2>2
  <2>4. private' \subseteq ToSet(objects')
    BY <1>0, <1>1, <2>3 DEF LinkInv, BundlesInv, TypeInv
  <2>5. ASSUME NEW u \in Threads, at'[u].phase \in {"link", "unlink", "unlinkHandler"}
        PROVE  at'[u].bundle \in ToSet(objects')
    <3>1. CASE u = t
      BY <1>2, <2>3, <3>1
    <3>2. CASE u # t
      <4>1. at[u].bundle \in ToSet(objects) /\ at[u].bundle \in Bundles
        BY <1>0, <1>2, <2>5, <3>2 DEF LinkInv, BundlesInv, FramesInv
      <4> QED
        BY <1>2, <2>3, <3>2, <4>1
    <3> QED
      BY <3>1, <3>2
  <2>6. ASSUME NEW u \in Threads, NEW v \in Threads,
               at'[u].phase \in {"unlink", "unlinkHandler"}, at'[v].bundle = at'[u].bundle
        PROVE  v = u
    <3>1. u # t /\ at'[u] = at[u]
      BY <1>2, <2>6
    <3>2. at[u].bundle \in ToSet(objects)
      BY <2>6, <3>1 DEF LinkInv, BundlesInv
    <3>3. v # t /\ at'[v] = at[v]
      BY <1>1, <1>2, <2>6, <3>1, <3>2
    <3> QED
      BY <2>6, <3>1, <3>3 DEF LinkInv, BundlesInv
  <2> QED
    BY <2>4, <2>5, <2>6 DEF BundlesInv
<1>6. BeforeInv'
  <2>1. CASE ~roe
    BY <1>1, <2>1 DEF BeforeInv
  <2>2. CASE roe
    <3>1. LinkModule(t, b, TRUE, priv)
      BY <2>2
    <3>2. BeforeTyped' /\ ImagesSince(b)' /\ StatesSince' /\ ListsSince' /\ FreshSince'
      BY <3>1, LinkModuleBefore
    <3>3. ImagesSince(Bundle)'
      BY <1>2, <3>2 DEF ImagesSince
    <3> QED
      BY <3>2, <3>3 DEF BeforeInv
  <2> QED
    BY <2>1, <2>2
<1> QED
  BY <1>0, <1>4, <1>5, <1>6, LinkModuleBase, LinkModuleWaiting DEF LinkInv

(* What there was before is there yet, but for the bundle, which is new.     *)
LEMMA WasLoaded ==
  ASSUME TypeInv, BeforeTyped, NEW b \in Bundles, ImagesSince(b)
  PROVE  /\ ToSet(before.objects) = ToSet(objects) \ {None, b}
         /\ Was \subseteq Loaded(objects, libs) \ {b}
         /\ Was = (ToSet(objects) \ {None, b}) \cup InLibraries(before.libs)
         /\ InLibraries(before.libs) \subseteq LibraryModules
<1>1. /\ objects \in Seq(Objects \cup {None}) /\ libs \in Seq(LibEntries)
      /\ b \in Objects /\ b # None /\ None \notin Objects
      /\ Objects \cap LibraryModules = {}
  BY LinkAssumption DEF TypeInv, AllModules, Objects
<1>2. /\ before.objects \in Seq(Objects) /\ before.libs \in Seq(LibEntries)
      /\ Filter(WithoutBundle(objects, b), Objects) = before.objects
      /\ Len(before.libs) <= Len(libs)
      /\ \A i \in 1 .. Len(before.libs) : libs[i] = before.libs[i]
  BY DEF BeforeTyped, ImagesSince
<1>3. ToSet(before.objects) = ToSet(objects) \ {None, b}
  <2>1. /\ WithoutBundle(objects, b) \in Seq(Objects \cup {None})
        /\ ToSet(WithoutBundle(objects, b)) \ {None} = ToSet(objects) \ {None, b}
    BY <1>1, WithoutBundleElements
  <2>2. ToSet(before.objects) = ToSet(WithoutBundle(objects, b)) \cap Objects
    BY <1>2, <2>1, FilterElements
  <2>3. ToSet(WithoutBundle(objects, b)) \subseteq Objects \cup {None}
    BY <2>1 DEF ToSet
  <2> QED
    BY <1>1, <2>1, <2>2, <2>3
<1>4. InLibraries(before.libs) \subseteq InLibraries(libs)
  BY <1>1, <1>2, InLibrariesLeft
<1>5. InLibraries(before.libs) \subseteq LibraryModules
  BY <1>1, <1>2, LoadedAreModules
<1> QED
  BY <1>1, <1>3, <1>4, <1>5 DEF Was, Loaded

(* A thread that goes on with its link has the bundle it had.                *)
LEMMA BundlesKept ==
  ASSUME LinkInv, NEW t \in Threads, UNCHANGED <<objects, private, returnOnError>>,
         Bundle' = Bundle, at'[t].bundle = at[t].bundle,
         at'[t].phase \notin {"link", "unlink", "unlinkHandler"},
         \A u \in Threads \ {t} : at'[u] = at[u]
  PROVE  BundlesInv'
<1>1. BundlesInv
  BY DEF LinkInv
<1>2. \A u \in Threads : at'[u].bundle = at[u].bundle
  OBVIOUS
<1>3. \A u \in Threads : at'[u].phase \in {"link", "unlink", "unlinkHandler"} =>
                           at'[u].phase = at[u].phase
  OBVIOUS
<1> QED
  BY <1>1, <1>2, <1>3 DEF BundlesInv

(* Entries of the undefined list are what is asked for.                      *)
LEMMA AskedMore ==
  ASSUME ToSet(undefined) \subseteq ToSet(undefined')
  PROVE  Asked \subseteq Asked'
BY DEF Asked

(* What a module that becomes BEING_LINKED needs is there or asked for.      *)
LEMMA ReferencesProvided ==
  ASSUME TypeInv, NEW list \in Seq(Unres), NEW ms \in Seq(AllModules),
         undefined' = WithUndefined(list, ms), NEW m \in ToSet(ms), NEW s \in ToSet(Needs[m])
  PROVE  s \in Asked' \/ There(s)
<1>1. PICK k \in DOMAIN ms : ms[k] = m
  BY DEF ToSet
<1>2. CASE ~There(s)
  <2>1. Entry(s) \in ToSet(WithUndefined(list, ms))
    BY <1>1, <1>2, UndefinedReferences
  <2>2. Entry(s).sym = s
    BY DEF Entry
  <2> QED
    BY <2>1, <2>2 DEF Asked
<1> QED
  BY <1>2

(* The bundle can be looked up from now on, and takes no symbol from what is *)
(* linked: it is private, or nothing it defines is defined by it already.    *)
LEMMA LinkObjectProvided ==
  ASSUME LinkInv, NEW t \in Threads, LinkObject(t), NEW s, Provided(s)
  PROVE  Provided(s)'
<1> DEFINE b == at[t].bundle
<1>0. TypeInv /\ FramesInv
  BY DEF LinkInv, BaseInv
<1>1. /\ holder = t /\ at[t].phase = "link" /\ GoTo(t, "resolve")
      /\ b \in private \/ ~MultiplyDefined(b)
      /\ state' = [state EXCEPT ![b] = "BEING_LINKED"]
      /\ UNCHANGED <<holder, objects, private, libs>>
  BY DEF LinkObject, In
<1>2. Phase = "link" /\ Bundle = b /\ b \in Bundles
  BY <1>0, <1>1, InsideIs DEF FramesInv
<1>3. Phase' = "resolve"
  BY <1>0, <1>1, WentTo DEF Inside, Phases
<1> HIDE DEF b
<1>4. Hidden = {b} /\ Hidden' = {}
  BY <1>2, <1>3 DEF Hidden
<1>5. b \in private \/ s \notin Defines[b]
  <2>1. SUFFICES ASSUME b \notin private, s \in Defines[b]
                 PROVE  FALSE
    OBVIOUS
  <2> DEFINE other == LookupPast({b}, s)
  <2>2. other # None /\ Linked(other)
    BY <1>4 DEF Provided
  <2>3. other \in Searched(objects, private \cup {b}, libs)
    BY <1>0, <2>2, LookupType
  <2>4. other # b
    <3>1. b \notin InLibraries(libs) /\ b \in Objects
      BY <1>0, <1>2, LoadedAreModules, LinkAssumption DEF TypeInv, Objects
    <3> QED
      BY <2>3, <3>1 DEF Searched
  <2>5. b \in Objects
    BY <1>2 DEF Objects
  <2>6. MultiplyDefined(b)
    <3>1. LookupElsewhere(b, s) = other
      BY DEF LookupElsewhere
    <3> QED
      BY <2>1, <2>2, <2>4, <2>5, <3>1 DEF MultiplyDefined
  <2> QED
    BY <1>1, <2>1, <2>6
<1>6. ObjectPlaces(objects, private, s) = ObjectPlaces(objects, private \cup {b}, s)
  BY <1>5 DEF ObjectPlaces
<1>7. /\ ObjectPlaces(objects', private' \cup Hidden', s)
           = ObjectPlaces(objects, private \cup Hidden, s)
      /\ \A i \in ObjectPlaces(objects, private \cup Hidden, s) : objects'[i] = objects[i]
  BY <1>1, <1>4, <1>6
<1>8. ASSUME NEW m \in Searched(objects, private \cup Hidden, libs), Linked(m)
      PROVE  state'[m] \in {"BEING_LINKED", "RELOCATED"}
  <2>1. m \in DOMAIN state
    BY <1>0, <1>8 DEF Searched, TypeInv, Loaded
  <2> QED
    BY <1>1, <1>8, <2>1 DEF Linked
<1>9. libs \in Seq(LibEntries) /\ Len(libs) <= Len(libs)
  BY <1>0 DEF TypeInv
<1> QED
  BY <1>0, <1>1, <1>7, <1>8, <1>9, ProvidedStays

(* Its references are added.                                                 *)
LEMMA LinkObjectLink ==
  ASSUME LinkInv, NEW t \in Threads, LinkObject(t)
  PROVE  LinkInv'
<1> DEFINE b  == at[t].bundle
           ms == <<b>>
<1>0. BaseInv /\ TypeInv /\ FramesInv /\ ReturnInv
  BY DEF LinkInv, BaseInv
<1>1. /\ holder = t /\ at[t].phase = "link" /\ GoTo(t, "resolve")
      /\ undefined' = WithUndefined(undefined, ms)
      /\ beingLinked' = WithBeingLinked(beingLinked, ms)
      /\ state' = [state EXCEPT ![b] = "BEING_LINKED"]
      /\ UNCHANGED <<holder, returnOnError, objects, private, libs, saved, bound, before>>
  BY DEF LinkObject, In
<1>2. Phase = "link" /\ Bundle = b /\ b \in Bundles
  BY <1>0, <1>1, InsideIs DEF FramesInv
<1>3. /\ FramesInv' /\ Phase' = "resolve" /\ Bundle' = b
      /\ at'[t].bundle = b /\ at'[t].phase = "resolve"
      /\ \A u \in Threads \ {t} : at'[u] = at[u]
  BY <1>0, <1>1, <1>2, WentTo DEF Inside, Phases
<1>4. BundlesInv'
  BY <1>1, <1>2, <1>3, BundlesKept
<1> HIDE DEF b
<1>5. /\ ms \in Seq(AllModules) /\ ToSet(ms) = {b}
      /\ undefined \in Seq(Unres) /\ beingLinked \in Seq(Linking)
  BY <1>0, <1>2 DEF AllModules, Objects, TypeInv, ToSet
<1> HIDE DEF ms
<1>6. \A e : e \in ToSet(undefined') <=>
         \/ e \in ToSet(undefined)
         \/ \E k \in DOMAIN ms : \E s \in ToSet(Needs[ms[k]]) : ~There(s) /\ e = Entry(s)
  BY <1>0, <1>1, <1>5, UndefinedReferences
<1>7. ToSet(beingLinked) \subseteq ToSet(beingLinked')
  BY <1>0, <1>1, <1>5, BeingLinkedReferences
<1>8. ToSet(undefined) \subseteq ToSet(undefined') /\ Asked \subseteq Asked'
  BY <1>6, AskedMore
<1>9. ListsInv'
  <2>1. \A e \in ToSet(undefined') : e \in ToSet(undefined) \/ e.remove = returnOnError
    BY <1>6 DEF Entry
  <2> QED
    BY <1>1, <1>3, <2>1 DEF LinkInv, ListsInv
<1>10. WaitingInv'
  <2>1. Owes(t)'
    BY <1>3 DEF Owes
  <2>2. ASSUME NEW m \in DOMAIN state', state'[m] = "BEING_LINKED",
               NEW s \in ToSet(Needs[m])
        PROVE  s \in Asked' \/ Provided(s)'
    <3>1. CASE m = b
      <4>1. s \in Asked' \/ There(s)
        BY <1>0, <1>1, <1>5, <2>2, <3>1, ReferencesProvided
      <4>2. There(s) => Provided(s)'
        <5>1. SUFFICES ASSUME There(s)
                       PROVE  Provided(s)'
          OBVIOUS
        <5>2. Hidden' = {}
          BY <1>3 DEF Hidden
        <5>3. LookupPast(Hidden, s)' = Lookup(s)
          BY <1>1, <5>2 DEF Lookup, LookupPast
        <5>4. Lookup(s) # None /\ Linked(Lookup(s)) /\ Lookup(s) \in DOMAIN state
          BY <1>0, <5>1, LookupType DEF There, Lookup, TypeInv
        <5>5. state'[Lookup(s)] \in {"BEING_LINKED", "RELOCATED"}
          BY <1>1, <5>4 DEF Linked
        <5>6. Linked(LookupPast(Hidden, s))'
          BY <5>3, <5>5 DEF Linked
        <5> QED
          BY <5>3, <5>4, <5>6 DEF Provided
      <4> QED
        BY <4>1, <4>2
    <3>2. CASE m # b
      <4>1. state[m] = "BEING_LINKED" /\ m \in DOMAIN state
        BY <1>1, <2>2, <3>2
      <4>2. s \in Asked \/ Provided(s)
        BY <1>2, <2>2, <4>1 DEF LinkInv, WaitingInv, ProvidedInv
      <4> QED
        BY <1>8, <4>2, LinkObjectProvided
    <3> QED
      BY <3>1, <3>2
  <2>3. NeedsInv'
    <3>1. \A m \in DOMAIN state' : state'[m] = "RELOCATED" =>
            m \in DOMAIN state /\ state[m] = "RELOCATED"
      BY <1>1
    <3> QED
      BY <1>1, <1>2, <3>1 DEF LinkInv, WaitingInv, NeedsInv
  <2>4. OwedInv'
    BY <2>1 DEF OwedInv
  <2>5. ProvidedInv' /\ AskedForInv'
    BY <1>3, <2>2 DEF ProvidedInv, AskedForInv
  <2> QED
    BY <2>3, <2>4, <2>5 DEF WaitingInv
<1>11. BeforeInv'
  <2>1. SUFFICES ASSUME returnOnError
                 PROVE  BeforeTyped' /\ ImagesSince(Bundle)' /\ StatesSince' /\ ListsSince'
    BY <1>1, <1>3 DEF BeforeInv, FreshSince
  <2>2. BeforeTyped /\ ImagesSince(b) /\ StatesSince /\ ListsSince
    BY <1>2, <2>1 DEF LinkInv, BeforeInv
  <2>3. Was' = Was
    BY <1>1 DEF Was
  <2>4. BeforeTyped'
    BY <1>1, <2>2, <2>3 DEF BeforeTyped
  <2>5. ImagesSince(Bundle)'
    BY <1>1, <1>3, <2>2 DEF ImagesSince
  <2>6. b \notin Was
    BY <1>0, <1>2, <2>2, WasLoaded
  <2>7. StatesSince'
    <3>1. DOMAIN state' = DOMAIN state /\ \A m \in Was : state'[m] = state[m]
      BY <1>1, <2>6
    <3>2. \A m \in Was : Over(saved', state')[m] = Over(saved, state)[m]
      <4> TAKE m \in Was
      <4>1. m \in DOMAIN saved \cup DOMAIN state
        BY <1>0, <1>2, <2>2, WasLoaded DEF TypeInv
      <4> QED
        BY <1>1, <3>1, <4>1 DEF Over
    <3> QED
      BY <1>1, <1>2, <1>3, <2>2, <2>3, <3>2 DEF StatesSince
  <2>8. ListsSince'
    BY <1>1, <1>7, <1>8, <2>2 DEF ListsSince
  <2> QED
    BY <2>4, <2>5, <2>7, <2>8
<1> QED
  BY <1>0, <1>4, <1>9, <1>10, <1>11, LinkObjectBase DEF LinkInv

(* A symbol of a public bundle is defined twice.  The bundle goes, and the   *)
(* libraries that have been loaded for it stay, and are not marked any more. *)
LEMMA LinkObjectFailsLeaves ==
  ASSUME LinkInv, NEW t \in Threads, LinkObjectFails(t), returnOnError
  PROVE  LET b == at[t].bundle
         IN /\ holder = t /\ Phase = "link" /\ at[t].phase = "link"
            /\ b = Bundle /\ b \in Bundles /\ b \notin private
            /\ Phase' = "out" /\ ~returnOnError' /\ at'[t] = Out
            /\ \A u \in Threads \ {t} : at'[u] = at[u]
            /\ objects' = WithoutBundle(objects, b)
            /\ ToSet(objects') \ {None} = ToSet(objects) \ {None, b}
            /\ private' = private
            /\ libs' \in Seq(LibEntries) /\ Len(libs') = Len(libs)
            /\ \A i \in 1 .. Len(libs) : /\ libs'[i].lib = libs[i].lib /\ ~libs'[i].remove
                                         /\ ~libs[i].remove => libs'[i] = libs[i]
            /\ DOMAIN state = Loaded(objects, libs) /\ DOMAIN state' = DOMAIN state \ {b}
            /\ \A m \in DOMAIN state' : state'[m] = state[m] /\ bound'[m] = bound[m]
            /\ DOMAIN bound' = DOMAIN state'
            /\ undefined' = undefined /\ beingLinked = << >> /\ beingLinked' = << >>
            /\ UNCHANGED <<saved, before, exited>>
<1> DEFINE b    == at[t].bundle
           objs == WithoutBundle(objects, b)
           was  == Loaded(objects, libs)
<1>0. TypeInv /\ FramesInv
  BY DEF LinkInv, BaseInv
<1>1. /\ holder = t /\ at[t].phase = "link" /\ b \notin private
      /\ Keep(objs, libs, state)
      /\ undefined' = PutBack /\ beingLinked' = << >>
      /\ Leave(t, libs) /\ Release(libs)
      /\ UNCHANGED <<saved, before, exited>>
  BY DEF LinkObjectFails, In, Leave
<1>2. Phase = "link" /\ Bundle = b /\ b \in Bundles
  BY <1>0, <1>1, InsideIs DEF FramesInv
<1>3. /\ Phase' = "out" /\ ~returnOnError' /\ at'[t] = Out
      /\ \A u \in Threads \ {t} : at'[u] = at[u]
  BY <1>0, <1>1, Left
<1>4. /\ libs \in Seq(LibEntries) /\ Len(libs) \in Nat /\ DOMAIN libs = 1 .. Len(libs)
      /\ DOMAIN state = was /\ \A m \in was : state[m] \in LinkStates
  BY <1>0 DEF TypeInv
<1>5. beingLinked = << >>
  BY <1>2 DEF LinkInv, ListsInv
<1>6. undefined' = undefined
  <2> DEFINE l == [i \in DOMAIN beingLinked |-> Unresolved(beingLinked[i])]
             P == [sym : Symbols, remove : {FALSE}]
  <2>1. l = << >>
    BY <1>5
  <2>2. \A i \in DOMAIN l : l[i] \in Unres
    BY <2>1
  <2>3. l \in Seq(Unres) /\ ToSet(l) = {}
    BY <2>1 DEF ToSet
  <2>4. undefined' = undefined \o Filter(l, P)
    BY <1>1 DEF PutBack
  <2> HIDE DEF l, P
  <2>5. Filter(l, P) \in Seq(Unres \cap P) /\ ToSet(Filter(l, P)) = {}
    BY <2>3, FilterElements
  <2>6. Filter(l, P) = << >>
    <3> DEFINE r == Filter(l, P)
    <3>1. r \in Seq(Unres \cap P) /\ ToSet(r) = {}
      BY <2>5
    <3> HIDE DEF r
    <3>2. Len(r) \in Nat /\ DOMAIN r = 1 .. Len(r)
      BY <3>1
    <3>3. 1 \notin DOMAIN r
      BY <3>1 DEF ToSet
    <3>4. Len(r) = 0
      BY <3>2, <3>3
    <3>5. r = << >>
      BY <3>1, <3>4
    <3> QED
      BY <3>5 DEF r
  <2>7. undefined \in Seq(Unres)
    BY <1>0 DEF TypeInv
  <2> QED
    BY <2>4, <2>6, <2>7
<1> HIDE DEF b
<1>7. /\ objs \in Seq(Objects \cup {None})
      /\ ToSet(objs) \ {None} = ToSet(objects) \ {None, b}
      /\ Loaded(objs, libs) = was \ {b}
  BY <1>0, <1>2, LoadedWithout
<1> HIDE DEF objs, was
<1>8. /\ objects' = objs
      /\ private' = private \cap Loaded(objs, libs)
      /\ state' \in [Loaded(objs, libs) -> LinkStates]
      /\ \A m \in Loaded(objs, libs) : state'[m] = state[m]
      /\ bound' = [m \in Loaded(objs, libs) |-> bound[m]]
  BY <1>0, <1>1, <1>4, <1>7, KeptType
<1>9. private' = private
  <2>1. private \subseteq ToSet(objects) /\ None \notin private
    BY <1>0, LinkAssumption DEF LinkInv, BundlesInv, TypeInv, AllModules, Objects
  <2>2. private \subseteq was
    BY <2>1 DEF Loaded, was
  <2> QED
    BY <1>1, <1>7, <1>8, <2>2
<1>10. /\ libs' \in Seq(LibEntries) /\ Len(libs') = Len(libs) /\ DOMAIN libs' = DOMAIN libs
       /\ \A i \in DOMAIN libs : /\ libs'[i].lib = libs[i].lib
                                 /\ ~libs[i].remove => libs'[i] = libs[i]
       /\ \A i \in DOMAIN libs' : ~libs'[i].remove
  BY <1>1, <1>4, ReleasedLibraries
<1> QED
  BY <1>1, <1>2, <1>3, <1>4, <1>5, <1>6, <1>7, <1>8, <1>9, <1>10 DEF objs, b, was

(* Only the process exits.                                                   *)
LEMMA ExitLink ==
  ASSUME LinkInv, Exit
  PROVE  LinkInv'
<1>1. UNCHANGED <<holder, returnOnError, objects, private, libs, state, undefined,
                  beingLinked, saved, bound, at, before>>
  BY DEF Exit, images, lists
<1> QED
  BY <1>1, ExitBase, NothingMoved DEF LinkInv

(* Nothing more is found.                                                    *)
LEMMA ResolvedLink ==
  ASSUME LinkInv, NEW t \in Threads, Resolved(t)
  PROVE  LinkInv'
<1> DEFINE ph == IF returnOnError /\ undefined # << >> THEN "backOut" ELSE "relocate"
<1>0. BaseInv /\ TypeInv /\ FramesInv /\ ReturnInv
  BY DEF LinkInv, BaseInv
<1>1. /\ holder = t /\ at[t].phase = "resolve" /\ GoTo(t, ph)
      /\ UNCHANGED <<holder, returnOnError, objects, private, libs, state, initBound,
                     undefined, beingLinked, saved, bound, before>>
  BY DEF Resolved, In, images, lists
<1>2. Phase = "resolve"
  BY <1>0, <1>1, InsideIs
<1>3. /\ ph \in Inside \ {"link", "unlink"} /\ ph \in {"backOut", "relocate"}
      /\ returnOnError /\ ph = "relocate" => undefined = << >>
  BY DEF Inside, Phases
<1> HIDE DEF ph
<1>4. /\ FramesInv' /\ Phase' = ph /\ Bundle' = Bundle
      /\ at'[t].bundle = at[t].bundle /\ at'[t].phase = ph
      /\ \A u \in Threads \ {t} : at'[u] = at[u]
  BY <1>0, <1>1, <1>3, WentTo
<1>5. ListsInv'
  BY <1>1, <1>3, <1>4 DEF LinkInv, ListsInv
<1>6. BundlesInv'
  BY <1>1, <1>3, <1>4, BundlesKept
<1>7. WaitingInv'
  <2>1. Hidden' = Hidden /\ Asked' = Asked
    BY <1>1, <1>2, <1>3, <1>4 DEF Hidden, Asked
  <2>2. \A m : Linked(m) => state'[m] \in {"BEING_LINKED", "RELOCATED"}
    BY <1>1 DEF Linked
  <2>3. \A s : Provided(s) => Provided(s)'
    BY <1>0, <1>1, <2>1, <2>2, ProvidedSame
  <2>4. OwedInv'
    BY <1>3, <1>4 DEF OwedInv, Owes
  <2>5. ProvidedInv'
    BY <1>1, <1>2, <1>3, <1>4, <2>1, <2>3 DEF LinkInv, WaitingInv, ProvidedInv
  <2>6. AskedForInv' /\ NeedsInv'
    BY <1>1, <1>2, <1>3, <1>4 DEF LinkInv, WaitingInv, AskedForInv, NeedsInv
  <2> QED
    BY <2>4, <2>5, <2>6 DEF WaitingInv
<1>8. BeforeInv'
  <2>1. Was' = Was /\ Bundle' = Bundle
    BY <1>1, <1>4 DEF Was
  <2> QED
    BY <1>1, <1>2, <1>3, <1>4, <2>1 DEF LinkInv, BeforeInv, BeforeTyped, ImagesSince,
                                        StatesSince, ListsSince, FreshSince
<1> QED
  BY <1>0, <1>5, <1>6, <1>7, <1>8, ResolvedBase DEF LinkInv

(* What is saved of a library that was there before is what there was.       *)
LEMMA SavedSince ==
  ASSUME LinkInv, returnOnError, Phase = "resolve", NEW s, Lookup(s) # None,
         NEW m, m = Lookup(s), NEW ms, ms = ToSet(ToLink(m)),
         saved' = SavedWith(m), UNCHANGED <<libs, bound, before>>, Bundle' = Bundle,
         DOMAIN state' = DOMAIN state,
         \A n \in DOMAIN state : state'[n] = state[n] \/ n \in ms
  PROVE  StatesSince'
<1> DEFINE b == Bundle
<1>0. TypeInv /\ FramesInv /\ ObjectsInv
  BY DEF LinkInv, BaseInv
<1>1. BeforeTyped /\ ImagesSince(b) /\ StatesSince /\ b \in Bundles
  BY DEF LinkInv, BeforeInv, BaseInv, ReturnInv
<1> HIDE DEF b
<1>2. /\ ToSet(before.objects) = ToSet(objects) \ {None, b}
      /\ Was \subseteq Loaded(objects, libs) \ {b}
      /\ Was = (ToSet(objects) \ {None, b}) \cup InLibraries(before.libs)
      /\ InLibraries(before.libs) \subseteq LibraryModules
  BY <1>0, <1>1, WasLoaded
<1>3. Was' = Was
  BY DEF Was
<1>4. /\ m \in Loaded(objects, libs)
      /\ m \in Searched(objects, private, libs)
  <2>1. /\ m \in Searched(objects, private \cup {}, libs)
        /\ m \in Loaded(objects, libs)
    BY <1>0, LookupType DEF Lookup
  <2>2. private \cup {} = private
    OBVIOUS
  <2> QED
    BY <2>1, <2>2
<1>5. m \in Objects => m \in ToSet(objects) \ {None}
  <2>1. objects \in Seq(Objects \cup {None}) /\ libs \in Seq(LibEntries)
    BY <1>0 DEF TypeInv
  <2> QED
    BY <1>4, <2>1, LoadedAreModules, LinkAssumption DEF Searched
<1>6. ASSUME m \notin Objects
      PROVE  \/ ToSet(Modules[LibraryOf(m)]) \subseteq Was
             \/ /\ ToSet(Modules[LibraryOf(m)]) \cap Was = {}
                /\ \E i \in DOMAIN libs : libs[i].lib = LibraryOf(m) /\ libs[i].remove
  <2> DEFINE l == LibraryOf(m)
  <2>1. /\ l \in Libraries
        /\ ToSet(Modules[l]) \subseteq LibraryModules
        /\ \E i \in DOMAIN libs : libs[i].lib = l
    BY <1>0, <1>4, <1>6, LibraryLoaded
  <2> HIDE DEF l
  <2>2. PICK i \in DOMAIN libs : libs[i].lib = l
    BY <2>1
  <2>3. /\ libs \in Seq(LibEntries) /\ before.libs \in Seq(LibEntries)
        /\ DOMAIN libs = 1 .. Len(libs) /\ DOMAIN before.libs = 1 .. Len(before.libs)
        /\ Len(libs) \in Nat /\ Len(before.libs) \in Nat
    BY <1>0, <1>1 DEF TypeInv, BeforeTyped
  <2>4. CASE i <= Len(before.libs)
    <3>1. i \in DOMAIN before.libs /\ before.libs[i].lib = l
      BY <1>1, <2>2, <2>3, <2>4 DEF ImagesSince
    <3>2. ToSet(Modules[l]) \subseteq InLibraries(before.libs)
      BY <3>1 DEF InLibraries
    <3> QED
      BY <1>2, <3>2 DEF l
  <2>5. CASE ~(i <= Len(before.libs))
    <3>1. i \in Len(before.libs) + 1 .. Len(libs)
      BY <2>2, <2>3, <2>5
    <3>2. libs[i].remove /\ \A j \in 1 .. Len(before.libs) : libs[j].lib # l
      BY <1>1, <2>2, <3>1 DEF ImagesSince
    <3>3. \A j \in DOMAIN before.libs : before.libs[j].lib # l /\ before.libs[j].lib \in Libraries
      <4> TAKE j \in DOMAIN before.libs
      <4>1. before.libs[j] \in LibEntries /\ libs[j] = before.libs[j]
        BY <1>1, <2>3 DEF ImagesSince
      <4> QED
        BY <2>3, <3>2, <4>1 DEF LibEntries
    <3>4. ToSet(Modules[l]) \cap InLibraries(before.libs) = {}
      <4>1. ASSUME NEW j \in DOMAIN before.libs, NEW x \in ToSet(Modules[l]),
                   x \in ToSet(Modules[before.libs[j].lib])
            PROVE  FALSE
        <5>1. LibraryOf(x) = l
          BY <2>1, LibraryOfModule
        <5>2. LibraryOf(x) = before.libs[j].lib
          BY <3>3, <4>1, LibraryOfModule
        <5> QED
          BY <3>3, <5>1, <5>2
      <4> QED
        BY <4>1 DEF InLibraries
    <3>5. ToSet(Modules[l]) \cap (ToSet(objects) \ {None}) = {}
      <4>1. ToSet(objects) \subseteq Objects \cup {None}
        BY <1>0 DEF TypeInv, ToSet
      <4> QED
        BY <2>1, <4>1, LinkAssumption
    <3>6. ToSet(Modules[l]) \cap Was = {}
      BY <1>2, <3>4, <3>5
    <3> QED
      BY <2>2, <3>2, <3>6 DEF l
  <2> QED
    BY <2>4, <2>5
<1>7. DOMAIN saved' \subseteq Was \cup {b}
  <2>1. ASSUME NEW n \in DOMAIN SavedWith(m)
        PROVE  n \in Was \cup {b}
    <3>1. \/ n \in DOMAIN saved
          \/ n = m /\ m \in Objects
          \/ /\ m \notin Objects /\ n \in ToSet(Modules[LibraryOf(m)])
             /\ ~ \E i \in DOMAIN libs : libs[i].lib = LibraryOf(m) /\ libs[i].remove
      <4>1. \/ n \in DOMAIN saved
            \/ /\ n = m \/ (m \notin Objects /\ n \in ToSet(Modules[LibraryOf(m)]))
               /\ m \notin Objects =>
                    ~ \E i \in DOMAIN libs : libs[i].lib = LibraryOf(m) /\ libs[i].remove
        BY <1>0, <1>4, SavedElements
      <4>2. m \notin Objects => m \in ToSet(Modules[LibraryOf(m)])
        BY <1>0, <1>4, LibraryLoaded
      <4> QED
        BY <4>1, <4>2
    <3> QED
      BY <1>1, <1>2, <1>5, <1>6, <3>1 DEF StatesSince, b
  <2> QED
    BY <2>1
<1>8. ASSUME NEW n \in Was
      PROVE  Over(saved', state')[n] = before.state[n]
  <2>1. n \in DOMAIN state /\ n \in DOMAIN state'
    BY <1>0, <1>2 DEF TypeInv
  <2>2. Over(SavedWith(m), state)[n] = Over(saved, state)[n]
    BY <1>0, <1>2, <1>4, SavedElements
  <2>3. state'[n] = state[n] \/ n \in DOMAIN saved'
    <3>1. CASE n \in ms
      <4>1. m \in Objects => state[m] # "UNLINKED"
        BY <1>0, <1>4, SavedObjects
      <4>2. m \notin Objects /\ n \in ToSet(Modules[LibraryOf(m)])
        BY <1>0, <1>4, <3>1, <4>1, ToLinkElements
      <4>3. \/ \E i \in DOMAIN libs : libs[i].lib = LibraryOf(m) /\ libs[i].remove
            \/ ToSet(Modules[LibraryOf(m)]) \subseteq DOMAIN SavedWith(m)
        BY <1>0, <1>4, <4>2, SavedElements
      <4>4. ToSet(Modules[LibraryOf(m)]) \subseteq Was
        BY <1>6, <4>2
      <4>5. ~ \E i \in DOMAIN libs : libs[i].lib = LibraryOf(m) /\ libs[i].remove
        <5>1. m \in Was
          BY <1>0, <1>4, <4>2, <4>4, LibraryLoaded
        <5>2. m \in InLibraries(before.libs)
          <6>1. ToSet(objects) \subseteq Objects \cup {None}
            BY <1>0 DEF TypeInv, ToSet
          <6> QED
            BY <1>2, <4>2, <5>1, <6>1
        <5>3. PICK j \in DOMAIN before.libs : m \in ToSet(Modules[before.libs[j].lib])
          BY <5>2 DEF InLibraries
        <5>4. before.libs[j].lib = LibraryOf(m) /\ j \in 1 .. Len(before.libs)
              /\ libs[j].lib = LibraryOf(m)
          <6>1. before.libs[j] \in LibEntries /\ j \in 1 .. Len(before.libs)
            BY <1>1 DEF BeforeTyped
          <6>2. libs[j] = before.libs[j]
            BY <1>1, <6>1 DEF ImagesSince
          <6> QED
            BY <5>3, <6>1, <6>2, LibraryOfModule DEF LibEntries
        <5>5. ASSUME NEW i \in DOMAIN libs, libs[i].lib = LibraryOf(m), libs[i].remove
              PROVE  FALSE
          <6>1. i \in 1 .. Len(libs) /\ Len(libs) \in Nat /\ Len(before.libs) \in Nat
            BY <1>0, <1>1 DEF TypeInv, BeforeTyped
          <6>2. i \in 1 .. Len(before.libs) \/ i \in Len(before.libs) + 1 .. Len(libs)
            BY <6>1
          <6> QED
            BY <1>1, <5>4, <5>5, <6>2 DEF ImagesSince
        <5> QED
          BY <5>5
      <4> QED
        BY <4>2, <4>3, <4>5
    <3> QED
      BY <2>1, <3>1
  <2>4. Over(saved', state')[n] = Over(SavedWith(m), state)[n]
    BY <2>1, <2>3 DEF Over
  <2> QED
    BY <1>1, <2>2, <2>4 DEF StatesSince
<1>9. \A n \in Was : bound'[n] = before'.bound[n]
  BY <1>1 DEF StatesSince
<1> QED
  BY <1>3, <1>7, <1>8, <1>9 DEF StatesSince, b

(* Only the entry that is found leaves the undefined list.                   *)
LEMMA RestOfUndefined ==
  ASSUME TypeInv, NEW i \in DOMAIN undefined
  PROVE  /\ RemoveAt(undefined, i) \in Seq(Unres)
         /\ ToSet(RemoveAt(undefined, i)) \subseteq ToSet(undefined)
         /\ ToSet(undefined) \subseteq ToSet(RemoveAt(undefined, i)) \cup {undefined[i]}
<1> DEFINE r == RemoveAt(undefined, i)
<1>1. undefined \in Seq(Unres)
  BY DEF TypeInv
<1>2. /\ r \in Seq(Unres) /\ Len(r) = Len(undefined) - 1
      /\ \A j \in 1 .. Len(undefined) - 1 :
           r[j] = IF j < i THEN undefined[j] ELSE undefined[j + 1]
  BY <1>1, RemoveAtElements
<1> HIDE DEF r
<1>3. /\ DOMAIN r = 1 .. Len(undefined) - 1 /\ Len(undefined) \in Nat
      /\ DOMAIN undefined = 1 .. Len(undefined) /\ i \in 1 .. Len(undefined)
  BY <1>1, <1>2
<1>4. \A j \in DOMAIN r : \E k \in DOMAIN undefined : r[j] = undefined[k]
  <2> TAKE j \in DOMAIN r
  <2>1. CASE j < i
    BY <1>2, <1>3, <2>1
  <2>2. CASE ~(j < i)
    BY <1>2, <1>3, <2>2
  <2> QED
    BY <2>1, <2>2
<1>5. \A k \in DOMAIN undefined : k = i \/ \E j \in DOMAIN r : r[j] = undefined[k]
  <2> TAKE k \in DOMAIN undefined
  <2>1. CASE k < i
    <3>1. k \in DOMAIN r /\ r[k] = undefined[k]
      BY <1>2, <1>3, <2>1
    <3> QED
      BY <3>1
  <2>2. CASE k > i
    <3>1. k - 1 \in DOMAIN r /\ ~(k - 1 < i) /\ (k - 1) + 1 = k
      BY <1>3, <2>2
    <3>2. r[k - 1] = undefined[k]
      BY <1>2, <1>3, <3>1
    <3> QED
      BY <3>1, <3>2
  <2> QED
    BY <1>3, <2>1, <2>2
<1> QED
  BY <1>2, <1>4, <1>5 DEF ToSet, r

(* An undefined symbol is found, and its module cannot be linked.            *)
LEMMA ResolveFailsLink ==
  ASSUME LinkInv, BaseInv', NEW t \in Threads, In(t, "resolve"),
         NEW i \in DOMAIN undefined, Found(i), NEW m, m = Lookup(undefined[i].sym),
         returnOnError,
         undefined' = RemoveAt(undefined, i),
         beingLinked' = Append(beingLinked, LinkedTo(undefined[i], m)),
         saved' = SavedWith(m), GoTo(t, "backOut"),
         UNCHANGED <<holder, returnOnError, objects, private, libs, state, bound, before>>
  PROVE  LinkInv'
<1>0. BaseInv /\ TypeInv /\ FramesInv /\ ReturnInv
  BY DEF LinkInv, BaseInv
<1>1. holder = t /\ Phase = "resolve"
  BY <1>0, InsideIs DEF In
<1>2. /\ FramesInv' /\ Phase' = "backOut" /\ Bundle' = Bundle
      /\ at'[t].bundle = at[t].bundle /\ at'[t].phase = "backOut"
      /\ \A u \in Threads \ {t} : at'[u] = at[u]
  BY <1>0, <1>1, WentTo DEF Inside, Phases
<1>3. ListsInv'
  BY <1>2 DEF ListsInv
<1>4. BundlesInv'
  BY <1>2, BundlesKept
<1>5. WaitingInv'
  <2>1. OwedInv'
    BY <1>2 DEF OwedInv, Owes
  <2>2. ProvidedInv' /\ AskedForInv'
    BY <1>2 DEF ProvidedInv, AskedForInv
  <2>3. NeedsInv'
    BY <1>1, <1>2 DEF LinkInv, WaitingInv, NeedsInv
  <2> QED
    BY <2>1, <2>2, <2>3 DEF WaitingInv
<1>6. BeforeInv'
  <2>1. BeforeTyped /\ ImagesSince(Bundle) /\ StatesSince /\ ListsSince
    BY <1>1 DEF LinkInv, BeforeInv
  <2>2. BeforeTyped'
    BY <2>1 DEF BeforeTyped, Was
  <2>3. ImagesSince(Bundle)'
    BY <1>2, <2>1 DEF ImagesSince
  <2>4. StatesSince'
    <3>1. Lookup(undefined[i].sym) # None
      BY DEF Found
    <3> QED
      BY <1>1, <1>2, <3>1, SavedSince
  <2>5. ListsSince'
    <3>1. ToSet(undefined) \subseteq ToSet(undefined') \cup {undefined[i]}
      BY <1>0, RestOfUndefined
    <3>2. /\ ToSet(beingLinked) \subseteq ToSet(beingLinked')
          /\ LinkedTo(undefined[i], m) \in ToSet(beingLinked')
      <4>1. beingLinked \in Seq(Linking) /\ LinkedTo(undefined[i], m) \in Linking
        <5>1. undefined[i] \in Unres /\ beingLinked \in Seq(Linking)
          BY <1>0 DEF TypeInv
        <5>2. m \in AllModules
          BY <1>0, LookupType DEF Found, Lookup
        <5> QED
          BY <5>1, <5>2 DEF LinkedTo, Linking, Unres
      <4> QED
        BY <4>1, AppendElements
    <3>3. LinkedTo(undefined[i], m).remove = undefined[i].remove
      BY DEF LinkedTo
    <3> QED
      BY <2>1, <3>1, <3>2, <3>3 DEF ListsSince
  <2> QED
    BY <1>2, <2>2, <2>3, <2>4, <2>5 DEF BeforeInv, FreshSince
<1> QED
  BY <1>3, <1>4, <1>5, <1>6 DEF LinkInv

(* A lookup sees all that it may when nothing is hidden any more.             *)
LEMMA NothingHidden ==
  ASSUME UNCHANGED <<objects, private, libs>>, Hidden' = {}, NEW s
  PROVE  LookupPast(Hidden, s)' = Lookup(s)
BY DEF Lookup, LookupPast

(* An undefined symbol is found, and its module is linked.                   *)
LEMMA ResolveLinksLink ==
  ASSUME LinkInv, BaseInv', NEW t \in Threads, In(t, "resolve"),
         NEW i \in DOMAIN undefined, Found(i), NEW m, m = Lookup(undefined[i].sym),
         NEW ms, ms = ToLink(m),
         undefined' = WithUndefined(RemoveAt(undefined, i), ms),
         beingLinked' = WithBeingLinked(Append(beingLinked, LinkedTo(undefined[i], m)), ms),
         state' = Over([n \in ToSet(ms) |-> "BEING_LINKED"], state),
         saved' = SavedWith(m),
         UNCHANGED <<holder, returnOnError, objects, private, libs, bound, at, before>>
  PROVE  LinkInv'
<1> DEFINE rest  == RemoveAt(undefined, i)
           moved == Append(beingLinked, LinkedTo(undefined[i], m))
<1>0. BaseInv /\ TypeInv /\ FramesInv /\ ReturnInv /\ ObjectsInv
  BY DEF LinkInv, BaseInv
<1>1. holder = t /\ Phase = "resolve" /\ at[t].phase = "resolve"
  BY <1>0, InsideIs DEF In
<1>2. Phase' = Phase /\ Bundle' = Bundle /\ Hidden = {} /\ Hidden' = {}
  BY <1>1 DEF Phase, Bundle, Hidden
<1>3. /\ m \in Loaded(objects, libs) /\ m \in AllModules /\ m # None
  BY <1>0, LookupType DEF Found, Lookup
<1>4. /\ ms \in Seq(AllModules)
      /\ ToSet(ms) \subseteq Loaded(objects, libs)
      /\ \A n \in ToSet(ms) : state[n] = "UNLINKED"
      /\ state[m] = "UNLINKED" => m \in ToSet(ms)
  BY <1>0, <1>1, <1>3, SavedObjects, ToLinkElements
<1>5. /\ rest \in Seq(Unres)
      /\ ToSet(rest) \subseteq ToSet(undefined)
      /\ ToSet(undefined) \subseteq ToSet(rest) \cup {undefined[i]}
  BY <1>0, RestOfUndefined
<1>6. /\ moved \in Seq(Linking)
      /\ ToSet(beingLinked) \subseteq ToSet(moved)
      /\ LinkedTo(undefined[i], m) \in ToSet(moved)
  <2>1. beingLinked \in Seq(Linking) /\ LinkedTo(undefined[i], m) \in Linking
    <3>1. undefined[i] \in Unres /\ beingLinked \in Seq(Linking)
      BY <1>0 DEF TypeInv
    <3> QED
      BY <1>3, <3>1 DEF LinkedTo, Linking, Unres
  <2> QED
    BY <2>1, AppendElements
<1> HIDE DEF rest, moved
<1>7. undefined' = WithUndefined(rest, ms) /\ beingLinked' = WithBeingLinked(moved, ms)
  BY DEF rest, moved
<1>8. \A e : e \in ToSet(undefined') <=>
         \/ e \in ToSet(rest)
         \/ \E k \in DOMAIN ms : \E s \in ToSet(Needs[ms[k]]) : ~There(s) /\ e = Entry(s)
  <2>1. \A list \in Seq(Unres) : \A e : e \in ToSet(WithUndefined(list, ms)) <=>
          \/ e \in ToSet(list)
          \/ \E k \in DOMAIN ms : \E s \in ToSet(Needs[ms[k]]) : ~There(s) /\ e = Entry(s)
    BY <1>0, <1>4, UndefinedReferences
  <2> QED
    BY <1>5, <1>7, <2>1
<1>9. ToSet(moved) \subseteq ToSet(beingLinked')
  BY <1>0, <1>4, <1>6, <1>7, BeingLinkedReferences
<1>10. /\ DOMAIN state' = DOMAIN state /\ DOMAIN state = Loaded(objects, libs)
       /\ \A n \in DOMAIN state :
            state'[n] = IF n \in ToSet(ms) THEN "BEING_LINKED" ELSE state[n]
  <2>1. DOMAIN state = Loaded(objects, libs)
    BY <1>0 DEF TypeInv
  <2> QED
    BY <1>4, <2>1 DEF Over
<1>11. \A n \in DOMAIN state : Linked(n) => state'[n] \in {"BEING_LINKED", "RELOCATED"}
  BY <1>10 DEF Linked
<1>12. ListsInv'
  <2>1. \A e \in ToSet(undefined') : e \in ToSet(undefined) \/ e.remove = returnOnError
    BY <1>5, <1>8 DEF Entry
  <2> QED
    BY <1>1, <1>2, <2>1 DEF LinkInv, ListsInv
<1>13. BundlesInv'
  BY <1>2 DEF LinkInv, BundlesInv
<1>14. WaitingInv'
  <2>1. OwedInv'
    BY <1>1 DEF OwedInv, Owes
  <2>2. \A s : Provided(s) => Provided(s)'
    BY <1>0, <1>2, <1>10, <1>11, ProvidedSame
  <2>3. \A s : There(s) => Provided(s)'
    BY <1>2, <2>2, ProvidedIsThere
  <2> PICK sym : sym = undefined[i].sym
    OBVIOUS
  <2>4. Provided(sym)'
    <3>1. LookupPast(Hidden, sym)' = m
      <4>1. m = Lookup(sym)
        OBVIOUS
      <4>2. LookupPast(Hidden, sym)' = Lookup(sym)
        BY <1>2, NothingHidden
      <4> QED
        BY <4>1, <4>2
    <3>2. state'[m] \in {"BEING_LINKED", "RELOCATED"}
      BY <1>0, <1>3, <1>4, <1>10 DEF TypeInv, LinkStates
    <3>3. Linked(LookupPast(Hidden, sym))'
      BY <3>1, <3>2 DEF Linked
    <3> QED
      BY <1>3, <3>1, <3>3 DEF Provided
  <2>5. \A s \in Asked : s \in Asked' \/ s = sym
    BY <1>5, <1>8 DEF Asked
  <2>6. ASSUME NEW n \in DOMAIN state', state'[n] = "BEING_LINKED",
               NEW s \in ToSet(Needs[n])
        PROVE  s \in Asked' \/ Provided(s)'
    <3>1. CASE n \in ToSet(ms)
      BY <1>0, <1>4, <1>5, <1>7, <2>3, <2>6, <3>1, ReferencesProvided
    <3>2. CASE n \notin ToSet(ms)
      <4>1. n \in DOMAIN state /\ state[n] = "BEING_LINKED"
        BY <1>10, <2>6, <3>2
      <4>2. s \in Asked \/ Provided(s)
        BY <1>1, <2>6, <4>1 DEF LinkInv, WaitingInv, ProvidedInv
      <4> QED
        BY <2>2, <2>4, <2>5, <4>2
    <3> QED
      BY <3>1, <3>2
  <2>7. ProvidedInv' /\ AskedForInv'
    BY <1>1, <1>2, <2>6 DEF ProvidedInv, AskedForInv
  <2>8. NeedsInv'
    <3>1. \A n \in DOMAIN state' : state'[n] = "RELOCATED" => n \in DOMAIN state /\ state[n] = "RELOCATED"
      BY <1>10
    <3> QED
      BY <1>1, <1>2, <3>1 DEF LinkInv, WaitingInv, NeedsInv
  <2> QED
    BY <2>1, <2>7, <2>8 DEF WaitingInv
<1>15. BeforeInv'
  <2>1. SUFFICES ASSUME returnOnError
                 PROVE  BeforeTyped' /\ ImagesSince(Bundle)' /\ StatesSince' /\ ListsSince'
    BY <1>1, <1>2 DEF BeforeInv, FreshSince
  <2>2. BeforeTyped /\ ImagesSince(Bundle) /\ StatesSince /\ ListsSince
    BY <1>1, <2>1 DEF LinkInv, BeforeInv
  <2>3. BeforeTyped'
    BY <2>2 DEF BeforeTyped, Was
  <2>4. ImagesSince(Bundle)'
    BY <1>2, <2>2 DEF ImagesSince
  <2>5. StatesSince'
    <3>1. Lookup(undefined[i].sym) # None
      BY DEF Found
    <3>2. \A n \in DOMAIN state : state'[n] = state[n] \/ n \in ToSet(ToLink(m))
      BY <1>10
    <3> QED
      BY <1>1, <1>2, <1>10, <2>1, <3>1, <3>2, SavedSince
  <2>6. ListsSince'
    <3>1. LinkedTo(undefined[i], m).remove = undefined[i].remove
      BY DEF LinkedTo
    <3>2. ToSet(undefined) \subseteq ToSet(undefined') \cup {undefined[i]}
      BY <1>5, <1>8
    <3> QED
      BY <1>6, <1>9, <2>2, <3>1, <3>2 DEF ListsSince
  <2> QED
    BY <2>3, <2>4, <2>5, <2>6
<1> QED
  BY <1>12, <1>13, <1>14, <1>15 DEF LinkInv

(* One of the two, or the process exits.                                     *)
LEMMA ResolveLink ==
  ASSUME LinkInv, NEW t \in Threads, Resolve(t)
  PROVE  LinkInv'
<1>0. BaseInv'
  BY ResolveBase DEF LinkInv
<1>1. PICK i \in DOMAIN undefined :
        LET m     == Lookup(undefined[i].sym)
            ms    == ToLink(m)
            moved == Append(beingLinked, LinkedTo(undefined[i], m))
        IN /\ In(t, "resolve") /\ Found(i)
           /\ \/ Exit
              \/ /\ returnOnError
                 /\ undefined' = RemoveAt(undefined, i) /\ beingLinked' = moved
                 /\ saved' = SavedWith(m) /\ GoTo(t, "backOut")
                 /\ UNCHANGED <<holder, returnOnError, objects, private, libs, state,
                                bound, before, exited>>
              \/ /\ undefined' = WithUndefined(RemoveAt(undefined, i), ms)
                 /\ beingLinked' = WithBeingLinked(moved, ms)
                 /\ state' = Over([n \in ToSet(ms) |-> "BEING_LINKED"], state)
                 /\ saved' = SavedWith(m)
                 /\ UNCHANGED <<holder, returnOnError, objects, private, libs, bound,
                                at, before, exited>>
  BY DEF Resolve
<1>2. PICK m, ms : m = Lookup(undefined[i].sym) /\ ms = ToLink(m)
  OBVIOUS
<1>3. CASE Exit
  BY <1>3, ExitLink
<1>4. CASE /\ returnOnError
           /\ undefined' = RemoveAt(undefined, i)
           /\ beingLinked' = Append(beingLinked, LinkedTo(undefined[i], m))
           /\ saved' = SavedWith(m) /\ GoTo(t, "backOut")
           /\ UNCHANGED <<holder, returnOnError, objects, private, libs, state,
                          bound, before, exited>>
  BY <1>0, <1>1, <1>2, <1>4, ResolveFailsLink
<1>5. CASE /\ undefined' = WithUndefined(RemoveAt(undefined, i), ms)
           /\ beingLinked' = WithBeingLinked(Append(beingLinked, LinkedTo(undefined[i], m)), ms)
           /\ state' = Over([n \in ToSet(ms) |-> "BEING_LINKED"], state)
           /\ saved' = SavedWith(m)
           /\ UNCHANGED <<holder, returnOnError, objects, private, libs, bound,
                          at, before, exited>>
  BY <1>0, <1>1, <1>2, <1>5, ResolveLinksLink
<1> QED
  BY <1>1, <1>2, <1>3, <1>4, <1>5

(* A thread leaves with the bundle it was in for gone.                       *)
LEMMA BundleGone ==
  ASSUME LinkInv, NEW t \in Threads, NEW b \in Bundles, b = at[t].bundle, holder = t,
         at'[t] = Out, \A u \in Threads \ {t} : at'[u] = at[u],
         ToSet(objects') \ {None} = ToSet(objects) \ {None, b},
         private' \subseteq ToSet(objects'), ~returnOnError'
  PROVE  BundlesInv'
<1>0. FramesInv /\ BundlesInv /\ None \notin Bundles
  BY LinkAssumption DEF LinkInv, BaseInv, AllModules, Objects
<1>1. ASSUME NEW u \in Threads, at'[u].phase \in {"link", "unlink", "unlinkHandler"}
      PROVE  /\ u # t /\ at'[u] = at[u] /\ at[u].bundle \in Bundles
             /\ at[u].phase \in {"unlink", "unlinkHandler"}
  <2>1. u # t /\ at'[u] = at[u]
    BY <1>1 DEF Out
  <2>2. at[u].phase # "link"
    BY <1>0, <2>1 DEF FramesInv, Inside, Phases
  <2> QED
    BY <1>0, <1>1, <2>1, <2>2 DEF FramesInv
<1>2. ASSUME NEW u \in Threads, at'[u].phase \in {"link", "unlink", "unlinkHandler"}
      PROVE  at'[u].bundle \in ToSet(objects')
  <2>1. at[u].bundle # b
    BY <1>0, <1>1, <1>2 DEF BundlesInv
  <2>2. at[u].bundle \in ToSet(objects) \ {None, b}
    BY <1>0, <1>1, <1>2, <2>1 DEF BundlesInv
  <2> QED
    BY <1>1, <1>2, <2>2
<1>3. ASSUME NEW u \in Threads, NEW v \in Threads,
             at'[u].phase \in {"unlink", "unlinkHandler"}, at'[v].bundle = at'[u].bundle
      PROVE  v = u
  <2>1. u # t /\ at'[u] = at[u] /\ at[u].bundle \in Bundles
    BY <1>1, <1>3
  <2>2. v # t /\ at'[v] = at[v]
    BY <1>0, <1>3, <2>1 DEF Out
  <2> QED
    BY <1>0, <1>3, <2>1, <2>2 DEF BundlesInv
<1> QED
  BY <1>2, <1>3 DEF BundlesInv

(* So what it failed to link is gone, and what waits still does.             *)
LEMMA LinkObjectFailsLink ==
  ASSUME LinkInv, NEW t \in Threads, LinkObjectFails(t)
  PROVE  LinkInv'
<1> DEFINE b == at[t].bundle
<1>0. BaseInv /\ TypeInv
  BY DEF LinkInv, BaseInv
<1>1. CASE ~returnOnError
  BY <1>1, ExitLink DEF LinkObjectFails
<1>2. CASE returnOnError
  <2>1. /\ holder = t /\ Phase = "link" /\ at[t].phase = "link"
        /\ b = Bundle /\ b \in Bundles /\ b \notin private
        /\ Phase' = "out" /\ ~returnOnError' /\ at'[t] = Out
        /\ \A u \in Threads \ {t} : at'[u] = at[u]
        /\ objects' = WithoutBundle(objects, b)
        /\ ToSet(objects') \ {None} = ToSet(objects) \ {None, b}
        /\ private' = private
        /\ libs' \in Seq(LibEntries) /\ Len(libs') = Len(libs)
        /\ \A i \in 1 .. Len(libs) : libs'[i].lib = libs[i].lib /\ ~libs'[i].remove
        /\ DOMAIN state = Loaded(objects, libs) /\ DOMAIN state' = DOMAIN state \ {b}
        /\ \A m \in DOMAIN state' : state'[m] = state[m] /\ bound'[m] = bound[m]
        /\ undefined' = undefined /\ beingLinked' = << >>
    BY <1>2, LinkObjectFailsLeaves
  <2> HIDE DEF b
  <2>2. Hidden = {b} /\ Hidden' = {} /\ Asked' = Asked
    BY <2>1 DEF Hidden, Asked
  <2>3. ListsInv'
    BY <2>1 DEF LinkInv, ListsInv
  <2>4. BundlesInv'
    <3>1. private' \subseteq ToSet(objects')
      <4>1. private \subseteq ToSet(objects) /\ None \notin private
        BY <1>0, LinkAssumption DEF LinkInv, BundlesInv, TypeInv, AllModules, Objects
      <4> QED
        BY <2>1, <4>1
    <3> QED
      BY <2>1, <3>1, BundleGone DEF b
  <2>5. ASSUME NEW s, Provided(s)
        PROVE  Provided(s)'
    <3>1. \A i \in DOMAIN objects : objects'[i] = IF objects[i] = b THEN None ELSE objects[i]
      BY <2>1 DEF WithoutBundle
    <3>2. DOMAIN objects' = DOMAIN objects
      BY <2>1 DEF WithoutBundle
    <3>3. /\ ObjectPlaces(objects', private' \cup Hidden', s)
               = ObjectPlaces(objects, private \cup Hidden, s)
          /\ \A i \in ObjectPlaces(objects, private \cup Hidden, s) : objects'[i] = objects[i]
      BY <2>1, <2>2, <3>1, <3>2 DEF ObjectPlaces
    <3>4. ASSUME NEW m \in Searched(objects, private \cup Hidden, libs), Linked(m)
          PROVE  state'[m] \in {"BEING_LINKED", "RELOCATED"}
      <4>1. b \notin InLibraries(libs)
        BY <1>0, <2>1, LoadedAreModules, LinkAssumption DEF TypeInv, Objects
      <4>2. m # b /\ m \in Loaded(objects, libs)
        BY <2>2, <4>1 DEF Searched, Loaded
      <4> QED
        BY <2>1, <3>4, <4>2 DEF Linked
    <3>5. Len(libs) <= Len(libs')
      BY <1>0, <2>1 DEF TypeInv
    <3> QED
      BY <1>0, <2>1, <2>5, <3>3, <3>4, <3>5, ProvidedStays
  <2>6. WaitingInv'
    <3>1. OwedInv'
      <4>1. SUFFICES ASSUME undefined # << >>
                     PROVE  \E u \in Threads : Owes(u)'
        BY <2>1 DEF OwedInv
      <4>2. PICK u \in Threads : Owes(u)
        BY <4>1 DEF LinkInv, WaitingInv, OwedInv
      <4>3. u # t /\ at'[u] = at[u]
        BY <2>1, <4>2 DEF Owes
      <4> QED
        BY <2>1, <4>2, <4>3 DEF Owes
    <3>2. ProvidedInv /\ AskedForInv /\ NeedsInv
      BY DEF LinkInv, WaitingInv
    <3>3. ProvidedInv'
      BY <2>1, <2>2, <2>5, <3>2 DEF ProvidedInv
    <3>4. AskedForInv'
      BY <2>1, <2>2, <3>2 DEF AskedForInv
    <3>5. NeedsInv'
      BY <2>1, <3>2 DEF NeedsInv
    <3> QED
      BY <3>1, <3>3, <3>4, <3>5 DEF WaitingInv
  <2>7. BeforeInv'
    BY <2>1 DEF BeforeInv
  <2> QED
    BY <1>0, <2>3, <2>4, <2>6, <2>7, LinkObjectFailsBase DEF LinkInv
<1> QED
  BY <1>1, <1>2

(* There is then nothing more than the libraries that have been loaded.      *)
LEMMA LinkObjectFailsLoads ==
  ASSUME LinkInv, NEW t \in Threads, LinkObjectFails(t), returnOnError
  PROVE  OnlyLoadedSince(before)'
<1> DEFINE b == at[t].bundle
<1>0. TypeInv /\ ObjectsInv
  BY DEF LinkInv, BaseInv
<1>1. /\ Phase = "link" /\ b = Bundle /\ b \in Bundles /\ b \notin private
      /\ objects' = WithoutBundle(objects, b)
      /\ private' = private
      /\ libs' \in Seq(LibEntries) /\ Len(libs') = Len(libs)
      /\ \A i \in 1 .. Len(libs) : /\ ~libs'[i].remove
                                   /\ ~libs[i].remove => libs'[i] = libs[i]
      /\ DOMAIN state = Loaded(objects, libs) /\ DOMAIN state' = DOMAIN state \ {b}
      /\ \A m \in DOMAIN state' : state'[m] = state[m] /\ bound'[m] = bound[m]
      /\ undefined' = undefined /\ beingLinked = << >> /\ beingLinked' = << >>
      /\ before' = before
  BY LinkObjectFailsLeaves
<1> HIDE DEF b
<1>2. BeforeTyped /\ ImagesSince(b) /\ StatesSince /\ FreshSince
  BY <1>1 DEF LinkInv, BeforeInv
<1>3. Was \subseteq DOMAIN state' /\ Was \subseteq DOMAIN state
  BY <1>0, <1>1, <1>2, WasLoaded
<1>4. Filter(objects', Objects) = before.objects /\ private' = before.private
  BY <1>1, <1>2 DEF ImagesSince
<1>5. SubSeq(libs', 1, Len(before.libs)) = before.libs
  <2>1. /\ before.libs \in Seq(LibEntries) /\ Len(before.libs) \in Nat
        /\ Len(before.libs) <= Len(libs') /\ libs' \in Seq(LibEntries)
        /\ \A i \in 1 .. Len(before.libs) : i \in 1 .. Len(libs)
    BY <1>0, <1>1, <1>2 DEF BeforeTyped, ImagesSince, TypeInv
  <2>2. \A i \in 1 .. Len(before.libs) : libs'[i] = before.libs[i]
    BY <1>1, <1>2, <2>1 DEF ImagesSince
  <2> QED
    BY <2>1, <2>2
<1>6. Restrict(state', DOMAIN before.state) = before.state
  <2>1. saved = << >>
    BY <1>0, <1>1 DEF ObjectsInv
  <2>2. DOMAIN saved = {}
    BY <2>1
  <2>3. \A m \in Was : Over(saved, state)[m] = state[m]
    BY <1>3, <2>2 DEF Over
  <2>4. \A m \in Was : state'[m] = before.state[m]
    BY <1>1, <1>2, <1>3, <2>3 DEF StatesSince
  <2>5. before.state = [m \in Was |-> before.state[m]] /\ DOMAIN before.state = Was
    BY <1>2 DEF BeforeTyped
  <2> QED
    BY <2>4, <2>5 DEF Restrict
<1>7. Restrict(bound', DOMAIN before.bound) = before.bound
  <2>1. \A m \in Was : bound'[m] = before.bound[m]
    BY <1>1, <1>2, <1>3 DEF StatesSince
  <2>2. before.bound = [m \in Was |-> before.bound[m]]
    BY <1>2 DEF BeforeTyped
  <2>3. DOMAIN before.bound = Was
    BY <2>2
  <2> QED
    BY <2>1, <2>2, <2>3 DEF Restrict
<1>8. lists' = before.lists
  BY <1>1, <1>2 DEF FreshSince, lists
<1>9. \A m \in DOMAIN state' \ DOMAIN before.state :
        state'[m] = "UNLINKED" /\ bound'[m] = << >>
  <2>1. DOMAIN before.state = Was
    BY <1>2 DEF BeforeTyped
  <2> QED
    BY <1>1, <1>2, <2>1 DEF FreshSince
<1>10. \A i \in DOMAIN libs' : ~libs'[i].remove
  BY <1>1
<1> DEFINE now == [objects |-> Filter(objects', Objects), private |-> private',
                   libs |-> libs', state |-> state', bound |-> bound', lists |-> lists']
<1>11. Changeable' = now
  BY DEF Changeable
<1>12. [now EXCEPT !.libs  = SubSeq(libs', 1, Len(before.libs)),
                   !.state = Restrict(state', DOMAIN before.state),
                   !.bound = Restrict(bound', DOMAIN before.bound)]
         = [objects |-> before.objects, private |-> before.private, libs |-> before.libs,
            state |-> before.state, bound |-> before.bound, lists |-> before.lists]
  <2> DEFINE L == SubSeq(libs', 1, Len(before.libs))
             S == Restrict(state', DOMAIN before.state)
             B == Restrict(bound', DOMAIN before.bound)
             O == Filter(objects', Objects)
             p == private'
             l == libs'
             s == state'
             b2 == bound'
             k == lists'
  <2>1. /\ O = before.objects /\ L = before.libs /\ S = before.state /\ B = before.bound
        /\ private' = before.private
    BY <1>4, <1>5, <1>6, <1>7
  <2> HIDE DEF L, S, B, O, p, l, s, b2, k
  <2>2. [[objects |-> O, private |-> p, libs |-> l, state |-> s, bound |-> b2, lists |-> k]
           EXCEPT !.libs = L, !.state = S, !.bound = B]
          = [objects |-> O, private |-> p, libs |-> L, state |-> S, bound |-> B, lists |-> k]
    <3> DEFINE rec(y, x, z) == [objects |-> O, private |-> p, libs |-> y, state |-> x,
                                bound |-> z, lists |-> k]
    <3>1. ASSUME NEW r, r = rec(l, s, b2)
          PROVE  [r EXCEPT !.libs = L] = rec(L, s, b2)
      BY <3>1
    <3>2. ASSUME NEW r, r = rec(L, s, b2)
          PROVE  [r EXCEPT !.state = S] = rec(L, S, b2)
      BY <3>2
    <3>3. ASSUME NEW r, r = rec(L, S, b2)
          PROVE  [r EXCEPT !.bound = B] = rec(L, S, B)
      BY <3>3
    <3> QED
      BY <3>1, <3>2, <3>3
  <2> QED
    BY <1>8, <2>1, <2>2 DEF L, S, B, O, p, l, s, b2, k
<1>13. before' = [Changeable' EXCEPT !.libs  = SubSeq(@, 1, Len(before'.libs)),
                                     !.state = Restrict(@, DOMAIN before'.state),
                                     !.bound = Restrict(@, DOMAIN before'.bound)]
  <2>1. [now EXCEPT !.libs  = SubSeq(@, 1, Len(before.libs)),
                    !.state = Restrict(@, DOMAIN before.state),
                    !.bound = Restrict(@, DOMAIN before.bound)]
          = [now EXCEPT !.libs  = SubSeq(libs', 1, Len(before.libs)),
                        !.state = Restrict(state', DOMAIN before.state),
                        !.bound = Restrict(bound', DOMAIN before.bound)]
    OBVIOUS
  <2> HIDE DEF now
  <2> QED
    BY <1>1, <1>2, <1>11, <1>12, <2>1 DEF BeforeTyped
<1> QED
  BY <1>1, <1>9, <1>10, <1>13 DEF OnlyLoadedSince

(* What is left of the libraries are those there were.                       *)
LEMMA LibrariesBackedOut ==
  ASSUME TypeInv, BeforeTyped, NEW b, ImagesSince(b)
  PROVE  WithoutRemoveOnError(libs) = before.libs
<1> DEFINE ls  == WithoutRemoveOnError(libs)
           was == before.libs
<1>1. libs \in Seq(LibEntries) /\ was \in Seq(LibEntries)
  BY DEF TypeInv, BeforeTyped
<1>2. /\ ls \in Seq(LibEntries) /\ Len(ls) <= Len(libs)
      /\ \A i \in 1 .. Len(ls) : ls[i] = libs[i] /\ ~libs[i].remove
      /\ ls = libs \/ libs[Len(ls) + 1].remove
  BY <1>1, LibrariesLeft
<1>3. /\ Len(was) <= Len(libs)
      /\ \A i \in 1 .. Len(was) : libs[i] = was[i] /\ ~libs[i].remove
      /\ \A i \in Len(was) + 1 .. Len(libs) : libs[i].remove
  BY DEF ImagesSince
<1> HIDE DEF ls, was
<1>4. Len(ls) \in Nat /\ Len(was) \in Nat /\ Len(libs) \in Nat
  BY <1>1, <1>2
<1>5. Len(ls) <= Len(was)
  <2>1. SUFFICES ASSUME Len(was) < Len(ls)
                 PROVE  FALSE
    BY <1>4
  <2>2. Len(was) + 1 \in 1 .. Len(ls) /\ Len(was) + 1 \in Len(was) + 1 .. Len(libs)
    BY <1>2, <1>4, <2>1
  <2> QED
    BY <1>2, <1>3, <2>2
<1>6. Len(was) <= Len(ls)
  <2>1. SUFFICES ASSUME Len(ls) < Len(was)
                 PROVE  FALSE
    BY <1>4
  <2>2. ls # libs /\ Len(ls) + 1 \in 1 .. Len(was)
    BY <1>3, <1>4, <2>1
  <2> QED
    BY <1>2, <1>3, <2>2
<1>7. Len(ls) = Len(was)
  BY <1>4, <1>5, <1>6
<1>8. \A i \in 1 .. Len(was) : ls[i] = was[i]
  BY <1>2, <1>3, <1>7
<1>9. ls = [i \in 1 .. Len(was) |-> ls[i]] /\ was = [i \in 1 .. Len(was) |-> was[i]]
  BY <1>1, <1>2, <1>7
<1> QED
  BY <1>8, <1>9 DEF ls, was

(* There is then what there was before the link.                             *)
LEMMA BackOutRestores ==
  ASSUME LinkInv, NEW t \in Threads, BackOut(t)
  PROVE  /\ Changeable' = before
         /\ BeforeTyped /\ Loaded(objects', libs') = Was
         /\ private' = before.private /\ libs' = before.libs /\ state' = before.state
         /\ bound' = before.bound /\ before.lists[1] = << >>
         /\ ToSet(before.objects) = ToSet(objects') \ {None}
<1> DEFINE b    == at[t].bundle
           objs == WithoutBundle(objects, b)
           ls   == WithoutRemoveOnError(libs)
<1>0. TypeInv /\ FramesInv /\ ReturnInv
  BY DEF LinkInv, BaseInv
<1>1. /\ Phase = "backOut" /\ returnOnError
      /\ b \in Bundles /\ b = Bundle
      /\ Removable(PutBack)
      /\ ToSet(objs) \ {None} = ToSet(objects) \ {None, b}
      /\ Loaded(objs, ls) \subseteq Loaded(objects, libs) \ {b}
      /\ objects' = objs /\ libs' = ls
      /\ private' = private \cap Loaded(objs, ls)
      /\ DOMAIN state' = Loaded(objs, ls)
      /\ \A m \in Loaded(objs, ls) : state'[m] = RestoredStates[m]
      /\ bound' = [m \in Loaded(objs, ls) |-> bound[m]]
      /\ undefined' = << >> /\ beingLinked' = << >>
      /\ before' = before
      /\ TypeInv'
  BY <1>0, BackedOut
<1>2. Filter(objs, Objects) = before.objects
  BY <1>1 DEF LinkInv, BeforeInv, ImagesSince
<1> HIDE DEF b, objs, ls
<1>3. BeforeTyped /\ ImagesSince(b) /\ StatesSince /\ ListsSince
  BY <1>1 DEF LinkInv, BeforeInv
<1>4. /\ ToSet(before.objects) = ToSet(objects) \ {None, b}
      /\ Was = (ToSet(objects) \ {None, b}) \cup InLibraries(before.libs)
      /\ b \notin Was
  BY <1>0, <1>1, <1>3, WasLoaded
<1>5. ls = before.libs
  BY <1>0, <1>3, LibrariesBackedOut DEF ls
<1>6. Loaded(objs, ls) = Was
  BY <1>1, <1>4, <1>5 DEF Loaded
<1>7. private' = before.private
  <2>1. private \ {b} = before.private
    BY <1>3 DEF ImagesSince
  <2>2. before.private \subseteq Was
    BY <1>3, <1>4 DEF BeforeTyped
  <2> QED
    BY <1>1, <1>4, <1>6, <2>1, <2>2
<1>8. state' = before.state
  <2>1. state' \in [Was -> LinkStates]
    BY <1>1, <1>6 DEF TypeInv
  <2>2. before.state \in [Was -> LinkStates]
    BY <1>3 DEF BeforeTyped
  <2>3. \A m \in Was : state'[m] = before.state[m]
    BY <1>1, <1>3, <1>6 DEF StatesSince, RestoredStates
  <2> QED
    BY <2>1, <2>2, <2>3
<1>9. bound' = before.bound
  <2>1. before.bound = [m \in Was |-> before.bound[m]]
    BY <1>3 DEF BeforeTyped
  <2>2. \A m \in Was : bound[m] = before.bound[m]
    BY <1>3 DEF StatesSince
  <2> QED
    BY <1>1, <1>6, <2>1, <2>2
<1>10. before.lists[1] = << >>
  <2>1. Removable(undefined) /\ Removable(beingLinked)
    BY <1>0, <1>1, PutBackElements
  <2>2. \A e \in ToSet(undefined) \cup ToSet(beingLinked) : e.remove
    BY <2>1 DEF Removable, ToSet
  <2> QED
    BY <1>3, <2>2 DEF ListsSince
<1>11. before.lists = lists'
  BY <1>1, <1>3, <1>10 DEF BeforeTyped, lists
<1>12. Changeable' = [objects |-> before.objects, private |-> before.private,
                      libs |-> before.libs, state |-> before.state,
                      bound |-> before.bound, lists |-> before.lists]
  BY <1>1, <1>2, <1>5, <1>7, <1>8, <1>9, <1>11 DEF Changeable
<1>13. Changeable' = before
  BY <1>3, <1>12 DEF BeforeTyped
<1> QED
  BY <1>1, <1>3, <1>4, <1>5, <1>6, <1>7, <1>8, <1>9, <1>10, <1>13

(* So nothing is half linked any more.                                       *)
LEMMA BackOutLink ==
  ASSUME LinkInv, NEW t \in Threads, BackOut(t)
  PROVE  LinkInv'
<1> DEFINE b    == at[t].bundle
           objs == WithoutBundle(objects, b)
<1>0. BaseInv /\ TypeInv /\ FramesInv /\ ReturnInv
  BY DEF LinkInv, BaseInv
<1>1. /\ holder = t /\ Phase = "backOut" /\ returnOnError /\ b \in Bundles /\ b = Bundle
      /\ Phase' = "out" /\ ~returnOnError'
      /\ at'[t] = Out /\ \A u \in Threads \ {t} : at'[u] = at[u]
      /\ ToSet(objs) \ {None} = ToSet(objects) \ {None, b}
      /\ objects' = objs
      /\ undefined' = << >> /\ beingLinked' = << >>
  BY <1>0, BackedOut
<1>2. /\ BeforeTyped
      /\ Loaded(objects', libs') = Was
      /\ private' = before.private /\ libs' = before.libs /\ state' = before.state
      /\ bound' = before.bound /\ before.lists[1] = << >>
      /\ ToSet(before.objects) = ToSet(objects') \ {None}
  BY BackOutRestores
<1> HIDE DEF b, objs
<1>3. ListsInv'
  <2>1. \A i \in 1 .. Len(before.libs) : libs[i] = before.libs[i] /\ ~libs[i].remove
    BY <1>1 DEF LinkInv, BeforeInv, ImagesSince
  <2>2. DOMAIN before.libs = 1 .. Len(before.libs)
    BY <1>2 DEF BeforeTyped
  <2>3. \A i \in DOMAIN libs' : ~libs'[i].remove
    BY <1>2, <2>1, <2>2
  <2>4. ToSet(undefined') = {}
    BY <1>1 DEF ToSet
  <2> QED
    BY <1>1, <2>3, <2>4 DEF ListsInv
<1>4. BundlesInv'
  <2>1. private' \subseteq ToSet(objects')
    BY <1>2 DEF BeforeTyped
  <2> QED
    BY <1>1, <2>1, BundleGone DEF b
<1>5. WaitingInv'
  <2>1. DOMAIN state' = Was
    BY <1>2 DEF BeforeTyped
  <2>2. \A m \in DOMAIN state' : state'[m] # "BEING_LINKED"
    BY <1>2, <2>1 DEF BeforeTyped
  <2>3. OwedInv' /\ ProvidedInv' /\ AskedForInv'
    BY <1>1, <2>2 DEF OwedInv, ProvidedInv, AskedForInv
  <2>4. NeedsInv'
    BY <1>2, <2>1 DEF BeforeTyped, NeedsInv
  <2> QED
    BY <2>3, <2>4 DEF WaitingInv
<1>6. BeforeInv'
  BY <1>1 DEF BeforeInv
<1> QED
  BY <1>0, <1>3, <1>4, <1>5, <1>6, BackOutBase DEF LinkInv

(* The backing out that does not end                                         *)
LEMMA BackOutForeverLink ==
  ASSUME LinkInv, NEW t \in Threads, BackOutForever(t)
  PROVE  LinkInv'
<1>0. BaseInv /\ TypeInv /\ FramesInv /\ ReturnInv
  BY DEF LinkInv, BaseInv
<1>1. /\ holder = t /\ at[t].phase = "backOut" /\ GoTo(t, "spin")
      /\ beingLinked' = << >>
      /\ UNCHANGED <<holder, returnOnError, objects, private, libs>>
  BY DEF BackOutForever, In
<1>2. Phase = "backOut" /\ returnOnError
  BY <1>0, <1>1, InsideIs DEF ReturnInv
<1>3. /\ Phase' = "spin" /\ Bundle' = Bundle
      /\ at'[t].bundle = at[t].bundle /\ at'[t].phase = "spin"
      /\ \A u \in Threads \ {t} : at'[u] = at[u]
  BY <1>0, <1>1, WentTo DEF Inside, Phases
<1>4. ListsInv'
  BY <1>1, <1>2, <1>3 DEF ListsInv
<1>5. BundlesInv'
  BY <1>1, <1>3, BundlesKept
<1>6. WaitingInv'
  BY <1>3 DEF WaitingInv, OwedInv, Owes, ProvidedInv, AskedForInv, NeedsInv
<1>7. BeforeInv'
  BY <1>3 DEF BeforeInv
<1> QED
  BY <1>0, <1>4, <1>5, <1>6, <1>7, BackOutForeverBase DEF LinkInv

(* Relocating adds to what a module is bound to.                             *)
LEMMA BoundAnewHas ==
  ASSUME NEW m
  PROVE  /\ DOMAIN bound[m] \subseteq DOMAIN BoundAnew(m)
         /\ state[m] = "BEING_LINKED" /\ AllDefined(m) =>
              ToSet(Needs[m]) \subseteq DOMAIN BoundAnew(m)
BY DEF BoundAnew, Over

(* What stays BEING_LINKED needs something that nobody defines.              *)
LEMMA RelocateLink ==
  ASSUME LinkInv, NEW t \in Threads, Relocate(t)
  PROVE  LinkInv'
<1>0. BaseInv /\ TypeInv /\ FramesInv /\ ReturnInv
  BY DEF LinkInv, BaseInv
<1>1. /\ holder = t /\ at[t].phase = "relocate" /\ GoTo(t, "report")
      /\ state' = [m \in DOMAIN state |->
                     IF state[m] = "BEING_LINKED" /\ AllDefined(m) THEN "RELOCATED"
                                                                   ELSE state[m]]
      /\ bound' = [m \in DOMAIN bound |-> BoundAnew(m)]
      /\ beingLinked' = << >>
      /\ UNCHANGED <<holder, returnOnError, objects, private, libs, undefined>>
  BY DEF Relocate, In
<1>2. Phase = "relocate"
  BY <1>0, <1>1, InsideIs
<1>3. /\ Phase' = "report" /\ Bundle' = Bundle
      /\ at'[t].bundle = at[t].bundle /\ at'[t].phase = "report"
      /\ \A u \in Threads \ {t} : at'[u] = at[u]
  BY <1>0, <1>1, WentTo DEF Inside, Phases
<1>4. ListsInv'
  BY <1>1, <1>2, <1>3 DEF LinkInv, ListsInv
<1>5. BundlesInv'
  BY <1>1, <1>3, BundlesKept
<1>6. /\ DOMAIN state' = DOMAIN state /\ DOMAIN bound = DOMAIN state
      /\ DOMAIN state = Loaded(objects, libs)
      /\ \A m \in DOMAIN state :
           /\ Linked(m) => state'[m] \in {"BEING_LINKED", "RELOCATED"}
           /\ state'[m] = "BEING_LINKED" => state[m] = "BEING_LINKED" /\ ~AllDefined(m)
           /\ state'[m] = "RELOCATED" => \/ state[m] = "RELOCATED"
                                         \/ state[m] = "BEING_LINKED" /\ AllDefined(m)
           /\ bound'[m] = BoundAnew(m)
  BY <1>0, <1>1 DEF TypeInv, Linked
<1>7. Hidden = {} /\ Hidden' = {} /\ Asked' = Asked
  BY <1>1, <1>2, <1>3 DEF Hidden, Asked
<1>8. WaitingInv'
  <2>1. OwedInv'
    BY <1>3 DEF OwedInv, Owes
  <2>2. \A s : Provided(s) => Provided(s)'
    BY <1>0, <1>1, <1>6, <1>7, ProvidedSame
  <2>3. ASSUME NEW m \in DOMAIN state, state[m] = "BEING_LINKED", NEW s \in ToSet(Needs[m])
        PROVE  s \in Asked \/ Provided(s)
    BY <1>2, <2>3 DEF LinkInv, WaitingInv, ProvidedInv
  <2>4. ProvidedInv'
    BY <1>6, <1>7, <2>2, <2>3 DEF ProvidedInv
  <2>5. AskedForInv'
    <3>1. ASSUME NEW m \in DOMAIN state, state'[m] = "BEING_LINKED"
          PROVE  ToSet(Needs[m]) \cap Asked # {}
      <4>1. PICK s \in ToSet(Needs[m]) : Lookup(s) = None
        BY <1>6, <3>1 DEF AllDefined
      <4>2. ~Provided(s)
        BY <1>7, <4>1, ProvidedIsThere DEF There
      <4>3. s \in Asked
        BY <1>6, <2>3, <3>1, <4>2
      <4> QED
        BY <4>3
    <3> QED
      BY <1>6, <1>7, <3>1 DEF AskedForInv
  <2>6. NeedsInv'
    <3>1. ASSUME NEW m \in DOMAIN state, state'[m] = "RELOCATED"
          PROVE  ToSet(Needs[m]) \subseteq DOMAIN bound'[m]
      <4>1. CASE state[m] = "RELOCATED"
        <5>1. ToSet(Needs[m]) \subseteq DOMAIN bound[m]
          BY <1>2, <4>1 DEF LinkInv, WaitingInv, NeedsInv
        <5> QED
          BY <1>6, <5>1, BoundAnewHas
      <4>2. CASE state[m] = "BEING_LINKED" /\ AllDefined(m)
        BY <1>6, <4>2, BoundAnewHas
      <4> QED
        BY <1>6, <3>1, <4>1, <4>2
    <3> QED
      BY <1>6, <3>1 DEF NeedsInv
  <2> QED
    BY <2>1, <2>4, <2>5, <2>6 DEF WaitingInv
<1>9. BeforeInv'
  BY <1>3 DEF BeforeInv
<1> QED
  BY <1>0, <1>4, <1>5, <1>8, <1>9, RelocateBase DEF LinkInv

(* Threads that stay with their bundles, whatever they do there              *)
LEMMA BundlesSame ==
  ASSUME LinkInv, UNCHANGED <<objects, private>>, ~returnOnError',
         \A u \in Threads : at'[u].bundle = at[u].bundle,
         \A u \in Threads : at'[u].phase \in {"link", "unlink", "unlinkHandler"} =>
           /\ at[u].phase \in {"link", "unlink", "unlinkHandler"}
           /\ at'[u].phase # "link" => at[u].phase # "link"
  PROVE  BundlesInv'
BY DEF LinkInv, BundlesInv

(* What is waited for, when only the lists grow and who is where changes     *)
LEMMA WaitingSame ==
  ASSUME LinkInv, UNCHANGED <<objects, private, libs, state, bound>>,
         Phase \notin {"link", "resolve", "relocate", "backOut", "spin"},
         Phase' \notin {"link", "spin"},
         ToSet(undefined) \subseteq ToSet(undefined'), OwedInv'
  PROVE  WaitingInv'
<1>1. Hidden' = Hidden /\ Asked \subseteq Asked'
  BY AskedMore DEF Hidden
<1>2. \A m : Linked(m) => state'[m] \in {"BEING_LINKED", "RELOCATED"}
  BY DEF Linked
<1>3. \A s : Provided(s) => Provided(s)'
  BY <1>1, <1>2, ProvidedSame DEF LinkInv, BaseInv
<1>4. ASSUME NEW m \in DOMAIN state, state[m] = "BEING_LINKED"
      PROVE  /\ \A s \in ToSet(Needs[m]) : s \in Asked \/ Provided(s)
             /\ ToSet(Needs[m]) \cap Asked # {}
  BY <1>4 DEF LinkInv, WaitingInv, ProvidedInv, AskedForInv
<1>5. ProvidedInv'
  BY <1>1, <1>3, <1>4 DEF ProvidedInv
<1>6. AskedForInv'
  BY <1>1, <1>4 DEF AskedForInv
<1>7. NeedsInv'
  BY DEF LinkInv, WaitingInv, NeedsInv
<1> QED
  BY <1>5, <1>6, <1>7 DEF WaitingInv

(* What is undefined is owed by the handler from now on.                     *)
LEMMA CallHandlerLink ==
  ASSUME LinkInv, NEW t \in Threads, CallHandler(t)
  PROVE  LinkInv'
<1>0. BaseInv /\ TypeInv /\ FramesInv /\ ReturnInv
  BY DEF LinkInv, BaseInv
<1>1. CASE Exit
  BY <1>1, ExitLink
<1>2. CASE ~Exit
  <2>0. exited' = exited
    BY <1>2 DEF CallHandler
  <2>1. /\ holder = t /\ Phase = at[t].phase /\ Phase \in {"report", "unlink"}
        /\ Phase' = "out" /\ ~returnOnError'
        /\ at'[t].bundle = at[t].bundle
        /\ at'[t].phase = IF at[t].phase = "report" THEN "handler" ELSE "unlinkHandler"
        /\ \A u \in Threads \ {t} : at'[u] = at[u]
        /\ UNCHANGED <<objects, private, state, undefined, beingLinked, bound>>
        /\ Release(libs)
    BY <1>0, <2>0, CalledHandler DEF lists
  <2>2. /\ undefined # << >>
        /\ at[t].phase = "unlink" => at[t].bundle \notin private
    BY <2>1 DEF CallHandler, In
  <2>3. ~returnOnError /\ libs' = libs
    <3>1. ~returnOnError
      BY <1>0, <2>1, <2>2 DEF LinkInv, ListsInv, ReturnInv
    <3>2. libs \in Seq(LibEntries)
      BY <1>0 DEF TypeInv
    <3> QED
      BY <2>1, <3>1, <3>2, ReleasedLibraries
  <2>4. ListsInv'
    BY <2>1, <2>3 DEF LinkInv, ListsInv
  <2>5. BundlesInv'
    <3>1. \A u \in Threads : at'[u].bundle = at[u].bundle
      BY <2>1
    <3>2. \A u \in Threads : at'[u].phase \in {"link", "unlink", "unlinkHandler"} =>
            /\ at[u].phase \in {"link", "unlink", "unlinkHandler"}
            /\ at'[u].phase # "link" => at[u].phase # "link"
      BY <2>1
    <3> QED
      BY <2>1, <2>3, <3>1, <3>2, BundlesSame
  <2>6. OwedInv'
    <3>1. Owes(t)'
      BY <2>1, <2>2 DEF Owes
    <3> QED
      BY <3>1 DEF OwedInv
  <2>7. WaitingInv'
    BY <2>1, <2>3, <2>6, WaitingSame
  <2>8. BeforeInv'
    BY <2>1 DEF BeforeInv
  <2> QED
    BY <1>0, <2>4, <2>5, <2>7, <2>8, CallHandlerBase DEF LinkInv
<1> QED
  BY <1>1, <1>2

(* ... and by the operation again when the handler has returned.             *)
LEMMA HandlerReturnsLink ==
  ASSUME LinkInv, NEW t \in Threads, HandlerReturns(t)
  PROVE  LinkInv'
<1>0. BaseInv /\ TypeInv /\ FramesInv /\ ReturnInv
  BY DEF LinkInv, BaseInv
<1>1. /\ holder = None /\ Phase = "out"
      /\ at[t].phase \in {"handler", "unlinkHandler"}
      /\ Phase' = IF at[t].phase = "handler" THEN "report" ELSE "unlink"
      /\ at'[t].bundle = at[t].bundle /\ at'[t].phase = Phase'
      /\ \A u \in Threads \ {t} : at'[u] = at[u]
      /\ UNCHANGED <<returnOnError, objects, private, libs, state, undefined,
                     beingLinked, bound>>
  BY <1>0, HandlerReturned DEF images, lists
<1>2. ~returnOnError
  BY <1>0, <1>1 DEF ReturnInv
<1>3. ListsInv'
  BY <1>1, <1>2 DEF LinkInv, ListsInv
<1>4. BundlesInv'
  <2>1. \A u \in Threads : at'[u].bundle = at[u].bundle
    BY <1>1
  <2>2. \A u \in Threads : at'[u].phase \in {"link", "unlink", "unlinkHandler"} =>
          /\ at[u].phase \in {"link", "unlink", "unlinkHandler"}
          /\ at'[u].phase # "link" => at[u].phase # "link"
    BY <1>1
  <2> QED
    BY <1>1, <1>2, <2>1, <2>2, BundlesSame
<1>5. OwedInv'
  <2>1. SUFFICES ASSUME undefined # << >>
                 PROVE  \E u \in Threads : Owes(u)'
    BY <1>1 DEF OwedInv
  <2>2. PICK u \in Threads : Owes(u)
    BY <2>1 DEF LinkInv, WaitingInv, OwedInv
  <2>3. Owes(u)'
    BY <1>1, <2>2 DEF Owes
  <2> QED
    BY <2>3
<1>6. WaitingInv'
  BY <1>1, <1>5, WaitingSame
<1>7. BeforeInv'
  BY <1>1, <1>2 DEF BeforeInv
<1> QED
  BY <1>0, <1>3, <1>4, <1>6, <1>7, HandlerReturnsBase DEF LinkInv

(* When nothing is undefined, nothing is half linked.                        *)
LEMMA NothingWaits ==
  ASSUME LinkInv, undefined = << >>,
         Phase \notin {"resolve", "relocate", "backOut", "spin"}
  PROVE  \A m \in DOMAIN state : state[m] # "BEING_LINKED"
<1>1. Asked = {}
  BY DEF Asked, ToSet
<1> QED
  BY <1>1 DEF LinkInv, WaitingInv, AskedForInv

(* The link is done, and all there is is bound.                              *)
LEMMA EndOfLinkLink ==
  ASSUME LinkInv, NEW t \in Threads, EndOfLink(t)
  PROVE  LinkInv'
<1>0. BaseInv /\ TypeInv /\ FramesInv /\ ReturnInv
  BY DEF LinkInv, BaseInv
<1>1. /\ holder = t /\ at[t].phase = "report" /\ undefined = << >>
      /\ Leave(t, libs) /\ Release(libs)
      /\ UNCHANGED <<objects, private, state, undefined, beingLinked, bound>>
  BY DEF EndOfLink, In, Leave, lists
<1>2. Phase = "report"
  BY <1>0, <1>1, InsideIs
<1>3. /\ Phase' = "out" /\ ~returnOnError' /\ at'[t] = Out
      /\ \A u \in Threads \ {t} : at'[u] = at[u]
  BY <1>0, <1>1, Left
<1>4. ListsInv'
  <2>1. \A i \in DOMAIN libs' : ~libs'[i].remove
    <3>1. libs \in Seq(LibEntries)
      BY <1>0 DEF TypeInv
    <3>2. ~returnOnError => \A i \in DOMAIN libs : ~libs[i].remove
      BY DEF LinkInv, ListsInv
    <3> QED
      BY <1>1, <3>1, <3>2, ReleasedLibraries
  <2>2. ToSet(undefined') = {}
    BY <1>1 DEF ToSet
  <2> QED
    BY <1>1, <1>2, <1>3, <2>1, <2>2 DEF LinkInv, ListsInv
<1>5. BundlesInv'
  <2>1. None \notin Bundles
    BY LinkAssumption DEF AllModules, Objects
  <2>2. ASSUME NEW u \in Threads, at'[u].phase \in {"link", "unlink", "unlinkHandler"}
        PROVE  u # t /\ at'[u] = at[u] /\ at[u].bundle \in Bundles
    <3>1. u # t /\ at'[u] = at[u]
      BY <1>3, <2>2 DEF Out
    <3> QED
      BY <1>0, <2>2, <3>1 DEF FramesInv
  <2>3. ASSUME NEW u \in Threads, NEW v \in Threads,
               at'[u].phase \in {"unlink", "unlinkHandler"}, at'[v].bundle = at'[u].bundle
        PROVE  v = u
    <3>1. u # t /\ at'[u] = at[u] /\ at[u].bundle \in Bundles
      BY <2>2, <2>3
    <3>2. v # t /\ at'[v] = at[v]
      BY <1>3, <2>1, <2>3, <3>1 DEF Out
    <3> QED
      BY <2>3, <3>1, <3>2 DEF LinkInv, BundlesInv
  <2> QED
    BY <1>1, <1>3, <2>2, <2>3 DEF LinkInv, BundlesInv
<1>6. WaitingInv'
  <2>1. \A m \in DOMAIN state' : state'[m] # "BEING_LINKED"
    BY <1>1, <1>2, NothingWaits
  <2>2. OwedInv'
    BY <1>1 DEF OwedInv
  <2>3. ProvidedInv' /\ AskedForInv'
    BY <2>1 DEF ProvidedInv, AskedForInv
  <2>4. NeedsInv'
    BY <1>1, <1>2 DEF LinkInv, WaitingInv, NeedsInv
  <2> QED
    BY <2>2, <2>3, <2>4 DEF WaitingInv
<1>7. BeforeInv'
  BY <1>3 DEF BeforeInv
<1> QED
  BY <1>0, <1>4, <1>5, <1>6, <1>7, EndOfLinkBase DEF LinkInv

(* A symbol is bound by name.                                                *)
LEMMA BindByNameLink ==
  ASSUME LinkInv, NEW t \in Threads, NEW s \in ByName, BindByName(t, s)
  PROVE  LinkInv'
<1>0. BaseInv /\ TypeInv /\ FramesInv /\ ReturnInv
  BY DEF LinkInv, BaseInv
<1>1. /\ Enter(t, "resolve", None) /\ undefined' = Append(undefined, Entry(s))
      /\ UNCHANGED <<returnOnError, objects, private, libs, state, beingLinked, bound>>
  BY DEF BindByName, images
<1>2. /\ holder = None /\ Phase = "out" /\ Phase' = "resolve" /\ at[t] = Out
      /\ at'[t] = [phase |-> "resolve", bundle |-> None]
      /\ \A u \in Threads \ {t} : at'[u] = at[u]
  BY <1>0, <1>1, Entered
<1>3. ~returnOnError
  BY <1>0, <1>2 DEF ReturnInv
<1>4. ToSet(undefined') = ToSet(undefined) \cup {Entry(s)}
  <2>1. returnOnError \in BOOLEAN /\ undefined \in Seq(Unres)
    BY <1>0 DEF TypeInv
  <2>2. Entry(s) \in Unres
    BY <2>1, SymbolsOfModules DEF Entry, Unres
  <2> QED
    BY <1>1, <2>1, <2>2, AppendElements
<1>5. ListsInv'
  BY <1>1, <1>2, <1>3, <1>4 DEF LinkInv, ListsInv, Entry
<1>6. BundlesInv'
  <2>1. \A u \in Threads : at'[u].bundle = at[u].bundle
    BY <1>2 DEF Out
  <2>2. \A u \in Threads : at'[u].phase \in {"link", "unlink", "unlinkHandler"} =>
          /\ at[u].phase \in {"link", "unlink", "unlinkHandler"}
          /\ at'[u].phase # "link" => at[u].phase # "link"
    BY <1>2
  <2> QED
    BY <1>1, <1>3, <2>1, <2>2, BundlesSame
<1>7. OwedInv'
  BY <1>2 DEF OwedInv, Owes
<1>8. WaitingInv'
  BY <1>1, <1>2, <1>4, <1>7, WaitingSame
<1>9. BeforeInv'
  BY <1>1, <1>3 DEF BeforeInv
<1> QED
  BY <1>0, <1>5, <1>6, <1>8, <1>9, BindByNameBase DEF LinkInv

(* A bundle is to be unlinked, and nobody else is about to.                  *)
LEMMA UnlinkModuleLink ==
  ASSUME LinkInv, NEW t \in Threads, NEW b \in Bundles, UnlinkModule(t, b)
  PROVE  LinkInv'
<1> DEFINE r == [i \in DOMAIN Referenced(b) |-> Entry(Referenced(b)[i])]
<1>0. BaseInv /\ TypeInv /\ FramesInv /\ ReturnInv
  BY DEF LinkInv, BaseInv
<1>1. /\ Enter(t, "unlink", b) /\ b \in ToSet(objects)
      /\ \A u \in Threads : at[u].bundle # b
      /\ undefined' = IF b \in private THEN undefined ELSE undefined \o r
      /\ UNCHANGED <<returnOnError, objects, private, libs, state, beingLinked, bound>>
  BY DEF UnlinkModule, images
<1>2. /\ holder = None /\ Phase = "out" /\ Phase' = "unlink" /\ at[t] = Out
      /\ at'[t] = [phase |-> "unlink", bundle |-> b]
      /\ \A u \in Threads \ {t} : at'[u] = at[u]
  BY <1>0, <1>1, Entered
<1>3. ~returnOnError
  BY <1>0, <1>2 DEF ReturnInv
<1>4. r \in Seq(Unres) /\ \A e \in ToSet(r) : e.remove = returnOnError
  BY <1>0, ReferencedElements
<1> HIDE DEF r
<1>5. /\ ToSet(undefined) \subseteq ToSet(undefined')
      /\ ToSet(undefined') \subseteq ToSet(undefined) \cup ToSet(r)
  <2>1. undefined \in Seq(Unres)
    BY <1>0 DEF TypeInv
  <2>2. ToSet(undefined \o r) = ToSet(undefined) \cup ToSet(r)
    BY <1>4, <2>1, ConcatElements
  <2> QED
    BY <1>1, <2>2
<1>6. ListsInv'
  BY <1>1, <1>2, <1>3, <1>4, <1>5 DEF LinkInv, ListsInv
<1>7. BundlesInv'
  <2>1. ASSUME NEW u \in Threads, NEW v \in Threads,
               at'[u].phase \in {"unlink", "unlinkHandler"}, at'[v].bundle = at'[u].bundle
        PROVE  v = u
    BY <1>1, <1>2, <2>1 DEF LinkInv, BundlesInv
  <2>2. \A u \in Threads : at'[u].phase \in {"link", "unlink", "unlinkHandler"} =>
          at'[u].bundle \in ToSet(objects)
    BY <1>1, <1>2 DEF LinkInv, BundlesInv
  <2> QED
    BY <1>1, <1>3, <2>1, <2>2 DEF LinkInv, BundlesInv
<1>8. OwedInv'
  <2>1. CASE b \notin private
    <3>1. Owes(t)'
      BY <1>1, <1>2, <2>1 DEF Owes
    <3> QED
      BY <3>1 DEF OwedInv
  <2>2. CASE b \in private
    <3>1. SUFFICES ASSUME undefined # << >>
                   PROVE  \E u \in Threads : Owes(u)'
      BY <1>1, <2>2 DEF OwedInv
    <3>2. PICK u \in Threads : Owes(u)
      BY <3>1 DEF LinkInv, WaitingInv, OwedInv
    <3>3. u # t /\ at'[u] = at[u]
      BY <1>2, <3>2 DEF Owes, Out
    <3>4. Owes(u)'
      BY <1>1, <3>2, <3>3 DEF Owes
    <3> QED
      BY <3>4
  <2> QED
    BY <2>1, <2>2
<1>9. WaitingInv'
  BY <1>1, <1>2, <1>5, <1>8, WaitingSame
<1>10. BeforeInv'
  BY <1>1, <1>3 DEF BeforeInv
<1> QED
  BY <1>0, <1>6, <1>7, <1>9, <1>10, UnlinkModuleBase DEF LinkInv

(* A private bundle that goes takes no symbol with it that was there.        *)
LEMMA UnlinkedProvided ==
  ASSUME LinkInv, NEW t \in Threads, EndOfUnlink(t), at[t].bundle \in private,
         NEW s, Provided(s)
  PROVE  Provided(s)'
<1> DEFINE b    == at[t].bundle
           objs == WithoutBundle(objects, b)
<1>0. TypeInv /\ FramesInv /\ ReturnInv /\ private \subseteq ToSet(objects)
  BY DEF LinkInv, BaseInv, BundlesInv
<1>1. /\ Phase = "unlink" /\ b \in Bundles /\ Phase' = "out"
      /\ ToSet(objs) \ {None} = ToSet(objects) \ {None, b}
      /\ Loaded(objs, libs) = Loaded(objects, libs) \ {b}
      /\ objects' = objs /\ libs' = libs
      /\ private' = private \cap Loaded(objs, libs)
      /\ \A m \in Loaded(objs, libs) : state'[m] = state[m]
  BY <1>0, Unlinked
<1>2. /\ DOMAIN objs = DOMAIN objects
      /\ \A i \in DOMAIN objects : objs[i] = IF objects[i] = b THEN None ELSE objects[i]
  BY DEF WithoutBundle
<1>3. b \in private
  OBVIOUS
<1> HIDE DEF b, objs
<1>4. Hidden = {} /\ Hidden' = {}
  BY <1>1 DEF Hidden
<1>5. ASSUME NEW i \in DOMAIN objects
      PROVE  objs[i] \notin private' \cup {None} <=> objects[i] \notin private \cup {None}
  <2>1. CASE objects[i] = b
    BY <1>2, <1>3, <2>1
  <2>2. CASE objects[i] # b
    <3>1. objs[i] = objects[i] /\ objects[i] \in ToSet(objects)
      BY <1>2, <2>2 DEF ToSet
    <3>2. objects[i] # None => objects[i] \in Loaded(objs, libs)
      BY <1>1, <2>2, <3>1 DEF Loaded
    <3> QED
      BY <1>1, <3>1, <3>2
  <2> QED
    BY <2>1, <2>2
<1>6. /\ ObjectPlaces(objects', private' \cup Hidden', s)
           = ObjectPlaces(objects, private \cup Hidden, s)
      /\ \A i \in ObjectPlaces(objects, private \cup Hidden, s) : objects'[i] = objects[i]
  <2>1. \A i \in DOMAIN objects : objects[i] \notin private \cup {None} => objs[i] = objects[i]
    BY <1>2, <1>3
  <2> QED
    BY <1>1, <1>2, <1>4, <1>5, <2>1 DEF ObjectPlaces
<1>7. ASSUME NEW m \in Searched(objects, private \cup Hidden, libs), Linked(m)
      PROVE  state'[m] \in {"BEING_LINKED", "RELOCATED"}
  <2>1. b \notin InLibraries(libs)
    BY <1>0, <1>1, LoadedAreModules, LinkAssumption DEF TypeInv, Objects
  <2>2. m # b /\ m \in Loaded(objects, libs)
    BY <1>3, <2>1 DEF Searched, Loaded
  <2> QED
    BY <1>1, <1>7, <2>2 DEF Linked
<1>8. libs \in Seq(LibEntries) /\ Len(libs) <= Len(libs)
  BY <1>0 DEF TypeInv
<1> QED
  BY <1>0, <1>1, <1>6, <1>7, <1>8, ProvidedStays

(* The bundle is gone: what it had to be asked for is there, or it was       *)
(* private.                                                                  *)
LEMMA EndOfUnlinkLink ==
  ASSUME LinkInv, NEW t \in Threads, EndOfUnlink(t)
  PROVE  LinkInv'
<1> DEFINE b    == at[t].bundle
           objs == WithoutBundle(objects, b)
<1>0. BaseInv /\ TypeInv /\ FramesInv /\ ReturnInv
  BY DEF LinkInv, BaseInv
<1>1. /\ holder = t /\ Phase = "unlink" /\ b \in Bundles /\ b = Bundle
      /\ b \in private \/ undefined = << >>
      /\ Phase' = "out" /\ ~returnOnError'
      /\ at'[t] = Out /\ \A u \in Threads \ {t} : at'[u] = at[u]
      /\ objs \in Seq(Objects \cup {None})
      /\ ToSet(objs) \ {None} = ToSet(objects) \ {None, b}
      /\ objects' = objs /\ libs' = libs
      /\ private' = private \cap Loaded(objs, libs)
      /\ DOMAIN state' = Loaded(objs, libs) /\ Loaded(objs, libs) \subseteq DOMAIN state
      /\ \A m \in Loaded(objs, libs) : state'[m] = state[m] /\ bound'[m] = bound[m]
      /\ UNCHANGED <<undefined, beingLinked>>
  BY <1>0, Unlinked DEF TypeInv
<1>2. ~returnOnError
  BY <1>0, <1>1 DEF ReturnInv
<1>3. BundlesInv'
  <2>1. private' \subseteq ToSet(objs)
    <3>1. libs \in Seq(LibEntries) /\ private \subseteq Objects
      BY <1>0 DEF TypeInv, Objects
    <3> HIDE DEF objs, b
    <3> QED
      BY <1>1, <3>1, LoadedAreModules
  <2> QED
    BY <1>1, <2>1, BundleGone
<1>4. b \in private => \A s : Provided(s) => Provided(s)'
  BY UnlinkedProvided
<1>5. at[t].phase = "unlink"
  BY <1>1 DEF Phase
<1> HIDE DEF objs
<1>6. ListsInv'
  BY <1>1, <1>2 DEF LinkInv, ListsInv
<1>7. WaitingInv'
  <2>1. NeedsInv'
    BY <1>1 DEF LinkInv, WaitingInv, NeedsInv
  <2>2. Asked' = Asked
    BY <1>1 DEF Asked
  <2>3. CASE undefined = << >>
    <3>1. \A m \in DOMAIN state' : state'[m] # "BEING_LINKED"
      BY <1>1, <2>3, NothingWaits
    <3>2. OwedInv' /\ ProvidedInv' /\ AskedForInv'
      BY <1>1, <2>3, <3>1 DEF OwedInv, ProvidedInv, AskedForInv
    <3> QED
      BY <2>1, <3>2 DEF WaitingInv
  <2>4. CASE b \in private /\ undefined # << >>
    <3>1. OwedInv'
      <4>1. PICK u \in Threads : Owes(u)
        BY <2>4 DEF LinkInv, WaitingInv, OwedInv
      <4>2. u # t /\ at'[u] = at[u]
        BY <1>1, <1>5, <2>4, <4>1 DEF Owes
      <4>3. Owes(u)'
        BY <1>1, <4>1, <4>2 DEF Owes
      <4> QED
        BY <4>3 DEF OwedInv
    <3>2. ASSUME NEW m \in DOMAIN state', state'[m] = "BEING_LINKED"
          PROVE  m \in DOMAIN state /\ state[m] = "BEING_LINKED"
      BY <1>1, <3>2
    <3>3. ProvidedInv'
      <4>1. ASSUME NEW m \in DOMAIN state', state'[m] = "BEING_LINKED",
                   NEW s \in ToSet(Needs[m])
            PROVE  s \in Asked' \/ Provided(s)'
        <5>1. s \in Asked \/ Provided(s)
          BY <1>1, <3>2, <4>1 DEF LinkInv, WaitingInv, ProvidedInv
        <5> QED
          BY <1>4, <2>2, <2>4, <5>1
      <4> QED
        BY <4>1 DEF ProvidedInv
    <3>4. AskedForInv'
      BY <1>1, <2>2, <3>2 DEF LinkInv, WaitingInv, AskedForInv
    <3> QED
      BY <2>1, <3>1, <3>3, <3>4 DEF WaitingInv
  <2> QED
    BY <1>1, <2>3, <2>4
<1>8. BeforeInv'
  BY <1>1 DEF BeforeInv
<1> QED
  BY <1>0, <1>3, <1>6, <1>7, <1>8, EndOfUnlinkBase DEF LinkInv

(* Nothing is waited for at first.                                           *)
LEMMA LinkInit ==
  ASSUME Init
  PROVE  LinkInv
<1>1. BaseInv
  BY BaseInit
<1>2. /\ holder = None /\ returnOnError = FALSE /\ private = {}
      /\ undefined = << >> /\ beingLinked = << >>
      /\ \A t \in Threads : at[t] = Out
      /\ Phase = "out"
      /\ \A m \in DOMAIN state : /\ state[m] # "BEING_LINKED"
                                 /\ state[m] = "RELOCATED" => m = Executable
      /\ \A i \in DOMAIN libs : ~libs[i].remove
  BY DEF Init, Phase
<1>3. ListsInv
  <2>1. ToSet(undefined) = {}
    BY <1>2 DEF ToSet
  <2> QED
    BY <1>2, <2>1 DEF ListsInv
<1>4. BundlesInv
  BY <1>2 DEF BundlesInv, Out
<1>5. NeedsInv
  <2>1. Needs[Executable] = << >>
    BY LinkAssumption
  <2>2. ToSet(Needs[Executable]) = {}
    BY <2>1 DEF ToSet
  <2> QED
    BY <1>2, <2>2 DEF NeedsInv
<1>6. WaitingInv
  BY <1>2, <1>5 DEF WaitingInv, OwedInv, ProvidedInv, AskedForInv
<1>7. BeforeInv
  BY <1>2 DEF BeforeInv
<1> QED
  BY <1>1, <1>3, <1>4, <1>6, <1>7 DEF LinkInv

(* Every step keeps what is said of the lists and the modules.               *)
LEMMA LinkStep ==
  ASSUME LinkInv, [Next]_vars
  PROVE  LinkInv'
<1>1. CASE UNCHANGED vars
  <2>1. UNCHANGED <<holder, returnOnError, objects, private, libs, state, undefined,
                    beingLinked, saved, bound, at, before>>
    BY <1>1 DEF vars, images, lists
  <2>2. BaseInv'
    BY <1>1, BaseStep DEF LinkInv
  <2> QED
    BY <2>1, <2>2, NothingMoved
<1>2. ASSUME NEW t \in Threads, Call(t) \/ Step(t) \/ HandlerReturns(t)
      PROVE  LinkInv'
  <2>1. ASSUME NEW b \in Bundles, NEW o \in LinkOptions,
               LinkModule(t, b, o[1], o[2]) \/ LinkWithMissing(t, b, o[1])
        PROVE  LinkInv'
    <3>1. o[1] \in BOOLEAN /\ o[2] \in BOOLEAN
      BY LinkAssumption
    <3> QED
      BY <2>1, <3>1, LinkModuleLink, LinkWithMissingLink
  <2>2. ASSUME NEW b \in Unlinks, UnlinkModule(t, b)
        PROVE  LinkInv'
    BY <2>2, UnlinkModuleLink, LinkAssumption
  <2>3. CASE Call(t)
    BY <2>1, <2>2, <2>3, BindByNameLink DEF Call
  <2>4. CASE Step(t)
    <3>1. CASE Spin(t)
      BY <1>1, <3>1 DEF Spin
    <3> QED
      BY <2>4, <3>1, LinkObjectLink, LinkObjectFailsLink, ResolveLink, ResolvedLink,
         BackOutLink, BackOutForeverLink, RelocateLink, CallHandlerLink, EndOfLinkLink,
         EndOfUnlinkLink DEF Step
  <2> QED
    BY <1>2, <2>3, <2>4, HandlerReturnsLink
<1> QED
  BY <1>1, <1>2 DEF Next, Stopped

(* The invariant under all that follows: what is half linked needs nothing   *)
(* that is neither there nor asked for, and what a link that may fail has    *)
(* changed is what it backs out.                                             *)
THEOREM LinkInvariant == Spec => []LinkInv
<1>1. LinkInv /\ [Next]_vars => LinkInv'
  BY LinkStep
<1> QED
  BY <1>1, LinkInit, PTL DEF Spec

(* When nobody is in dyld, nothing is half bound.                            *)
LEMMA NothingHalfBoundThen ==
  ASSUME LinkInv
  PROVE  NothingHalfBound
<1> SUFFICES ASSUME AllOut, ~exited
             PROVE  /\ undefined = << >> /\ beingLinked = << >> /\ ~returnOnError
                    /\ \A m \in DOMAIN state :
                         /\ state[m] # "BEING_LINKED"
                         /\ m \in Objects => state[m] = "RELOCATED"
                         /\ state[m] = "RELOCATED" => ToSet(Needs[m]) \subseteq DOMAIN bound[m]
  BY DEF NothingHalfBound
<1>0. TypeInv /\ FramesInv /\ ReturnInv /\ ObjectsInv
  BY DEF LinkInv, BaseInv
<1>1. holder = None /\ Phase = "out"
  <2>1. \A t \in Threads : at[t].phase = "out"
    BY DEF AllOut, Out
  <2>2. holder \notin Threads
    BY <1>0, <2>1 DEF FramesInv, Inside
  <2> QED
    BY <1>0, <2>2 DEF FramesInv, Phase
<1>2. undefined = << >>
  <2>1. \A t \in Threads : ~Owes(t)
    BY DEF AllOut, Out, Owes
  <2> QED
    BY <2>1 DEF LinkInv, WaitingInv, OwedInv
<1>3. beingLinked = << >> /\ ~returnOnError
  BY <1>0, <1>1 DEF LinkInv, ListsInv, ReturnInv
<1>4. ASSUME NEW m \in DOMAIN state
      PROVE  /\ state[m] # "BEING_LINKED"
             /\ m \in Objects => state[m] = "RELOCATED"
             /\ state[m] = "RELOCATED" => ToSet(Needs[m]) \subseteq DOMAIN bound[m]
  <2>1. state[m] # "BEING_LINKED"
    BY <1>1, <1>2, NothingWaits
  <2>2. m \in Objects => state[m] # "UNLINKED"
    <3>1. objects \in Seq(Objects \cup {None}) /\ libs \in Seq(LibEntries)
          /\ m \in Loaded(objects, libs)
      BY <1>0 DEF TypeInv
    <3>2. m \in Objects => m \in ToSet(objects) \ {None}
      BY <3>1, LoadedAreModules
    <3> QED
      BY <1>0, <1>1, <3>2 DEF ObjectsInv
  <2>3. state[m] \in LinkStates
    BY <1>0 DEF TypeInv
  <2>4. state[m] = "RELOCATED" => ToSet(Needs[m]) \subseteq DOMAIN bound[m]
    BY <1>1 DEF LinkInv, WaitingInv, NeedsInv
  <2> QED
    BY <2>1, <2>2, <2>3, <2>4 DEF LinkStates
<1> QED
  BY <1>2, <1>3, <1>4

(* Whatever is linked, unlinked and backed out, when no thread is in dyld    *)
(* every module is linked completely or not at all.                          *)
THEOREM NothingHalfBoundHolds == Spec => []NothingHalfBound
<1>1. Spec => []LinkInv
  BY LinkInvariant
<1> QED
  BY <1>1, NothingHalfBoundThen, PTL

(* A thread only moves itself, ...                                           *)
LEMMA OthersStay ==
  ASSUME NEW u \in Threads, NEW t \in Threads \ {u}, at[t] # Out,
         Call(u) \/ Step(u) \/ HandlerReturns(u)
  PROVE  at'[t] = at[t]
<1>1. \A ph, b : Enter(u, ph, b) => at'[t] = at[t]
  BY DEF Enter
<1>2. \A ph : GoTo(u, ph) => at'[t] = at[t]
  BY DEF GoTo
<1>3. \A ls : Leave(u, ls) => at'[t] = at[t]
  BY DEF Leave
<1>4. Exit => at'[t] = at[t]
  BY DEF Exit
<1>5. CASE Call(u)
  <2>1. ASSUME NEW b \in Bundles, NEW o \in LinkOptions,
               LinkModule(u, b, o[1], o[2]) \/ LinkWithMissing(u, b, o[1])
        PROVE  at'[t] = at[t]
    BY <1>1, <1>4, <2>1 DEF LinkModule, LinkWithMissing
  <2> QED
    BY <1>1, <1>5, <2>1 DEF Call, BindByName, UnlinkModule
<1>6. CASE Step(u)
  <2>1. CASE LinkObject(u) \/ LinkObjectFails(u) \/ Resolved(u)
    BY <1>2, <1>3, <1>4, <2>1 DEF LinkObject, LinkObjectFails, Resolved
  <2>2. CASE Resolve(u)
    BY <1>2, <1>4, <2>2 DEF Resolve
  <2>3. CASE BackOut(u) \/ EndOfLink(u) \/ EndOfUnlink(u)
    <3>1. \E ls : Leave(u, ls)
      BY <2>3 DEF BackOut, EndOfLink, EndOfUnlink
    <3> QED
      BY <1>3, <3>1
  <2>4. CASE BackOutForever(u) \/ Relocate(u)
    <3>1. \E ph : GoTo(u, ph)
      BY <2>4 DEF BackOutForever, Relocate
    <3> QED
      BY <1>2, <3>1
  <2>5. CASE Spin(u)
    BY <2>5 DEF Spin, vars, images, lists
  <2>6. CASE CallHandler(u)
    <3>1. CASE ~Exit
      <4> DEFINE ph == IF at[u].phase = "report" THEN "handler" ELSE "unlinkHandler"
      <4>1. at' = [at EXCEPT ![u].phase = ph]
        BY <2>6, <3>1 DEF CallHandler
      <4> HIDE DEF ph
      <4> QED
        BY <4>1
    <3> QED
      BY <1>4, <3>1
  <2> QED
    BY <1>6, <2>1, <2>2, <2>3, <2>4, <2>5, <2>6 DEF Step
<1>7. CASE HandlerReturns(u)
  BY <1>2, <1>7 DEF HandlerReturns
<1> QED
  BY <1>5, <1>6, <1>7

(* ... and leaves a link that fails in one of two ways.                      *)
LEMMA LeftByBackOut ==
  ASSUME LinkInv, NEW t \in Threads, at[t].phase \in {"link", "backOut"},
         Call(t) \/ Step(t) \/ HandlerReturns(t), at'[t] = Out, ~exited'
  PROVE  \/ at[t].phase = "backOut" /\ BackOut(t)
         \/ at[t].phase = "link" /\ LinkObjectFails(t) /\ returnOnError
<1>0. FramesInv /\ at[t] # Out
  BY DEF LinkInv, BaseInv, Out
<1>1. \A ph, b : ~Enter(t, ph, b)
  BY <1>0 DEF Enter
<1>2. ~Call(t)
  <2>1. ASSUME NEW b \in Bundles, NEW o \in LinkOptions,
               LinkModule(t, b, o[1], o[2]) \/ LinkWithMissing(t, b, o[1])
        PROVE  FALSE
    BY <1>0, <2>1 DEF LinkModule, LinkWithMissing, Callable
  <2> QED
    BY <1>1, <2>1 DEF Call, BindByName, UnlinkModule
<1>3. ~HandlerReturns(t)
  BY DEF HandlerReturns
<1>4. \A ph : GoTo(t, ph) => at'[t].phase = ph
  BY <1>0 DEF GoTo, FramesInv
<1>5. ~LinkObject(t) /\ ~BackOutForever(t)
  BY <1>4 DEF LinkObject, BackOutForever, Out
<1>6. /\ BackOut(t) => at[t].phase = "backOut"
      /\ LinkObjectFails(t) => at[t].phase = "link" /\ returnOnError
  BY DEF BackOut, LinkObjectFails, In, Exit
<1>7. ~Spin(t)
  BY DEF Spin, In
<1>8. ~Resolve(t) /\ ~Resolved(t) /\ ~Relocate(t) /\ ~EndOfLink(t) /\ ~EndOfUnlink(t)
      /\ ~CallHandler(t)
  BY DEF Resolve, Resolved, Relocate, EndOfLink, EndOfUnlink, CallHandler, In
<1> QED
  BY <1>2, <1>3, <1>5, <1>6, <1>7, <1>8 DEF Step

(* "All changes to be backed out if an error occurs" (dyld_libfuncs.c:778):  *)
(* a link that returns its error leaves images, states, lists and pointers   *)
(* as they were, when a library is missing and when it fails in resolving;   *)
(* when its bundle defines what is defined already, all but the libraries    *)
(* that have been loaded for it.                                             *)
THEOREM FailedLinkBacksOutHolds == Spec => FailedLinkBacksOut
<1> DEFINE P == \A t \in Threads :
             /\ (\E b \in Bundles : LinkWithMissing(t, b, TRUE)) => Changeable' = Changeable
             /\ at'[t] = Out /\ ~exited' =>
                  /\ at[t].phase = "backOut" => Changeable' = before
                  /\ at[t].phase = "link" => OnlyLoadedSince(before)'
<1>1. ASSUME LinkInv, NEW t \in Threads, NEW b \in Bundles, LinkWithMissing(t, b, TRUE)
      PROVE  Changeable' = Changeable
  <2>1. /\ objects' = objects /\ private' = private /\ libs' = libs /\ state' = state
        /\ bound' = bound /\ lists' = lists
    BY <1>1, MissingLibraryLeaves DEF lists
  <2> QED
    BY <2>1 DEF Changeable
<1>2. ASSUME LinkInv, Next, ~(UNCHANGED vars), NEW t \in Threads,
             at[t].phase \in {"link", "backOut"}, at'[t] = Out, ~exited'
      PROVE  /\ at[t].phase = "backOut" => Changeable' = before
             /\ at[t].phase = "link" => OnlyLoadedSince(before)'
  <2>1. PICK u \in Threads : Call(u) \/ Step(u) \/ HandlerReturns(u)
    BY <1>2 DEF Next, Stopped
  <2>2. at[t] # Out
    BY <1>2 DEF Out
  <2>3. u = t
    BY <1>2, <2>1, <2>2, OthersStay
  <2>4. \/ at[t].phase = "backOut" /\ BackOut(t)
        \/ at[t].phase = "link" /\ LinkObjectFails(t) /\ returnOnError
    BY <1>2, <2>1, <2>3, LeftByBackOut
  <2>5. CASE at[t].phase = "backOut" /\ BackOut(t)
    BY <1>2, <2>5, BackOutRestores
  <2>6. CASE at[t].phase = "link" /\ LinkObjectFails(t) /\ returnOnError
    BY <1>2, <2>6, LinkObjectFailsLoads
  <2> QED
    BY <2>4, <2>5, <2>6
<1>3. ASSUME LinkInv, [Next]_vars
      PROVE  [P]_vars
  <2> SUFFICES ASSUME Next, ~(UNCHANGED vars)
               PROVE  P
    BY <1>3
  <2> QED
    BY <1>1, <1>2, <1>3
<1>4. Spec => []LinkInv
  BY LinkInvariant
<1> QED
  BY <1>3, <1>4, PTL DEF Spec, FailedLinkBacksOut
-----------------------------------------------------------------------------
(* What is bound to what                                                     *)

\* What is in use points to what is there and linked, and not private.
Sound(states, pointers, priv) ==
  \A m \in DOMAIN states : states[m] = "RELOCATED" =>
    \A s \in DOMAIN pointers[m] :
      /\ pointers[m][s] \in DOMAIN states \ priv
      /\ states[pointers[m][s]] \in {"BEING_LINKED", "RELOCATED"}

SoundInv == Sound(state, bound, private)

\* Symbols are bound to what defines them, and only those that are needed.
PointersInv ==
  \A m \in DOMAIN bound : /\ DOMAIN bound[m] \subseteq ToSet(Needs[m])
                          /\ \A s \in DOMAIN bound[m] : s \in Defines[bound[m][s]]

\* What can be bound to
Bindable(m) == m \in DOMAIN state \ private /\ Linked(m)

ListedInv ==
  \A e \in ToSet(beingLinked) : /\ e.sym \in Defines[e.module]
                                /\ Phase # "backOut" => Bindable(e.module)

\* What is undefined is defined by something linked only until all that is found
\* is linked, or in a bundle that is unlinked without a handler, which the
\* process does not survive.
SettledInv ==
  /\ (/\ Phase \notin {"resolve", "backOut", "spin"}
      /\ Phase = "unlink" => Bundle \in private \/ Handler)
       => \A s \in Asked : ~Provided(s)
  /\ Phase = "relocate" => \A s \in Asked : Lookup(s) = None

\* What handlers run for, ...
UnlinksInv ==
  \A t \in Threads :
    /\ at[t].phase \in {"unlink", "unlinkHandler"} => at[t].bundle \in Unlinks
    /\ at[t].phase \in {"handler", "unlinkHandler"} => Handler

\* ... what they find that is unlinked, ...
UnreferencedInv ==
  Phase = "unlink" /\ Bundle \notin private /\ undefined = << >> =>
    \A m \in DOMAIN state : Linked(m) => Defines[Bundle] \cap ToSet(Needs[m]) = {}

\* ... and that no link makes public what none of them may.
PrivateInv == (\A o \in LinkOptions : o[2]) => ToSet(objects) \cap Bundles \subseteq private

\* What was in use before a link that may fail did not point to what is new.
SinceInv ==
  returnOnError /\ Phase \in {"link", "resolve", "backOut"} =>
    /\ Sound(before.state, before.bound, before.private)
    /\ \A m \in DOMAIN state \ Was : bound[m] = << >>

BoundInv ==
  /\ LinkInv
  /\ SoundInv /\ PointersInv /\ ListedInv /\ SettledInv
  /\ UnlinksInv /\ UnreferencedInv /\ PrivateInv /\ SinceInv

(* What a lookup finds linked can be bound to.                               *)
LEMMA ThereIsBindable ==
  ASSUME TypeInv, NEW s, There(s)
  PROVE  Bindable(Lookup(s)) /\ s \in Defines[Lookup(s)]
<1> DEFINE m == LookupPast({}, s)
<1>1. m # None /\ Linked(m)
  BY DEF There, Lookup
<1>2. /\ m \in Searched(objects, private \cup {}, libs)
      /\ m \in Loaded(objects, libs) /\ s \in Defines[m]
  BY <1>1, LookupType
<1> HIDE DEF m
<1>3. m \notin private
  <2>1. private \cap InLibraries(libs) = {}
    BY LoadedAreModules, LinkAssumption DEF TypeInv, Objects
  <2> QED
    BY <1>2, <2>1 DEF Searched
<1>4. DOMAIN state = Loaded(objects, libs)
  BY DEF TypeInv
<1> QED
  BY <1>1, <1>2, <1>3, <1>4 DEF Bindable, Lookup, m

(* What no linked module defines none does as long as nothing is linked.     *)
LEMMA ProvidedBefore ==
  ASSUME TypeInv, TypeInv', NEW s, Provided(s)',
         ObjectPlaces(objects', private' \cup Hidden', s)
           = ObjectPlaces(objects, private \cup Hidden, s),
         \A i \in ObjectPlaces(objects, private \cup Hidden, s) : objects'[i] = objects[i],
         Len(libs) <= Len(libs'), \A i \in 1 .. Len(libs) : libs'[i].lib = libs[i].lib,
         \A m \in Loaded(objects', libs') :
           state'[m] # "UNLINKED" => m \in Loaded(objects, libs) /\ Linked(m)
  PROVE  Provided(s)
<1> DEFINE out  == private \cup Hidden
           objs == objects'
           out2 == private' \cup Hidden'
           ls   == libs'
           m    == LookupAt(objects, out, libs, s)
           n    == LookupAt(objs, out2, ls, s)
<1>1. /\ objects \in Seq(Objects \cup {None}) /\ libs \in Seq(LibEntries)
      /\ objs \in Seq(Objects \cup {None}) /\ ls \in Seq(LibEntries)
  BY DEF TypeInv
<1>2. LookupPast(Hidden, s) = m
  BY LookupPastAt
<1>3. LookupPast(Hidden, s)' = n
  BY DEF LookupPast, LookupAt, ObjectPlaces, LibraryPlaces, PlacesIn
<1>4. n # None /\ state'[n] \in {"BEING_LINKED", "RELOCATED"}
  BY <1>3 DEF Provided, Linked
<1>5. /\ ObjectPlaces(objs, out2, s) = ObjectPlaces(objects, out, s)
      /\ \A i \in ObjectPlaces(objects, out, s) : objs[i] = objects[i]
      /\ Len(libs) <= Len(ls) /\ \A i \in 1 .. Len(libs) : ls[i].lib = libs[i].lib
      /\ \A k \in Loaded(objs, ls) :
           state'[k] # "UNLINKED" => k \in Loaded(objects, libs) /\ Linked(k)
  OBVIOUS
<1> HIDE DEF out, objs, out2, ls
<1>6. /\ n \in Searched(objs, out2, ls) /\ s \in Defines[n]
      /\ m = None => \A k \in Searched(objects, out, libs) : s \notin Defines[k]
  BY <1>1, <1>4, LookupFinds
<1>7. ObjectPlaces(objects, out, s) \in SUBSET Nat
  <2>1. DOMAIN objects \subseteq Nat
    BY <1>1
  <2> QED
    BY <2>1 DEF ObjectPlaces
<1>8. m # None => n = m
  BY <1>1, <1>5, <1>7, LookupStays
<1> HIDE DEF m, n
<1>9. n \in Loaded(objects, libs) /\ Linked(n)
  <2>1. Searched(objs, out2, ls) \subseteq Loaded(objs, ls)
    BY DEF Searched, Loaded
  <2> QED
    BY <1>4, <1>5, <1>6, <2>1
<1>10. n \in Searched(objects, out, libs)
  <2>1. CASE n \in InLibraries(ls)
    <3>1. n \notin Objects
      BY <1>1, <2>1, LoadedAreModules, LinkAssumption
    <3>2. ToSet(objects) \ {None} \subseteq Objects
      BY <1>1 DEF ToSet
    <3> QED
      BY <1>9, <3>1, <3>2 DEF Searched, Loaded
  <2>2. CASE n \in ToSet(objs) \ (out2 \cup {None})
    <3>1. PICK i \in DOMAIN objs : n = objs[i]
      BY <2>2 DEF ToSet
    <3>2. i \in ObjectPlaces(objs, out2, s)
      BY <1>6, <2>2, <3>1 DEF ObjectPlaces
    <3>3. /\ i \in DOMAIN objects /\ n = objects[i]
          /\ objects[i] \notin out \cup {None}
      BY <1>5, <3>1, <3>2 DEF ObjectPlaces
    <3> QED
      BY <3>3 DEF Searched, ToSet
  <2> QED
    BY <1>6, <2>1, <2>2 DEF Searched
<1>11. n = m
  BY <1>6, <1>8, <1>10
<1> QED
  BY <1>2, <1>4, <1>9, <1>11 DEF Provided

(* Neither does it when the images stay as they are.                         *)
LEMMA SettledSame ==
  ASSUME TypeInv, TypeInv', UNCHANGED <<objects, private, libs>>, Hidden' = Hidden,
         Asked' \subseteq Asked, \A s \in Asked : ~Provided(s),
         \A m \in Loaded(objects, libs) : state'[m] # "UNLINKED" => Linked(m)
  PROVE  \A s \in Asked' : ~Provided(s)'
<1>1. libs \in Seq(LibEntries) /\ Len(libs) \in Nat
  BY DEF TypeInv
<1>2. objects' = objects /\ private' = private /\ libs' = libs
  OBVIOUS
<1>3. /\ \A s : ObjectPlaces(objects', private' \cup Hidden', s)
                 = ObjectPlaces(objects, private \cup Hidden, s)
      /\ \A s : \A i \in ObjectPlaces(objects, private \cup Hidden, s) : objects'[i] = objects[i]
      /\ Len(libs) <= Len(libs') /\ \A i \in 1 .. Len(libs) : libs'[i].lib = libs[i].lib
      /\ Loaded(objects', libs') = Loaded(objects, libs)
  BY <1>1, <1>2
<1>4. ASSUME NEW s, Provided(s)'
      PROVE  Provided(s)
  <2>1. \A m \in Loaded(objects', libs') :
          state'[m] # "UNLINKED" => m \in Loaded(objects, libs) /\ Linked(m)
    BY <1>3
  <2> QED
    BY <1>3, <1>4, <2>1, ProvidedBefore
<1> QED
  BY <1>4

(* An action that changes none of it                                         *)
LEMMA NothingBound ==
  ASSUME BoundInv, LinkInv',
         UNCHANGED <<holder, returnOnError, objects, private, libs, state, undefined,
                     beingLinked, bound, at, before>>
  PROVE  BoundInv'
<1>1. Phase' = Phase /\ Bundle' = Bundle /\ Asked' = Asked /\ Was' = Was
  BY DEF Phase, Bundle, Asked, Was
<1>2. \A s : Lookup(s)' = Lookup(s)
  BY DEF Lookup, LookupPast
<1>3. SoundInv' /\ PointersInv' /\ PrivateInv'
  BY DEF BoundInv, SoundInv, Sound, PointersInv, PrivateInv
<1>4. ListedInv' /\ SettledInv'
  <2>1. \A s : Provided(s)' <=> Provided(s)
    BY <1>1 DEF Provided, Hidden, LookupPast, Linked
  <2> QED
    BY <1>1, <1>2, <2>1 DEF BoundInv, ListedInv, Bindable, Linked, SettledInv
<1>5. UnlinksInv' /\ UnreferencedInv' /\ SinceInv'
  BY <1>1 DEF BoundInv, UnlinksInv, UnreferencedInv, Linked, SinceInv, Sound
<1> QED
  BY <1>3, <1>4, <1>5 DEF BoundInv

(* Modules and pointers stay as they are.                                    *)
LEMMA PointersKept ==
  ASSUME BoundInv, UNCHANGED <<private, state, bound>>,
         beingLinked' = << >> \/ (beingLinked' = beingLinked /\ Phase # "backOut"),
         \/ ~returnOnError'
         \/ Phase' \notin {"link", "resolve", "backOut"}
         \/ returnOnError /\ Phase \in {"link", "resolve", "backOut"} /\ before' = before
  PROVE  SoundInv' /\ PointersInv' /\ ListedInv' /\ SinceInv'
<1>1. SoundInv' /\ PointersInv'
  BY DEF BoundInv, SoundInv, Sound, PointersInv
<1>2. ListedInv'
  <2>1. CASE beingLinked' = << >>
    BY <2>1 DEF ListedInv, ToSet
  <2>2. CASE beingLinked' = beingLinked /\ Phase # "backOut"
    BY <2>2 DEF BoundInv, ListedInv, Bindable, Linked
  <2> QED
    BY <2>1, <2>2
<1>3. SinceInv'
  BY DEF BoundInv, SinceInv, Sound, Was
<1> QED
  BY <1>1, <1>2, <1>3

(* Nobody new has to do with a handler.                                      *)
LEMMA UnlinksKept ==
  ASSUME BoundInv, NEW t \in Threads, \A u \in Threads \ {t} : at'[u] = at[u],
         at'[t].phase \notin {"unlink", "handler", "unlinkHandler"}
  PROVE  UnlinksInv'
BY DEF BoundInv, UnlinksInv

(* Modules are linked, and the references to them listed.                    *)
LEMMA LinkedMore ==
  ASSUME BoundInv, UNCHANGED <<returnOnError, private, bound, before>>,
         Phase \in {"link", "resolve"}, Phase' = "resolve",
         DOMAIN state' = DOMAIN state,
         \A m \in DOMAIN state : state'[m] = "RELOCATED" => state[m] = "RELOCATED",
         \A m \in DOMAIN state : Linked(m) => state'[m] \in {"BEING_LINKED", "RELOCATED"},
         \A e \in ToSet(beingLinked') :
           \/ e \in ToSet(beingLinked)
           \/ /\ e.sym \in Defines[e.module] /\ e.module \in DOMAIN state \ private
              /\ state'[e.module] \in {"BEING_LINKED", "RELOCATED"}
  PROVE  SoundInv' /\ PointersInv' /\ ListedInv' /\ SinceInv'
<1>1. SoundInv'
  <2> SUFFICES ASSUME NEW m \in DOMAIN state', state'[m] = "RELOCATED",
                      NEW s \in DOMAIN bound'[m]
               PROVE  /\ bound'[m][s] \in DOMAIN state' \ private'
                      /\ state'[bound'[m][s]] \in {"BEING_LINKED", "RELOCATED"}
    BY DEF SoundInv, Sound
  <2> DEFINE n == bound[m][s]
  <2>1. n \in DOMAIN state \ private /\ state[n] \in {"BEING_LINKED", "RELOCATED"}
    BY DEF BoundInv, SoundInv, Sound
  <2>2. Linked(n)
    BY <2>1 DEF Linked
  <2> QED
    BY <2>1, <2>2
<1>2. PointersInv'
  BY DEF BoundInv, PointersInv
<1>3. ListedInv'
  <2> SUFFICES ASSUME NEW e \in ToSet(beingLinked')
               PROVE  /\ e.sym \in Defines[e.module]
                      /\ e.module \in DOMAIN state' \ private'
                      /\ state'[e.module] \in {"BEING_LINKED", "RELOCATED"}
    BY DEF ListedInv, Bindable, Linked
  <2>1. CASE e \in ToSet(beingLinked)
    BY <2>1 DEF BoundInv, ListedInv, Bindable
  <2> QED
    BY <2>1
<1>4. SinceInv'
  BY DEF BoundInv, SinceInv, Sound, Was
<1> QED
  BY <1>1, <1>2, <1>3, <1>4

(* What is loaded is not bound yet, and nothing is bound to it.              *)
LEMMA LinkModuleBound ==
  ASSUME BoundInv, NEW t \in Threads, NEW b \in Bundles, NEW roe \in BOOLEAN,
         NEW priv \in BOOLEAN, LinkModule(t, b, roe, priv),
         (\A o \in LinkOptions : o[2]) => priv, LinkInv'
  PROVE  BoundInv'
<1> DEFINE ls  == WithDependents(b, roe)
           was == Loaded(objects, libs)
<1>0. TypeInv /\ FramesInv /\ ReturnInv /\ LinkInv /\ TypeInv'
  BY DEF BoundInv, LinkInv, BaseInv
<1>1. /\ Enter(t, "link", b) /\ b \notin ToSet(objects)
      /\ returnOnError' = roe
      /\ before' = IF roe THEN Changeable ELSE before
      /\ objects' = Slot(b) /\ libs' = ls
      /\ private' = IF priv THEN private \cup {b} ELSE private
      /\ undefined' = undefined /\ beingLinked' = beingLinked
  BY DEF LinkModule, Callable, lists
<1>2. /\ Phase = "out" /\ Phase' = "link" /\ Bundle' = b /\ at[t] = Out
      /\ at'[t] = [phase |-> "link", bundle |-> b]
      /\ \A u \in Threads \ {t} : at'[u] = at[u]
  BY <1>0, <1>1, Entered
<1>3. /\ b \notin was /\ DOMAIN state = was /\ DOMAIN bound = was
      /\ was \subseteq DOMAIN state' /\ DOMAIN bound' = DOMAIN state'
      /\ \A m \in was : state'[m] = state[m] /\ bound'[m] = bound[m]
      /\ \A m \in DOMAIN state' \ was : state'[m] = "UNLINKED" /\ bound'[m] = << >>
  BY <1>0, LoadedByLink DEF TypeInv
<1> HIDE DEF ls, was
<1>4. SoundInv'
  <2> SUFFICES ASSUME NEW m \in DOMAIN state', state'[m] = "RELOCATED",
                      NEW s \in DOMAIN bound'[m]
               PROVE  /\ bound'[m][s] \in DOMAIN state' \ private'
                      /\ state'[bound'[m][s]] \in {"BEING_LINKED", "RELOCATED"}
    BY DEF SoundInv, Sound
  <2>1. m \in was /\ state[m] = "RELOCATED" /\ bound'[m] = bound[m]
    BY <1>3
  <2>2. bound[m][s] \in was \ private /\ state[bound[m][s]] \in {"BEING_LINKED", "RELOCATED"}
    BY <1>3, <2>1 DEF BoundInv, SoundInv, Sound
  <2> QED
    BY <1>1, <1>3, <2>1, <2>2
<1>5. PointersInv'
  <2>1. ASSUME NEW m \in DOMAIN bound'
        PROVE  /\ DOMAIN bound'[m] \subseteq ToSet(Needs[m])
               /\ \A s \in DOMAIN bound'[m] : s \in Defines[bound'[m][s]]
    <3>1. CASE m \in was
      BY <1>3, <3>1 DEF BoundInv, PointersInv
    <3>2. CASE m \notin was
      <4>1. bound'[m] = << >>
        BY <1>3, <2>1, <3>2
      <4> QED
        BY <4>1
    <3> QED
      BY <3>1, <3>2
  <2> QED
    BY <2>1 DEF PointersInv
<1>6. ListedInv'
  <2>1. beingLinked = << >>
    BY <1>0, <1>2 DEF LinkInv, ListsInv
  <2> QED
    BY <1>1, <2>1 DEF ListedInv, ToSet
<1>7. SettledInv' /\ UnreferencedInv'
  <2>1. Hidden = {} /\ Hidden' = {b} /\ Asked' = Asked
    BY <1>1, <1>2 DEF Hidden, Asked
  <2>2. /\ Len(libs) <= Len(ls) /\ \A i \in 1 .. Len(libs) : ls[i] = libs[i]
    BY <1>0, LibrariesLoaded DEF ls
  <2>3. /\ \A i \in DOMAIN objects : objects[i] # None =>
             i \in DOMAIN Slot(b) /\ Slot(b)[i] = objects[i]
        /\ \A i \in DOMAIN Slot(b) : Slot(b)[i] \notin {b, None} =>
             i \in DOMAIN objects /\ Slot(b)[i] = objects[i]
    BY <1>0, <1>1, SlotElements
  <2>4. \A i \in DOMAIN objects : objects[i] # b
    BY <1>1 DEF ToSet
  <2>5. private' \cup Hidden' = private \cup Hidden \cup {b}
    BY <1>1, <2>1
  <2>6. \A m \in Loaded(objects', libs') :
          state'[m] # "UNLINKED" => m \in Loaded(objects, libs) /\ Linked(m)
    <3>1. DOMAIN state' = Loaded(objects', libs') /\ \A m \in was : state[m] \in LinkStates
      BY <1>0 DEF TypeInv, was
    <3> QED
      BY <1>3, <3>1 DEF Linked, LinkStates, was
  <2>7. ASSUME NEW s \in Asked, Provided(s)'
        PROVE  Provided(s)
    <3>1. /\ ObjectPlaces(objects', private' \cup Hidden', s)
               = ObjectPlaces(objects, private \cup Hidden, s)
          /\ \A i \in ObjectPlaces(objects, private \cup Hidden, s) : objects'[i] = objects[i]
      BY <1>1, <2>3, <2>4, <2>5 DEF ObjectPlaces
    <3>2. Len(libs) <= Len(libs') /\ \A i \in 1 .. Len(libs) : libs'[i].lib = libs[i].lib
      BY <1>1, <2>2
    <3> QED
      BY <1>0, <2>6, <2>7, <3>1, <3>2, ProvidedBefore
  <2>8. \A s \in Asked : ~Provided(s)
    BY <1>2 DEF BoundInv, SettledInv
  <2> QED
    BY <1>2, <2>1, <2>7, <2>8 DEF SettledInv, UnreferencedInv
<1>8. UnlinksInv'
  BY <1>2, UnlinksKept
<1>9. PrivateInv'
  <2>1. ToSet(Slot(b)) \ {None} = (ToSet(objects) \ {None}) \cup {b}
    BY <1>0, <1>1, SlotElements
  <2>2. None \notin Bundles
    BY LinkAssumption DEF AllModules, Objects
  <2> QED
    BY <1>1, <2>1, <2>2 DEF BoundInv, PrivateInv
<1>10. SinceInv'
  <2>1. SUFFICES ASSUME roe
                 PROVE  /\ Sound(before'.state, before'.bound, before'.private)
                        /\ \A m \in DOMAIN state' \ Was' : bound'[m] = << >>
    BY <1>1 DEF SinceInv, Sound
  <2>2. /\ before'.state = state /\ before'.bound = bound /\ before'.private = private
    BY <1>1, <2>1 DEF Changeable
  <2>3. Was' = was
    <3>1. BeforeTyped'
      BY <1>1, <1>2, <2>1 DEF LinkInv, BeforeInv
    <3>2. before'.state \in [Was' -> LinkStates]
      BY <3>1 DEF BeforeTyped
    <3> QED
      BY <1>3, <2>2, <3>2
  <2>4. Sound(before'.state, before'.bound, before'.private)
    BY <2>2 DEF BoundInv, SoundInv, Sound
  <2> QED
    BY <1>3, <2>3, <2>4
<1> QED
  BY <1>4, <1>5, <1>6, <1>7, <1>8, <1>9, <1>10 DEF BoundInv

(* A library is missing.                                                     *)
LEMMA LinkWithMissingBound ==
  ASSUME BoundInv, NEW t \in Threads, NEW b \in Bundles, NEW roe \in BOOLEAN,
         LinkWithMissing(t, b, roe), LinkInv'
  PROVE  BoundInv'
<1>1. CASE Exit
  BY <1>1, NothingBound DEF Exit, images, lists
<1>2. CASE ~Exit
  <2>1. LinkWithMissing(t, b, TRUE) /\ UNCHANGED <<holder, returnOnError, before>>
    BY <1>2 DEF LinkWithMissing
  <2>2. UNCHANGED <<objects, private, libs, state, bound, undefined, beingLinked, at>>
    BY <2>1, MissingLibraryLeaves DEF BoundInv
  <2> QED
    BY <2>1, <2>2, NothingBound
<1> QED
  BY <1>1, <1>2

(* What is listed for the modules that are linked can be bound to.           *)
LEMMA ListedIsBindable ==
  ASSUME TypeInv, NEW list \in Seq(Linking), NEW ms \in Seq(AllModules),
         NEW e \in ToSet(WithBeingLinked(list, ms)), e \notin ToSet(list)
  PROVE  e.sym \in Defines[e.module] /\ Bindable(e.module)
<1>1. PICK s \in Symbols : There(s) /\ e = LinkedTo(Entry(s), Lookup(s))
  BY BeingLinkedReferences
<1>2. e.sym = s /\ e.module = Lookup(s)
  BY <1>1 DEF LinkedTo, Entry
<1> QED
  BY <1>1, <1>2, ThereIsBindable

(* The bundle is linked.                                                     *)
LEMMA LinkObjectBound ==
  ASSUME BoundInv, NEW t \in Threads, LinkObject(t), LinkInv'
  PROVE  BoundInv'
<1> DEFINE b == at[t].bundle
<1>0. TypeInv /\ FramesInv /\ LinkInv
  BY DEF BoundInv, LinkInv, BaseInv
<1>1. /\ holder = t /\ at[t].phase = "link" /\ GoTo(t, "resolve")
      /\ beingLinked' = WithBeingLinked(beingLinked, <<b>>)
      /\ state' = [state EXCEPT ![b] = "BEING_LINKED"]
      /\ UNCHANGED <<holder, returnOnError, objects, private, bound, before>>
  BY DEF LinkObject, In
<1>2. Phase = "link" /\ b \in Bundles
  BY <1>0, <1>1, InsideIs DEF FramesInv
<1>3. /\ Phase' = "resolve" /\ at'[t].phase = "resolve"
      /\ \A u \in Threads \ {t} : at'[u] = at[u]
  BY <1>0, <1>1, WentTo DEF Inside, Phases
<1> HIDE DEF b
<1>4. /\ DOMAIN state' = DOMAIN state
      /\ \A m \in DOMAIN state : state'[m] = "RELOCATED" => state[m] = "RELOCATED"
      /\ \A m \in DOMAIN state : Linked(m) => state'[m] \in {"BEING_LINKED", "RELOCATED"}
  BY <1>1 DEF Linked
<1>5. ASSUME NEW e \in ToSet(beingLinked'), e \notin ToSet(beingLinked)
      PROVE  /\ e.sym \in Defines[e.module] /\ e.module \in DOMAIN state \ private
             /\ state'[e.module] \in {"BEING_LINKED", "RELOCATED"}
  <2>1. beingLinked \in Seq(Linking) /\ <<b>> \in Seq(AllModules)
    BY <1>0, <1>2 DEF TypeInv, AllModules, Objects
  <2>2. e.sym \in Defines[e.module] /\ Bindable(e.module)
    BY <1>0, <1>1, <1>5, <2>1, ListedIsBindable
  <2> QED
    BY <1>4, <2>2 DEF Bindable
<1>6. SoundInv' /\ PointersInv' /\ ListedInv' /\ SinceInv'
  BY <1>1, <1>2, <1>3, <1>4, <1>5, LinkedMore
<1>7. SettledInv' /\ UnreferencedInv'
  BY <1>3 DEF SettledInv, UnreferencedInv
<1>8. UnlinksInv' /\ PrivateInv'
  BY <1>1, <1>3, UnlinksKept DEF BoundInv, PrivateInv
<1> QED
  BY <1>6, <1>7, <1>8 DEF BoundInv

(* It is not, and nothing pointed to it; the libraries are not linked.       *)
LEMMA LinkObjectFailsBound ==
  ASSUME BoundInv, NEW t \in Threads, LinkObjectFails(t), LinkInv'
  PROVE  BoundInv'
<1> DEFINE b == at[t].bundle
<1>0. TypeInv /\ FramesInv /\ LinkInv /\ TypeInv'
  BY DEF BoundInv, LinkInv, BaseInv
<1>1. CASE ~returnOnError
  BY <1>1, NothingBound DEF LinkObjectFails, Exit, images, lists
<1>2. CASE returnOnError
  <2>1. /\ Phase = "link" /\ b = Bundle /\ b \in Bundles /\ b \notin private
        /\ Phase' = "out" /\ ~returnOnError' /\ at'[t] = Out
        /\ \A u \in Threads \ {t} : at'[u] = at[u]
        /\ objects' = WithoutBundle(objects, b)
        /\ ToSet(objects') \ {None} = ToSet(objects) \ {None, b}
        /\ private' = private
        /\ Len(libs') = Len(libs) /\ \A i \in 1 .. Len(libs) : libs'[i].lib = libs[i].lib
        /\ DOMAIN state' = DOMAIN state \ {b} /\ DOMAIN bound' = DOMAIN state'
        /\ \A m \in DOMAIN state' : state'[m] = state[m] /\ bound'[m] = bound[m]
        /\ undefined' = undefined /\ beingLinked' = << >>
    BY <1>0, <1>2, LinkObjectFailsLeaves
  <2> HIDE DEF b
  <2>2. b \in DOMAIN state => state[b] = "UNLINKED"
    <3>1. BeforeTyped /\ ImagesSince(b) /\ FreshSince
      BY <1>0, <1>2, <2>1 DEF LinkInv, BeforeInv
    <3>2. Was \subseteq Loaded(objects, libs) \ {b}
      BY <1>0, <2>1, <3>1, WasLoaded
    <3> QED
      BY <2>1, <3>1, <3>2 DEF FreshSince
  <2>3. SoundInv'
    <3> SUFFICES ASSUME NEW m \in DOMAIN state', state'[m] = "RELOCATED",
                        NEW s \in DOMAIN bound'[m]
                 PROVE  /\ bound'[m][s] \in DOMAIN state' \ private'
                        /\ state'[bound'[m][s]] \in {"BEING_LINKED", "RELOCATED"}
      BY DEF SoundInv, Sound
    <3>1. /\ m \in DOMAIN state /\ state[m] = "RELOCATED" /\ bound'[m] = bound[m]
          /\ s \in DOMAIN bound[m]
      BY <2>1
    <3>2. PICK n : n = bound[m][s]
      OBVIOUS
    <3>3. n \in DOMAIN state \ private /\ state[n] \in {"BEING_LINKED", "RELOCATED"}
      BY <3>1, <3>2 DEF BoundInv, SoundInv, Sound
    <3>4. n # b
      BY <2>2, <3>3
    <3> QED
      BY <2>1, <3>1, <3>2, <3>3, <3>4
  <2>4. PointersInv'
    <3>1. DOMAIN bound = DOMAIN state
      BY <1>0 DEF TypeInv
    <3>2. \A m \in DOMAIN bound' : m \in DOMAIN bound /\ bound'[m] = bound[m]
      BY <2>1, <3>1
    <3> QED
      BY <3>2 DEF BoundInv, PointersInv
  <2>5. ListedInv'
    BY <2>1 DEF ListedInv, ToSet
  <2>6. SettledInv'
    <3>1. Hidden = {b} /\ Hidden' = {} /\ Asked' = Asked
      BY <2>1 DEF Hidden, Asked
    <3>2. /\ DOMAIN objects' = DOMAIN objects
          /\ \A i \in DOMAIN objects : objects'[i] = IF objects[i] = b THEN None ELSE objects[i]
      BY <2>1 DEF WithoutBundle
    <3>3. \A m \in Loaded(objects', libs') :
            state'[m] # "UNLINKED" => m \in Loaded(objects, libs) /\ Linked(m)
      <4>1. /\ DOMAIN state' = Loaded(objects', libs') /\ DOMAIN state = Loaded(objects, libs)
            /\ \A m \in DOMAIN state : state[m] \in LinkStates
        BY <1>0 DEF TypeInv
      <4> QED
        BY <2>1, <4>1 DEF Linked, LinkStates
    <3>4. Len(libs) <= Len(libs') /\ \A i \in 1 .. Len(libs) : libs'[i].lib = libs[i].lib
      BY <1>0, <2>1 DEF TypeInv
    <3>5. ASSUME NEW s \in Asked, Provided(s)'
          PROVE  Provided(s)
      <4>1. /\ ObjectPlaces(objects', private' \cup Hidden', s)
                 = ObjectPlaces(objects, private \cup Hidden, s)
            /\ \A i \in ObjectPlaces(objects, private \cup Hidden, s) : objects'[i] = objects[i]
        BY <2>1, <3>1, <3>2 DEF ObjectPlaces
      <4> QED
        BY <1>0, <3>3, <3>4, <3>5, <4>1, ProvidedBefore
    <3>6. \A s \in Asked : ~Provided(s)
      BY <2>1 DEF BoundInv, SettledInv
    <3> QED
      BY <2>1, <3>1, <3>5, <3>6 DEF SettledInv
  <2>7. UnlinksInv'
    BY <2>1, UnlinksKept DEF Out
  <2>8. UnreferencedInv' /\ SinceInv'
    BY <2>1 DEF UnreferencedInv, SinceInv
  <2>9. PrivateInv'
    <3>1. None \notin Bundles
      BY LinkAssumption DEF Objects, AllModules
    <3> QED
      BY <2>1, <3>1 DEF BoundInv, PrivateInv
  <2> QED
    BY <2>3, <2>4, <2>5, <2>6, <2>7, <2>8, <2>9 DEF BoundInv
<1> QED
  BY <1>1, <1>2

(* An undefined symbol is found whose module cannot be linked.               *)
LEMMA ResolveFailsBound ==
  ASSUME BoundInv, LinkInv', NEW t \in Threads, In(t, "resolve"),
         NEW i \in DOMAIN undefined, Found(i), NEW m, m = Lookup(undefined[i].sym),
         returnOnError,
         beingLinked' = Append(beingLinked, LinkedTo(undefined[i], m)),
         GoTo(t, "backOut"),
         UNCHANGED <<holder, returnOnError, objects, private, libs, state, bound, before>>
  PROVE  BoundInv'
<1>0. TypeInv /\ FramesInv /\ LinkInv
  BY DEF BoundInv, LinkInv, BaseInv
<1>1. holder = t /\ Phase = "resolve"
  BY <1>0, InsideIs DEF In
<1>2. /\ Phase' = "backOut" /\ at'[t].phase = "backOut"
      /\ \A u \in Threads \ {t} : at'[u] = at[u]
  BY <1>0, <1>1, WentTo DEF Inside, Phases
<1>3. SoundInv' /\ PointersInv' /\ PrivateInv'
  BY DEF BoundInv, SoundInv, Sound, PointersInv, PrivateInv
<1>4. ListedInv'
  <2> DEFINE e == LinkedTo(undefined[i], m)
  <2>1. m \in AllModules /\ undefined[i].sym \in Defines[m]
    BY <1>0, LookupType DEF Found, Lookup
  <2>2. beingLinked \in Seq(Linking) /\ e \in Linking
    <3>1. undefined[i] \in Unres /\ beingLinked \in Seq(Linking)
      BY <1>0 DEF TypeInv
    <3> QED
      BY <2>1, <3>1 DEF LinkedTo, Linking, Unres
  <2>3. e.sym = undefined[i].sym /\ e.module = m
    BY DEF LinkedTo
  <2> HIDE DEF e
  <2>4. ToSet(beingLinked') = ToSet(beingLinked) \cup {e}
    BY <2>2, AppendElements DEF e
  <2> QED
    BY <1>2, <2>1, <2>3, <2>4 DEF BoundInv, ListedInv
<1>5. SettledInv' /\ UnreferencedInv'
  BY <1>2 DEF SettledInv, UnreferencedInv
<1>6. UnlinksInv'
  BY <1>2, UnlinksKept
<1>7. SinceInv'
  BY <1>1 DEF BoundInv, SinceInv, Sound, Was
<1> QED
  BY <1>3, <1>4, <1>5, <1>6, <1>7 DEF BoundInv

(* An undefined symbol is found, and its module is linked.                   *)
LEMMA ResolveLinksBound ==
  ASSUME BoundInv, LinkInv', NEW t \in Threads, In(t, "resolve"),
         NEW i \in DOMAIN undefined, Found(i), NEW m, m = Lookup(undefined[i].sym),
         NEW ms, ms = ToLink(m),
         beingLinked' = WithBeingLinked(Append(beingLinked, LinkedTo(undefined[i], m)), ms),
         state' = Over([n \in ToSet(ms) |-> "BEING_LINKED"], state),
         UNCHANGED <<holder, returnOnError, objects, private, bound, at, before>>
  PROVE  BoundInv'
<1> DEFINE e     == LinkedTo(undefined[i], m)
           moved == Append(beingLinked, e)
<1>0. TypeInv /\ FramesInv /\ LinkInv /\ ObjectsInv
  BY DEF BoundInv, LinkInv, BaseInv
<1>1. holder = t /\ Phase = "resolve" /\ Phase' = "resolve"
  <2>1. holder = t /\ Phase = "resolve"
    BY <1>0, InsideIs DEF In
  <2> QED
    BY <2>1 DEF Phase
<1>2. /\ m \in Loaded(objects, libs) /\ m \in AllModules /\ m # None
      /\ m \in Searched(objects, private, libs) /\ undefined[i].sym \in Defines[m]
  <2>1. private \cup {} = private
    OBVIOUS
  <2>2. /\ m \in Searched(objects, private \cup {}, libs) /\ m \in Loaded(objects, libs)
        /\ m \in AllModules /\ m # None /\ undefined[i].sym \in Defines[m]
    BY <1>0, LookupType DEF Found, Lookup
  <2> QED
    BY <2>1, <2>2
<1>3. /\ ms \in Seq(AllModules)
      /\ ToSet(ms) \subseteq Loaded(objects, libs)
      /\ \A n \in ToSet(ms) : state[n] = "UNLINKED"
      /\ state[m] = "UNLINKED" => m \in ToSet(ms)
  BY <1>0, <1>1, <1>2, SavedObjects, ToLinkElements
<1>4. beingLinked \in Seq(Linking) /\ e \in Linking /\ e.sym = undefined[i].sym /\ e.module = m
  <2>1. undefined[i] \in Unres /\ beingLinked \in Seq(Linking)
    BY <1>0 DEF TypeInv
  <2> QED
    BY <1>2, <2>1 DEF LinkedTo, Linking, Unres
<1> HIDE DEF e
<1>5. moved \in Seq(Linking) /\ ToSet(moved) = ToSet(beingLinked) \cup {e}
  BY <1>4, AppendElements
<1>6. beingLinked' = WithBeingLinked(moved, ms)
  BY DEF e
<1> HIDE DEF moved
<1>7. /\ DOMAIN state = Loaded(objects, libs) /\ DOMAIN state' = DOMAIN state
      /\ \A n \in DOMAIN state :
           state'[n] = IF n \in ToSet(ms) THEN "BEING_LINKED" ELSE state[n]
  <2>1. DOMAIN state = Loaded(objects, libs)
    BY <1>0 DEF TypeInv
  <2> QED
    BY <1>3, <2>1 DEF Over
<1>8. /\ \A n \in DOMAIN state : state'[n] = "RELOCATED" => state[n] = "RELOCATED"
      /\ \A n \in DOMAIN state : Linked(n) => state'[n] \in {"BEING_LINKED", "RELOCATED"}
  BY <1>7 DEF Linked
<1>9. m \in DOMAIN state \ private /\ state'[m] \in {"BEING_LINKED", "RELOCATED"}
  <2>1. m \notin private
    <3>1. private \cap InLibraries(libs) = {}
      BY <1>0, LoadedAreModules, LinkAssumption DEF TypeInv, Objects
    <3> QED
      BY <1>2, <3>1 DEF Searched
  <2>2. state[m] \in LinkStates
    BY <1>0, <1>2 DEF TypeInv
  <2> QED
    BY <1>2, <1>3, <1>7, <2>1, <2>2 DEF LinkStates
<1>10. ASSUME NEW f \in ToSet(beingLinked'), f \notin ToSet(beingLinked)
       PROVE  /\ f.sym \in Defines[f.module] /\ f.module \in DOMAIN state \ private
              /\ state'[f.module] \in {"BEING_LINKED", "RELOCATED"}
  <2>1. CASE f = e
    BY <1>2, <1>4, <1>9, <2>1
  <2>2. CASE f # e
    <3>1. f \in ToSet(WithBeingLinked(moved, ms)) /\ f \notin ToSet(moved)
      BY <1>5, <1>6, <1>10, <2>2
    <3>2. f.sym \in Defines[f.module] /\ Bindable(f.module)
      BY <1>0, <1>3, <1>5, <3>1, ListedIsBindable
    <3> QED
      BY <1>8, <3>2 DEF Bindable
  <2> QED
    BY <2>1, <2>2
<1>11. SoundInv' /\ PointersInv' /\ ListedInv' /\ SinceInv'
  BY <1>1, <1>7, <1>8, <1>10, LinkedMore
<1>12. SettledInv' /\ UnreferencedInv'
  BY <1>1 DEF SettledInv, UnreferencedInv
<1>13. UnlinksInv' /\ PrivateInv'
  BY DEF BoundInv, UnlinksInv, PrivateInv
<1> QED
  BY <1>11, <1>12, <1>13 DEF BoundInv

(* One of the two, or the process exits.                                     *)
LEMMA ResolveBound ==
  ASSUME BoundInv, NEW t \in Threads, Resolve(t), LinkInv'
  PROVE  BoundInv'
<1>1. PICK i \in DOMAIN undefined :
        LET m     == Lookup(undefined[i].sym)
            ms    == ToLink(m)
            moved == Append(beingLinked, LinkedTo(undefined[i], m))
        IN /\ In(t, "resolve") /\ Found(i)
           /\ \/ Exit
              \/ /\ returnOnError
                 /\ beingLinked' = moved
                 /\ GoTo(t, "backOut")
                 /\ UNCHANGED <<holder, returnOnError, objects, private, libs, state, bound,
                                before, exited>>
              \/ /\ beingLinked' = WithBeingLinked(moved, ms)
                 /\ state' = Over([n \in ToSet(ms) |-> "BEING_LINKED"], state)
                 /\ UNCHANGED <<holder, returnOnError, objects, private, libs, bound,
                                at, before, exited>>
  BY DEF Resolve
<1>2. PICK m, ms : m = Lookup(undefined[i].sym) /\ ms = ToLink(m)
  OBVIOUS
<1>3. CASE Exit
  BY <1>3, NothingBound DEF Exit, images, lists
<1>4. CASE /\ returnOnError
           /\ beingLinked' = Append(beingLinked, LinkedTo(undefined[i], m))
           /\ GoTo(t, "backOut")
           /\ UNCHANGED <<holder, returnOnError, objects, private, libs, state, bound,
                          before, exited>>
  BY <1>1, <1>2, <1>4, ResolveFailsBound
<1>5. CASE /\ beingLinked' = WithBeingLinked(Append(beingLinked, LinkedTo(undefined[i], m)), ms)
           /\ state' = Over([n \in ToSet(ms) |-> "BEING_LINKED"], state)
           /\ UNCHANGED <<holder, returnOnError, objects, private, libs, bound,
                          at, before, exited>>
  BY <1>1, <1>2, <1>5, ResolveLinksBound
<1> QED
  BY <1>1, <1>2, <1>3, <1>4, <1>5

(* Nothing more is found, so that what is undefined is settled.              *)
LEMMA ResolvedBound ==
  ASSUME BoundInv, NEW t \in Threads, Resolved(t), LinkInv'
  PROVE  BoundInv'
<1> DEFINE ph == IF returnOnError /\ undefined # << >> THEN "backOut" ELSE "relocate"
<1>0. TypeInv /\ FramesInv
  BY DEF BoundInv, LinkInv, BaseInv
<1>1. /\ holder = t /\ at[t].phase = "resolve" /\ GoTo(t, ph)
      /\ \A i \in DOMAIN undefined : ~Found(i)
      /\ UNCHANGED <<holder, returnOnError, objects, private, libs, state,
                     undefined, beingLinked, bound, before>>
  BY DEF Resolved, In, images, lists
<1>2. Phase = "resolve"
  BY <1>0, <1>1, InsideIs
<1>3. ph \in Inside \ {"link", "unlink"} /\ ph \in {"backOut", "relocate"}
  BY DEF Inside, Phases
<1> HIDE DEF ph
<1>4. /\ Phase' = ph /\ at'[t].phase = ph
      /\ \A u \in Threads \ {t} : at'[u] = at[u]
  BY <1>0, <1>1, <1>3, WentTo
<1>5. SoundInv' /\ PointersInv' /\ ListedInv' /\ SinceInv'
  BY <1>1, <1>2, <1>3, PointersKept
<1>6. SettledInv'
  <2>1. \A s \in Asked : Lookup(s) = None
    <3>1. ASSUME NEW s \in Asked
          PROVE  Lookup(s) = None
      <4>1. PICK i \in DOMAIN undefined : s = undefined[i].sym
        BY DEF Asked, ToSet
      <4> QED
        BY <1>1, <4>1 DEF Found
    <3> QED
      BY <3>1
  <2>2. Asked' = Asked /\ \A s : Lookup(s)' = Lookup(s)
    BY <1>1 DEF Asked, Lookup, LookupPast
  <2>3. Hidden' = {}
    BY <1>3, <1>4 DEF Hidden
  <2>4. \A s : Provided(s)' => Lookup(s)' # None
    BY <2>3 DEF Provided, Lookup
  <2> QED
    BY <2>1, <2>2, <2>4 DEF SettledInv
<1>7. UnlinksInv'
  BY <1>3, <1>4, UnlinksKept
<1>8. UnreferencedInv' /\ PrivateInv'
  BY <1>1, <1>3, <1>4 DEF BoundInv, UnreferencedInv, PrivateInv
<1> QED
  BY <1>5, <1>6, <1>7, <1>8 DEF BoundInv

(* There is what there was before the link, and that was sound.              *)
LEMMA BackOutBound ==
  ASSUME BoundInv, NEW t \in Threads, BackOut(t), LinkInv'
  PROVE  BoundInv'
<1>0. TypeInv /\ FramesInv /\ ReturnInv /\ LinkInv
  BY DEF BoundInv, LinkInv, BaseInv
<1>1. /\ Phase = "backOut" /\ returnOnError
      /\ Phase' = "out" /\ ~returnOnError'
      /\ at'[t] = Out /\ \A u \in Threads \ {t} : at'[u] = at[u]
      /\ undefined' = << >> /\ beingLinked' = << >>
      /\ DOMAIN state' \subseteq DOMAIN bound
      /\ DOMAIN bound' = DOMAIN state'
      /\ \A m \in DOMAIN state' : bound'[m] = bound[m]
      /\ private' = private \cap DOMAIN state'
  <2> DEFINE objs == WithoutBundle(objects, at[t].bundle)
             ls   == WithoutRemoveOnError(libs)
  <2>1. /\ Phase = "backOut" /\ returnOnError
        /\ Phase' = "out" /\ ~returnOnError'
        /\ at'[t] = Out /\ \A u \in Threads \ {t} : at'[u] = at[u]
        /\ undefined' = << >> /\ beingLinked' = << >>
        /\ Loaded(objs, ls) \subseteq Loaded(objects, libs)
        /\ private' = private \cap Loaded(objs, ls)
        /\ DOMAIN state' = Loaded(objs, ls)
        /\ bound' = [m \in Loaded(objs, ls) |-> bound[m]]
    BY <1>0, BackedOut
  <2> HIDE DEF objs, ls
  <2>2. DOMAIN bound = Loaded(objects, libs)
    BY <1>0 DEF TypeInv
  <2> QED
    BY <2>1, <2>2
<1>2. /\ BeforeTyped
      /\ private' = before.private /\ state' = before.state /\ bound' = before.bound
      /\ ToSet(before.objects) = ToSet(objects') \ {None}
      /\ ToSet(objects') \ {None} \subseteq ToSet(objects)
  <2>1. ToSet(objects') \ {None} = ToSet(objects) \ {None, at[t].bundle}
    BY <1>0, BackedOut
  <2> QED
    BY <1>0, <2>1, BackOutRestores
<1>3. SoundInv'
  BY <1>1, <1>2 DEF BoundInv, SinceInv, SoundInv, Sound
<1>4. PointersInv'
  BY <1>1 DEF BoundInv, PointersInv
<1>5. ListedInv'
  BY <1>1 DEF ListedInv, ToSet
<1>6. SettledInv'
  <2>1. Asked' = {}
    BY <1>1 DEF Asked, ToSet
  <2> QED
    BY <1>1, <2>1 DEF SettledInv
<1>7. UnlinksInv'
  BY <1>1, UnlinksKept DEF Out
<1>8. UnreferencedInv' /\ SinceInv'
  BY <1>1 DEF UnreferencedInv, SinceInv
<1>9. PrivateInv'
  <2>1. ASSUME NEW o \in ToSet(objects') \cap Bundles, o \in private
        PROVE  o \in private'
    <3>1. o # None
      BY LinkAssumption DEF Objects, AllModules
    <3>2. o \in DOMAIN state'
      <4>1. o \in ToSet(before.objects)
        BY <1>2, <3>1
      <4>2. o # None /\ o \in Was
        BY <3>1, <4>1 DEF Was, Loaded
      <4>3. DOMAIN before.state = Was
        BY <1>2 DEF BeforeTyped
      <4> QED
        BY <1>2, <4>2, <4>3
    <3> QED
      BY <1>1, <2>1, <3>2
  <2>2. None \notin Bundles
    BY LinkAssumption DEF Objects, AllModules
  <2>3. ASSUME NEW o \in ToSet(objects') \cap Bundles
        PROVE  o \in ToSet(objects) \cap Bundles
    BY <1>2, <2>2
  <2> QED
    BY <2>1, <2>3 DEF BoundInv, PrivateInv
<1> QED
  BY <1>3, <1>4, <1>5, <1>6, <1>7, <1>8, <1>9 DEF BoundInv

(* The states are what they were, and what is new is bound to nothing.       *)
LEMMA BackOutForeverBound ==
  ASSUME BoundInv, NEW t \in Threads, BackOutForever(t), LinkInv'
  PROVE  BoundInv'
<1>0. TypeInv /\ FramesInv /\ ReturnInv /\ LinkInv
  BY DEF BoundInv, LinkInv, BaseInv
<1>1. /\ holder = t /\ at[t].phase = "backOut" /\ GoTo(t, "spin")
      /\ state' = RestoredStates
      /\ beingLinked' = << >>
      /\ UNCHANGED <<holder, returnOnError, objects, private, libs, bound, before>>
  BY DEF BackOutForever, In
<1>2. Phase = "backOut" /\ returnOnError /\ Bundle \in Bundles
  BY <1>0, <1>1, InsideIs DEF ReturnInv
<1>3. /\ Phase' = "spin" /\ at'[t].phase = "spin"
      /\ \A u \in Threads \ {t} : at'[u] = at[u]
  BY <1>0, <1>1, WentTo DEF Inside, Phases
<1>4. BeforeTyped /\ ImagesSince(Bundle) /\ StatesSince
  BY <1>0, <1>2 DEF LinkInv, BeforeInv
<1>5. /\ DOMAIN state' = DOMAIN state
      /\ \A m \in Was : state'[m] = before.state[m] /\ bound[m] = before.bound[m]
      /\ private \ {Bundle} = before.private
      /\ DOMAIN before.state = Was
      /\ Was \subseteq DOMAIN state /\ Bundle \notin Was
  <2>1. DOMAIN state = Loaded(objects, libs) /\ DOMAIN saved \subseteq Loaded(objects, libs)
    BY <1>0 DEF TypeInv
  <2>2. DOMAIN state' = DOMAIN state
    BY <1>1, <2>1 DEF RestoredStates, Over
  <2>3. Was \subseteq Loaded(objects, libs) \ {Bundle}
    BY <1>0, <1>2, <1>4, WasLoaded
  <2>4. \A m \in Was : state'[m] = before.state[m]
    BY <1>1, <1>4 DEF StatesSince, RestoredStates
  <2>5. DOMAIN before.state = Was
    BY <1>4 DEF BeforeTyped
  <2> QED
    BY <1>4, <2>1, <2>2, <2>3, <2>4, <2>5 DEF StatesSince, ImagesSince
<1>6. SoundInv'
  <2> SUFFICES ASSUME NEW m \in DOMAIN state', state'[m] = "RELOCATED",
                      NEW s \in DOMAIN bound'[m]
               PROVE  /\ bound'[m][s] \in DOMAIN state' \ private'
                      /\ state'[bound'[m][s]] \in {"BEING_LINKED", "RELOCATED"}
    BY DEF SoundInv, Sound
  <2>1. m \in Was
    <3>1. m \notin Was => bound[m] = << >>
      BY <1>2, <1>5 DEF BoundInv, SinceInv
    <3> QED
      BY <1>1, <3>1
  <2>2. /\ before.state[m] = "RELOCATED" /\ m \in DOMAIN before.state
        /\ s \in DOMAIN before.bound[m] /\ bound'[m][s] = before.bound[m][s]
    BY <1>1, <1>5, <2>1
  <2>3. /\ before.bound[m][s] \in Was \ before.private
        /\ before.state[before.bound[m][s]] \in {"BEING_LINKED", "RELOCATED"}
    BY <1>2, <1>5, <2>2 DEF BoundInv, SinceInv, Sound
  <2> QED
    BY <1>1, <1>5, <2>2, <2>3
<1>7. PointersInv' /\ PrivateInv'
  BY <1>1 DEF BoundInv, PointersInv, PrivateInv
<1>8. ListedInv'
  BY <1>1 DEF ListedInv, ToSet
<1>9. SettledInv' /\ UnreferencedInv' /\ SinceInv'
  BY <1>3 DEF SettledInv, UnreferencedInv, SinceInv
<1>10. UnlinksInv'
  BY <1>3, UnlinksKept
<1> QED
  BY <1>6, <1>7, <1>8, <1>9, <1>10 DEF BoundInv

(* What a reference is bound to when it is relocated                         *)
LEMMA BoundAnewTo ==
  ASSUME BoundInv, Phase = "relocate", NEW m \in DOMAIN state, NEW s \in DOMAIN BoundAnew(m)
  PROVE  \/ /\ s \in ToSet(Needs[m])
            /\ Bindable(BoundAnew(m)[s]) /\ s \in Defines[BoundAnew(m)[s]]
         \/ /\ s \in DOMAIN bound[m] /\ BoundAnew(m)[s] = bound[m][s]
            /\ ~(state[m] = "BEING_LINKED" /\ AllDefined(m))
<1> DEFINE listed == {i \in DOMAIN beingLinked : beingLinked[i].sym = s}
           now == IF state[m] = "BEING_LINKED" /\ AllDefined(m) THEN ToSet(Needs[m])
                  ELSE {r \in ToSet(Needs[m]) :
                          {i \in DOMAIN beingLinked : beingLinked[i].sym = r} # {}}
<1>0. TypeInv /\ LinkInv
  BY DEF BoundInv, LinkInv, BaseInv
<1>1. s \in now \/ s \in DOMAIN bound[m] \ now
  BY DEF BoundAnew, Over
<1>2. CASE s \in now
  <2>1. BoundAnew(m)[s] = IF listed # {} THEN beingLinked[Max(listed)].module ELSE Lookup(s)
    BY <1>2 DEF BoundAnew, Over
  <2>2. s \in ToSet(Needs[m])
    BY <1>2
  <2>3. CASE listed # {}
    <3>1. /\ Len(beingLinked) \in Nat
          /\ listed \in SUBSET (0 .. Len(beingLinked))
          /\ listed \subseteq DOMAIN beingLinked
      BY <1>0 DEF TypeInv
    <3>2. Max(listed) \in listed
      <4> HIDE DEF listed
      <4> QED
        BY <2>3, <3>1, MaxIsGreatest
    <3>3. /\ beingLinked[Max(listed)] \in ToSet(beingLinked)
          /\ beingLinked[Max(listed)].sym = s
      BY <3>1, <3>2 DEF ToSet
    <3> HIDE DEF listed
    <3>4. /\ s \in Defines[beingLinked[Max(listed)].module]
          /\ Bindable(beingLinked[Max(listed)].module)
      BY <3>3 DEF BoundInv, ListedInv
    <3> QED
      BY <2>1, <2>2, <2>3, <3>4
  <2>4. CASE listed = {}
    <3>1. state[m] = "BEING_LINKED" /\ AllDefined(m)
      BY <1>2, <2>4
    <3>2. Lookup(s) # None
      BY <2>2, <3>1 DEF AllDefined
    <3>3. s \in Asked \/ Provided(s)
      BY <1>0, <2>2, <3>1 DEF LinkInv, WaitingInv, ProvidedInv
    <3>4. s \notin Asked
      BY <3>2 DEF BoundInv, SettledInv
    <3>5. Hidden = {}
      BY DEF Hidden
    <3>6. There(s)
      BY <3>3, <3>4, <3>5, ProvidedIsThere
    <3>7. Bindable(Lookup(s)) /\ s \in Defines[Lookup(s)]
      BY <1>0, <3>6, ThereIsBindable
    <3> QED
      BY <2>1, <2>2, <2>4, <3>7
  <2> QED
    BY <2>3, <2>4
<1>3. CASE s \in DOMAIN bound[m] \ now
  <2>1. BoundAnew(m)[s] = bound[m][s]
    BY <1>3 DEF BoundAnew, Over
  <2>2. DOMAIN bound[m] \subseteq ToSet(Needs[m])
    BY <1>0 DEF BoundInv, PointersInv, TypeInv
  <2> QED
    BY <1>3, <2>1, <2>2
<1> HIDE DEF now
<1> QED
  BY <1>1, <1>2, <1>3

(* What becomes RELOCATED is bound to what is linked.                        *)
LEMMA RelocateBound ==
  ASSUME BoundInv, NEW t \in Threads, Relocate(t), LinkInv'
  PROVE  BoundInv'
<1>0. TypeInv /\ FramesInv /\ LinkInv /\ TypeInv'
  BY DEF BoundInv, LinkInv, BaseInv
<1>1. /\ holder = t /\ at[t].phase = "relocate" /\ GoTo(t, "report")
      /\ state' = [m \in DOMAIN state |->
                     IF state[m] = "BEING_LINKED" /\ AllDefined(m) THEN "RELOCATED"
                                                                   ELSE state[m]]
      /\ bound' = [m \in DOMAIN bound |-> BoundAnew(m)]
      /\ beingLinked' = << >>
      /\ UNCHANGED <<holder, returnOnError, objects, private, libs, undefined>>
  BY DEF Relocate, In
<1>2. Phase = "relocate"
  BY <1>0, <1>1, InsideIs
<1>3. /\ Phase' = "report" /\ at'[t].phase = "report"
      /\ \A u \in Threads \ {t} : at'[u] = at[u]
  BY <1>0, <1>1, WentTo DEF Inside, Phases
<1>4. /\ DOMAIN state' = DOMAIN state /\ DOMAIN bound = DOMAIN state
      /\ \A m \in DOMAIN state :
           /\ Linked(m) => state'[m] \in {"BEING_LINKED", "RELOCATED"}
           /\ state'[m] = "RELOCATED" => \/ state[m] = "RELOCATED"
                                         \/ state[m] = "BEING_LINKED" /\ AllDefined(m)
           /\ bound'[m] = BoundAnew(m)
  BY <1>0, <1>1 DEF TypeInv, Linked
<1>5. SoundInv'
  <2> SUFFICES ASSUME NEW m \in DOMAIN state', state'[m] = "RELOCATED",
                      NEW s \in DOMAIN bound'[m]
               PROVE  /\ bound'[m][s] \in DOMAIN state' \ private'
                      /\ state'[bound'[m][s]] \in {"BEING_LINKED", "RELOCATED"}
    BY DEF SoundInv, Sound
  <2>1. m \in DOMAIN state /\ bound'[m] = BoundAnew(m) /\ s \in DOMAIN BoundAnew(m)
    BY <1>4
  <2>2. PICK n : n = BoundAnew(m)[s]
    OBVIOUS
  <2>3. Bindable(n)
    <3>1. CASE Bindable(BoundAnew(m)[s])
      BY <2>2, <3>1
    <3>2. CASE /\ s \in DOMAIN bound[m] /\ BoundAnew(m)[s] = bound[m][s]
               /\ ~(state[m] = "BEING_LINKED" /\ AllDefined(m))
      <4>1. state[m] = "RELOCATED"
        BY <1>4, <2>1, <3>2
      <4> QED
        BY <2>1, <2>2, <3>2, <4>1 DEF BoundInv, SoundInv, Sound, Bindable, Linked
    <3> QED
      BY <1>2, <2>1, <3>1, <3>2, BoundAnewTo
  <2>4. n \in DOMAIN state \ private /\ state'[n] \in {"BEING_LINKED", "RELOCATED"}
    BY <1>4, <2>3 DEF Bindable
  <2> QED
    BY <1>1, <1>4, <2>1, <2>2, <2>4
<1>6. PointersInv'
  <2>1. ASSUME NEW m \in DOMAIN state, NEW s \in DOMAIN BoundAnew(m)
        PROVE  s \in ToSet(Needs[m]) /\ s \in Defines[BoundAnew(m)[s]]
    <3>1. CASE s \in DOMAIN bound[m] /\ BoundAnew(m)[s] = bound[m][s]
      BY <1>4, <3>1 DEF BoundInv, PointersInv
    <3> QED
      BY <1>2, <3>1, BoundAnewTo
  <2>2. DOMAIN bound' = DOMAIN state
    BY <1>1, <1>4
  <2> QED
    BY <1>4, <2>1, <2>2 DEF PointersInv
<1>7. ListedInv'
  BY <1>1 DEF ListedInv, ToSet
<1>8. SettledInv'
  <2>1. Hidden' = Hidden /\ Asked' = Asked
    BY <1>1, <1>2, <1>3 DEF Asked, Hidden
  <2>2. \A m \in Loaded(objects, libs) : state'[m] # "UNLINKED" => Linked(m)
    <3>1. DOMAIN state = Loaded(objects, libs) /\ \A m \in DOMAIN state : state[m] \in LinkStates
      BY <1>0 DEF TypeInv
    <3> QED
      BY <1>1, <3>1 DEF Linked, LinkStates
  <2>3. \A s \in Asked : ~Provided(s)
    BY <1>2 DEF BoundInv, SettledInv
  <2>4. \A s \in Asked' : ~Provided(s)'
    BY <1>0, <1>1, <2>1, <2>2, <2>3, SettledSame
  <2> QED
    BY <1>3, <2>4 DEF SettledInv
<1>9. UnlinksInv'
  BY <1>3, UnlinksKept
<1>10. UnreferencedInv' /\ PrivateInv' /\ SinceInv'
  BY <1>1, <1>3 DEF BoundInv, UnreferencedInv, PrivateInv, SinceInv
<1> QED
  BY <1>5, <1>6, <1>7, <1>8, <1>9, <1>10 DEF BoundInv

(* The handler runs, and finds what is asked for as undefined as it was.     *)
LEMMA CallHandlerBound ==
  ASSUME BoundInv, NEW t \in Threads, CallHandler(t), LinkInv'
  PROVE  BoundInv'
<1>0. TypeInv /\ FramesInv /\ ReturnInv /\ LinkInv
  BY DEF BoundInv, LinkInv, BaseInv
<1>1. CASE Exit
  BY <1>1, NothingBound DEF Exit, images, lists
<1>2. CASE ~Exit
  <2>1. exited' = exited /\ Handler
    BY <1>2 DEF CallHandler
  <2>2. /\ holder = t /\ Phase = at[t].phase /\ Phase \in {"report", "unlink"}
        /\ Phase' = "out" /\ ~returnOnError'
        /\ at'[t].bundle = at[t].bundle
        /\ at'[t].phase = IF at[t].phase = "report" THEN "handler" ELSE "unlinkHandler"
        /\ \A u \in Threads \ {t} : at'[u] = at[u]
        /\ Release(libs)
        /\ UNCHANGED <<objects, private, state, undefined, beingLinked, bound>>
    BY <1>0, <2>1, CalledHandler DEF lists
  <2>3. libs' = libs
    <3>1. ~returnOnError
      <4>1. undefined # << >>
        BY DEF CallHandler
      <4> QED
        BY <1>0, <2>2, <4>1 DEF LinkInv, ListsInv, ReturnInv
    <3>2. libs \in Seq(LibEntries)
      BY <1>0 DEF TypeInv
    <3> QED
      BY <2>2, <3>1, <3>2, ReleasedLibraries
  <2>4. SoundInv' /\ PointersInv' /\ ListedInv' /\ SinceInv'
    BY <2>2, PointersKept
  <2>5. SettledInv'
    <3>1. Asked' = Asked /\ \A s : Provided(s)' <=> Provided(s)
      <4>1. Hidden' = Hidden
        BY <2>2 DEF Hidden
      <4> QED
        BY <2>2, <2>3, <4>1 DEF Asked, Provided, LookupPast, Linked
    <3>2. \A s \in Asked : ~Provided(s)
      BY <2>1, <2>2 DEF BoundInv, SettledInv
    <3> QED
      BY <2>2, <3>1, <3>2 DEF SettledInv
  <2>6. UnlinksInv'
    BY <2>1, <2>2 DEF BoundInv, UnlinksInv
  <2>7. UnreferencedInv' /\ PrivateInv'
    BY <2>2 DEF BoundInv, UnreferencedInv, PrivateInv
  <2> QED
    BY <2>4, <2>5, <2>6, <2>7 DEF BoundInv
<1> QED
  BY <1>1, <1>2

(* The handler has returned: what it ran for is there, and if that was a     *)
(* bundle on its way out, nothing refers to the bundle.                      *)
LEMMA HandlerReturnsBound ==
  ASSUME UnlinksSafely, BoundInv, NEW t \in Threads, HandlerReturns(t), LinkInv'
  PROVE  BoundInv'
<1>0. TypeInv /\ FramesInv /\ LinkInv
  BY DEF BoundInv, LinkInv, BaseInv
<1>1. /\ holder = None /\ Phase = "out"
      /\ at[t].phase \in {"handler", "unlinkHandler"}
      /\ Phase' = IF at[t].phase = "handler" THEN "report" ELSE "unlink"
      /\ Bundle' = at[t].bundle
      /\ at'[t].bundle = at[t].bundle /\ at'[t].phase = Phase'
      /\ \A u \in Threads \ {t} : at'[u] = at[u]
      /\ UNCHANGED <<returnOnError, objects, private, libs, state, undefined,
                     beingLinked, bound, before>>
  BY <1>0, HandlerReturned DEF images, lists
<1>2. Phase' \in {"report", "unlink"} /\ Phase # "backOut"
  BY <1>1
<1>3. SoundInv' /\ PointersInv' /\ ListedInv' /\ SinceInv'
  BY <1>1, <1>2, PointersKept
<1>4. SettledInv'
  <2>1. Asked' = Asked /\ \A s : Provided(s)' <=> Provided(s)
    <3>1. Hidden' = Hidden
      BY <1>1, <1>2 DEF Hidden
    <3> QED
      BY <1>1, <3>1 DEF Asked, Provided, LookupPast, Linked
  <2>2. \A s \in Asked : ~Provided(s)
    BY <1>1 DEF BoundInv, SettledInv
  <2> QED
    BY <1>2, <2>1, <2>2 DEF SettledInv
<1>5. UnlinksInv'
  <2>1. ASSUME NEW u \in Threads
        PROVE  /\ at'[u].phase \in {"unlink", "unlinkHandler"} => at'[u].bundle \in Unlinks
               /\ at'[u].phase \in {"handler", "unlinkHandler"} => Handler
    BY <1>1, <1>2 DEF BoundInv, UnlinksInv
  <2> QED
    BY <2>1 DEF UnlinksInv
<1>6. UnreferencedInv'
  <2> SUFFICES ASSUME Phase' = "unlink", Bundle' \notin private
               PROVE  \A m \in DOMAIN state : Defines[Bundle'] \cap ToSet(Needs[m]) = {}
    BY <1>1 DEF UnreferencedInv
  <2>1. PICK b : b = at[t].bundle
    OBVIOUS
  <2>2. at[t].phase = "unlinkHandler" /\ b \notin private
    BY <1>1, <2>1
  <2>3. Handler /\ b \in Unlinks
    BY <2>1, <2>2 DEF BoundInv, UnlinksInv
  <2>4. b \in Bundles /\ b \in ToSet(objects)
    BY <1>0, <2>1, <2>2 DEF LinkInv, BundlesInv, FramesInv
  <2>5. \E o \in LinkOptions : ~o[2]
    BY <2>2, <2>4 DEF BoundInv, PrivateInv
  <2>6. DOMAIN state \subseteq AllModules
    BY <1>0, LoadedAreModules DEF TypeInv
  <2>7. \A m \in DOMAIN state : Defines[b] \cap ToSet(Needs[m]) = {}
    BY <2>3, <2>5, <2>6 DEF UnlinksSafely
  <2> QED
    BY <1>1, <2>1, <2>7
<1>7. PrivateInv'
  BY <1>1 DEF BoundInv, PrivateInv
<1> QED
  BY <1>3, <1>4, <1>5, <1>6, <1>7 DEF BoundInv

(* The end of a link binds nothing.                                          *)
LEMMA EndOfLinkBound ==
  ASSUME BoundInv, NEW t \in Threads, EndOfLink(t), LinkInv'
  PROVE  BoundInv'
<1>0. TypeInv /\ FramesInv /\ LinkInv
  BY DEF BoundInv, LinkInv, BaseInv
<1>1. /\ holder = t /\ at[t].phase = "report" /\ undefined = << >> /\ Leave(t, libs)
      /\ UNCHANGED <<objects, private, state, undefined, beingLinked, bound>>
  BY DEF EndOfLink, In, lists
<1>2. Phase = "report"
  BY <1>0, <1>1, InsideIs
<1>3. /\ Phase' = "out" /\ ~returnOnError' /\ at'[t] = Out
      /\ \A u \in Threads \ {t} : at'[u] = at[u]
  BY <1>0, <1>1, Left
<1>4. SoundInv' /\ PointersInv' /\ ListedInv' /\ SinceInv'
  BY <1>1, <1>2, <1>3, PointersKept
<1>5. SettledInv'
  <2>1. Asked' = {}
    BY <1>1 DEF Asked, ToSet
  <2> QED
    BY <1>3, <2>1 DEF SettledInv
<1>6. UnlinksInv'
  BY <1>3, UnlinksKept DEF Out
<1>7. UnreferencedInv' /\ PrivateInv'
  BY <1>1, <1>3 DEF BoundInv, UnreferencedInv, PrivateInv
<1> QED
  BY <1>4, <1>5, <1>6, <1>7 DEF BoundInv

(* A symbol is bound by name.                                                *)
LEMMA BindByNameBound ==
  ASSUME BoundInv, NEW t \in Threads, NEW s \in ByName, BindByName(t, s), LinkInv'
  PROVE  BoundInv'
<1>0. TypeInv /\ FramesInv /\ ReturnInv /\ LinkInv
  BY DEF BoundInv, LinkInv, BaseInv
<1>1. /\ Enter(t, "resolve", None)
      /\ UNCHANGED <<returnOnError, objects, private, libs, state, beingLinked, bound>>
  BY DEF BindByName, images
<1>2. /\ holder = None /\ Phase = "out" /\ Phase' = "resolve"
      /\ at'[t] = [phase |-> "resolve", bundle |-> None]
      /\ \A u \in Threads \ {t} : at'[u] = at[u]
  BY <1>0, <1>1, Entered
<1>3. ~returnOnError
  BY <1>0, <1>2 DEF ReturnInv
<1>4. SoundInv' /\ PointersInv' /\ ListedInv' /\ SinceInv'
  BY <1>1, <1>2, <1>3, PointersKept
<1>5. SettledInv' /\ UnreferencedInv'
  BY <1>2 DEF SettledInv, UnreferencedInv
<1>6. UnlinksInv'
  BY <1>2, UnlinksKept
<1>7. PrivateInv'
  BY <1>1 DEF BoundInv, PrivateInv
<1> QED
  BY <1>4, <1>5, <1>6, <1>7 DEF BoundInv

(* The symbols of a bundle that is to be unlinked become undefined.          *)
LEMMA UnlinkModuleBound ==
  ASSUME UnlinksSafely, BoundInv, NEW t \in Threads, NEW b \in Unlinks,
         UnlinkModule(t, b), LinkInv'
  PROVE  BoundInv'
<1> DEFINE r == [i \in DOMAIN Referenced(b) |-> Entry(Referenced(b)[i])]
<1>0. TypeInv /\ FramesInv /\ ReturnInv /\ LinkInv /\ b \in Bundles
  BY LinkAssumption DEF BoundInv, LinkInv, BaseInv
<1>1. /\ Enter(t, "unlink", b) /\ b \in ToSet(objects)
      /\ undefined' = IF b \in private THEN undefined ELSE undefined \o r
      /\ UNCHANGED <<returnOnError, objects, private, libs, state, beingLinked, bound>>
  BY DEF UnlinkModule, images
<1>2. /\ holder = None /\ Phase = "out" /\ Phase' = "unlink" /\ Bundle' = b
      /\ at'[t] = [phase |-> "unlink", bundle |-> b]
      /\ \A u \in Threads \ {t} : at'[u] = at[u]
  BY <1>0, <1>1, Entered
<1>3. ~returnOnError
  BY <1>0, <1>2 DEF ReturnInv
<1>4. /\ r \in Seq(Unres)
      /\ \A e \in ToSet(r) : e.sym \in ToSet(Referenced(b))
      /\ \A s \in ToSet(Referenced(b)) :
           s \in Defines[b] /\ \E m \in Loaded(objects, libs) : s \in ToSet(Needs[m])
      /\ \A s \in Defines[b] :
           (\E m \in Loaded(objects, libs) :
              s \in ToSet(Needs[m]) /\ (m \in Objects \/ Linked(m)))
             => s \in ToSet(Referenced(b))
  BY <1>0, ReferencedElements
<1>5. ToSet(Referenced(b)) # {} => ToSet(r) # {}
  BY DEF ToSet
<1> HIDE DEF r
<1>6. ToSet(undefined \o r) = ToSet(undefined) \cup ToSet(r)
  <2>1. undefined \in Seq(Unres)
    BY <1>0 DEF TypeInv
  <2> QED
    BY <1>4, <2>1, ConcatElements
<1>7. DOMAIN state = Loaded(objects, libs) /\ DOMAIN state \subseteq AllModules
  BY <1>0, LoadedAreModules DEF TypeInv
<1>8. SoundInv' /\ PointersInv' /\ ListedInv' /\ SinceInv'
  BY <1>1, <1>2, <1>3, PointersKept
<1>9. SettledInv'
  <2> SUFFICES ASSUME b \in private \/ Handler
               PROVE  \A s \in Asked' : ~Provided(s)'
    BY <1>1, <1>2 DEF SettledInv
  <2>1. ToSet(undefined') = ToSet(undefined)
    <3>1. CASE b \in private
      BY <1>1, <3>1
    <3>2. CASE b \notin private
      <4>1. \E o \in LinkOptions : ~o[2]
        BY <1>0, <1>1, <3>2 DEF BoundInv, PrivateInv
      <4>2. \A m \in AllModules : Defines[b] \cap ToSet(Needs[m]) = {}
        BY <3>2, <4>1 DEF UnlinksSafely
      <4>3. ToSet(Referenced(b)) = {}
        BY <1>4, <1>7, <4>2
      <4>4. ToSet(r) = {}
        BY <1>4, <4>3
      <4> QED
        BY <1>1, <1>6, <3>2, <4>4
    <3> QED
      BY <3>1, <3>2
  <2>2. Asked' = Asked
    BY <2>1 DEF Asked
  <2>3. \A s : Provided(s)' <=> Provided(s)
    BY <1>1, <1>2 DEF Provided, Hidden, LookupPast, Linked
  <2>4. \A s \in Asked : ~Provided(s)
    BY <1>2 DEF BoundInv, SettledInv
  <2> QED
    BY <2>2, <2>3, <2>4
<1>10. UnlinksInv'
  BY <1>2 DEF BoundInv, UnlinksInv
<1>11. UnreferencedInv'
  <2> SUFFICES ASSUME b \notin private, undefined' = << >>
               PROVE  \A m \in DOMAIN state :
                        Linked(m) => Defines[b] \cap ToSet(Needs[m]) = {}
    BY <1>1, <1>2 DEF UnreferencedInv, Linked
  <2>1. ToSet(undefined') = {}
    BY DEF ToSet
  <2>2. ToSet(r) = {}
    BY <1>1, <1>6, <2>1
  <2>3. ToSet(Referenced(b)) = {}
    BY <1>5, <2>2
  <2> QED
    BY <1>4, <1>7, <2>3
<1>12. PrivateInv'
  BY <1>1 DEF BoundInv, PrivateInv
<1> QED
  BY <1>8, <1>9, <1>10, <1>11, <1>12 DEF BoundInv

(* The bundle goes, and nothing points to it: it was private, or nothing is  *)
(* undefined without it.                                                     *)
LEMMA EndOfUnlinkBound ==
  ASSUME BoundInv, NEW t \in Threads, EndOfUnlink(t), LinkInv'
  PROVE  BoundInv'
<1> DEFINE b    == at[t].bundle
           objs == WithoutBundle(objects, b)
<1>0. TypeInv /\ FramesInv /\ ReturnInv /\ LinkInv /\ TypeInv'
  BY DEF BoundInv, LinkInv, BaseInv
<1>1. /\ Phase = "unlink" /\ b \in Bundles /\ b = Bundle
      /\ b \in private \/ undefined = << >>
      /\ Phase' = "out" /\ ~returnOnError'
      /\ at'[t] = Out /\ \A u \in Threads \ {t} : at'[u] = at[u]
      /\ ToSet(objs) \ {None} = ToSet(objects) \ {None, b}
      /\ Loaded(objs, libs) = Loaded(objects, libs) \ {b}
      /\ objects' = objs /\ libs' = libs
      /\ private' = private \cap Loaded(objs, libs)
      /\ DOMAIN state' = Loaded(objs, libs)
      /\ \A m \in Loaded(objs, libs) : state'[m] = state[m]
      /\ bound' = [m \in Loaded(objs, libs) |-> bound[m]]
      /\ UNCHANGED <<undefined, beingLinked>>
  BY <1>0, Unlinked
<1>2. DOMAIN state = Loaded(objects, libs) /\ DOMAIN bound = Loaded(objects, libs)
  BY <1>0 DEF TypeInv
<1> HIDE DEF b, objs
<1>3. SoundInv'
  <2> SUFFICES ASSUME NEW m \in DOMAIN state', state'[m] = "RELOCATED",
                      NEW s \in DOMAIN bound'[m]
               PROVE  /\ bound'[m][s] \in DOMAIN state' \ private'
                      /\ state'[bound'[m][s]] \in {"BEING_LINKED", "RELOCATED"}
    BY DEF SoundInv, Sound
  <2>1. /\ m \in DOMAIN state /\ state[m] = "RELOCATED"
        /\ bound'[m] = bound[m] /\ s \in DOMAIN bound[m]
    BY <1>1, <1>2
  <2>2. PICK n : n = bound[m][s]
    OBVIOUS
  <2>3. n \in DOMAIN state \ private /\ state[n] \in {"BEING_LINKED", "RELOCATED"}
    BY <2>1, <2>2 DEF BoundInv, SoundInv, Sound
  <2>4. n # b
    <3>1. CASE b \in private
      BY <2>3, <3>1
    <3>2. CASE b \notin private /\ undefined = << >>
      <4>1. Defines[b] \cap ToSet(Needs[m]) = {}
        BY <1>1, <2>1, <3>2 DEF BoundInv, UnreferencedInv, Linked
      <4>2. s \in ToSet(Needs[m]) /\ s \in Defines[n]
        BY <1>2, <2>1, <2>2 DEF BoundInv, PointersInv
      <4> QED
        BY <4>1, <4>2
    <3> QED
      BY <1>1, <3>1, <3>2
  <2>5. n \in Loaded(objs, libs)
    BY <1>1, <1>2, <2>3, <2>4
  <2> QED
    BY <1>1, <2>1, <2>2, <2>3, <2>5
<1>4. PointersInv'
  BY <1>1, <1>2 DEF BoundInv, PointersInv
<1>5. ListedInv'
  <2>1. beingLinked = << >>
    BY <1>0, <1>1 DEF LinkInv, ListsInv
  <2> QED
    BY <1>1, <2>1 DEF ListedInv, ToSet
<1>6. SettledInv'
  <2>1. Asked' = Asked
    BY <1>1 DEF Asked
  <2>2. CASE undefined = << >>
    <3>1. Asked = {}
      BY <2>2 DEF Asked, ToSet
    <3> QED
      BY <1>1, <2>1, <3>1 DEF SettledInv
  <2>3. CASE b \in private
    <3>1. \A s \in Asked : ~Provided(s)
      BY <1>1, <2>3 DEF BoundInv, SettledInv
    <3>2. Hidden = {} /\ Hidden' = {}
      BY <1>1 DEF Hidden
    <3>3. /\ DOMAIN objs = DOMAIN objects
          /\ \A i \in DOMAIN objects : objs[i] = IF objects[i] = b THEN None ELSE objects[i]
      BY DEF WithoutBundle, objs
    <3>4. ASSUME NEW i \in DOMAIN objects, objects[i] \notin {b, None}
          PROVE  objs[i] = objects[i] /\ (objects[i] \in private' <=> objects[i] \in private)
      <4>1. objs[i] = objects[i] /\ objects[i] \in ToSet(objects)
        BY <3>3, <3>4 DEF ToSet
      <4>2. objects[i] \in Loaded(objs, libs)
        BY <1>1, <3>4, <4>1 DEF Loaded
      <4> QED
        BY <1>1, <4>1, <4>2
    <3>5. \A m \in Loaded(objects', libs') :
            state'[m] # "UNLINKED" => m \in Loaded(objects, libs) /\ Linked(m)
      <4>1. \A m \in Loaded(objects, libs) : state[m] \in LinkStates
        BY <1>0 DEF TypeInv
      <4> QED
        BY <1>1, <4>1 DEF Linked, LinkStates
    <3>6. Len(libs) <= Len(libs') /\ \A i \in 1 .. Len(libs) : libs'[i].lib = libs[i].lib
      BY <1>0, <1>1 DEF TypeInv
    <3>7. ASSUME NEW s \in Asked, Provided(s)'
          PROVE  Provided(s)
      <4>1. /\ ObjectPlaces(objects', private' \cup Hidden', s)
                 = ObjectPlaces(objects, private \cup Hidden, s)
            /\ \A i \in ObjectPlaces(objects, private \cup Hidden, s) : objects'[i] = objects[i]
        BY <1>1, <2>3, <3>2, <3>3, <3>4 DEF ObjectPlaces
      <4> QED
        BY <1>0, <3>5, <3>6, <3>7, <4>1, ProvidedBefore
    <3> QED
      BY <1>1, <2>1, <3>1, <3>7 DEF SettledInv
  <2> QED
    BY <1>1, <2>2, <2>3
<1>7. UnlinksInv'
  BY <1>1, UnlinksKept DEF Out
<1>8. UnreferencedInv' /\ SinceInv'
  BY <1>1 DEF UnreferencedInv, SinceInv
<1>9. PrivateInv'
  <2>1. ASSUME NEW o \in ToSet(objs) \cap Bundles
        PROVE  o \in ToSet(objects) \cap Bundles /\ o \in Loaded(objs, libs)
    <3>1. o # None
      BY LinkAssumption DEF Objects, AllModules
    <3>2. o \in ToSet(objs) \ {None}
      BY <3>1
    <3> QED
      BY <1>1, <3>2 DEF Loaded
  <2> QED
    BY <1>1, <2>1 DEF BoundInv, PrivateInv
<1> QED
  BY <1>3, <1>4, <1>5, <1>6, <1>7, <1>8, <1>9 DEF BoundInv

(* At first nothing is bound.                                                *)
LEMMA BoundInit ==
  ASSUME Init
  PROVE  BoundInv
<1>1. LinkInv /\ TypeInv
  BY LinkInit DEF LinkInv, BaseInv
<1>2. /\ holder = None /\ returnOnError = FALSE /\ Phase = "out"
      /\ undefined = << >> /\ beingLinked = << >>
      /\ objects = <<Executable>>
      /\ \A t \in Threads : at[t].phase = "out"
      /\ \A m \in DOMAIN state : bound[m] = << >>
      /\ DOMAIN bound = DOMAIN state
  BY DEF Init, Phase, Out
<1>3. SoundInv /\ PointersInv
  BY <1>2 DEF SoundInv, Sound, PointersInv
<1>4. ListedInv /\ SettledInv
  BY <1>2 DEF ListedInv, SettledInv, Asked, ToSet
<1>5. UnlinksInv /\ UnreferencedInv /\ SinceInv
  BY <1>2 DEF UnlinksInv, UnreferencedInv, SinceInv
<1>6. PrivateInv
  <2>1. ToSet(objects) = {Executable}
    BY <1>2 DEF ToSet
  <2> QED
    BY <2>1, LinkAssumption DEF PrivateInv
<1> QED
  BY <1>1, <1>3, <1>4, <1>5, <1>6 DEF BoundInv

(* Every step keeps what is said of what is bound.                           *)
LEMMA BoundStep ==
  ASSUME UnlinksSafely, BoundInv, [Next]_vars
  PROVE  BoundInv'
<1>0. LinkInv /\ LinkInv'
  BY LinkStep DEF BoundInv
<1>1. CASE UNCHANGED vars
  <2>1. UNCHANGED <<holder, returnOnError, objects, private, libs, state, undefined,
                    beingLinked, bound, at, before>>
    BY <1>1 DEF vars, images, lists
  <2> QED
    BY <1>0, <2>1, NothingBound
<1>2. ASSUME NEW t \in Threads, Call(t) \/ Step(t) \/ HandlerReturns(t)
      PROVE  BoundInv'
  <2>1. ASSUME NEW b \in Bundles, NEW o \in LinkOptions,
               LinkModule(t, b, o[1], o[2]) \/ LinkWithMissing(t, b, o[1])
        PROVE  BoundInv'
    <3>1. o[1] \in BOOLEAN /\ o[2] \in BOOLEAN /\ ((\A q \in LinkOptions : q[2]) => o[2])
      BY LinkAssumption
    <3> QED
      BY <1>0, <2>1, <3>1, LinkModuleBound, LinkWithMissingBound
  <2>2. ASSUME NEW b \in Unlinks, UnlinkModule(t, b)
        PROVE  BoundInv'
    BY <1>0, <2>2, UnlinkModuleBound
  <2>3. CASE Call(t)
    BY <1>0, <2>1, <2>2, <2>3, BindByNameBound DEF Call
  <2>4. CASE Step(t)
    <3>1. CASE Spin(t)
      BY <1>1, <3>1 DEF Spin
    <3> QED
      BY <1>0, <2>4, <3>1, LinkObjectBound, LinkObjectFailsBound, ResolveBound, ResolvedBound,
         BackOutBound, BackOutForeverBound, RelocateBound, CallHandlerBound, EndOfLinkBound,
         EndOfUnlinkBound DEF Step
  <2> QED
    BY <1>0, <1>2, <2>3, <2>4, HandlerReturnsBound
<1> QED
  BY <1>1, <1>2 DEF Next, Stopped

(* The invariant of what is bound: what is in use points to what defines the *)
(* symbol, is linked and is not private, and what was in use before a link   *)
(* that may fail points to nothing that the link has brought.                *)
THEOREM BoundInvariant == UnlinksSafely => (Spec => []BoundInv)
<1> SUFFICES ASSUME UnlinksSafely
             PROVE  Spec => []BoundInv
  OBVIOUS
<1>1. BoundInv /\ [Next]_vars => BoundInv'
  BY BoundStep
<1> QED
  BY <1>1, BoundInit, PTL DEF Spec

(* Whatever is unlinked or backed out, what a module in use points to is     *)
(* there and linked (unload_bundle_image, clear_state_changes_to_the_modules *)
(* and unload_remove_on_error_libraries leave no pointer behind).            *)
THEOREM BoundStayLoadedHolds == UnlinksSafely => (Spec => []BoundStayLoaded)
<1> SUFFICES ASSUME UnlinksSafely
             PROVE  Spec => []BoundStayLoaded
  OBVIOUS
<1>1. BoundInv => BoundStayLoaded
  BY DEF BoundInv, SoundInv, Sound, BoundStayLoaded, Linked
<1>2. Spec => []BoundInv
  BY BoundInvariant
<1> QED
  BY <1>1, <1>2, PTL

(* What handlers are asked for no linked module defines, it stays on the     *)
(* list whatever they do, and for each module that is left half bound there  *)
(* is one.                                                                   *)
THEOREM UndefinedIsWhatIsMissingHolds == UnlinksSafely => (Spec => []UndefinedIsWhatIsMissing)
<1> SUFFICES ASSUME UnlinksSafely
             PROVE  Spec => []UndefinedIsWhatIsMissing
  OBVIOUS
<1>1. ASSUME BoundInv
      PROVE  UndefinedIsWhatIsMissing
  <2> SUFFICES ASSUME holder = None
               PROVE  /\ \A i \in DOMAIN undefined :
                           /\ ~undefined[i].remove
                           /\ Found(i) => ~Linked(Lookup(undefined[i].sym))
                      /\ \A m \in DOMAIN state : state[m] = "BEING_LINKED" =>
                           \E i \in DOMAIN undefined : undefined[i].sym \in ToSet(Needs[m])
    BY DEF UndefinedIsWhatIsMissing
  <2>1. Phase = "out"
    BY DEF Phase
  <2>2. ~returnOnError
    BY <1>1 DEF BoundInv, LinkInv, BaseInv, ReturnInv
  <2>3. ASSUME NEW i \in DOMAIN undefined
        PROVE  /\ ~undefined[i].remove
               /\ Found(i) => ~Linked(Lookup(undefined[i].sym))
    <3>1. undefined[i] \in ToSet(undefined)
      BY DEF ToSet
    <3>2. undefined[i].sym \in Asked
      BY <3>1 DEF Asked
    <3>3. ~There(undefined[i].sym)
      <4>1. ~Provided(undefined[i].sym)
        BY <1>1, <2>1, <3>2 DEF BoundInv, SettledInv
      <4>2. Hidden = {}
        BY <2>1 DEF Hidden
      <4> QED
        BY <4>1, <4>2, ProvidedIsThere
    <3>4. ~undefined[i].remove
      BY <1>1, <2>2, <3>1 DEF BoundInv, LinkInv, ListsInv
    <3> QED
      BY <3>3, <3>4 DEF Found, There
  <2>4. ASSUME NEW m \in DOMAIN state, state[m] = "BEING_LINKED"
        PROVE  \E i \in DOMAIN undefined : undefined[i].sym \in ToSet(Needs[m])
    <3>1. ToSet(Needs[m]) \cap Asked # {}
      BY <1>1, <2>1, <2>4 DEF BoundInv, LinkInv, WaitingInv, AskedForInv
    <3> QED
      BY <3>1 DEF Asked, ToSet
  <2> QED
    BY <2>3, <2>4
<1>2. Spec => []BoundInv
  BY BoundInvariant
<1> QED
  BY <1>1, <1>2, PTL
================================================================================
