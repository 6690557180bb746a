---------------------------- MODULE SequenceLemmas ----------------------------
(***************************************************************************)
(* What the operators on sequences and sets of numbers return that the     *)
(* modules keep lists with, for the proofs about those modules.  Facts     *)
(* that need induction follow from the least number of a set of numbers.   *)
(***************************************************************************)
EXTENDS Naturals, Sequences, SequencesExt, FiniteSets, FiniteSetsExt, Functions,
        WellFoundedInduction, FiniteSetTheorems, TLAPS

(* A set of natural numbers that is not empty has a least member, and Min    *)
(* returns it.                                                               *)
LEMMA MinIsLeast ==
  ASSUME NEW S \in SUBSET Nat, S # {}
  PROVE  Min(S) \in S /\ \A n \in S : Min(S) <= n
<1> DEFINE Less == OpToRel(<, Nat)
<1>1. IsWellFoundedOn(Less, Nat)
  BY NatLessThanWellFounded
<1>2. \A m, n \in Nat : <<m, n>> \in Less <=> m < n
  BY DEF OpToRel
<1> HIDE DEF Less
<1>3. \E m \in S : \A n \in S : ~ (<<n, m>> \in Less)
  BY <1>1, WFMin
<1>4. \E m \in S : \A n \in S : ~ (n < m)
  BY <1>2, <1>3
<1>5. \E m \in S : \A n \in S : m <= n
  BY <1>4
<1> QED
  BY <1>5 DEF Min

(* A set of numbers up to a bound has a greatest, which Max returns.         *)
LEMMA MaxIsGreatest ==
  ASSUME NEW n \in Nat, NEW S \in SUBSET (0 .. n), S # {}
  PROVE  Max(S) \in S /\ \A i \in S : i <= Max(S)
<1> DEFINE rest == {n - i : i \in S}
<1>1. rest \in SUBSET Nat /\ rest # {}
  <2>1. \A i \in S : n - i \in Nat
    OBVIOUS
  <2>2. PICK i \in S : TRUE
    OBVIOUS
  <2>3. n - i \in rest
    BY <2>2
  <2> QED
    BY <2>1, <2>3
<1>2. Min(rest) \in rest /\ \A k \in rest : Min(rest) <= k
  BY <1>1, MinIsLeast
<1>3. PICK m \in S : Min(rest) = n - m
  BY <1>2
<1>4. ASSUME NEW i \in S
      PROVE  m >= i
  <2>1. n - m <= n - i
    BY <1>2, <1>3
  <2> QED
    BY <2>1
<1>5. \E x \in S : \A y \in S : x >= y
  BY <1>4
<1> QED
  BY <1>5 DEF Max

(* RemoveAt takes one element out and keeps the order of the others.         *)
LEMMA RemoveAtElements ==
  ASSUME NEW S, NEW s \in Seq(S), NEW i \in DOMAIN s
  PROVE  /\ RemoveAt(s, i) \in Seq(S)
         /\ Len(RemoveAt(s, i)) = Len(s) - 1
         /\ \A j \in 1 .. Len(s) - 1 :
              RemoveAt(s, i)[j] = IF j < i THEN s[j] ELSE s[j + 1]
<1> DEFINE front == SubSeq(s, 1, i - 1)
           back  == SubSeq(s, i + 1, Len(s))
<1>1. i \in 1 .. Len(s) /\ Len(s) \in Nat
  OBVIOUS
<1>2. /\ front \in Seq(S) /\ Len(front) = i - 1
      /\ \A j \in 1 .. i - 1 : front[j] = s[j]
  BY <1>1
<1>3. /\ back \in Seq(S) /\ Len(back) = Len(s) - i
      /\ \A j \in 1 .. Len(s) - i : back[j] = s[i + j]
  BY <1>1
<1> HIDE DEF front, back
<1>4. /\ front \o back \in Seq(S)
      /\ Len(front \o back) = Len(s) - 1
      /\ \A j \in 1 .. Len(s) - 1 :
           (front \o back)[j] = IF j < i THEN s[j] ELSE s[j + 1]
  <2>1. /\ front \o back \in Seq(S)
        /\ Len(front \o back) = Len(s) - 1
    BY <1>1, <1>2, <1>3
  <2>2. \A j \in 1 .. Len(s) - 1 :
          (front \o back)[j] = IF j < i THEN front[j] ELSE back[j - (i - 1)]
    BY <1>1, <1>2, <1>3
  <2>3. \A j \in i .. Len(s) - 1 : back[j - (i - 1)] = s[j + 1]
    <3> TAKE j \in i .. Len(s) - 1
    <3>1. j - (i - 1) \in 1 .. Len(s) - i /\ i + (j - (i - 1)) = j + 1
      BY <1>1
    <3> QED
      BY <1>3, <3>1
  <2>4. \A j \in 1 .. Len(s) - 1 : j < i \/ j \in i .. Len(s) - 1
    BY <1>1
  <2>5. \A j \in 1 .. Len(s) - 1 : j < i => j \in 1 .. i - 1
    BY <1>1
  <2> QED
    BY <1>1, <1>2, <2>1, <2>2, <2>3, <2>4, <2>5
<1> QED
  BY <1>4 DEF RemoveAt, front, back

(* Taken out of a list without repetitions, an element is not there any      *)
(* longer, and everything else is, without repetitions.                      *)
LEMMA RemoveAtOfInjective ==
  ASSUME NEW S, NEW s \in Seq(S), IsInjective(s), NEW i \in DOMAIN s
  PROVE  /\ IsInjective(RemoveAt(s, i))
         /\ ToSet(RemoveAt(s, i)) = ToSet(s) \ {s[i]}
<1> DEFINE r == RemoveAt(s, i)
<1>1. /\ r \in Seq(S) /\ Len(r) = Len(s) - 1
      /\ \A j \in 1 .. Len(s) - 1 : r[j] = IF j < i THEN s[j] ELSE s[j + 1]
  BY RemoveAtElements
<1>2. /\ i \in 1 .. Len(s) /\ Len(s) \in Nat
      /\ DOMAIN s = 1 .. Len(s)
      /\ DOMAIN r = 1 .. Len(s) - 1
  BY <1>1
<1> HIDE DEF r
<1>3. IsInjective(r)
  <2> SUFFICES ASSUME NEW j \in DOMAIN r, NEW k \in DOMAIN r, r[j] = r[k]
               PROVE  j = k
    BY DEF IsInjective
  <2> DEFINE place(n) == IF n < i THEN n ELSE n + 1
  <2>1. /\ place(j) \in DOMAIN s /\ r[j] = s[place(j)]
        /\ place(k) \in DOMAIN s /\ r[k] = s[place(k)]
    BY <1>1, <1>2
  <2>2. place(j) = place(k)
    BY <2>1 DEF IsInjective
  <2> QED
    BY <1>2, <2>2
<1>4. ToSet(r) \subseteq ToSet(s) \ {s[i]}
  BY <1>1, <1>2 DEF ToSet, IsInjective
<1>5. ASSUME NEW j \in DOMAIN s, s[j] # s[i]
      PROVE  s[j] \in ToSet(r)
  <2>1. CASE j < i
    BY <1>1, <1>2, <1>5, <2>1 DEF ToSet
  <2>2. CASE j > i
    <3>1. j - 1 \in DOMAIN r /\ r[j - 1] = s[j]
      BY <1>1, <1>2, <2>2
    <3> QED
      BY <3>1 DEF ToSet
  <2> QED
    BY <1>2, <1>5, <2>1, <2>2
<1> QED
  BY <1>3, <1>4, <1>5 DEF ToSet, r

(* An element put at the head of a list is in front of the others, ...       *)
LEMMA ConsPlaces ==
  ASSUME NEW S, NEW s \in Seq(S), NEW e \in S
  PROVE  /\ <<e>> \o s \in Seq(S)
         /\ Len(<<e>> \o s) = Len(s) + 1
         /\ DOMAIN (<<e>> \o s) = 1 .. Len(s) + 1
         /\ (<<e>> \o s)[1] = e
         /\ \A i \in DOMAIN s : i + 1 \in 1 .. Len(s) + 1 /\ (<<e>> \o s)[i + 1] = s[i]
         /\ \A i \in 1 .. Len(s) + 1 :
              i = 1 \/ (i - 1 \in DOMAIN s /\ (<<e>> \o s)[i] = s[i - 1])
<1> DEFINE r == <<e>> \o s
<1>1. /\ r \in Seq(S) /\ Len(r) = Len(s) + 1 /\ DOMAIN r = 1 .. Len(s) + 1
      /\ r[1] = e
      /\ \A j \in 1 .. Len(s) : r[j + 1] = s[j]
  OBVIOUS
<1>2. Len(s) \in Nat /\ DOMAIN s = 1 .. Len(s)
  OBVIOUS
<1> HIDE DEF r
<1>3. \A i \in 1 .. Len(s) + 1 : i = 1 \/ (i - 1 \in DOMAIN s /\ r[i] = s[i - 1])
  <2> TAKE i \in 1 .. Len(s) + 1
  <2>1. i # 1 => i - 1 \in 1 .. Len(s) /\ (i - 1) + 1 = i
    BY <1>2
  <2> QED
    BY <1>1, <1>2, <2>1
<1> QED
  BY <1>1, <1>2, <1>3 DEF r

(* ... and it is in the list once if it was not before.                      *)
LEMMA ConsElements ==
  ASSUME NEW S, NEW s \in Seq(S), NEW e \in S
  PROVE  /\ <<e>> \o s \in Seq(S)
         /\ ToSet(<<e>> \o s) = ToSet(s) \cup {e}
         /\ IsInjective(s) /\ e \notin ToSet(s) => IsInjective(<<e>> \o s)
<1> DEFINE r == <<e>> \o s
<1>1. /\ r \in Seq(S) /\ DOMAIN r = 1 .. Len(s) + 1 /\ r[1] = e
      /\ \A i \in DOMAIN s : i + 1 \in 1 .. Len(s) + 1 /\ r[i + 1] = s[i]
      /\ \A i \in 1 .. Len(s) + 1 : i = 1 \/ (i - 1 \in DOMAIN s /\ r[i] = s[i - 1])
  BY ConsPlaces
<1>2. Len(s) \in Nat /\ DOMAIN s = 1 .. Len(s)
  OBVIOUS
<1> HIDE DEF r
<1>3. ToSet(r) = ToSet(s) \cup {e}
  BY <1>1, <1>2 DEF ToSet
<1>4. ASSUME IsInjective(s), e \notin ToSet(s)
      PROVE  IsInjective(r)
  <2>1. \A i \in DOMAIN s : s[i] # e
    BY <1>4 DEF ToSet
  <2>2. \A i, j \in DOMAIN s : s[i] = s[j] => i = j
    BY <1>4 DEF IsInjective
  <2>3. ASSUME NEW i \in DOMAIN r, NEW j \in DOMAIN r, r[i] = r[j]
        PROVE  i = j
    <3>1. i = 1 <=> j = 1
      BY <1>1, <2>1, <2>3
    <3>2. CASE i # 1
      <4>1. i - 1 = j - 1
        BY <1>1, <2>2, <2>3, <3>1, <3>2
      <4> QED
        BY <1>1, <1>2, <2>3, <4>1
    <3> QED
      BY <3>1, <3>2
  <2> QED
    BY <2>3 DEF IsInjective
<1> QED
  BY <1>1, <1>3, <1>4 DEF r

(* An element at the end of a list                                           *)
LEMMA AppendElements ==
  ASSUME NEW S, NEW s \in Seq(S), NEW e \in S
  PROVE  Append(s, e) \in Seq(S) /\ ToSet(Append(s, e)) = ToSet(s) \cup {e}
<1> DEFINE r == Append(s, e)
<1>1. /\ r \in Seq(S) /\ DOMAIN r = 1 .. Len(s) + 1 /\ r[Len(s) + 1] = e
      /\ \A i \in 1 .. Len(s) : r[i] = s[i]
  OBVIOUS
<1>2. Len(s) \in Nat /\ DOMAIN s = 1 .. Len(s)
  OBVIOUS
<1> HIDE DEF r
<1>3. \A i \in DOMAIN r : i = Len(s) + 1 \/ i \in DOMAIN s
  BY <1>1, <1>2
<1>4. ToSet(r) \subseteq ToSet(s) \cup {e}
  BY <1>1, <1>2, <1>3 DEF ToSet
<1>5. ToSet(s) \cup {e} \subseteq ToSet(r)
  BY <1>1, <1>2 DEF ToSet
<1> QED
  BY <1>1, <1>4, <1>5 DEF r

(* The head taken off, the others move up.                                   *)
LEMMA TailPlaces ==
  ASSUME NEW S, NEW s \in Seq(S), s # << >>
  PROVE  /\ Tail(s) \in Seq(S)
         /\ Len(Tail(s)) = Len(s) - 1
         /\ DOMAIN Tail(s) = 1 .. Len(s) - 1
         /\ Head(s) = s[1] /\ 1 \in DOMAIN s
         /\ \A i \in DOMAIN Tail(s) : i + 1 \in DOMAIN s /\ Tail(s)[i] = s[i + 1]
         /\ \A i \in DOMAIN s :
              i = 1 \/ (i - 1 \in DOMAIN Tail(s) /\ Tail(s)[i - 1] = s[i])
<1> DEFINE r == Tail(s)
<1>1. /\ r \in Seq(S) /\ Len(r) = Len(s) - 1
      /\ \A i \in 1 .. Len(s) - 1 : r[i] = s[i + 1]
  OBVIOUS
<1>2. Len(s) \in Nat /\ Len(s) # 0 /\ DOMAIN s = 1 .. Len(s) /\ Head(s) = s[1]
  OBVIOUS
<1>a. DOMAIN r = 1 .. Len(s) - 1
  BY <1>1
<1> HIDE DEF r
<1>3. \A i \in DOMAIN s : i = 1 \/ (i - 1 \in DOMAIN r /\ r[i - 1] = s[i])
  <2> TAKE i \in DOMAIN s
  <2>1. i # 1 => i - 1 \in 1 .. Len(s) - 1 /\ (i - 1) + 1 = i
    BY <1>2
  <2> QED
    BY <1>1, <1>2, <1>a, <2>1
<1> QED
  BY <1>1, <1>2, <1>a, <1>3 DEF r

(* ... and are all that is in the list but for the head.                     *)
LEMMA TailElements ==
  ASSUME NEW S, NEW s \in Seq(S), s # << >>
  PROVE  /\ Head(s) \in S /\ Tail(s) \in Seq(S)
         /\ ToSet(s) = {Head(s)} \cup ToSet(Tail(s))
<1> DEFINE r == Tail(s)
<1>1. /\ r \in Seq(S)
      /\ Head(s) = s[1] /\ 1 \in DOMAIN s
      /\ \A i \in DOMAIN r : i + 1 \in DOMAIN s /\ r[i] = s[i + 1]
      /\ \A i \in DOMAIN s : i = 1 \/ (i - 1 \in DOMAIN r /\ r[i - 1] = s[i])
  BY TailPlaces
<1>2. s[1] \in S
  BY <1>1
<1> HIDE DEF r
<1>3. ToSet(r) \subseteq ToSet(s) /\ Head(s) \in ToSet(s)
  BY <1>1 DEF ToSet
<1>4. ToSet(s) \subseteq {Head(s)} \cup ToSet(r)
  <2> SUFFICES ASSUME NEW i \in DOMAIN s PROVE s[i] \in {Head(s)} \cup ToSet(r)
    BY DEF ToSet
  <2>1. CASE i = 1
    BY <1>1, <2>1
  <2>2. CASE i # 1
    <3>1. i - 1 \in DOMAIN r /\ s[i] = r[i - 1]
      BY <1>1, <2>2
    <3> QED
      BY <3>1 DEF ToSet
  <2> QED
    BY <2>1, <2>2
<1>5. ToSet(s) = {Head(s)} \cup ToSet(r) /\ Head(s) \in S
  BY <1>1, <1>2, <1>3, <1>4
<1> QED
  BY <1>1, <1>5 DEF r

(* Two lists put together have the elements of both.                         *)
LEMMA ConcatElements ==
  ASSUME NEW S, NEW s \in Seq(S), NEW u \in Seq(S)
  PROVE  s \o u \in Seq(S) /\ ToSet(s \o u) = ToSet(s) \cup ToSet(u)
<1> DEFINE r == s \o u
<1>1. /\ r \in Seq(S) /\ DOMAIN r = 1 .. Len(s) + Len(u)
      /\ \A i \in 1 .. Len(s) : r[i] = s[i]
      /\ \A i \in 1 .. Len(u) : r[Len(s) + i] = u[i]
  OBVIOUS
<1>2. /\ Len(s) \in Nat /\ DOMAIN s = 1 .. Len(s)
      /\ Len(u) \in Nat /\ DOMAIN u = 1 .. Len(u)
  OBVIOUS
<1> HIDE DEF r
<1>3. ToSet(r) \subseteq ToSet(s) \cup ToSet(u)
  <2> SUFFICES ASSUME NEW i \in DOMAIN r PROVE r[i] \in ToSet(s) \cup ToSet(u)
    BY DEF ToSet
  <2>1. CASE i <= Len(s)
    BY <1>1, <1>2, <2>1 DEF ToSet
  <2>2. CASE i > Len(s)
    <3>1. i - Len(s) \in 1 .. Len(u) /\ Len(s) + (i - Len(s)) = i
      BY <1>1, <1>2, <2>2
    <3>2. r[i] = u[i - Len(s)]
      BY <1>1, <3>1
    <3> QED
      BY <1>2, <3>1, <3>2 DEF ToSet
  <2> QED
    BY <1>1, <1>2, <2>1, <2>2
<1>4. ToSet(s) \subseteq ToSet(r)
  BY <1>1, <1>2 DEF ToSet
<1>5. ToSet(u) \subseteq ToSet(r)
  <2> SUFFICES ASSUME NEW i \in DOMAIN u PROVE u[i] \in ToSet(r)
    BY DEF ToSet
  <2>1. Len(s) + i \in DOMAIN r /\ r[Len(s) + i] = u[i]
    BY <1>1, <1>2
  <2> QED
    BY <2>1 DEF ToSet
<1> QED
  BY <1>1, <1>3, <1>4, <1>5 DEF r

(* What the recursion of FlattenSeq computes, place by place.                *)
LEMMA FlattenRecursion ==
  ASSUME NEW S, NEW ss \in Seq(Seq(S)), ss # << >>
  PROVE  \E f : /\ f = [i \in 1 .. Len(ss) |->
                          IF i = 1 THEN ss[i] ELSE f[i - 1] \o ss[i]]
                /\ FlattenSeq(ss) = f[Len(ss)]
<1> DEFINE step(g, i) == IF i = 1 THEN ss[i] ELSE g[i - 1] \o ss[i]
           upTo(n)    == \E g : g = [i \in 1 .. n |-> step(g, i)]
           bad        == {n \in Nat : ~upTo(n)}
<1>1. upTo(0)
  <2> DEFINE g == << >>
  <2>1. 1 .. 0 = {}
    OBVIOUS
  <2>2. g = [i \in 1 .. 0 |-> step(g, i)]
    <3> HIDE DEF step
    <3> QED
      BY <2>1
  <2> QED
    BY <2>2
<1>2. ASSUME NEW n \in Nat, upTo(n)
      PROVE  upTo(n + 1)
  <2>1. PICK g : g = [i \in 1 .. n |-> step(g, i)]
    BY <1>2
  <2> DEFINE h == [i \in 1 .. n + 1 |-> IF i = n + 1 THEN step(g, i) ELSE g[i]]
  <2>2. ASSUME NEW i \in 1 .. n + 1
        PROVE  h[i] = step(h, i)
    <3>1. step(h, i) = step(g, i)
      <4>1. CASE i = 1
        BY <4>1
      <4>2. CASE i # 1
        <5>1. i - 1 \in 1 .. n + 1 /\ i - 1 # n + 1
          BY <4>2
        <5>2. h[i - 1] = g[i - 1]
          BY <5>1
        <5> QED
          BY <5>2
      <4> QED
        BY <4>1, <4>2
    <3>2. h[i] = step(g, i)
      <4>1. CASE i = n + 1
        BY <4>1
      <4>2. CASE i # n + 1
        <5>1. i \in 1 .. n
          BY <4>2
        <5>2. h[i] = g[i]
          BY <4>2
        <5>3. g[i] = step(g, i)
          BY <2>1, <5>1
        <5> QED
          BY <5>2, <5>3
      <4> QED
        BY <4>1, <4>2
    <3> QED
      BY <3>1, <3>2
  <2>3. h = [i \in 1 .. n + 1 |-> step(h, i)]
    <3> HIDE DEF step
    <3> QED
      BY <2>2
  <2> QED
    BY <2>3
<1> HIDE DEF upTo
<1>3. bad = {}
  <2> SUFFICES ASSUME bad # {} PROVE FALSE
    OBVIOUS
  <2> DEFINE m == Min(bad)
  <2>1. m \in bad /\ \A k \in bad : m <= k
    BY MinIsLeast
  <2> HIDE DEF m
  <2>2. m \in Nat /\ m # 0
    BY <1>1, <2>1
  <2>3. m - 1 \in Nat /\ ~(m <= m - 1) /\ (m - 1) + 1 = m
    BY <2>2
  <2>4. upTo(m - 1)
    BY <2>1, <2>3
  <2> QED
    BY <1>2, <2>1, <2>3, <2>4
<1>4. Len(ss) \in Nat /\ Len(ss) # 0
  OBVIOUS
<1>5. upTo(Len(ss))
  BY <1>3, <1>4
<1> DEFINE f == CHOOSE g : g = [i \in 1 .. Len(ss) |-> step(g, i)]
<1>6. f = [i \in 1 .. Len(ss) |-> step(f, i)]
  <2> HIDE DEF step
  <2> QED
    BY <1>5 DEF upTo
<1>7. FlattenSeq(ss) = f[Len(ss)]
  BY <1>4 DEF FlattenSeq
<1> HIDE DEF f
<1> QED
  BY <1>6, <1>7

(* A list of lists, put end to end, has the elements of all of them.         *)
LEMMA FlattenElements ==
  ASSUME NEW S, NEW ss \in Seq(Seq(S))
  PROVE  /\ FlattenSeq(ss) \in Seq(S)
         /\ ToSet(FlattenSeq(ss)) = UNION {ToSet(ss[i]) : i \in DOMAIN ss}
<1>1. CASE ss = << >>
  <2>1. FlattenSeq(ss) = << >>
    BY <1>1 DEF FlattenSeq
  <2>2. FlattenSeq(ss) \in Seq(S) /\ ToSet(FlattenSeq(ss)) = {}
    BY <2>1 DEF ToSet
  <2>3. DOMAIN ss = {}
    BY <1>1
  <2>4. UNION {ToSet(ss[i]) : i \in DOMAIN ss} = {}
    BY <2>3
  <2> QED
    BY <2>2, <2>4
<1>2. CASE ss # << >>
  <2>1. PICK f : /\ f = [i \in 1 .. Len(ss) |->
                          IF i = 1 THEN ss[i] ELSE f[i - 1] \o ss[i]]
                 /\ FlattenSeq(ss) = f[Len(ss)]
    BY <1>2, FlattenRecursion
  <2>2. Len(ss) \in Nat /\ Len(ss) # 0 /\ DOMAIN ss = 1 .. Len(ss)
    BY <1>2
  <2> DEFINE part(n) == UNION {ToSet(ss[i]) : i \in 1 .. n}
             good(n) == f[n] \in Seq(S) /\ ToSet(f[n]) = part(n)
             bad     == {n \in 1 .. Len(ss) : ~good(n)}
  <2>3. good(1)
    <3>1. 1 \in 1 .. Len(ss) /\ 1 .. 1 = {1}
      BY <2>2
    <3>2. f[1] = ss[1] /\ ss[1] \in Seq(S)
      BY <2>1, <2>2, <3>1
    <3>3. part(1) = ToSet(ss[1])
      BY <3>1
    <3> QED
      BY <3>2, <3>3
  <2>4. ASSUME NEW n \in 1 .. Len(ss), n # 1, good(n - 1)
        PROVE  good(n)
    <3>1. f[n] = f[n - 1] \o ss[n]
      BY <2>1, <2>4
    <3>a. ss[n] \in Seq(S)
      BY <2>2
    <3>2. \A i \in 1 .. n : i = n \/ i \in 1 .. n - 1
      BY <2>2
    <3>3. n \in 1 .. n /\ 1 .. n - 1 \subseteq 1 .. n
      BY <2>2
    <3>4. part(n) = part(n - 1) \cup ToSet(ss[n])
      <4> SUFFICES ASSUME NEW x
                   PROVE  x \in part(n) <=> x \in part(n - 1) \/ x \in ToSet(ss[n])
        OBVIOUS
      <4>1. x \in part(n) <=> \E i \in 1 .. n : x \in ToSet(ss[i])
        OBVIOUS
      <4>2. x \in part(n - 1) <=> \E i \in 1 .. n - 1 : x \in ToSet(ss[i])
        OBVIOUS
      <4> HIDE DEF part
      <4> QED
        BY <3>2, <3>3, <4>1, <4>2
    <3> HIDE DEF part
    <3>5. f[n] \in Seq(S) /\ ToSet(f[n]) = ToSet(f[n - 1]) \cup ToSet(ss[n])
      BY <2>4, <3>1, <3>a, ConcatElements
    <3> QED
      BY <2>4, <3>4, <3>5
  <2> HIDE DEF good
  <2>5. bad = {}
    <3> SUFFICES ASSUME bad # {} PROVE FALSE
      OBVIOUS
    <3> DEFINE m == Min(bad)
    <3>1. bad \in SUBSET Nat
      BY <2>2
    <3>2. m \in bad /\ \A k \in bad : m <= k
      BY <3>1, MinIsLeast
    <3> HIDE DEF m
    <3>3. m \in 1 .. Len(ss) /\ m # 1
      BY <2>2, <2>3, <3>2
    <3>4. m - 1 \in 1 .. Len(ss) /\ ~(m <= m - 1)
      BY <2>2, <3>3
    <3>5. good(m - 1)
      BY <3>2, <3>4
    <3> QED
      BY <2>4, <3>2, <3>3, <3>5
  <2>6. good(Len(ss))
    BY <2>2, <2>5
  <2> QED
    BY <2>1, <2>2, <2>6 DEF good
<1> QED
  BY <1>1, <1>2

(* A finite set is listed completely.                                        *)
LEMMA SetToSeqElements ==
  ASSUME NEW S, IsFiniteSet(S)
  PROVE  SetToSeq(S) \in Seq(S) /\ ToSet(SetToSeq(S)) = S
<1> DEFINE n == Cardinality(S)
           q == SetToSeq(S)
<1>1. n \in Nat /\ ExistsBijection(1 .. n, S)
  BY FS_CardinalityType
<1>2. \E f \in [1 .. n -> S] : IsInjective(f)
  BY <1>1 DEF ExistsBijection, Bijection, Injection
<1>3. q \in [1 .. n -> S] /\ IsInjective(q)
  BY <1>2 DEF SetToSeq
<1>4. IsFiniteSet(1 .. n) /\ Cardinality(1 .. n) = n
  BY <1>1, FS_Interval
<1> HIDE DEF q, n
<1>5. q \in Injection(1 .. n, S)
  BY <1>3 DEF Injection
<1>6. q \in Surjection(1 .. n, S)
  BY <1>4, <1>5, FS_Injection DEF n
<1> QED
  BY <1>1, <1>3, <1>6 DEF Surjection, ToSet, q
================================================================================
