-------------------------- MODULE DevicePool_proofs --------------------------
(***************************************************************************)
(* The devices of CPool, for any number of devices, any libraries and      *)
(* ports, and any imposed numbers: the list stays sorted and a new device  *)
(* gets the smallest free number as long as no number is imposed below     *)
(* that of the head; commands, threads and drivers follow the list.        *)
(*                                                                         *)
(* The proofs go by the set of the listed devices: lemmas on InsertAt and  *)
(* RemoveAt say once what a step does to it, and the invariants of the     *)
(* commands and the threads speak of that set only.                        *)
(***************************************************************************)
EXTENDS DevicePool, SequenceTheorems, WellFoundedInduction, TLAPS

(***************************************************************************)
(* Sequences and least elements.                                           *)
(***************************************************************************)
Inserted(s, i, e, r) ==
  /\ r \in Seq(Devices) /\ Len(r) = Len(s) + 1
  /\ \A j \in 1..(Len(s) + 1) :
       r[j] = IF j < i THEN s[j] ELSE IF j = i THEN e ELSE s[j - 1]

\* InsertAt puts e at place i of s.
LEMMA InsertAtElements ==
  ASSUME NEW s \in Seq(Devices), NEW i \in 1..(Len(s) + 1), NEW e \in Devices
  PROVE  Inserted(s, i, e, InsertAt(s, i, e))
<1> DEFINE a == SubSeq(s, 1, i - 1)
           b == SubSeq(s, i, Len(s))
<1>1. a \in Seq(Devices) /\ Len(a) = i - 1 /\ \A j \in 1..(i - 1) : a[j] = s[j]
  OBVIOUS
<1>2. b \in Seq(Devices) /\ Len(b) = Len(s) + 1 - i /\ \A j \in 1..Len(b) : b[j] = s[i + j - 1]
  OBVIOUS
<1> HIDE DEF a, b
<1>3. a \o <<e>> \in Seq(Devices) /\ Len(a \o <<e>>) = i
      /\ (a \o <<e>>)[i] = e /\ \A j \in 1..(i - 1) : (a \o <<e>>)[j] = s[j]
  BY <1>1
<1> DEFINE c == a \o <<e>>
<1> HIDE DEF c
<1>4. c \in Seq(Devices) /\ Len(c) = i /\ c[i] = e /\ \A j \in 1..(i - 1) : c[j] = s[j]
  BY <1>3 DEF c
<1>5. c \o b \in Seq(Devices) /\ Len(c \o b) = Len(s) + 1
      /\ \A j \in 1..(Len(s) + 1) : (c \o b)[j] = IF j <= i THEN c[j] ELSE b[j - i]
  BY <1>2, <1>4
<1>6. InsertAt(s, i, e) = c \o b
  BY DEF InsertAt, a, b, c
<1>7. \A j \in 1..(Len(s) + 1) :
        (c \o b)[j] = IF j < i THEN s[j] ELSE IF j = i THEN e ELSE s[j - 1]
  BY <1>2, <1>4, <1>5
<1> QED
  BY <1>5, <1>6, <1>7 DEF Inserted

LEMMA RemoveAtElements ==
  ASSUME NEW S, NEW s \in Seq(S), NEW i \in 1..Len(s)
  PROVE  LET r == RemoveAt(s, i)
         IN /\ r \in Seq(S) /\ Len(r) = Len(s) - 1
            /\ \A j \in 1..(Len(s) - 1) : r[j] = IF j < i THEN s[j] ELSE s[j + 1]
<1> DEFINE a == SubSeq(s, 1, i - 1)
           b == SubSeq(s, i + 1, Len(s))
<1>1. a \in Seq(S) /\ Len(a) = i - 1 /\ \A j \in 1..(i - 1) : a[j] = s[j]
  OBVIOUS
<1>2. b \in Seq(S) /\ Len(b) = Len(s) - i /\ \A j \in 1..Len(b) : b[j] = s[i + j]
  OBVIOUS
<1> HIDE DEF a, b
<1>3. a \o b \in Seq(S) /\ Len(a \o b) = Len(s) - 1
      /\ \A j \in 1..(Len(s) - 1) : (a \o b)[j] = IF j <= i - 1 THEN a[j] ELSE b[j - (i - 1)]
  <2>1. Len(a) + Len(b) = Len(s) - 1
    BY <1>1, <1>2
  <2>2. /\ a \o b \in Seq(S)
        /\ Len(a \o b) = Len(a) + Len(b)
        /\ \A j \in 1..(Len(a) + Len(b)) :
             (a \o b)[j] = IF j <= Len(a) THEN a[j] ELSE b[j - Len(a)]
    BY <1>1, <1>2, ConcatProperties
  <2>3. Len(a) = i - 1
    BY <1>1
  <2> QED
    BY <2>1, <2>2, <2>3
<1>4. RemoveAt(s, i) = a \o b
  BY DEF RemoveAt, a, b
<1> QED
  <2>1. ASSUME NEW j \in 1..(Len(s) - 1)
        PROVE  (a \o b)[j] = IF j < i THEN s[j] ELSE s[j + 1]
    <3>1. CASE j < i
      BY <1>1, <1>3, <3>1
    <3>2. CASE ~(j < i)
      <4>1. j - (i - 1) \in 1..Len(b) /\ i + (j - (i - 1)) = j + 1
        BY <1>2, <3>2
      <4>2. (a \o b)[j] = b[j - (i - 1)]
        BY <1>3, <3>2
      <4> QED
        BY <1>2, <3>2, <4>1, <4>2
    <3> QED
      BY <3>1, <3>2
  <2> QED
    BY <1>3, <1>4, <2>1

LEMMA MinOfNats ==
  ASSUME NEW T \in SUBSET Nat, T # {}
  PROVE  Min(T) \in T /\ \A y \in T : Min(T) <= y
<1>1. \E x \in T : \A y \in T : x <= y
  <2>1. PICK x \in T : \A y \in T : <<y, x>> \notin OpToRel(<, Nat)
    BY NatLessThanWellFounded, WFMin
  <2>2. \A y \in T : ~(y < x)
    BY <2>1 DEF OpToRel
  <2> QED
    BY <2>2
<1> QED
  BY <1>1 DEF Min
-----------------------------------------------------------------------------
(***************************************************************************)
(* Lists of devices without repetition, and numberings f that increase     *)
(* along them.                                                             *)
(***************************************************************************)
Elems(p) == {p[i] : i \in Positions(p)}

IsList(p) ==
  /\ p \in Seq(Devices)
  /\ \A i, j \in Positions(p) : p[i] = p[j] => i = j

Increasing(p, f) == \A i, j \in Positions(p) : i < j => f[p[i]] < f[p[j]]

LEMMA DeviceRange == \A d : d \in Devices <=> d \in Nat /\ 1 <= d /\ d <= MaxDev
  BY DevicePoolAssumption DEF Devices

LEMMA ListFacts ==
  ASSUME NEW p, IsList(p)
  PROVE  /\ p \in Seq(Devices) /\ Len(p) \in Nat
         /\ \A i : i \in Positions(p) <=> i \in Nat /\ 1 <= i /\ i <= Len(p)
         /\ \A i \in Positions(p) : p[i] \in Devices
         /\ Elems(p) \subseteq Devices
         /\ p = <<>> <=> Len(p) = 0
  BY DEF IsList, Positions, Elems

LEMMA AgreeIncreasing ==
  ASSUME NEW p, NEW f, NEW g, \A d \in Elems(p) : f[d] = g[d], Increasing(p, f)
  PROVE  Increasing(p, g)
  BY DEF Increasing, Elems

\* An element leaves.
LEMMA RemoveList ==
  ASSUME NEW p, IsList(p), NEW i \in Positions(p)
  PROVE  LET q == RemoveAt(p, i)
         IN /\ IsList(q)
            /\ Elems(q) = Elems(p) \ {p[i]}
            /\ \A f : Increasing(p, f) => Increasing(q, f)
<1> DEFINE q == RemoveAt(p, i)
           old(j) == IF j < i THEN j ELSE j + 1
<1>0. i \in 1..Len(p) /\ Len(p) \in Nat /\ p \in Seq(Devices)
  BY ListFacts DEF Positions
<1>1. /\ q \in Seq(Devices) /\ Len(q) = Len(p) - 1
      /\ \A j \in 1..(Len(p) - 1) : q[j] = IF j < i THEN p[j] ELSE p[j + 1]
  BY <1>0, RemoveAtElements
<1> HIDE DEF q
<1>2. \A j \in Positions(q) : old(j) \in Positions(p) /\ old(j) # i /\ q[j] = p[old(j)]
  BY <1>0, <1>1 DEF Positions
<1>3. \A j, k \in Positions(q) : /\ j < k => old(j) < old(k)
                                 /\ old(j) = old(k) => j = k
  BY <1>0, <1>1 DEF Positions
<1>4. \A m \in Positions(p) : m # i => \E j \in Positions(q) : old(j) = m
  <2> SUFFICES ASSUME NEW m \in Positions(p), m # i
               PROVE  \E j \in Positions(q) : old(j) = m
    OBVIOUS
  <2>1. CASE m < i
    <3>1. m \in Positions(q) /\ old(m) = m
      BY <1>0, <1>1, <2>1 DEF Positions
    <3> QED
      BY <3>1
  <2>2. CASE ~(m < i)
    <3>1. m - 1 \in Positions(q) /\ old(m - 1) = m
      BY <1>0, <1>1, <2>2 DEF Positions
    <3> QED
      BY <3>1
  <2> QED
    BY <2>1, <2>2
<1> HIDE DEF old
<1>5. IsList(q)
  BY <1>1, <1>2, <1>3 DEF IsList
<1>6. Elems(q) = Elems(p) \ {p[i]}
  BY <1>2, <1>4 DEF IsList, Elems
<1>7. \A f : Increasing(p, f) => Increasing(q, f)
  BY <1>2, <1>3 DEF Increasing
<1> QED
  BY <1>5, <1>6, <1>7 DEF q

\* An element enters after position s.
LEMMA InsertList ==
  ASSUME NEW p, IsList(p), NEW d \in Devices, d \notin Elems(p), NEW s \in 0..Len(p)
  PROVE  LET q == InsertAt(p, s + 1, d)
         IN /\ IsList(q)
            /\ Elems(q) = Elems(p) \cup {d}
            /\ \A f \in [Devices -> Nat] :
                 /\ Increasing(p, f)
                 /\ \A k \in Positions(p) : k <= s => f[p[k]] < f[d]
                 /\ \A k \in Positions(p) : k > s => f[d] < f[p[k]]
                 => Increasing(q, f)
<1> DEFINE q == InsertAt(p, s + 1, d)
           old(j) == IF j < s + 1 THEN j ELSE j - 1
<1>0. Len(p) \in Nat /\ p \in Seq(Devices) /\ s \in Nat /\ s <= Len(p)
  BY ListFacts
<1>1. /\ q \in Seq(Devices) /\ Len(q) = Len(p) + 1
      /\ \A j \in 1..(Len(p) + 1) :
           q[j] = IF j < s + 1 THEN p[j] ELSE IF j = s + 1 THEN d ELSE p[j - 1]
  <2>1. PICK k \in 1..(Len(p) + 1) : k = s + 1
    BY <1>0
  <2>2. Inserted(p, k, d, InsertAt(p, k, d))
    BY <1>0, InsertAtElements
  <2> QED
    BY <2>1, <2>2 DEF Inserted
<1> HIDE DEF q
<1>2. s + 1 \in Positions(q) /\ q[s + 1] = d
  BY <1>0, <1>1 DEF Positions
<1>3. \A j \in Positions(q) : j # s + 1 => old(j) \in Positions(p) /\ q[j] = p[old(j)]
  BY <1>0, <1>1 DEF Positions
<1>4. \A j, k \in Positions(q) : j # s + 1 /\ k # s + 1 =>
        /\ j < k => old(j) < old(k)
        /\ old(j) = old(k) => j = k
  BY <1>0, <1>1 DEF Positions
<1>5. \A j \in Positions(q) : j # s + 1 =>
        /\ j < s + 1 => old(j) <= s
        /\ s + 1 < j => old(j) > s
  BY <1>0, <1>1 DEF Positions
<1>6. \A m \in Positions(p) : \E j \in Positions(q) : j # s + 1 /\ old(j) = m
  <2> SUFFICES ASSUME NEW m \in Positions(p)
               PROVE  \E j \in Positions(q) : j # s + 1 /\ old(j) = m
    OBVIOUS
  <2>1. CASE m <= s
    <3>1. m \in Positions(q) /\ m # s + 1 /\ old(m) = m
      BY <1>0, <1>1, <2>1 DEF Positions
    <3> QED
      BY <3>1
  <2>2. CASE ~(m <= s)
    <3>1. m + 1 \in Positions(q) /\ m + 1 # s + 1 /\ old(m + 1) = m
      BY <1>0, <1>1, <2>2 DEF Positions
    <3> QED
      BY <3>1
  <2> QED
    BY <2>1, <2>2
<1> HIDE DEF old
<1>7. \A m \in Positions(p) : p[m] # d
  BY DEF Elems
<1>8. IsList(q)
  <2> SUFFICES ASSUME NEW j \in Positions(q), NEW k \in Positions(q), q[j] = q[k]
               PROVE  j = k
    BY <1>1 DEF IsList
  <2>1. CASE j = s + 1 \/ k = s + 1
    BY <1>2, <1>3, <1>7, <2>1
  <2>2. CASE j # s + 1 /\ k # s + 1
    BY <1>3, <1>4, <2>2 DEF IsList
  <2> QED
    BY <2>1, <2>2
<1>9. Elems(q) = Elems(p) \cup {d}
  BY <1>2, <1>3, <1>6 DEF Elems
<1>10. ASSUME NEW f \in [Devices -> Nat], Increasing(p, f),
              \A k \in Positions(p) : k <= s => f[p[k]] < f[d],
              \A k \in Positions(p) : k > s => f[d] < f[p[k]]
       PROVE  Increasing(q, f)
  <2> SUFFICES ASSUME NEW j \in Positions(q), NEW k \in Positions(q), j < k
               PROVE  f[q[j]] < f[q[k]]
    BY DEF Increasing
  <2>0. j \in Nat /\ k \in Nat
    BY <1>1 DEF Positions
  <2>1. CASE j = s + 1
    <3>1. old(k) \in Positions(p) /\ q[k] = p[old(k)] /\ old(k) > s
      BY <1>0, <1>3, <1>5, <2>0, <2>1
    <3>2. f[d] < f[p[old(k)]]
      BY <1>10, <3>1
    <3> QED
      BY <1>2, <2>1, <3>1, <3>2
  <2>2. CASE k = s + 1
    <3>1. old(j) \in Positions(p) /\ q[j] = p[old(j)] /\ old(j) <= s
      BY <1>0, <1>3, <1>5, <2>0, <2>2
    <3>2. f[p[old(j)]] < f[d]
      BY <1>10, <3>1
    <3> QED
      BY <1>2, <2>2, <3>1, <3>2
  <2>3. CASE j # s + 1 /\ k # s + 1
    BY <1>3, <1>4, <1>10, <2>3 DEF Increasing
  <2> QED
    BY <2>1, <2>2, <2>3
<1> QED
  BY <1>8, <1>9, <1>10 DEF q
-----------------------------------------------------------------------------
(***************************************************************************)
(* What the pool keeps whatever numbers are imposed, and what it keeps     *)
(* when none is imposed below that of the head.                            *)
(***************************************************************************)
Listed == Elems(pool)

BaseInv ==
  /\ created \in 0..MaxDev
  /\ no \in [Devices -> Nat]
  /\ IsList(pool)
  /\ \A d \in Listed : d <= created /\ no[d] >= 1

ListInv == BaseInv /\ Increasing(pool, no)

LEMMA PoolFacts ==
  ASSUME BaseInv
  PROVE  /\ created \in Nat /\ Len(pool) \in Nat /\ pool \in Seq(Devices)
         /\ pool = <<>> <=> Len(pool) = 0
         /\ Listed \subseteq Devices
         /\ \A d \in Devices : no[d] \in Nat
         /\ \A i : i \in Positions(pool) <=> i \in Nat /\ 1 <= i /\ i <= Len(pool)
         /\ \A i \in Positions(pool) : pool[i] \in Devices /\ pool[i] \in Listed
                                       /\ no[pool[i]] \in Nat /\ no[pool[i]] >= 1
<1>1. created \in Nat
  BY DevicePoolAssumption DEF BaseInv
<1>2. no \in [Devices -> Nat] /\ IsList(pool)
  BY DEF BaseInv
<1>3. \A i \in Positions(pool) : pool[i] \in Listed
  BY DEF Listed, Elems
<1> QED
  BY <1>1, <1>2, <1>3, ListFacts DEF BaseInv, Listed

LEMMA ListTypes ==
  ASSUME ListInv
  PROVE  /\ Len(pool) \in Nat /\ created \in Nat
         /\ \A i \in Positions(pool) : pool[i] \in Devices /\ no[pool[i]] \in Nat
                                       /\ no[pool[i]] >= 1
  BY PoolFacts DEF ListInv

\* In an increasing list a number designates one device.
LEMMA NumbersDistinct ==
  ASSUME ListInv
  PROVE  \A d, e \in Listed : no[d] = no[e] => d = e
<1> SUFFICES ASSUME NEW i \in Positions(pool), NEW j \in Positions(pool),
                    no[pool[i]] = no[pool[j]]
             PROVE  i = j
  BY DEF Listed, Elems
<1>1. i \in Nat /\ j \in Nat /\ no[pool[i]] \in Nat
  BY PoolFacts DEF ListInv
<1>2. ~(i < j) /\ ~(j < i)
  BY <1>1 DEF ListInv, Increasing
<1> QED
  BY <1>1, <1>2

(***************************************************************************)
(* The searches of CPool.                                                  *)
(***************************************************************************)
LEMMA ChercherFacts ==
  ASSUME BaseInv, NEW n
  PROVE  LET i == Chercher(pool, n)
         IN /\ i = 0 => \A d \in Listed : no[d] # n
            /\ i # 0 => i \in Positions(pool) /\ no[pool[i]] = n
<1> DEFINE found == {i \in Positions(pool) : no[pool[i]] = n}
<1>1. found \in SUBSET Nat /\ Positions(pool) \subseteq Nat \ {0}
  BY PoolFacts
<1>2. CASE found = {}
  <2>1. Chercher(pool, n) = 0
    BY <1>2 DEF Chercher
  <2> QED
    BY <1>2, <2>1 DEF Listed, Elems
<1>3. CASE found # {}
  <2>1. Chercher(pool, n) \in found
    BY <1>1, <1>3, MinOfNats DEF Chercher
  <2>2. Chercher(pool, n) # 0
    BY <1>1, <2>1
  <2> QED
    BY <2>1, <2>2
<1> QED
  BY <1>2, <1>3

\* The list without the device numbered n.
LEMMA RetireFacts ==
  ASSUME BaseInv, NEW n
  PROVE  LET p == Retire(pool, n)
         IN /\ IsList(p)
            /\ Elems(p) \subseteq Listed
            /\ Chercher(pool, n) = 0 => p = pool
            /\ ListInv => Increasing(p, no) /\ Elems(p) = {d \in Listed : no[d] # n}
<1>1. CASE Chercher(pool, n) = 0
  <2>1. Retire(pool, n) = pool /\ \A d \in Listed : no[d] # n
    BY <1>1, ChercherFacts DEF Retire
  <2> QED
    BY <2>1 DEF BaseInv, ListInv, Listed
<1>2. CASE Chercher(pool, n) # 0
  <2> DEFINE i == Chercher(pool, n)
  <2>1. i \in Positions(pool) /\ no[pool[i]] = n /\ pool[i] \in Listed
    BY <1>2, ChercherFacts, PoolFacts
  <2>2. Retire(pool, n) = RemoveAt(pool, i)
    BY <1>2 DEF Retire
  <2> HIDE DEF i
  <2>3. /\ IsList(RemoveAt(pool, i))
        /\ Elems(RemoveAt(pool, i)) = Listed \ {pool[i]}
        /\ \A f : Increasing(pool, f) => Increasing(RemoveAt(pool, i), f)
    BY <2>1, RemoveList DEF BaseInv, Listed
  <2>4. ListInv => Listed \ {pool[i]} = {d \in Listed : no[d] # n}
    BY <2>1, NumbersDistinct
  <2> QED
    BY <1>2, <2>2, <2>3, <2>4 DEF ListInv
<1> QED
  BY <1>1, <1>2

\* The scan for an imposed number stops inside the list.
LEMMA ImposedRange ==
  ASSUME NEW p, IsList(p), NEW n \in Nat
  PROVE  /\ ImposedAfter(p, n) \in 0..Len(p)
         /\ p # <<>> => LET T == {i \in Positions(p) : i = Len(p) \/ no[p[i + 1]] > n}
                        IN ImposedAfter(p, n) \in T /\ \A i \in T : ImposedAfter(p, n) <= i
<1> DEFINE T == {i \in Positions(p) : i = Len(p) \/ no[p[i + 1]] > n}
<1>1. CASE p = <<>>
  BY <1>1, ListFacts DEF ImposedAfter
<1>2. CASE p # <<>>
  <2>1. T \in SUBSET Nat /\ Len(p) \in T
    BY <1>2, ListFacts
  <2>2. ImposedAfter(p, n) = Min(T)
    BY <1>2 DEF ImposedAfter
  <2>3. ImposedAfter(p, n) \in T /\ \A i \in T : ImposedAfter(p, n) <= i
    BY <2>1, <2>2, MinOfNats
  <2>4. ImposedAfter(p, n) \in 0..Len(p)
    BY <2>3, ListFacts
  <2> QED
    BY <1>2, <2>3, <2>4
<1> QED
  BY <1>1, <1>2

\* In an increasing list it stops where the number belongs, unless that is before
\* the head.
LEMMA ImposedScan ==
  ASSUME NEW p, IsList(p), Increasing(p, no), no \in [Devices -> Nat], NEW n \in Nat,
         \A d \in Elems(p) : no[d] # n, p # <<>> => ~(n < no[p[1]])
  PROVE  LET s == ImposedAfter(p, n)
         IN /\ s \in 0..Len(p)
            /\ \A k \in Positions(p) : k <= s => no[p[k]] < n
            /\ \A k \in Positions(p) : k > s => n < no[p[k]]
<1> DEFINE s == ImposedAfter(p, n)
           T == {i \in Positions(p) : i = Len(p) \/ no[p[i + 1]] > n}
<1>1. s \in 0..Len(p)
  BY ImposedRange
<1>2. CASE p = <<>>
  BY <1>1, <1>2, ListFacts
<1>3. CASE p # <<>>
  <2>1. s \in T /\ \A i \in T : s <= i
    BY <1>3, ImposedRange
  <2> HIDE DEF s
  <2>2. \A k \in Positions(p) : no[p[k]] \in Nat /\ no[p[k]] # n
    BY ListFacts DEF Elems
  <2>5. /\ Len(p) \in Nat /\ s \in Nat
        /\ \A k : k \in Positions(p) <=> k \in Nat /\ 1 <= k /\ k <= Len(p)
    BY <1>1, ListFacts
  <2>3. ASSUME NEW k \in Positions(p), k <= s PROVE no[p[k]] < n
    <3>1. CASE k = 1
      BY <1>3, <2>2, <3>1
    <3>2. CASE k # 1
      <4>0. k \in Nat /\ 1 <= k /\ k <= Len(p)
        BY <2>5
      <4>1. k - 1 \in Positions(p) /\ ~(s <= k - 1) /\ (k - 1) + 1 = k /\ k - 1 # Len(p)
        BY <2>3, <2>5, <3>2, <4>0
      <4>2. k - 1 \notin T
        BY <2>1, <4>1
      <4>3. ~(no[p[k]] > n)
        BY <4>1, <4>2
      <4> QED
        BY <2>2, <4>3
    <3> QED
      BY <3>1, <3>2
  <2>4. ASSUME NEW k \in Positions(p), k > s PROVE n < no[p[k]]
    <3>1. s \in Positions(p) /\ s # Len(p) /\ s + 1 \in Positions(p) /\ k \in Nat
      <4>1. k \in Nat /\ k <= Len(p) /\ s \in Positions(p)
        BY <2>1, <2>5
      <4> QED
        BY <2>4, <2>5, <4>1
    <3>2. no[p[s + 1]] > n
      BY <2>1, <3>1
    <3>3. k = s + 1 \/ s + 1 < k
      BY <1>1, <2>4, <3>1
    <3>4. k = s + 1 \/ no[p[s + 1]] < no[p[k]]
      BY <3>1, <3>3 DEF Increasing
    <3> QED
      BY <2>2, <3>1, <3>2, <3>4
  <2> QED
    BY <1>1, <2>3, <2>4 DEF s
<1> QED
  BY <1>2, <1>3

\* Whatever the list, a number found is a number, and a position a position.
LEMMA AutoRange ==
  ASSUME BaseInv
  PROVE  /\ AutoAfter(pool) \in 0..Len(pool)
         /\ AutoNumber(pool) \in Nat /\ AutoNumber(pool) >= 1
<1>1. AutoAfter(pool) \in 0..Len(pool)
  <2>1. CASE pool = <<>> \/ no[pool[1]] > 1
    BY <2>1, PoolFacts DEF AutoAfter
  <2>2. CASE pool # <<>> /\ ~(no[pool[1]] > 1)
    <3> DEFINE G == {i \in Positions(pool) : Gap(pool, i)}
    <3>1. G \in SUBSET Nat /\ Len(pool) \in G
      BY <2>2, PoolFacts DEF Gap
    <3>2. AutoAfter(pool) = Min(G)
      BY <2>2 DEF AutoAfter
    <3>3. AutoAfter(pool) \in G
      BY <3>1, <3>2, MinOfNats
    <3> QED
      BY <3>3, PoolFacts
  <2> QED
    BY <2>1, <2>2
<1> DEFINE i == AutoAfter(pool)
<1>2. AutoNumber(pool) = IF i = 0 THEN 1 ELSE IF i < Len(pool) THEN no[pool[i]] + 1 ELSE i + 1
  BY DEF AutoNumber
<1> HIDE DEF i
<1>3. i \in 0..Len(pool)
  BY <1>1 DEF i
<1>4. i # 0 => no[pool[i]] \in Nat
  BY <1>3, PoolFacts
<1>5. i \in Nat
  BY <1>3, PoolFacts
<1>6. AutoNumber(pool) \in Nat /\ AutoNumber(pool) >= 1
  BY <1>2, <1>4, <1>5
<1> QED
  BY <1>1, <1>6

\* Where the search stops, every number up to its position is in use, in order.
LEMMA PrefixFull ==
  ASSUME ListInv, pool # <<>>, no[pool[1]] = 1,
         NEW s \in Positions(pool), \A k \in 1..(s - 1) : ~Gap(pool, k)
  PROVE  \A k \in 1..s : no[pool[k]] = k
<1> DEFINE Bad == {k \in 1..s : no[pool[k]] # k}
<1> SUFFICES ASSUME Bad # {} PROVE FALSE
  OBVIOUS
<1>0. s \in Nat /\ s <= Len(pool) /\ Len(pool) \in Nat
  BY ListTypes DEF Positions
<1>1. PICK m \in Bad : \A y \in Bad : m <= y
  <2>1. Bad \in SUBSET Nat
    OBVIOUS
  <2> QED
    BY <2>1, MinOfNats
<1>2. m \in 1..s /\ no[pool[m]] # m /\ m # 1
  BY <1>1
<1>3. m - 1 \in 1..(s - 1) /\ m - 1 \in 1..s /\ m - 1 < m /\ m \in Nat
  BY <1>0, <1>2
<1>4. no[pool[m - 1]] = m - 1
  BY <1>1, <1>3
<1>5. m - 1 # Len(pool) /\ ~(no[pool[m]] > no[pool[m - 1]] + 1)
  <2>1. ~Gap(pool, m - 1)
    BY <1>3
  <2>2. (m - 1) + 1 = m
    BY <1>3
  <2> QED
    BY <2>1, <2>2 DEF Gap
<1>6. m \in Positions(pool) /\ m - 1 \in Positions(pool)
  BY <1>0, <1>2, <1>3 DEF Positions
<1>7. no[pool[m - 1]] < no[pool[m]] /\ no[pool[m]] \in Nat
  BY <1>3, <1>6, ListTypes DEF ListInv, Increasing
<1> QED
  BY <1>2, <1>3, <1>4, <1>5, <1>7

LEMMA AutoScan ==
  ASSUME ListInv
  PROVE  LET s == AutoAfter(pool)
         IN /\ s \in 0..Len(pool)
            /\ AutoNumber(pool) = s + 1
            /\ \A k \in 1..s : no[pool[k]] = k
            /\ \A k \in Positions(pool) : k > s => no[pool[k]] > s + 1
<1> DEFINE s == AutoAfter(pool)
<1>0. Len(pool) \in Nat
  BY ListTypes
<1>1. CASE pool = <<>>
  <2>1. s = 0 /\ Positions(pool) = {}
    BY <1>1 DEF AutoAfter, Positions
  <2> QED
    BY <1>0, <2>1 DEF AutoNumber
<1>2. CASE pool # <<>> /\ no[pool[1]] > 1
  <2>1. s = 0
    BY <1>2 DEF AutoAfter
  <2>2. \A k \in Positions(pool) : no[pool[k]] > 1
    <3> SUFFICES ASSUME NEW k \in Positions(pool) PROVE no[pool[k]] > 1
      OBVIOUS
    <3>1. 1 \in Positions(pool) /\ k \in Nat /\ 1 <= k
      BY <1>0 DEF Positions
    <3>2. k = 1 \/ no[pool[1]] < no[pool[k]]
      BY <3>1 DEF ListInv, Increasing
    <3> QED
      BY <1>2, <3>1, <3>2, ListTypes
  <2> QED
    BY <1>0, <2>1, <2>2 DEF AutoNumber
<1>3. CASE pool # <<>> /\ ~(no[pool[1]] > 1)
  <2>1. 1 \in Positions(pool) /\ Len(pool) \in Positions(pool)
    <3>1. Len(pool) # 0
      BY <1>3, PoolFacts
    <3> QED
      BY <1>0, <3>1 DEF Positions
  <2>2. no[pool[1]] = 1
    <3>1. no[pool[1]] \in Nat /\ no[pool[1]] >= 1
      BY <2>1, ListTypes
    <3> QED
      BY <1>3, <3>1
  <2> DEFINE G == {i \in Positions(pool) : Gap(pool, i)}
  <2>3. s = Min(G)
    BY <1>3 DEF AutoAfter
  <2>4. G \in SUBSET Nat /\ Len(pool) \in G
    BY <2>1 DEF Positions, Gap
  <2>5. s \in G /\ \A y \in G : s <= y
    BY <2>3, <2>4, MinOfNats
  <2> HIDE DEF s
  <2>6. s \in Positions(pool) /\ Gap(pool, s)
    BY <2>5
  <2>7. s \in Nat /\ 1 <= s /\ s <= Len(pool)
    BY <1>0, <2>6 DEF Positions
  <2>8. \A k \in 1..(s - 1) : ~Gap(pool, k)
    <3> SUFFICES ASSUME NEW k \in 1..(s - 1), Gap(pool, k) PROVE FALSE
      OBVIOUS
    <3>1. k \in Positions(pool) /\ k < s /\ k \in Nat
      BY <1>0, <2>7 DEF Positions
    <3>2. s <= k
      BY <2>5, <3>1
    <3> QED
      BY <2>7, <3>1, <3>2
  <2>9. \A k \in 1..s : no[pool[k]] = k
    BY <1>3, <2>2, <2>6, <2>8, PrefixFull
  <2>10. no[pool[s]] = s
    BY <2>7, <2>9
  <2>11. AutoNumber(pool) = s + 1
    <3>1. AutoNumber(pool) = IF s = 0 THEN 1 ELSE IF s < Len(pool) THEN no[pool[s]] + 1 ELSE s + 1
      BY DEF AutoNumber, s
    <3> QED
      BY <2>7, <2>10, <3>1
  <2>12. \A k \in Positions(pool) : k > s => no[pool[k]] > s + 1
    <3> SUFFICES ASSUME NEW k \in Positions(pool), k > s PROVE no[pool[k]] > s + 1
      OBVIOUS
    <3>1. k \in Nat /\ k <= Len(pool) /\ s # Len(pool) /\ s + 1 \in Positions(pool)
      BY <1>0, <2>7 DEF Positions
    <3>2. no[pool[s + 1]] > s + 1
      BY <2>6, <2>10, <3>1 DEF Gap
    <3>3. k = s + 1 \/ no[pool[s + 1]] < no[pool[k]]
      <4>1. k = s + 1 \/ s + 1 < k
        BY <2>7, <3>1
      <4> QED
        BY <3>1, <4>1 DEF ListInv, Increasing
    <3>4. no[pool[s + 1]] \in Nat /\ no[pool[k]] \in Nat
      BY <3>1, ListTypes
    <3> QED
      BY <2>7, <3>2, <3>3, <3>4
  <2>13. s \in 0..Len(pool)
    BY <1>0, <2>7
  <2> QED
    BY <2>9, <2>11, <2>12, <2>13 DEF s
<1> QED
  BY <1>1, <1>2, <1>3
-----------------------------------------------------------------------------
(***************************************************************************)
(* The three changes of the list: a device enters it, a device is rejected *)
(* after its construction, a device leaves it.                             *)
(***************************************************************************)
EnterList(n)  == Construct(n) /\ pool' = Ajouter(n, created')
RejectList(n) == Construct(n) /\ pool' = Rejected(n)
LeaveList(n)  == /\ Chercher(pool, n) # 0
                 /\ pool' = RemoveAt(pool, Chercher(pool, n))
                 /\ UNCHANGED <<created, no>>

\* The devices that keep their place when one numbered n is constructed, and the
\* position after which that one goes.
Remaining(n) == IF n = NULL THEN pool ELSE Retire(pool, n)
After(n)     == IF n = NULL THEN AutoAfter(pool) ELSE ImposedAfter(Retire(pool, n), n)

LEMMA RequestNat == \A n \in Requests : n \in Nat /\ (n # NULL => n >= 1)
  BY DevicePoolAssumption DEF Requests, NumOption, NULL

LEMMA RemainingFacts ==
  ASSUME BaseInv, NEW n \in Requests
  PROVE  /\ IsList(Remaining(n)) /\ Elems(Remaining(n)) \subseteq Listed
         /\ ~Replaces(n) => Remaining(n) = pool
         /\ After(n) \in 0..Len(Remaining(n))
         /\ NumberFor(n) \in Nat /\ NumberFor(n) >= 1
         /\ Rejected(n) = Remaining(n)
         /\ \A d : Ajouter(n, d) = InsertAt(Remaining(n), After(n) + 1, d)
<1>1. CASE n = NULL
  BY <1>1, AutoRange
     DEF Remaining, After, NumberFor, Rejected, Ajouter, Listed, BaseInv
<1>2. CASE n # NULL
  <2>1. n \in Nat /\ n >= 1
    BY <1>2, RequestNat
  <2>2. /\ IsList(Retire(pool, n)) /\ Elems(Retire(pool, n)) \subseteq Listed
        /\ Chercher(pool, n) = 0 => Retire(pool, n) = pool
    BY RetireFacts
  <2>3. ImposedAfter(Retire(pool, n), n) \in 0..Len(Retire(pool, n))
    BY <2>1, <2>2, ImposedRange
  <2> QED
    BY <1>2, <2>1, <2>2, <2>3 DEF Remaining, After, NumberFor, Rejected, Ajouter, Replaces
<1> QED
  BY <1>1, <1>2

\* In an increasing list, only the device that has the number loses its place.
LEMMA RemainingNumbers ==
  ASSUME ListInv, NEW n \in Requests
  PROVE  /\ Increasing(Remaining(n), no)
         /\ Elems(Remaining(n)) = {d \in Listed : no[d] # NumberFor(n)}
<1>1. CASE n = NULL
  <2> DEFINE s == AutoAfter(pool)
  <2>1. /\ s \in 0..Len(pool) /\ AutoNumber(pool) = s + 1
        /\ \A k \in 1..s : no[pool[k]] = k
        /\ \A k \in Positions(pool) : k > s => no[pool[k]] > s + 1
    BY AutoScan
  <2>2. \A k \in Positions(pool) : no[pool[k]] # s + 1
    <3> SUFFICES ASSUME NEW k \in Positions(pool) PROVE no[pool[k]] # s + 1
      OBVIOUS
    <3>1. k \in Nat /\ 1 <= k /\ s \in Nat /\ no[pool[k]] \in Nat
      BY <2>1, PoolFacts DEF ListInv
    <3>2. CASE k <= s
      BY <2>1, <3>1, <3>2
    <3>3. CASE k > s
      BY <2>1, <3>1, <3>3
    <3> QED
      BY <3>1, <3>2, <3>3
  <2>3. \A d \in Listed : no[d] # NumberFor(n)
    BY <1>1, <2>1, <2>2 DEF Listed, Elems, NumberFor
  <2> QED
    BY <1>1, <2>3 DEF Remaining, ListInv, Listed
<1>2. CASE n # NULL
  BY <1>2, RetireFacts DEF Remaining, NumberFor, ListInv
<1> QED
  BY <1>1, <1>2

\* A device constructed now is not in the list, and numbering it leaves the
\* numbers of the others alone.
LEMMA Fresh ==
  ASSUME BaseInv, NEW n \in Requests, Construct(n)
  PROVE  /\ created' \in Devices /\ created' \in 0..MaxDev /\ created' \notin Listed
         /\ no' \in [Devices -> Nat] /\ no'[created'] = NumberFor(n)
         /\ \A d \in Listed : d <= created' /\ no'[d] = no[d]
         /\ created' = created + 1
<1>0. created \in Nat /\ created' = created + 1 /\ created < MaxDev
  BY PoolFacts DEF Construct
<1>1. created' \in Devices /\ created' \in 0..MaxDev
  BY <1>0, DeviceRange, DevicePoolAssumption
<1>2. \A d \in Listed : d \in Devices /\ d \in Nat /\ d <= created
  BY PoolFacts, DeviceRange DEF BaseInv
<1>3. created' \notin Listed /\ \A d \in Listed : d <= created' /\ d # created'
  BY <1>0, <1>2
<1>4. no' = [no EXCEPT ![created'] = NumberFor(n)] /\ NumberFor(n) \in Nat
  BY RemainingFacts DEF Construct
<1> QED
  BY <1>0, <1>1, <1>2, <1>3, <1>4 DEF BaseInv

LEMMA EnterKeeps ==
  ASSUME BaseInv, NEW n \in Requests, EnterList(n)
  PROVE  /\ BaseInv'
         /\ Listed' = Elems(Remaining(n)) \cup {created'}
         /\ ListInv /\ ~BelowHead(n) => ListInv'
<1> DEFINE p == Remaining(n)
           s == After(n)
           d == created'
<1>1. /\ d \in Devices /\ d \in 0..MaxDev /\ d \notin Listed
      /\ no' \in [Devices -> Nat] /\ no'[d] = NumberFor(n)
      /\ \A e \in Listed : e <= d /\ no'[e] = no[e]
  BY Fresh DEF EnterList
<1>2. /\ IsList(p) /\ Elems(p) \subseteq Listed /\ s \in 0..Len(p)
      /\ NumberFor(n) \in Nat /\ NumberFor(n) >= 1
      /\ pool' = InsertAt(p, s + 1, d)
  BY RemainingFacts DEF EnterList
<1> HIDE DEF p, s, d
<1>3. /\ IsList(pool') /\ Elems(pool') = Elems(p) \cup {d}
      /\ \A f \in [Devices -> Nat] :
           /\ Increasing(p, f)
           /\ \A k \in Positions(p) : k <= s => f[p[k]] < f[d]
           /\ \A k \in Positions(p) : k > s => f[d] < f[p[k]]
           => Increasing(pool', f)
  <2>1. d \notin Elems(p)
    BY <1>1, <1>2
  <2> QED
    BY <1>1, <1>2, <2>1, InsertList
<1>4. Listed' = Elems(p) \cup {d}
  BY <1>3 DEF Listed, Elems, Positions
<1>5. BaseInv'
  <2>1. \A e \in Listed' : e <= d /\ no'[e] >= 1
    <3>1. d <= d
      BY <1>1, DeviceRange
    <3>2. \A e \in Elems(p) : e <= d /\ no'[e] >= 1
      BY <1>1, <1>2 DEF BaseInv
    <3> QED
      BY <1>1, <1>2, <1>4, <3>1, <3>2
  <2> QED
    BY <1>1, <1>3, <2>1 DEF BaseInv, d, IsList, Positions
<1>6. ASSUME ListInv, ~BelowHead(n) PROVE Increasing(pool', no')
  <2>1. /\ Increasing(p, no)
        /\ \A e \in Elems(p) : e \in Devices /\ no[e] # NumberFor(n) /\ no'[e] = no[e]
    BY <1>1, <1>2, <1>6, RemainingNumbers, ListFacts DEF p
  <2>2. /\ \A k \in Positions(p) : k <= s => no[p[k]] < NumberFor(n)
        /\ \A k \in Positions(p) : k > s => NumberFor(n) < no[p[k]]
    <3>1. CASE n = NULL
      <4>1. p = pool /\ s = AutoAfter(pool) /\ NumberFor(n) = AutoNumber(pool)
        BY <3>1 DEF p, s, Remaining, After, NumberFor
      <4>2. /\ s \in 0..Len(pool) /\ AutoNumber(pool) = s + 1
            /\ \A k \in 1..s : no[pool[k]] = k
            /\ \A k \in Positions(pool) : k > s => no[pool[k]] > s + 1
        BY <1>6, <4>1, AutoScan
      <4>3. s \in Nat /\ \A k \in Positions(pool) : k \in Nat /\ 1 <= k /\ no[pool[k]] \in Nat
        BY <4>2, PoolFacts DEF BaseInv
      <4> QED
        BY <4>1, <4>2, <4>3
    <3>2. CASE n # NULL
      <4>1. p = Retire(pool, n) /\ s = ImposedAfter(p, n) /\ NumberFor(n) = n /\ n \in Nat
        BY <3>2, RequestNat DEF p, s, Remaining, After, NumberFor
      <4>2. p # <<>> => ~(n < no[p[1]])
        BY <1>6, <3>2, <4>1 DEF BelowHead
      <4>3. \A e \in Elems(p) : no[e] # n
        BY <2>1, <4>1
      <4>4. no \in [Devices -> Nat]
        BY DEF BaseInv
      <4> QED
        BY <1>2, <2>1, <4>1, <4>2, <4>3, <4>4, ImposedScan
    <3> QED
      BY <3>1, <3>2
  <2>3. Increasing(p, no')
    BY <2>1, AgreeIncreasing
  <2>4. \A k \in Positions(p) : p[k] \in Elems(p)
    BY DEF Elems
  <2> QED
    BY <1>1, <1>3, <2>1, <2>2, <2>3, <2>4
<1> QED
  BY <1>4, <1>5, <1>6 DEF p, d, ListInv, Increasing, Positions

LEMMA RejectKeeps ==
  ASSUME BaseInv, NEW n \in Requests, RejectList(n)
  PROVE  /\ BaseInv' /\ Listed' = Elems(Remaining(n))
         /\ ListInv => ListInv'
<1>1. /\ created' \in 0..MaxDev /\ no' \in [Devices -> Nat]
      /\ \A e \in Listed : e <= created' /\ no'[e] = no[e]
  BY Fresh DEF RejectList
<1>2. IsList(Remaining(n)) /\ Elems(Remaining(n)) \subseteq Listed /\ pool' = Remaining(n)
  BY RemainingFacts DEF RejectList
<1>3. IsList(pool') /\ Elems(pool') = Elems(Remaining(n))
  BY <1>2
<1>4. Listed' = Elems(Remaining(n))
  BY <1>3 DEF Listed, Elems, Positions
<1>5. BaseInv'
  <2>1. \A e \in Listed' : e <= created' /\ no'[e] >= 1
    BY <1>1, <1>2, <1>4 DEF BaseInv
  <2> QED
    BY <1>1, <1>3, <2>1 DEF BaseInv, IsList, Positions
<1>6. ASSUME ListInv PROVE Increasing(pool', no')
  <2>1. Increasing(pool', no)
    BY <1>2, <1>6, RemainingNumbers
  <2>2. \A e \in Elems(pool') : no[e] = no'[e]
    BY <1>1, <1>2
  <2> QED
    BY <2>1, <2>2, AgreeIncreasing
<1> QED
  BY <1>4, <1>5, <1>6 DEF ListInv, Increasing, Positions

LEMMA LeaveKeeps ==
  ASSUME BaseInv, NEW n, LeaveList(n)
  PROVE  /\ BaseInv'
         /\ ListInv => ListInv'
         /\ LET d == pool[Chercher(pool, n)]
            IN d \in Listed /\ no[d] = n /\ Listed' = Listed \ {d}
<1> DEFINE i == Chercher(pool, n)
<1>1. i \in Positions(pool) /\ no[pool[i]] = n /\ pool[i] \in Listed
  BY ChercherFacts, PoolFacts DEF LeaveList
<1>2. pool' = RemoveAt(pool, i) /\ no' = no /\ created' = created
  BY DEF LeaveList
<1> HIDE DEF i
<1>3. /\ IsList(pool') /\ Elems(pool') = Listed \ {pool[i]}
      /\ \A f : Increasing(pool, f) => Increasing(pool', f)
  BY <1>1, <1>2, RemoveList DEF BaseInv, Listed
<1>4. Listed' = Listed \ {pool[i]}
  BY <1>3 DEF Listed, Elems, Positions
<1>5. BaseInv'
  BY <1>2, <1>3, <1>4 DEF BaseInv, IsList, Positions
<1>6. ListInv => Increasing(pool', no')
  BY <1>2, <1>3 DEF ListInv
<1> QED
  BY <1>1, <1>4, <1>5, <1>6 DEF i, ListInv, Increasing, Positions
-----------------------------------------------------------------------------
(***************************************************************************)
(* The inductive invariant of the commands.                                *)
(***************************************************************************)
FieldsOK ==
  /\ class \in {"cam", "link", "buf"}
  /\ thread \in [Devices -> {"none", "running", "released"}]
  /\ driver \in [Devices -> {"none", "open", "closed"}]
  /\ libraryName \in [Devices -> Libs \cup {NULL}]
  /\ port \in [Devices -> Ports \cup {NULL}]
  /\ DOMAIN command \subseteq Nat
  /\ \A n \in DOMAIN command : command[n] \in Devices
  /\ alias \in [Libs -> Devices \cup {NULL}]
  /\ lowNumber \in BOOLEAN /\ replaced \in BOOLEAN

OrderInv == ~lowNumber => Increasing(pool, no)

\* Only cameras have numbers imposed, aliases and threads; buffers have no driver.
ClassInv ==
  /\ class # "cam" => /\ ~lowNumber /\ ~replaced
                      /\ \A l \in Libs : alias[l] = NULL
                      /\ \A d \in Devices : thread[d] = "none"
  /\ class = "buf" => \A d \in Devices : driver[d] = "none"

CommandInv ==
  ~lowNumber =>
    /\ \A d \in Listed : no[d] \in DOMAIN command /\ command[no[d]] = d
    /\ ~replaced => \A m \in DOMAIN command : \E d \in Listed : no[d] = m

DriverInv ==
  /\ ~lowNumber /\ class # "buf" => \A d \in Listed : driver[d] = "open"
  /\ ~lowNumber /\ ~replaced =>
       \A d \in Devices : thread[d] = "running" \/ driver[d] = "open" => d \in Listed

AliasInv ==
  ~replaced =>
    \A l \in Libs : alias[l] # NULL => alias[l] \in Listed /\ libraryName[alias[l]] = l

ThreadInv == class = "cam" => \A d \in Listed : thread[d] = "running"

PortInv == class = "link" => \A d, e \in Listed : port[d] = port[e] => d = e

PoolInv ==
  /\ BaseInv /\ FieldsOK /\ OrderInv /\ ClassInv
  /\ CommandInv /\ DriverInv /\ AliasInv /\ ThreadInv /\ PortInv

LEMMA InitPool == Init => PoolInv
<1> SUFFICES ASSUME Init PROVE PoolInv
  OBVIOUS
<1>1. pool = <<>> /\ created = 0 /\ no = [d \in Devices |-> 0] /\ DOMAIN command = {}
      /\ lowNumber = FALSE /\ replaced = FALSE
  BY DEF Init
<1>2. Positions(pool) = {} /\ Listed = {}
  BY <1>1 DEF Positions, Listed, Elems
<1>3. created \in 0..MaxDev /\ pool \in Seq(Devices)
  BY <1>1, DevicePoolAssumption
<1>4. BaseInv
  BY <1>1, <1>2, <1>3 DEF BaseInv, IsList
<1>5. FieldsOK
  BY <1>1 DEF Init, FieldsOK
<1>6. OrderInv
  BY <1>2 DEF OrderInv, Increasing
<1>7. ClassInv
  BY <1>1 DEF Init, ClassInv
<1>8. CommandInv /\ ThreadInv /\ PortInv
  BY <1>1, <1>2 DEF CommandInv, ThreadInv, PortInv
<1>9. DriverInv /\ AliasInv
  BY <1>2 DEF Init, DriverInv, AliasInv, NULL
<1> QED
  BY <1>4, <1>5, <1>6, <1>7, <1>8, <1>9 DEF PoolInv

LEMMA NullRequest == NULL \in Requests /\ ~Replaces(NULL) /\ ~BelowHead(NULL)
  BY DEF Requests, Replaces, BelowHead

\* What PoolInv says of the list when its order was never disturbed.
LEMMA InOrder ==
  ASSUME PoolInv, ~lowNumber
  PROVE  ListInv /\ \A d, e \in Listed : no[d] = no[e] => d = e
<1>1. ListInv
  BY DEF PoolInv, OrderInv, ListInv
<1> QED
  BY <1>1, NumbersDistinct

LEMMA RegisterFields ==
  ASSUME FieldsOK, NEW k \in Nat, NEW d \in Devices, Register(k, d)
  PROVE  /\ DOMAIN command' = DOMAIN command \cup {k}
         /\ command'[k] = d /\ \A m \in DOMAIN command : m # k => command'[m] = command[m]
         /\ DOMAIN command' \subseteq Nat
         /\ \A m \in DOMAIN command' : command'[m] \in Devices
  BY DEF FieldsOK, Register

LEMMA UnregisterFields ==
  ASSUME FieldsOK, NEW k, Unregister(k)
  PROVE  /\ DOMAIN command' = DOMAIN command \ {k}
         /\ \A m \in DOMAIN command : m # k => command'[m] = command[m]
         /\ DOMAIN command' \subseteq Nat
         /\ \A m \in DOMAIN command' : command'[m] \in Devices
  BY DEF FieldsOK, Unregister

(***************************************************************************)
(* The commands and the list.                                              *)
(***************************************************************************)
\* A device enters with its command.
LEMMA EnterCommand ==
  ASSUME PoolInv, NEW n \in Requests, EnterList(n), Register(NumberFor(n), created'),
         lowNumber' = (lowNumber \/ BelowHead(n)), replaced' = (replaced \/ Replaces(n))
  PROVE  OrderInv' /\ CommandInv'
<1>1. BaseInv /\ FieldsOK
  BY DEF PoolInv
<1>2. /\ Listed' = Elems(Remaining(n)) \cup {created'} /\ Elems(Remaining(n)) \subseteq Listed
      /\ ListInv /\ ~BelowHead(n) => ListInv'
      /\ NumberFor(n) \in Nat
      /\ ~Replaces(n) => Listed' = Listed \cup {created'}
  BY <1>1, EnterKeeps, RemainingFacts DEF Listed
<1>3. /\ created' \in Devices /\ no'[created'] = NumberFor(n) /\ created' \notin Listed
      /\ \A d \in Listed : no'[d] = no[d]
  BY <1>1, Fresh DEF EnterList
<1>4. OrderInv'
  BY <1>2, InOrder DEF OrderInv, ListInv
<1>5. /\ DOMAIN command' = DOMAIN command \cup {NumberFor(n)}
      /\ command'[NumberFor(n)] = created'
      /\ \A m \in DOMAIN command : m # NumberFor(n) => command'[m] = command[m]
  BY <1>1, <1>2, <1>3, RegisterFields
<1>6. ASSUME ~lowNumber' PROVE \A d \in Listed' : no'[d] \in DOMAIN command' /\ command'[no'[d]] = d
  <2>1. ~lowNumber /\ Elems(Remaining(n)) = {d \in Listed : no[d] # NumberFor(n)}
    BY <1>6, InOrder, RemainingNumbers
  <2>2. \A d \in Listed : no[d] \in DOMAIN command /\ command[no[d]] = d
    BY <2>1 DEF PoolInv, CommandInv
  <2>3. ASSUME NEW d \in Elems(Remaining(n))
        PROVE  no'[d] \in DOMAIN command' /\ command'[no'[d]] = d
    <3>1. d \in Listed /\ no'[d] = no[d] /\ no[d] # NumberFor(n)
      BY <1>3, <2>1
    <3>2. no[d] \in DOMAIN command /\ command[no[d]] = d
      BY <2>2, <3>1
    <3>3. no[d] \in DOMAIN command' /\ command'[no[d]] = command[no[d]]
      BY <1>5, <3>1, <3>2
    <3> QED
      BY <3>1, <3>2, <3>3
  <2>4. no'[created'] \in DOMAIN command' /\ command'[no'[created']] = created'
    BY <1>3, <1>5
  <2> QED
    BY <1>2, <2>3, <2>4
<1>7. ASSUME ~lowNumber', ~replaced', NEW m \in DOMAIN command'
      PROVE  \E d \in Listed' : no'[d] = m
  <2>1. ~lowNumber /\ ~replaced /\ Listed' = Listed \cup {created'}
    BY <1>2, <1>7
  <2>2. m \in DOMAIN command \/ m = NumberFor(n)
    BY <1>7, <1>5
  <2>3. CASE m \in DOMAIN command
    BY <1>3, <2>1, <2>3 DEF PoolInv, CommandInv
  <2>4. CASE m = NumberFor(n)
    BY <1>3, <2>1, <2>4
  <2> QED
    BY <2>2, <2>3, <2>4
<1> QED
  BY <1>4, <1>6, <1>7 DEF CommandInv

\* A device leaves with its command.
LEMMA LeaveCommand ==
  ASSUME PoolInv, NEW n, LeaveList(n), Unregister(n), UNCHANGED history
  PROVE  /\ OrderInv' /\ CommandInv'
         /\ LET d == pool[Chercher(pool, n)]
            IN /\ d \in Listed /\ d \in Devices /\ no[d] = n /\ Listed' = Listed \ {d}
               /\ ~lowNumber => n \in DOMAIN command /\ command[n] = d
<1> DEFINE d == pool[Chercher(pool, n)]
<1>1. BaseInv /\ FieldsOK /\ lowNumber' = lowNumber /\ replaced' = replaced /\ no' = no
  BY DEF PoolInv, history, LeaveList
<1>2. d \in Listed /\ no[d] = n /\ Listed' = Listed \ {d} /\ (ListInv => ListInv')
  BY <1>1, LeaveKeeps
<1>3. d \in Devices
  BY <1>1, <1>2, PoolFacts
<1> HIDE DEF d
<1>4. OrderInv'
  BY <1>1, <1>2, InOrder DEF OrderInv, ListInv
<1>5. ~lowNumber => n \in DOMAIN command /\ command[n] = d
  BY <1>2 DEF PoolInv, CommandInv
<1>6. ASSUME ~lowNumber, NEW e \in Listed'
      PROVE  no'[e] \in DOMAIN command' /\ command'[no'[e]] = e
  <2>1. e \in Listed /\ no[e] # n
    BY <1>2, <1>6, InOrder
  <2>2. no[e] \in DOMAIN command /\ command[no[e]] = e
    BY <1>6, <2>1 DEF PoolInv, CommandInv
  <2> QED
    BY <1>1, <2>1, <2>2, UnregisterFields
<1>7. ASSUME ~lowNumber, ~replaced, NEW m \in DOMAIN command'
      PROVE  \E e \in Listed' : no'[e] = m
  <2>1. m \in DOMAIN command /\ m # n
    BY <1>1, UnregisterFields
  <2>2. PICK e \in Listed : no[e] = m
    BY <1>7, <2>1 DEF PoolInv, CommandInv
  <2> QED
    BY <1>1, <1>2, <2>1, <2>2
<1> QED
  BY <1>1, <1>2, <1>3, <1>4, <1>5, <1>6, <1>7 DEF d, CommandInv

\* A device is rejected; the command of its number is left alone, or was free.
LEMMA RejectCommand ==
  ASSUME PoolInv, NEW n \in Requests, RejectList(n),
         lowNumber' = lowNumber, replaced' = (replaced \/ Replaces(n)),
         command' = command \/ (n = NULL /\ Unregister(NumberFor(n)))
  PROVE  /\ OrderInv' /\ CommandInv' /\ Listed' \subseteq Listed
         /\ ~Replaces(n) => Listed' = Listed
<1>1. BaseInv /\ FieldsOK
  BY DEF PoolInv
<1>2. /\ Listed' = Elems(Remaining(n)) /\ Elems(Remaining(n)) \subseteq Listed
      /\ ListInv => ListInv'
      /\ ~Replaces(n) => Listed' = Listed
  BY <1>1, RejectKeeps, RemainingFacts DEF Listed
<1>3. \A d \in Listed : no'[d] = no[d]
  BY <1>1, Fresh DEF RejectList
<1>4. OrderInv'
  BY <1>2, InOrder DEF OrderInv, ListInv
<1>5. ASSUME ~lowNumber
      PROVE  \A d \in Listed' : no[d] # NumberFor(n)
  BY <1>2, <1>5, InOrder, RemainingNumbers
<1>6. ASSUME ~lowNumber, NEW d \in Listed'
      PROVE  no'[d] \in DOMAIN command' /\ command'[no'[d]] = d
  <2>1. no'[d] = no[d] /\ no[d] \in DOMAIN command /\ command[no[d]] = d
    BY <1>2, <1>3, <1>6 DEF PoolInv, CommandInv
  <2>2. no[d] # NumberFor(n)
    BY <1>5, <1>6
  <2> QED
    BY <1>1, <2>1, <2>2, UnregisterFields
<1>7. ASSUME ~lowNumber, ~replaced', NEW m \in DOMAIN command'
      PROVE  \E d \in Listed' : no'[d] = m
  <2>1. m \in DOMAIN command /\ Listed' = Listed /\ ~replaced
    BY <1>1, <1>2, <1>7, UnregisterFields
  <2> QED
    BY <1>3, <1>7, <2>1 DEF PoolInv, CommandInv
<1> QED
  BY <1>2, <1>4, <1>6, <1>7 DEF CommandInv
-----------------------------------------------------------------------------
(***************************************************************************)
(* The steps.                                                              *)
(***************************************************************************)
LEMMA CreateDeviceStep ==
  ASSUME PoolInv, NEW n \in Requests, NEW lib \in Libs, CreateDevice(lib, n)
  PROVE  PoolInv'
<1>1. EnterList(n) /\ Register(NumberFor(n), created') /\ class = "cam" /\ class' = class
      /\ lowNumber' = (lowNumber \/ BelowHead(n)) /\ replaced' = (replaced \/ Replaces(n))
      /\ port' = port
  BY DEF CreateDevice, EnterList
<1>2. BaseInv /\ FieldsOK
  BY DEF PoolInv
<1>3. /\ created' \in Devices /\ created' \notin Listed
      /\ NumberFor(n) \in Nat
  BY <1>1, <1>2, Fresh, RemainingFacts DEF EnterList
<1>4. /\ BaseInv' /\ Listed' \subseteq Listed \cup {created'} /\ created' \in Listed'
      /\ ~Replaces(n) => Listed' = Listed \cup {created'}
  BY <1>1, <1>2, EnterKeeps, RemainingFacts DEF Listed
<1>5. /\ thread'[created'] = "running" /\ driver'[created'] = "open"
      /\ libraryName'[created'] = lib /\ alias'[lib] = created'
      /\ \A d \in Devices : d # created' => /\ thread'[d] = thread[d]
                                            /\ driver'[d] = driver[d]
                                            /\ libraryName'[d] = libraryName[d]
      /\ \A l \in Libs : l # lib => alias'[l] = alias[l]
  BY <1>2, <1>3 DEF CreateDevice, FieldsOK
<1>6. FieldsOK'
  <2>1. DOMAIN command' \subseteq Nat /\ \A m \in DOMAIN command' : command'[m] \in Devices
    BY <1>1, <1>2, <1>3, RegisterFields
  <2>2. /\ thread' \in [Devices -> {"none", "running", "released"}]
        /\ driver' \in [Devices -> {"none", "open", "closed"}]
        /\ libraryName' \in [Devices -> Libs \cup {NULL}]
        /\ alias' \in [Libs -> Devices \cup {NULL}]
    BY <1>2, <1>3 DEF CreateDevice, FieldsOK
  <2>3. lowNumber' \in BOOLEAN /\ replaced' \in BOOLEAN
    BY <1>1
  <2>4. class' \in {"cam", "link", "buf"} /\ port' \in [Devices -> Ports \cup {NULL}]
    BY <1>1, <1>2 DEF FieldsOK
  <2> QED
    BY <2>1, <2>2, <2>3, <2>4 DEF FieldsOK
<1>7. OrderInv' /\ CommandInv'
  BY <1>1, EnterCommand
<1>8. ClassInv'
  BY <1>1 DEF ClassInv
<1>9. DriverInv'
  <2>1. ASSUME ~lowNumber' PROVE \A d \in Listed' : driver'[d] = "open"
    <3>1. ~lowNumber
      BY <1>1, <2>1
    <3>2. \A d \in Listed : driver[d] = "open" /\ d \in Devices
      BY <1>1, <1>2, <3>1, PoolFacts DEF PoolInv, DriverInv
    <3> QED
      BY <1>3, <1>4, <1>5, <3>2
  <2>2. ASSUME ~lowNumber', ~replaced', NEW d \in Devices,
               thread'[d] = "running" \/ driver'[d] = "open"
        PROVE  d \in Listed'
    <3>1. ~lowNumber /\ ~replaced /\ Listed' = Listed \cup {created'}
      BY <1>1, <1>4, <2>2
    <3> QED
      BY <1>5, <2>2, <3>1 DEF PoolInv, DriverInv
  <2> QED
    BY <2>1, <2>2 DEF DriverInv
<1>10. AliasInv'
  <2> SUFFICES ASSUME ~replaced', NEW l \in Libs, alias'[l] # NULL
               PROVE  alias'[l] \in Listed' /\ libraryName'[alias'[l]] = l
    BY DEF AliasInv
  <2>1. ~replaced /\ Listed' = Listed \cup {created'}
    BY <1>1, <1>4
  <2>2. CASE l = lib
    BY <1>4, <1>5, <2>2
  <2>3. CASE l # lib
    <3>1. alias[l] \in Listed /\ libraryName[alias[l]] = l /\ alias'[l] = alias[l]
      BY <1>5, <2>1, <2>3 DEF PoolInv, AliasInv
    <3>2. alias[l] \in Devices /\ alias[l] # created'
      BY <1>2, <1>3, <3>1, PoolFacts
    <3> QED
      BY <1>5, <2>1, <3>1, <3>2
  <2> QED
    BY <2>2, <2>3
<1>11. ThreadInv'
  <2>1. \A d \in Listed : thread[d] = "running" /\ d \in Devices
    BY <1>1, <1>2, PoolFacts DEF PoolInv, ThreadInv
  <2> QED
    BY <1>3, <1>4, <1>5, <2>1 DEF ThreadInv
<1>12. PortInv'
  BY <1>1 DEF PortInv
<1> QED
  BY <1>4, <1>6, <1>7, <1>8, <1>9, <1>10, <1>11, <1>12 DEF PoolInv

LEMMA CreateFailsStep ==
  ASSUME PoolInv, NEW n \in Requests, NEW t \in {"none", "released"}, CreateFails(n, t)
  PROVE  PoolInv'
<1>1. /\ RejectList(n) /\ class = "cam" /\ class' = class /\ command' = command
      /\ lowNumber' = lowNumber /\ replaced' = (replaced \/ Replaces(n))
      /\ UNCHANGED <<driver, libraryName, port, alias>>
      /\ thread' = [thread EXCEPT ![created'] = t]
  BY DEF CreateFails, RejectList, ThreadAfterFailure, tcl
<1>2. BaseInv /\ FieldsOK
  BY DEF PoolInv
<1>3. created' \in Devices /\ created' \notin Listed
  BY <1>1, <1>2, Fresh DEF RejectList
<1>4. BaseInv'
  BY <1>1, <1>2, RejectKeeps
<1>5. /\ OrderInv' /\ CommandInv' /\ Listed' \subseteq Listed
      /\ ~Replaces(n) => Listed' = Listed
  BY <1>1, RejectCommand
<1>6. /\ thread'[created'] # "running"
      /\ \A d \in Devices : d # created' => thread'[d] = thread[d]
  BY <1>1, <1>2, <1>3 DEF FieldsOK
<1>7. FieldsOK'
  <2>1. thread' \in [Devices -> {"none", "running", "released"}]
    BY <1>1, <1>2, <1>3 DEF FieldsOK
  <2>2. lowNumber' \in BOOLEAN /\ replaced' \in BOOLEAN
    BY <1>1, <1>2 DEF FieldsOK
  <2> QED
    BY <1>1, <1>2, <2>1, <2>2 DEF FieldsOK
<1>8. ClassInv' /\ PortInv'
  BY <1>1 DEF ClassInv, PortInv
<1>9. DriverInv'
  <2>1. ~lowNumber' => \A d \in Listed' : driver'[d] = "open"
    BY <1>1, <1>5 DEF PoolInv, DriverInv
  <2>2. ASSUME ~lowNumber', ~replaced', NEW d \in Devices,
               thread'[d] = "running" \/ driver'[d] = "open"
        PROVE  d \in Listed'
    BY <1>1, <1>5, <1>6, <2>2 DEF PoolInv, DriverInv
  <2> QED
    BY <2>1, <2>2 DEF DriverInv
<1>10. AliasInv'
  BY <1>1, <1>5 DEF PoolInv, AliasInv
<1>11. ThreadInv'
  <2>1. \A d \in Listed : thread[d] = "running" /\ d \in Devices
    BY <1>1, <1>2, PoolFacts DEF PoolInv, ThreadInv
  <2> QED
    BY <1>3, <1>5, <1>6, <2>1 DEF ThreadInv
<1> QED
  BY <1>4, <1>5, <1>7, <1>8, <1>9, <1>10, <1>11 DEF PoolInv

LEMMA CreateBufferStep == ASSUME PoolInv, CreateBuffer PROVE PoolInv'
<1>1. /\ EnterList(NULL) /\ Register(NumberFor(NULL), created')
      /\ class = "buf" /\ class' = class /\ lowNumber' = lowNumber /\ replaced' = replaced
      /\ UNCHANGED <<thread, driver, libraryName, port, alias>>
  BY DEF CreateBuffer, EnterList, history
<1>2. BaseInv /\ FieldsOK /\ NULL \in Requests /\ ~Replaces(NULL) /\ ~BelowHead(NULL)
  BY NullRequest DEF PoolInv
<1>3. created' \in Devices /\ NumberFor(NULL) \in Nat
  BY <1>1, <1>2, Fresh, RemainingFacts DEF EnterList
<1>4. BaseInv' /\ Listed' = Listed \cup {created'}
  BY <1>1, <1>2, EnterKeeps, RemainingFacts DEF Listed
<1>5. FieldsOK'
  <2>1. DOMAIN command' \subseteq Nat /\ \A m \in DOMAIN command' : command'[m] \in Devices
    BY <1>1, <1>2, <1>3, RegisterFields
  <2> QED
    BY <1>1, <1>2, <2>1 DEF FieldsOK
<1>6. OrderInv' /\ CommandInv'
  <2>1. lowNumber' = (lowNumber \/ BelowHead(NULL)) /\ replaced' = (replaced \/ Replaces(NULL))
    BY <1>1, <1>2 DEF FieldsOK
  <2> QED
    BY <1>1, <1>2, <2>1, EnterCommand
<1>7. ClassInv'
  BY <1>1 DEF PoolInv, ClassInv
<1>8. DriverInv' /\ AliasInv' /\ ThreadInv' /\ PortInv'
  BY <1>1, <1>7 DEF ClassInv, DriverInv, AliasInv, ThreadInv, PortInv
<1> QED
  BY <1>4, <1>5, <1>6, <1>7, <1>8 DEF PoolInv

\* Links alike, with a driver each.
LEMMA CreateLinkStep == ASSUME PoolInv, NEW p \in Ports, CreateLink(p) PROVE PoolInv'
<1>1. /\ EnterList(NULL) /\ Register(NumberFor(NULL), created')
      /\ class = "link" /\ class' = class /\ lowNumber' = lowNumber /\ replaced' = replaced
      /\ UNCHANGED <<thread, libraryName, alias>>
      /\ driver' = [driver EXCEPT ![created'] = "open"]
      /\ port' = [port EXCEPT ![created'] = p]
      /\ ~PortTaken(p)
  BY DEF CreateLink, EnterList, history
<1>2. BaseInv /\ FieldsOK /\ NULL \in Requests /\ ~Replaces(NULL) /\ ~BelowHead(NULL)
      /\ ~lowNumber /\ ~replaced
  BY <1>1, NullRequest DEF PoolInv, ClassInv
<1>3. created' \in Devices /\ created' \notin Listed /\ NumberFor(NULL) \in Nat
  BY <1>1, <1>2, Fresh, RemainingFacts DEF EnterList
<1>4. BaseInv' /\ Listed' = Listed \cup {created'}
  BY <1>1, <1>2, EnterKeeps, RemainingFacts DEF Listed
<1>5. /\ driver'[created'] = "open" /\ port'[created'] = p
      /\ \A d \in Devices : d # created' => driver'[d] = driver[d] /\ port'[d] = port[d]
  BY <1>1, <1>2, <1>3 DEF FieldsOK
<1>6. FieldsOK'
  <2>1. DOMAIN command' \subseteq Nat /\ \A m \in DOMAIN command' : command'[m] \in Devices
    BY <1>1, <1>2, <1>3, RegisterFields
  <2>2. /\ driver' \in [Devices -> {"none", "open", "closed"}]
        /\ port' \in [Devices -> Ports \cup {NULL}]
    BY <1>1, <1>2, <1>3 DEF FieldsOK
  <2> QED
    BY <1>1, <1>2, <2>1, <2>2 DEF FieldsOK
<1>7. OrderInv' /\ CommandInv'
  <2>1. lowNumber' = (lowNumber \/ BelowHead(NULL)) /\ replaced' = (replaced \/ Replaces(NULL))
    BY <1>1, <1>2 DEF FieldsOK
  <2> QED
    BY <1>1, <1>2, <2>1, EnterCommand
<1>8. ClassInv'
  BY <1>1 DEF PoolInv, ClassInv
<1>9. \A d \in Listed : d \in Devices
  BY <1>2, PoolFacts
<1>10. DriverInv'
  BY <1>1, <1>2, <1>3, <1>4, <1>5, <1>9 DEF PoolInv, DriverInv
<1>11. AliasInv' /\ ThreadInv'
  BY <1>1, <1>8 DEF ClassInv, AliasInv, ThreadInv
<1>12. PortInv'
  <2>1. \A d \in Listed : port[d] # p
    <3> SUFFICES ASSUME NEW i \in Positions(pool), port[pool[i]] = p PROVE FALSE
      BY DEF Listed, Elems
    <3>1. pool[i] \in Listed
      BY <1>2, PoolFacts
    <3>2. no[pool[i]] \in DOMAIN command /\ command[no[pool[i]]] = pool[i]
      BY <1>2, <3>1 DEF PoolInv, CommandInv
    <3> QED
      BY <1>1, <3>2 DEF PortTaken
  <2>2. \A d, e \in Listed : port[d] = port[e] => d = e
    BY <1>1 DEF PoolInv, PortInv
  <2>3. ASSUME NEW d \in Listed', NEW e \in Listed', port'[d] = port'[e] PROVE d = e
    <3>1. d \in Listed => port'[d] = port[d] /\ port[d] # p
      BY <1>3, <1>5, <1>9, <2>1
    <3>2. e \in Listed => port'[e] = port[e] /\ port[e] # p
      BY <1>3, <1>5, <1>9, <2>1
    <3> QED
      BY <1>4, <1>5, <2>2, <2>3, <3>1, <3>2
  <2> QED
    BY <2>3 DEF PortInv
<1> QED
  BY <1>4, <1>6, <1>7, <1>8, <1>10, <1>11, <1>12 DEF PoolInv

LEMMA CreateLinkFailsStep ==
  ASSUME PoolInv, NEW p \in Ports, CreateLinkFails(p) PROVE PoolInv'
<1>1. /\ RejectList(NULL) /\ Unregister(NumberFor(NULL))
      /\ class = "link" /\ class' = class /\ lowNumber' = lowNumber /\ replaced' = replaced
      /\ UNCHANGED <<thread, driver, libraryName, port, alias>>
  BY DEF CreateLinkFails, RejectList, history
<1>2. BaseInv /\ FieldsOK /\ NULL \in Requests /\ ~Replaces(NULL)
  BY NullRequest DEF PoolInv
<1>3. BaseInv'
  BY <1>1, <1>2, RejectKeeps
<1>4. OrderInv' /\ CommandInv' /\ Listed' = Listed
  <2>1. replaced' = (replaced \/ Replaces(NULL))
    BY <1>1, <1>2 DEF FieldsOK
  <2> QED
    BY <1>1, <1>2, <2>1, RejectCommand
<1>5. FieldsOK'
  <2>1. DOMAIN command' \subseteq Nat /\ \A m \in DOMAIN command' : command'[m] \in Devices
    BY <1>1, <1>2, UnregisterFields
  <2> QED
    BY <1>1, <1>2, <2>1 DEF FieldsOK
<1>6. ClassInv' /\ DriverInv' /\ AliasInv' /\ ThreadInv' /\ PortInv'
  BY <1>1, <1>4 DEF PoolInv, ClassInv, DriverInv, AliasInv, ThreadInv, PortInv
<1> QED
  BY <1>3, <1>4, <1>5, <1>6 DEF PoolInv

LEMMA NumberFound ==
  ASSUME BaseInv, NEW n \in NumbersInPool
  PROVE  Chercher(pool, n) # 0 /\ n \in Nat
<1>1. PICK i \in Positions(pool) : n = no[pool[i]]
  BY DEF NumbersInPool
<1>2. pool[i] \in Listed /\ n \in Nat
  BY <1>1, PoolFacts
<1> QED
  BY <1>1, <1>2, ChercherFacts

LEMMA DeleteDeviceStep ==
  ASSUME PoolInv, NEW n, DeleteDevice(n) PROVE PoolInv'
<1> DEFINE d == pool[Chercher(pool, n)]
<1>1. /\ LeaveList(n) /\ Unregister(n) /\ CloseThrough(n) /\ Unalias(d)
      /\ class = "cam" /\ class' = class /\ libraryName' = libraryName /\ port' = port
      /\ thread' = [thread EXCEPT ![d] = "released"] /\ UNCHANGED history
  BY DEF DeleteDevice, Withdraw, LeaveList
<1>2. BaseInv /\ FieldsOK /\ BaseInv'
  BY <1>1, LeaveKeeps DEF PoolInv
<1>3. /\ OrderInv' /\ CommandInv'
      /\ d \in Listed /\ d \in Devices /\ no[d] = n /\ Listed' = Listed \ {d}
      /\ ~lowNumber => n \in DOMAIN command /\ command[n] = d
  BY <1>1, LeaveCommand
<1> HIDE DEF d
<1>4. lowNumber' = lowNumber /\ replaced' = replaced
  BY <1>1 DEF history
<1>5. /\ thread'[d] = "released" /\ \A e \in Devices : e # d => thread'[e] = thread[e]
      /\ \A l \in Libs : alias'[l] = IF l = libraryName[d] THEN NULL ELSE alias[l]
  BY <1>1, <1>2, <1>3 DEF FieldsOK, Unalias
<1>6. FieldsOK'
  <2>1. DOMAIN command' \subseteq Nat /\ \A m \in DOMAIN command' : command'[m] \in Devices
    BY <1>1, <1>2, UnregisterFields
  <2>2. /\ thread' \in [Devices -> {"none", "running", "released"}]
        /\ driver' \in [Devices -> {"none", "open", "closed"}]
        /\ alias' \in [Libs -> Devices \cup {NULL}]
    BY <1>1, <1>2, <1>3 DEF FieldsOK, CloseThrough, Unalias
  <2> QED
    BY <1>1, <1>2, <1>4, <2>1, <2>2 DEF FieldsOK
<1>7. ClassInv' /\ PortInv'
  BY <1>1 DEF ClassInv, PortInv
<1>8. DriverInv'
  <2> SUFFICES ASSUME ~lowNumber
               PROVE  /\ \A e \in Listed' : driver'[e] = "open"
                      /\ ~replaced => \A e \in Devices : thread'[e] = "running" \/ driver'[e] = "open"
                                                          => e \in Listed'
    BY <1>4 DEF DriverInv
  <2>1. command[n] = d /\ n \in DOMAIN command /\ \E i \in Positions(pool) : pool[i] = d
    BY <1>3 DEF Listed, Elems
  <2>2. driver' = [driver EXCEPT ![d] = "closed"]
    BY <1>1, <2>1 DEF CloseThrough
  <2>3. driver'[d] = "closed" /\ \A e \in Devices : e # d => driver'[e] = driver[e]
    BY <1>2, <1>3, <2>2 DEF FieldsOK
  <2>4. \A e \in Listed : e \in Devices /\ driver[e] = "open"
    BY <1>1, <1>2, PoolFacts DEF PoolInv, DriverInv
  <2>5. ~replaced => \A e \in Devices : thread[e] = "running" \/ driver[e] = "open" => e \in Listed
    BY DEF PoolInv, DriverInv
  <2> QED
    BY <1>3, <1>5, <2>3, <2>4, <2>5
<1>9. AliasInv'
  <2> SUFFICES ASSUME ~replaced, NEW l \in Libs, alias'[l] # NULL
               PROVE  alias'[l] \in Listed' /\ libraryName[alias'[l]] = l
    BY <1>1, <1>4 DEF AliasInv
  <2>1. alias'[l] = alias[l] /\ l # libraryName[d]
    BY <1>5
  <2>2. alias[l] \in Listed /\ libraryName[alias[l]] = l
    BY <2>1 DEF PoolInv, AliasInv
  <2> QED
    BY <1>3, <2>1, <2>2
<1>10. ThreadInv'
  <2>1. \A e \in Listed : thread[e] = "running" /\ e \in Devices
    BY <1>1, <1>2, PoolFacts DEF PoolInv, ThreadInv
  <2> QED
    BY <1>3, <1>5, <2>1 DEF ThreadInv
<1> QED
  BY <1>2, <1>3, <1>6, <1>7, <1>8, <1>9, <1>10 DEF PoolInv

LEMMA DeleteLinkStep == ASSUME PoolInv, NEW n, DeleteLink(n) PROVE PoolInv'
<1> DEFINE d == pool[Chercher(pool, n)]
<1>1. /\ LeaveList(n) /\ Unregister(n) /\ CloseThrough(n)
      /\ class = "link" /\ class' = class /\ UNCHANGED history
      /\ UNCHANGED <<thread, libraryName, port, alias>>
  BY DEF DeleteLink, Withdraw, LeaveList
<1>2. BaseInv /\ FieldsOK /\ BaseInv' /\ ~lowNumber /\ ~replaced
  BY <1>1, LeaveKeeps DEF PoolInv, ClassInv
<1>3. /\ OrderInv' /\ CommandInv'
      /\ d \in Listed /\ d \in Devices /\ Listed' = Listed \ {d}
      /\ n \in DOMAIN command /\ command[n] = d
  BY <1>1, <1>2, LeaveCommand
<1> HIDE DEF d
<1>4. lowNumber' = lowNumber /\ replaced' = replaced
  BY <1>1 DEF history
<1>5. driver' = [driver EXCEPT ![d] = "closed"]
  <2>1. \E i \in Positions(pool) : pool[i] = d
    BY <1>3 DEF Listed, Elems
  <2> QED
    BY <1>1, <1>3, <2>1 DEF CloseThrough
<1>6. driver'[d] = "closed" /\ \A e \in Devices : e # d => driver'[e] = driver[e]
  BY <1>2, <1>3, <1>5 DEF FieldsOK
<1>7. FieldsOK'
  <2>1. DOMAIN command' \subseteq Nat /\ \A m \in DOMAIN command' : command'[m] \in Devices
    BY <1>1, <1>2, UnregisterFields
  <2>2. driver' \in [Devices -> {"none", "open", "closed"}]
    BY <1>2, <1>3, <1>5 DEF FieldsOK
  <2> QED
    BY <1>1, <1>2, <1>4, <2>1, <2>2 DEF FieldsOK
<1>8. ClassInv'
  BY <1>1, <1>4 DEF PoolInv, ClassInv
<1>9. DriverInv'
  <2>1. \A e \in Listed : e \in Devices /\ driver[e] = "open"
    BY <1>1, <1>2, PoolFacts DEF PoolInv, DriverInv
  <2>2. \A e \in Devices : thread[e] = "running" \/ driver[e] = "open" => e \in Listed
    BY <1>2 DEF PoolInv, DriverInv
  <2>3. \A e \in Listed' : driver'[e] = "open"
    BY <1>3, <1>6, <2>1
  <2>4. ASSUME NEW e \in Devices, thread'[e] = "running" \/ driver'[e] = "open"
        PROVE  e \in Listed'
    <3>1. \A f \in Devices : thread[f] = "none"
      BY <1>1 DEF PoolInv, ClassInv
    <3>2. thread'[e] = "none" /\ thread'[e] # "running"
      BY <1>1, <3>1
    <3>3. driver'[e] = "open" /\ e # d
      BY <1>6, <2>4, <3>2
    <3> QED
      BY <1>3, <1>6, <2>2, <3>3
  <2> QED
    BY <2>3, <2>4 DEF DriverInv
<1>10. AliasInv' /\ ThreadInv' /\ PortInv'
  BY <1>1, <1>3, <1>8 DEF PoolInv, ClassInv, AliasInv, ThreadInv, PortInv
<1> QED
  BY <1>2, <1>3, <1>7, <1>8, <1>9, <1>10 DEF PoolInv

LEMMA DeleteBufferStep == ASSUME PoolInv, NEW n, DeleteBuffer(n) PROVE PoolInv'
<1>1. /\ LeaveList(n) /\ Unregister(n)
      /\ class = "buf" /\ class' = class /\ UNCHANGED history
      /\ UNCHANGED <<thread, driver, libraryName, port, alias>>
  BY DEF DeleteBuffer, Withdraw, LeaveList
<1>2. BaseInv /\ FieldsOK /\ BaseInv'
  BY <1>1, LeaveKeeps DEF PoolInv
<1>3. OrderInv' /\ CommandInv'
  BY <1>1, LeaveCommand
<1>4. lowNumber' = lowNumber /\ replaced' = replaced
  BY <1>1 DEF history
<1>5. FieldsOK'
  <2>1. DOMAIN command' \subseteq Nat /\ \A m \in DOMAIN command' : command'[m] \in Devices
    BY <1>1, <1>2, UnregisterFields
  <2> QED
    BY <1>1, <1>2, <1>4, <2>1 DEF FieldsOK
<1>6. ClassInv'
  BY <1>1, <1>4 DEF PoolInv, ClassInv
<1>7. DriverInv' /\ AliasInv' /\ ThreadInv' /\ PortInv'
  BY <1>1, <1>6 DEF ClassInv, DriverInv, AliasInv, ThreadInv, PortInv
<1> QED
  BY <1>2, <1>3, <1>5, <1>6, <1>7 DEF PoolInv

LEMMA NextPool == PoolInv /\ [Next]_vars => PoolInv'
<1> SUFFICES ASSUME PoolInv, [Next]_vars PROVE PoolInv'
  OBVIOUS
<1>1. CASE \E n \in Requests, lib \in Libs : CreateDevice(lib, n)
  BY <1>1, CreateDeviceStep
<1>2. CASE \E n \in Requests, t \in {"none", "released"} : CreateFails(n, t)
  BY <1>2, CreateFailsStep
<1>3. CASE CreateBuffer
  BY <1>3, CreateBufferStep
<1>4. CASE \E p \in Ports : CreateLink(p) \/ CreateLinkFails(p)
  BY <1>4, CreateLinkStep, CreateLinkFailsStep
<1>5. CASE \E n \in NumbersInPool : DeleteDevice(n) \/ DeleteLink(n) \/ DeleteBuffer(n)
  BY <1>5, DeleteDeviceStep, DeleteLinkStep, DeleteBufferStep
<1>6. CASE UNCHANGED vars
  <2>1. UNCHANGED <<class, created, pool, no, thread, driver, libraryName, port, command, alias,
                    lowNumber, replaced>>
    BY <1>6 DEF vars, list, tcl, history
  <2>2. Listed' = Listed
    BY <2>1 DEF Listed, Elems, Positions
  <2>3. BaseInv' /\ FieldsOK' /\ OrderInv' /\ ClassInv'
    BY <2>1, <2>2 DEF PoolInv, BaseInv, IsList, Positions, FieldsOK, OrderInv, Increasing, ClassInv
  <2>4. CommandInv' /\ DriverInv' /\ AliasInv' /\ ThreadInv' /\ PortInv'
    BY <2>1, <2>2 DEF PoolInv, CommandInv, DriverInv, AliasInv, ThreadInv, PortInv
  <2> QED
    BY <2>3, <2>4 DEF PoolInv
<1> QED
  BY <1>1, <1>2, <1>3, <1>4, <1>5, <1>6 DEF Next

\* The list, the commands, the threads, the drivers and the ports agree in every
\* reachable state.
THEOREM PoolInvariant == Spec => []PoolInv
<1>1. Init => PoolInv
  BY InitPool
<1>2. PoolInv /\ [Next]_vars => PoolInv'
  BY NextPool
<1> QED
  BY <1>1, <1>2, PTL DEF Spec

(***************************************************************************)
(* The properties of DevicePool.                                           *)
(***************************************************************************)
LEMMA ListedInPool ==
  /\ \A d : d \in Listed <=> InPool(d)
  /\ NumbersInPool = {no[d] : d \in Listed}
  BY DEF Listed, Elems, InPool, NumbersInPool

\* Types: whatever the scripts ask for, the list only holds constructed devices.
THEOREM PoolTypes == Spec => []TypeOK
<1>1. PoolInv => TypeOK
  <2> SUFFICES ASSUME PoolInv PROVE TypeOK
    OBVIOUS
  <2>1. BaseInv /\ FieldsOK
    BY DEF PoolInv
  <2>2. \A i \in Positions(pool) : pool[i] <= created /\ no[pool[i]] >= 1
    BY <2>1, PoolFacts DEF BaseInv
  <2> QED
    BY <2>1, <2>2 DEF BaseInv, IsList, FieldsOK, TypeOK
<1> QED
  BY <1>1, PoolInvariant, PTL

\* The list is sorted by number, and no two devices share one, unless a number below
\* that of the head was imposed.
THEOREM Sorted == Spec => []NumbersSorted
<1>1. PoolInv => NumbersSorted
  BY DEF PoolInv, OrderInv, Increasing, NumbersSorted
<1> QED
  BY <1>1, PoolInvariant, PTL

\* The command of each number of the list targets the device of that number, and the
\* command of a library a listed device of that library.
THEOREM CommandsReach == Spec => []CommandsServe
<1>1. PoolInv => CommandsServe
  <2> SUFFICES ASSUME PoolInv PROVE CommandsServe
    OBVIOUS
  <2>1. ASSUME ~lowNumber
        PROVE  /\ \A d \in Listed : no[d] \in DOMAIN command /\ command[no[d]] = d
               /\ ~replaced => \A m \in DOMAIN command : \E d \in Listed : no[d] = m
    BY <2>1 DEF PoolInv, CommandInv
  <2>2. \A i \in Positions(pool) : pool[i] \in Listed
    BY DEF Listed, Elems
  <2>3. ~lowNumber =>
          /\ \A i \in Positions(pool) :
               no[pool[i]] \in DOMAIN command /\ command[no[pool[i]]] = pool[i]
          /\ ~replaced => DOMAIN command \subseteq NumbersInPool
    BY <2>1, <2>2, ListedInPool
  <2>4. ~replaced =>
          \A l \in Libs : alias[l] # NULL => InPool(alias[l]) /\ libraryName[alias[l]] = l
    BY ListedInPool DEF PoolInv, AliasInv
  <2> QED
    BY <2>3, <2>4 DEF CommandsServe
<1> QED
  BY <1>1, PoolInvariant, PTL

\* A listed camera has its thread, and drivers are open while, and only while, their
\* device is listed.
THEOREM ThreadsReach == Spec => []ThreadsServe
<1>1. PoolInv => ThreadsServe
  <2> SUFFICES ASSUME PoolInv PROVE ThreadsServe
    OBVIOUS
  <2>1. ~lowNumber /\ class # "buf" => \A i \in Positions(pool) : driver[pool[i]] = "open"
    BY DEF PoolInv, DriverInv, Listed, Elems
  <2>2. ~lowNumber /\ ~replaced =>
          \A d \in Devices : thread[d] = "running" \/ driver[d] = "open" => InPool(d)
    BY ListedInPool DEF PoolInv, DriverInv
  <2>3. class = "cam" => \A i \in Positions(pool) : thread[pool[i]] = "running"
    BY DEF PoolInv, ThreadInv, Listed, Elems
  <2> QED
    BY <2>1, <2>2, <2>3 DEF ThreadsServe
<1> QED
  BY <1>1, PoolInvariant, PTL

\* A port has one link.
THEOREM OneLinkPerPort == Spec => []PortsDistinct
<1>1. PoolInv => PortsDistinct
  <2> SUFFICES ASSUME PoolInv, class = "link",
                      NEW i \in Positions(pool), NEW j \in Positions(pool),
                      port[pool[i]] = port[pool[j]]
               PROVE  i = j
    BY DEF PortsDistinct
  <2>1. pool[i] \in Listed /\ pool[j] \in Listed
    BY DEF Listed, Elems
  <2>2. pool[i] = pool[j]
    BY <2>1 DEF PoolInv, PortInv
  <2> QED
    BY <2>2 DEF PoolInv, BaseInv, IsList
<1> QED
  BY <1>1, PoolInvariant, PTL

(***************************************************************************)
(* DevicePool implements DeviceNumbers.                                    *)
(***************************************************************************)
LEMMA Pairs == NumberedDevices = {<<no[d], d>> : d \in Listed}
  BY DEF NumberedDevices, Listed, Elems

LEMMA UsedNumbers == Abstract!Used = {no[d] : d \in Listed}
<1>1. \A m : m \in Abstract!Used <=> \E pair \in NumberedDevices : m = pair[1]
  BY DEF Abstract!Used
<1>2. \A d \in Listed : <<no[d], d>> \in NumberedDevices
  BY Pairs
<1>3. \A pair \in NumberedDevices : \E d \in Listed : pair[1] = no[d]
  BY Pairs
<1>4. ASSUME NEW d \in Listed PROVE no[d] \in Abstract!Used
  <2>1. <<no[d], d>>[1] = no[d]
    OBVIOUS
  <2> QED
    BY <1>1, <1>2, <2>1
<1>5. ASSUME NEW m \in Abstract!Used PROVE \E d \in Listed : m = no[d]
  BY <1>1, <1>3
<1> QED
  BY <1>4, <1>5

\* The number AutoNumber returns is the smallest free one.
LEMMA AutoIsSmallest ==
  ASSUME ListInv
  PROVE  /\ Abstract!SmallestFree(AutoNumber(pool))
         /\ AutoNumber(pool) \in {m + 1 : m \in Abstract!Used \cup {0}}
<1> DEFINE s == AutoAfter(pool)
<1>1. /\ s \in 0..Len(pool) /\ AutoNumber(pool) = s + 1
      /\ \A k \in 1..s : no[pool[k]] = k
      /\ \A k \in Positions(pool) : k > s => no[pool[k]] > s + 1
  BY AutoScan
<1>2. /\ s \in Nat /\ Len(pool) \in Nat
      /\ \A k \in Positions(pool) : k \in Nat /\ 1 <= k /\ no[pool[k]] \in Nat
  BY <1>1, PoolFacts DEF ListInv
<1>3. s + 1 \notin Abstract!Used
  <2>1. ASSUME NEW k \in Positions(pool) PROVE no[pool[k]] # s + 1
    <3>1. CASE k <= s
      BY <1>1, <1>2, <3>1
    <3>2. CASE k > s
      BY <1>1, <1>2, <3>2
    <3> QED
      BY <1>2, <3>1, <3>2
  <2> QED
    BY <2>1, UsedNumbers DEF Listed, Elems
<1>4. ASSUME NEW m \in 1..s PROVE m \in Abstract!Used
  <2>1. m \in Positions(pool) /\ no[pool[m]] = m
    BY <1>1, <1>2 DEF Positions
  <2> QED
    BY <2>1, UsedNumbers DEF Listed, Elems
<1>5. Abstract!SmallestFree(s + 1)
  <2>1. s + 1 \in Nat /\ s + 1 >= 1 /\ (s + 1) - 1 = s
    BY <1>2
  <2> HIDE DEF s
  <2> QED
    BY <1>3, <1>4, <2>1 DEF Abstract!SmallestFree
<1>6. s \in Abstract!Used \cup {0}
  <2>1. CASE s = 0
    BY <2>1
  <2>2. CASE s # 0
    <3>1. s \in 1..s
      BY <1>2, <2>2
    <3> QED
      BY <1>4, <3>1
  <2> QED
    BY <2>1, <2>2
<1> HIDE DEF s
<1> QED
  BY <1>1, <1>5, <1>6

LEMMA EnterNumbers ==
  ASSUME ListInv, NEW n \in Requests, EnterList(n)
  PROVE  Abstract!Next
<1> DEFINE d == created'
           k == NumberFor(n)
<1>1. /\ d \in Devices /\ no'[d] = k /\ \A e \in Listed : no'[e] = no[e]
      /\ Listed' = Elems(Remaining(n)) \cup {d}
  BY Fresh, EnterKeeps DEF EnterList, ListInv
<1>2. Elems(Remaining(n)) = {e \in Listed : no[e] # k}
  BY RemainingNumbers
<1>3. NumberedDevices' = {<<no'[e], e>> : e \in Listed'}
  <2>1. NumberedDevices' = {<<no'[pool'[i]], pool'[i]>> : i \in Positions(pool')}
    BY DEF NumberedDevices, Positions
  <2>2. Listed' = {pool'[i] : i \in Positions(pool')}
    BY DEF Listed, Elems, Positions
  <2> QED
    BY <2>1, <2>2
<1> HIDE DEF d, k
<1>4. NumberedDevices' = {pair \in NumberedDevices : pair[1] # k} \cup {<<k, d>>}
  BY <1>1, <1>2, <1>3, Pairs
<1>5. CASE n = NULL
  <2>1. k = AutoNumber(pool)
    BY <1>5 DEF k, NumberFor
  <2>2. k \notin Abstract!Used /\ Abstract!SmallestFree(k)
        /\ k \in {m + 1 : m \in Abstract!Used \cup {0}}
    BY <2>1, AutoIsSmallest DEF Abstract!SmallestFree
  <2>3. \A pair \in NumberedDevices : pair[1] # k
    BY <2>2 DEF Abstract!Used
  <2>4. NumberedDevices' = NumberedDevices \cup {<<k, d>>}
    BY <1>4, <2>3
  <2>5. Abstract!Number(d)
    BY <2>2, <2>4 DEF Abstract!Number
  <2> QED
    BY <1>1, <2>5 DEF Abstract!Next
<1>6. CASE n # NULL
  <2>1. k = n /\ n \in Requests \ {NULL}
    BY <1>6 DEF k, NumberFor
  <2>2. Abstract!Impose(n, d)
    BY <1>4, <2>1 DEF Abstract!Impose, Abstract!Without
  <2> QED
    BY <1>1, <2>1, <2>2 DEF Abstract!Next
<1> QED
  BY <1>5, <1>6

LEMMA RejectNumbers ==
  ASSUME ListInv, NEW n \in Requests, RejectList(n)
  PROVE  [Abstract!Next]_NumberedDevices
<1> DEFINE k == NumberFor(n)
<1>1. Listed' = {e \in Listed : no[e] # k} /\ \A e \in Listed : no'[e] = no[e]
  BY Fresh, RejectKeeps, RemainingNumbers DEF RejectList, ListInv
<1>2. NumberedDevices' = {<<no'[e], e>> : e \in Listed'}
  <2>1. NumberedDevices' = {<<no'[pool'[i]], pool'[i]>> : i \in Positions(pool')}
    BY DEF NumberedDevices, Positions
  <2>2. Listed' = {pool'[i] : i \in Positions(pool')}
    BY DEF Listed, Elems, Positions
  <2> QED
    BY <2>1, <2>2
<1> HIDE DEF k
<1>3. NumberedDevices' = {pair \in NumberedDevices : pair[1] # k}
  BY <1>1, <1>2, Pairs
<1>4. Abstract!Free(k)
  BY <1>3 DEF Abstract!Free, Abstract!Without
<1>5. CASE k \in Abstract!Used
  BY <1>4, <1>5 DEF Abstract!Next
<1>6. CASE k \notin Abstract!Used
  BY <1>3, <1>6 DEF Abstract!Used
<1> QED
  BY <1>5, <1>6

LEMMA LeaveNumbers ==
  ASSUME ListInv, NEW n, LeaveList(n)
  PROVE  Abstract!Next
<1> DEFINE d == pool[Chercher(pool, n)]
<1>1. d \in Listed /\ no[d] = n /\ Listed' = Listed \ {d} /\ no' = no
  BY LeaveKeeps DEF ListInv, LeaveList
<1> HIDE DEF d
<1>2. NumberedDevices' = {<<no[e], e>> : e \in Listed'}
  <2>1. NumberedDevices' = {<<no[pool'[i]], pool'[i]>> : i \in Positions(pool')}
    BY <1>1 DEF NumberedDevices, Positions
  <2>2. Listed' = {pool'[i] : i \in Positions(pool')}
    BY DEF Listed, Elems, Positions
  <2> QED
    BY <2>1, <2>2
<1>3. \A e \in Listed : no[e] = n <=> e = d
  BY <1>1, NumbersDistinct
<1>4. NumberedDevices' = {pair \in NumberedDevices : pair[1] # n}
  BY <1>1, <1>2, <1>3, Pairs
<1>5. Abstract!Free(n) /\ n \in Abstract!Used
  BY <1>1, <1>4, UsedNumbers DEF Abstract!Free, Abstract!Without
<1> QED
  BY <1>5 DEF Abstract!Next

LEMMA StepNumbers ==
  ASSUME PoolInv, ~lowNumber, [Next]_vars
  PROVE  [Abstract!Next]_NumberedDevices
<1>1. ListInv
  BY DEF PoolInv, OrderInv, ListInv
<1>2. CASE \E n \in Requests : EnterList(n)
  BY <1>1, <1>2, EnterNumbers
<1>3. CASE \E n \in Requests : RejectList(n)
  BY <1>1, <1>3, RejectNumbers
<1>4. CASE \E n : LeaveList(n)
  BY <1>1, <1>4, LeaveNumbers
<1>5. CASE UNCHANGED vars
  <2>1. pool' = pool /\ no' = no
    BY <1>5 DEF vars, list
  <2> QED
    BY <2>1 DEF NumberedDevices, Positions
<1>6. CASE Next
  <2>1. CASE \E n \in Requests, lib \in Libs : CreateDevice(lib, n)
    BY <1>2, <2>1 DEF CreateDevice, EnterList
  <2>2. CASE \E n \in Requests, t \in {"none", "released"} : CreateFails(n, t)
    BY <1>3, <2>2 DEF CreateFails, RejectList
  <2>3. CASE CreateBuffer
    BY <1>2, <2>3, NullRequest DEF CreateBuffer, EnterList
  <2>4. CASE \E p \in Ports : CreateLink(p)
    BY <1>2, <2>4, NullRequest DEF CreateLink, EnterList
  <2>5. CASE \E p \in Ports : CreateLinkFails(p)
    BY <1>3, <2>5, NullRequest DEF CreateLinkFails, RejectList
  <2>6. CASE \E n \in NumbersInPool : DeleteDevice(n) \/ DeleteLink(n) \/ DeleteBuffer(n)
    BY <1>4, <2>6 DEF DeleteDevice, DeleteLink, DeleteBuffer, Withdraw, LeaveList
  <2> QED
    BY <1>6, <2>1, <2>2, <2>3, <2>4, <2>5, <2>6 DEF Next
<1> QED
  BY <1>5, <1>6

\* A device gets the number its script imposes, else the smallest free one, in any
\* order of creations, failures and deletions that imposes no number below the head.
THEOREM SmallestNumber == Spec => NumbersAllocatedInOrder
<1>1. Init => Abstract!Init
  <2> SUFFICES ASSUME Init PROVE NumberedDevices = {}
    BY DEF Abstract!Init
  <2>1. pool = <<>>
    BY DEF Init
  <2>2. Positions(pool) = {}
    BY <2>1 DEF Positions
  <2> QED
    BY <2>2 DEF NumberedDevices
<1>2. PoolInv /\ [Next]_vars => [lowNumber \/ Abstract!Next]_NumberedDevices
  BY StepNumbers
<1> QED
  BY <1>1, <1>2, PoolInvariant, PTL DEF Spec, NumbersAllocatedInOrder
=============================================================================
