-------------------------- MODULE ProbeTableProofs --------------------------
(***************************************************************************)
(* A probe table is a map: whatever was put under a key, and nothing else, *)
(* is found under it, for every hash, capacity and order of insertions,    *)
(* and however often the table has doubled.                                *)
(***************************************************************************)
EXTENDS ProbeTable, FiniteSetTheorems, WellFoundedInduction, TLAPS

LEMMA LeastOf ==
    ASSUME NEW T, T \subseteq Nat, T # {}
    PROVE  \E x \in T : \A y \in T : x <= y
<1>1. PICK x \in T : \A y \in T : ~ (<<y, x>> \in OpToRel(<, Nat))
  BY NatLessThanWellFounded, WFMin
<1>2. \A y \in T : ~ (y < x)
  BY <1>1 DEF OpToRel
<1> QED BY <1>2

-----------------------------------------------------------------------------
(* Slots of a probe, on a circle of c slots from h on. *)

LEMMA Remainder ==
    ASSUME NEW c \in Nat \ {0}, NEW q \in Nat, NEW s \in 0 .. c - 1
    PROVE  (c * q + s) % c = s
OBVIOUS

\* Going d on from h: no further than once around.
LEMMA Around ==
    ASSUME NEW c \in Nat \ {0}, NEW h \in Nat, NEW d \in 0 .. c - 1
    PROVE  /\ h % c \in 0 .. c - 1
           /\ (h + d) % c = IF (h % c) + d < c THEN (h % c) + d ELSE (h % c) + d - c
<1> DEFINE q == h \div c
           r == h % c
<1>1. q \in Nat /\ r \in 0 .. c - 1
  OBVIOUS
<1>2. h = c * q + r
  OBVIOUS
<1> HIDE DEF q, r
<1>3. CASE r + d < c
  <2>1. h + d = c * q + (r + d) /\ r + d \in 0 .. c - 1
    BY <1>1, <1>2, <1>3
  <2>2. (c * q + (r + d)) % c = r + d
    BY <1>1, <2>1, Remainder
  <2> QED BY <1>1, <1>3, <2>1, <2>2 DEF r
<1>4. CASE ~(r + d < c)
  <2>1. h + d = c * (q + 1) + (r + d - c) /\ r + d - c \in 0 .. c - 1 /\ q + 1 \in Nat
    BY <1>1, <1>2, <1>4
  <2>2. (c * (q + 1) + (r + d - c)) % c = r + d - c
    BY <2>1, Remainder
  <2> QED BY <1>1, <1>4, <2>1, <2>2 DEF r
<1> QED BY <1>3, <1>4

\* A probe meets every slot, and none twice.
LEMMA Circle ==
    ASSUME NEW c \in Nat \ {0}, NEW h \in Nat
    PROVE  /\ \A d \in 0 .. c - 1 : (h + d) % c \in 0 .. c - 1
           /\ \A d, e \in 0 .. c - 1 : (h + d) % c = (h + e) % c => d = e
           /\ \A j \in 0 .. c - 1 : \E d \in 0 .. c - 1 : (h + d) % c = j
<1> DEFINE r == h % c
<1>1. r \in 0 .. c - 1
  OBVIOUS
<1>2. \A d \in 0 .. c - 1 : (h + d) % c = IF r + d < c THEN r + d ELSE r + d - c
  BY Around
<1> HIDE DEF r
<1>3. ASSUME NEW j \in 0 .. c - 1 PROVE \E d \in 0 .. c - 1 : (h + d) % c = j
  <2>1. CASE j >= r
    <3>1. j - r \in 0 .. c - 1 /\ r + (j - r) = j /\ r + (j - r) < c
      BY <1>1, <2>1
    <3> QED BY <1>2, <3>1
  <2>2. CASE ~(j >= r)
    <3>1. j - r + c \in 0 .. c - 1 /\ ~(r + (j - r + c) < c) /\ r + (j - r + c) - c = j
      BY <1>1, <2>2
    <3> QED BY <1>2, <3>1
  <2> QED BY <2>1, <2>2
<1>4. ASSUME NEW d \in 0 .. c - 1 PROVE (h + d) % c \in 0 .. c - 1
  <2>1. (h + d) % c = IF r + d < c THEN r + d ELSE r + d - c
    BY <1>2
  <2> QED BY <1>1, <2>1
<1>5. ASSUME NEW d \in 0 .. c - 1, NEW e \in 0 .. c - 1, (h + d) % c = (h + e) % c PROVE d = e
  <2>1. /\ (h + d) % c = IF r + d < c THEN r + d ELSE r + d - c
        /\ (h + e) % c = IF r + e < c THEN r + e ELSE r + e - c
    BY <1>2
  <2>2. (IF r + d < c THEN r + d ELSE r + d - c) = (IF r + e < c THEN r + e ELSE r + e - c)
    BY <1>5, <2>1
  <2>3. c \in Nat /\ r \in Nat /\ d \in Nat /\ e \in Nat /\ r < c /\ d < c /\ e < c
    BY <1>1
  <2>4. CASE r + d < c /\ r + e < c
    <3>1. r + d = r + e
      BY <2>2, <2>4
    <3> QED BY <2>3, <3>1
  <2>5. CASE r + d < c /\ ~(r + e < c)
    <3>1. r + d = r + e - c
      BY <2>2, <2>5
    <3> QED BY <2>3, <3>1
  <2>6. CASE ~(r + d < c) /\ r + e < c
    <3>1. r + d - c = r + e
      BY <2>2, <2>6
    <3> QED BY <2>3, <3>1
  <2>7. CASE ~(r + d < c) /\ ~(r + e < c)
    <3>1. r + d - c = r + e - c
      BY <2>2, <2>7
    <3> QED BY <2>3, <3>1
  <2> QED BY <2>4, <2>5, <2>6, <2>7
<1> QED BY <1>3, <1>4, <1>5
-----------------------------------------------------------------------------
(* A good table has every entry on its own probe, behind entries of other  *)
(* keys, and an empty slot, at which every probe ends.                     *)

At(t, k, d) == (Home(k) + d) % Cap(t)

\* Where a probe for k stops.
Stops(t, k, d) == t[At(t, k, d)] = Empty \/ t[At(t, k, d)].key = k
Reaches(t, k, d) == \A e \in 0 .. d - 1 : ~Stops(t, k, e)

Sized(t) == Cap(t) \in Nat \ {0} /\ DOMAIN t = 0 .. Cap(t) - 1

InPlace(t, i) ==
    \E d \in DOMAIN t : i = At(t, t[i].key, d) /\ Reaches(t, t[i].key, d)

Hashed(K) == \A k \in K : Home(k) \in Nat

Entry(k, v) == [key |-> k, val |-> v]

Good(t, K) ==
    /\ Sized(t) /\ Hashed(K) /\ Cap(t) # 1
    /\ t = [i \in DOMAIN t |-> t[i]]
    /\ \A i \in Entries(t) :
          t[i].key \in K /\ t[i] = Entry(t[i].key, t[i].val) /\ InPlace(t, i)
    /\ Cardinality(Entries(t)) < Cap(t)

LEMMA Numbers ==
    ASSUME NEW t, Sized(t)
    PROVE  /\ Entries(t) \subseteq DOMAIN t /\ IsFiniteSet(DOMAIN t) /\ IsFiniteSet(Entries(t))
           /\ Cardinality(Entries(t)) \in Nat
<1>1. IsFiniteSet(DOMAIN t)
  BY FS_Interval DEF Sized
<1>2. Entries(t) \subseteq DOMAIN t
  BY DEF Entries
<1> QED BY <1>1, <1>2, FS_Subset, FS_CardinalityType

LEMMA Slots ==
    ASSUME NEW t, NEW K, Good(t, K), NEW k \in K
    PROVE  /\ \A d \in DOMAIN t : At(t, k, d) \in DOMAIN t /\ d \in Nat
           /\ \A d, e \in DOMAIN t : At(t, k, d) = At(t, k, e) => d = e
           /\ \A j \in DOMAIN t : \E d \in DOMAIN t : At(t, k, d) = j
           /\ \A d \in DOMAIN t : \A e \in 0 .. d - 1 : e \in DOMAIN t
<1>1. Cap(t) \in Nat \ {0} /\ DOMAIN t = 0 .. Cap(t) - 1 /\ Home(k) \in Nat
  BY DEF Good, Sized, Hashed
<1> DEFINE c == Cap(t)
           h == Home(k)
<1>2. /\ \A d \in 0 .. c - 1 : (h + d) % c \in 0 .. c - 1
      /\ \A d, e \in 0 .. c - 1 : (h + d) % c = (h + e) % c => d = e
      /\ \A j \in 0 .. c - 1 : \E d \in 0 .. c - 1 : (h + d) % c = j
  BY <1>1, Circle
<1>3. \A d \in DOMAIN t : \A e \in 0 .. d - 1 : e \in DOMAIN t
  BY <1>1
<1> QED BY <1>1, <1>2, <1>3 DEF At

\* The probe stops for the first time at d.
First(t, k, d) == d \in DOMAIN t /\ Stops(t, k, d) /\ Reaches(t, k, d)

LEMMA SlotIs ==
    ASSUME NEW t, NEW K, Good(t, K), NEW k \in K, NEW d, First(t, k, d)
    PROVE  Slot(t, k) = At(t, k, d)
<1> DEFINE x == CHOOSE y \in DOMAIN t : Stops(t, k, y) /\ Reaches(t, k, y)
<1>1. Slot(t, k) = At(t, k, x)
  BY DEF Slot, At, Stops, Reaches
<1>2. First(t, k, x)
  BY DEF First
<1> HIDE DEF x
<1>3. d \in Nat /\ x \in Nat
  BY <1>2, Slots DEF First
<1>4. ~(d < x) /\ ~(x < d)
  BY <1>2, <1>3 DEF First, Reaches
<1> QED BY <1>1, <1>3, <1>4

\* A probe that stops anywhere has a first stop.
LEMMA FirstStop ==
    ASSUME NEW t, NEW K, Good(t, K), NEW k \in K, NEW d \in DOMAIN t, Stops(t, k, d)
    PROVE  \E e \in DOMAIN t : First(t, k, e)
<1> DEFINE T == {e \in DOMAIN t : Stops(t, k, e)}
<1>1. T \subseteq Nat /\ T # {}
  BY Slots
<1> HIDE DEF T
<1>2. PICK e \in T : \A y \in T : e <= y
  BY <1>1, LeastOf
<1> USE DEF T
<1>3. e \in DOMAIN t /\ e \in Nat /\ Stops(t, k, e)
  BY <1>1, <1>2
<1>4. Reaches(t, k, e)
  <2> SUFFICES ASSUME NEW y \in 0 .. e - 1, Stops(t, k, y) PROVE FALSE
    BY DEF Reaches
  <2>1. y \in DOMAIN t
    BY <1>3, Slots
  <2>2. y \in T /\ y < e /\ y \in Nat
    BY <1>3, <2>1
  <2> QED BY <1>2, <1>3, <2>2
<1> QED BY <1>3, <1>4 DEF First

\* An entry is found by its key.
LEMMA FindHeld ==
    ASSUME NEW t, NEW K, Good(t, K), NEW i \in Entries(t)
    PROVE  Slot(t, t[i].key) = i /\ Find(t, t[i].key) = t[i]
<1>1. t[i].key \in K /\ i \in DOMAIN t
  BY DEF Good, Entries
<1>2. PICK d \in DOMAIN t : i = At(t, t[i].key, d) /\ Reaches(t, t[i].key, d)
  BY DEF Good, InPlace
<1>3. First(t, t[i].key, d)
  BY <1>2 DEF First, Stops
<1> QED BY <1>1, <1>2, <1>3, SlotIs DEF Find

\* There is a first stop for every key.
LEMMA ProbeEnds ==
    ASSUME NEW t, NEW K, Good(t, K), NEW k \in K
    PROVE  \E d \in DOMAIN t : First(t, k, d) /\ Slot(t, k) = At(t, k, d)
<1>1. PICK j \in DOMAIN t : t[j] = Empty
  <2>1. Entries(t) # DOMAIN t
    <3>1. Cardinality(Entries(t)) < Cap(t) /\ Cap(t) \in Nat
      BY DEF Good, Sized
    <3>2. Cap(t) = Cardinality(DOMAIN t)
      BY DEF Cap
    <3> QED BY <3>1, <3>2
  <2> QED BY <2>1 DEF Entries
<1>2. PICK d \in DOMAIN t : At(t, k, d) = j
  BY Slots
<1>3. Stops(t, k, d)
  BY <1>1, <1>2 DEF Stops
<1>4. PICK e \in DOMAIN t : First(t, k, e)
  BY <1>3, FirstStop
<1> QED BY <1>4, SlotIs

\* What is found under a key is an entry of the key, or nothing.
LEMMA FindIs ==
    ASSUME NEW t, NEW K, Good(t, K), NEW k \in K
    PROVE  /\ Slot(t, k) \in DOMAIN t
           /\ Find(t, k) # Empty => Find(t, k).key = k /\ Slot(t, k) \in Entries(t)
           /\ (\A i \in Entries(t) : t[i].key # k) <=> Find(t, k) = Empty
<1>1. PICK d \in DOMAIN t : First(t, k, d) /\ Slot(t, k) = At(t, k, d)
  BY ProbeEnds
<1>2. Slot(t, k) \in DOMAIN t
  BY <1>1, Slots
<1>3. Find(t, k) = Empty \/ Find(t, k).key = k
  BY <1>1 DEF First, Stops, Find
<1>4. Find(t, k) # Empty => Slot(t, k) \in Entries(t)
  BY <1>2 DEF Find, Entries
<1>5. ASSUME NEW i \in Entries(t), t[i].key = k PROVE Find(t, k) # Empty
  <2>1. Find(t, k) = t[i]
    BY <1>5, FindHeld
  <2> QED BY <2>1 DEF Entries
<1> QED BY <1>2, <1>3, <1>4, <1>5 DEF Find

-----------------------------------------------------------------------------
(* Insertion.                                                              *)

\* A new table is good, and nothing is found in it.
LEMMA NewGood ==
    ASSUME NEW cap \in Nat \ {0, 1}, NEW K, Hashed(K)
    PROVE  /\ Good(NewTable(cap), K) /\ Cap(NewTable(cap)) = cap
           /\ Entries(NewTable(cap)) = {}
           /\ \A k \in K : Find(NewTable(cap), k) = Empty
<1> DEFINE t == NewTable(cap)
<1>1. DOMAIN t = 0 .. cap - 1 /\ \A i \in DOMAIN t : t[i] = Empty
  BY DEF NewTable
<1>2. t = [i \in DOMAIN t |-> t[i]]
  BY DEF NewTable
<1>3. Cardinality(0 .. cap - 1) = cap
  BY FS_Interval
<1> HIDE DEF t
<1>4. Cap(t) = cap
  BY <1>1, <1>3 DEF Cap
<1>5. Entries(t) = {} /\ Cardinality(Entries(t)) = 0
  BY <1>1, FS_EmptySet DEF Entries
<1>6. Good(t, K)
  BY <1>1, <1>2, <1>4, <1>5 DEF Good, Sized
<1> QED BY <1>4, <1>5, <1>6, FindIs DEF t

\* There is room for one entry more.
Roomy(t) == Cardinality(Entries(t)) + 1 < Cap(t)

\* What an insertion is made with.
Inserting(t, K, k, v) == Good(t, K) /\ Roomy(t) /\ k \in K /\ Entry(k, v) # Empty

\* The slots of a table after it.
LEMMA PutSlots ==
    ASSUME NEW t, NEW K, NEW k, NEW v, Inserting(t, K, k, v)
    PROVE  LET u == Put(t, k, v)
               s == Slot(t, k)
           IN  /\ DOMAIN u = DOMAIN t /\ Cap(u) = Cap(t) /\ s \in DOMAIN t
               /\ u = [i \in DOMAIN u |-> u[i]]
               /\ u[s] = Entry(k, v) /\ u[s].key = k /\ u[s] # Empty
               /\ t[s] = Empty \/ t[s].key = k
               /\ \A i \in DOMAIN t : i # s => u[i] = t[i]
<1> DEFINE s == Slot(t, k)
           e == Entry(k, v)
           u == [t EXCEPT ![s] = e]
<1>1. Put(t, k, v) = u
  BY DEF Put, Entry
<1>2. s \in DOMAIN t /\ t = [i \in DOMAIN t |-> t[i]]
  BY FindIs DEF Inserting, Good
<1>3. t[s] = Empty \/ t[s].key = k
  BY FindIs DEF Inserting, Find
<1>4. e # Empty /\ e.key = k
  BY DEF Inserting, Entry
<1> HIDE DEF s, e
<1>5. DOMAIN u = DOMAIN t /\ u[s] = e /\ u = [i \in DOMAIN u |-> u[i]]
      /\ \A i \in DOMAIN t : i # s => u[i] = t[i]
  BY <1>2
<1>6. Cap(u) = Cap(t)
  BY <1>5 DEF Cap
<1> QED BY <1>1, <1>2, <1>3, <1>4, <1>5, <1>6 DEF s, e

\* After it no probe stops where it did not stop before, but at the new entry.
LEMMA PutReaches ==
    ASSUME NEW t, NEW K, NEW k, NEW v, Inserting(t, K, k, v), NEW l \in K,
           NEW d \in DOMAIN t, Reaches(t, l, d)
    PROVE  Reaches(Put(t, k, v), l, d)
<1> DEFINE u == Put(t, k, v)
           s == Slot(t, k)
<1>1. /\ Cap(u) = Cap(t) /\ u[s].key = k /\ u[s] # Empty /\ (t[s] = Empty \/ t[s].key = k)
      /\ \A i \in DOMAIN t : i # s => u[i] = t[i]
  BY PutSlots
<1> HIDE DEF u, s
<1> SUFFICES ASSUME NEW e \in 0 .. d - 1, Stops(u, l, e) PROVE FALSE
  BY DEF Reaches, u
<1>2. e \in DOMAIN t /\ At(t, l, e) \in DOMAIN t
  BY Slots DEF Inserting
<1>3. At(u, l, e) = At(t, l, e)
  BY <1>1 DEF At
<1>4. ~Stops(t, l, e)
  BY DEF Reaches
<1>5. CASE At(t, l, e) = s
  BY <1>1, <1>3, <1>4, <1>5 DEF Stops
<1>6. CASE At(t, l, e) # s
  BY <1>1, <1>2, <1>3, <1>4, <1>6 DEF Stops
<1> QED BY <1>5, <1>6

\* A good table stays good, and has at most one entry more.
LEMMA PutGood ==
    ASSUME NEW t, NEW K, NEW k, NEW v, Inserting(t, K, k, v)
    PROVE  /\ Good(Put(t, k, v), K)
           /\ Cardinality(Entries(Put(t, k, v))) <= Cardinality(Entries(t)) + 1
<1> DEFINE u == Put(t, k, v)
           s == Slot(t, k)
<1>1. /\ DOMAIN u = DOMAIN t /\ Cap(u) = Cap(t) /\ s \in DOMAIN t
      /\ u = [i \in DOMAIN u |-> u[i]]
      /\ u[s] = Entry(k, v) /\ u[s].key = k /\ u[s] # Empty
      /\ \A i \in DOMAIN t : i # s => u[i] = t[i]
  BY PutSlots
<1>2. \A l \in K : \A d \in DOMAIN t : Reaches(t, l, d) => Reaches(u, l, d)
  BY PutReaches
<1>3. Good(t, K) /\ Roomy(t) /\ k \in K /\ Sized(t)
  BY DEF Inserting, Good
<1>4. \E d \in DOMAIN t : First(t, k, d) /\ s = At(t, k, d)
  BY <1>3, ProbeEnds
<1> HIDE DEF u, s
<1>5. Sized(u)
  BY <1>1, <1>3 DEF Sized
<1>6. Entries(u) = Entries(t) \union {s}
  BY <1>1 DEF Entries
<1>7. /\ IsFiniteSet(Entries(t)) /\ Cardinality(Entries(t)) \in Nat
      /\ Cardinality(Entries(t) \union {s}) \in Nat
      /\ Cardinality(Entries(t) \union {s}) <= Cardinality(Entries(t)) + 1
  <2>1. IsFiniteSet(Entries(t)) /\ Cardinality(Entries(t)) \in Nat
    BY <1>3, Numbers
  <2> QED BY <2>1, FS_AddElement
<1>8. Cardinality(Entries(u)) <= Cardinality(Entries(t)) + 1 /\ Cardinality(Entries(u)) < Cap(u)
  <2>1. Cap(t) \in Nat /\ Cardinality(Entries(t)) + 1 < Cap(t)
    BY <1>3 DEF Roomy, Sized
  <2>2. Cardinality(Entries(u)) \in Nat /\ Cardinality(Entries(u)) <= Cardinality(Entries(t)) + 1
    BY <1>6, <1>7
  <2> QED BY <1>1, <1>7, <2>1, <2>2
<1>9. ASSUME NEW i \in Entries(u)
      PROVE  u[i].key \in K /\ u[i] = Entry(u[i].key, u[i].val) /\ InPlace(u, i)
  <2>1. CASE i = s
    <3>1. u[i].key \in K /\ u[i] = Entry(u[i].key, u[i].val)
      <4>1. Entry(k, v).val = v
        BY DEF Entry
      <4> QED BY <1>1, <1>3, <2>1, <4>1
    <3>2. PICK d \in DOMAIN t : First(t, k, d) /\ s = At(t, k, d)
      BY <1>4
    <3>3. Reaches(u, k, d) /\ s = At(u, k, d)
      BY <1>1, <1>2, <1>3, <3>2 DEF First, At
    <3> QED BY <1>1, <2>1, <3>1, <3>3 DEF InPlace
  <2>2. CASE i # s
    <3>1. i \in Entries(t) /\ i \in DOMAIN t /\ u[i] = t[i]
      BY <1>1, <1>6, <2>2 DEF Entries
    <3>2. t[i].key \in K /\ t[i] = Entry(t[i].key, t[i].val) /\ InPlace(t, i)
      BY <1>3, <3>1 DEF Good
    <3>3. PICK d \in DOMAIN t : i = At(t, t[i].key, d) /\ Reaches(t, t[i].key, d)
      BY <3>2 DEF InPlace
    <3>4. Reaches(u, u[i].key, d) /\ i = At(u, u[i].key, d)
      BY <1>1, <1>2, <3>1, <3>2, <3>3 DEF At
    <3> QED BY <1>1, <3>1, <3>2, <3>4 DEF InPlace
  <2> QED BY <2>1, <2>2
<1>10. Hashed(K) /\ Cap(u) # 1
  BY <1>1, <1>3 DEF Good
<1>11. Good(u, K)
  BY <1>1, <1>5, <1>8, <1>9, <1>10 DEF Good
<1> QED BY <1>8, <1>11 DEF u

\* It changes what is found under its key, and under no other.
LEMMA FindPut ==
    ASSUME NEW t, NEW K, NEW k, NEW v, Inserting(t, K, k, v), NEW l \in K
    PROVE  Find(Put(t, k, v), l) = IF l = k THEN Entry(k, v) ELSE Find(t, l)
<1> DEFINE u == Put(t, k, v)
           s == Slot(t, k)
<1>1. /\ DOMAIN u = DOMAIN t /\ s \in DOMAIN t /\ (t[s] = Empty \/ t[s].key = k)
      /\ u[s] = Entry(k, v) /\ u[s].key = k /\ u[s] # Empty
      /\ \A i \in DOMAIN t : i # s => u[i] = t[i]
  BY PutSlots
<1>2. Good(u, K)
  BY PutGood
<1>3. Good(t, K)
  BY DEF Inserting
<1> HIDE DEF u, s
<1>4. CASE l = k
  <2>1. s \in Entries(u)
    BY <1>1 DEF Entries
  <2>2. Find(u, k) = u[s]
    BY <1>1, <1>2, <2>1, FindHeld
  <2> QED BY <1>1, <1>4, <2>2 DEF u
<1>5. CASE l # k
  <2>1. CASE Find(t, l) = Empty
    <3>1. \A i \in Entries(t) : t[i].key # l
      BY <1>3, <2>1, FindIs
    <3>2. ASSUME NEW i \in Entries(u) PROVE u[i].key # l
      <4>1. CASE i = s
        BY <1>1, <1>5, <4>1
      <4>2. CASE i # s
        <5>1. i \in Entries(t) /\ u[i] = t[i]
          BY <1>1, <4>2 DEF Entries
        <5> QED BY <3>1, <5>1
      <4> QED BY <4>1, <4>2
    <3>3. Find(u, l) = Empty
      BY <1>2, <3>2, FindIs
    <3> QED BY <1>5, <2>1, <3>3 DEF u
  <2>2. CASE Find(t, l) # Empty
    <3> DEFINE j == Slot(t, l)
    <3>1. j \in Entries(t) /\ j \in DOMAIN t /\ t[j] = Find(t, l) /\ t[j].key = l /\ t[j] # Empty
      BY <1>3, <2>2, FindIs DEF Find
    <3> HIDE DEF j
    <3>2. j # s
      BY <1>1, <1>5, <3>1
    <3>3. u[j] = t[j] /\ j \in Entries(u) /\ u[j].key = l
      BY <1>1, <3>1, <3>2 DEF Entries
    <3>4. Find(u, l) = u[j]
      BY <1>2, <3>3, FindHeld
    <3> QED BY <1>5, <3>1, <3>3, <3>4 DEF u
  <2> QED BY <2>1, <2>2
<1> QED BY <1>4, <1>5

-----------------------------------------------------------------------------
(* Doubling.                                                               *)

\* One slot of the old table is moved to the new one, m.
Move(m, e) == IF e = Empty THEN m ELSE Put(m, e.key, e.val)
Moves(f, t, n) ==
    f = [i \in 0 .. n |-> IF i = 0 THEN NewTable(2 * Cap(t)) ELSE Move(f[i - 1], t[i - 1])]

\* The loop over the old slots has a result.
LEMMA MovesExist ==
    ASSUME NEW t, NEW n \in Nat
    PROVE  \E f : Moves(f, t, n)
<1> DEFINE T == {k \in Nat : ~\E f : Moves(f, t, k)}
<1>1. CASE T = {}
  BY <1>1
<1>2. CASE T # {}
  <2>1. PICK k \in T : \A l \in T : k <= l
    <3>1. T \subseteq Nat
      OBVIOUS
    <3> HIDE DEF T
    <3> QED BY <1>2, <3>1, LeastOf
  <2>2. CASE k = 0
    <3>1. Moves([i \in 0 .. 0 |-> NewTable(2 * Cap(t))], t, 0)
      BY DEF Moves
    <3> QED BY <2>1, <2>2, <3>1
  <2>3. CASE k # 0
    <3>1. k \in Nat /\ k - 1 \in Nat /\ k - 1 \notin T
      BY <2>1, <2>3
    <3>2. PICK f : Moves(f, t, k - 1)
      BY <3>1
    <3> DEFINE g == [i \in 0 .. k |-> IF i = k THEN Move(f[k - 1], t[k - 1]) ELSE f[i]]
               h == [i \in 0 .. k |-> IF i = 0 THEN NewTable(2 * Cap(t))
                                      ELSE Move(g[i - 1], t[i - 1])]
    <3>3. ASSUME NEW i \in 0 .. k PROVE g[i] = h[i]
      <4>1. CASE i = k
        <5>1. g[i - 1] = f[k - 1]
          BY <2>3, <3>1, <4>1
        <5> QED BY <2>3, <4>1, <5>1
      <4>2. CASE i # k
        <5>1. i \in 0 .. k - 1 /\ (i # 0 => i - 1 \in 0 .. k /\ i - 1 # k)
          BY <3>1, <4>2
        <5>2. f[i] = IF i = 0 THEN NewTable(2 * Cap(t)) ELSE Move(f[i - 1], t[i - 1])
          BY <3>2, <5>1 DEF Moves
        <5>3. g[i] = f[i] /\ (i # 0 => g[i - 1] = f[i - 1])
          BY <4>2, <5>1
        <5> QED BY <5>2, <5>3
      <4> QED BY <4>1, <4>2
    <3>4. g = h
      BY <3>3
    <3> HIDE DEF g
    <3>5. Moves(g, t, k)
      BY <3>4 DEF Moves
    <3> QED BY <2>1, <3>5
  <2> QED BY <2>2, <2>3
<1> QED BY <1>1, <1>2

\* The first i slots have been moved to m.
Moved(m, t, K, i) ==
    /\ Good(m, K) /\ Cap(m) = 2 * Cap(t) /\ Cardinality(Entries(m)) <= i
    /\ \A k \in K : Find(m, k) = IF Slot(t, k) < i THEN Find(t, k) ELSE Empty

LEMMA MoveOne ==
    ASSUME NEW t, NEW K, Good(t, K), NEW i \in DOMAIN t, NEW m, Moved(m, t, K, i)
    PROVE  Moved(Move(m, t[i]), t, K, i + 1)
<1>1. /\ Good(m, K) /\ Cap(m) = 2 * Cap(t) /\ Cardinality(Entries(m)) <= i
      /\ Cardinality(Entries(m)) \in Nat
      /\ \A k \in K : Find(m, k) = IF Slot(t, k) < i THEN Find(t, k) ELSE Empty
  BY Numbers DEF Moved, Good
<1>2. i \in Nat /\ Cap(t) \in Nat /\ i < Cap(t)
  BY DEF Good, Sized
<1>3. ASSUME NEW k \in K PROVE Slot(t, k) \in Nat /\ Slot(t, k) \in DOMAIN t
  BY FindIs, Slots
<1>4. CASE t[i] = Empty
  <2>1. ASSUME NEW k \in K
        PROVE  Find(m, k) = IF Slot(t, k) < i + 1 THEN Find(t, k) ELSE Empty
    <3>1. Slot(t, k) = i => Find(t, k) = Empty
      BY <1>4 DEF Find
    <3>2. Slot(t, k) < i + 1 <=> Slot(t, k) < i \/ Slot(t, k) = i
      BY <1>2, <1>3
    <3> QED BY <1>1, <3>1, <3>2
  <2>2. Cardinality(Entries(m)) <= i + 1
    BY <1>1, <1>2
  <2> QED BY <1>1, <1>4, <2>1, <2>2 DEF Move, Moved
<1>5. CASE t[i] # Empty
  <2> DEFINE l == t[i].key
             v == t[i].val
             u == Put(m, l, v)
  <2>1. i \in Entries(t) /\ l \in K /\ t[i] = Entry(l, v) /\ Slot(t, l) = i /\ Find(t, l) = t[i]
    BY <1>5, FindHeld DEF Good, Entries
  <2>2. Roomy(m)
    <3>1. Cardinality(Entries(m)) + 1 < 2 * Cap(t)
      <4>1. Cap(t) # 1
        BY DEF Good
      <4> QED BY <1>1, <1>2, <4>1
    <3> QED BY <1>1, <3>1 DEF Roomy
  <2> HIDE DEF l, v
  <2>3. Inserting(m, K, l, v)
    BY <1>1, <1>5, <2>1, <2>2 DEF Inserting
  <2>4. /\ Good(u, K) /\ Cap(u) = Cap(m)
        /\ Cardinality(Entries(u)) <= Cardinality(Entries(m)) + 1
        /\ \A k \in K : Find(u, k) = IF k = l THEN Entry(l, v) ELSE Find(m, k)
    BY <2>3, PutGood, PutSlots, FindPut
  <2>5. Move(m, t[i]) = u
    BY <1>5 DEF Move, l, v
  <2> HIDE DEF u
  <2>6. Cardinality(Entries(u)) <= i + 1
    <3>1. Cardinality(Entries(u)) \in Nat
      BY <2>4, Numbers DEF Good
    <3> QED BY <1>1, <1>2, <2>4, <3>1
  <2>7. ASSUME NEW k \in K
        PROVE  Find(u, k) = IF Slot(t, k) < i + 1 THEN Find(t, k) ELSE Empty
    <3>1. CASE k = l
      <4>1. Slot(t, k) < i + 1
        BY <1>2, <2>1, <3>1
      <4> QED BY <2>1, <2>4, <3>1, <4>1
    <3>2. CASE k # l
      <4>1. Slot(t, k) # i
        <5>1. Find(t, k) # Empty => Find(t, k).key = k
          BY FindIs
        <5> QED BY <1>5, <3>2, <5>1 DEF Find, l
      <4>2. Slot(t, k) < i + 1 <=> Slot(t, k) < i
        BY <1>2, <1>3, <4>1
      <4> QED BY <1>1, <2>4, <3>2, <4>2
    <3> QED BY <3>1, <3>2
  <2> QED BY <1>1, <2>4, <2>5, <2>6, <2>7 DEF Moved
<1> QED BY <1>4, <1>5

\* A table that has doubled is good, holds what it held, and has room.
LEMMA DoubledGood ==
    ASSUME NEW t, NEW K, Good(t, K)
    PROVE  Moved(Doubled(t), t, K, Cap(t))
<1> DEFINE n == Cap(t)
           f == CHOOSE g : Moves(g, t, n)
<1>1. n \in Nat /\ DOMAIN t = 0 .. n - 1 /\ 2 * n \in Nat \ {0, 1}
  BY DEF Good, Sized
<1>2. Doubled(t) = f[n]
  BY DEF Doubled, Moves, Move
<1> HIDE DEF n
<1>3. Moves(f, t, n)
  BY <1>1, MovesExist
<1> HIDE DEF f
<1>4. \A i \in 0 .. n : f[i] = IF i = 0 THEN NewTable(2 * Cap(t)) ELSE Move(f[i - 1], t[i - 1])
  BY <1>3 DEF Moves
<1> DEFINE T == {i \in 0 .. n : ~Moved(f[i], t, K, i)}
<1>5. CASE T = {}
  BY <1>1, <1>2, <1>5 DEF n
<1>6. CASE T # {}
  <2>1. PICK k \in T : \A l \in T : k <= l
    <3>1. T \subseteq Nat
      OBVIOUS
    <3> HIDE DEF T
    <3> QED BY <1>6, <3>1, LeastOf
  <2>2. k # 0
    <3>1. f[0] = NewTable(2 * Cap(t))
      BY <1>1, <1>4
    <3>2. /\ Good(f[0], K) /\ Cap(f[0]) = 2 * Cap(t) /\ Entries(f[0]) = {}
          /\ \A l \in K : Find(f[0], l) = Empty
      BY <1>1, <3>1, NewGood DEF Good, n
    <3>3. \A l \in K : ~(Slot(t, l) < 0)
      BY FindIs, Slots
    <3>4. Cardinality(Entries(f[0])) <= 0
      BY <3>2, FS_EmptySet
    <3>5. Moved(f[0], t, K, 0)
      BY <3>2, <3>3, <3>4 DEF Moved
    <3> QED BY <2>1, <3>5
  <2>3. k - 1 \in 0 .. n /\ k - 1 \in DOMAIN t /\ k \in 0 .. n /\ k - 1 \notin T /\ (k - 1) + 1 = k
    BY <1>1, <2>1, <2>2
  <2>4. Moved(Move(f[k - 1], t[k - 1]), t, K, k)
    BY <2>3, MoveOne
  <2> QED BY <1>4, <2>1, <2>2, <2>3, <2>4
<1> QED BY <1>5, <1>6

\* Growing before an insertion makes room for it and changes nothing that is found.
LEMMA GrownGood ==
    ASSUME NEW t, NEW K, Good(t, K)
    PROVE  /\ Good(Grown(t), K) /\ Roomy(Grown(t))
           /\ \A k \in K : Find(Grown(t), k) = Find(t, k)
<1>1. Cap(t) \in Nat /\ Cap(t) # 0 /\ Cap(t) # 1 /\ Cardinality(Entries(t)) \in Nat
  BY Numbers DEF Good, Sized
<1>2. CASE Crowded(t)
  <2> DEFINE u == Doubled(t)
  <2>1. /\ Good(u, K) /\ Cap(u) = 2 * Cap(t) /\ Cardinality(Entries(u)) <= Cap(t)
        /\ \A k \in K : Find(u, k) = IF Slot(t, k) < Cap(t) THEN Find(t, k) ELSE Empty
    BY DoubledGood DEF Moved
  <2> HIDE DEF u
  <2>2. Cardinality(Entries(u)) \in Nat
    BY <2>1, Numbers DEF Good
  <2>3. Roomy(u)
    BY <1>1, <2>1, <2>2 DEF Roomy
  <2>4. ASSUME NEW k \in K PROVE Slot(t, k) < Cap(t)
    <3>1. Slot(t, k) \in DOMAIN t
      BY FindIs
    <3> QED BY <1>1, <3>1 DEF Good, Sized
  <2> QED BY <1>2, <2>1, <2>3, <2>4 DEF Grown, u
<1>3. CASE ~Crowded(t)
  <2>1. Roomy(t)
    BY <1>1, <1>3 DEF Crowded, Roomy
  <2> QED BY <1>3, <2>1 DEF Grown
<1> QED BY <1>2, <1>3

\* edge_insert, ngfw_payload_insert: an insertion, with the growth that may go before
\* it, leaves a good table (a new one is good: NewGood), in which the key is found with
\* its new value and every other key as before.
THEOREM InsertKept ==
    ASSUME NEW t, NEW K, Good(t, K), NEW k \in K, NEW v, Entry(k, v) # Empty
    PROVE  /\ Good(Put(Grown(t), k, v), K)
           /\ \A l \in K : Find(Put(Grown(t), k, v), l) = IF l = k THEN Entry(k, v) ELSE Find(t, l)
<1>1. Inserting(Grown(t), K, k, v) /\ \A l \in K : Find(Grown(t), l) = Find(t, l)
  BY GrownGood DEF Inserting
<1> QED BY <1>1, PutGood, FindPut
=============================================================================
