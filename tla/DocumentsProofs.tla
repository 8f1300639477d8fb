-------------------------- MODULE DocumentsProofs --------------------------
(***************************************************************************)
(* Theorems about Documents, for all feeds, servers, pages and numbers of  *)
(* runs: what a crash costs, what is fetched, what records say, and types. *)
(*                                                                         *)
(* The file is a part of the records written, in their order (Filed), and  *)
(* those that left the buffer are settled: in the file, of a run that      *)
(* died, or the first after one that did.  Every step that writes is a     *)
(* landing of a part of the buffer (Landing, LandingKeeps); CrashInv is    *)
(* what holds of the sinks, the run and the rows together.                 *)
(***************************************************************************)
EXTENDS Documents, FiniteSetTheorems, SequenceTheorems, WellFoundedInduction, TLAPS

-----------------------------------------------------------------------------
(* The file.  Whatever is in it are the first records written, in their    *)
(* order.                                                                  *)

Records == Pages \X Nat
FileLines == Records \union {Bad}

\* The whole lines of f are records of s up to the n-th, in their order.
Filed(f, s, n) ==
    /\ \A a \in DOMAIN f : f[a] # Bad => \E i \in 1 .. n : f[a] = s[i]
    /\ \A a \in DOMAIN f, b \in DOMAIN f : a < b /\ f[a] # Bad /\ f[b] # Bad =>
           \E i \in 1 .. n, j \in 1 .. n : i < j /\ f[a] = s[i] /\ f[b] = s[j]

BadLines(f) == {a \in DOMAIN f : f[a] = Bad}

\* records are the last ones of s.
LastOf(records, s) ==
    /\ Len(records) <= Len(s)
    /\ \A i \in 1 .. Len(records) : records[i] = s[Len(s) - Len(records) + i]

\* f holds s up to its last records, r, of which those from the m-th to the k-th follow.
CanLand(f, s, r, m, k) ==
    /\ f \in Seq(FileLines) /\ s \in Seq(Records) /\ r \in Seq(Records) /\ LastOf(r, s)
    /\ k \in 0 .. Len(r) /\ m \in 1 .. 2 /\ m <= k + 1
    /\ Filed(f, s, Len(s) - Len(r))

\* g is f with these records, of which the first is the n + m-th of s.
HasLanded(f, g, s, n, m, k) ==
    /\ g \in Seq(FileLines)
    /\ Filed(g, s, n + k)
    /\ BadLines(g) = BadLines(f)
    /\ \A a \in DOMAIN f : a \in DOMAIN g /\ g[a] = f[a]
    /\ \A i \in (n + m) .. (n + k) : \E a \in DOMAIN g : g[a] = s[i]

LEMMA Landing ==
    ASSUME NEW f, NEW s, NEW r, NEW m, NEW k, CanLand(f, s, r, m, k)
    PROVE  HasLanded(f, f \o SubSeq(r, m, k), s, Len(s) - Len(r), m, k)
<1>0. /\ f \in Seq(FileLines) /\ s \in Seq(Records) /\ r \in Seq(Records) /\ LastOf(r, s)
      /\ k \in 0 .. Len(r) /\ m \in 1 .. 2 /\ m <= k + 1
      /\ Filed(f, s, Len(s) - Len(r))
  BY DEF CanLand
<1> DEFINE more == SubSeq(r, m, k)
           g == f \o more
           n == Len(s) - Len(r)
<1>1. /\ Len(f) \in Nat /\ DOMAIN f = 1 .. Len(f)
      /\ Len(r) \in Nat /\ Len(s) \in Nat /\ n \in Nat
  BY <1>0, LenProperties DEF LastOf
<1>2. /\ \A i \in m .. k : r[i] \in Records
      /\ m \in Int /\ k \in Int /\ k - m + 1 \in Nat
  <2>1. \A i \in m .. k : i \in 1 .. Len(r)
    BY <1>0, <1>1
  <2> QED BY <1>0, <1>1, <2>1, ElementOfSeq
<1>3. /\ more \in Seq(Records) /\ Len(more) = k - m + 1
      /\ \A i \in 1 .. k - m + 1 : more[i] = r[m + i - 1]
  <2>1. Len(more) = IF m <= k THEN k - m + 1 ELSE 0
    BY <1>2, SubSeqProperties
  <2> QED BY <1>2, <2>1, SubSeqProperties
<1>4. \A i \in 1 .. k - m + 1 : more[i] = s[n + (m + i - 1)] /\ more[i] # Bad
  <2> SUFFICES ASSUME NEW i \in 1 .. k - m + 1
               PROVE  more[i] = s[n + (m + i - 1)] /\ more[i] # Bad
    OBVIOUS
  <2>1. m + i - 1 \in 1 .. Len(r)
    BY <1>0, <1>1
  <2>2. r[m + i - 1] = s[n + (m + i - 1)]
    BY <1>0, <2>1 DEF LastOf
  <2>3. r[m + i - 1] \in Records
    BY <1>0, <2>1, ElementOfSeq
  <2> QED BY <1>3, <2>2, <2>3, OutputsAssumption DEF Records
<1>15. Filed(f, s, n)
  BY <1>0
<1> HIDE DEF more, n
<1>5. /\ g \in Seq(FileLines) /\ Len(g) = Len(f) + (k - m + 1)
      /\ \A a \in 1 .. Len(f) + (k - m + 1) :
             g[a] = IF a <= Len(f) THEN f[a] ELSE more[a - Len(f)]
  <2>1. more \in Seq(FileLines)
    BY <1>3, SeqMonotonic DEF FileLines
  <2>2. /\ f \o more \in Seq(FileLines) /\ Len(f \o more) = Len(f) + Len(more)
        /\ \A a \in 1 .. Len(f) + Len(more) :
               (f \o more)[a] = IF a <= Len(f) THEN f[a] ELSE more[a - Len(f)]
    BY <1>0, <2>1, ConcatProperties
  <2>3. Len(more) = k - m + 1
    BY <1>3
  <2> HIDE DEF g
  <2> QED BY <2>2, <2>3 DEF g
<1> HIDE DEF g
<1>6. DOMAIN g = 1 .. (Len(f) + (k - m + 1))
  BY <1>5, LenProperties
<1>7. ASSUME NEW a \in DOMAIN f PROVE a \in DOMAIN g /\ g[a] = f[a]
  BY <1>0, <1>1, <1>2, <1>5, <1>6
<1>8. ASSUME NEW a \in DOMAIN g, a \notin DOMAIN f
      PROVE  /\ n + (m + (a - Len(f)) - 1) \in (n + m) .. (n + k)
             /\ g[a] = s[n + (m + (a - Len(f)) - 1)] /\ g[a] # Bad
  <2>1. a - Len(f) \in 1 .. k - m + 1 /\ a \in 1 .. Len(f) + (k - m + 1) /\ ~(a <= Len(f))
    BY <1>0, <1>1, <1>2, <1>6, <1>8
  <2> DEFINE x == a - Len(f)
  <2>2. x \in Int /\ x \in 1 .. k - m + 1
    BY <1>0, <1>1, <2>1
  <2>3. g[a] = more[x]
    BY <1>5, <2>1
  <2> HIDE DEF x
  <2>4. n + (m + x - 1) \in (n + m) .. (n + k)
    BY <1>0, <1>1, <1>2, <2>2
  <2>5. g[a] = s[n + (m + x - 1)] /\ g[a] # Bad
    BY <1>4, <2>2, <2>3
  <2> QED BY <2>4, <2>5 DEF x
<1>9. BadLines(g) = BadLines(f)
  BY <1>7, <1>8 DEF BadLines
<1>10. ASSUME NEW i \in (n + m) .. (n + k) PROVE \E a \in DOMAIN g : g[a] = s[i]
  <2> DEFINE a == Len(f) + (i - n - m + 1)
  <2>1. a \in DOMAIN g /\ a \notin DOMAIN f /\ n + (m + (a - Len(f)) - 1) = i
    BY <1>0, <1>1, <1>2, <1>6
  <2> QED BY <1>8, <2>1
<1>11. ASSUME NEW i \in 1 .. n PROVE i \in 1 .. n + k
  BY <1>0, <1>1
<1>12. ASSUME NEW a \in DOMAIN g, g[a] # Bad
       PROVE  \E i \in 1 .. n + k : g[a] = s[i] /\ (a \in DOMAIN f => i \in 1 .. n)
  <2>1. CASE a \in DOMAIN f
    BY <1>7, <1>11, <1>12, <1>15, <2>1 DEF Filed
  <2>2. CASE a \notin DOMAIN f
    <3>1. n + (m + (a - Len(f)) - 1) \in 1 .. n + k
      BY <1>0, <1>1, <1>8, <2>2
    <3> QED BY <1>8, <2>2, <3>1
  <2> QED BY <2>1, <2>2
<1>13. ASSUME NEW a \in DOMAIN g, NEW b \in DOMAIN g, a < b, g[a] # Bad, g[b] # Bad
       PROVE  \E i \in 1 .. n + k, j \in 1 .. n + k : i < j /\ g[a] = s[i] /\ g[b] = s[j]
  <2>0. a \in Nat /\ b \in Nat
    BY <1>0, <1>1, <1>2, <1>6
  <2>1. CASE b \in DOMAIN f
    <3>1. a \in DOMAIN f
      BY <1>0, <1>1, <1>13, <2>0, <2>1, <1>6
    <3>2. g[a] = f[a] /\ g[b] = f[b]
      BY <1>7, <2>1, <3>1
    <3>3. PICK i \in 1 .. n, j \in 1 .. n : i < j /\ f[a] = s[i] /\ f[b] = s[j]
      BY <1>13, <1>15, <2>1, <3>1, <3>2 DEF Filed
    <3> QED BY <1>11, <3>2, <3>3
  <2>2. CASE b \notin DOMAIN f
    <3> DEFINE j == n + (m + (b - Len(f)) - 1)
    <3>1. j \in (n + m) .. (n + k) /\ g[b] = s[j]
      BY <1>8, <2>2
    <3>2. j \in 1 .. n + k
      BY <1>0, <1>1, <3>1
    <3>3. CASE a \in DOMAIN f
      <4>1. PICK i \in 1 .. n + k : g[a] = s[i] /\ i \in 1 .. n
        BY <1>12, <1>13, <3>3
      <4>2. i < j
        BY <1>0, <1>1, <3>1, <4>1
      <4> QED BY <3>1, <3>2, <4>1, <4>2
    <3>4. CASE a \notin DOMAIN f
      <4> DEFINE i == n + (m + (a - Len(f)) - 1)
      <4>1. i \in (n + m) .. (n + k) /\ g[a] = s[i]
        BY <1>8, <3>4
      <4>2. i < j /\ i \in 1 .. n + k
        <5>1. a < b /\ a \in Int /\ b \in Int /\ Len(f) \in Int /\ n \in Nat /\ m \in 1 .. 2 /\ k \in Int
          BY <1>0, <1>1, <1>2, <1>13, <2>0
        <5>2. i < j
          BY <5>1
        <5> HIDE DEF i, j
        <5>3. i \in 1 .. n + k
          BY <4>1, <5>1
        <5> QED BY <5>2, <5>3
      <4> QED BY <3>1, <3>2, <4>1, <4>2
    <3> QED BY <3>3, <3>4
  <2> QED BY <2>1, <2>2
<1>14. Filed(g, s, n + k)
  BY <1>12, <1>13 DEF Filed
<1>16. HasLanded(f, g, s, n, m, k)
  BY <1>5, <1>7, <1>9, <1>10, <1>14 DEF HasLanded
<1> QED BY <1>16 DEF g, n, more

-----------------------------------------------------------------------------
(* The sinks. *)

\* How many records have left the buffer.
Flushed == Len(written) - Len(buffer)

OutType ==
    /\ run \in 1 .. MaxRuns /\ {open, cut, torn} \subseteq BOOLEAN
    /\ written \in Seq(Records) /\ buffer \in Seq(Records) /\ file \in Seq(FileLines)
    /\ \A i \in 1 .. Len(written) : written[i][2] \in 1 .. run
    /\ cut => buffer # <<>>
    /\ crashed \subseteq 1 .. run /\ IsFiniteSet(crashed)

\* A record that left the buffer is in the file, or its run died, or it ended a torn line.
Settled(i) == written[i][2] \in crashed \/ Contains(file, written[i]) \/ FirstAfterCrash(i)

FileInv ==
    /\ LastOf(buffer, written)
    /\ \A i \in Flushed + 1 .. Len(written) : written[i][2] = run
    /\ Filed(file, written, Flushed)
    /\ \A i \in 1 .. Flushed : Settled(i)
    /\ torn => \E r \in crashed : \A j \in 1 .. Flushed : written[j][2] <= r
    /\ IsFiniteSet(BadLines(file)) /\ Cardinality(BadLines(file)) <= Cardinality(crashed)
    /\ IsInjective(written)

OutInv == OutType /\ FileInv

LEMMA OutNumbers ==
    ASSUME OutInv
    PROVE  /\ Len(written) \in Nat /\ Len(buffer) \in Nat /\ Flushed \in 0 .. Len(written)
           /\ DOMAIN written = 1 .. Len(written) /\ DOMAIN file = 1 .. Len(file)
           /\ Len(file) \in Nat /\ run \in Nat
BY LenProperties DEF OutInv, OutType, FileInv, LastOf, Flushed

\* What was settled stays so when more is written, lands or is lost.
LEMMA SettledStays ==
    ASSUME OutInv, NEW i \in 1 .. Flushed, file' \in Seq(FileLines),
           \A j \in 1 .. i : written'[j] = written[j],
           crashed \subseteq crashed',
           \A a \in DOMAIN file : a \in DOMAIN file' /\ file'[a] = file[a]
    PROVE  Settled(i)'
<1>1. DOMAIN file' = 1 .. Len(file') /\ DOMAIN file = 1 .. Len(file)
  BY OutNumbers, LenProperties
<1>2. written'[i] = written[i] /\ Settled(i) /\ i \in Nat /\ i - 1 < i
  BY OutNumbers DEF OutInv, FileInv
<1>3. CASE written[i][2] \in crashed
  BY <1>2, <1>3 DEF Settled
<1>4. CASE Contains(file, written[i])
  BY <1>1, <1>2, <1>4 DEF Settled, Contains
<1>5. CASE FirstAfterCrash(i)
  <2>1. PICK r \in crashed : r < written[i][2] /\ \A j \in 1 .. i - 1 : written[j][2] <= r
    BY <1>5 DEF FirstAfterCrash
  <2>2. \A j \in 1 .. i - 1 : written'[j] = written[j]
    BY <1>2
  <2> QED BY <1>2, <2>1, <2>2 DEF Settled, FirstAfterCrash
<1> QED BY <1>2, <1>3, <1>4, <1>5 DEF Settled

\* k records of r, which ends what is now written, go to the file.
Lands(s, r, k) ==
    /\ s \in Seq(Records) /\ r \in Seq(Records) /\ LastOf(r, s) /\ k \in 0 .. Len(r)
    /\ Len(s) - Len(r) = Flushed
    /\ \A i \in 1 .. Flushed : i \in 1 .. Len(s) /\ s[i] = written[i]
    /\ \A i \in Flushed + 1 .. Len(s) : s[i][2] = run
    /\ IsInjective(s)
    /\ written' = s /\ buffer' = SubSeq(r, k + 1, Len(r)) /\ file' = Landed(r, k)
    /\ torn' = (torn /\ k = 0) /\ UNCHANGED <<run, crashed>>
    /\ cut' \in BOOLEAN /\ (cut' => k < Len(r)) /\ open' \in BOOLEAN

\* Some of the buffer goes to the file, after a record was added to it or not.
LEMMA LandingKeeps ==
    ASSUME OutInv, run \notin crashed, NEW s, NEW r, NEW k, Lands(s, r, k)
    PROVE  OutInv'
<1>a. s \in Seq(Records) /\ r \in Seq(Records) /\ LastOf(r, s) /\ k \in 0 .. Len(r)
  BY DEF Lands
<1>b. /\ Len(s) - Len(r) = Flushed
      /\ \A i \in 1 .. Flushed : i \in 1 .. Len(s) /\ s[i] = written[i]
      /\ \A i \in Flushed + 1 .. Len(s) : s[i][2] = run
      /\ IsInjective(s)
  BY DEF Lands
<1>c. /\ written' = s /\ UNCHANGED <<run, crashed>> /\ torn' = (torn /\ k = 0)
      /\ cut' \in BOOLEAN /\ (cut' => k < Len(r)) /\ open' \in BOOLEAN
  BY DEF Lands
<1>d. buffer' = SubSeq(r, k + 1, Len(r)) /\ file' = Landed(r, k)
  BY DEF Lands
<1> DEFINE n == Flushed
           m == IF torn /\ k > 0 THEN 2 ELSE 1
<1>1. /\ Len(s) \in Nat /\ Len(r) \in Nat /\ n \in Nat /\ k \in Nat /\ k <= Len(r) /\ m \in 1 .. 2 /\ m <= k + 1
      /\ DOMAIN s = 1 .. Len(s) /\ run \in Nat /\ Len(s) - Len(r) = n
  <2>1. Len(s) \in Nat /\ Len(r) \in Nat /\ DOMAIN s = 1 .. Len(s)
    BY <1>a, LenProperties
  <2>2. n \in Nat /\ run \in Nat
    BY OutNumbers
  <2>3. k \in Nat /\ k <= Len(r)
    BY <1>a, <2>1
  <2> QED BY <1>b, <2>1, <2>2, <2>3
<1>2. file' = file \o SubSeq(r, m, k)
  BY <1>d DEF Landed
<1>3. /\ file \in Seq(FileLines) /\ Filed(file, s, n)
  <2>1. \A i \in 1 .. n : s[i] = written[i]
    BY <1>b
  <2>2. Filed(file, written, n) /\ file \in Seq(FileLines)
    BY DEF OutInv, OutType, FileInv
  <2> HIDE DEF n
  <2>3. \A a \in DOMAIN file : file[a] # Bad => \E i \in 1 .. n : file[a] = s[i]
    BY <2>1, <2>2 DEF Filed
  <2>4. ASSUME NEW a \in DOMAIN file, NEW b \in DOMAIN file, a < b, file[a] # Bad, file[b] # Bad
        PROVE  \E i \in 1 .. n, j \in 1 .. n : i < j /\ file[a] = s[i] /\ file[b] = s[j]
    <3>1. PICK i \in 1 .. n, j \in 1 .. n : i < j /\ file[a] = written[i] /\ file[b] = written[j]
      BY <2>2, <2>4 DEF Filed
    <3> QED BY <2>1, <3>1
  <2> QED BY <2>2, <2>3, <2>4 DEF Filed
<1>4. /\ file' \in Seq(FileLines) /\ Filed(file', s, n + k)
      /\ BadLines(file') = BadLines(file)
      /\ \A a \in DOMAIN file : a \in DOMAIN file' /\ file'[a] = file[a]
      /\ \A i \in (n + m) .. (n + k) : \E a \in DOMAIN file' : file'[a] = s[i]
  <2> HIDE DEF n, m
  <2>1. Filed(file, s, Len(s) - Len(r)) /\ Len(s) - Len(r) = n
    BY <1>1, <1>3
  <2>2. CanLand(file, s, r, m, k)
    BY <1>1, <1>3, <1>a, <2>1 DEF CanLand
  <2>3. HasLanded(file, file', s, n, m, k)
    BY <1>2, <2>1, <2>2, Landing
  <2> QED BY <2>3 DEF HasLanded
<1>5. /\ buffer' \in Seq(Records) /\ Len(buffer') = Len(r) - k
      /\ \A i \in 1 .. Len(r) - k : buffer'[i] = r[k + i]
  <2>1. k + 1 \in Int /\ Len(r) \in Int /\ Len(r) - (k + 1) + 1 = Len(r) - k
    BY <1>1
  <2>2. \A i \in k + 1 .. Len(r) : r[i] \in Records
    BY <1>1, <1>a, ElementOfSeq
  <2>3. /\ SubSeq(r, k + 1, Len(r)) \in Seq(Records)
        /\ Len(SubSeq(r, k + 1, Len(r))) = IF k + 1 <= Len(r) THEN Len(r) - (k + 1) + 1 ELSE 0
        /\ \A i \in 1 .. Len(r) - (k + 1) + 1 : SubSeq(r, k + 1, Len(r))[i] = r[(k + 1) + i - 1]
    BY <2>1, <2>2, SubSeqProperties
  <2>4. k + 1 <= Len(r) \/ Len(r) - k = 0
    BY <1>1
  <2>5. Len(buffer') = Len(r) - k
    BY <1>d, <2>1, <2>3, <2>4
  <2>6. ASSUME NEW i \in 1 .. Len(r) - k PROVE buffer'[i] = r[k + i]
    <3>1. i \in 1 .. Len(r) - (k + 1) + 1 /\ (k + 1) + i - 1 = k + i
      BY <1>1
    <3> QED BY <1>d, <2>3, <3>1
  <2> QED BY <1>d, <2>3, <2>5, <2>6
<1>6. Flushed' = n + k /\ LastOf(buffer', s)
  <2>1. Flushed' = Len(s) - (Len(r) - k)
    BY <1>5, <1>c DEF Flushed
  <2> HIDE DEF n, m
  <2>2. Len(s) - Len(buffer') = n + k /\ Len(buffer') <= Len(s) /\ Len(r) - k \in Nat
    <3>1. Len(buffer') = Len(r) - k
      BY <1>5
    <3>7. Len(s) - Len(r) = n
      BY <1>1
    <3>8. Len(s) \in Int /\ Len(r) \in Int
      BY <1>1
    <3>9. n \in Nat
      BY <1>1
    <3>2. Len(s) \in Int /\ Len(r) \in Int /\ n \in Nat /\ Len(s) - Len(r) = n
      BY <3>7, <3>8, <3>9
    <3>3. k \in Nat /\ k <= Len(r)
      BY <1>a, <3>2
    <3>4. Len(s) - Len(buffer') = n + k
      BY <3>1, <3>2, <3>3
    <3>5. Len(buffer') <= Len(s)
      BY <3>1, <3>2, <3>3
    <3>6. Len(r) - k \in Nat
      BY <3>2, <3>3
    <3> QED BY <3>4, <3>5, <3>6
  <2>3. ASSUME NEW i \in 1 .. Len(buffer') PROVE buffer'[i] = s[n + k + i]
    <3>1. i \in 1 .. Len(r) - k
      BY <1>5
    <3>3. k + i \in 1 .. Len(r) /\ n + (k + i) = n + k + i
      BY <1>1, <3>1
    <3>2. r[k + i] = s[n + (k + i)]
      BY <1>1, <1>a, <3>3 DEF LastOf
    <3> QED BY <1>5, <3>1, <3>2, <3>3
  <2> QED BY <1>1, <1>5, <2>1, <2>2, <2>3 DEF LastOf
<1>7. ASSUME NEW i \in 1 .. n + k PROVE Settled(i)'
  <2>1. CASE i \in 1 .. n
    <3>1. \A j \in 1 .. i : j \in 1 .. n /\ written'[j] = written[j]
      BY <1>1, <1>b, <1>c, <2>1
    <3> QED BY <1>4, <1>c, <2>1, <3>1, SettledStays
  <2>2. CASE i \in (n + m) .. (n + k)
    <3>1. PICK a \in DOMAIN file' : file'[a] = s[i]
      BY <1>4, <2>2
    <3>2. DOMAIN file' = 1 .. Len(file')
      BY <1>4, LenProperties
    <3> QED BY <1>c, <3>1, <3>2 DEF Settled, Contains
  <2>3. CASE i = n + 1 /\ torn /\ k > 0
    <3>1. PICK w \in crashed : \A j \in 1 .. Flushed : written[j][2] <= w
      BY <2>3 DEF OutInv, FileInv
    <3>2. w < run
      BY <1>1 DEF OutInv, OutType
    <3>3. i \in n + 1 .. Len(s)
      BY <1>1, <2>3
    <3>4. s[i][2] = run
      BY <1>b, <3>3
    <3>5. \A j \in 1 .. i - 1 : j \in 1 .. n
      BY <1>1, <2>3
    <3>6. \A j \in 1 .. i - 1 : written'[j] = written[j]
      BY <1>b, <1>c, <3>5
    <3> QED BY <1>c, <3>6, <3>1, <3>2, <3>4, <3>5 DEF Settled, FirstAfterCrash
  <2> QED BY <1>1, <2>1, <2>2, <2>3
<1>8. ASSUME torn' PROVE \E w \in crashed' : \A j \in 1 .. Flushed' : written'[j][2] <= w
  <2>1. torn /\ k = 0
    BY <1>c, <1>8
  <2>2. Flushed' = Flushed
    BY <1>1, <1>6, <2>1
  <2>3. PICK w \in crashed : \A j \in 1 .. Flushed : written[j][2] <= w
    BY <2>1 DEF OutInv, FileInv
  <2>4. \A j \in 1 .. Flushed : written'[j] = written[j]
    BY <1>b, <1>c
  <2> QED BY <1>c, <2>2, <2>3, <2>4
<1>9. \A i \in Flushed' + 1 .. Len(written') : written'[i][2] = run'
  <2>1. \A i \in n + k + 1 .. Len(s) : i \in n + 1 .. Len(s)
    BY <1>1
  <2> QED BY <1>1, <1>6, <1>b, <1>c, <2>1
<1>10. FileInv'
  <2>1. IsFiniteSet(BadLines(file)) /\ Cardinality(BadLines(file)) <= Cardinality(crashed)
    BY DEF OutInv, FileInv
  <2> HIDE DEF n
  <2> QED BY <1>4, <1>6, <1>7, <1>8, <1>9, <1>b, <1>c, <2>1 DEF FileInv
<1>11. OutType'
  <2>1. ASSUME NEW i \in 1 .. Len(s) PROVE s[i][2] \in 1 .. run
    <3>1. CASE i \in 1 .. n
      <4>1. i \in 1 .. Len(written) /\ s[i] = written[i]
        BY <1>b, <3>1, OutNumbers
      <4> QED BY <4>1 DEF OutInv, OutType
    <3>2. CASE i \in n + 1 .. Len(s)
      BY <1>b, <3>2 DEF OutInv, OutType
    <3> QED BY <1>1, <3>1, <3>2
  <2>2. cut' => buffer' # <<>>
    <3> SUFFICES ASSUME cut' PROVE buffer' # <<>>
      OBVIOUS
    <3>1. Len(buffer') # 0
      BY <1>1, <1>5, <1>c
    <3> QED BY <3>1
  <2>3. torn' \in BOOLEAN
    BY <1>c DEF OutInv, OutType
  <2> QED BY <1>4, <1>5, <1>a, <1>c, <2>1, <2>2, <2>3 DEF OutInv, OutType
<1> QED BY <1>10, <1>11 DEF OutInv

LEMMA WriteLands ==
    ASSUME OutInv, NEW p \in Pages, JsonlWrite(p),
           \A i \in 1 .. Len(written) : written[i] # <<p, run>>
    PROVE  \E s, r, k : Lands(s, r, k) /\ s = Append(written, <<p, run>>)
<1> DEFINE w == <<p, run>>
           s == Append(written, w)
           r == Append(buffer, w)
<1>1. /\ Len(written) \in Nat /\ Len(buffer) \in Nat /\ Len(buffer) <= Len(written)
      /\ Flushed = Len(written) - Len(buffer) /\ Flushed \in Nat /\ w \in Records /\ w[2] = run
  BY OutNumbers DEF Flushed, Records
<1>2. /\ written \in Seq(Records) /\ buffer \in Seq(Records) /\ open \in BOOLEAN
      /\ LastOf(buffer, written) /\ IsInjective(written)
      /\ \A i \in Flushed + 1 .. Len(written) : written[i][2] = run
  BY DEF OutInv, OutType, FileInv
<1>3. PICK k \in 0 .. Len(r) :
          /\ file' = Landed(r, k) /\ buffer' = SubSeq(r, k + 1, Len(r))
          /\ torn' = (torn /\ k = 0)
          /\ cut' \in IF k = Len(r) THEN {FALSE} ELSE IF k = 0 /\ cut THEN {TRUE} ELSE BOOLEAN
  BY DEF JsonlWrite
<1>4. written' = s /\ UNCHANGED <<run, open, crashed>>
  BY DEF JsonlWrite
<1> HIDE DEF w
<1>5. /\ s \in Seq(Records) /\ Len(s) = Len(written) + 1 /\ s[Len(written) + 1] = w
      /\ \A i \in 1 .. Len(written) : s[i] = written[i]
  BY <1>1, <1>2, AppendProperties
<1>6. /\ r \in Seq(Records) /\ Len(r) = Len(buffer) + 1 /\ r[Len(buffer) + 1] = w
      /\ \A i \in 1 .. Len(buffer) : r[i] = buffer[i]
  BY <1>1, <1>2, AppendProperties
<1> HIDE DEF s, r
<1>7. LastOf(r, s)
  <2> SUFFICES ASSUME NEW i \in 1 .. Len(r) PROVE r[i] = s[Len(s) - Len(r) + i]
    BY <1>1, <1>5, <1>6 DEF LastOf
  <2>1. CASE i \in 1 .. Len(buffer)
    <3>1. /\ Len(written) - Len(buffer) + i \in 1 .. Len(written)
          /\ Len(s) - Len(r) = Len(written) - Len(buffer)
      BY <1>1, <1>5, <1>6, <2>1
    <3>2. buffer[i] = written[Len(written) - Len(buffer) + i]
      BY <1>2, <2>1 DEF LastOf
    <3> QED BY <1>5, <1>6, <2>1, <3>1, <3>2
  <2>2. CASE i = Len(buffer) + 1
    <3>1. Len(s) - Len(r) + i = Len(written) + 1
      BY <1>1, <1>5, <1>6, <2>2
    <3> QED BY <1>5, <1>6, <2>2, <3>1
  <2> QED BY <1>1, <1>6, <2>1, <2>2
<1>8. IsInjective(s)
  <2>1. DOMAIN s = 1 .. Len(written) + 1 /\ DOMAIN written = 1 .. Len(written)
    BY <1>2, <1>5, LenProperties
  <2>2. \A i \in 1 .. Len(written) : s[i] # w
    BY <1>5 DEF w
  <2>3. \A i \in DOMAIN s : i \in 1 .. Len(written) \/ i = Len(written) + 1
    BY <1>1, <2>1
  <2>4. ASSUME NEW a \in 1 .. Len(written), NEW b \in 1 .. Len(written), s[a] = s[b] PROVE a = b
    BY <1>2, <1>5, <2>1, <2>4 DEF IsInjective
  <2> QED BY <1>5, <2>2, <2>3, <2>4 DEF IsInjective
<1>9. \A i \in Flushed + 1 .. Len(s) : s[i][2] = run
  <2> SUFFICES ASSUME NEW i \in Flushed + 1 .. Len(s) PROVE s[i][2] = run
    OBVIOUS
  <2>1. (i \in Flushed + 1 .. Len(written) /\ i \in 1 .. Len(written)) \/ i = Len(written) + 1
    BY <1>1, <1>5
  <2> QED BY <1>1, <1>2, <1>5, <2>1
<1>10. \A i \in 1 .. Flushed : i \in 1 .. Len(s) /\ s[i] = written[i]
  <2>1. \A i \in 1 .. Flushed : i \in 1 .. Len(s) /\ i \in 1 .. Len(written)
    BY <1>1, <1>5
  <2> QED BY <1>5, <2>1
<1>11. Len(s) - Len(r) = Flushed
  BY <1>1, <1>5, <1>6
<1>12. cut' \in BOOLEAN /\ (cut' => k < Len(r)) /\ open' \in BOOLEAN
  <2>1. CASE k = Len(r)
    BY <1>2, <1>3, <1>4, <2>1
  <2>2. CASE k # Len(r)
    <3>1. k < Len(r)
      BY <1>1, <1>6, <2>2
    <3> QED BY <1>2, <1>3, <1>4, <2>2, <3>1
  <2> QED BY <2>1, <2>2
<1>13. Lands(s, r, k)
  BY <1>3, <1>4, <1>5, <1>6, <1>7, <1>8, <1>9, <1>10, <1>11, <1>12 DEF Lands
<1> QED BY <1>13 DEF s, w

LEMMA CloseLands ==
    ASSUME OutInv, OutputClose
    PROVE  Lands(written, buffer, Len(buffer))
<1>1. /\ Len(written) \in Nat /\ Len(buffer) \in Nat
      /\ Flushed = Len(written) - Len(buffer) /\ Flushed \in 0 .. Len(written)
  BY OutNumbers DEF Flushed
<1>2. /\ written \in Seq(Records) /\ buffer \in Seq(Records)
      /\ LastOf(buffer, written) /\ IsInjective(written)
      /\ \A i \in Flushed + 1 .. Len(written) : written[i][2] = run
  BY DEF OutInv, OutType, FileInv
<1>3. buffer' = SubSeq(buffer, Len(buffer) + 1, Len(buffer))
  <2>1. SubSeq(buffer, Len(buffer) + 1, Len(buffer)) = <<>>
    BY <1>1, SubSeqEmpty
  <2> QED BY <2>1 DEF OutputClose
<1>4. torn' = (torn /\ Len(buffer) = 0)
  BY <1>2, EmptySeq DEF OutputClose
<1>5. file' = Landed(buffer, Len(buffer)) /\ written' = written /\ UNCHANGED <<run, crashed>>
      /\ cut' = FALSE /\ open' = FALSE
  BY DEF OutputClose, Flush
<1>6. \A i \in 1 .. Flushed : i \in 1 .. Len(written)
  BY <1>1
<1>7. Len(buffer) \in 0 .. Len(buffer) /\ Len(written) - Len(buffer) = Flushed
  BY <1>1
<1>8. cut' \in BOOLEAN /\ (cut' => Len(buffer) < Len(buffer)) /\ open' \in BOOLEAN
  BY <1>5
<1> QED BY <1>2, <1>3, <1>4, <1>5, <1>6, <1>7, <1>8, Zenon DEF Lands

LEMMA FiledMore ==
    ASSUME NEW f, NEW s, NEW n \in Nat, NEW m \in Nat, n <= m, Filed(f, s, n)
    PROVE  Filed(f, s, m)
<1>1. \A i \in 1 .. n : i \in 1 .. m
  OBVIOUS
<1>2. ASSUME NEW a \in DOMAIN f, NEW b \in DOMAIN f, a < b, f[a] # Bad, f[b] # Bad
      PROVE  \E i \in 1 .. m, j \in 1 .. m : i < j /\ f[a] = s[i] /\ f[b] = s[j]
  <2>1. PICK i \in 1 .. n, j \in 1 .. n : i < j /\ f[a] = s[i] /\ f[b] = s[j]
    BY <1>2 DEF Filed
  <2> QED BY <1>1, <2>1
<1>3. ASSUME NEW a \in DOMAIN f, f[a] # Bad PROVE \E i \in 1 .. m : f[a] = s[i]
  BY <1>1, <1>3 DEF Filed
<1> QED BY <1>2, <1>3 DEF Filed

LEMMA FiledBad ==
    ASSUME NEW f \in Seq(FileLines), NEW s, NEW n, Filed(f, s, n)
    PROVE  /\ Append(f, Bad) \in Seq(FileLines)
           /\ Filed(Append(f, Bad), s, n)
           /\ BadLines(Append(f, Bad)) = BadLines(f) \union {Len(f) + 1}
           /\ \A a \in DOMAIN f : a \in DOMAIN Append(f, Bad) /\ Append(f, Bad)[a] = f[a]
<1> DEFINE g == Append(f, Bad)
<1>0. Bad \in FileLines
  BY DEF FileLines
<1>1. /\ g \in Seq(FileLines) /\ Len(g) = Len(f) + 1 /\ g[Len(f) + 1] = Bad
      /\ \A i \in 1 .. Len(f) : g[i] = f[i]
  BY <1>0, AppendProperties
<1>2. Len(f) \in Nat /\ DOMAIN f = 1 .. Len(f)
  BY LenProperties
<1> HIDE DEF g
<1>3. DOMAIN g = 1 .. Len(f) + 1
  BY <1>1, LenProperties
<1>4. \A a \in DOMAIN g : a \in DOMAIN f \/ a = Len(f) + 1
  BY <1>2, <1>3
<1>5. \A a \in DOMAIN f : a \in DOMAIN g /\ g[a] = f[a]
  BY <1>1, <1>2, <1>3
<1>6. Len(f) + 1 \in DOMAIN g
  BY <1>2, <1>3
<1>7. BadLines(g) = BadLines(f) \union {Len(f) + 1}
  BY <1>1, <1>4, <1>5, <1>6 DEF BadLines
<1>8. \A a \in DOMAIN g : g[a] # Bad => a \in DOMAIN f /\ g[a] = f[a]
  BY <1>1, <1>4, <1>5
<1>9. Filed(g, s, n)
  BY <1>8 DEF Filed
<1> QED BY <1>1, <1>5, <1>7, <1>9 DEF g

LEMMA CrashKeeps ==
    ASSUME OutInv, run \notin crashed, OutputCrash
    PROVE  OutInv'
<1>1. /\ Len(written) \in Nat /\ Flushed \in 0 .. Len(written) /\ run \in Nat
      /\ written \in Seq(Records) /\ file \in Seq(FileLines)
      /\ crashed \subseteq 1 .. run /\ IsFiniteSet(crashed) /\ torn \in BOOLEAN /\ cut \in BOOLEAN
      /\ \A i \in 1 .. Len(written) : written[i][2] \in 1 .. run
      /\ run \in 1 .. MaxRuns
  BY OutNumbers DEF OutInv, OutType
<1>2. /\ \A i \in Flushed + 1 .. Len(written) : written[i][2] = run
      /\ Filed(file, written, Flushed) /\ IsInjective(written)
      /\ IsFiniteSet(BadLines(file)) /\ Cardinality(BadLines(file)) <= Cardinality(crashed)
  BY DEF OutInv, FileInv
<1>3. /\ open' = FALSE /\ buffer' = <<>> /\ cut' = FALSE /\ torn' = (torn \/ cut)
      /\ file' = IF cut /\ ~torn THEN Append(file, Bad) ELSE file
      /\ crashed' = crashed \union {run} /\ UNCHANGED <<run, written>>
  BY DEF OutputCrash
<1>4. /\ file' \in Seq(FileLines) /\ Filed(file', written, Flushed)
      /\ \A a \in DOMAIN file : a \in DOMAIN file' /\ file'[a] = file[a]
      /\ BadLines(file') = BadLines(file) \/ BadLines(file') = BadLines(file) \union {Len(file) + 1}
  BY <1>1, <1>2, <1>3, FiledBad
<1>5. /\ Len(buffer') = 0 /\ buffer' \in Seq(Records) /\ LastOf(buffer', written)
      /\ Flushed' = Len(written)
  BY <1>1, <1>3 DEF LastOf, Flushed
<1>6. Filed(file', written, Len(written))
  BY <1>1, <1>4, FiledMore
<1>7. ASSUME NEW i \in 1 .. Len(written) PROVE Settled(i)'
  <2>1. CASE i \in 1 .. Flushed
    BY <1>3, <1>4, <2>1, SettledStays
  <2>2. CASE i \in Flushed + 1 .. Len(written)
    BY <1>2, <1>3, <2>2 DEF Settled
  <2> QED BY <1>1, <2>1, <2>2
<1>8. \E r \in crashed' : \A j \in 1 .. Len(written) : written[j][2] <= r
  BY <1>1, <1>3
<1>9. IsFiniteSet(BadLines(file')) /\ Cardinality(BadLines(file')) <= Cardinality(crashed')
  <2>1. IsFiniteSet(crashed') /\ Cardinality(crashed') = Cardinality(crashed) + 1
    BY <1>1, <1>3, FS_AddElement
  <2>2. Cardinality(BadLines(file)) \in Nat /\ Cardinality(crashed) \in Nat
    BY <1>1, <1>2, FS_CardinalityType
  <2>3. CASE BadLines(file') = BadLines(file)
    BY <1>2, <2>1, <2>2, <2>3
  <2>4. CASE BadLines(file') = BadLines(file) \union {Len(file) + 1}
    <3>1. /\ IsFiniteSet(BadLines(file'))
          /\ \/ Cardinality(BadLines(file')) = Cardinality(BadLines(file))
             \/ Cardinality(BadLines(file')) = Cardinality(BadLines(file)) + 1
      BY <1>2, <2>4, FS_AddElement
    <3> QED BY <1>2, <2>1, <2>2, <3>1
  <2> QED BY <1>4, <2>3, <2>4
<1>10. IsFiniteSet(crashed')
  BY <1>1, <1>3, FS_AddElement
<1>11. OutType'
  <2>1. {open', cut', torn'} \subseteq BOOLEAN /\ (cut' => buffer' # <<>>)
    BY <1>1, <1>3
  <2>2. crashed' \subseteq 1 .. run' /\ run' \in 1 .. MaxRuns
    BY <1>1, <1>3
  <2>3. written' \in Seq(Records) /\ \A i \in 1 .. Len(written') : written'[i][2] \in 1 .. run'
    BY <1>1, <1>3
  <2> QED BY <1>4, <1>5, <1>10, <2>1, <2>2, <2>3 DEF OutType
<1>12. \A i \in Flushed' + 1 .. Len(written') : written'[i][2] = run'
  BY <1>1, <1>3, <1>5
<1>13. FileInv'
  <2>1. LastOf(buffer', written') /\ Filed(file', written', Flushed') /\ IsInjective(written')
    BY <1>2, <1>3, <1>5, <1>6
  <2>2. \A i \in 1 .. Flushed' : Settled(i)'
    BY <1>5, <1>7
  <2>3. \E r \in crashed' : \A j \in 1 .. Flushed' : written'[j][2] <= r
    BY <1>3, <1>5, <1>8
  <2> QED BY <1>9, <1>12, <2>1, <2>2, <2>3 DEF FileInv
<1> QED BY <1>11, <1>13 DEF OutInv

-----------------------------------------------------------------------------
(* The run. *)

Halves == {p \in Pages : stage[p] = "half"}

RunInv ==
    /\ kind \in Kinds
    /\ phase \in {"starting", "discovering", "gathering", "closed", "dead"}
    /\ stage \in [Pages -> {"none", "fetching", "half", "ended"}]
    /\ record.status \in {"none", "SUCCESS", "PARTIAL", "FAIL"}
    /\ record.missing \subseteq required_fields
    /\ record.status # "none" <=> Halves # {}
    /\ \A p \in Halves, q \in Halves : p = q
    /\ Halves # {} => phase = "gathering"
    /\ phase \in {"discovering", "gathering"} => open
    /\ phase # "gathering" => buffer = <<>>
    /\ phase # "dead" => run \notin crashed

\* What a page's stage says of its records in this run.
NewInv ==
    /\ phase \in {"starting", "discovering"} =>
           \A i \in 1 .. Len(written) : written[i][2] < run
    /\ phase = "gathering" =>
           \A p \in Pages : stage[p] = "fetching" =>
               \A i \in 1 .. Len(written) : written[i] # <<p, run>>

Stored == {written[i] : i \in 1 .. Len(written)} \ refused

RowInv ==
    /\ rows \in [Pages -> 0 .. run]
    /\ refused \subseteq {written[i] : i \in 1 .. Len(written)}
    /\ \A p \in Halves : <<p, run>> \in Stored /\ rows[p] < run
    /\ \A p \in Pages : rows[p] # 0 => <<p, rows[p]>> \in Stored
    /\ \A w \in Stored :
           w[2] \in crashed \/ (w[2] = run /\ w[1] \in Halves) \/ rows[w[1]] >= w[2]

CrashInv == OutInv /\ RunInv /\ NewInv /\ RowInv

\* Steps that write nothing.
LEMMA QuietKeeps ==
    ASSUME CrashInv, outputVars' = outputVars
    PROVE  OutInv'
BY DEF CrashInv, OutInv, OutType, FileInv, Flushed, Settled, FirstAfterCrash, outputVars

LEMMA RowKeeps ==
    ASSUME CrashInv, UNCHANGED <<run, open, buffer, cut, file, torn, written, crashed>>
    PROVE  OutInv'
BY DEF CrashInv, OutInv, OutType, FileInv, Flushed, Settled, FirstAfterCrash

\* Steps that change no row and no record.
LEMMA RowQuiet ==
    ASSUME CrashInv, UNCHANGED <<run, written, refused, rows, crashed>>, Halves' = Halves
    PROVE  RowInv'
BY DEF CrashInv, RowInv, Stored

LEMMA RunFacts ==
    ASSUME CrashInv
    PROVE  /\ phase = "gathering" => run \notin crashed
           /\ phase # "gathering" => Halves = {} /\ buffer = <<>>
           /\ run \in Nat /\ run >= 1
BY DEF CrashInv, RunInv, OutInv, OutType

\* A step of one task finds no record half written.
LEMMA TurnAlone ==
    ASSUME CrashInv, NEW p \in Pages, Turn(p)
    PROVE  /\ Halves = {} /\ phase = "gathering" /\ stage[p] = "fetching"
           /\ run \notin crashed
           /\ \A i \in 1 .. Len(written) : written[i] # <<p, run>>
BY DEF CrashInv, RunInv, NewInv, Turn, Halves

LEMMA StartKeeps ==
    ASSUME CrashInv, Start
    PROVE  CrashInv'
<1>1. OutInv'
  BY DEF CrashInv, OutInv, OutType, FileInv, Flushed, Settled, FirstAfterCrash, Start, OutputOpen
<1>2. Halves' = Halves
  BY DEF Halves, Start
<1>3. RunInv'
  BY <1>2 DEF CrashInv, RunInv, Start, OutputOpen, recordVars
<1>4. NewInv'
  BY DEF CrashInv, NewInv, Start
<1>5. RowInv'
  BY <1>2, RowQuiet DEF Start
<1> QED BY <1>1, <1>3, <1>4, <1>5 DEF CrashInv

LEMMA DiscoverKeeps ==
    ASSUME CrashInv, Discover \/ \E p \in Pages : Fetch(p)
    PROVE  CrashInv'
<1>1. UNCHANGED <<outputVars, kind, phase, stage, recordVars>>
  BY DEF Discover, Fetch
<1>2. OutInv'
  BY <1>1, QuietKeeps
<1>3. Halves' = Halves
  BY <1>1 DEF Halves
<1>4. RunInv'
  BY <1>1, <1>3 DEF CrashInv, RunInv, recordVars, outputVars
<1>5. NewInv'
  BY <1>1 DEF CrashInv, NewInv, outputVars
<1>6. RowInv'
  BY <1>1, <1>3, RowQuiet DEF outputVars
<1> QED BY <1>2, <1>4, <1>5, <1>6 DEF CrashInv

LEMMA GatherKeeps ==
    ASSUME CrashInv, Gather
    PROVE  CrashInv'
<1>1. UNCHANGED <<outputVars, kind, recordVars>> /\ phase = "discovering" /\ phase' = "gathering"
  BY DEF Gather
<1>2. OutInv'
  BY <1>1, QuietKeeps
<1>3. \A p \in Pages : stage'[p] \in {"none", "fetching"}
  BY DEF Gather
<1>4. stage' \in [Pages -> {"none", "fetching", "half", "ended"}]
  BY DEF Gather
<1>5. Halves = {} /\ Halves' = {}
  BY <1>1, <1>3, RunFacts DEF Halves
<1>6. RunInv'
  BY <1>1, <1>4, <1>5 DEF CrashInv, RunInv, recordVars, outputVars
<1>7. NewInv'
  <2>1. \A i \in 1 .. Len(written) : written[i][2] < run
    BY <1>1 DEF CrashInv, NewInv
  <2>2. \A i \in 1 .. Len(written), p \in Pages : written[i] # <<p, run>>
    BY <2>1, RunFacts
  <2> QED BY <1>1, <2>2 DEF NewInv, outputVars
<1>8. RowInv'
  BY <1>1, <1>5, RowQuiet DEF outputVars
<1> QED BY <1>2, <1>6, <1>7, <1>8 DEF CrashInv

LEMMA DropKeeps ==
    ASSUME CrashInv, NEW p \in Pages, Drop(p) \/ Break(p)
    PROVE  CrashInv'
<1>1. /\ UNCHANGED <<outputVars, kind, phase, recordVars>> /\ Turn(p)
      /\ stage' = [stage EXCEPT ![p] = "ended"]
  BY DEF Drop, Break, End
<1>2. OutInv'
  BY <1>1, QuietKeeps
<1>3. Halves = {} /\ phase = "gathering"
  BY <1>1, TurnAlone
<1>4. stage \in [Pages -> {"none", "fetching", "half", "ended"}]
  BY DEF CrashInv, RunInv
<1>5. \A q \in Pages : stage'[q] = IF q = p THEN "ended" ELSE stage[q]
  BY <1>1, <1>4
<1>6. Halves' = {}
  BY <1>3, <1>5 DEF Halves
<1>7. RunInv'
  BY <1>1, <1>3, <1>4, <1>6 DEF CrashInv, RunInv, recordVars, outputVars
<1>8. NewInv'
  BY <1>1, <1>3, <1>5 DEF CrashInv, NewInv, outputVars
<1>9. RowInv'
  BY <1>1, <1>3, <1>6, RowQuiet DEF outputVars
<1> QED BY <1>2, <1>7, <1>8, <1>9 DEF CrashInv

\* What a record says of itself.
LEMMA RecordTyped ==
    ASSUME NEW data, NEW entry
    PROVE  LET r == Record(Evaluated(data), entry)
               n == Record(Raised, entry)
           IN  /\ r.status \in {"SUCCESS", "PARTIAL", "FAIL"} /\ r.missing \subseteq required_fields
               /\ n.status \in {"SUCCESS", "PARTIAL", "FAIL"} /\ n.missing \subseteq required_fields
BY DEF Record, Evaluated, Evaluate, Missing, Raised

LEMMA StoreKeeps ==
    ASSUME CrashInv, NEW p \in Pages, Store(p)
    PROVE  CrashInv'
<1> DEFINE w == <<p, run>>
<1>1. /\ Halves = {} /\ phase = "gathering" /\ stage[p] = "fetching" /\ run \notin crashed
      /\ \A i \in 1 .. Len(written) : written[i] # w
  BY TurnAlone DEF Store
<1>2. /\ JsonlWrite(p) /\ stage' = [stage EXCEPT ![p] = "half"]
      /\ UNCHANGED <<kind, phase>>
  BY DEF Store
<1>3. OutInv
  BY DEF CrashInv
<1>4. PICK s, r, k : Lands(s, r, k) /\ s = Append(written, w)
  BY <1>1, <1>2, <1>3, WriteLands
<1>5. OutInv'
  BY <1>1, <1>3, <1>4, LandingKeeps
<1>6. stage \in [Pages -> {"none", "fetching", "half", "ended"}]
  BY DEF CrashInv, RunInv
<1>7. \A q \in Pages : stage'[q] = IF q = p THEN "half" ELSE stage[q]
  BY <1>2, <1>6
<1>8. Halves' = {p}
  BY <1>1, <1>7 DEF Halves
<1>9. /\ record'.status \in {"SUCCESS", "PARTIAL", "FAIL"}
      /\ record'.missing \subseteq required_fields
  BY RecordTyped DEF Store
<1>10. UNCHANGED <<run, open, rows, refused, crashed>>
  BY <1>2 DEF JsonlWrite
<1>11. RunInv'
  BY <1>1, <1>2, <1>6, <1>8, <1>9, <1>10 DEF CrashInv, RunInv
<1>12. /\ Len(written) \in Nat /\ Len(written') = Len(written) + 1
       /\ written'[Len(written) + 1] = w
       /\ \A i \in 1 .. Len(written) : written'[i] = written[i]
  <2>1. written \in Seq(Records) /\ w \in Records /\ written' = Append(written, w)
    BY <1>2, <1>3, RunFacts DEF OutInv, OutType, Records, JsonlWrite
  <2> QED BY <2>1, AppendProperties, LenProperties
<1>13. \A i \in 1 .. Len(written') : i \in 1 .. Len(written) \/ i = Len(written) + 1
  BY <1>12
<1>14. NewInv'
  <2> SUFFICES ASSUME NEW q \in Pages, stage'[q] = "fetching", NEW i \in 1 .. Len(written')
               PROVE  written'[i] # <<q, run>>
    BY <1>1, <1>2, <1>10 DEF NewInv
  <2>1. stage[q] = "fetching" /\ q # p
    BY <1>7
  <2> QED BY <1>1, <1>12, <1>13, <2>1 DEF CrashInv, NewInv
<1>15. RowInv'
  <2>1. {written'[i] : i \in 1 .. Len(written')} = {written[i] : i \in 1 .. Len(written)} \union {w}
    <3>1. \A i \in 1 .. Len(written) : i \in 1 .. Len(written')
      BY <1>12
    <3>2. Len(written) + 1 \in 1 .. Len(written')
      BY <1>12
    <3> HIDE DEF w
    <3> QED BY <1>12, <1>13, <3>1, <3>2
  <2>2. w \notin refused
    BY <1>1 DEF CrashInv, RowInv
  <2>3. Stored' = Stored \union {w}
    <3> HIDE DEF w
    <3> QED BY <1>10, <2>1, <2>2 DEF Stored
  <2>4. w \notin Stored
    BY <1>1 DEF Stored
  <2>5. rows[p] < run
    BY <2>4, RunFacts DEF CrashInv, RowInv
  <2>6. \A v \in Stored' : v[2] \in crashed \/ (v[2] = run /\ v[1] \in {p}) \/ rows[v[1]] >= v[2]
    BY <1>1, <2>3 DEF CrashInv, RowInv
  <2>7. refused' \subseteq {written'[i] : i \in 1 .. Len(written')}
    <3> HIDE DEF w
    <3> QED BY <1>10, <2>1 DEF CrashInv, RowInv
  <2>8. \A q \in Pages : rows[q] # 0 => <<q, rows[q]>> \in Stored'
    BY <2>3 DEF CrashInv, RowInv
  <2>9. w \in Stored' /\ rows \in [Pages -> 0 .. run]
    BY <2>3 DEF CrashInv, RowInv
  <2> QED BY <1>8, <1>10, <2>5, <2>6, <2>7, <2>8, <2>9 DEF RowInv
<1> QED BY <1>5, <1>11, <1>14, <1>15 DEF CrashInv

LEMMA StoreRowKeeps ==
    ASSUME CrashInv, NEW p \in Pages, StoreRow(p)
    PROVE  CrashInv'
<1>1. /\ phase = "gathering" /\ p \in Halves /\ stage' = [stage EXCEPT ![p] = "ended"]
      /\ record' = NoRecord /\ UNCHANGED <<kind, phase>>
  BY DEF StoreRow, End, Halves
<1>2. UNCHANGED <<run, open, buffer, cut, file, torn, written, crashed>>
  BY DEF StoreRow, DuckDbWrite
<1>3. OutInv'
  BY <1>2, RowKeeps
<1>4. Halves = {p}
  BY <1>1 DEF CrashInv, RunInv
<1>5. stage \in [Pages -> {"none", "fetching", "half", "ended"}]
  BY DEF CrashInv, RunInv
<1>6. \A q \in Pages : stage'[q] = IF q = p THEN "ended" ELSE stage[q]
  BY <1>1, <1>5
<1>7. Halves' = {}
  BY <1>4, <1>6 DEF Halves
<1>8. RunInv'
  BY <1>1, <1>2, <1>5, <1>7 DEF CrashInv, RunInv, NoRecord
<1>9. NewInv'
  BY <1>1, <1>2, <1>6 DEF CrashInv, NewInv
<1>10. RowInv'
  <2> DEFINE w == <<p, run>>
  <2>1. w \in Stored /\ rows[p] < run /\ rows \in [Pages -> 0 .. run]
    BY <1>4 DEF CrashInv, RowInv
  <2>2. \A v \in Stored : v = <<v[1], v[2]>> /\ v[1] \in Pages /\ v[2] \in 1 .. run
    <3> SUFFICES ASSUME NEW i \in 1 .. Len(written)
                 PROVE  /\ written[i] = <<written[i][1], written[i][2]>>
                        /\ written[i][1] \in Pages /\ written[i][2] \in 1 .. run
      BY DEF Stored
    <3>1. written[i] \in Records /\ written[i][2] \in 1 .. run
      BY ElementOfSeq DEF CrashInv, OutInv, OutType
    <3> QED BY <3>1 DEF Records
  <2>3. CASE Upsert(p) /\ UNCHANGED refused
    <3>1. Stored' = Stored /\ rows' = [rows EXCEPT ![p] = run]
      BY <1>2, <2>3 DEF Stored, Upsert
    <3>2. rows' \in [Pages -> 0 .. run] /\ \A q \in Pages : rows'[q] = IF q = p THEN run ELSE rows[q]
      BY <2>1, <3>1, RunFacts
    <3>3. \A q \in Pages : rows'[q] # 0 => <<q, rows'[q]>> \in Stored'
      BY <2>1, <3>1, <3>2 DEF CrashInv, RowInv
    <3>4. ASSUME NEW v \in Stored' PROVE v[2] \in crashed \/ rows'[v[1]] >= v[2]
      <4>1. v \in Stored /\ v[1] \in Pages /\ v[2] \in 1 .. run
        BY <2>2, <3>1
      <4>2. CASE v[1] = p
        BY <3>2, <4>1, <4>2, RunFacts
      <4>3. CASE v[1] # p
        BY <1>4, <3>2, <4>1, <4>3 DEF CrashInv, RowInv
      <4> QED BY <4>2, <4>3
    <3> QED BY <1>2, <1>7, <2>3, <3>2, <3>3, <3>4 DEF CrashInv, RowInv
  <2>4. CASE refused' = refused \union {w} /\ UNCHANGED rows
    <3>1. Stored' = Stored \ {w}
      BY <1>2, <2>4 DEF Stored
    <3>2. \A q \in Pages : rows[q] # 0 => <<q, rows[q]>> \in Stored'
      <4> SUFFICES ASSUME NEW q \in Pages, rows[q] # 0 PROVE <<q, rows[q]>> \in Stored'
        OBVIOUS
      <4>1. <<q, rows[q]>> \in Stored
        BY DEF CrashInv, RowInv
      <4>2. <<q, rows[q]>> # w
        BY <2>1, RunFacts
      <4> QED BY <3>1, <4>1, <4>2
    <3>3. ASSUME NEW v \in Stored' PROVE v[2] \in crashed \/ rows[v[1]] >= v[2]
      <4>1. v \in Stored /\ v # w /\ v = <<v[1], v[2]>>
        BY <2>2, <3>1
      <4>2. ~(v[2] = run /\ v[1] \in Halves)
        BY <1>4, <4>1
      <4> QED BY <4>1, <4>2 DEF CrashInv, RowInv
    <3>4. refused' \subseteq {written[i] : i \in 1 .. Len(written)}
      BY <2>1, <2>4 DEF CrashInv, RowInv, Stored
    <3> QED BY <1>2, <1>7, <2>1, <2>4, <3>2, <3>3, <3>4 DEF RowInv
  <2> QED BY <2>3, <2>4 DEF StoreRow, DuckDbWrite
<1> QED BY <1>3, <1>8, <1>9, <1>10 DEF CrashInv

LEMMA CloseKeeps ==
    ASSUME CrashInv, Close
    PROVE  CrashInv'
<1>1. /\ phase = "gathering" /\ phase' = "closed" /\ OutputClose
      /\ \A p \in Pages : stage[p] \in {"none", "ended"}
      /\ UNCHANGED <<kind, stage, record>>
  BY DEF Close, recordVars
<1>2. Halves = {} /\ Halves' = {}
  BY <1>1 DEF Halves
<1>3. OutInv /\ run \notin crashed
  BY <1>1, RunFacts DEF CrashInv
<1>4. OutInv'
  BY <1>1, <1>3, CloseLands, LandingKeeps
<1>5. UNCHANGED <<run, rows, written, refused, crashed>> /\ buffer' = <<>> /\ open' = FALSE
  BY <1>1 DEF OutputClose
<1>6. RunInv'
  BY <1>1, <1>2, <1>3, <1>5 DEF CrashInv, RunInv
<1>7. NewInv'
  BY <1>1 DEF NewInv
<1>8. RowInv'
  BY <1>2, <1>5, RowQuiet
<1> QED BY <1>4, <1>6, <1>7, <1>8 DEF CrashInv

LEMMA DieKeeps ==
    ASSUME CrashInv, Die
    PROVE  CrashInv'
<1>1. /\ phase \in {"discovering", "gathering"} /\ phase' = "dead" /\ OutputCrash
      /\ stage' = [p \in Pages |-> "none"] /\ record' = NoRecord /\ UNCHANGED kind
  BY DEF Die, Gone
<1>2. OutInv /\ run \notin crashed
  BY <1>1 DEF CrashInv, RunInv
<1>3. OutInv'
  BY <1>1, <1>2, CrashKeeps
<1>4. Halves' = {}
  BY <1>1 DEF Halves
<1>5. UNCHANGED <<run, rows, written, refused>> /\ buffer' = <<>> /\ crashed' = crashed \union {run}
  BY <1>1 DEF OutputCrash
<1>6. RunInv'
  BY <1>1, <1>4, <1>5 DEF CrashInv, RunInv, NoRecord
<1>7. NewInv'
  BY <1>1 DEF NewInv
<1>8. RowInv'
  BY <1>4, <1>5 DEF CrashInv, RowInv, Stored
<1> QED BY <1>3, <1>6, <1>7, <1>8 DEF CrashInv

LEMMA RunAgainKeeps ==
    ASSUME CrashInv, RunAgain
    PROVE  CrashInv'
<1>1. /\ phase \in {"closed", "dead"} /\ phase' = "starting"
      /\ run < MaxRuns /\ run' = run + 1
      /\ UNCHANGED <<open, buffer, cut, file, torn, rows, written, refused, crashed>>
      /\ stage' = [p \in Pages |-> "none"] /\ record' = NoRecord /\ UNCHANGED kind
  BY DEF RunAgain, Gone, NextRun
<1>2. Halves = {} /\ buffer = <<>> /\ Halves' = {}
  BY <1>1, RunFacts DEF Halves
<1>3. /\ run \in Nat /\ run >= 1 /\ MaxRuns \in Nat /\ crashed \subseteq 1 .. run
      /\ \A i \in 1 .. Len(written) : written[i][2] \in 1 .. run
      /\ Len(written) \in Nat /\ Flushed = Len(written)
  BY <1>2, RunFacts, OutNumbers, OutputsAssumption DEF CrashInv, OutInv, OutType, Flushed
<1>4. run' \in 1 .. MaxRuns /\ crashed \subseteq 1 .. run' /\ run' \notin crashed
  BY <1>1, <1>3
<1>5. \A i \in 1 .. Len(written) : written[i][2] \in 1 .. run' /\ written[i][2] < run'
  BY <1>1, <1>3
<1>6. OutType'
  BY <1>1, <1>4, <1>5 DEF CrashInv, OutInv, OutType
<1>7. FileInv'
  <2>1. Flushed' = Flushed /\ \A i \in Flushed + 1 .. Len(written) : FALSE
    BY <1>1, <1>3 DEF Flushed
  <2>2. \A i \in 1 .. Flushed : Settled(i) => Settled(i)'
    BY <1>1 DEF Settled, FirstAfterCrash
  <2> QED BY <1>1, <2>1, <2>2 DEF CrashInv, OutInv, FileInv
<1>8. RunInv'
  BY <1>1, <1>2, <1>4 DEF CrashInv, RunInv, NoRecord
<1>9. NewInv'
  BY <1>1, <1>5 DEF NewInv
<1>10. RowInv'
  <2>1. Stored' = Stored
    BY <1>1 DEF Stored
  <2>2. rows \in [Pages -> 0 .. run']
    <3>1. \A x \in 0 .. run : x \in 0 .. run'
      BY <1>1, <1>3
    <3> QED BY <3>1 DEF CrashInv, RowInv
  <2> QED BY <1>1, <1>2, <2>1, <2>2 DEF CrashInv, RowInv
<1> QED BY <1>6, <1>7, <1>8, <1>9, <1>10 DEF CrashInv, OutInv

LEMMA CrashStart == Init => CrashInv
<1> SUFFICES ASSUME Init PROVE CrashInv
  OBVIOUS
<1>1. /\ run = 1 /\ open = FALSE /\ buffer = <<>> /\ cut = FALSE /\ file = <<>> /\ torn = FALSE
      /\ rows = [p \in Pages |-> 0]
      /\ written = <<>> /\ refused = {} /\ crashed = {}
      /\ kind \in Kinds /\ phase = "starting"
      /\ stage = [p \in Pages |-> "none"] /\ record = NoRecord
  BY DEF Init, OutputInit
<1>2. Len(written) = 0 /\ Len(buffer) = 0 /\ DOMAIN file = {} /\ DOMAIN written = {} /\ Flushed = 0
  BY <1>1 DEF Flushed
<1>3. OutType
  <2>1. crashed \subseteq 1 .. run /\ IsFiniteSet(crashed)
    BY <1>1, FS_EmptySet
  <2>2. written \in Seq(Records) /\ buffer \in Seq(Records) /\ file \in Seq(FileLines)
    BY <1>1, EmptySeq
  <2>3. run \in 1 .. MaxRuns /\ {open, cut, torn} \subseteq BOOLEAN
    <3>1. 1 \in 1 .. MaxRuns
      BY OutputsAssumption
    <3>2. {open, cut, torn} = {FALSE}
      BY <1>1
    <3> QED BY <1>1, <3>1, <3>2
  <2>4. \A i \in 1 .. Len(written) : written[i][2] \in 1 .. run
    BY <1>2
  <2>5. ~cut
    BY <1>1
  <2> QED BY <2>1, <2>2, <2>3, <2>4, <2>5 DEF OutType
<1>4. FileInv
  <2>1. LastOf(buffer, written) /\ Filed(file, written, Flushed)
    BY <1>2 DEF LastOf, Filed
  <2>2. BadLines(file) = {}
    BY <1>2 DEF BadLines
  <2>3. IsFiniteSet(BadLines(file)) /\ Cardinality(BadLines(file)) <= Cardinality(crashed)
    <3>1. IsFiniteSet({}) /\ Cardinality({}) = 0
      BY FS_EmptySet
    <3>2. Cardinality({}) <= Cardinality({})
      BY <3>1
    <3>3. BadLines(file) = {} /\ crashed = {}
      BY <1>1, <2>2
    <3> QED BY <3>1, <3>2, <3>3
  <2>4. IsInjective(written)
    BY <1>2 DEF IsInjective
  <2> QED BY <1>1, <1>2, <2>1, <2>3, <2>4 DEF FileInv
<1>5. Halves = {}
  BY <1>1 DEF Halves
<1>6. RunInv
  BY <1>1, <1>5 DEF RunInv, NoRecord
<1>7. NewInv
  BY <1>1, <1>2 DEF NewInv
<1>8. RowInv
  <2>1. {written[i] : i \in 1 .. Len(written)} = {} /\ Stored = {}
    BY <1>2 DEF Stored
  <2> QED BY <1>1, <1>5, <2>1 DEF RowInv
<1> QED BY <1>3, <1>4, <1>6, <1>7, <1>8 DEF CrashInv, OutInv

LEMMA CrashNext ==
    ASSUME CrashInv, [Next]_vars
    PROVE  CrashInv'
<1>1. CASE UNCHANGED vars
  <2>1. UNCHANGED <<outputVars, kind, phase, stage, recordVars>>
    BY <1>1 DEF vars, recordVars
  <2>2. OutInv'
    BY <2>1, QuietKeeps
  <2>3. Halves' = Halves
    BY <2>1 DEF Halves
  <2>4. RunInv'
    BY <2>1, <2>3 DEF CrashInv, RunInv, recordVars, outputVars
  <2>5. NewInv'
    BY <2>1 DEF CrashInv, NewInv, outputVars
  <2>6. RowInv'
    BY <2>1, <2>3, RowQuiet DEF outputVars
  <2> QED BY <2>2, <2>4, <2>5, <2>6 DEF CrashInv
<1>2. CASE Start
  BY <1>2, StartKeeps
<1>3. CASE Discover \/ \E p \in Pages : Fetch(p)
  BY <1>3, DiscoverKeeps
<1>4. CASE Gather
  BY <1>4, GatherKeeps
<1>5. CASE \E p \in Pages : Drop(p) \/ Break(p)
  BY <1>5, DropKeeps
<1>6. CASE \E p \in Pages : Store(p)
  BY <1>6, StoreKeeps
<1>7. CASE \E p \in Pages : StoreRow(p)
  BY <1>7, StoreRowKeeps
<1>8. CASE Close
  BY <1>8, CloseKeeps
<1>9. CASE Die
  BY <1>9, DieKeeps
<1>10. CASE RunAgain
  BY <1>10, RunAgainKeeps
<1> QED BY <1>1, <1>2, <1>3, <1>4, <1>5, <1>6, <1>7, <1>8, <1>9, <1>10 DEF Next

-----------------------------------------------------------------------------
\* The position of the record that is lost after the crash of run r.
LostAfter(i, r) ==
    /\ i \in DOMAIN written
    /\ r < written[i][2] /\ \A j \in 1 .. i - 1 : written[j][2] <= r

\* A record of a run that ended has left the buffer, and is lost only as the first one
\* after a crash.
LEMMA LostIsFirst ==
    ASSUME CrashInv, NEW i \in DOMAIN written, written[i] \in Lost
    PROVE  FirstAfterCrash(i)
<1>1. Healthy(written[i]) /\ ~Contains(file, written[i])
  BY DEF Lost
<1>2. i \in 1 .. Flushed
  <2>1. OutInv /\ i \in 1 .. Len(written) /\ Len(written) \in Nat /\ Flushed \in 0 .. Len(written)
    BY OutNumbers DEF CrashInv
  <2>2. CASE written[i][2] = run
    <3>1. phase = "closed"
      BY <1>1, <2>2 DEF Healthy
    <3>2. Len(buffer) = 0
      BY <3>1 DEF CrashInv, RunInv
    <3> QED BY <2>1, <3>2 DEF Flushed
  <2>3. CASE written[i][2] # run
    BY <2>1, <2>3 DEF OutInv, FileInv
  <2> QED BY <2>2, <2>3
<1>3. Settled(i)
  BY <1>2 DEF CrashInv, OutInv, FileInv
<1> QED BY <1>1, <1>3 DEF Settled, Healthy

\* There is at most one after each crash.
LEMMA FewLost ==
    ASSUME CrashInv
    PROVE  Cardinality(Lost) <= Cardinality(crashed)
<1>1. ASSUME NEW w \in Lost
      PROVE  \E i \in DOMAIN written, r \in crashed : written[i] = w /\ LostAfter(i, r)
  <2>1. PICK i \in DOMAIN written : written[i] = w
    <3>1. w \in ToSet(written)
      BY <1>1 DEF Lost
    <3> QED BY <3>1 DEF ToSet
  <2>2. FirstAfterCrash(i)
    BY <1>1, <2>1, LostIsFirst
  <2> QED BY <2>1, <2>2 DEF FirstAfterCrash, LostAfter
<1>2. ASSUME NEW i \in DOMAIN written, NEW j \in DOMAIN written, NEW r \in crashed,
             LostAfter(i, r), LostAfter(j, r)
      PROVE  i = j
  <2>1. i \in Nat /\ j \in Nat /\ i >= 1 /\ j >= 1
    BY OutNumbers DEF CrashInv
  <2>2. written[i][2] \in Nat /\ written[j][2] \in Nat /\ r \in Nat
    <3>1. OutInv /\ run \in Nat /\ i \in 1 .. Len(written) /\ j \in 1 .. Len(written)
      BY OutNumbers DEF CrashInv
    <3> QED BY <3>1 DEF OutInv, OutType
  <2>3. ~(i < j)
    BY <1>2, <2>1, <2>2 DEF LostAfter
  <2>4. ~(j < i)
    BY <1>2, <2>1, <2>2 DEF LostAfter
  <2> QED BY <2>1, <2>3, <2>4
<1> DEFINE After(w) == CHOOSE r \in crashed :
                           \E i \in DOMAIN written : written[i] = w /\ LostAfter(i, r)
           after == [w \in Lost |-> After(w)]
<1>3. ASSUME NEW w \in Lost
      PROVE  After(w) \in crashed /\ \E i \in DOMAIN written : written[i] = w /\ LostAfter(i, After(w))
  BY <1>1
<1> HIDE DEF After
<1>4. after \in [Lost -> crashed] /\ \A w \in Lost : after[w] = After(w)
  BY <1>3
<1>5. ASSUME NEW w \in Lost, NEW v \in Lost, After(w) = After(v)
      PROVE  w = v
  <2>1. PICK i \in DOMAIN written : written[i] = w /\ LostAfter(i, After(w))
    BY <1>3
  <2>2. PICK j \in DOMAIN written : written[j] = v /\ LostAfter(j, After(v))
    BY <1>3
  <2> QED BY <1>2, <1>3, <1>5, <2>1, <2>2
<1>6. after \in Injection(Lost, crashed)
  BY <1>4, <1>5 DEF Injection, IsInjective
<1>7. IsFiniteSet(crashed)
  BY DEF CrashInv, OutInv, OutType
<1> HIDE DEF after
<1> QED BY <1>6, <1>7, FS_Injection

LEMMA CrashCosts == CrashInv => CrashCost
<1> SUFFICES ASSUME CrashInv PROVE CrashCost
  OBVIOUS
<1>1. /\ Len(written) \in Nat /\ Flushed \in 0 .. Len(written)
      /\ DOMAIN written = 1 .. Len(written) /\ OutInv
  BY OutNumbers DEF CrashInv
<1>2. ToSet(written) = {written[i] : i \in 1 .. Len(written)}
  BY <1>1 DEF ToSet
<1>3. Cardinality({i \in DOMAIN file : file[i] = Bad}) <= Cardinality(crashed)
  BY <1>1 DEF OutInv, FileInv, BadLines
<1>4. \A i \in 1 .. Flushed : i \in DOMAIN written
  BY <1>1
<1>5. ASSUME NEW a \in Whole PROVE Contains(written, file[a])
  <2>1. PICK i \in 1 .. Flushed : file[a] = written[i]
    BY <1>1 DEF Whole, OutInv, FileInv, Filed
  <2> QED BY <1>1, <1>4, <2>1 DEF Contains
<1>6. ASSUME NEW a \in Whole, NEW b \in Whole, a < b
      PROVE  \E i \in DOMAIN written, j \in DOMAIN written :
                 i < j /\ file[a] = written[i] /\ file[b] = written[j]
  <2>1. PICK i \in 1 .. Flushed, j \in 1 .. Flushed :
            i < j /\ file[a] = written[i] /\ file[b] = written[j]
    BY <1>1, <1>6 DEF Whole, OutInv, FileInv, Filed
  <2> QED BY <1>4, <2>1
<1>7. ASSUME NEW w \in ToSet(written) \ refused, Healthy(w) PROVE rows[w[1]] >= w[2]
  <2>1. w \in Stored
    BY <1>2 DEF Stored
  <2>2. w[2] \notin crashed /\ ~(w[2] = run /\ w[1] \in Halves)
    BY <1>7, RunFacts DEF Healthy
  <2> QED BY <2>1, <2>2 DEF CrashInv, RowInv
<1>8. ASSUME NEW p \in Pages, rows[p] # 0 PROVE <<p, rows[p]>> \in ToSet(written) \ refused
  BY <1>2, <1>8 DEF CrashInv, RowInv, Stored
<1>9. Cardinality(Lost) <= Cardinality(crashed)
  BY FewLost
<1>10. \A i \in DOMAIN written : written[i] \in Lost => FirstAfterCrash(i)
  BY LostIsFirst
<1>11. IsInjective(written)
  BY <1>1 DEF OutInv, FileInv
<1> QED BY <1>3, <1>5, <1>6, <1>7, <1>8, <1>9, <1>10, <1>11 DEF CrashCost

\* However many runs there are and wherever they die: a run that ends has every record it
\* wrote in the file, but for one after each crash, lines are cut by crashes alone, and a
\* row of DuckDB is of the last run that wrote it (JsonlOutput, DuckDbOutput, _emit).
THEOREM CrashesCostLittle == Spec => []CrashCost
<1>1. CrashInv /\ [Next]_vars => CrashInv'
  BY CrashNext
<1> QED BY <1>1, CrashStart, CrashCosts, PTL DEF Spec

-----------------------------------------------------------------------------
(* The feeds.  What is taken of them are links without repetition, up to   *)
(* max_items, and the entries are kept of just these.                      *)

LEMMA LeastOf ==
    ASSUME NEW T, T \subseteq Nat, T # {}
    PROVE  \E x \in T : \A y \in T : x <= y
<1>1. PICK x \in T : \A y \in T : ~ (<<y, x>> \in OpToRel(<, Nat))
  BY NatLessThanWellFounded, WFMin
<1>2. \A y \in T : ~ (y < x)
  BY <1>1 DEF OpToRel
<1> QED BY <1>2

Entries == [link : Pages \union {NoLink}, has : SUBSET FeedFields]

Took(s) ==
    /\ s.urls \in Seq(Pages) /\ Len(s.urls) <= MaxItems
    /\ s.meta \in [DOMAIN s.meta -> SUBSET FeedFields]
    /\ DOMAIN s.meta = {s.urls[i] : i \in 1 .. Len(s.urls)}
    /\ IsInjective(s.urls)

LEMMA TakeKeeps ==
    ASSUME NEW s, Took(s), NEW e \in Entries
    PROVE  Took(Take(s, e))
<1>1. CASE e.link = NoLink \/ e.link \in DOMAIN s.meta \/ Len(s.urls) >= MaxItems
  BY <1>1 DEF Take
<1>2. CASE ~(e.link = NoLink \/ e.link \in DOMAIN s.meta \/ Len(s.urls) >= MaxItems)
  <2> DEFINE u == Append(s.urls, e.link)
             m == [p \in (DOMAIN s.meta) \union {e.link} |->
                       IF p = e.link THEN e.has ELSE s.meta[p]]
  <2>1. Take(s, e) = [urls |-> u, meta |-> m]
    BY <1>2 DEF Take
  <2>2. /\ s.urls \in Seq(Pages) /\ Len(s.urls) \in Nat /\ DOMAIN s.urls = 1 .. Len(s.urls)
        /\ e.link \in Pages /\ e.has \in SUBSET FeedFields
    BY <1>2, LenProperties DEF Took, Entries
  <2>3. /\ u \in Seq(Pages) /\ Len(u) = Len(s.urls) + 1 /\ u[Len(s.urls) + 1] = e.link
        /\ \A i \in 1 .. Len(s.urls) : u[i] = s.urls[i]
    BY <2>2, AppendProperties
  <2>4. DOMAIN u = 1 .. Len(s.urls) + 1
    BY <2>3, LenProperties
  <2>5. Len(u) <= MaxItems
    BY <1>2, <2>2, <2>3, HttpAssumption
  <2>6. DOMAIN m = (DOMAIN s.meta) \union {e.link} /\ m \in [DOMAIN m -> SUBSET FeedFields]
    BY <2>2 DEF Took
  <2> HIDE DEF u, m
  <2>7. \A i \in 1 .. Len(s.urls) : s.urls[i] # e.link
    BY <1>2 DEF Took
  <2>8. \A i \in 1 .. Len(u) : i \in 1 .. Len(s.urls) \/ i = Len(s.urls) + 1
    BY <2>2, <2>3
  <2>9. IsInjective(u)
    <3> SUFFICES ASSUME NEW i \in 1 .. Len(u), NEW j \in 1 .. Len(u), u[i] = u[j] PROVE i = j
      BY <2>3, <2>4 DEF IsInjective
    <3> QED BY <2>2, <2>3, <2>7, <2>8 DEF Took, IsInjective
  <2>10. {u[i] : i \in 1 .. Len(u)} = {s.urls[i] : i \in 1 .. Len(s.urls)} \union {e.link}
    <3>1. \A i \in 1 .. Len(s.urls) : i \in 1 .. Len(u)
      BY <2>2, <2>3
    <3>2. Len(s.urls) + 1 \in 1 .. Len(u)
      BY <2>2, <2>3
    <3> QED BY <2>3, <2>8, <3>1, <3>2
  <2>11. DOMAIN m = {u[i] : i \in 1 .. Len(u)}
    BY <2>6, <2>10 DEF Took
  <2>12. u \in Seq(Pages) /\ Len(u) <= MaxItems /\ m \in [DOMAIN m -> SUBSET FeedFields]
    BY <2>3, <2>5, <2>6
  <2>13. \A t : t.urls = u /\ t.meta = m => Took(t)
    BY <2>9, <2>11, <2>12, Zenon DEF Took
  <2> QED BY <2>1, <2>13
<1> QED BY <1>1, <1>2

\* f says what is taken of the first n entries of es, after s.
Follows(f, s, es, n) == f = [i \in 0 .. n |-> IF i = 0 THEN s ELSE Take(f[i - 1], es[i])]

LEMMA FollowsExists ==
    ASSUME NEW s, NEW es, NEW n \in Nat
    PROVE  \E f : Follows(f, s, es, n)
<1> DEFINE T == {k \in Nat : ~\E f : Follows(f, s, es, k)}
<1>1. CASE T = {}
  BY <1>1
<1>2. CASE T # {}
  <2>1. PICK k \in T : \A l \in T : k <= l
    <3>1. T \subseteq Nat
      OBVIOUS
    <3> HIDE DEF T
    <3> QED BY <1>2, <3>1, LeastOf
  <2>2. CASE k = 0
    <3>1. Follows([i \in 0 .. 0 |-> s], s, es, 0)
      BY DEF Follows
    <3> QED BY <2>1, <2>2, <3>1
  <2>3. CASE k # 0
    <3>1. k \in Nat /\ k - 1 \in Nat /\ k - 1 \notin T
      BY <2>1, <2>3
    <3>2. PICK f : Follows(f, s, es, k - 1)
      BY <3>1
    <3> DEFINE g == [i \in 0 .. k |-> IF i = k THEN Take(f[k - 1], es[k]) ELSE f[i]]
               h == [i \in 0 .. k |-> IF i = 0 THEN s ELSE Take(g[i - 1], es[i])]
    <3>3. ASSUME NEW i \in 0 .. k PROVE g[i] = h[i]
      <4>1. CASE i = k
        <5>1. g[i - 1] = f[k - 1]
          BY <2>3, <3>1, <4>1
        <5> QED BY <2>3, <4>1, <5>1
      <4>2. CASE i # k
        <5>1. i \in 0 .. k - 1 /\ (i # 0 => i - 1 \in 0 .. k /\ i - 1 # k)
          BY <3>1, <4>2
        <5>2. f[i] = IF i = 0 THEN s ELSE Take(f[i - 1], es[i])
          BY <3>2, <5>1 DEF Follows
        <5>3. g[i] = f[i] /\ (i # 0 => g[i - 1] = f[i - 1])
          BY <4>2, <5>1
        <5> QED BY <5>2, <5>3
      <4> QED BY <4>1, <4>2
    <3>4. g = h
      BY <3>3
    <3> HIDE DEF g
    <3>5. Follows(g, s, es, k)
      BY <3>4 DEF Follows
    <3> QED BY <2>1, <3>5
  <2> QED BY <2>2, <2>3
<1> QED BY <1>1, <1>2

LEMMA TakeEachKeeps ==
    ASSUME NEW s, Took(s), NEW es \in Seq(Entries)
    PROVE  Took(TakeEach(s, es))
<1> DEFINE n == Len(es)
           f == CHOOSE g : Follows(g, s, es, n)
<1>1. n \in Nat
  BY LenProperties
<1>2. TakeEach(s, es) = f[n]
  BY DEF TakeEach, Follows
<1> HIDE DEF n
<1>3. Follows(f, s, es, n)
  BY <1>1, FollowsExists
<1> HIDE DEF f
<1>4. \A i \in 0 .. n : f[i] = IF i = 0 THEN s ELSE Take(f[i - 1], es[i])
  BY <1>3 DEF Follows
<1> DEFINE T == {i \in 0 .. n : ~Took(f[i])}
<1>5. CASE T = {}
  BY <1>1, <1>2, <1>5
<1>6. CASE T # {}
  <2>1. PICK k \in T : \A l \in T : k <= l
    <3>1. T \subseteq Nat
      OBVIOUS
    <3> HIDE DEF T
    <3> QED BY <1>6, <3>1, LeastOf
  <2>2. k # 0
    BY <1>1, <1>4, <2>1
  <2>3. k - 1 \in 0 .. n /\ k \in 1 .. n /\ k - 1 \notin T
    BY <1>1, <2>1, <2>2
  <2>4. es[k] \in Entries
    BY <2>3, ElementOfSeq DEF n
  <2>5. Took(Take(f[k - 1], es[k]))
    BY <2>3, <2>4, TakeKeeps
  <2> QED BY <1>4, <2>1, <2>2, <2>3, <2>5
<1> QED BY <1>5, <1>6

-----------------------------------------------------------------------------
(* Fetching.  An answer goes with the requests that were sent.             *)

AllCodes == Codes \union {NoResponse}

\* codes are the answers to the requests of a page whose result is a.
Asked(codes, a) ==
    \/ codes = <<>> /\ a = NoAnswer
    \/ \E c \in AllCodes :
           codes = <<c>> /\ (a = ResultOf(c) \/ (a = NoAnswer /\ Blocked(c)))
    \/ \E c \in AllCodes, d \in AllCodes :
           codes = <<c, d>> /\ Blocked(c) /\ a = IF d >= 400 THEN Failed ELSE ResultOf(d)

HttpInv ==
    /\ kind \in Kinds
    /\ feed \in 0 .. FeedCount
    /\ urls \in Seq(Pages) /\ Len(urls) <= MaxItems
    /\ DOMAIN meta \subseteq Pages /\ meta \in [DOMAIN meta -> SUBSET FeedFields]
    /\ kind = "rss" => DOMAIN meta = {urls[i] : i \in 1 .. Len(urls)} /\ IsInjective(urls)
    /\ DOMAIN sent = Pages /\ DOMAIN answer = Pages
    /\ sent \in [Pages -> Seq(AllCodes)] /\ answer \in [Pages -> Answers]
    /\ \A p \in Pages : Asked(sent[p], answer[p])

LEMMA ResultTyped ==
    ASSUME NEW c \in AllCodes
    PROVE  /\ c \in Nat /\ ResultOf(c) \in Answers
           /\ ResultOf(c).status \in {"SUCCESS", "RATE_LIMITED", "FAILED"}
           /\ ResultOf(c).status = "SUCCESS" /\ ResultOf(c).html =>
                  c < 400 /\ c \notin {NoResponse, NoBody}
           /\ ResultOf(c).status = "RATE_LIMITED" => c = 429
           /\ ResultOf(c).status = "FAILED" => c \notin 200 .. 399
<1>1. c \in 200 .. 599 \/ c = 0
  BY HttpAssumption DEF AllCodes, NoResponse
<1>2. CASE c = 0
  BY <1>2 DEF ResultOf, Failed, Answers, NoResponse
<1>3. CASE c \in 200 .. 599
  <2>1. CASE c = 429
    BY <1>3, <2>1 DEF ResultOf, Answers, NoResponse
  <2>2. CASE c >= 400 /\ c # 429
    BY <1>3, <2>2 DEF ResultOf, Failed, Answers, NoResponse
  <2>3. CASE c < 400
    <3>1. ResultOf(c) = [status |-> "SUCCESS", html |-> c # NoBody]
      BY <1>3, <2>3 DEF ResultOf, NoResponse
    <3>2. ResultOf(c).status = "SUCCESS" /\ (ResultOf(c).html => c # NoBody)
      <4> DEFINE b == c # NoBody
      <4>1. ResultOf(c) = [status |-> "SUCCESS", html |-> b]
        BY <3>1
      <4> HIDE DEF b
      <4>2. ResultOf(c).status = "SUCCESS" /\ ResultOf(c).html = b
        BY <4>1
      <4>3. b => c # NoBody
        BY DEF b
      <4> QED BY <4>2, <4>3, Zenon
    <3>3. ResultOf(c) \in Answers
      BY <3>1 DEF Answers
    <3> QED BY <1>3, <2>3, <3>2, <3>3 DEF NoResponse
  <2> QED BY <1>3, <2>1, <2>2, <2>3
<1> QED BY <1>1, <1>2, <1>3

\* What FetchContract says of a page.
Contract(codes, a) ==
    /\ Len(codes) = 2 => Impersonate /\ codes[1] \in BLOCK_CODES
    /\ Len(codes) <= 2
    /\ Ok(a) => codes[Len(codes)] < 400 /\ codes[Len(codes)] \notin {NoResponse, NoBody}
    /\ a.status = "RATE_LIMITED" => codes = <<429>>
    /\ a.status = "FAILED" => codes[Len(codes)] \notin 200 .. 399

LEMMA AskedContract ==
    ASSUME NEW codes, NEW a, Asked(codes, a)
    PROVE  Contract(codes, a)
<1> USE DEF Contract
<1>1. CASE codes = <<>> /\ a = NoAnswer
  BY <1>1 DEF NoAnswer, Ok
<1>2. ASSUME NEW c \in AllCodes, codes = <<c>>, a = ResultOf(c) \/ (a = NoAnswer /\ Blocked(c))
      PROVE  /\ Len(codes) = 1 /\ codes[1] = c
             /\ Ok(a) => c < 400 /\ c \notin {NoResponse, NoBody}
             /\ a.status = "RATE_LIMITED" => codes = <<429>>
             /\ a.status = "FAILED" => c \notin 200 .. 399
  BY <1>2, ResultTyped DEF NoAnswer, Ok
<1>3. ASSUME NEW c \in AllCodes, NEW d \in AllCodes, codes = <<c, d>>, Blocked(c),
             a = IF d >= 400 THEN Failed ELSE ResultOf(d)
      PROVE  /\ Len(codes) = 2 /\ codes[1] = c /\ codes[2] = d /\ Impersonate /\ c \in BLOCK_CODES
             /\ Ok(a) => d < 400 /\ d \notin {NoResponse, NoBody}
             /\ a.status # "RATE_LIMITED"
             /\ a.status = "FAILED" => d \notin 200 .. 399
  <2>1. CASE d >= 400
    BY <1>3, <2>1, ResultTyped DEF Failed, Ok, Blocked
  <2>2. CASE ~(d >= 400)
    BY <1>3, <2>2, ResultTyped DEF Ok, Blocked
  <2> QED BY <2>1, <2>2
<1>4. CASE \E c \in AllCodes :
               codes = <<c>> /\ (a = ResultOf(c) \/ (a = NoAnswer /\ Blocked(c)))
  BY <1>2, <1>4
<1>5. CASE \E c \in AllCodes, d \in AllCodes :
               codes = <<c, d>> /\ Blocked(c) /\ a = IF d >= 400 THEN Failed ELSE ResultOf(d)
  BY <1>3, <1>5
<1> QED BY <1>1, <1>4, <1>5 DEF Asked

\* A page that was requested once.
LEMMA AskedOnce ==
    ASSUME NEW codes, NEW a, Asked(codes, a), Len(codes) = 1
    PROVE  \E b \in AllCodes : codes = <<b>> /\ (a = NoAnswer => Blocked(b))
<1>1. \A b \in AllCodes : ResultOf(b) # NoAnswer
  BY ResultTyped DEF NoAnswer
<1>2. codes # <<>> /\ ~\E c, d : codes = <<c, d>>
  OBVIOUS
<1> QED BY <1>1, <1>2 DEF Asked

LEMMA Pair == ASSUME NEW b, NEW c PROVE Append(<<b>>, c) = <<b, c>>
<1> DEFINE s == Append(<<b>>, c)
<1>1. <<b>> \in Seq({b, c}) /\ Len(<<b>>) = 1 /\ c \in {b, c}
  OBVIOUS
<1>2. s \in Seq({b, c}) /\ Len(s) = 2 /\ s[1] = b /\ s[2] = c
  BY <1>1, AppendProperties
<1>3. <<b, c>> \in Seq({b, c}) /\ Len(<<b, c>>) = 2
  OBVIOUS
<1> HIDE DEF s
<1>4. \A i \in 1 .. 2 : s[i] = <<b, c>>[i]
  BY <1>2
<1>5. s = <<b, c>>
  BY <1>2, <1>3, <1>4, SeqEqual
<1> QED BY <1>5 DEF s

\* One request more, or none.
LEMMA RequestKeeps ==
    ASSUME HttpInv, NEW p \in Pages, HttpFetch(p), UNCHANGED kind
    PROVE  HttpInv'
<1> USE DEF HttpInv
<1>1. /\ UNCHANGED <<feed, urls, meta>>
      /\ \E c \in AllCodes : Respond(p, c) \/ Escalate(p, c) \/ NoEscalation(p)
  BY DEF HttpFetch, Respond, Escalate, NoEscalation, Give, AllCodes
<1>2. PICK c \in AllCodes : Respond(p, c) \/ Escalate(p, c) \/ NoEscalation(p)
  BY <1>1
<1>3. CASE Respond(p, c)
  <2> DEFINE a == IF Blocked(c) THEN NoAnswer ELSE ResultOf(c)
  <2>1. /\ sent' = [sent EXCEPT ![p] = <<c>>] /\ answer' = [answer EXCEPT ![p] = a]
    BY <1>3 DEF Respond, Give
  <2>2. a \in Answers /\ Asked(<<c>>, a) /\ <<c>> \in Seq(AllCodes)
    BY ResultTyped DEF Asked, Answers, NoAnswer
  <2> HIDE DEF a
  <2> QED BY <1>1, <2>1, <2>2
<1>4. CASE Escalate(p, c)
  <2> DEFINE a == IF c >= 400 THEN Failed ELSE ResultOf(c)
  <2>1. PICK b \in AllCodes : sent[p] = <<b>> /\ Blocked(b)
    BY <1>4, AskedOnce DEF Escalate
  <2>2. /\ sent' = [sent EXCEPT ![p] = <<b, c>>] /\ answer' = [answer EXCEPT ![p] = a]
    <3>1. Append(sent[p], c) = <<b, c>>
      BY <2>1, Pair
    <3> QED BY <1>4, <3>1 DEF Escalate, Give, SecondAnswer
  <2>3. a \in Answers /\ Asked(<<b, c>>, a) /\ <<b, c>> \in Seq(AllCodes)
    BY <2>1, ResultTyped DEF Asked, Answers, Failed
  <2> HIDE DEF a
  <2> QED BY <1>1, <2>2, <2>3
<1>5. CASE NoEscalation(p)
  <2>1. PICK b \in AllCodes : sent[p] = <<b>>
    BY <1>5, AskedOnce DEF NoEscalation
  <2>2. sent' = sent /\ answer' = [answer EXCEPT ![p] = ResultOf(b)]
    BY <1>5, <2>1 DEF NoEscalation
  <2>3. ResultOf(b) \in Answers /\ Asked(<<b>>, ResultOf(b))
    BY ResultTyped DEF Asked
  <2> QED BY <1>1, <2>1, <2>2, <2>3
<1> QED BY <1>2, <1>3, <1>4, <1>5

LEMMA ForgetKeeps ==
    ASSUME HttpInv, NEW p \in Pages, HttpForget(p), UNCHANGED kind
    PROVE  HttpInv'
<1>1. <<>> \in Seq(AllCodes) /\ NoAnswer \in Answers /\ Asked(<<>>, NoAnswer)
  BY DEF Asked, NoAnswer, Answers
<1> QED BY <1>1 DEF HttpForget, HttpInv

\* A source is built.
LEMMA Anew ==
    ASSUME kind' \in Kinds, HttpAnew
    PROVE  HttpInv'
<1>1. <<>> \in Seq(AllCodes) /\ NoAnswer \in Answers /\ Asked(<<>>, NoAnswer)
  BY DEF Asked, NoAnswer, Answers
<1>2. urls' \in Seq(Pages) /\ Len(urls') = 0 /\ DOMAIN urls' = {} /\ DOMAIN meta' = {}
  BY DEF HttpAnew
<1>3. 0 \in 0 .. FeedCount /\ 0 <= MaxItems
  BY HttpAssumption
<1>4. {urls'[i] : i \in 1 .. Len(urls')} = {}
  BY <1>2
<1>5. IsInjective(urls')
  BY <1>2 DEF IsInjective
<1>6. meta' \in [DOMAIN meta' -> SUBSET FeedFields]
  BY <1>2 DEF HttpAnew
<1> QED BY <1>1, <1>2, <1>3, <1>4, <1>5, <1>6 DEF HttpAnew, HttpInv

LEMMA FeedKeeps ==
    ASSUME HttpInv, ReadFeed, kind = "rss", UNCHANGED kind
    PROVE  HttpInv'
<1> DEFINE s == [urls |-> urls, meta |-> meta]
<1>1. PICK es \in EntryLists \union {<<>>} :
          urls' = TakeEach(s, es).urls /\ meta' = TakeEach(s, es).meta
  BY DEF ReadFeed
<1>2. es \in Seq(Entries)
  <2>1. CASE es \in EntryLists
    BY <2>1, HttpAssumption DEF Entries
  <2>2. CASE es = <<>>
    BY <2>2
  <2> QED BY <2>1, <2>2
<1>3. s.urls = urls /\ s.meta = meta
  OBVIOUS
<1> HIDE DEF s
<1>4. Took(s)
  BY <1>3 DEF Took, HttpInv
<1>5. Took(TakeEach(s, es))
  BY <1>2, <1>4, TakeEachKeeps
<1>6. /\ urls' \in Seq(Pages) /\ Len(urls') <= MaxItems
      /\ meta' \in [DOMAIN meta' -> SUBSET FeedFields]
      /\ DOMAIN meta' = {urls'[i] : i \in 1 .. Len(urls')} /\ IsInjective(urls')
  BY <1>1, <1>5 DEF Took
<1>7. DOMAIN meta' \subseteq Pages
  <2>1. \A i \in 1 .. Len(urls') : urls'[i] \in Pages
    BY <1>6, ElementOfSeq
  <2> QED BY <1>6, <2>1
<1>8. feed' \in 0 .. FeedCount /\ UNCHANGED <<sent, answer>>
  BY HttpAssumption DEF ReadFeed, Discovering, HttpInv
<1> QED BY <1>6, <1>7, <1>8 DEF HttpInv

LEMMA GatherFeeds ==
    ASSUME HttpInv, Gather
    PROVE  HttpInv'
<1>1. UNCHANGED <<feed, meta, sent, answer, kind>>
  BY DEF Gather
<1>2. CASE kind = "rss"
  BY <1>1, <1>2 DEF Gather, HttpInv
<1>3. CASE kind # "rss"
  <2> DEFINE n == Min({MaxItems, Len(ConfigUrls)})
  <2>1. MaxItems \in Nat /\ Len(ConfigUrls) \in Nat /\ ConfigUrls \in Seq(Pages)
    BY HttpAssumption, DocumentsAssumption, LenProperties
  <2>2. n \in Nat /\ n <= MaxItems /\ n <= Len(ConfigUrls)
    <3>1. \E x \in {MaxItems, Len(ConfigUrls)} : \A y \in {MaxItems, Len(ConfigUrls)} : x <= y
      BY <2>1
    <3> QED BY <2>1, <3>1 DEF Min
  <2> HIDE DEF n
  <2>3. urls' = SubSeq(ConfigUrls, 1, n)
    BY <1>3 DEF Gather, n
  <2>4. \A i \in 1 .. n : ConfigUrls[i] \in Pages
    BY <2>1, <2>2, ElementOfSeq
  <2>5. urls' \in Seq(Pages) /\ Len(urls') = IF 1 <= n THEN n - 1 + 1 ELSE 0
    BY <2>2, <2>3, <2>4, SubSeqProperties
  <2>6. Len(urls') <= MaxItems
    BY <2>1, <2>2, <2>5
  <2> QED BY <1>1, <1>3, <2>5, <2>6 DEF HttpInv
<1> QED BY <1>2, <1>3

LEMMA HttpStart == Init => HttpInv
<1> SUFFICES ASSUME Init PROVE HttpInv
  OBVIOUS
<1>1. <<>> \in Seq(AllCodes) /\ NoAnswer \in Answers /\ Asked(<<>>, NoAnswer)
  BY DEF Asked, NoAnswer, Answers
<1>2. urls \in Seq(Pages) /\ Len(urls) = 0 /\ DOMAIN urls = {} /\ DOMAIN meta = {}
  BY DEF Init, HttpInit
<1>3. 0 \in 0 .. FeedCount /\ 0 <= MaxItems
  BY HttpAssumption
<1>4. {urls[i] : i \in 1 .. Len(urls)} = {}
  BY <1>2
<1>5. IsInjective(urls)
  BY <1>2 DEF IsInjective
<1>6. meta \in [DOMAIN meta -> SUBSET FeedFields]
  BY <1>2 DEF Init, HttpInit
<1> QED BY <1>1, <1>2, <1>3, <1>4, <1>5, <1>6 DEF Init, HttpInit, HttpInv

LEMMA HttpNext ==
    ASSUME HttpInv, [Next]_vars
    PROVE  HttpInv'
<1>1. CASE UNCHANGED <<httpVars, kind>>
  BY <1>1 DEF HttpInv, httpVars
<1>2. CASE Discover
  BY <1>2, FeedKeeps DEF Discover
<1>3. CASE Gather
  BY <1>3, GatherFeeds
<1>4. CASE \E p \in Pages : HttpFetch(p) /\ UNCHANGED kind
  BY <1>4, RequestKeeps
<1>5. CASE \E p \in Pages : HttpForget(p) /\ UNCHANGED kind
  BY <1>5, ForgetKeeps
<1>6. CASE HttpAnew /\ UNCHANGED kind
  BY <1>6, Anew DEF HttpInv
<1>7. CASE Start \/ Close \/ UNCHANGED vars \/ \E p \in Pages : Store(p)
  <2>1. UNCHANGED <<httpVars, kind>>
    BY <1>7 DEF Start, Close, vars, Store, sourceVars
  <2> QED BY <1>1, <2>1
<1>8. ASSUME NEW p \in Pages, Fetch(p) PROVE HttpInv'
  BY <1>1, <1>4, <1>8 DEF Fetch
<1>9. ASSUME NEW p \in Pages, Drop(p) \/ Break(p) \/ StoreRow(p) PROVE HttpInv'
  BY <1>5, <1>9 DEF Drop, Break, StoreRow, End
<1>10. CASE Die \/ RunAgain
  BY <1>6, <1>10 DEF Die, RunAgain, Gone
<1> QED BY <1>2, <1>3, <1>7, <1>8, <1>9, <1>10 DEF Next

LEMMA HttpContract == HttpInv => FetchContract
<1> SUFFICES ASSUME HttpInv PROVE FetchContract
  OBVIOUS
<1>1. ASSUME NEW p \in Pages PROVE Asked(sent[p], answer[p])
  BY DEF HttpInv
<1>2. kind = "rss" => IsInjective(urls)
  BY DEF HttpInv
<1>3. \A p \in Pages : Contract(sent[p], answer[p])
  BY <1>1, AskedContract
<1> QED BY <1>2, <1>3, Zenon DEF FetchContract, Contract

\* Whatever the feeds hold and the servers answer: no link of feeds is fetched twice, no
\* page is requested more than twice, and the result is that of the last request
\* (RssSource.discover, HttpSource.fetch).
THEOREM FetchesKeepTheContract == Spec => []FetchContract
<1>1. HttpInv /\ [Next]_vars => HttpInv'
  BY HttpNext
<1> QED BY <1>1, HttpStart, HttpContract, PTL DEF Spec

-----------------------------------------------------------------------------
(* Types.  While pages are fetched no driver stops, so that one of which a *)
(* browser is awaited runs.                                                *)

BrowserInv ==
    /\ BrowserTypeOK
    /\ phase \in {"starting", "discovering"} => \A p \in Pages : fetching[p] = "no"
    /\ phase = "gathering" => \A p \in Pages : fetching[p] = "launch" => p \in drivers

LEMMA RenderingKeeps ==
    ASSUME BrowserInv, phase = "gathering", UNCHANGED phase, NEW p \in Pages, BrowserFetch(p)
    PROVE  BrowserInv'
<1> USE DEF BrowserInv, BrowserTypeOK, Go
<1>1. CASE EnsureBrowser(p)
  BY <1>1 DEF EnsureBrowser
<1>2. CASE Started(p)
  BY <1>2 DEF Started
<1>3. CASE Launched(p)
  BY <1>3 DEF Launched
<1>4. CASE NewContext(p)
  BY <1>4 DEF NewContext
<1>5. CASE \E html \in BOOLEAN : Rendered(p, html)
  BY <1>5 DEF Rendered, Answers, Failed
<1>6. CASE RenderFails(p)
  BY <1>6 DEF RenderFails, Answers, Failed
<1>7. CASE CloseContext(p)
  BY <1>7 DEF CloseContext
<1> QED BY <1>1, <1>2, <1>3, <1>4, <1>5, <1>6, <1>7 DEF BrowserFetch

LEMMA BrowserForgetKeeps ==
    ASSUME BrowserInv, UNCHANGED phase, NEW p \in Pages, BrowserForget(p)
    PROVE  BrowserInv'
BY DEF BrowserInv, BrowserTypeOK, BrowserForget, Answers, NoAnswer

LEMMA BrowserAnewKeeps ==
    ASSUME BrowserAnew
    PROVE  BrowserInv'
BY DEF BrowserInv, BrowserTypeOK, BrowserAnew, Answers, NoAnswer

LEMMA BrowserStart == Init => BrowserInv
BY DEF BrowserInv, BrowserTypeOK, Init, BrowserInit, Answers, NoAnswer

LEMMA BrowserNext ==
    ASSUME BrowserInv, [Next]_vars
    PROVE  BrowserInv'
<1>1. CASE Start \/ Discover \/ Gather \/ UNCHANGED vars \/ \E p \in Pages : Store(p)
  <2>1. /\ UNCHANGED browserVars
        /\ \/ UNCHANGED phase
           \/ phase = "starting" /\ phase' = "discovering"
           \/ phase = "discovering" /\ phase' = "gathering"
    BY <1>1 DEF Start, Discover, Gather, vars, Store, sourceVars
  <2> QED BY <2>1 DEF BrowserInv, BrowserTypeOK, browserVars
<1>2. ASSUME NEW p \in Pages, Fetch(p) PROVE BrowserInv'
  <2>1. CASE kind = "browser"
    BY <1>2, <2>1, RenderingKeeps DEF Fetch, Turn
  <2>2. CASE kind # "browser"
    BY <1>2, <2>2 DEF Fetch, BrowserInv, BrowserTypeOK, browserVars
  <2> QED BY <2>1, <2>2
<1>3. ASSUME NEW p \in Pages, Drop(p) \/ Break(p) \/ StoreRow(p) PROVE BrowserInv'
  BY <1>3, BrowserForgetKeeps DEF Drop, Break, StoreRow, End
<1>4. CASE Close
  <2>1. BrowserClose /\ phase' = "closed"
    BY <1>4 DEF Close
  <2> QED BY <2>1 DEF BrowserInv, BrowserTypeOK, BrowserClose
<1>5. CASE Die \/ RunAgain
  BY <1>5, BrowserAnewKeeps DEF Die, RunAgain, Gone
<1> QED BY <1>1, <1>2, <1>3, <1>4, <1>5 DEF Next

LEMMA Typed == CrashInv /\ HttpInv /\ BrowserInv => TypeOK
<1> SUFFICES ASSUME CrashInv, HttpInv, BrowserInv PROVE TypeOK
  OBVIOUS
<1>1. HttpTypeOK
  BY DEF HttpInv, HttpTypeOK, AllCodes
<1>2. BrowserTypeOK
  BY DEF BrowserInv
<1>3. /\ OutType /\ FileInv /\ Len(written) \in Nat /\ Len(buffer) \in Nat /\ Flushed \in 0 .. Len(written)
      /\ DOMAIN file = 1 .. Len(file)
  BY OutNumbers DEF CrashInv, OutInv
<1> DEFINE Now == Pages \X (1 .. run)
<1>4. \A i \in 1 .. Len(written) : written[i] \in Now
  <2> SUFFICES ASSUME NEW i \in 1 .. Len(written) PROVE written[i] \in Now
    OBVIOUS
  <2>1. written[i] \in Records /\ written[i][2] \in 1 .. run
    BY <1>3, ElementOfSeq DEF OutType
  <2> QED BY <2>1 DEF Records
<1> HIDE DEF Now
<1>5. written \in Seq(Now)
  BY <1>3, <1>4, LenProperties DEF OutType
<1>6. buffer \in Seq(Now)
  <2>1. \A i \in 1 .. Len(buffer) : buffer[i] \in Now
    <3> SUFFICES ASSUME NEW i \in 1 .. Len(buffer) PROVE buffer[i] \in Now
      OBVIOUS
    <3>1. Len(written) - Len(buffer) + i \in 1 .. Len(written)
      BY <1>3 DEF FileInv, LastOf
    <3>2. buffer[i] = written[Len(written) - Len(buffer) + i]
      BY <1>3 DEF FileInv, LastOf
    <3> QED BY <1>4, <3>1, <3>2
  <2> QED BY <1>3, <2>1, LenProperties DEF OutType
<1>7. file \in Seq(Now \union {Bad})
  <2>1. \A a \in 1 .. Len(file) : file[a] \in Now \union {Bad}
    <3> SUFFICES ASSUME NEW a \in 1 .. Len(file), file[a] # Bad PROVE file[a] \in Now
      OBVIOUS
    <3>1. PICK i \in 1 .. Flushed : file[a] = written[i]
      BY <1>3 DEF FileInv, Filed
    <3>2. i \in 1 .. Len(written)
      BY <1>3
    <3> QED BY <1>4, <3>1, <3>2
  <2> QED BY <1>3, <2>1, LenProperties DEF OutType
<1>8. refused \subseteq Now
  BY <1>4 DEF CrashInv, RowInv
<1>9. OutputTypeOK
  BY <1>3, <1>5, <1>6, <1>7, <1>8 DEF OutputTypeOK, OutType, CrashInv, RowInv, Now
<1>10. record.status # "none" <=> \E p \in Pages : stage[p] = "half"
  <2>1. Halves # {} <=> \E p \in Pages : stage[p] = "half"
    BY DEF Halves
  <2> QED BY <2>1 DEF CrashInv, RunInv
<1>11. /\ kind \in Kinds
       /\ phase \in {"starting", "discovering", "gathering", "closed", "dead"}
       /\ stage \in [Pages -> {"none", "fetching", "half", "ended"}]
       /\ record.status \in {"none", "SUCCESS", "PARTIAL", "FAIL"}
       /\ record.missing \subseteq required_fields
       /\ buffer # <<>> \/ phase = "gathering" => open
  BY DEF CrashInv, RunInv
<1> QED BY <1>1, <1>2, <1>9, <1>10, <1>11 DEF TypeOK

\* The state of the sources, of the run and of the sinks has its types, and a record is
\* there exactly while a page is between its two writes.
THEOREM TypeCorrect == Spec => []TypeOK
<1>1. CrashInv /\ HttpInv /\ BrowserInv /\ [Next]_vars => CrashInv' /\ HttpInv' /\ BrowserInv'
  BY CrashNext, HttpNext, BrowserNext
<1> QED BY <1>1, CrashStart, HttpStart, BrowserStart, Typed, PTL DEF Spec

-----------------------------------------------------------------------------
(* The records.  What an extractor makes of a page shows what the page     *)
(* offers, and nothing that is hollow or blank; the feed's entry then only *)
(* fills what the page left.                                               *)

MainFields == {"title", "published", "text", "author"}

\* data has text where offers says, or several texts, and nothing elsewhere.
Shows(data, offers) ==
    /\ \A f \in MainFields :
           /\ Get(data, f) \in {"absent", "empty", "text", "list"}
           /\ f \in offers <=> Get(data, f) \in {"text", "list"}
    /\ \A f \in offers : Get(data, f) \in {"text", "list"}

Honest(r, offers, entry) ==
    /\ \A f \in MainFields :
           LET v == Get(r.data, f) IN
           /\ f \in offers <=> v \in {"text", "list"}
           /\ f \in entry \ offers <=> v = "feed"
           /\ is_present(v) => v \in {"text", "list", "feed"}
    /\ r.status = "SUCCESS" => \A f \in required_fields : is_present(Get(r.data, f))
    /\ r.missing \intersect offers = {}

\* What _build_record leaves in a field.
LEMMA Filled ==
    ASSUME NEW x, x = [status |-> x.status, missing |-> x.missing, data |-> x.data],
           NEW entry, NEW f
    PROVE  LET r == Record(x, entry)
               old == Get(x.data, f)
           IN  /\ r.status = x.status /\ r.missing = x.missing
               /\ Get(r.data, f) = IF f \in entry /\ ~Truthy(old) THEN "feed" ELSE old
<1> DEFINE filled == [g \in (DOMAIN x.data) \union entry |->
                          IF g \in entry /\ ~Truthy(Get(x.data, g)) THEN "feed" ELSE x.data[g]]
<1>1. Record(x, entry) = [x EXCEPT !.data = filled]
  BY DEF Record
<1>2. DOMAIN filled = (DOMAIN x.data) \union entry
  OBVIOUS
<1>3. Get(filled, f) = IF f \in entry /\ ~Truthy(Get(x.data, f)) THEN "feed" ELSE Get(x.data, f)
  <2>1. CASE f \in DOMAIN x.data
    BY <2>1 DEF Get
  <2>2. CASE f \notin DOMAIN x.data /\ f \in entry
    BY <2>2 DEF Get, Truthy
  <2>3. CASE f \notin DOMAIN x.data /\ f \notin entry
    BY <2>3 DEF Get
  <2> QED BY <2>1, <2>2, <2>3
<1> HIDE DEF filled
<1> QED BY <1>1, <1>3

LEMMA RecordHonest ==
    ASSUME NEW data, NEW offers, Shows(data, offers), NEW entry
    PROVE  Honest(Record(Evaluated(data), entry), offers, entry)
<1> DEFINE x == Evaluated(data)
           r == Record(x, entry)
<1>1. x = [status |-> x.status, missing |-> x.missing, data |-> x.data] /\ x.data = data
      /\ x.status = Evaluate(data) /\ x.missing = Missing(data)
  BY DEF Evaluated
<1> HIDE DEF x
<1>2. r.status = Evaluate(data) /\ r.missing = Missing(data)
  BY <1>1, Filled
<1>3. \A f : Get(r.data, f) = IF f \in entry /\ ~Truthy(Get(data, f)) THEN "feed" ELSE Get(data, f)
  BY <1>1, Filled
<1> HIDE DEF r
<1>4. ASSUME NEW f \in MainFields
      PROVE  LET v == Get(r.data, f) IN
             /\ f \in offers <=> v \in {"text", "list"}
             /\ f \in entry \ offers <=> v = "feed"
             /\ is_present(v) => v \in {"text", "list", "feed"}
  BY <1>3 DEF Shows, Truthy, is_present
<1>5. ASSUME r.status = "SUCCESS", NEW f \in required_fields PROVE is_present(Get(r.data, f))
  <2>1. Missing(data) = {}
    BY <1>2, <1>5 DEF Evaluate
  <2>2. is_present(Get(data, f))
    BY <1>5, <2>1 DEF Missing, Present
  <2> QED BY <1>3, <2>2 DEF is_present
<1>6. r.missing \intersect offers = {}
  <2>1. \A f \in offers : is_present(Get(data, f))
    BY DEF Shows, is_present
  <2> QED BY <1>2, <2>1 DEF Missing, Present
<1>7. Honest(r, offers, entry)
  BY <1>4, <1>5, <1>6 DEF Honest
<1> QED BY <1>7 DEF r, x

\* What an extractor that raises leaves has the feed's fields alone.
LEMMA RaisedHonest ==
    ASSUME NEW entry
    PROVE  Honest(Record(Raised, entry), {}, entry)
<1> DEFINE x == Raised
           r == Record(x, entry)
<1>1. x = [status |-> x.status, missing |-> x.missing, data |-> x.data]
      /\ x.status = "FAIL" /\ \A f : Get(x.data, f) = "absent"
  BY DEF Raised, Get
<1> HIDE DEF x
<1>2. r.status = "FAIL"
  BY <1>1, Filled
<1>3. \A f : Get(r.data, f) = IF f \in entry THEN "feed" ELSE "absent"
  BY <1>1, Filled DEF Truthy
<1> HIDE DEF r
<1>4. Honest(r, {}, entry)
  BY <1>2, <1>3 DEF Honest, is_present
<1> QED BY <1>4 DEF r, x

ArticleOffers(page) ==
    {f \in {"text"} : page.body = "text"}
    \union {f \in DOMAIN page.meta : page.meta[f] = "text"}
    \union {f \in DOMAIN page.fallback : page.fallback[f] = "text"}

LEMMA ArticleShows ==
    ASSUME NEW page, IsArticle(page)
    PROVE  Shows(Article(page), ArticleOffers(page))
<1> DEFINE found == [f \in {"url", "text"} \union DOMAIN page.meta |->
                         CASE f = "url" -> "text" [] f = "text" -> page.body
                           [] OTHER -> page.meta[f]]
           whole == [f \in (DOMAIN found) \union (DOMAIN page.fallback) |->
                         IF f \notin DOMAIN page.fallback \/ Truthy(Get(found, f)) THEN found[f]
                         ELSE page.fallback[f]]
<1>1. Article(page) = IF Truthy(Get(found, "text")) /\ Truthy(Get(found, "title")) THEN found
                      ELSE whole
  BY DEF Article
<1>2. /\ page.body \in {"empty", "text"} /\ "text" \notin DOMAIN page.meta
      /\ "url" \notin DOMAIN page.meta
      /\ \A f \in DOMAIN page.meta : page.meta[f] \in {"empty", "text"}
      /\ DOMAIN page.fallback \subseteq {"title", "text"}
      /\ \A f \in DOMAIN page.fallback : page.fallback[f] \in {"empty", "text"}
  BY DEF IsArticle
<1>3. /\ Get(found, "text") = page.body
      /\ \A f : f # "text" /\ f # "url" =>
             Get(found, f) = IF f \in DOMAIN page.meta THEN page.meta[f] ELSE "absent"
  BY <1>2 DEF Get
<1>4. \A f : Get(whole, f) = IF f \in DOMAIN page.fallback /\ ~Truthy(Get(found, f))
                             THEN page.fallback[f] ELSE Get(found, f)
  <2> HIDE DEF found
  <2>1. ASSUME NEW f PROVE Get(whole, f) = IF f \in DOMAIN page.fallback /\ ~Truthy(Get(found, f))
                                           THEN page.fallback[f] ELSE Get(found, f)
    <3>1. CASE f \in DOMAIN page.fallback
      BY <3>1 DEF Get, Truthy
    <3>2. CASE f \notin DOMAIN page.fallback /\ f \in DOMAIN found
      BY <3>2 DEF Get
    <3>3. CASE f \notin DOMAIN page.fallback /\ f \notin DOMAIN found
      BY <3>3 DEF Get
    <3> QED BY <3>1, <3>2, <3>3
  <2> QED BY <2>1
<1> HIDE DEF found, whole
<1>5. \A f : f \in ArticleOffers(page) <=>
          \/ f = "text" /\ page.body = "text"
          \/ f \in DOMAIN page.meta /\ page.meta[f] = "text"
          \/ f \in DOMAIN page.fallback /\ page.fallback[f] = "text"
  BY DEF ArticleOffers
<1>6. ASSUME NEW f, f # "url"
      PROVE  /\ Get(Article(page), f) \in {"absent", "empty", "text"}
             /\ f \in ArticleOffers(page) <=> Get(Article(page), f) = "text"
  <2>1. CASE Truthy(Get(found, "text")) /\ Truthy(Get(found, "title"))
    <3>1. Get(found, "text") = "text" /\ Get(found, "title") = "text"
      BY <1>2, <1>3, <2>1 DEF Truthy
    <3>2. Get(Article(page), f) = Get(found, f)
      BY <1>1, <2>1
    <3>3. CASE f = "text"
      BY <1>2, <1>3, <1>5, <3>1, <3>2, <3>3
    <3>4. CASE f = "title"
      BY <1>2, <1>3, <1>5, <3>1, <3>2, <3>4
    <3>5. CASE f # "text" /\ f # "title"
      BY <1>2, <1>3, <1>5, <1>6, <3>2, <3>5
    <3> QED BY <3>3, <3>4, <3>5
  <2>2. CASE ~(Truthy(Get(found, "text")) /\ Truthy(Get(found, "title")))
    <3>1. Get(Article(page), f) = IF f \in DOMAIN page.fallback /\ ~Truthy(Get(found, f))
                                  THEN page.fallback[f] ELSE Get(found, f)
      BY <1>1, <1>4, <2>2
    <3>2. CASE f = "text"
      BY <1>2, <1>3, <1>5, <3>1, <3>2 DEF Truthy
    <3>3. CASE f # "text"
      BY <1>2, <1>3, <1>5, <1>6, <3>1, <3>3 DEF Truthy
    <3> QED BY <3>2, <3>3
  <2> QED BY <2>1, <2>2
<1>7. "url" \notin ArticleOffers(page)
  BY <1>2, <1>5
<1> QED BY <1>6, <1>7 DEF Shows, MainFields

SelectedOffers(page) == {f \in DOMAIN page.nodes : Contains(page.nodes[f], "text")}

LEMMA SelectedShows ==
    ASSUME NEW page, IsSelection(page)
    PROVE  Shows(Selected(page), SelectedOffers(page))
<1> DEFINE Values(f) == {n \in DOMAIN page.nodes[f] : page.nodes[f][n] = "text"}
           D == {"url"} \union {g \in DOMAIN page.nodes : Values(g) # {}}
<1>1. Selected(page) = [f \in D |-> IF f \in DOMAIN page.nodes /\ Cardinality(Values(f)) > 1
                                    THEN "list" ELSE "text"]
  BY DEF Selected
<1>2. \A f : Get(Selected(page), f) \in IF f \in D THEN {"text", "list"} ELSE {"absent"}
  <2> HIDE DEF D, Values
  <2> QED BY <1>1 DEF Get
<1>3. ASSUME NEW f \in DOMAIN page.nodes
      PROVE  Contains(page.nodes[f], "text") <=> Values(f) # {}
  <2>1. DOMAIN page.nodes[f] = 1 .. Len(page.nodes[f])
    BY LenProperties DEF IsSelection
  <2> QED BY <2>1 DEF Contains
<1> HIDE DEF Values
<1>4. SelectedOffers(page) \subseteq D /\ \A f \in D : f # "url" => f \in SelectedOffers(page)
  BY <1>3 DEF SelectedOffers
<1> HIDE DEF D
<1> QED BY <1>2, <1>4 DEF Shows, MainFields

\* A loop over numbers whose rounds are F and which stays in D, as a function of them.
Rounds(F, n, D) == F \in [(1 .. n) \X D -> D]
Looping(h, F, a, n, D) ==
    h \in [0 .. n -> D] /\ h[0] = a /\ \A i \in 1 .. n : h[i] = F[<<i, h[i - 1]>>]

LEMMA LoopExists ==
    ASSUME NEW D, NEW a \in D, NEW n \in Nat, NEW F, Rounds(F, n, D)
    PROVE  \E h : Looping(h, F, a, n, D)
<1>0. F \in [(1 .. n) \X D -> D]
  BY DEF Rounds
<1> DEFINE Runs(k, h) == /\ h \in [0 .. k -> D] /\ h[0] = a
                         /\ \A i \in 1 .. k : h[i] = F[<<i, h[i - 1]>>]
           T == {k \in 0 .. n : ~\E h : Runs(k, h)}
<1>1. CASE T = {}
  <2>1. n \in 0 .. n
    OBVIOUS
  <2> QED BY <1>1, <2>1 DEF Looping
<1>2. CASE T # {}
  <2>1. PICK k \in T : \A l \in T : k <= l
    <3>1. T \subseteq Nat
      OBVIOUS
    <3> HIDE DEF T
    <3> QED BY <1>2, <3>1, LeastOf
  <2>2. CASE k = 0
    <3>1. Runs(0, [i \in 0 .. 0 |-> a])
      OBVIOUS
    <3> QED BY <2>1, <2>2, <3>1
  <2>3. CASE k # 0
    <3>1. k \in 1 .. n /\ k - 1 \in 0 .. n /\ k - 1 \notin T
      BY <2>1, <2>3
    <3>2. PICK h : Runs(k - 1, h)
      BY <3>1
    <3> DEFINE g == [i \in 0 .. k |-> IF i = k THEN F[<<k, h[k - 1]>>] ELSE h[i]]
    <3>3. h[k - 1] \in D /\ \A i \in 0 .. k - 1 : h[i] \in D
      BY <3>1, <3>2
    <3>4. F[<<k, h[k - 1]>>] \in D
      BY <1>0, <3>1, <3>3
    <3>5. g \in [0 .. k -> D]
      BY <3>1, <3>3, <3>4
    <3>6. g[0] = a /\ g[k] = F[<<k, h[k - 1]>>] /\ \A i \in 0 .. k - 1 : g[i] = h[i]
      BY <2>3, <3>1, <3>2
    <3> HIDE DEF g
    <3>7. ASSUME NEW i \in 1 .. k PROVE g[i] = F[<<i, g[i - 1]>>]
      <4>1. CASE i = k
        <5>1. k - 1 \in 0 .. k - 1
          BY <3>1
        <5>2. g[k - 1] = h[k - 1] /\ g[k] = F[<<k, h[k - 1]>>]
          BY <3>6, <5>1
        <5> QED BY <4>1, <5>2
      <4>2. CASE i # k
        <5>1. i \in 1 .. k - 1 /\ i - 1 \in 0 .. k - 1 /\ i \in 0 .. k - 1
          BY <3>1, <4>2
        <5> QED BY <3>2, <3>6, <5>1
      <4> QED BY <4>1, <4>2
    <3>8. Runs(k, g)
      BY <3>5, <3>6, <3>7
    <3> QED BY <2>1, <3>8
  <2> QED BY <2>2, <2>3
<1> QED BY <1>1, <1>2

\* Among the numbers up to n a property that is passed on holds of all.
LEMMA PassedOn ==
    ASSUME NEW n \in Nat, NEW S, 0 \in S,
           \A i \in 1 .. n : i - 1 \in S => i \in S
    PROVE  \A i \in 0 .. n : i \in S
<1> DEFINE T == {i \in 0 .. n : i \notin S}
<1>1. CASE T = {}
  BY <1>1
<1>2. CASE T # {}
  <2>1. PICK k \in T : \A l \in T : k <= l
    <3>1. T \subseteq Nat
      OBVIOUS
    <3> HIDE DEF T
    <3> QED BY <1>2, <3>1, LeastOf
  <2>2. k \in 1 .. n /\ k - 1 \in 0 .. n /\ k - 1 \notin T
    BY <2>1
  <2> QED BY <2>1, <2>2
<1> QED BY <1>1, <1>2

Elements(s) == {s[i] : i \in 1 .. Len(s)}

\* What is in a concatenation.
LEMMA Concatenated ==
    ASSUME NEW S, NEW p \in Seq(S), NEW q \in Seq(S)
    PROVE  p \o q \in Seq(S) /\ Elements(p \o q) = Elements(p) \union Elements(q)
<1> DEFINE a == Len(p)
           b == Len(q)
<1>1. /\ a \in Nat /\ b \in Nat /\ p \o q \in Seq(S) /\ Len(p \o q) = a + b
      /\ \A j \in 1 .. a + b : (p \o q)[j] = IF j <= a THEN p[j] ELSE q[j - a]
  BY ConcatProperties, LenProperties
<1>2. Elements(p \o q) = Elements(p) \union Elements(q)
  <2>1. /\ Elements(p \o q) = {(p \o q)[j] : j \in 1 .. a + b}
        /\ Elements(p) = {p[j] : j \in 1 .. a} /\ Elements(q) = {q[j] : j \in 1 .. b}
    BY <1>1 DEF Elements
  <2> HIDE DEF a, b
  <2>2. \A j \in 1 .. a : j \in 1 .. a + b /\ (p \o q)[j] = p[j]
    BY <1>1
  <2>3. ASSUME NEW j \in 1 .. b
        PROVE  a + j \in 1 .. a + b /\ (p \o q)[a + j] = q[j]
    <3>1. a + j \in 1 .. a + b /\ ~(a + j <= a) /\ (a + j) - a = j
      BY <1>1
    <3> QED BY <1>1, <3>1
  <2>4. ASSUME NEW j \in 1 .. a + b
        PROVE  j \in 1 .. a \/ (j - a \in 1 .. b /\ a + (j - a) = j)
    BY <1>1
  <2>5. ASSUME NEW x \in Elements(p \o q) PROVE x \in Elements(p) \union Elements(q)
    <3>1. PICK j \in 1 .. a + b : x = (p \o q)[j]
      BY <2>1
    <3>2. CASE j \in 1 .. a
      BY <2>1, <2>2, <3>1, <3>2
    <3>3. CASE j - a \in 1 .. b /\ a + (j - a) = j
      <4>1. (p \o q)[j] = q[j - a]
        BY <2>3, <3>3
      <4> QED BY <2>1, <3>1, <3>3, <4>1
    <3> QED BY <2>4, <3>2, <3>3
  <2>6. \A x \in Elements(p) \union Elements(q) : x \in Elements(p \o q)
    BY <2>1, <2>2, <2>3
  <2> QED BY <2>5, <2>6
<1> QED BY <1>1, <1>2

\* What is in a flattened sequence.
LEMMA Flattened ==
    ASSUME NEW S, NEW ss \in Seq(Seq(S))
    PROVE  /\ FlattenSeq(ss) \in Seq(S)
           /\ Elements(FlattenSeq(ss)) = UNION {Elements(ss[i]) : i \in 1 .. Len(ss)}
<1> DEFINE n == Len(ss)
<1>0. n \in Nat /\ \A i \in 1 .. n : ss[i] \in Seq(S)
  BY LenProperties, ElementOfSeq
<1>1. CASE n = 0
  <2>1. FlattenSeq(ss) = ss /\ ss = <<>>
    BY <1>1, EmptySeq DEF FlattenSeq
  <2> QED BY <1>1, <2>1 DEF Elements
<1>2. CASE n # 0
  <2> DEFINE Flat(f) == f = [i \in 1 .. n |-> IF i = 1 THEN ss[i] ELSE f[i - 1] \o ss[i]]
             f0 == CHOOSE f : Flat(f)
  <2>1. FlattenSeq(ss) = f0[n]
    BY <1>2 DEF FlattenSeq
  <2>2. \E f : Flat(f)
    <3> DEFINE D == Seq(S)
               F == [x \in (1 .. n) \X D |-> x[2] \o ss[x[1]]]
    <3>1. \A i \in 1 .. n, s \in D : s \o ss[i] \in D
      BY <1>0, ConcatProperties
    <3>2. <<>> \in D /\ \A s \in D : <<>> \o s = s
      BY EmptySeq, ConcatEmptySeq
    <3>a. \A i \in 1 .. n : ss[i] \in D
      BY <1>0
    <3> HIDE DEF D, n
    <3>b. Rounds(F, n, D)
      BY <3>1 DEF Rounds
    <3>3. \A i \in 1 .. n, s \in D : F[<<i, s>>] = s \o ss[i]
      OBVIOUS
    <3> HIDE DEF F
    <3>c. PICK h : Looping(h, F, <<>>, n, D)
      <4> DEFINE a == <<>>
      <4>1. a \in D /\ n \in Nat
        BY <1>0, <3>2
      <4> HIDE DEF a
      <4>2. \E h : Looping(h, F, a, n, D)
        BY <3>b, <4>1, LoopExists
      <4> QED BY <4>2 DEF a
    <3>4. /\ h \in [0 .. n -> D] /\ h[0] = <<>>
          /\ \A i \in 1 .. n : h[i] = F[<<i, h[i - 1]>>]
      BY <3>c DEF Looping
    <3>5. \A i \in 1 .. n : h[i] = h[i - 1] \o ss[i]
      <4>1. \A i \in 1 .. n : i - 1 \in 0 .. n
        BY <1>0
      <4> QED BY <3>3, <3>4, <4>1
    <3>6. h[0] \o ss[1] = ss[1]
      <4>1. 1 \in 1 .. n
        BY <1>0, <1>2 DEF n
      <4> QED BY <3>2, <3>4, <3>a, <4>1
    <3> DEFINE g == [i \in 1 .. n |-> h[i]]
               k == [i \in 1 .. n |-> IF i = 1 THEN ss[i] ELSE g[i - 1] \o ss[i]]
    <3>7. ASSUME NEW i \in 1 .. n PROVE g[i] = k[i]
      <4>1. CASE i = 1
        <5>1. h[1] = h[0] \o ss[1]
          <6>1. 1 - 1 = 0
            OBVIOUS
          <6>2. h[1] = h[1 - 1] \o ss[1]
            BY <3>5, <4>1, Zenon
          <6> QED BY <6>1, <6>2
        <5> QED BY <3>6, <4>1, <5>1
      <4>2. CASE i # 1
        <5>1. i - 1 \in 1 .. n
          BY <1>0, <4>2
        <5> QED BY <3>5, <4>2, <5>1
      <4> QED BY <4>1, <4>2
    <3>8. g = k
      BY <3>7
    <3> HIDE DEF g
    <3>9. Flat(g)
      BY <3>8
    <3> QED BY <3>9
  <2>3. Flat(f0)
    BY <2>2
  <2> HIDE DEF f0
  <2>4. \A i \in 1 .. n : f0[i] = IF i = 1 THEN ss[i] ELSE f0[i - 1] \o ss[i]
    BY <2>3
  <2> HIDE DEF n
  <2> DEFINE All(i) == UNION {Elements(ss[j]) : j \in 1 .. i}
             G == {i \in 0 .. n : i = 0 \/ (f0[i] \in Seq(S) /\ Elements(f0[i]) = All(i))}
  <2>5. ASSUME NEW i \in 1 .. n, i - 1 \in G PROVE i \in G
    <3>1. ss[i] \in Seq(S) /\ i \in 0 .. n
      BY <1>0
    <3>2. CASE i = 1
      <4>1. f0[i] = ss[i] /\ 1 .. i = {i}
        BY <2>4, <3>2
      <4> QED BY <3>1, <4>1
    <3>3. CASE i # 1
      <4>1. f0[i] = f0[i - 1] \o ss[i] /\ f0[i - 1] \in Seq(S) /\ Elements(f0[i - 1]) = All(i - 1)
        <5>1. i - 1 # 0 /\ i - 1 \in 0 .. n
          BY <1>0, <3>3
        <5> QED BY <2>4, <2>5, <3>3, <5>1
      <4>2. f0[i] \in Seq(S) /\ Elements(f0[i]) = Elements(f0[i - 1]) \union Elements(ss[i])
        BY <3>1, <4>1, Concatenated
      <4>3. All(i) = All(i - 1) \union Elements(ss[i])
        <5>1. 1 .. i = (1 .. i - 1) \union {i}
          BY <1>0
        <5> QED BY <5>1
      <4> QED BY <3>1, <4>1, <4>2, <4>3
    <3> QED BY <3>2, <3>3
  <2>6. 0 \in G /\ n \in 0 .. n
    BY <1>0
  <2> HIDE DEF G
  <2>7. n \in G
    BY <1>0, <2>5, <2>6, PassedOn
  <2>8. f0[n] \in Seq(S) /\ Elements(f0[n]) = All(n)
    BY <1>2, <2>7 DEF G, n
  <2> QED BY <2>1, <2>8 DEF n
<1> QED BY <1>1, <1>2

-----------------------------------------------------------------------------
(* JSON-LD.  After each object, and after each key of it, a field has text *)
(* exactly if some value so far is text, whatever was hollow before it.    *)

Claimed(obj) == {_FIELD_MAP[k] : k \in {x \in DOMAIN obj : obj[x] = "text"}}

LdData == UNION {[K -> {"empty", "text"}] : K \in SUBSET ({"url"} \union MainFields)}

\* data is what was made of values that claim the fields of W.
Made(data, W) ==
    /\ data \in LdData /\ W \subseteq MainFields
    /\ \A f \in MainFields : f \in W <=> Get(data, f) = "text"

LEMMA LdGot ==
    ASSUME NEW data \in LdData, NEW f
    PROVE  Get(data, f) \in {"absent", "empty", "text"}
<1>1. PICK K \in SUBSET ({"url"} \union MainFields) : data \in [K -> {"empty", "text"}]
  BY DEF LdData
<1> QED BY <1>1 DEF Get

LEMMA LdPut ==
    ASSUME NEW data \in LdData, NEW f \in MainFields, NEW v \in {"empty", "text"}
    PROVE  /\ Put(data, f, v) \in LdData
           /\ \A g : Get(Put(data, f, v), g) = IF g = f THEN v ELSE Get(data, g)
<1>1. PICK K \in SUBSET ({"url"} \union MainFields) : data \in [K -> {"empty", "text"}]
  BY DEF LdData
<1>2. DOMAIN data = K /\ \A g \in K : data[g] \in {"empty", "text"}
  BY <1>1
<1>3. Put(data, f, v) \in [K \union {f} -> {"empty", "text"}]
  BY <1>2 DEF Put
<1>4. K \union {f} \in SUBSET ({"url"} \union MainFields)
  OBVIOUS
<1>5. Put(data, f, v) \in LdData
  BY <1>3, <1>4 DEF LdData
<1>6. \A g : Get(Put(data, f, v), g) = IF g = f THEN v ELSE Get(data, g)
  BY <1>2 DEF Put, Get
<1> QED BY <1>5, <1>6

LEMMA FieldOf ==
    ASSUME NEW key \in LdKeys
    PROVE  _FIELD_MAP[key] \in MainFields
BY DEF LdKeys, _FIELD_MAP, MainFields

LEMMA ObjectGot ==
    ASSUME NEW obj \in LdObjects
    PROVE  /\ DOMAIN obj \subseteq LdKeys
           /\ \A k : Get(obj, k) \in {"absent", "empty", "zero", "hollow", "text"}
           /\ \A k : (k \in DOMAIN obj /\ obj[k] = "text") <=> Get(obj, k) = "text"
<1>1. PICK K \in SUBSET LdKeys : obj \in [K -> {"empty", "zero", "hollow", "text"}]
  BY DEF LdObjects
<1> QED BY <1>1 DEF Get

\* One key.
ByKey(obj, key) == IF Get(obj, key) = "text" THEN {_FIELD_MAP[key]} ELSE {}

LEMMA AdoptedMakes ==
    ASSUME NEW data, NEW W, Made(data, W), NEW obj \in LdObjects, NEW key \in LdKeys
    PROVE  Made(Adopted(data, obj, key), W \union ByKey(obj, key))
<1> DEFINE f == _FIELD_MAP[key]
           v == Get(obj, key)
           more == W \union ByKey(obj, key)
<1>1. f \in MainFields /\ v \in {"absent", "empty", "zero", "hollow", "text"}
  BY FieldOf, ObjectGot
<1>2. data \in LdData /\ W \subseteq MainFields /\ \A g \in MainFields : g \in W <=> Get(data, g) = "text"
  BY DEF Made
<1>3. Get(data, f) \in {"absent", "empty", "text"}
  BY <1>2, LdGot
<1>4. more = IF v = "text" THEN W \union {f} ELSE W
  BY DEF ByKey
<1>5. Adopted(data, obj, key) = IF Truthy(v) /\ ~Truthy(Get(data, f))
                                  THEN Put(data, f, _flatten(obj[key])) ELSE data
  BY DEF Adopted
<1>6. more \subseteq MainFields
  BY <1>1, <1>2, <1>4
<1>7. CASE Truthy(v) /\ ~Truthy(Get(data, f))
  <2>1. v = obj[key] /\ v \in {"hollow", "text"}
    BY <1>1, <1>7 DEF Get, Truthy
  <2> DEFINE u == _flatten(obj[key])
  <2>2. u = (IF v = "text" THEN "text" ELSE "empty") /\ u \in {"empty", "text"}
    BY <2>1 DEF _flatten
  <2> HIDE DEF u, f, v
  <2>3. /\ Put(data, f, u) \in LdData
        /\ \A g : Get(Put(data, f, u), g) = IF g = f THEN u ELSE Get(data, g)
    BY <1>1, <1>2, <2>2, LdPut
  <2>4. f \notin W
    BY <1>1, <1>2, <1>7 DEF Truthy
  <2>5. Made(Put(data, f, u), more)
    <3> HIDE DEF more
    <3> QED BY <1>2, <1>4, <1>6, <2>2, <2>3, <2>4 DEF Made
  <2> QED BY <1>5, <1>7, <2>5 DEF u, f, v
<1>8. CASE ~(Truthy(v) /\ ~Truthy(Get(data, f)))
  <2>1. Adopted(data, obj, key) = data
    BY <1>5, <1>8
  <2>2. v = "text" => f \in W
    BY <1>1, <1>2, <1>3, <1>8 DEF Truthy
  <2> HIDE DEF f, v, more
  <2>3. more = W
    BY <1>4, <2>2
  <2> QED BY <2>1, <2>3 DEF more
<1> QED BY <1>7, <1>8

\* The keys of one object.
LEMMA ObjectMakes ==
    ASSUME NEW data, NEW W, Made(data, W), NEW obj \in LdObjects
    PROVE  Made(ReadObject(data, obj), W \union Claimed(obj))
<1> DEFINE n == Len(Keys)
           Reads(f) == f = [i \in 0 .. n |-> IF i = 0 THEN data ELSE Adopted(f[i - 1], obj, Keys[i])]
           f0 == CHOOSE f : Reads(f)
           F == [x \in (1 .. n) \X LdData |-> Adopted(x[2], obj, Keys[x[1]])]
<1>0. n = 5 /\ \A i \in 1 .. 5 : Keys[i] \in LdKeys
  BY DEF Keys, LdKeys
<1>1. ReadObject(data, obj) = f0[n]
  BY DEF ReadObject
<1>a. n \in Nat /\ \A i \in 1 .. n : Keys[i] \in LdKeys
  BY <1>0
<1> HIDE DEF n
<1>2. ASSUME NEW d \in LdData, NEW i \in 1 .. n
      PROVE  Adopted(d, obj, Keys[i]) \in LdData
  <2>1. Made(d, {g \in MainFields : Get(d, g) = "text"})
    BY DEF Made
  <2> QED BY <1>a, <2>1, AdoptedMakes DEF Made
<1>3. \E f : Reads(f)
  <2>1. Rounds(F, n, LdData)
    BY <1>2 DEF Rounds
  <2>2. \A i \in 1 .. n, d \in LdData : F[<<i, d>>] = Adopted(d, obj, Keys[i])
    OBVIOUS
  <2> HIDE DEF F
  <2>3. PICK h : Looping(h, F, data, n, LdData)
    BY <1>a, <2>1, LoopExists DEF Made
  <2>4. /\ h \in [0 .. n -> LdData] /\ h[0] = data
        /\ \A i \in 1 .. n : h[i] = F[<<i, h[i - 1]>>]
    BY <2>3 DEF Looping
  <2>5. \A i \in 1 .. n : h[i] = Adopted(h[i - 1], obj, Keys[i])
    <3>1. \A i \in 1 .. n : i - 1 \in 0 .. n
      BY <1>a
    <3> QED BY <2>2, <2>4, <3>1
  <2> DEFINE g == [i \in 0 .. n |-> IF i = 0 THEN data ELSE Adopted(h[i - 1], obj, Keys[i])]
  <2>6. ASSUME NEW i \in 0 .. n PROVE h[i] = g[i]
    <3>1. i = 0 \/ i \in 1 .. n
      BY <1>a
    <3> QED BY <2>4, <2>5, <3>1
  <2>7. h = g
    BY <2>4, <2>6
  <2>8. Reads(h)
    BY <2>7
  <2> QED BY <2>8
<1>4. Reads(f0)
  BY <1>3
<1> HIDE DEF f0
<1>5. \A i \in 0 .. n : f0[i] = IF i = 0 THEN data ELSE Adopted(f0[i - 1], obj, Keys[i])
  BY <1>4
<1>6. \A i \in 1 .. n : f0[i] = Adopted(f0[i - 1], obj, Keys[i])
  BY <1>a, <1>5
<1> HIDE DEF Reads, F
<1> DEFINE W1 == W \union ByKey(obj, "headline")
           W2 == W1 \union ByKey(obj, "name")
           W3 == W2 \union ByKey(obj, "datePublished")
           W4 == W3 \union ByKey(obj, "articleBody")
           W5 == W4 \union ByKey(obj, "author")
<1>7. /\ Keys[1] = "headline" /\ Keys[2] = "name" /\ Keys[3] = "datePublished"
      /\ Keys[4] = "articleBody" /\ Keys[5] = "author"
  BY DEF Keys
<1>8. /\ f0[0] = data /\ f0[1] = Adopted(f0[0], obj, Keys[1])
      /\ f0[2] = Adopted(f0[1], obj, Keys[2]) /\ f0[3] = Adopted(f0[2], obj, Keys[3])
      /\ f0[4] = Adopted(f0[3], obj, Keys[4]) /\ f0[5] = Adopted(f0[4], obj, Keys[5])
  BY <1>0, <1>5, <1>6
<1> HIDE DEF W1, W2, W3, W4, W5
<1>9. Made(f0[1], W1)
  BY <1>0, <1>7, <1>8, AdoptedMakes DEF W1
<1>10. Made(f0[2], W2)
  BY <1>0, <1>7, <1>8, <1>9, AdoptedMakes DEF W2
<1>11. Made(f0[3], W3)
  BY <1>0, <1>7, <1>8, <1>10, AdoptedMakes DEF W3
<1>12. Made(f0[4], W4)
  BY <1>0, <1>7, <1>8, <1>11, AdoptedMakes DEF W4
<1>13. Made(f0[5], W5)
  BY <1>0, <1>7, <1>8, <1>12, AdoptedMakes DEF W5
<1>14. W5 = W \union Claimed(obj)
  <2>1. Claimed(obj) = UNION {ByKey(obj, k) : k \in LdKeys}
    <3>1. \A k : k \in DOMAIN obj /\ obj[k] = "text" <=> k \in LdKeys /\ Get(obj, k) = "text"
      BY ObjectGot DEF Get
    <3> QED BY <3>1 DEF Claimed, ByKey
  <2>2. UNION {ByKey(obj, k) : k \in LdKeys} =
            ByKey(obj, "headline") \union ByKey(obj, "name") \union ByKey(obj, "datePublished")
            \union ByKey(obj, "articleBody") \union ByKey(obj, "author")
    BY DEF LdKeys
  <2> QED BY <2>1, <2>2 DEF W1, W2, W3, W4, W5
<1> QED BY <1>0, <1>1, <1>13, <1>14

LdOffers(page) ==
    LET objects == UNION {UNION {{item.object} \union ToSet(item.graph) :
                                 item \in ToSet(block)} : block \in ToSet(page.blocks)}
    IN  UNION {Claimed(o) : o \in objects}

LEMMA SameElements ==
    ASSUME NEW S, NEW s \in Seq(S)
    PROVE  ToSet(s) = Elements(s)
BY LenProperties DEF ToSet, Elements

LEMMA Reversed ==
    ASSUME NEW S, NEW s \in Seq(S)
    PROVE  Reverse(s) \in Seq(S) /\ Elements(Reverse(s)) = Elements(s)
<1> DEFINE n == Len(s)
           r == [i \in 1 .. n |-> s[(n - i) + 1]]
<1>1. n \in Nat /\ Reverse(s) = r /\ \A i \in 1 .. n : s[i] \in S
  BY LenProperties, ElementOfSeq DEF Reverse
<1> HIDE DEF n
<1>2. \A i \in 1 .. n : (n - i) + 1 \in 1 .. n /\ (n - ((n - i) + 1)) + 1 = i
  BY <1>1
<1>3. r \in [1 .. n -> S]
  BY <1>1, <1>2
<1>4. r \in Seq(S) /\ Len(r) = n
  BY <1>1, <1>3, SeqDef
<1>5. ASSUME NEW i \in 1 .. n PROVE r[i] = s[(n - i) + 1] /\ s[i] = r[(n - i) + 1]
  BY <1>2
<1> HIDE DEF r
<1>6. Elements(r) = {r[i] : i \in 1 .. n} /\ Elements(s) = {s[i] : i \in 1 .. n}
  BY <1>4 DEF Elements, n
<1>7. \A x \in Elements(r) : x \in Elements(s)
  BY <1>2, <1>5, <1>6
<1>8. \A x \in Elements(s) : x \in Elements(r)
  BY <1>2, <1>5, <1>6
<1> QED BY <1>1, <1>4, <1>7, <1>8

\* The objects of an item, and of a payload.
OfItem(item) == {item.object} \union ToSet(item.graph)

LEMMA ItemObjects ==
    ASSUME NEW item \in LdItems
    PROVE  LET s == <<item.object>> \o Reverse(item.graph)
           IN  s \in Seq(LdObjects) /\ Elements(s) = OfItem(item)
<1> DEFINE o == item.object
           g == item.graph
<1>1. o \in LdObjects /\ g \in Seq(LdObjects)
  BY DEF LdItems
<1> HIDE DEF o, g
<1>2. <<o>> \in Seq(LdObjects) /\ Elements(<<o>>) = {o}
  BY <1>1 DEF Elements
<1>3. Reverse(g) \in Seq(LdObjects) /\ Elements(Reverse(g)) = ToSet(g)
  BY <1>1, Reversed, SameElements
<1> DEFINE a == <<o>>
           r == Reverse(g)
<1>4. a \in Seq(LdObjects) /\ Elements(a) = {o}
  BY <1>2
<1>5. r \in Seq(LdObjects) /\ Elements(r) = ToSet(g)
  BY <1>3
<1> HIDE DEF a, r
<1>6. a \o r \in Seq(LdObjects) /\ Elements(a \o r) = {o} \union ToSet(g)
  BY <1>4, <1>5, Concatenated
<1> QED BY <1>6 DEF a, r, o, g, OfItem

LEMMA PayloadObjects ==
    ASSUME NEW payload \in Seq(LdItems)
    PROVE  /\ _iter_objects(payload) \in Seq(LdObjects)
           /\ Elements(_iter_objects(payload)) = UNION {OfItem(item) : item \in ToSet(payload)}
<1> DEFINE n == Len(payload)
           Objects(item) == <<item.object>> \o Reverse(item.graph)
           ss == [i \in 1 .. n |-> Objects(payload[n + 1 - i])]
<1>1. n \in Nat /\ _iter_objects(payload) = FlattenSeq(ss)
      /\ \A i \in 1 .. n : payload[i] \in LdItems
  BY LenProperties, ElementOfSeq DEF _iter_objects
<1>2. ToSet(payload) = {payload[i] : i \in 1 .. n}
  BY SameElements DEF Elements
<1>3. \A item \in LdItems :
          Objects(item) \in Seq(LdObjects) /\ Elements(Objects(item)) = OfItem(item)
  BY ItemObjects
<1> HIDE DEF n, Objects
<1>4. \A i \in 1 .. n : n + 1 - i \in 1 .. n /\ n + 1 - (n + 1 - i) = i
  BY <1>1
<1>5. \A i \in 1 .. n : ss[i] = Objects(payload[n + 1 - i]) /\ ss[i] \in Seq(LdObjects)
                        /\ Elements(ss[i]) = OfItem(payload[n + 1 - i])
  BY <1>1, <1>3, <1>4
<1>6. ss \in Seq(Seq(LdObjects)) /\ Len(ss) = n
  <2>1. ss \in [1 .. n -> Seq(LdObjects)]
    BY <1>5
  <2> HIDE DEF ss
  <2> QED BY <1>1, <2>1, SeqDef
<1> HIDE DEF ss
<1>7. /\ FlattenSeq(ss) \in Seq(LdObjects)
      /\ Elements(FlattenSeq(ss)) = UNION {Elements(ss[i]) : i \in 1 .. n}
  BY <1>6, Flattened
<1>8. UNION {Elements(ss[i]) : i \in 1 .. n} = UNION {OfItem(item) : item \in ToSet(payload)}
  <2>1. ASSUME NEW i \in 1 .. n PROVE Elements(ss[i]) \in {OfItem(item) : item \in ToSet(payload)}
    BY <1>2, <1>4, <1>5
  <2>2. ASSUME NEW item \in ToSet(payload) PROVE OfItem(item) \in {Elements(ss[i]) : i \in 1 .. n}
    <3>1. PICK i \in 1 .. n : item = payload[i]
      BY <1>2
    <3>2. n + 1 - i \in 1 .. n /\ Elements(ss[n + 1 - i]) = OfItem(payload[i])
      BY <1>4, <1>5
    <3> QED BY <3>1, <3>2
  <2> QED BY <2>1, <2>2
<1> QED BY <1>1, <1>7, <1>8

\* All the objects of a page.
LEMMA JsonLdMakes ==
    ASSUME NEW page, IsBlocks(page)
    PROVE  Made(JsonLd(page), LdOffers(page))
<1> DEFINE m == Len(page.blocks)
           ss == [b \in 1 .. m |-> _iter_objects(page.blocks[b])]
           OfBlock(block) == UNION {OfItem(item) : item \in ToSet(block)}
           objects == FlattenSeq(ss)
           n == Len(objects)
           Reads(f) == f = [i \in 0 .. n |-> IF i = 0 THEN Url ELSE ReadObject(f[i - 1], objects[i])]
           f0 == CHOOSE f : Reads(f)
           F == [x \in (1 .. n) \X LdData |-> ReadObject(x[2], objects[x[1]])]
           Upto(i) == UNION {Claimed(objects[j]) : j \in 1 .. i}
<1>1. JsonLd(page) = f0[n]
  BY DEF JsonLd
<1>2. /\ m \in Nat /\ page.blocks \in Seq(Seq(LdItems))
      /\ \A b \in 1 .. m :
             /\ page.blocks[b] \in Seq(LdItems)
             /\ ss[b] \in Seq(LdObjects)
             /\ Elements(ss[b]) = OfBlock(page.blocks[b])
  BY LenProperties, ElementOfSeq, PayloadObjects DEF IsBlocks
<1>a. ToSet(page.blocks) = {page.blocks[b] : b \in 1 .. m}
  BY <1>2, SameElements DEF Elements
<1> HIDE DEF m
<1>3. ss \in Seq(Seq(LdObjects)) /\ Len(ss) = m
  <2>1. ss \in [1 .. m -> Seq(LdObjects)]
    BY <1>2
  <2> HIDE DEF ss
  <2> QED BY <1>2, <2>1, SeqDef
<1> HIDE DEF ss
<1>4. /\ objects \in Seq(LdObjects) /\ n \in Nat
      /\ Elements(objects) = UNION {Elements(ss[b]) : b \in 1 .. m}
  BY <1>3, Flattened, LenProperties
<1>b. Elements(objects) = UNION {OfBlock(block) : block \in ToSet(page.blocks)}
  <2> HIDE DEF OfBlock, objects
  <2>1. ASSUME NEW b \in 1 .. m
        PROVE  Elements(ss[b]) \in {OfBlock(block) : block \in ToSet(page.blocks)}
    BY <1>2, <1>a
  <2>2. ASSUME NEW block \in ToSet(page.blocks)
        PROVE  OfBlock(block) \in {Elements(ss[b]) : b \in 1 .. m}
    BY <1>2, <1>a
  <2> QED BY <1>4, <2>1, <2>2
<1>5. Elements(objects) = UNION {UNION {OfItem(item) : item \in ToSet(block)} :
                                 block \in ToSet(page.blocks)}
  BY <1>b
<1> HIDE DEF OfBlock
<1>6. Elements(objects) = {objects[i] : i \in 1 .. n} /\ \A i \in 1 .. n : objects[i] \in LdObjects
  BY <1>4, ElementOfSeq DEF Elements
<1>7. LdOffers(page) = Upto(n)
  <2>1. LdOffers(page) = UNION {Claimed(o) : o \in Elements(objects)}
    BY <1>5 DEF LdOffers, OfItem
  <2> HIDE DEF objects, n
  <2> QED BY <1>6, <2>1
<1> HIDE DEF objects, n
<1>8. ASSUME NEW d \in LdData, NEW i \in 1 .. n
      PROVE  ReadObject(d, objects[i]) \in LdData
  <2>1. Made(d, {g \in MainFields : Get(d, g) = "text"})
    BY DEF Made
  <2> QED BY <1>6, <2>1, ObjectMakes DEF Made
<1>9. Made(Url, {})
  <2>1. Url \in [{"url"} -> {"empty", "text"}]
    BY DEF Url
  <2>2. Url \in LdData
    BY <2>1 DEF LdData
  <2> QED BY <2>2 DEF Made, Get, Url, MainFields
<1>10. \E f : Reads(f)
  <2>1. Rounds(F, n, LdData)
    BY <1>8 DEF Rounds
  <2>2. \A i \in 1 .. n, d \in LdData : F[<<i, d>>] = ReadObject(d, objects[i])
    OBVIOUS
  <2> HIDE DEF F
  <2>3. PICK h : Looping(h, F, Url, n, LdData)
    BY <1>4, <1>9, <2>1, LoopExists DEF Made
  <2>4. /\ h \in [0 .. n -> LdData] /\ h[0] = Url
        /\ \A i \in 1 .. n : h[i] = F[<<i, h[i - 1]>>]
    BY <2>3 DEF Looping
  <2>5. \A i \in 1 .. n : h[i] = ReadObject(h[i - 1], objects[i])
    <3>1. \A i \in 1 .. n : i - 1 \in 0 .. n
      BY <1>4
    <3> QED BY <2>2, <2>4, <3>1
  <2> DEFINE g == [i \in 0 .. n |-> IF i = 0 THEN Url ELSE ReadObject(h[i - 1], objects[i])]
  <2>6. ASSUME NEW i \in 0 .. n PROVE h[i] = g[i]
    <3>1. i = 0 \/ i \in 1 .. n
      BY <1>4
    <3> QED BY <2>4, <2>5, <3>1
  <2>7. h = g
    BY <2>4, <2>6
  <2>8. Reads(h)
    BY <2>7
  <2> QED BY <2>8
<1>11. Reads(f0)
  BY <1>10
<1> HIDE DEF f0
<1>12. \A i \in 0 .. n : f0[i] = IF i = 0 THEN Url ELSE ReadObject(f0[i - 1], objects[i])
  BY <1>11
<1> DEFINE G == {i \in 0 .. n : Made(f0[i], Upto(i))}
<1>13. 0 \in G
  <2>1. Upto(0) = {} /\ 0 \in 0 .. n /\ f0[0] = Url
    BY <1>4, <1>12
  <2> HIDE DEF Upto
  <2> QED BY <1>9, <2>1
<1>14. ASSUME NEW i \in 1 .. n, i - 1 \in G PROVE i \in G
  <2>1. Made(f0[i - 1], Upto(i - 1)) /\ i \in 0 .. n /\ f0[i] = ReadObject(f0[i - 1], objects[i])
    BY <1>4, <1>12, <1>14
  <2>2. Upto(i) = Upto(i - 1) \union Claimed(objects[i])
    <3>1. 1 .. i = (1 .. i - 1) \union {i}
      BY <1>4
    <3> QED BY <3>1
  <2> HIDE DEF Upto
  <2>3. Made(f0[i], Upto(i))
    BY <1>6, <2>1, <2>2, ObjectMakes
  <2> QED BY <2>1, <2>3
<1>15. n \in G
  <2> HIDE DEF G
  <2>1. n \in 0 .. n
    BY <1>4
  <2> QED BY <1>4, <1>13, <1>14, <2>1, PassedOn
<1> QED BY <1>1, <1>7, <1>15

LEMMA JsonLdShows ==
    ASSUME NEW page, IsBlocks(page)
    PROVE  Shows(JsonLd(page), LdOffers(page))
<1>1. Made(JsonLd(page), LdOffers(page))
  BY JsonLdMakes
<1> QED BY <1>1, LdGot DEF Made, Shows

-----------------------------------------------------------------------------
(* A record is made in one step and stays until its second write. *)

LEMMA StoreHonest ==
    ASSUME NEW p \in Pages, Store(p), CrashInv
    PROVE  RecordsHonest'
<1>1. \A q \in Pages : stage'[q] = "half" => q = p
  <2>1. Halves = {} /\ stage \in [Pages -> {"none", "fetching", "half", "ended"}]
    BY TurnAlone DEF Store, CrashInv, RunInv
  <2>2. stage' = [stage EXCEPT ![p] = "half"]
    BY DEF Store
  <2> QED BY <2>1, <2>2 DEF Halves
<1>2. FeedEntry(p)' = FeedEntry(p)
  BY DEF Store, sourceVars, httpVars, FeedEntry
<1>3. Honest(record', Offers', FeedEntry(p))
  <2>1. CASE holds' = Nothing /\ record' = Record(Raised, FeedEntry(p))
    <3>1. Offers' = {}
      BY <2>1 DEF Offers, Nothing
    <3> QED BY <2>1, <3>1, RaisedHonest
  <2>2. ASSUME NEW strategy \in DOMAIN Contents, NEW page \in Contents[strategy],
               holds' = [strategy |-> strategy, page |-> page],
               record' = Record(Evaluated(Extracted(strategy, page)), FeedEntry(p))
        PROVE  Honest(record', Offers', FeedEntry(p))
    <3>1. CASE strategy = "article" /\ IsArticle(page)
      <4>1. Offers' = ArticleOffers(page) /\ Extracted(strategy, page) = Article(page)
        BY <2>2, <3>1 DEF Offers, ArticleOffers, Extracted
      <4> QED BY <2>2, <3>1, <4>1, ArticleShows, RecordHonest
    <3>2. CASE strategy = "selectors" /\ IsSelection(page)
      <4>1. Offers' = SelectedOffers(page) /\ Extracted(strategy, page) = Selected(page)
        BY <2>2, <3>2 DEF Offers, SelectedOffers, Extracted
      <4> QED BY <2>2, <3>2, <4>1, SelectedShows, RecordHonest
    <3>3. CASE strategy = "jsonld" /\ IsBlocks(page)
      <4>1. Offers' = LdOffers(page) /\ Extracted(strategy, page) = JsonLd(page)
        BY <2>2, <3>3 DEF Offers, LdOffers, Claimed, Extracted
      <4> QED BY <2>2, <3>3, <4>1, JsonLdShows, RecordHonest
    <3> QED BY <3>1, <3>2, <3>3, ContentsAssumption
  <2> QED BY <2>1, <2>2 DEF Store
<1> QED BY <1>1, <1>2, <1>3 DEF RecordsHonest, Honest, MainFields

\* No other step leaves a record half written that was not.
LEMMA HonestNext ==
    ASSUME CrashInv, RecordsHonest, [Next]_vars
    PROVE  RecordsHonest'
<1>0. stage \in [Pages -> {"none", "fetching", "half", "ended"}]
      /\ (phase # "gathering" => Halves = {}) /\ \A p \in Halves, q \in Halves : p = q
  BY DEF CrashInv, RunInv
<1>1. ASSUME \A p \in Pages : stage'[p] # "half" PROVE RecordsHonest'
  BY <1>1 DEF RecordsHonest
<1>2. CASE (Start \/ Discover) \/ \E p \in Pages : Fetch(p)
  <2>1. Halves = {} /\ stage' = stage
    BY <1>0, <1>2, TurnAlone DEF Start, Discover, Fetch
  <2> QED BY <1>1, <2>1 DEF Halves
<1>3. CASE Gather \/ Die \/ RunAgain
  BY <1>1, <1>3 DEF Gather, Die, RunAgain, Gone
<1>4. ASSUME NEW p \in Pages, Drop(p) \/ Break(p) \/ StoreRow(p) PROVE RecordsHonest'
  <2>1. stage' = [stage EXCEPT ![p] = "ended"]
    BY <1>4 DEF Drop, Break, StoreRow, End
  <2>2. \A q \in Pages : q # p => stage[q] # "half"
    BY <1>0, <1>4, TurnAlone DEF Drop, Break, StoreRow, Halves
  <2> QED BY <1>0, <1>1, <2>1, <2>2
<1>5. CASE \E p \in Pages : Store(p)
  BY <1>5, StoreHonest
<1>6. CASE Close
  BY <1>1, <1>6 DEF Close
<1>7. CASE UNCHANGED vars
  BY <1>7 DEF vars, httpVars, RecordsHonest, Offers, FeedEntry
<1> QED BY <1>2, <1>3, <1>4, <1>5, <1>6, <1>7 DEF Next

\* Every record that is written has the page's text in a field if the page has any
\* there, else the feed's, and nothing hollow; its status and missing fields are true,
\* whatever the strategy found where and in which order.
THEOREM RecordsAreHonest == Spec => []RecordsHonest
<1>1. Init => RecordsHonest
  BY DEF Init, RecordsHonest
<1> QED BY <1>1, CrashStart, CrashNext, HonestNext, PTL DEF Spec
=============================================================================
