---------------------------- MODULE InputProofs ----------------------------
(***************************************************************************)
(* The engine never reads past what it has: neither past a captured frame, *)
(* whatever its length fields say, nor past the database file it mapped,   *)
(* whatever its header says.  And a lookup finds the longest prefix, the   *)
(* tightest pattern, the most specific name of those that were loaded,     *)
(* whatever was loaded, in which order and wherever memory ran out.        *)
(***************************************************************************)
EXTENDS Input, FiniteSetTheorems, SequenceTheorems, WellFoundedInduction, TLAPS

-----------------------------------------------------------------------------
(* The decoder.  A step reads what lies between its cursor and its limit,  *)
(* and neither leaves the frame.                                           *)

CursorInside ==
    /\ caplen \in Nat /\ off \in Nat /\ lim \in Nat /\ peak \in Nat
    /\ off <= lim /\ lim <= caplen /\ peak <= caplen

\* What a step is about to read and where it goes is in the frame.
LEMMA ReadingInside ==
    ASSUME CursorInside, NEW n \in Nat, NEW to, NEW o \in Nat, NEW l \in Nat,
           n <= Left, o <= l, l <= lim, Reading(n, to, o, l)
    PROVE  CursorInside'
BY DEF CursorInside, Reading, Left

LEMMA DoneInside ==
    ASSUME CursorInside, NEW n \in Nat, n <= Left, Done(n)
    PROVE  CursorInside'
BY ReadingInside DEF CursorInside, Done, Left

\* The cast to 16 bits never gives more than what is left.
LEMMA ModAtMost ==
    ASSUME NEW a \in Nat
    PROVE  a % FieldModulus \in Nat /\ a % FieldModulus <= a
BY DecodeAssumption, SMT

LEMMA DecodingInside ==
    ASSUME CursorInside, Decoding
    PROVE  CursorInside'
<1> USE DecodeAssumption
<1>0. Left \in Nat /\ off + Left = lim
  BY DEF CursorInside, Left
<1>1. CASE Link
  <2>1. CASE Left >= 14 /\ Reading(14, "vlan", 14, lim)
    BY <2>1, ReadingInside DEF CursorInside, Left
  <2>2. ASSUME NEW n \in {0, 4, 16}, Left >= n, Reading(0, "ip", n, lim)
        PROVE  CursorInside'
    BY <2>2, ReadingInside DEF CursorInside, Left
  <2> QED BY <1>0, <1>1, <2>1, <2>2, DoneInside DEF Link
<1>2. CASE Vlan
  <2>1. CASE Reading(0, "ip", off, lim)
    BY <2>1, ReadingInside DEF CursorInside, Left
  <2>2. CASE Left >= 4 /\ Reading(4, "vlan", off + 4, lim)
    BY <2>2, ReadingInside DEF CursorInside, Left
  <2> QED BY <1>0, <1>2, <2>1, <2>2, DoneInside DEF Vlan
<1>3. CASE IPv4
  <2>1. ASSUME NEW ihl \in Nibbles, Left >= 20, ~(ihl < 20 \/ ihl > Left),
               Reading(20, "l4", off + ihl, lim)
        PROVE  CursorInside'
    BY <2>1, ReadingInside DEF CursorInside, Left, Nibbles
  <2> QED BY <1>0, <1>3, <2>1, DoneInside DEF IPv4
<1>4. CASE IPv6
  <2>1. CASE Left >= 40 /\ Reading(40, "v6", off + 40, lim)
    BY <2>1, ReadingInside DEF CursorInside, Left
  <2> QED BY <1>0, <1>4, <2>1, DoneInside DEF IPv6
<1>5. CASE Extension
  <2>1. CASE Reading(0, "l4", off, lim)
    BY <2>1, ReadingInside DEF CursorInside, Left
  <2>2. CASE Left >= 8 /\ Reading(1, "v6", off + 8, lim)
    BY <2>2, ReadingInside DEF CursorInside, Left
  <2>3. ASSUME NEW n \in Nat, Left >= 8, ~(8 * (n + 1) > Left),
               Reading(2, "v6", off + 8 * (n + 1), lim)
        PROVE  CursorInside'
    BY <2>3, ReadingInside DEF CursorInside, Left
  <2> QED BY <1>0, <1>5, <2>1, <2>2, <2>3, DoneInside DEF Extension, Short
<1>6. CASE Tcp
  <2>1. ASSUME NEW hlen \in Nibbles, Left >= 20, ~(hlen < 20 \/ hlen > Left),
               Reading(13, "tcp", off + hlen, lim)
        PROVE  CursorInside'
    BY <2>1, ReadingInside DEF CursorInside, Left, Nibbles
  <2> QED BY <1>0, <1>6, <2>1, DoneInside DEF Tcp
<1>7. CASE UdpOrOther
  <2>1. CASE Left >= 8 /\ Reading(4, "udp", off + 8, lim)
    BY <2>1, ReadingInside DEF CursorInside, Left
  <2> QED BY <1>0, <1>7, <2>1, DoneInside DEF UdpOrOther
<1>8. CASE Payload
  <2> DEFINE n == IF Left >= 4 THEN 4 ELSE 0
  <2>1. n \in Nat /\ n <= Left
    BY <1>0
  <2>2. Done(n) \/ Reading(n, "record", off, lim)
    BY <1>8 DEF Payload
  <2> HIDE DEF n
  <2>3. CASE Reading(n, "record", off, lim)
    BY <2>1, <2>3, ReadingInside DEF CursorInside
  <2> QED BY <2>1, <2>2, <2>3, DoneInside
<1>9. CASE Record
  <2>1. ASSUME NEW n \in Wide, Left >= 43, Reading(5, "hello", off + 5, Truncated(n))
        PROVE  CursorInside'
    <3>1. Truncated(n) \in Nat /\ off + 5 <= Truncated(n) /\ Truncated(n) <= lim
      BY <1>0, <2>1 DEF Truncated, Least, Wide, CursorInside
    <3> QED BY <1>0, <2>1, <3>1, ReadingInside DEF CursorInside
  <2> QED BY <1>0, <1>9, <2>1, DoneInside DEF Record
<1>10. CASE Hello
  <2>1. ASSUME NEW n \in Lengths, Left >= 4, ~(Least(n, Left - 4) < 34),
               Reading(4, "session", off + 38, off + 4 + Least(n, Left - 4))
        PROVE  CursorInside'
    <3>1. Least(n, Left - 4) \in Nat /\ 34 <= Least(n, Left - 4) /\ Least(n, Left - 4) <= Left - 4
      BY <1>0, <2>1 DEF Least
    <3>2. off + 38 \in Nat /\ off + 4 + Least(n, Left - 4) \in Nat
          /\ off + 38 <= off + 4 + Least(n, Left - 4)
          /\ off + 4 + Least(n, Left - 4) <= lim
      BY <1>0, <3>1 DEF CursorInside
    <3> QED BY <1>0, <2>1, <3>2, ReadingInside
  <2> QED BY <1>0, <1>10, <2>1, DoneInside DEF Hello
<1>11. CASE Vectors
  <2>1. ASSUME NEW from, NEW w \in 1 .. 2, NEW lengths, lengths \subseteq Nat, NEW to,
               Skip(from, w, lengths, to)
        PROVE  CursorInside'
    <3>1. CASE Left < w /\ Done(0)
      BY <1>0, <3>1, DoneInside
    <3>2. ASSUME NEW n \in lengths, Left >= w, Left - w < n, Done(w)
          PROVE  CursorInside'
      BY <1>0, <3>2, DoneInside
    <3>3. ASSUME NEW n \in lengths, Left >= w, ~(Left - w < n), Reading(w, to, off + w + n, lim)
          PROVE  CursorInside'
      <4>1. n \in Nat /\ off + w + n \in Nat /\ off + w + n <= lim
        BY <1>0, <2>1, <3>3 DEF CursorInside
      <4> QED BY <1>0, <2>1, <3>3, <4>1, ReadingInside DEF CursorInside
    <3> QED BY <2>1, <3>1, <3>2, <3>3 DEF Skip
  <2>2. /\ Short \subseteq Nat /\ Wide \subseteq Nat
        /\ 1 \in 1 .. 2 /\ 2 \in 1 .. 2
    <3>1. Lengths \subseteq Nat
      BY DecodeAssumption
    <3>2. Short \subseteq Nat
      BY <3>1 DEF Short
    <3>3. Wide \subseteq Nat
      BY <3>1 DEF Wide
    <3> QED BY <3>2, <3>3
  <2>3. CASE Skip("session", 1, Short, "ciphers")
    BY <2>1, <2>2, <2>3
  <2>4. CASE Skip("ciphers", 2, Wide, "compression")
    BY <2>1, <2>2, <2>4
  <2>5. CASE Skip("compression", 1, Short, "extensions")
    BY <2>1, <2>2, <2>5
  <2> QED BY <1>11, <2>3, <2>4, <2>5 DEF Vectors
<1>12. CASE Extensions
  <2>1. ASSUME NEW n \in Wide, Left >= 2,
               Reading(2, "extension", off + 2, off + 2 + Least(n, (Left - 2) % FieldModulus))
        PROVE  CursorInside'
    <3> DEFINE m == (Left - 2) % FieldModulus
    <3>1. m \in Nat /\ m <= Left - 2
      <4>1. Left - 2 \in Nat
        BY <1>0, <2>1
      <4> QED BY <4>1, ModAtMost
    <3>2. Reading(2, "extension", off + 2, off + 2 + Least(n, m))
      BY <2>1
    <3> HIDE DEF m
    <3>3. Least(n, m) \in Nat /\ Least(n, m) <= Left - 2
      BY <1>0, <2>1, <3>1 DEF Least, Wide
    <3>4. off + 2 \in Nat /\ off + 2 + Least(n, m) \in Nat
          /\ off + 2 <= off + 2 + Least(n, m) /\ off + 2 + Least(n, m) <= lim
      BY <1>0, <3>3 DEF CursorInside
    <3> QED BY <1>0, <2>1, <3>2, <3>4, ReadingInside
  <2> QED BY <1>0, <1>12, <2>1, DoneInside DEF Extensions
<1>13. ASSUME NEW n \in Wide, NEW w \in 2 .. 4, Left >= w, ~(n > (Left - w) % FieldModulus)
       PROVE  n \in Nat /\ off + w + n \in Nat /\ off + w + n <= lim
  <2>1. Left - w \in Nat
    BY <1>0, <1>13
  <2>2. (Left - w) % FieldModulus \in Nat /\ (Left - w) % FieldModulus <= Left - w
    BY <2>1, ModAtMost
  <2> QED BY <1>0, <1>13, <2>2 DEF Wide, CursorInside
<1>14. CASE TlsExtension
  <2>1. ASSUME NEW n \in Wide, Left >= 4, ~(n > (Left - 4) % FieldModulus),
               \/ Reading(4, "list", off + 4, off + 4 + n)
               \/ Reading(4, "extension", Past(n), lim)
        PROVE  CursorInside'
    <3>1. n \in Nat /\ off + 4 + n \in Nat /\ off + 4 + n <= lim
      <4>1. 4 \in 2 .. 4
        OBVIOUS
      <4> HIDE DecodeAssumption
      <4> QED BY <1>13, <2>1, <4>1, Zenon
    <3>2. CASE Reading(4, "list", off + 4, off + 4 + n)
      BY <1>0, <2>1, <3>1, <3>2, ReadingInside DEF CursorInside
    <3>3. CASE Reading(4, "extension", off + 4 + n, lim)
      BY <1>0, <2>1, <3>1, <3>3, ReadingInside DEF CursorInside
    <3> QED BY <2>1, <3>2, <3>3 DEF Past
  <2> QED BY <1>0, <1>14, <2>1, DoneInside DEF TlsExtension
<1>15. CASE NameList
  <2>1. ASSUME NEW n \in Wide, Left >= 2, ~(n > (Left - 2) % FieldModulus),
               Reading(2, "name", off + 2, off + 2 + n)
        PROVE  CursorInside'
    <3>1. n \in Nat /\ off + 2 + n \in Nat /\ off + 2 + n <= lim
      <4>1. 2 \in 2 .. 4
        OBVIOUS
      <4> HIDE DecodeAssumption
      <4> QED BY <1>13, <2>1, <4>1, Zenon
    <3> QED BY <1>0, <2>1, <3>1, ReadingInside DEF CursorInside
  <2> QED BY <1>0, <1>15, <2>1, DoneInside DEF NameList
<1>16. CASE ServerName
  <2>1. ASSUME NEW n \in Wide, Left >= 3, ~(n > (Left - 3) % FieldModulus),
               \/ Done(3 + Least(n, SniCap - 1))
               \/ Reading(3, "name", off + 3 + n, lim)
        PROVE  CursorInside'
    <3>1. n \in Nat /\ off + 3 + n \in Nat /\ off + 3 + n <= lim
      <4>1. 3 \in 2 .. 4
        OBVIOUS
      <4> HIDE DecodeAssumption
      <4> QED BY <1>13, <2>1, <4>1, Zenon
    <3>2. CASE Done(3 + Least(n, SniCap - 1))
      <4>1. 3 + Least(n, SniCap - 1) \in Nat /\ 3 + Least(n, SniCap - 1) <= Left
        BY <1>0, <3>1 DEF Least, CursorInside
      <4> QED BY <3>2, <4>1, DoneInside
    <3>3. CASE Reading(3, "name", off + 3 + n, lim)
      BY <1>0, <2>1, <3>1, <3>3, ReadingInside DEF CursorInside
    <3> QED BY <2>1, <3>2, <3>3
  <2> QED BY <1>0, <1>16, <2>1, DoneInside DEF ServerName
<1> QED
  BY <1>1, <1>2, <1>3, <1>4, <1>5, <1>6, <1>7, <1>8, <1>9, <1>10, <1>11, <1>12, <1>14, <1>15,
     <1>16 DEF Decoding

\* Between frames nothing is read, and a new frame starts with nothing read.
LEMMA NextFrameInside ==
    ASSUME CursorInside, NextFrame
    PROVE  CursorInside'
<1>1. CASE UNCHANGED <<caplen, off, lim, loops, peak>>
  BY <1>1 DEF CursorInside
<1>2. ASSUME NEW n \in CapLens, caplen' = n, off' = 0, lim' = n, peak' = 0
      PROVE  CursorInside'
  BY <1>2, DecodeAssumption DEF CursorInside
<1> QED BY <1>1, <1>2 DEF NextFrame

-----------------------------------------------------------------------------
(* The database.  The header's fields are numbers of any size; a section   *)
(* that passes span_ok is in the file, since the bound on its count leaves *)
(* no room for the product to wrap around.                                 *)

FileType ==
    [size : Int, magic : BOOLEAN, version : BOOLEAN, terminated : BOOLEAN,
     section : [Sections -> [off : Nat, count : Nat]]]

LEMMA SpanInside ==
    ASSUME NEW size \in Int, NEW o \in Nat, NEW count \in Nat, NEW elem \in {1, 12, 16, 28},
           span_ok(size, o, count, elem)
    PROVE  o + count * elem <= size
<1>1. o <= size /\ count <= (size - o) \div elem
  BY DEF span_ok
<1>2. CASE elem = 1
  BY <1>1, <1>2
<1>3. CASE elem = 12
  BY <1>1, <1>3
<1>4. CASE elem = 16
  BY <1>1, <1>4
<1>5. CASE elem = 28
  BY <1>1, <1>5
<1> QED BY <1>2, <1>3, <1>4, <1>5

LEMMA AcceptedInside ==
    ASSUME NEW file \in FileType, Accepted(file), NEW s \in Sections
    PROVE  Inside(file, s)
<1>1. /\ file.size \in Int
      /\ file.section[s].off \in Nat /\ file.section[s].count \in Nat
  BY DEF FileType
<1>2. ElemSize[s] \in {1, 12, 16, 28}
  BY DEF Sections, ElemSize
<1>3. span_ok(file.size, file.section[s].off, file.section[s].count, ElemSize[s])
  BY DEF Accepted
<1> QED BY <1>1, <1>2, <1>3, SpanInside DEF Inside

LEMMA LayoutType ==
    ASSUME NEW count \in [Sections -> Nat]
    PROVE  Layout(count) \in FileType
<1>1. Sections = {"app", "domain", "cidr", "payload", "pool"}
  BY DEF Sections, ElemSize
<1>2. /\ count.app \in Nat /\ count.domain \in Nat /\ count.cidr \in Nat
      /\ count.payload \in Nat /\ count.pool \in Nat
  BY <1>1
<1> DEFINE dom == HeaderSize + 12 * count.app
           cidr == dom + 12 * count.domain
           pay == cidr + 28 * count.cidr
           pool == pay + 16 * count.payload
           section == [app |-> Span(HeaderSize, count.app), domain |-> Span(dom, count.domain),
                       cidr |-> Span(cidr, count.cidr), payload |-> Span(pay, count.payload),
                       pool |-> Span(pool, count.pool)]
<1>3. HeaderSize \in Nat /\ dom \in Nat /\ cidr \in Nat /\ pay \in Nat /\ pool \in Nat
  BY <1>2 DEF HeaderSize
<1>4. Layout(count) = [size |-> pool + count.pool, magic |-> TRUE, version |-> TRUE,
                       terminated |-> TRUE, section |-> section]
  BY DEF Layout
<1> HIDE DEF dom, cidr, pay, pool
<1>5. section \in [Sections -> [off : Nat, count : Nat]]
  BY <1>1, <1>2, <1>3 DEF Span
<1> HIDE DEF section
<1> QED BY <1>2, <1>3, <1>4, <1>5 DEF FileType

LEMMA DamagedType ==
    ASSUME NEW file \in FileType, NEW f \in Damaged(file)
    PROVE  f \in FileType
<1>1. Stray \subseteq Nat
  BY SigDbAssumption
<1>2. CASE \E n \in {0, HeaderSize - 1, HeaderSize, file.size - 1} : f = [file EXCEPT !.size = n]
  BY <1>2 DEF FileType, HeaderSize
<1>3. CASE f \in {[file EXCEPT !.magic = FALSE], [file EXCEPT !.version = FALSE],
                  [file EXCEPT !.terminated = FALSE]}
  BY <1>3 DEF FileType
<1>4. ASSUME NEW s \in Sections, NEW n \in Nat,
             f = [file EXCEPT !.section[s].off = n] \/ f = [file EXCEPT !.section[s].count = n]
      PROVE  f \in FileType
  BY <1>4 DEF FileType
<1> QED BY <1>1, <1>2, <1>3, <1>4 DEF Damaged

LEMMA OpenInside ==
    ASSUME Open
    PROVE  phase' \notin {"open", "exit"} => \A s \in Sections : Inside(db', s)
<1>1. ASSUME NEW file \in Databases
      PROVE  file \in FileType
  <2>1. PICK kind \in Tables, n \in 0 .. MaxRules : file = Layout(Counts(kind, n))
    BY DEF Databases
  <2>2. Counts(kind, n) \in [Sections -> Nat]
    BY InputAssumption DEF Counts, Sections, ElemSize
  <2> QED BY <2>1, <2>2, LayoutType
<1>2. db' \in FileType
  BY <1>1, DamagedType DEF Open
<1>3. phase' # "exit" => Accepted(db')
  BY DEF Open
<1> QED BY <1>2, <1>3, AcceptedInside

-----------------------------------------------------------------------------
(* No byte past the frame, no section past the file. *)

IInv == CursorInside /\ ReadsInside

LEMMA InitInside == Init => IInv
BY DEF Init, DecodeInit, IInv, CursorInside, ReadsInside

LEMMA NextInside ==
    ASSUME IInv, [Next]_vars
    PROVE  IInv'
<1> DEFINE Held == phase \notin {"open", "exit"} => \A s \in Sections : Inside(db, s)
<1>0. CursorInside /\ Held
  BY DEF IInv, ReadsInside
<1>1. CASE Open
  <2>1. CursorInside'
    BY <1>0, <1>1 DEF Open, decodeVars, CursorInside
  <2>2. phase' \notin {"open", "exit"} => \A s \in Sections : Inside(db', s)
    BY <1>1, OpenInside
  <2> QED BY <2>1, <2>2 DEF IInv, ReadsInside, CursorInside
<1>2. CASE UNCHANGED decodeVars /\ UNCHANGED db /\ (phase' \notin {"open", "exit"} => phase \notin {"open", "exit"})
  BY <1>0, <1>2 DEF IInv, ReadsInside, CursorInside, decodeVars, Inside
<1>3. CASE (NextFrame \/ Decoding) /\ UNCHANGED <<phase, db>>
  <2>1. CursorInside'
    BY <1>0, <1>3, NextFrameInside, DecodingInside
  <2> QED BY <1>0, <1>3, <2>1 DEF IInv, ReadsInside, CursorInside, Inside
<1>4. CASE LoadDomain \/ LoadPayload \/ LoadCidr
  BY <1>2, <1>4 DEF LoadDomain, LoadPayload, LoadCidr, Loading
<1>5. CASE NextSection \/ NoMatcher \/ NoCapture
  BY <1>2, <1>5 DEF NextSection, NoMatcher, NoCapture, Tables
<1>6. CASE Read \/ Parse
  BY <1>3, <1>6 DEF Read, Parse, Capturing
<1>7. CASE UNCHANGED vars
  BY <1>2, <1>7 DEF vars
<1> QED BY <1>1, <1>4, <1>5, <1>6, <1>7 DEF Next

\* In every state the decoder has read nothing past the captured frame, and every
\* section of a database the engine goes on with lies in the file.
THEOREM ReadsStayInside == Spec => []ReadsInside
<1>1. IInv => ReadsInside
  BY DEF IInv
<1> QED BY <1>1, InitInside, NextInside, PTL DEF Spec

-----------------------------------------------------------------------------
(* Least and greatest numbers: what the library's well-founded induction   *)
(* says of sets.                                                           *)

LEMMA LeastOf ==
    ASSUME NEW T, T \subseteq Nat, T # {}
    PROVE  \E x \in T : \A y \in T : x <= y
<1>1. PICK x \in T : \A y \in T : ~ (<<y, x>> \in OpToRel(<, Nat))
  BY NatLessThanWellFounded, WFMin
<1>2. \A y \in T : ~ (y < x)
  BY <1>1 DEF OpToRel
<1> QED BY <1>2

LEMMA GreatestOf ==
    ASSUME NEW T, T \subseteq Nat, T # {}, \E n \in Nat : \A x \in T : x <= n
    PROVE  \E x \in T : \A y \in T : y <= x
<1>0. PICK n \in Nat : \A x \in T : x <= n
  OBVIOUS
<1> DEFINE U == {k \in 0 .. n : n - k \in T}
<1>1. PICK k \in U : \A l \in U : k <= l
  <2>1. PICK x \in T : TRUE
    OBVIOUS
  <2>2. n - x \in U
    BY <1>0, <2>1
  <2>3. U \subseteq Nat
    OBVIOUS
  <2>4. U # {}
    BY <2>2
  <2> HIDE DEF U
  <2> QED BY <2>3, <2>4, LeastOf
<1>2. n - k \in T
  BY <1>1
<1>3. ASSUME NEW y \in T PROVE y <= n - k
  <2>1. n - y \in U /\ y \in Nat /\ k \in Nat
    BY <1>0
  <2> QED BY <1>1, <2>1
<1> QED BY <1>2, <1>3

-----------------------------------------------------------------------------
(* The first of the most confident claims. *)

IsRuleLog(log) == \A i \in 1 .. Len(log) : log[i].rule \in Rules

\* What FirstMostConfident chooses.
IsBest(log, I, i) ==
    \A j \in I : \/ log[i].rule.conf > log[j].rule.conf
                 \/ log[i].rule.conf = log[j].rule.conf /\ i <= j

LEMMA RuleConf == ASSUME NEW r \in Rules PROVE r.conf \in Nat /\ r.conf <= 255
BY SigRuleAssumption

\* Of the claims at some positions there is a first most confident one, and only one.
LEMMA BestExists ==
    ASSUME NEW log, NEW I, Len(log) \in Nat, IsRuleLog(log), I \subseteq 1 .. Len(log), I # {}
    PROVE  \E i \in I : IsBest(log, I, i)
<1> DEFINE Conf == {log[i].rule.conf : i \in I}
<1>1. \A i \in I : log[i].rule.conf \in Nat /\ log[i].rule.conf <= 255
  BY RuleConf DEF IsRuleLog
<1>2. PICK c \in Conf : \A d \in Conf : d <= c
  <2>1. Conf \subseteq Nat /\ Conf # {} /\ \A d \in Conf : d <= 255
    BY <1>1
  <2> HIDE DEF Conf
  <2>2. \E n \in Nat : \A d \in Conf : d <= n
    <3>1. 255 \in Nat /\ \A d \in Conf : d <= 255
      BY <2>1
    <3> WITNESS 255 \in Nat
    <3> QED BY <3>1
  <2> QED BY <2>1, <2>2, GreatestOf
<1> DEFINE Top == {i \in I : log[i].rule.conf = c}
<1>3. PICK i \in Top : \A j \in Top : i <= j
  <2>0. I \subseteq Nat /\ Top \subseteq I
    OBVIOUS
  <2>1. Top \subseteq Nat
    BY <2>0
  <2>2. PICK i \in I : log[i].rule.conf = c
    BY <1>2
  <2>3. Top # {}
    BY <2>2
  <2> HIDE DEF Top
  <2> QED BY <2>1, <2>3, LeastOf
<1>4. \A j \in I : log[j].rule.conf <= c
  BY <1>2
<1>5. log[i].rule.conf = c /\ i \in I
  BY <1>3
<1>6. ASSUME NEW j \in I
      PROVE  \/ log[i].rule.conf > log[j].rule.conf
             \/ log[i].rule.conf = log[j].rule.conf /\ i <= j
  BY <1>1, <1>3, <1>4, <1>5
<1> QED BY <1>5, <1>6 DEF IsBest

LEMMA BestUnique ==
    ASSUME NEW log, NEW I, Len(log) \in Nat, IsRuleLog(log), I \subseteq 1 .. Len(log),
           NEW i \in I, IsBest(log, I, i), NEW j \in I, IsBest(log, I, j)
    PROVE  i = j
<1>1. i \in Nat /\ j \in Nat
  OBVIOUS
<1>2. log[i].rule.conf \in Nat /\ log[j].rule.conf \in Nat
  BY <1>1, RuleConf DEF IsRuleLog
<1> QED BY <1>1, <1>2 DEF IsBest

\* FirstMostConfident is the rule of the best claim.
LEMMA FirstIsBest ==
    ASSUME NEW log, NEW I, Len(log) \in Nat, IsRuleLog(log), I \subseteq 1 .. Len(log),
           NEW i \in I, IsBest(log, I, i)
    PROVE  FirstMostConfident(log, I) = log[i].rule
<1>1. I # {}
  OBVIOUS
<1>2. FirstMostConfident(log, I) = log[CHOOSE k \in I : IsBest(log, I, k)].rule
  BY <1>1 DEF FirstMostConfident, IsBest
<1>4. IsBest(log, I, CHOOSE k \in I : IsBest(log, I, k))
  OBVIOUS
<1>5. i = CHOOSE k \in I : IsBest(log, I, k)
  BY <1>4, BestUnique
<1> QED BY <1>2, <1>5

\* No claim, no rule, and some claim, some rule.
LEMMA FirstIsRule ==
    ASSUME NEW log, NEW I, Len(log) \in Nat, IsRuleLog(log), I \subseteq 1 .. Len(log)
    PROVE  /\ FirstMostConfident(log, I) = NoRule <=> I = {}
           /\ FirstMostConfident(log, I) \in Rules \union {NoRule}
<1>1. CASE I = {}
  BY <1>1 DEF FirstMostConfident
<1>2. CASE I # {}
  <2>1. PICK i \in I : IsBest(log, I, i)
    BY <1>2, BestExists
  <2>2. FirstMostConfident(log, I) = log[i].rule
    BY <2>1, FirstIsBest
  <2>3. log[i].rule \in Rules
    BY DEF IsRuleLog
  <2> QED BY <1>2, <2>2, <2>3, SigRuleAssumption
<1> QED BY <1>1, <1>2

\* One claim more, the n-th, beside those at the positions I.
Longer(log, more, n, I) ==
    /\ I \subseteq 1 .. Len(log) /\ Len(log) \in Nat /\ n = Len(log) + 1 /\ Len(more) = n
    /\ \A i \in 1 .. Len(log) : more[i] = log[i]
    /\ IsRuleLog(log) /\ more[n].rule \in Rules

\* A claim that is added counts as Claim says.
LEMMA FirstOfMore ==
    ASSUME NEW log, NEW more, NEW n, NEW I, Longer(log, more, n, I)
    PROVE  /\ IsRuleLog(more)
           /\ FirstMostConfident(more, I) = FirstMostConfident(log, I)
           /\ FirstMostConfident(more, I \union {n})
                  = Claim(FirstMostConfident(log, I), more[n].rule)
<1> DEFINE c == more[n]
           J == I \union {n}
<1>1. /\ Len(log) \in Nat /\ Len(more) = n /\ more[n] = c
      /\ \A i \in 1 .. Len(log) : more[i] = log[i]
      /\ IsRuleLog(log) /\ n = Len(log) + 1 /\ I \subseteq 1 .. Len(log)
  BY DEF Longer
<1>9. c.rule \in Rules
  BY DEF Longer
<1> HIDE DEF c
<1>2. IsRuleLog(more)
  BY <1>1, <1>9 DEF IsRuleLog
<1>3. n \in Nat /\ Len(more) = n /\ Len(log) = n - 1 /\ n \in J /\ n \notin I
  BY <1>1
<1>0. I \subseteq 1 .. Len(more) /\ J \subseteq 1 .. Len(more) /\ J = I \union {n}
  <2>1. 1 .. Len(log) \subseteq 1 .. n /\ n \in 1 .. n
    BY <1>3
  <2> QED BY <1>1, <1>3, <2>1
<1> HIDE DEF J
<1>4. \A i \in I : more[i] = log[i] /\ i <= n /\ log[i].rule.conf \in Nat /\ i \in Nat
  BY <1>1, <1>3, RuleConf DEF IsRuleLog
<1>5. c.rule.conf \in Nat
  BY <1>9, RuleConf
<1>6. CASE I = {}
  <2>1. IsBest(more, J, n)
    BY <1>0, <1>1, <1>3, <1>5, <1>6 DEF IsBest
  <2>2. FirstMostConfident(more, J) = c.rule
    BY <1>0, <1>1, <1>2, <1>3, <2>1, FirstIsBest
  <2> QED BY <1>2, <1>6, <2>2 DEF FirstMostConfident, Claim, c, J
<1>7. CASE I # {}
  <2>1. PICK i \in I : IsBest(log, I, i)
    BY <1>1, <1>7, BestExists
  <2>2. FirstMostConfident(log, I) = log[i].rule
    BY <1>1, <2>1, FirstIsBest
  <2>3. IsBest(more, I, i)
    BY <1>4, <2>1 DEF IsBest
  <2>4. FirstMostConfident(more, I) = log[i].rule
    BY <1>0, <1>1, <1>2, <1>3, <1>4, <2>1, <2>3, FirstIsBest
  <2>5. log[i].rule # NoRule
    BY <1>1, SigRuleAssumption DEF IsRuleLog
  <2>6. CASE c.rule.conf > log[i].rule.conf
    <3>1. IsBest(more, J, n)
      BY <1>0, <1>1, <1>3, <1>4, <1>5, <2>1, <2>6 DEF IsBest
    <3>2. FirstMostConfident(more, J) = c.rule
      BY <1>0, <1>1, <1>2, <1>3, <3>1, FirstIsBest
    <3> QED BY <1>2, <2>2, <2>4, <2>6, <3>2 DEF Claim, c, J
  <2>7. CASE ~(c.rule.conf > log[i].rule.conf)
    <3>0. i \in J
      BY <1>0, <2>1
    <3>1. IsBest(more, J, i)
      <4>1. i \in J
        BY <1>0
      <4>2. ASSUME NEW j \in J
            PROVE  \/ more[i].rule.conf > more[j].rule.conf
                   \/ more[i].rule.conf = more[j].rule.conf /\ i <= j
        <5>1. CASE j = n
          BY <1>0, <1>1, <1>3, <1>4, <1>5, <2>7, <5>1
        <5>2. CASE j \in I
          BY <2>3, <5>2 DEF IsBest
        <5> QED BY <1>0, <5>1, <5>2
      <4> QED BY <1>0, <4>1, <4>2 DEF IsBest
    <3>2. FirstMostConfident(more, J) = log[i].rule
      <4>1. FirstMostConfident(more, J) = more[i].rule
        BY <1>0, <1>2, <1>3, <3>0, <3>1, FirstIsBest
      <4> QED BY <1>4, <2>1, <4>1
    <3> QED BY <1>2, <2>2, <2>4, <2>5, <2>7, <3>2 DEF Claim, c, J
  <2> QED BY <2>6, <2>7
<1> QED BY <1>6, <1>7

-----------------------------------------------------------------------------
(* The tries of prefixes. *)

BitStrings == Seq({0, 1})

LEMMA CutOf ==
    ASSUME NEW p \in BitStrings, NEW n \in 0 .. Len(p)
    PROVE  /\ Cut(p, n) \in BitStrings /\ Len(Cut(p, n)) = n
           /\ \A i \in 1 .. n : Cut(p, n)[i] = p[i]
<1>1. \A i \in 1 .. n : p[i] \in {0, 1}
  BY LenProperties DEF BitStrings
<1>2. n \in Int /\ 1 \in Int /\ n - 1 + 1 = n /\ (1 <= n \/ n = 0)
  BY LenProperties DEF BitStrings
<1>3. /\ SubSeq(p, 1, n) \in Seq({0, 1})
      /\ Len(SubSeq(p, 1, n)) = IF 1 <= n THEN n - 1 + 1 ELSE 0
      /\ \A i \in 1 .. n - 1 + 1 : SubSeq(p, 1, n)[i] = p[1 + i - 1]
  BY <1>1, <1>2, SubSeqProperties
<1>4. \A i \in 1 .. n : 1 + i - 1 = i
  BY <1>2
<1> QED BY <1>2, <1>3, <1>4 DEF Cut, BitStrings

\* Two strings of bits with the same bits are one.
LEMMA SameBits ==
    ASSUME NEW p \in BitStrings, NEW q \in BitStrings, Len(p) = Len(q),
           \A i \in 1 .. Len(p) : p[i] = q[i]
    PROVE  p = q
BY SeqEqual DEF BitStrings

LEMMA CutOfCut ==
    ASSUME NEW p \in BitStrings, NEW n \in 0 .. Len(p), NEW m \in 0 .. n
    PROVE  Cut(Cut(p, n), m) = Cut(p, m)
<1>1. Len(p) \in Nat /\ m \in 0 .. Len(p)
  BY LenProperties DEF BitStrings
<1>2. /\ Cut(p, n) \in BitStrings /\ Len(Cut(p, n)) = n
      /\ \A i \in 1 .. n : Cut(p, n)[i] = p[i]
  BY CutOf
<1>3. /\ Cut(p, m) \in BitStrings /\ Len(Cut(p, m)) = m
      /\ \A i \in 1 .. m : Cut(p, m)[i] = p[i]
  BY <1>1, CutOf
<1>4. /\ Cut(Cut(p, n), m) \in BitStrings /\ Len(Cut(Cut(p, n), m)) = m
      /\ \A i \in 1 .. m : Cut(Cut(p, n), m)[i] = Cut(p, n)[i]
  BY <1>2, CutOf
<1>5. \A i \in 1 .. m : i \in 1 .. n
  BY <1>1
<1> QED BY <1>2, <1>3, <1>4, <1>5, SameBits

LEMMA CutWhole ==
    ASSUME NEW p \in BitStrings
    PROVE  Cut(p, Len(p)) = p
BY SubSeqFull DEF Cut, BitStrings

\* The claims of a log for one prefix.
At(log, p) == {i \in 1 .. Len(log) : Cut(log[i].addr, log[i].len) = p}

\* The nodes of a trie are the prefixes of its nodes.
Rooted(ns, depth) ==
    /\ IsFiniteSet(ns) /\ Cardinality(ns) <= MaxLpmNodes
    /\ <<>> \in ns
    /\ \A p \in ns : p \in BitStrings /\ Len(p) <= depth /\ Cuts(p, Len(p)) \subseteq ns

\* What was loaded for a family has its node.
Loaded(af, log, ns) ==
    /\ log \in Seq(CidrRecords)
    /\ \A i \in 1 .. Len(log) :
           log[i].af = af /\ log[i].len <= Bits[af] /\ Cut(log[i].addr, log[i].len) \in ns

\* A node holds the first of the most confident claims for it.
HoldsBest(t, log) == \A p \in DOMAIN t : t[p] = FirstMostConfident(log, At(log, p))

TrieGood(af, t, log) ==
    Rooted(DOMAIN t, Bits[af]) /\ Loaded(af, log, DOMAIN t) /\ HoldsBest(t, log)

LpmInv ==
    /\ trie = [af \in Families |-> trie[af]]
    /\ prefixes = [af \in Families |-> prefixes[af]]
    /\ \A af \in Families : TrieGood(af, trie[af], prefixes[af])

LEMMA RecordTyped ==
    ASSUME NEW c \in CidrRecords
    PROVE  /\ c.af \in Families /\ Bits[c.af] \in Nat /\ c.len \in Nat /\ c.rule \in Rules
           /\ c.addr \in BitStrings /\ Len(c.addr) = Bits[c.af]
<1>1. c.af \in Families /\ Bits[c.af] \in Nat /\ c.len \in Nat /\ c.rule \in Rules
      /\ c.addr \in [1 .. Bits[c.af] -> {0, 1}]
  BY InputAssumption, LpmAssumption DEF Addresses, Families
<1> QED BY <1>1 DEF BitStrings

LEMMA LogTyped ==
    ASSUME NEW af, NEW log, NEW ns, Loaded(af, log, ns)
    PROVE  /\ Len(log) \in Nat /\ IsRuleLog(log)
           /\ \A i \in 1 .. Len(log) :
                  log[i].addr \in BitStrings /\ Len(log[i].addr) = Bits[af] /\ log[i].len \in Nat
<1>1. Len(log) \in Nat /\ \A i \in 1 .. Len(log) : log[i] \in CidrRecords
  BY DEF Loaded
<1> QED BY <1>1, RecordTyped DEF Loaded, IsRuleLog

-----------------------------------------------------------------------------
(* Looking up *)

\* The longest prefix on the way down is the longest that was loaded.
LEMMA LookupRight ==
    ASSUME NEW af \in Families, NEW t, NEW log, TrieGood(af, t, log),
           NEW addr \in Addresses(af)
    PROVE  LpmLookup(t, addr) = LongestPrefixRule(log, addr)
<1> DEFINE n == Len(addr)
           valued == {i \in 0 .. n : Cuts(addr, i) \subseteq DOMAIN t /\ t[Cut(addr, i)] # NoRule}
           covers == {i \in 1 .. Len(log) :
                          Cut(log[i].addr, log[i].len) = Cut(addr, log[i].len)}
           longest == {i \in covers : \A j \in covers : log[j].len <= log[i].len}
<1>1. Bits[af] \in Nat /\ addr \in BitStrings /\ n = Bits[af] /\ n \in Nat
  <2>1. Bits[af] \in Nat /\ addr \in [1 .. Bits[af] -> {0, 1}]
    BY LpmAssumption DEF Addresses, Families
  <2> QED BY <2>1 DEF BitStrings
<1>2. /\ Len(log) \in Nat /\ IsRuleLog(log)
      /\ \A i \in 1 .. Len(log) : log[i].addr \in BitStrings /\ Len(log[i].addr) = Bits[af]
                                    /\ log[i].len \in Nat /\ log[i].len <= Bits[af]
                                    /\ Cut(log[i].addr, log[i].len) \in DOMAIN t
  BY LogTyped DEF TrieGood, Loaded
<1> HIDE DEF n
<1>3. ASSUME NEW i \in 0 .. n
      PROVE  /\ Cut(addr, i) \in BitStrings /\ Len(Cut(addr, i)) = i
             /\ Cut(addr, i) \in DOMAIN t => Cuts(addr, i) \subseteq DOMAIN t
             /\ Cut(addr, i) \in Cuts(addr, i)
  <2>1. Cut(addr, i) \in BitStrings /\ Len(Cut(addr, i)) = i
    BY <1>1, CutOf DEF n
  <2>2. ASSUME Cut(addr, i) \in DOMAIN t, NEW m \in 0 .. i PROVE Cut(addr, m) \in DOMAIN t
    <3>1. Cuts(Cut(addr, i), i) \subseteq DOMAIN t
      BY <2>1, <2>2 DEF TrieGood, Rooted
    <3>2. Cut(Cut(addr, i), m) = Cut(addr, m)
      BY <1>1, CutOfCut DEF n
    <3> QED BY <3>1, <3>2 DEF Cuts
  <2>3. Cut(addr, i) \in Cuts(addr, i)
    BY <1>1 DEF Cuts
  <2> QED BY <2>1, <2>2, <2>3 DEF Cuts
<1>4. ASSUME NEW k \in covers
      PROVE  log[k].len \in 0 .. n /\ k \in At(log, Cut(addr, log[k].len)) /\ log[k].len \in Nat
  BY <1>1, <1>2 DEF At
<1>5. ASSUME NEW i \in 0 .. n, NEW k \in At(log, Cut(addr, i))
      PROVE  k \in covers /\ log[k].len = i
  <2>1. k \in 1 .. Len(log) /\ Cut(log[k].addr, log[k].len) = Cut(addr, i)
    BY DEF At
  <2>2. Len(Cut(log[k].addr, log[k].len)) = log[k].len
    BY <1>1, <1>2, <2>1, CutOf
  <2>3. log[k].len = i
    BY <1>3, <2>1, <2>2
  <2> QED BY <2>1, <2>3
<1>6. ASSUME NEW i \in 0 .. n, Cut(addr, i) \in DOMAIN t
      PROVE  /\ t[Cut(addr, i)] = FirstMostConfident(log, At(log, Cut(addr, i)))
             /\ t[Cut(addr, i)] # NoRule <=> At(log, Cut(addr, i)) # {}
  <2>1. At(log, Cut(addr, i)) \subseteq 1 .. Len(log)
    BY DEF At
  <2>2. t[Cut(addr, i)] = FirstMostConfident(log, At(log, Cut(addr, i)))
    BY <1>6 DEF TrieGood, HoldsBest
  <2> QED BY <1>2, <2>1, <2>2, FirstIsRule
<1>7. ASSUME NEW k \in covers
      PROVE  log[k].len \in valued
  <2>1. Cut(addr, log[k].len) \in DOMAIN t
    BY <1>2
  <2> QED BY <1>3, <1>4, <1>6, <2>1
<1>8. ASSUME NEW i \in valued
      PROVE  /\ i \in 0 .. n /\ Cut(addr, i) \in DOMAIN t
             /\ \E k \in covers : log[k].len = i
  <2>1. Cut(addr, i) \in DOMAIN t
    BY <1>3
  <2>2. At(log, Cut(addr, i)) # {}
    BY <1>6, <2>1
  <2> QED BY <1>5, <2>1, <2>2
<1>9. LpmLookup(t, addr) = IF valued = {} THEN NoRule
                           ELSE t[Cut(addr, CHOOSE i \in valued : \A j \in valued : j <= i)]
  BY DEF LpmLookup, n
<1>10. LongestPrefixRule(log, addr) = FirstMostConfident(log, longest)
  BY DEF LongestPrefixRule
<1>11. CASE covers = {}
  <2>1. valued = {}
    BY <1>8, <1>11
  <2>2. longest = {}
    BY <1>11
  <2> QED BY <1>9, <1>10, <2>1, <2>2 DEF FirstMostConfident
<1>12. CASE covers # {}
  <2>1. valued # {} /\ valued \subseteq 0 .. n
    BY <1>7, <1>12
  <2> DEFINE top == CHOOSE i \in valued : \A j \in valued : j <= i
  <2>2. top \in valued /\ \A j \in valued : j <= top
    <3> HIDE DEF valued
    <3>1. valued \subseteq Nat
      BY <2>1
    <3>2. \A x \in valued : x <= n
      BY <2>1
    <3>3. n \in Nat
      BY <1>1
    <3>4. \E m \in Nat : \A x \in valued : x <= m
      BY <3>2, <3>3
    <3> QED BY <2>1, <3>1, <3>4, GreatestOf
  <2> HIDE DEF valued, top, longest
  <2>3. top \in 0 .. n /\ Cut(addr, top) \in DOMAIN t /\ \E k \in covers : log[k].len = top
    BY <1>8, <2>2
  <2>4. ASSUME NEW k \in covers PROVE k \in longest <=> log[k].len = top
    <3>1. \A j \in covers : log[j].len \in Nat /\ log[j].len <= top
      BY <1>4, <1>7, <2>2
    <3> QED BY <1>1, <2>3, <3>1 DEF longest
  <2>5. longest = At(log, Cut(addr, top))
    <3>1. ASSUME NEW k \in longest PROVE k \in At(log, Cut(addr, top))
      <4>1. k \in covers
        BY DEF longest
      <4> QED BY <1>4, <2>4, <4>1
    <3>2. ASSUME NEW k \in At(log, Cut(addr, top)) PROVE k \in longest
      BY <1>5, <2>3, <2>4
    <3> QED BY <3>1, <3>2
  <2>6. LpmLookup(t, addr) = t[Cut(addr, top)]
    BY <1>9, <2>1 DEF top
  <2> QED BY <1>6, <1>10, <2>3, <2>5, <2>6
<1> QED BY <1>11, <1>12

-----------------------------------------------------------------------------
(* Inserting *)

\* There are no more cuts of an address than lengths.
LEMMA CutsCounted ==
    ASSUME NEW addr, NEW a \in Int, NEW b \in Int, a <= b + 1,
           NEW S, S \subseteq {Cut(addr, i) : i \in a .. b}
    PROVE  IsFiniteSet(S) /\ Cardinality(S) \in Nat /\ Cardinality(S) <= b - a + 1
<1> DEFINE Image == {Cut(addr, i) : i \in a .. b}
           f == [i \in a .. b |-> Cut(addr, i)]
<1>1. f \in Surjection(a .. b, Image)
  BY DEF Surjection
<1>2. IsFiniteSet(a .. b) /\ Cardinality(a .. b) = b - a + 1
  BY FS_Interval
<1>3. IsFiniteSet(Image) /\ Cardinality(Image) <= b - a + 1
  <2> HIDE DEF Image, f
  <2> QED BY <1>1, <1>2, FS_Surjection
<1>4. S \in SUBSET Image
  OBVIOUS
<1> HIDE DEF Image
<1>5. IsFiniteSet(S) /\ Cardinality(S) <= Cardinality(Image)
  BY <1>3, <1>4, FS_Subset
<1>6. Cardinality(S) \in Nat /\ Cardinality(Image) \in Nat
  BY <1>3, <1>5, FS_CardinalityType
<1> QED BY <1>3, <1>5, <1>6

\* A trie that grows stays one, within its bound, and keeps what it holds.
LEMMA GrowRooted ==
    ASSUME NEW c \in CidrRecords, c.len <= Bits[c.af],
           NEW t, Rooted(DOMAIN t, Bits[c.af])
    PROVE  /\ Rooted(DOMAIN Grow(t, c), Bits[c.af])
           /\ DOMAIN t \subseteq DOMAIN Grow(t, c)
           /\ Grow(t, c) = [p \in DOMAIN Grow(t, c) |-> IF p \in DOMAIN t THEN t[p] ELSE NoRule]
<1> DEFINE D == DOMAIN t
           path == Cuts(c.addr, c.len)
           room == MaxLpmNodes - Cardinality(D)
           shared == Cardinality(path \intersect D)
           new == {q \in path : Len(q) < shared + room}
<1>1. /\ Grow(t, c) = [p \in D \union new |-> IF p \in D THEN t[p] ELSE NoRule]
      /\ DOMAIN Grow(t, c) = D \union new
  BY DEF Grow
<1>2. /\ c.addr \in BitStrings /\ c.len \in 0 .. Len(c.addr) /\ Len(c.addr) = Bits[c.af]
      /\ Bits[c.af] \in Nat
  BY RecordTyped
<1>3. ASSUME NEW i \in 0 .. c.len
      PROVE  /\ Cut(c.addr, i) \in path /\ Cut(c.addr, i) \in BitStrings
             /\ Len(Cut(c.addr, i)) = i
             /\ \A m \in 0 .. i : Cut(Cut(c.addr, i), m) = Cut(c.addr, m)
  <2>1. i \in 0 .. Len(c.addr)
    BY <1>2
  <2> QED BY <1>2, <2>1, CutOf, CutOfCut DEF Cuts
<1>4. IsFiniteSet(D) /\ Cardinality(D) \in Nat /\ room \in Nat
  <2>1. IsFiniteSet(D) /\ Cardinality(D) <= MaxLpmNodes
    BY DEF Rooted
  <2>2. Cardinality(D) \in Nat
    BY <2>1, FS_CardinalityType
  <2> QED BY <2>1, <2>2, LpmAssumption
<1>5. shared \in Nat
  <2>1. path \intersect D \subseteq {Cut(c.addr, i) : i \in 0 .. c.len}
    BY DEF Cuts
  <2>2. 0 \in Int /\ c.len \in Int /\ 0 <= c.len + 1
    BY <1>2
  <2> HIDE DEF path, D
  <2> QED BY <2>1, <2>2, CutsCounted
<1>6. ASSUME NEW q \in path PROVE \E i \in 0 .. c.len : q = Cut(c.addr, i) /\ Len(q) = i
  BY <1>3 DEF Cuts
\* What is missing on the way is longer than what is there.
<1>7. ASSUME NEW i \in 0 .. c.len, Cut(c.addr, i) \notin D PROVE shared <= i
  <2>1. ASSUME NEW j \in 0 .. c.len, Cut(c.addr, j) \in D PROVE j < i
    <3>1. SUFFICES ASSUME i <= j PROVE FALSE
      BY <1>2
    <3>2. i \in 0 .. j
      BY <3>1
    <3>3. Cut(Cut(c.addr, j), i) \in D
      BY <1>3, <2>1, <3>2 DEF Rooted, Cuts
    <3> QED BY <1>3, <1>7, <3>2, <3>3
  <2>2. path \intersect D \subseteq {Cut(c.addr, j) : j \in 0 .. i - 1}
    <3> SUFFICES ASSUME NEW q \in path, q \in D
                 PROVE  q \in {Cut(c.addr, j) : j \in 0 .. i - 1}
      OBVIOUS
    <3>1. PICK j \in 0 .. c.len : q = Cut(c.addr, j)
      BY <1>6
    <3>2. j \in 0 .. i - 1
      BY <1>2, <2>1, <3>1
    <3> QED BY <3>1, <3>2
  <2>3. 0 \in Int /\ i - 1 \in Int /\ 0 <= (i - 1) + 1 /\ (i - 1) - 0 + 1 = i
    BY <1>2
  <2> HIDE DEF path, D
  <2> QED BY <2>2, <2>3, CutsCounted
<1>8. IsFiniteSet(new \ D) /\ Cardinality(new \ D) <= room
  <2>1. new \ D \subseteq {Cut(c.addr, i) : i \in shared .. (shared + room - 1)}
    <3> SUFFICES ASSUME NEW q \in new, q \notin D
                 PROVE  q \in {Cut(c.addr, i) : i \in shared .. (shared + room - 1)}
      OBVIOUS
    <3>1. PICK i \in 0 .. c.len : q = Cut(c.addr, i) /\ Len(q) = i
      BY <1>6
    <3>2. shared <= i /\ i < shared + room
      BY <1>7, <3>1
    <3>3. i \in shared .. (shared + room - 1)
      BY <1>2, <1>4, <1>5, <3>2
    <3> QED BY <3>1, <3>3
  <2>2. /\ shared \in Int /\ shared + room - 1 \in Int /\ shared <= (shared + room - 1) + 1
        /\ (shared + room - 1) - shared + 1 = room
    BY <1>4, <1>5
  <2> HIDE DEF new, D, shared, room
  <2> QED BY <2>1, <2>2, CutsCounted
<1>9. IsFiniteSet(D \union new) /\ Cardinality(D \union new) <= MaxLpmNodes
  <2> DEFINE N == new \ D
  <2>1. D \union new = D \union N /\ D \intersect N = {}
    OBVIOUS
  <2>2. IsFiniteSet(N) /\ Cardinality(N) <= room /\ Cardinality(N) \in Nat
    BY <1>8, FS_CardinalityType
  <2>3. Cardinality(D) + room = MaxLpmNodes
    BY <1>4, LpmAssumption
  <2> HIDE DEF N, D, new, room
  <2>4. /\ IsFiniteSet(D \union N)
        /\ Cardinality(D \union N) = Cardinality(D) + Cardinality(N) - Cardinality(D \intersect N)
    BY <1>4, <2>2, FS_Union
  <2>5. Cardinality(D \intersect N) = 0
    BY <2>1, FS_EmptySet
  <2>6. room \in Nat /\ Cardinality(D) \in Nat
    BY <1>4
  <2>7. Cardinality(D \union N) <= MaxLpmNodes
    <3>1. Cardinality(D \union N) = Cardinality(D) + Cardinality(N)
      BY <2>2, <2>4, <2>5, <2>6
    <3> QED BY <2>2, <2>3, <2>6, <3>1
  <2> QED BY <2>1, <2>4, <2>7
<1>10. ASSUME NEW p \in D \union new
       PROVE  /\ p \in BitStrings /\ Len(p) <= Bits[c.af]
              /\ Cuts(p, Len(p)) \subseteq D \union new
  <2>1. CASE p \in D
    BY <2>1 DEF Rooted
  <2>2. CASE p \in new
    <3>1. PICK i \in 0 .. c.len : p = Cut(c.addr, i) /\ Len(p) = i
      BY <1>6, <2>2
    <3>2. ASSUME NEW m \in 0 .. i PROVE Cut(p, m) \in new
      <4>1. m \in 0 .. c.len /\ Cut(p, m) = Cut(c.addr, m)
        BY <1>2, <1>3, <3>1
      <4>2. i < shared + room /\ Len(Cut(c.addr, m)) = m
        BY <1>3, <2>2, <3>1, <4>1
      <4>3. m < shared + room
        BY <1>2, <1>4, <1>5, <4>2
      <4> QED BY <1>3, <4>1, <4>2, <4>3
    <3> QED BY <1>2, <1>3, <3>1, <3>2 DEF Cuts
  <2> QED BY <2>1, <2>2
<1>11. <<>> \in D
  BY DEF Rooted
<1> HIDE DEF D, new
<1>12. Rooted(D \union new, Bits[c.af])
  BY <1>9, <1>10, <1>11 DEF Rooted
<1>13. D = DOMAIN t
  BY DEF D
<1> QED BY <1>1, <1>12, <1>13

\* Inserting a record keeps a trie good.
LEMMA InsertGood ==
    ASSUME NEW c \in CidrRecords, c.len <= Bits[c.af],
           NEW t, NEW log, TrieGood(c.af, t, log)
    PROVE  LET g == Grow(t, c)
               end == Cut(c.addr, c.len)
           IN  /\ end \notin DOMAIN g => TrieGood(c.af, g, log)
               /\ end \in DOMAIN g => TrieGood(c.af, [g EXCEPT ![end] = Claim(@, c.rule)],
                                                  Append(log, c))
<1> DEFINE g == Grow(t, c)
           end == Cut(c.addr, c.len)
           n == Len(log) + 1
           more == Append(log, c)
<1>1. /\ Rooted(DOMAIN g, Bits[c.af]) /\ DOMAIN t \subseteq DOMAIN g
      /\ g = [p \in DOMAIN g |-> IF p \in DOMAIN t THEN t[p] ELSE NoRule]
  BY GrowRooted DEF TrieGood
<1> HIDE DEF g, end
<1>2. Loaded(c.af, log, DOMAIN g)
  BY <1>1 DEF TrieGood, Loaded
<1>3. ASSUME NEW p \in DOMAIN g
      PROVE  g[p] = FirstMostConfident(log, At(log, p))
  <2>1. CASE p \in DOMAIN t
    BY <1>1, <2>1 DEF TrieGood, HoldsBest
  <2>2. CASE p \notin DOMAIN t
    <3>1. At(log, p) = {}
      BY <2>2 DEF TrieGood, Loaded, At
    <3> QED BY <1>1, <2>2, <3>1 DEF FirstMostConfident
  <2> QED BY <2>1, <2>2
<1>4. TrieGood(c.af, g, log)
  BY <1>1, <1>2, <1>3 DEF TrieGood, HoldsBest
<1>5. ASSUME end \in DOMAIN g
      PROVE  TrieGood(c.af, [g EXCEPT ![end] = Claim(@, c.rule)], more)
  <2> DEFINE u == [g EXCEPT ![end] = Claim(@, c.rule)]
  <2>1. /\ DOMAIN u = DOMAIN g /\ u[end] = Claim(g[end], c.rule)
        /\ \A p \in DOMAIN g : p # end => u[p] = g[p]
    BY <1>1, <1>5
  <2>2. /\ log \in Seq(CidrRecords) /\ Len(log) \in Nat /\ IsRuleLog(log) /\ c.rule \in Rules
    BY LogTyped, RecordTyped DEF TrieGood, Loaded
  <2>3. /\ more \in Seq(CidrRecords) /\ Len(more) = n /\ more[n] = c
        /\ \A i \in 1 .. Len(log) : more[i] = log[i]
    BY <2>2, AppendProperties
  <2>4. ASSUME NEW i \in 1 .. n PROVE (i \in 1 .. Len(log) /\ more[i] = log[i]) \/ (i = n /\ more[i] = c)
    BY <2>2, <2>3
  <2>5. ASSUME NEW p
        PROVE  /\ p # end => At(more, p) = At(log, p)
               /\ p = end => At(more, p) = At(log, p) \union {n}
    <3> HIDE DEF more
    <3>1. 1 .. n = (1 .. Len(log)) \union {n} /\ n \notin 1 .. Len(log)
      BY <2>2
    <3> HIDE DEF n
    <3> QED BY <2>3, <3>1 DEF At, end
  <2>6. ASSUME NEW p
        PROVE  /\ FirstMostConfident(more, At(log, p)) = FirstMostConfident(log, At(log, p))
               /\ FirstMostConfident(more, At(log, p) \union {n})
                      = Claim(FirstMostConfident(log, At(log, p)), c.rule)
    <3>1. At(log, p) \subseteq 1 .. Len(log)
      BY DEF At
    <3> HIDE DEF more, n
    <3>2. Longer(log, more, n, At(log, p))
      BY <2>2, <2>3, <3>1 DEF n, Longer
    <3>3. /\ FirstMostConfident(more, At(log, p)) = FirstMostConfident(log, At(log, p))
          /\ FirstMostConfident(more, At(log, p) \union {n})
                 = Claim(FirstMostConfident(log, At(log, p)), more[n].rule)
      BY <3>2, FirstOfMore
    <3> QED BY <2>3, <3>3
  <2> HIDE DEF u, more, n
  <2>7. HoldsBest(u, more)
    <3> SUFFICES ASSUME NEW p \in DOMAIN g PROVE u[p] = FirstMostConfident(more, At(more, p))
      BY <2>1 DEF HoldsBest
    <3>1. CASE p = end
      BY <1>3, <2>1, <2>5, <2>6, <3>1
    <3>2. CASE p # end
      BY <1>3, <2>1, <2>5, <2>6, <3>2
    <3> QED BY <3>1, <3>2
  <2>8. Loaded(c.af, more, DOMAIN g)
    BY <1>2, <1>5, <2>3, <2>4 DEF Loaded, end
  <2> QED BY <1>1, <2>1, <2>7, <2>8 DEF TrieGood, u
<1> QED BY <1>4, <1>5 DEF g, end

\* The empty tries.
LEMMA LpmInitGood == LpmInit => LpmInv
<1> SUFFICES ASSUME LpmInit PROVE LpmInv
  OBVIOUS
<1>1. ASSUME NEW af \in Families PROVE TrieGood(af, trie[af], prefixes[af])
  <2>1. trie[af] = [p \in {<<>>} |-> NoRule] /\ prefixes[af] = <<>> /\ DOMAIN trie[af] = {<<>>}
    BY DEF LpmInit
  <2>2. Rooted({<<>>}, Bits[af])
    <3>1. IsFiniteSet({<<>>}) /\ Cardinality({<<>>}) = 1
      BY FS_Singleton
    <3>2. <<>> \in BitStrings /\ Len(<<>>) = 0 /\ 0 <= Bits[af] /\ 1 <= MaxLpmNodes
      BY LpmAssumption DEF BitStrings, Families
    <3>3. Cuts(<<>>, Len(<<>>)) \subseteq {<<>>}
      BY <3>2, CutWhole DEF Cuts
    <3> QED BY <3>1, <3>2, <3>3 DEF Rooted
  <2>3. Len(prefixes[af]) = 0 /\ prefixes[af] \in Seq(CidrRecords)
    BY <2>1
  <2>4. \A p : At(prefixes[af], p) = {}
    BY <2>3 DEF At
  <2>5. HoldsBest(trie[af], prefixes[af])
    BY <2>1, <2>4 DEF HoldsBest, FirstMostConfident
  <2> QED BY <2>1, <2>2, <2>3, <2>5 DEF TrieGood, Loaded
<1> QED BY <1>1 DEF LpmInit, LpmInv

\* Every insertion keeps the tries good.
LEMMA LpmInsertGood ==
    ASSUME LpmInv, NEW c \in CidrRecords, LpmInsert(c)
    PROVE  LpmInv'
<1> DEFINE g == Grow(trie[c.af], c)
           end == Cut(c.addr, c.len)
<1>1. c.af \in Families /\ TrieGood(c.af, trie[c.af], prefixes[c.af])
  BY RecordTyped DEF LpmInv
<1>2. CASE c.len > Bits[c.af] /\ UNCHANGED lpmVars
  BY <1>2 DEF LpmInv, lpmVars
<1>3. CASE /\ c.len <= Bits[c.af] /\ end \notin DOMAIN g
           /\ trie' = [trie EXCEPT ![c.af] = g] /\ UNCHANGED prefixes
  <2>1. TrieGood(c.af, g, prefixes[c.af])
    BY <1>1, <1>3, InsertGood
  <2> HIDE DEF g
  <2> QED BY <1>1, <1>3, <2>1 DEF LpmInv
<1>4. CASE /\ c.len <= Bits[c.af] /\ end \in DOMAIN g
           /\ trie' = [trie EXCEPT ![c.af] = [g EXCEPT ![end] = Claim(@, c.rule)]]
           /\ prefixes' = [prefixes EXCEPT ![c.af] = Append(@, c)]
  <2>1. TrieGood(c.af, [g EXCEPT ![end] = Claim(@, c.rule)], Append(prefixes[c.af], c))
    BY <1>1, <1>4, InsertGood
  <2> DEFINE u == [g EXCEPT ![end] = Claim(@, c.rule)]
             log == Append(prefixes[c.af], c)
  <2>2. trie' = [trie EXCEPT ![c.af] = u] /\ prefixes' = [prefixes EXCEPT ![c.af] = log]
    BY <1>4
  <2> HIDE DEF u, log, g, end
  <2> QED BY <1>1, <2>1, <2>2 DEF LpmInv, u, log
<1> QED BY <1>2, <1>3, <1>4 DEF LpmInsert

\* While anything else is done the tries stay as they are.
LEMMA LpmNext ==
    ASSUME LpmInv, [Next]_vars
    PROVE  LpmInv'
<1>1. CASE UNCHANGED lpmVars
  BY <1>1 DEF LpmInv, lpmVars
<1>2. CASE LoadCidr
  <2>1. UNCHANGED lpmVars \/ \E c \in CidrRecords : LpmInsert(c)
    BY <1>2 DEF LoadCidr
  <2> QED BY <1>1, <2>1, LpmInsertGood
<1>3. CASE Open \/ LoadDomain \/ LoadPayload \/ NextSection \/ NoMatcher \/ NoCapture \/ Read \/ Parse
  BY <1>1, <1>3 DEF Open, LoadDomain, LoadPayload, NextSection, NoMatcher, NoCapture, Read,
     Parse, Capturing, matchers
<1>4. CASE UNCHANGED vars
  BY <1>1, <1>4 DEF vars
<1> QED BY <1>2, <1>3, <1>4 DEF Next

\* Every address of a family gets the rule of the longest prefix that was loaded for it.
THEOREM LongestPrefix == Spec => []LongestPrefixWins
<1>1. LpmInv => LongestPrefixWins
  BY LookupRight DEF LpmInv, LongestPrefixWins
<1>2. Init => LpmInv
  BY LpmInitGood DEF Init
<1> QED BY <1>1, <1>2, LpmNext, PTL DEF Spec

-----------------------------------------------------------------------------
(* The payload buckets.  Each holds, under every masked word, the most     *)
(* confident of the rules that were loaded for it.                         *)

SlotsP == INSTANCE ProbeTableProofs WITH
    Home <- KeyHome, MaxCap <- MaxBucketCap, Empty <- NoRule

\* What is proved of probe tables is about these.
LEMMA SamePut ==
    ASSUME NEW t, NEW k, NEW v
    PROVE  Slots!Put(t, k, v) = SlotsP!Put(t, k, v) /\ Slots!Find(t, k) = SlotsP!Find(t, k)
<1>1. Slots!Slot(t, k) = SlotsP!Slot(t, k)
  BY DEF Slots!Slot, SlotsP!Slot, Slots!Cap, SlotsP!Cap, Slots!Cardinality, SlotsP!Cardinality
<1> QED BY <1>1 DEF Slots!Put, SlotsP!Put, Slots!Find, SlotsP!Find

LEMMA SameGrown ==
    ASSUME NEW t
    PROVE  Slots!Grown(t) = SlotsP!Grown(t)
<1>1. Slots!Doubled(t) = SlotsP!Doubled(t)
  BY DEF Slots!Doubled, SlotsP!Doubled, Slots!NewTable, SlotsP!NewTable, Slots!Put, SlotsP!Put,
     Slots!Slot, SlotsP!Slot, Slots!Cap, SlotsP!Cap, Slots!Cardinality, SlotsP!Cardinality
<1> QED BY <1>1 DEF Slots!Grown, SlotsP!Grown, Slots!Crowded, SlotsP!Crowded, Slots!Entries,
    SlotsP!Entries, Slots!Cap, SlotsP!Cap, Slots!Cardinality, SlotsP!Cardinality

Bucket(t) == SlotsP!Good(t, Words)
Pair(w, r) == [key |-> w, val |-> r]

LEMMA NewBucket ==
    /\ Bucket(Slots!NewTable(BucketCap))
    /\ \A w \in Words : Slots!Find(Slots!NewTable(BucketCap), w) = NoRule
<1>1. Slots!NewTable(BucketCap) = SlotsP!NewTable(BucketCap)
  BY DEF Slots!NewTable, SlotsP!NewTable
<1>2. SlotsP!Hashed(Words) /\ BucketCap \in Nat \ {0, 1}
  BY PayloadAssumption DEF SlotsP!Hashed
<1> QED BY <1>1, <1>2, SlotsP!NewGood, SamePut DEF Bucket

LEMMA BucketKept ==
    ASSUME NEW t, Bucket(t), NEW w \in Words, NEW r \in Rules
    PROVE  /\ Bucket(Slots!Put(Slots!Grown(t), w, r))
           /\ \A x \in Words :
                 Slots!Find(Slots!Put(Slots!Grown(t), w, r), x)
                     = IF x = w THEN Pair(w, r) ELSE Slots!Find(t, x)
           /\ Slots!Find(Slots!Grown(t), w) = Slots!Find(t, w)
<1>1. SlotsP!Entry(w, r) # NoRule /\ SlotsP!Entry(w, r) = Pair(w, r)
  BY PayloadAssumption DEF SlotsP!Entry, Pair
<1>2. /\ SlotsP!Good(SlotsP!Put(SlotsP!Grown(t), w, r), Words)
      /\ \A x \in Words :
            SlotsP!Find(SlotsP!Put(SlotsP!Grown(t), w, r), x)
                = IF x = w THEN SlotsP!Entry(w, r) ELSE SlotsP!Find(t, x)
  BY <1>1, SlotsP!InsertKept DEF Bucket
<1>3. SlotsP!Find(SlotsP!Grown(t), w) = SlotsP!Find(t, w)
  BY SlotsP!GrownGood DEF Bucket
<1> QED BY <1>1, <1>2, <1>3, SamePut, SameGrown DEF Bucket

\* The patterns of a log for a masked word.
Alike(log, m, key) ==
    {i \in 1 .. Len(log) : log[i].mask = m /\ Masked(log[i].value, m) = key}

\* A bucket holds what the log says.
Filled(t, log, m) ==
    \/ t = Inactive /\ \A i \in 1 .. Len(log) : log[i].mask # m
    \/ /\ t # Inactive /\ Bucket(t)
       /\ \A key \in Words :
             Slots!Find(t, key) = IF Alike(log, m, key) = {} THEN NoRule
                                  ELSE Pair(key, FirstMostConfident(log, Alike(log, m, key)))

Logged(log) == log \in Seq(PayloadRecords) /\ Len(log) \in Nat /\ IsRuleLog(log)

PayloadInv ==
    /\ buckets = [m \in Masks |-> buckets[m]] /\ Logged(patterns)
    /\ \A m \in Masks : Filled(buckets[m], patterns, m)

LEMMA BucketActive ==
    ASSUME NEW t, Bucket(t)
    PROVE  t # Inactive
<1>1. DOMAIN t = 0 .. SlotsP!Cap(t) - 1 /\ SlotsP!Cap(t) \in Nat \ {0}
  BY DEF Bucket, SlotsP!Good, SlotsP!Sized
<1>2. 0 \in DOMAIN t
  BY <1>1
<1> QED BY <1>2 DEF Inactive

LEMMA MaskedWord ==
    ASSUME NEW w \in Words, NEW m
    PROVE  Masked(w, m) \in Words
<1>1. \A i \in 1 .. Width : (IF i \in m THEN w[i] ELSE 0) \in Bytes
  BY PayloadAssumption DEF Words
<1> QED BY <1>1 DEF Masked, Words

\* What a bucket that is there, or made now, holds.
LEMMA BucketHeld ==
    ASSUME NEW t, NEW log, NEW m, Filled(t, log, m), Logged(log)
    PROVE  LET b == IF t = Inactive THEN Slots!NewTable(BucketCap) ELSE t
           IN  Filled(b, log, m) /\ Bucket(b)
<1>1. CASE t # Inactive
  BY <1>1 DEF Filled
<1>2. CASE t = Inactive
  <2> DEFINE b == Slots!NewTable(BucketCap)
  <2>1. Bucket(b) /\ (\A w \in Words : Slots!Find(b, w) = NoRule) /\ b # Inactive
    BY NewBucket, BucketActive
  <2> HIDE DEF b
  <2>2. \A key \in Words : Alike(log, m, key) = {}
    <3>1. \A i \in 1 .. Len(log) : log[i].mask # m
      <4>1. ~Bucket(t)
        BY <1>2, BucketActive
      <4> QED BY <4>1 DEF Filled
    <3> QED BY <3>1 DEF Alike
  <2>3. Filled(b, log, m)
    BY <2>1, <2>2 DEF Filled
  <2> QED BY <1>2, <2>1, <2>3 DEF b
<1> QED BY <1>1, <1>2

\* One pattern more, and whom it is like.
LEMMA LoggedMore ==
    ASSUME NEW log, Logged(log), NEW q \in PayloadRecords
    PROVE  LET more == Append(log, q)
               n == Len(log) + 1
           IN  /\ Logged(more)
               /\ \A m, key :
                     LET same == Alike(log, m, key)
                         isKey == m = q.mask /\ key = Masked(q.value, q.mask)
                     IN  /\ Alike(more, m, key) = IF isKey THEN same \union {n} ELSE same
                         /\ FirstMostConfident(more, Alike(more, m, key)) =
                                IF isKey THEN Claim(FirstMostConfident(log, same), q.rule)
                                ELSE FirstMostConfident(log, same)
<1> DEFINE more == Append(log, q)
           n == Len(log) + 1
<1>1. /\ log \in Seq(PayloadRecords) /\ Len(log) \in Nat /\ IsRuleLog(log) /\ q.rule \in Rules
  BY InputAssumption DEF Logged
<1>2. /\ more \in Seq(PayloadRecords) /\ Len(more) = n /\ more[n] = q
      /\ \A i \in 1 .. Len(log) : more[i] = log[i]
  BY <1>1, AppendProperties
<1>3. 1 .. n = (1 .. Len(log)) \union {n} /\ n \notin 1 .. Len(log)
  BY <1>1
<1> HIDE DEF more
<1>4. Logged(more)
  <2>1. IsRuleLog(more)
    BY <1>1, <1>2, <1>3 DEF IsRuleLog
  <2> QED BY <1>1, <1>2, <2>1 DEF Logged
<1>5. ASSUME NEW m, NEW key
      PROVE  LET same == Alike(log, m, key)
                 isKey == m = q.mask /\ key = Masked(q.value, q.mask)
             IN  /\ Alike(more, m, key) = IF isKey THEN same \union {n} ELSE same
                 /\ FirstMostConfident(more, Alike(more, m, key)) =
                        IF isKey THEN Claim(FirstMostConfident(log, same), q.rule)
                        ELSE FirstMostConfident(log, same)
  <2> DEFINE same == Alike(log, m, key)
             isKey == m = q.mask /\ key = Masked(q.value, q.mask)
  <2>1. Alike(more, m, key) = IF isKey THEN same \union {n} ELSE same
    <3> HIDE DEF n
    <3> QED BY <1>2, <1>3 DEF Alike
  <2>2. same \subseteq 1 .. Len(log)
    BY DEF Alike
  <2> HIDE DEF same, isKey
  <2>3. Longer(log, more, n, same)
    BY <1>1, <1>2, <2>2 DEF Longer
  <2>4. /\ FirstMostConfident(more, same) = FirstMostConfident(log, same)
        /\ FirstMostConfident(more, same \union {n})
               = Claim(FirstMostConfident(log, same), more[n].rule)
    BY <2>3, FirstOfMore
  <2> HIDE DEF n
  <2> QED BY <1>2, <2>1, <2>4 DEF same, isKey
<1> QED BY <1>4, <1>5 DEF more

\* A pattern that is put into its bucket, and the buckets it is not put into.
LEMMA FilledMore ==
    ASSUME NEW log, Logged(log), NEW q \in PayloadRecords,
           NEW t, Bucket(t), Filled(t, log, q.mask)
    PROVE  LET key == Masked(q.value, q.mask)
               g == Slots!Grown(t)
               old == IF Slots!Find(g, key) = NoRule THEN NoRule ELSE Slots!Find(g, key).val
           IN  Filled(Slots!Put(g, key, Claim(old, q.rule)), Append(log, q), q.mask)
<1> DEFINE key == Masked(q.value, q.mask)
           g == Slots!Grown(t)
           old == IF Slots!Find(g, key) = NoRule THEN NoRule ELSE Slots!Find(g, key).val
           r == Claim(old, q.rule)
           u == Slots!Put(g, key, r)
           more == Append(log, q)
           same == Alike(log, q.mask, key)
           n == Len(log) + 1
<1>1. key \in Words /\ q.rule \in Rules
  BY InputAssumption, MaskedWord
<1>2. /\ Logged(more)
      /\ Alike(more, q.mask, key) = same \union {n}
      /\ FirstMostConfident(more, Alike(more, q.mask, key))
             = Claim(FirstMostConfident(log, same), q.rule)
      /\ \A x : x # key => /\ Alike(more, q.mask, x) = Alike(log, q.mask, x)
                           /\ FirstMostConfident(more, Alike(more, q.mask, x))
                                  = FirstMostConfident(log, Alike(log, q.mask, x))
  BY LoggedMore
<1>3. t # Inactive /\ \A x \in Words :
          Slots!Find(t, x) = IF Alike(log, q.mask, x) = {} THEN NoRule
                             ELSE Pair(x, FirstMostConfident(log, Alike(log, q.mask, x)))
  BY BucketActive DEF Filled
<1>4. Slots!Find(g, key) = Slots!Find(t, key)
  BY <1>1, BucketKept
<1>5. old = FirstMostConfident(log, same)
  <2>1. CASE same = {}
    <3>1. Slots!Find(t, key) = NoRule
      BY <1>1, <1>3, <2>1
    <3>2. FirstMostConfident(log, same) = NoRule
      BY <2>1 DEF FirstMostConfident
    <3> QED BY <1>4, <3>1, <3>2
  <2>2. CASE same # {}
    <3> DEFINE f == FirstMostConfident(log, same)
    <3>1. Slots!Find(t, key) = Pair(key, f)
      BY <1>1, <1>3, <2>2
    <3>2. f \in Rules
      <4>1. same \subseteq 1 .. Len(log)
        BY DEF Alike
      <4> HIDE DEF same
      <4> QED BY <2>2, <4>1, FirstIsRule DEF Logged
    <3> HIDE DEF f
    <3>3. Pair(key, f) # NoRule /\ Pair(key, f).val = f
      BY <1>1, <3>2, PayloadAssumption DEF Pair
    <3> QED BY <1>4, <3>1, <3>3 DEF f
  <2> QED BY <2>1, <2>2
<1>6. r \in Rules
  <2>1. same \subseteq 1 .. Len(log)
    BY DEF Alike
  <2> HIDE DEF same, old
  <2>2. old \in Rules \union {NoRule}
    BY <1>5, <2>1, FirstIsRule DEF Logged
  <2> QED BY <1>1, <2>2 DEF Claim
<1> HIDE DEF key, r, g, old, same
<1>7. /\ Bucket(u)
      /\ \A x \in Words : Slots!Find(u, x) = IF x = key THEN Pair(key, r) ELSE Slots!Find(t, x)
  BY <1>1, <1>6, BucketKept DEF g
<1>8. u # Inactive
  BY <1>7, BucketActive
<1>9. r = Claim(FirstMostConfident(log, same), q.rule)
  BY <1>5 DEF r
<1> HIDE DEF u, more
<1>10. ASSUME NEW x \in Words
       PROVE  Slots!Find(u, x) = IF Alike(more, q.mask, x) = {} THEN NoRule
                                 ELSE Pair(x, FirstMostConfident(more, Alike(more, q.mask, x)))
  <2>1. CASE x = key
    BY <1>2, <1>7, <1>9, <2>1
  <2>2. CASE x # key
    BY <1>2, <1>3, <1>7, <2>2
  <2> QED BY <2>1, <2>2
<1>11. Filled(u, more, q.mask)
  BY <1>7, <1>8, <1>10 DEF Filled
<1> QED BY <1>11 DEF u, more, key, r, g, old

LEMMA FilledElsewhere ==
    ASSUME NEW log, Logged(log), NEW q \in PayloadRecords, NEW m, m # q.mask,
           NEW t, Filled(t, log, m)
    PROVE  Filled(t, Append(log, q), m)
<1> DEFINE more == Append(log, q)
<1>1. \A x : /\ Alike(more, m, x) = Alike(log, m, x)
             /\ FirstMostConfident(more, Alike(more, m, x))
                    = FirstMostConfident(log, Alike(log, m, x))
  BY LoggedMore
<1>2. (\A i \in 1 .. Len(log) : log[i].mask # m) => \A i \in 1 .. Len(more) : more[i].mask # m
  <2>1. /\ Len(log) \in Nat /\ Len(more) = Len(log) + 1 /\ more[Len(log) + 1] = q
        /\ \A i \in 1 .. Len(log) : more[i] = log[i]
    BY AppendProperties DEF Logged
  <2>2. \A i \in 1 .. Len(more) : i \in 1 .. Len(log) \/ i = Len(log) + 1
    BY <2>1
  <2> HIDE DEF more
  <2> QED BY <2>1, <2>2
<1> HIDE DEF more
<1>3. Filled(t, more, m)
  BY <1>1, <1>2 DEF Filled
<1> QED BY <1>3 DEF more

\* No buckets yet.
LEMMA PayloadInitGood == PayloadInit => PayloadInv
<1> SUFFICES ASSUME PayloadInit PROVE PayloadInv
  OBVIOUS
<1>1. buckets = [m \in Masks |-> Inactive] /\ patterns = <<>>
  BY DEF PayloadInit
<1>2. Len(patterns) = 0 /\ patterns \in Seq(PayloadRecords)
  BY <1>1
<1>3. Logged(patterns)
  BY <1>2 DEF Logged, IsRuleLog
<1>4. \A m \in Masks : Filled(buckets[m], patterns, m)
  BY <1>1, <1>2 DEF Filled
<1> QED BY <1>1, <1>3, <1>4 DEF PayloadInv

\* Every insertion keeps the buckets right.
LEMMA PayloadInsertGood ==
    ASSUME PayloadInv, NEW q \in PayloadRecords, PayloadInsert(q)
    PROVE  PayloadInv'
<1> DEFINE b == IF buckets[q.mask] = Inactive THEN Slots!NewTable(BucketCap) ELSE buckets[q.mask]
           key == Masked(q.value, q.mask)
           g == Slots!Grown(b)
           old == IF Slots!Find(g, key) = NoRule THEN NoRule ELSE Slots!Find(g, key).val
           u == Slots!Put(g, key, Claim(old, q.rule))
<1>1. /\ buckets = [m \in Masks |-> buckets[m]] /\ Logged(patterns) /\ q.mask \in Masks
      /\ \A m \in Masks : Filled(buckets[m], patterns, m)
  BY InputAssumption DEF PayloadInv
<1>2. Filled(b, patterns, q.mask) /\ Bucket(b)
  BY <1>1, BucketHeld
<1>3. CASE UNCHANGED payloadVars
  BY <1>3 DEF PayloadInv, payloadVars
<1>4. CASE buckets' = [buckets EXCEPT ![q.mask] = b] /\ UNCHANGED patterns
  <2> HIDE DEF b
  <2> QED BY <1>1, <1>2, <1>4 DEF PayloadInv
<1>5. CASE buckets' = [buckets EXCEPT ![q.mask] = u] /\ patterns' = Append(patterns, q)
  <2>1. Filled(u, Append(patterns, q), q.mask)
    <3> HIDE DEF b
    <3> QED BY <1>1, <1>2, FilledMore
  <2>2. \A m \in Masks : m # q.mask => Filled(buckets[m], Append(patterns, q), m)
    BY <1>1, FilledElsewhere
  <2>3. Logged(Append(patterns, q))
    BY <1>1, LoggedMore
  <2> HIDE DEF u
  <2> QED BY <1>1, <1>5, <2>1, <2>2, <2>3 DEF PayloadInv
<1> QED BY <1>3, <1>4, <1>5 DEF PayloadInsert

\* While anything else is done the buckets stay as they are.
LEMMA PayloadNext ==
    ASSUME PayloadInv, [Next]_vars
    PROVE  PayloadInv'
<1>1. CASE UNCHANGED payloadVars
  BY <1>1 DEF PayloadInv, payloadVars
<1>2. CASE LoadPayload
  <2>1. UNCHANGED payloadVars \/ \E q \in PayloadRecords : PayloadInsert(q)
    BY <1>2 DEF LoadPayload
  <2> QED BY <1>1, <2>1, PayloadInsertGood
<1>3. CASE Open \/ LoadDomain \/ LoadCidr \/ NextSection \/ NoMatcher \/ NoCapture \/ Read \/ Parse
  BY <1>1, <1>3 DEF Open, LoadDomain, LoadCidr, NextSection, NoMatcher, NoCapture, Read,
     Parse, Capturing, matchers
<1>4. CASE UNCHANGED vars
  BY <1>1, <1>4 DEF vars
<1> QED BY <1>2, <1>3, <1>4 DEF Next

-----------------------------------------------------------------------------
(* Looking up a payload.  The buckets are compared by two numbers.         *)

Indexes(f, mask, n) ==
    f = [i \in 0 .. n |-> IF i = 0 THEN 0
                          ELSE 2 * f[i - 1] + (IF Width + 1 - i \in mask THEN 0 ELSE 1)]

\* Indexing is defined, and gives numbers.
LEMMA IndexesExist ==
    ASSUME NEW mask, NEW n \in Nat
    PROVE  \E f : Indexes(f, mask, n) /\ \A i \in 0 .. n : f[i] \in Nat
<1> DEFINE T == {k \in Nat : ~\E f : Indexes(f, mask, k) /\ \A i \in 0 .. k : f[i] \in Nat}
<1>1. CASE T = {}
  BY <1>1
<1>2. CASE T # {}
  <2>1. PICK k \in T : \A l \in T : k <= l
    <3>1. T \subseteq Nat
      OBVIOUS
    <3> HIDE DEF T
    <3> QED BY <1>2, <3>1, LeastOf
  <2>2. CASE k = 0
    <3> DEFINE f == [i \in 0 .. 0 |-> 0]
    <3>1. Indexes(f, mask, 0) /\ \A i \in 0 .. 0 : f[i] \in Nat
      BY DEF Indexes
    <3> HIDE DEF f
    <3> QED BY <2>1, <2>2, <3>1
  <2>3. CASE k # 0
    <3>1. k \in Nat /\ k - 1 \in Nat /\ k - 1 \notin T
      BY <2>1, <2>3
    <3>2. PICK f : Indexes(f, mask, k - 1) /\ \A i \in 0 .. k - 1 : f[i] \in Nat
      BY <3>1
    <3> DEFINE double(x, i) == 2 * x + (IF Width + 1 - i \in mask THEN 0 ELSE 1)
               g == [i \in 0 .. k |-> IF i = k THEN double(f[k - 1], k) ELSE f[i]]
               h == [i \in 0 .. k |-> IF i = 0 THEN 0 ELSE double(g[i - 1], i)]
    <3>3. \A x \in Nat, i \in Nat : double(x, i) \in Nat
      OBVIOUS
    <3>4. \A i \in 0 .. k - 1 : f[i] = IF i = 0 THEN 0 ELSE double(f[i - 1], i)
      BY <3>2 DEF Indexes
    <3> HIDE DEF double
    <3>5. ASSUME NEW i \in 0 .. k PROVE g[i] = h[i] /\ g[i] \in Nat
      <4>1. CASE i = k
        <5>1. g[i - 1] = f[k - 1] /\ f[k - 1] \in Nat
          BY <2>3, <3>1, <3>2, <4>1
        <5> QED BY <2>3, <3>1, <3>3, <4>1, <5>1
      <4>2. CASE i # k
        <5>1. i \in 0 .. k - 1 /\ (i # 0 => i - 1 \in 0 .. k /\ i - 1 # k)
          BY <3>1, <4>2
        <5>2. g[i] = f[i] /\ (i # 0 => g[i - 1] = f[i - 1])
          BY <4>2, <5>1
        <5> QED BY <3>2, <3>4, <5>1, <5>2
      <4> QED BY <4>1, <4>2
    <3>6. g = h
      BY <3>5
    <3>7. \A i \in 0 .. k : g[i] \in Nat
      BY <3>5
    <3> HIDE DEF g
    <3>8. Indexes(g, mask, k)
      BY <3>6 DEF Indexes, double
    <3> QED BY <2>1, <3>7, <3>8
  <2> QED BY <2>2, <2>3
<1> QED BY <1>1, <1>2

LEMMA IndexNumber ==
    ASSUME NEW mask
    PROVE  mask_index(mask) \in Nat
<1> DEFINE f == CHOOSE g : Indexes(g, mask, Width)
<1>1. mask_index(mask) = f[Width]
  BY DEF mask_index, Indexes
<1>2. Width \in Nat
  BY PayloadAssumption
<1>3. PICK g : Indexes(g, mask, Width) /\ \A i \in 0 .. Width : g[i] \in Nat
  BY <1>2, IndexesExist
<1>4. Indexes(f, mask, Width)
  BY <1>3
<1> HIDE DEF f
<1> DEFINE T == {i \in 0 .. Width : f[i] \notin Nat}
<1>5. CASE T = {}
  BY <1>1, <1>2, <1>5
<1>6. CASE T # {}
  <2>1. PICK k \in T : \A l \in T : k <= l
    <3>1. T \subseteq Nat
      OBVIOUS
    <3> HIDE DEF T
    <3> QED BY <1>6, <3>1, LeastOf
  <2>2. f[k] = IF k = 0 THEN 0 ELSE 2 * f[k - 1] + (IF Width + 1 - k \in mask THEN 0 ELSE 1)
    BY <1>4 DEF Indexes
  <2>3. k # 0
    BY <2>1, <2>2
  <2>4. k - 1 \in 0 .. Width /\ k - 1 \notin T
    BY <1>2, <2>1, <2>3
  <2>5. f[k - 1] \in Nat
    BY <2>4
  <2>6. f[k] \in Nat
    BY <2>2, <2>3, <2>5
  <2> QED BY <2>1, <2>6
<1> QED BY <1>5, <1>6

LEMMA WildcardNumber ==
    ASSUME NEW m \in Masks
    PROVE  Wildcards(m) \in Nat
<1>1. Width \in Nat
  BY PayloadAssumption
<1>2. IsFiniteSet(1 .. Width) /\ Cardinality(1 .. Width) = Width
  BY <1>1, FS_Interval
<1>3. m \in SUBSET (1 .. Width)
  BY DEF Masks
<1>4. IsFiniteSet(m) /\ Cardinality(m) <= Width /\ Cardinality(m) \in Nat
  BY <1>2, <1>3, FS_Subset, FS_CardinalityType
<1> QED BY <1>1, <1>4 DEF Wildcards

\* Some bucket is preferred to all.
LEMMA PreferredExists ==
    ASSUME NEW S, S \subseteq Masks, S # {}
    PROVE  \E m \in S : \A n \in S : Preferred(m, n)
<1> DEFINE W == {Wildcards(m) : m \in S}
<1>1. W \subseteq Nat /\ W # {}
  BY WildcardNumber
<1>2. PICK w \in W : \A x \in W : w <= x
  <2> HIDE DEF W
  <2> QED BY <1>1, LeastOf
<1> DEFINE R == {m \in S : Wildcards(m) = w}
           N == {mask_index(m) : m \in R}
<1>3. N \subseteq Nat /\ N # {}
  BY <1>2, IndexNumber
<1>4. PICK k \in N : \A x \in N : k <= x
  <2> HIDE DEF N
  <2> QED BY <1>3, LeastOf
<1>5. PICK m \in R : mask_index(m) = k
  BY <1>4
<1>6. ASSUME NEW n \in S PROVE Preferred(m, n)
  <2>1. Wildcards(m) = w /\ Wildcards(n) \in Nat /\ w \in Nat /\ w <= Wildcards(n)
    BY <1>1, <1>2, <1>5, WildcardNumber
  <2>2. Wildcards(n) = w => mask_index(m) <= mask_index(n)
    BY <1>4, <1>5
  <2> HIDE DEF W, R, N
  <2> QED BY <2>1, <2>2 DEF Preferred
<1> QED BY <1>5, <1>6

\* A lookup answers with the tightest of what was loaded.
LEMMA PayloadRight ==
    ASSUME PayloadInv, NEW w \in Words
    PROVE  PayloadLookup(w, Width) \in TightestRules(w)
<1> DEFINE like(m) == Alike(patterns, m, Masked(w, m))
           hits == {m \in Masks : buckets[m] # Inactive /\ Slots!Find(buckets[m], Masked(w, m)) # NoRule}
           fits == {i \in 1 .. Len(patterns) :
                        Masked(w, patterns[i].mask) = Masked(patterns[i].value, patterns[i].mask)}
           tight == {i \in fits : \A j \in fits :
                         Wildcards(patterns[i].mask) <= Wildcards(patterns[j].mask)}
           alike(i) == {j \in tight : patterns[j].mask = patterns[i].mask}
<1>1. /\ Logged(patterns) /\ Len(patterns) \in Nat /\ IsRuleLog(patterns)
      /\ \A m \in Masks : Filled(buckets[m], patterns, m)
  BY DEF PayloadInv, Logged
<1>2. \A i \in 1 .. Len(patterns) : patterns[i].mask \in Masks
  BY <1>1, InputAssumption, ElementOfSeq DEF Logged
<1>3. ASSUME NEW m \in Masks
      PROVE  /\ m \in hits <=> like(m) # {}
             /\ m \in hits => Slots!Find(buckets[m], Masked(w, m)).val
                                  = FirstMostConfident(patterns, like(m))
  <2> DEFINE key == Masked(w, m)
             f == FirstMostConfident(patterns, like(m))
  <2>1. key \in Words /\ Filled(buckets[m], patterns, m)
    BY <1>1, MaskedWord
  <2>2. CASE buckets[m] # Inactive
    <3>1. Slots!Find(buckets[m], key) = IF like(m) = {} THEN NoRule ELSE Pair(key, f)
      BY <2>1, <2>2 DEF Filled
    <3>2. like(m) # {} => Pair(key, f) # NoRule
      <4>1. like(m) \subseteq 1 .. Len(patterns)
        BY DEF Alike
      <4> HIDE DEF like
      <4>2. like(m) # {} => f \in Rules
        BY <1>1, <4>1, FirstIsRule
      <4> HIDE DEF f, key
      <4> QED BY <2>1, <4>2, PayloadAssumption DEF Pair
    <3>3. Pair(key, f).val = f
      BY DEF Pair
    <3> HIDE DEF key, f, like
    <3> QED BY <2>2, <3>1, <3>2, <3>3 DEF key, f
  <2>3. CASE buckets[m] = Inactive
    <3>1. ~Bucket(buckets[m])
      BY <2>3, BucketActive
    <3>2. \A i \in 1 .. Len(patterns) : patterns[i].mask # m
      BY <2>1, <3>1 DEF Filled
    <3>3. like(m) = {}
      BY <3>2 DEF Alike
    <3> QED BY <2>3, <3>3
  <2> QED BY <2>2, <2>3
<1>4. ASSUME NEW m \in Masks, NEW i
      PROVE  i \in like(m) <=> i \in fits /\ patterns[i].mask = m
  BY DEF Alike
<1>5. /\ PayloadLookup(w, Width) =
             IF hits = {} THEN NoRule
             ELSE Slots!Find(buckets[CHOOSE m \in hits : \A n \in hits : Preferred(m, n)],
                      Masked(w, CHOOSE m \in hits : \A n \in hits : Preferred(m, n))).val
      /\ TightestRules(w) =
             IF fits = {} THEN {NoRule} ELSE {FirstMostConfident(patterns, alike(i)) : i \in tight}
  <2>1. ~(Width < Width)
    BY PayloadAssumption
  <2> QED BY <2>1 DEF PayloadLookup, TightestRules
<1>6. fits \subseteq 1 .. Len(patterns) /\ hits \subseteq Masks
  OBVIOUS
<1> HIDE DEF like, hits, fits
<1>7. CASE hits = {}
  <2>1. fits = {}
    <3> SUFFICES ASSUME NEW i \in fits PROVE FALSE
      OBVIOUS
    <3>1. patterns[i].mask \in Masks /\ i \in like(patterns[i].mask)
      BY <1>2, <1>4, <1>6
    <3> QED BY <1>3, <1>7, <3>1
  <2> QED BY <1>5, <1>7, <2>1
<1>8. CASE hits # {}
  <2> DEFINE best == CHOOSE m \in hits : \A n \in hits : Preferred(m, n)
  <2>1. best \in hits /\ \A n \in hits : Preferred(best, n)
    BY <1>6, <1>8, PreferredExists
  <2>2. PayloadLookup(w, Width) = Slots!Find(buckets[best], Masked(w, best)).val
    BY <1>5, <1>8
  <2> HIDE DEF best
  <2>3. best \in Masks /\ like(best) # {}
    BY <1>3, <1>6, <2>1
  <2>4. PayloadLookup(w, Width) = FirstMostConfident(patterns, like(best))
    BY <1>3, <2>1, <2>2, <2>3
  <2>5. ASSUME NEW i \in like(best) PROVE i \in tight
    <3>1. i \in fits /\ patterns[i].mask = best
      BY <1>4, <2>3
    <3>2. ASSUME NEW j \in fits PROVE Wildcards(best) <= Wildcards(patterns[j].mask)
      <4>1. patterns[j].mask \in Masks /\ j \in like(patterns[j].mask)
        BY <1>2, <1>4, <1>6
      <4>2. Preferred(best, patterns[j].mask)
        BY <1>3, <2>1, <4>1
      <4> QED BY <2>3, <4>1, <4>2, WildcardNumber DEF Preferred
    <3> QED BY <3>1, <3>2
  <2>6. PICK i : i \in like(best)
    BY <2>3
  <2>7. i \in tight /\ patterns[i].mask = best /\ fits # {}
    BY <1>4, <2>3, <2>5, <2>6
  <2>8. alike(i) = like(best)
    <3>1. \A j \in alike(i) : j \in like(best)
      BY <1>4, <2>3, <2>7
    <3>2. \A j \in like(best) : j \in alike(i)
      BY <1>4, <2>3, <2>5, <2>7
    <3> QED BY <3>1, <3>2
  <2> QED BY <1>5, <2>4, <2>7, <2>8
<1> QED BY <1>7, <1>8

\* Every word gets a rule of a tightest loaded pattern that matches it, the most
\* confident one, and a payload that was cut short gets none.
THEOREM TightestPattern == Spec => []TightestPayload
<1>1. PayloadInv => TightestPayload
  <2> SUFFICES ASSUME PayloadInv, NEW w \in Words
               PROVE  /\ PayloadLookup(w, Width) \in TightestRules(w)
                      /\ PayloadLookup(w, Width - 1) = NoRule
    BY DEF TightestPayload
  <2>1. Width - 1 < Width
    BY PayloadAssumption
  <2>2. PayloadLookup(w, Width - 1) = NoRule
    BY <2>1 DEF PayloadLookup
  <2> QED BY <2>2, PayloadRight
<1>2. Init => PayloadInv
  BY PayloadInitGood DEF Init
<1> QED BY <1>1, <1>2, PayloadNext, PTL DEF Spec

-----------------------------------------------------------------------------
(* The trie of names.  Its edges are a probe table.                        *)

EdgesP == INSTANCE ProbeTableProofs WITH
    Home <- EdgeHome, MaxCap <- MaxEdgeCap, Empty <- NoRule

LEMMA SameEdgePut ==
    ASSUME NEW t, NEW k, NEW v
    PROVE  Edges!Put(t, k, v) = EdgesP!Put(t, k, v) /\ Edges!Find(t, k) = EdgesP!Find(t, k)
<1>1. Edges!Slot(t, k) = EdgesP!Slot(t, k)
  BY DEF Edges!Slot, EdgesP!Slot, Edges!Cap, EdgesP!Cap, Edges!Cardinality, EdgesP!Cardinality
<1> QED BY <1>1 DEF Edges!Put, EdgesP!Put, Edges!Find, EdgesP!Find

LEMMA SameEdgesGrown ==
    ASSUME NEW t
    PROVE  Edges!Grown(t) = EdgesP!Grown(t)
<1>1. Edges!Doubled(t) = EdgesP!Doubled(t)
  BY DEF Edges!Doubled, EdgesP!Doubled, Edges!NewTable, EdgesP!NewTable, Edges!Put, EdgesP!Put,
     Edges!Slot, EdgesP!Slot, Edges!Cap, EdgesP!Cap, Edges!Cardinality, EdgesP!Cardinality
<1> QED BY <1>1 DEF Edges!Grown, EdgesP!Grown, Edges!Crowded, EdgesP!Crowded, Edges!Entries,
    EdgesP!Entries, Edges!Cap, EdgesP!Cap, Edges!Cardinality, EdgesP!Cardinality

Numbers == 1 .. MaxTrieNodes
Hashes == {LabelHash[l] : l \in Labels}
EdgeKeys == Numbers \X Hashes
EdgeTable(t) == EdgesP!Good(t, EdgeKeys)
Child(k, n) == [key |-> k, val |-> n]

LEMMA EdgeKey ==
    ASSUME NEW k \in EdgeKeys, NEW n \in Numbers
    PROVE  EdgeHome(k) \in Nat /\ Child(k, n) # NoRule
<1>1. PICK p \in Numbers, l \in Labels : k = <<p, LabelHash[l]>>
  BY DEF EdgeKeys, Hashes
<1>2. EdgeHome(<<p, LabelHash[l]>>) \in Nat /\ [key |-> <<p, LabelHash[l]>>, val |-> n] # NoRule
  BY TrieAssumption DEF Numbers
<1> QED BY <1>1, <1>2 DEF Child

LEMMA NewEdges ==
    /\ EdgeTable(Edges!NewTable(EdgeCap))
    /\ \A k \in EdgeKeys : Edges!Find(Edges!NewTable(EdgeCap), k) = NoRule
<1>1. Edges!NewTable(EdgeCap) = EdgesP!NewTable(EdgeCap)
  BY DEF Edges!NewTable, EdgesP!NewTable
<1>2. EdgesP!Hashed(EdgeKeys) /\ EdgeCap \in Nat \ {0, 1}
  <2>1. 1 \in Numbers
    BY TrieAssumption DEF Numbers
  <2> QED BY <2>1, EdgeKey, TrieAssumption DEF EdgesP!Hashed
<1> QED BY <1>1, <1>2, EdgesP!NewGood, SameEdgePut DEF EdgeTable

LEMMA EdgesKept ==
    ASSUME NEW t, EdgeTable(t), NEW k \in EdgeKeys, NEW n \in Numbers
    PROVE  /\ EdgeTable(Edges!Put(Edges!Grown(t), k, n))
           /\ \A x \in EdgeKeys :
                 Edges!Find(Edges!Put(Edges!Grown(t), k, n), x)
                     = IF x = k THEN Child(k, n) ELSE Edges!Find(t, x)
<1>1. EdgesP!Entry(k, n) # NoRule /\ EdgesP!Entry(k, n) = Child(k, n)
  BY EdgeKey DEF EdgesP!Entry, Child
<1>2. /\ EdgesP!Good(EdgesP!Put(EdgesP!Grown(t), k, n), EdgeKeys)
      /\ \A x \in EdgeKeys :
            EdgesP!Find(EdgesP!Put(EdgesP!Grown(t), k, n), x)
                = IF x = k THEN EdgesP!Entry(k, n) ELSE EdgesP!Find(t, x)
  BY <1>1, EdgesP!InsertKept DEF EdgeTable
<1> QED BY <1>1, <1>2, SameEdgePut, SameEdgesGrown DEF EdgeTable

\* What an edge holds is what is found under its key.
LEMMA EdgeHeld ==
    ASSUME NEW t, EdgeTable(t), NEW i \in DOMAIN t, t[i] # NoRule
    PROVE  t[i].key \in EdgeKeys /\ Edges!Find(t, t[i].key) = t[i]
<1>1. i \in EdgesP!Entries(t)
  BY DEF EdgesP!Entries
<1> QED BY <1>1, EdgesP!FindHeld, SameEdgePut DEF EdgeTable, EdgesP!Good

-----------------------------------------------------------------------------
(* Paths, from the root on. *)

Paths == Seq(Hashes)
Start(p, i) == SubSeq(p, 1, i)

LEMMA StartOf ==
    ASSUME NEW p \in Paths, NEW i \in 0 .. Len(p)
    PROVE  /\ Start(p, i) \in Paths /\ Len(Start(p, i)) = i
           /\ i # 0 => /\ Start(p, i) = Append(Start(p, i - 1), p[i]) /\ p[i] \in Hashes
                       /\ Start(p, i - 1) \in Paths
           /\ Start(p, 0) = <<>> /\ Start(p, Len(p)) = p
<1>1. Len(p) \in Nat /\ \A j \in 1 .. Len(p) : p[j] \in Hashes
  BY LenProperties, ElementOfSeq DEF Paths
<1>2. ASSUME NEW j \in 0 .. Len(p)
      PROVE  /\ Start(p, j) \in Paths /\ Len(Start(p, j)) = j
             /\ \A l \in 1 .. j : Start(p, j)[l] = p[l]
  <2>1. j \in Int /\ 1 \in Int /\ j - 1 + 1 = j /\ (1 <= j \/ j = 0)
        /\ \A l \in 1 .. j : p[l] \in Hashes
    BY <1>1
  <2>2. /\ SubSeq(p, 1, j) \in Seq(Hashes)
        /\ Len(SubSeq(p, 1, j)) = IF 1 <= j THEN j - 1 + 1 ELSE 0
        /\ \A l \in 1 .. j - 1 + 1 : SubSeq(p, 1, j)[l] = p[1 + l - 1]
    BY <2>1, SubSeqProperties
  <2>3. \A l \in 1 .. j : 1 + l - 1 = l
    BY <1>1
  <2> QED BY <2>1, <2>2, <2>3 DEF Start, Paths
<1>3. Start(p, 0) = <<>> /\ Start(p, Len(p)) = p
  BY SubSeqFull, SubSeqEmpty DEF Start, Paths
<1>4. ASSUME i # 0
      PROVE  Start(p, i) = Append(Start(p, i - 1), p[i]) /\ p[i] \in Hashes /\ Start(p, i - 1) \in Paths
  <2>1. i - 1 \in 0 .. Len(p) /\ i \in 1 .. Len(p) /\ (i - 1) + 1 = i
    BY <1>1, <1>4
  <2> DEFINE a == Start(p, i - 1)
             b == Append(a, p[i])
  <2>2. a \in Paths /\ Len(a) = i - 1 /\ p[i] \in Hashes /\ \A l \in 1 .. i - 1 : a[l] = p[l]
    BY <1>1, <1>2, <2>1
  <2> HIDE DEF a
  <2>3. b \in Paths /\ Len(b) = i /\ b[i] = p[i] /\ \A l \in 1 .. i - 1 : b[l] = p[l]
    BY <2>1, <2>2, AppendProperties DEF Paths
  <2>4. Start(p, i) \in Paths /\ Len(Start(p, i)) = i /\ \A l \in 1 .. i : Start(p, i)[l] = p[l]
    BY <1>2
  <2>5. \A l \in 1 .. i : l = i \/ l \in 1 .. i - 1
    BY <1>1
  <2> HIDE DEF b
  <2>6. \A l \in 1 .. Len(b) : b[l] = Start(p, i)[l]
    BY <2>3, <2>4, <2>5
  <2>7. b = Start(p, i)
    BY <2>3, <2>4, <2>6, SeqEqual DEF Paths
  <2> QED BY <2>2, <2>7 DEF b, a
<1> QED BY <1>2, <1>3, <1>4

\* The labels of a name are labels.
LEMMA InwardPath ==
    ASSUME NEW d \in Names
    PROVE  Inward(d) \in Paths
<1> DEFINE full == {i \in 1 .. Len(d) : d[i] # NoLabel}
           n == IF full = {} THEN 0 ELSE CHOOSE i \in full : \A j \in full : j <= i
           s == split_labels(d)
<1>1. Len(d) \in Nat /\ \A i \in full : d[i] \in Labels
  BY LenProperties, ElementOfSeq DEF Names
<1>2. s = IF Cardinality(full) = n /\ n <= MAX_LABELS THEN SubSeq(d, 1, n) ELSE <<>>
  BY DEF split_labels
<1>3. full # {} => n \in full /\ \A j \in full : j <= n
  <2> SUFFICES ASSUME full # {} PROVE \E i \in full : \A j \in full : j <= i
    OBVIOUS
  <2>1. full \subseteq Nat /\ \A j \in full : j <= Len(d)
    BY <1>1
  <2> HIDE DEF full
  <2> QED BY <1>1, <2>1, GreatestOf
<1>4. n \in Nat
  BY <1>1, <1>3
<1>5. full \subseteq 1 .. n
  <2> SUFFICES ASSUME NEW i \in full PROVE i \in 1 .. n
    OBVIOUS
  <2>0. i \in Nat /\ 1 <= i
    BY <1>1
  <2> HIDE DEF full, n
  <2>1. i \in Nat /\ 1 <= i /\ i <= n
    BY <1>3, <2>0
  <2> QED BY <1>4, <2>1
<1> HIDE DEF full, n
<1>6. ASSUME Cardinality(full) = n PROVE full = 1 .. n
  <2>1. IsFiniteSet(1 .. n) /\ Cardinality(1 .. n) = n
    BY <1>4, FS_Interval
  <2>2. full \in SUBSET (1 .. n)
    BY <1>5
  <2> QED BY <1>6, <2>1, <2>2, FS_Subset
<1>7. s \in Seq(Labels)
  <2>1. CASE s = <<>>
    BY <2>1
  <2>2. CASE s = SubSeq(d, 1, n) /\ Cardinality(full) = n
    <3>1. \A i \in 1 .. n : d[i] \in Labels
      BY <1>1, <1>6, <2>2
    <3>2. n \in Int /\ 1 \in Int
      BY <1>4
    <3> QED BY <2>2, <3>1, <3>2, SubSeqProperties
  <2> QED BY <1>2, <2>1, <2>2
<1> HIDE DEF s
<1>8. Len(s) \in Nat /\ \A i \in 1 .. Len(s) : s[Len(s) + 1 - i] \in Labels
  <2>1. Len(s) \in Nat
    BY <1>7, LenProperties
  <2>2. \A i \in 1 .. Len(s) : Len(s) + 1 - i \in 1 .. Len(s)
    BY <2>1
  <2> QED BY <1>7, <2>1, <2>2, ElementOfSeq
<1>9. [i \in 1 .. Len(s) |-> LabelHash[s[Len(s) + 1 - i]]] \in [1 .. Len(s) -> Hashes]
  BY <1>8 DEF Hashes
<1>10. Inward(d) \in [1 .. Len(s) -> Hashes]
  BY <1>9 DEF Inward, s
<1> QED BY <1>8, <1>10 DEF Paths

-----------------------------------------------------------------------------
(* The trie: a node that can be reached has one path, and the edges of a   *)
(* node lead to the paths that are one label longer.  P gives the paths of *)
(* the nodes that can be reached; a node whose edge found no memory cannot. *)

\* Paths of some of m nodes.
Tree(P, m) ==
    /\ m \in Nat /\ m <= MaxTrieNodes /\ DOMAIN P \subseteq 1 .. m
    /\ Root \in DOMAIN P /\ P[Root] = <<>>
    /\ \A n \in DOMAIN P : P[n] \in Paths
    /\ \A n, o \in DOMAIN P : P[n] = P[o] => n = o
    /\ \A n \in DOMAIN P : n # Root => \E p \in DOMAIN P, h \in Hashes : P[n] = Append(P[p], h)

\* The edge <<p, h>> of table t.
Edge(t, P, p, h) ==
    \/ /\ Edges!Find(t, <<p, h>>) = NoRule
       /\ p \in DOMAIN P => \A n \in DOMAIN P : P[n] # Append(P[p], h)
    \/ /\ p \in DOMAIN P
       /\ \E n \in DOMAIN P :
              P[n] = Append(P[p], h) /\ Edges!Find(t, <<p, h>>) = Child(<<p, h>>, n)

Linked(t, P) == EdgeTable(t) /\ \A p \in Numbers, h \in Hashes : Edge(t, P, p, h)

\* A new node under p.
Under(P, new, p, h) ==
    [n \in (DOMAIN P) \union {new} |-> IF n = new THEN Append(P[p], h) ELSE P[n]]

LEMMA TreeGrows ==
    ASSUME NEW P, NEW m, Tree(P, m), m # MaxTrieNodes,
           NEW p \in DOMAIN P, NEW h \in Hashes, \A n \in DOMAIN P : P[n] # Append(P[p], h)
    PROVE  Tree(Under(P, m + 1, p, h), m + 1)
<1> DEFINE Q == Under(P, m + 1, p, h)
           new == m + 1
           path == Append(P[p], h)
<1>1. /\ m \in Nat /\ m < MaxTrieNodes /\ DOMAIN P \subseteq 1 .. m
      /\ Root \in DOMAIN P /\ P[Root] = <<>> /\ \A n \in DOMAIN P : P[n] \in Paths
      /\ \A n, o \in DOMAIN P : P[n] = P[o] => n = o
      /\ \A n \in DOMAIN P : n # Root => \E r \in DOMAIN P, g \in Hashes : P[n] = Append(P[r], g)
  BY TrieAssumption DEF Tree
<1>2. new \notin DOMAIN P /\ new # Root /\ new \in Nat /\ new <= MaxTrieNodes
      /\ 1 .. m \subseteq 1 .. new /\ new \in 1 .. new
  BY <1>1, TrieAssumption DEF Root
<1>3. path \in Paths
  BY <1>1, AppendProperties DEF Paths
<1> HIDE DEF new, path
<1>4. /\ DOMAIN Q = (DOMAIN P) \union {new} /\ Q[new] = path
      /\ \A n \in DOMAIN P : Q[n] = P[n]
  BY <1>2 DEF Under, path, new
<1> HIDE DEF Q
<1>5. \A n \in DOMAIN P : P[n] # path
  BY DEF path
<1>6. ASSUME NEW n \in DOMAIN Q PROVE Q[n] \in Paths
  BY <1>1, <1>3, <1>4
<1>7. ASSUME NEW n \in DOMAIN Q, NEW o \in DOMAIN Q, Q[n] = Q[o] PROVE n = o
  BY <1>1, <1>4, <1>5, <1>7
<1>8. ASSUME NEW n \in DOMAIN Q, n # Root
      PROVE  \E r \in DOMAIN Q, g \in Hashes : Q[n] = Append(Q[r], g)
  <2>1. CASE n = new
    BY <1>4, <2>1 DEF path
  <2>2. CASE n # new
    <3>1. n \in DOMAIN P /\ Q[n] = P[n]
      BY <1>4, <2>2
    <3>2. PICK r \in DOMAIN P, g \in Hashes : P[n] = Append(P[r], g)
      BY <1>1, <1>8, <3>1
    <3> QED BY <1>4, <3>1, <3>2
  <2> QED BY <2>1, <2>2
<1>9. Root \in DOMAIN Q /\ Q[Root] = <<>> /\ DOMAIN Q \subseteq 1 .. new
  BY <1>1, <1>2, <1>4
<1>10. Tree(Q, new)
  BY <1>2, <1>6, <1>7, <1>8, <1>9 DEF Tree
<1> QED BY <1>10 DEF Q, new

\* What is longer than the new path is not there.
LEMMA NothingBelow ==
    ASSUME NEW P, NEW m, Tree(P, m), NEW path \in Paths, \A n \in DOMAIN P : P[n] # path,
           NEW n \in DOMAIN P, NEW h \in Hashes
    PROVE  P[n] # Append(path, h)
<1> SUFFICES ASSUME P[n] = Append(path, h) PROVE FALSE
  OBVIOUS
<1>1. P[n] # <<>>
  BY AppendProperties DEF Paths
<1>2. n # Root
  BY <1>1 DEF Tree
<1>3. PICK r \in DOMAIN P, g \in Hashes : P[n] = Append(P[r], g)
  BY <1>2 DEF Tree
<1>4. P[r] \in Paths
  BY DEF Tree
<1>5. Append(P[r], g) = Append(path, h) /\ P[r] \in Seq(Hashes) /\ path \in Seq(Hashes)
  BY <1>3, <1>4 DEF Paths
<1>6. P[r] = path
  BY <1>5, AppendInjective
<1> QED BY <1>6

\* A node and its edge are made.
LEMMA LinkNew ==
    ASSUME NEW P, NEW m, Tree(P, m), m # MaxTrieNodes, NEW t, Linked(t, P),
           NEW p \in DOMAIN P, NEW h \in Hashes, \A n \in DOMAIN P : P[n] # Append(P[p], h)
    PROVE  Linked(Edges!Put(Edges!Grown(t), <<p, h>>, m + 1), Under(P, m + 1, p, h))
<1> DEFINE Q == Under(P, m + 1, p, h)
           new == m + 1
           path == Append(P[p], h)
           u == Edges!Put(Edges!Grown(t), <<p, h>>, new)
<1>1. m \in Nat /\ DOMAIN P \subseteq Numbers /\ new \in Numbers /\ new \notin DOMAIN P
  BY TrieAssumption DEF Tree, Numbers
<1>2. <<p, h>> \in EdgeKeys
  BY <1>1 DEF EdgeKeys
<1>3. \A n \in DOMAIN P : P[n] \in Paths
  BY DEF Tree
<1>4. path \in Paths
  BY <1>3, AppendProperties DEF Paths
<1>5. /\ EdgeTable(u)
      /\ \A x \in EdgeKeys : Edges!Find(u, x) = IF x = <<p, h>> THEN Child(<<p, h>>, new)
                                                ELSE Edges!Find(t, x)
  BY <1>1, <1>2, EdgesKept DEF Linked
<1> HIDE DEF u, new
<1>6. /\ DOMAIN Q = (DOMAIN P) \union {new} /\ Q[new] = path
      /\ \A n \in DOMAIN P : Q[n] = P[n]
  BY <1>1 DEF Under, new
<1> HIDE DEF Q
<1>7. ASSUME NEW r \in Numbers, NEW g \in Hashes
      PROVE  Edge(u, Q, r, g)
  <2>1. <<r, g>> \in EdgeKeys /\ Edge(t, P, r, g)
    BY DEF EdgeKeys, Linked
  <2>2. CASE r = p /\ g = h
    <3>1. Edges!Find(u, <<r, g>>) = Child(<<r, g>>, new) /\ Q[new] = Append(Q[r], g) /\ r \in DOMAIN Q
      BY <1>5, <1>6, <2>1, <2>2
    <3> QED BY <1>6, <3>1 DEF Edge
  <2>3. CASE ~(r = p /\ g = h)
    <3>1. Edges!Find(u, <<r, g>>) = Edges!Find(t, <<r, g>>)
      BY <1>5, <2>1, <2>3
    <3>2. CASE /\ Edges!Find(t, <<r, g>>) = NoRule
               /\ r \in DOMAIN P => \A n \in DOMAIN P : P[n] # Append(P[r], g)
      <4>1. ASSUME r \in DOMAIN Q, NEW n \in DOMAIN Q, Q[n] = Append(Q[r], g) PROVE FALSE
        <5>1. CASE r \in DOMAIN P /\ n \in DOMAIN P
          BY <1>6, <3>2, <4>1, <5>1
        <5>2. CASE r \in DOMAIN P /\ n = new
          <6>1. Append(P[p], h) = Append(P[r], g) /\ P[r] \in Paths /\ P[p] \in Paths
            BY <1>3, <1>6, <4>1, <5>2
          <6>2. P[p] = P[r] /\ h = g
            BY <6>1, AppendInjective DEF Paths
          <6> QED BY <2>3, <5>2, <6>2 DEF Tree
        <5>3. CASE r = new /\ n \in DOMAIN P
          <6>1. P[n] = Append(path, g)
            BY <1>6, <4>1, <5>3
          <6> HIDE DEF path
          <6>2. \A o \in DOMAIN P : P[o] # path
            BY DEF path
          <6> QED BY <1>4, <5>3, <6>1, <6>2, NothingBelow
        <5>4. CASE r = new /\ n = new
          <6> HIDE DEF path
          <6>1. path = Append(path, g)
            BY <1>6, <4>1, <5>4
          <6>2. Len(path) \in Nat /\ Len(Append(path, g)) = Len(path) + 1
            BY <1>4, LenProperties, AppendProperties DEF Paths
          <6>3. Len(path) = Len(path) + 1
            BY <6>1, <6>2
          <6> QED BY <6>2, <6>3
        <5> QED BY <1>6, <4>1, <5>1, <5>2, <5>3, <5>4
      <4> QED BY <3>1, <3>2, <4>1 DEF Edge
    <3>3. CASE /\ r \in DOMAIN P
               /\ \E n \in DOMAIN P :
                      P[n] = Append(P[r], g) /\ Edges!Find(t, <<r, g>>) = Child(<<r, g>>, n)
      <4>1. PICK n \in DOMAIN P :
                P[n] = Append(P[r], g) /\ Edges!Find(t, <<r, g>>) = Child(<<r, g>>, n)
        BY <3>3
      <4>2. n \in DOMAIN Q /\ r \in DOMAIN Q /\ Q[n] = Append(Q[r], g)
        BY <1>6, <3>3, <4>1
      <4> QED BY <3>1, <4>1, <4>2 DEF Edge
    <3> QED BY <2>1, <3>2, <3>3 DEF Edge
  <2> QED BY <2>2, <2>3
<1>8. Linked(u, Q)
  BY <1>5, <1>7 DEF Linked
<1> QED BY <1>8 DEF u, Q, new

-----------------------------------------------------------------------------
(* What the nodes hold. *)

TrieNodes == [exact : Rules \union {NoRule}, suffix : Rules \union {NoRule}]
Blank == [exact |-> NoRule, suffix |-> NoRule]

NameLog(log) == log \in Seq(DomainRecords) /\ Len(log) \in Nat /\ IsRuleLog(log)

\* The rules of a log for a path: the exact ones, or the others.
OfPath(log, path, exact) ==
    {i \in 1 .. Len(log) : log[i].exact = exact /\ Inward(log[i].name) = path}

\* A name that was loaded has its node.
Rooms(log, P) ==
    \A i \in 1 .. Len(log) :
        Inward(log[i].name) # <<>> /\ \E n \in DOMAIN P : P[n] = Inward(log[i].name)

\* A node holds the most confident of the rules of its path.
Holds(N, log, P) ==
    \A n \in DOMAIN P : /\ N[n].exact = FirstMostConfident(log, OfPath(log, P[n], TRUE))
                        /\ N[n].suffix = FirstMostConfident(log, OfPath(log, P[n], FALSE))

TrieOf(t, N, log, P) ==
    /\ N \in Seq(TrieNodes) /\ Tree(P, Len(N)) /\ Linked(t, P)
    /\ NameLog(log) /\ Rooms(log, P) /\ Holds(N, log, P)

TrieInv == \E P : TrieOf(edges, nodes, names, P)

\* A node that is added, with an edge or without.
LEMMA NodeAdded ==
    ASSUME NEW t, NEW N, NEW log, NEW P, TrieOf(t, N, log, P), Len(N) # MaxTrieNodes
    PROVE  LET M == Append(N, Blank)
               new == Len(N) + 1
           IN  /\ Len(M) = new
               /\ TrieOf(t, M, log, P)
               /\ \A p \in DOMAIN P, h \in Hashes :
                     (\A n \in DOMAIN P : P[n] # Append(P[p], h)) =>
                         TrieOf(Edges!Put(Edges!Grown(t), <<p, h>>, new), M, log, Under(P, new, p, h))
<1> DEFINE M == Append(N, Blank)
           new == Len(N) + 1
<1>1. /\ N \in Seq(TrieNodes) /\ Tree(P, Len(N)) /\ Linked(t, P)
      /\ NameLog(log) /\ Rooms(log, P) /\ Holds(N, log, P)
      /\ Len(N) \in Nat /\ Len(N) < MaxTrieNodes /\ DOMAIN P \subseteq 1 .. Len(N)
  BY TrieAssumption DEF TrieOf, Tree
<1>2. Blank \in TrieNodes
  BY DEF Blank, TrieNodes
<1>3. /\ M \in Seq(TrieNodes) /\ Len(M) = new /\ M[new] = Blank
      /\ \A n \in 1 .. Len(N) : M[n] = N[n]
  BY <1>1, <1>2, AppendProperties
<1> HIDE DEF M
<1>4. Tree(P, new)
  <2>1. new \in Nat /\ new <= MaxTrieNodes /\ DOMAIN P \subseteq 1 .. new
    BY <1>1, TrieAssumption
  <2> QED BY <1>1, <2>1 DEF Tree
<1>5. Holds(M, log, P)
  BY <1>1, <1>3 DEF Holds
<1>6. TrieOf(t, M, log, P)
  BY <1>1, <1>3, <1>4, <1>5 DEF TrieOf
<1>7. ASSUME NEW p \in DOMAIN P, NEW h \in Hashes, \A n \in DOMAIN P : P[n] # Append(P[p], h)
      PROVE  TrieOf(Edges!Put(Edges!Grown(t), <<p, h>>, new), M, log, Under(P, new, p, h))
  <2> DEFINE Q == Under(P, new, p, h)
             u == Edges!Put(Edges!Grown(t), <<p, h>>, new)
             path == Append(P[p], h)
  <2>1. Tree(Q, new) /\ Linked(u, Q)
    BY <1>1, <1>7, TreeGrows, LinkNew
  <2>2. /\ DOMAIN Q = (DOMAIN P) \union {new} /\ Q[new] = path
        /\ \A n \in DOMAIN P : Q[n] = P[n]
    <3>1. new \notin DOMAIN P
      BY <1>1
    <3> HIDE DEF new
    <3> QED BY <3>1 DEF Under
  <2> HIDE DEF Q, u, path
  <2>3. Rooms(log, Q)
    BY <1>1, <2>2 DEF Rooms
  <2>4. \A e : OfPath(log, path, e) = {}
    <3>1. \A n \in DOMAIN P : P[n] # path
      BY <1>7 DEF path
    <3> QED BY <1>1, <3>1 DEF Rooms, OfPath
  <2>5. Holds(M, log, Q)
    <3> SUFFICES ASSUME NEW n \in DOMAIN Q
                 PROVE  /\ M[n].exact = FirstMostConfident(log, OfPath(log, Q[n], TRUE))
                        /\ M[n].suffix = FirstMostConfident(log, OfPath(log, Q[n], FALSE))
      BY DEF Holds
    <3>1. CASE n = new
      <4>1. M[n].exact = NoRule /\ M[n].suffix = NoRule /\ Q[n] = path
        BY <1>3, <2>2, <3>1 DEF Blank
      <4> QED BY <2>4, <4>1 DEF FirstMostConfident
    <3>2. CASE n # new
      <4>1. n \in DOMAIN P /\ Q[n] = P[n]
        BY <2>2, <3>2
      <4> QED BY <1>5, <4>1 DEF Holds
    <3> QED BY <3>1, <3>2
  <2>6. TrieOf(u, M, log, Q)
    BY <1>1, <1>3, <2>1, <2>3, <2>5 DEF TrieOf
  <2> QED BY <2>6 DEF Q, u
<1> QED BY <1>3, <1>6, <1>7 DEF M

\* The state of an insertion that has come down to a path, or got stuck.
IsState(s) == s = [nodes |-> s.nodes, edges |-> s.edges, cur |-> s.cur]
CameTo(s, log, path) ==
    /\ IsState(s)
    /\ \E P : /\ TrieOf(s.edges, s.nodes, log, P)
              /\ s.cur = EMPTY \/ (s.cur \in DOMAIN P /\ P[s.cur] = path)

\* One label further down.
LEMMA StepKeeps ==
    ASSUME NEW s, NEW log, NEW path, CameTo(s, log, path), NEW h \in Hashes
    PROVE  CameTo(Step(s, h), log, Append(path, h))
<1> DEFINE e == Edges!Find(s.edges, <<s.cur, h>>)
           new == Len(s.nodes) + 1
           stuck == [s EXCEPT !.cur = EMPTY]
<1>1. s = [nodes |-> s.nodes, edges |-> s.edges, cur |-> s.cur]
  BY DEF CameTo, IsState
<1>2. PICK P : /\ TrieOf(s.edges, s.nodes, log, P)
               /\ s.cur = EMPTY \/ (s.cur \in DOMAIN P /\ P[s.cur] = path)
  BY DEF CameTo
<1>3. DOMAIN P \subseteq Numbers /\ Tree(P, Len(s.nodes)) /\ Linked(s.edges, P)
  <2>1. Tree(P, Len(s.nodes)) /\ Linked(s.edges, P)
    BY <1>2 DEF TrieOf
  <2>2. DOMAIN P \subseteq Numbers
    BY <2>1, TrieAssumption DEF Tree, Numbers
  <2> QED BY <2>1, <2>2
<1>4. CASE s.cur = EMPTY
  BY <1>1, <1>2, <1>4 DEF Step, CameTo, IsState
<1>5. CASE s.cur # EMPTY /\ e # NoRule
  <2> DEFINE u == [s EXCEPT !.cur = e.val]
  <2>1. s.cur \in DOMAIN P /\ P[s.cur] = path /\ Edge(s.edges, P, s.cur, h)
    BY <1>2, <1>3, <1>5 DEF Linked
  <2>2. PICK n \in DOMAIN P : P[n] = Append(P[s.cur], h) /\ e = Child(<<s.cur, h>>, n)
    BY <1>5, <2>1 DEF Edge
  <2>3. e.val = n
    BY <2>2 DEF Child
  <2> HIDE DEF e
  <2>4. u.nodes = s.nodes /\ u.edges = s.edges /\ u.cur = n /\ IsState(u)
    BY <1>1, <2>3 DEF IsState
  <2>5. Step(s, h) = u
    BY <1>5 DEF Step, e
  <2> HIDE DEF u
  <2>6. P[u.cur] = Append(path, h) /\ u.cur \in DOMAIN P
    BY <2>1, <2>2, <2>4
  <2> QED BY <1>2, <2>4, <2>5, <2>6 DEF CameTo
<1>6. CASE s.cur # EMPTY /\ e = NoRule /\ Len(s.nodes) = MaxTrieNodes
  <2>1. stuck.nodes = s.nodes /\ stuck.edges = s.edges /\ stuck.cur = EMPTY /\ IsState(stuck)
    BY <1>1 DEF IsState
  <2>2. Step(s, h) = stuck
    BY <1>6 DEF Step
  <2> HIDE DEF stuck
  <2> QED BY <1>2, <2>1, <2>2 DEF CameTo
<1>7. CASE s.cur # EMPTY /\ e = NoRule /\ Len(s.nodes) # MaxTrieNodes
  <2> DEFINE M == Append(s.nodes, Blank)
             t == Edges!Put(Edges!Grown(s.edges), <<s.cur, h>>, new)
             full == Edges!OutOfMemory(s.edges)
             u == [nodes |-> M,
                   edges |-> IF full THEN s.edges ELSE t,
                   cur |-> IF full THEN EMPTY ELSE new]
  <2>1. s.cur \in DOMAIN P /\ P[s.cur] = path /\ Edge(s.edges, P, s.cur, h)
    BY <1>2, <1>3, <1>7 DEF Linked
  <2>2. \A n \in DOMAIN P : P[n] # Append(P[s.cur], h)
    <3>1. s.cur \in Numbers
      BY <1>3, <2>1
    <3>2. \A n \in DOMAIN P : Child(<<s.cur, h>>, n) # NoRule
      BY <1>3, <3>1, EdgeKey DEF EdgeKeys
    <3> QED BY <1>7, <2>1, <3>2 DEF Edge
  <2>3. /\ TrieOf(s.edges, M, log, P)
        /\ TrieOf(t, M, log, Under(P, new, s.cur, h))
    BY <1>2, <1>7, <2>1, <2>2, NodeAdded
  <2>4. Step(s, h) = u
    BY <1>7 DEF Step, Blank
  <2> HIDE DEF M, t, full
  <2>5. CASE full
    <3>1. u.nodes = M /\ u.edges = s.edges /\ u.cur = EMPTY /\ IsState(u)
      BY <2>5 DEF IsState
    <3> HIDE DEF u
    <3> QED BY <2>3, <2>4, <3>1 DEF CameTo
  <2>6. CASE ~full
    <3> DEFINE Q == Under(P, new, s.cur, h)
    <3>1. u.nodes = M /\ u.edges = t /\ u.cur = new /\ IsState(u)
      BY <2>6 DEF IsState
    <3>2. new \in DOMAIN Q /\ Q[new] = Append(path, h)
      <4> HIDE DEF new
      <4> QED BY <2>1 DEF Under
    <3> HIDE DEF u, Q
    <3> QED BY <2>3, <2>4, <3>1, <3>2 DEF CameTo, Q
  <2> QED BY <2>5, <2>6
<1> QED BY <1>4, <1>5, <1>6, <1>7

Descents(f, s, path, n) ==
    f = [i \in 0 .. n |-> IF i = 0 THEN s ELSE Step(f[i - 1], path[i])]

\* The loop over the labels has a result.
LEMMA DescentsExist ==
    ASSUME NEW s, NEW path, NEW n \in Nat
    PROVE  \E f : Descents(f, s, path, n)
<1> DEFINE T == {k \in Nat : ~\E f : Descents(f, s, path, k)}
<1>1. CASE T = {}
  BY <1>1
<1>2. CASE T # {}
  <2>1. PICK k \in T : \A l \in T : k <= l
    <3>1. T \subseteq Nat
      OBVIOUS
    <3> HIDE DEF T
    <3> QED BY <1>2, <3>1, LeastOf
  <2>2. CASE k = 0
    <3>1. Descents([i \in 0 .. 0 |-> s], s, path, 0)
      BY DEF Descents
    <3> QED BY <2>1, <2>2, <3>1
  <2>3. CASE k # 0
    <3>1. k \in Nat /\ k - 1 \in Nat /\ k - 1 \notin T
      BY <2>1, <2>3
    <3>2. PICK f : Descents(f, s, path, k - 1)
      BY <3>1
    <3> DEFINE g == [i \in 0 .. k |-> IF i = k THEN Step(f[k - 1], path[k]) ELSE f[i]]
               h == [i \in 0 .. k |-> IF i = 0 THEN s ELSE Step(g[i - 1], path[i])]
    <3>3. ASSUME NEW i \in 0 .. k PROVE g[i] = h[i]
      <4>1. CASE i = k
        <5>1. g[i - 1] = f[k - 1]
          BY <2>3, <3>1, <4>1
        <5> QED BY <2>3, <4>1, <5>1
      <4>2. CASE i # k
        <5>1. i \in 0 .. k - 1 /\ (i # 0 => i - 1 \in 0 .. k /\ i - 1 # k)
          BY <3>1, <4>2
        <5>2. f[i] = IF i = 0 THEN s ELSE Step(f[i - 1], path[i])
          BY <3>2, <5>1 DEF Descents
        <5>3. g[i] = f[i] /\ (i # 0 => g[i - 1] = f[i - 1])
          BY <4>2, <5>1
        <5> QED BY <5>2, <5>3
      <4> QED BY <4>1, <4>2
    <3>4. g = h
      BY <3>3
    <3> HIDE DEF g
    <3>5. Descents(g, s, path, k)
      BY <3>4 DEF Descents
    <3> QED BY <2>1, <3>5
  <2> QED BY <2>2, <2>3
<1> QED BY <1>1, <1>2

\* An insertion comes down to its path, or gets stuck, and leaves the rules as they were.
LEMMA DescendKeeps ==
    ASSUME TrieInv, NEW path \in Paths
    PROVE  CameTo(Descend(path), names, path)
<1> DEFINE s == [nodes |-> nodes, edges |-> edges, cur |-> Root]
           n == Len(path)
           f == CHOOSE g : Descents(g, s, path, n)
<1>1. n \in Nat
  BY LenProperties DEF Paths
<1>2. Descend(path) = f[n]
  BY DEF Descend, Descents
<1>3. CameTo(s, names, <<>>)
  <2>1. PICK P : TrieOf(edges, nodes, names, P)
    BY DEF TrieInv
  <2>2. Root \in DOMAIN P /\ P[Root] = <<>>
    BY <2>1 DEF TrieOf, Tree
  <2>3. s.nodes = nodes /\ s.edges = edges /\ s.cur = Root /\ IsState(s)
    BY DEF IsState
  <2> HIDE DEF s
  <2> QED BY <2>1, <2>2, <2>3 DEF CameTo
<1> HIDE DEF n, s
<1>4. Descents(f, s, path, n)
  BY <1>1, DescentsExist
<1> HIDE DEF f
<1>5. \A i \in 0 .. n : f[i] = IF i = 0 THEN s ELSE Step(f[i - 1], path[i])
  BY <1>4 DEF Descents
<1> DEFINE T == {i \in 0 .. n : ~CameTo(f[i], names, Start(path, i))}
<1>6. CASE T = {}
  <2>1. CameTo(f[n], names, Start(path, n))
    BY <1>1, <1>6
  <2>2. Start(path, n) = path
    BY <1>1, StartOf DEF n
  <2> QED BY <1>2, <2>1, <2>2
<1>7. CASE T # {}
  <2>1. PICK k \in T : \A l \in T : k <= l
    <3>1. T \subseteq Nat
      OBVIOUS
    <3> HIDE DEF T
    <3> QED BY <1>7, <3>1, LeastOf
  <2>2. k # 0
    <3>1. f[0] = s /\ Start(path, 0) = <<>>
      BY <1>1, <1>5, StartOf DEF n
    <3>2. CameTo(f[0], names, Start(path, 0))
      BY <1>3, <3>1
    <3> QED BY <2>1, <3>2
  <2>3. k \in 0 .. n /\ k - 1 \in 0 .. n /\ k - 1 \notin T
    BY <1>1, <2>1, <2>2
  <2>4. CameTo(f[k - 1], names, Start(path, k - 1))
    BY <2>3
  <2>5. Start(path, k) = Append(Start(path, k - 1), path[k]) /\ path[k] \in Hashes
    BY <2>2, <2>3, StartOf DEF n
  <2>6. CameTo(Step(f[k - 1], path[k]), names, Start(path, k))
    BY <2>4, <2>5, StepKeeps
  <2>7. f[k] = Step(f[k - 1], path[k])
    BY <1>5, <2>2, <2>3
  <2> QED BY <2>1, <2>6, <2>7
<1> QED BY <1>6, <1>7

\* One rule more, and whose it is.
LEMMA NamedMore ==
    ASSUME NEW log, NameLog(log), NEW d \in DomainRecords
    PROVE  LET more == Append(log, d)
               n == Len(log) + 1
           IN  /\ NameLog(more) /\ Len(more) = n /\ more[n] = d
               /\ \A i \in 1 .. Len(log) : more[i] = log[i]
               /\ \A path, exact :
                     LET same == OfPath(log, path, exact)
                         its == d.exact = exact /\ path = Inward(d.name)
                     IN  FirstMostConfident(more, OfPath(more, path, exact)) =
                             IF its THEN Claim(FirstMostConfident(log, same), d.rule)
                             ELSE FirstMostConfident(log, same)
<1> DEFINE more == Append(log, d)
           n == Len(log) + 1
<1>1. /\ log \in Seq(DomainRecords) /\ Len(log) \in Nat /\ IsRuleLog(log) /\ d.rule \in Rules
  BY InputAssumption DEF NameLog
<1>2. /\ more \in Seq(DomainRecords) /\ Len(more) = n /\ more[n] = d
      /\ \A i \in 1 .. Len(log) : more[i] = log[i]
  BY <1>1, AppendProperties
<1>3. 1 .. n = (1 .. Len(log)) \union {n} /\ n \notin 1 .. Len(log)
  BY <1>1
<1> HIDE DEF more
<1>4. NameLog(more)
  <2>1. IsRuleLog(more)
    BY <1>1, <1>2, <1>3 DEF IsRuleLog
  <2> QED BY <1>1, <1>2, <2>1 DEF NameLog
<1>5. ASSUME NEW path, NEW exact
      PROVE  LET same == OfPath(log, path, exact)
                 its == d.exact = exact /\ path = Inward(d.name)
             IN  FirstMostConfident(more, OfPath(more, path, exact)) =
                     IF its THEN Claim(FirstMostConfident(log, same), d.rule)
                     ELSE FirstMostConfident(log, same)
  <2> DEFINE same == OfPath(log, path, exact)
             its == d.exact = exact /\ path = Inward(d.name)
  <2>1. OfPath(more, path, exact) = IF its THEN same \union {n} ELSE same
    <3> HIDE DEF n
    <3> QED BY <1>2, <1>3 DEF OfPath
  <2>2. same \subseteq 1 .. Len(log)
    BY DEF OfPath
  <2> HIDE DEF same, its
  <2>3. Longer(log, more, n, same)
    BY <1>1, <1>2, <2>2 DEF Longer
  <2>4. /\ FirstMostConfident(more, same) = FirstMostConfident(log, same)
        /\ FirstMostConfident(more, same \union {n})
               = Claim(FirstMostConfident(log, same), more[n].rule)
    BY <2>3, FirstOfMore
  <2> HIDE DEF n
  <2> QED BY <1>2, <2>1, <2>4 DEF same, its
<1> QED BY <1>2, <1>4, <1>5 DEF more

\* A rule is claimed at the node of its path.
LEMMA RuleClaimed ==
    ASSUME NEW t, NEW N, NEW log, NEW P, TrieOf(t, N, log, P), NEW d \in DomainRecords,
           NEW c \in DOMAIN P, P[c] = Inward(d.name), P[c] # <<>>
    PROVE  LET kind == IF d.exact THEN "exact" ELSE "suffix"
           IN  TrieOf(t, [N EXCEPT ![c][kind] = Claim(@, d.rule)], Append(log, d), P)
<1> DEFINE kind == IF d.exact THEN "exact" ELSE "suffix"
           r == Claim(N[c][kind], d.rule)
           new == [N[c] EXCEPT ![kind] = r]
           M == [N EXCEPT ![c] = new]
           more == Append(log, d)
<1>1. /\ N \in Seq(TrieNodes) /\ Tree(P, Len(N)) /\ Linked(t, P)
      /\ NameLog(log) /\ Rooms(log, P) /\ Holds(N, log, P) /\ c \in 1 .. Len(N)
  BY DEF TrieOf, Tree
<1>2. d.exact \in BOOLEAN /\ d.rule \in Rules /\ kind \in {"exact", "suffix"}
  BY InputAssumption
<1>3. N[c] \in TrieNodes
  BY <1>1, ElementOfSeq
<1>4. r \in Rules \union {NoRule}
  BY <1>2, <1>3 DEF TrieNodes, Claim
<1>5. /\ new \in TrieNodes
      /\ new.exact = IF d.exact THEN Claim(N[c].exact, d.rule) ELSE N[c].exact
      /\ new.suffix = IF d.exact THEN N[c].suffix ELSE Claim(N[c].suffix, d.rule)
  <2>1. CASE d.exact
    <3>1. kind = "exact"
      BY <2>1
    <3> QED BY <1>3, <1>4, <2>1, <3>1 DEF TrieNodes
  <2>2. CASE ~d.exact
    <3>1. kind = "suffix"
      BY <2>2
    <3> QED BY <1>3, <1>4, <2>2, <3>1 DEF TrieNodes
  <2> QED BY <2>1, <2>2
<1>6. [N EXCEPT ![c][kind] = Claim(@, d.rule)] = M
  OBVIOUS
<1> HIDE DEF new, kind
<1>7. /\ M \in Seq(TrieNodes) /\ Len(M) = Len(N) /\ M[c] = new
      /\ \A n \in 1 .. Len(N) : n # c => M[n] = N[n]
  BY <1>1, <1>5, ExceptSeq
<1> HIDE DEF M
<1>8. /\ NameLog(more) /\ Len(more) = Len(log) + 1 /\ more[Len(log) + 1] = d
      /\ \A i \in 1 .. Len(log) : more[i] = log[i]
      /\ \A path, exact :
             FirstMostConfident(more, OfPath(more, path, exact)) =
                 IF d.exact = exact /\ path = Inward(d.name)
                   THEN Claim(FirstMostConfident(log, OfPath(log, path, exact)), d.rule)
                   ELSE FirstMostConfident(log, OfPath(log, path, exact))
  BY <1>1, NamedMore
<1> HIDE DEF more
<1>9. Rooms(more, P)
  <2>1. \A i \in 1 .. Len(more) : i \in 1 .. Len(log) \/ i = Len(log) + 1
    BY <1>1, <1>8 DEF NameLog
  <2> QED BY <1>1, <1>8, <2>1 DEF Rooms
<1>10. Holds(M, more, P)
  <2> SUFFICES ASSUME NEW n \in DOMAIN P
               PROVE  /\ M[n].exact = FirstMostConfident(more, OfPath(more, P[n], TRUE))
                      /\ M[n].suffix = FirstMostConfident(more, OfPath(more, P[n], FALSE))
    BY DEF Holds
  <2> DEFINE fe == FirstMostConfident(log, OfPath(log, P[n], TRUE))
             fs == FirstMostConfident(log, OfPath(log, P[n], FALSE))
             me == FirstMostConfident(more, OfPath(more, P[n], TRUE))
             ms == FirstMostConfident(more, OfPath(more, P[n], FALSE))
             at == P[n] = Inward(d.name)
  <2>1. N[n].exact = fe /\ N[n].suffix = fs
    BY <1>1 DEF Holds
  <2>2. /\ me = IF d.exact = TRUE /\ at THEN Claim(fe, d.rule) ELSE fe
        /\ ms = IF d.exact = FALSE /\ at THEN Claim(fs, d.rule) ELSE fs
    BY <1>8
  <2>3. at <=> n = c
    BY <1>1 DEF Tree
  <2>4. n # c => M[n] = N[n]
    BY <1>1, <1>7 DEF Tree
  <2> HIDE DEF fe, fs, me, ms, at
  <2>5. M[n].exact = me /\ M[n].suffix = ms
    <3>1. CASE n # c
      BY <2>1, <2>2, <2>3, <2>4, <3>1
    <3>2. CASE n = c /\ d.exact
      <4>1. me = Claim(fe, d.rule) /\ ms = fs
        BY <1>2, <2>2, <2>3, <3>2
      <4> QED BY <1>5, <1>7, <2>1, <3>2, <4>1
    <3>3. CASE n = c /\ ~d.exact
      <4>1. me = fe /\ ms = Claim(fs, d.rule)
        BY <1>2, <2>2, <2>3, <3>3
      <4> QED BY <1>5, <1>7, <2>1, <3>3, <4>1
    <3> QED BY <3>1, <3>2, <3>3
  <2> QED BY <2>5 DEF me, ms
<1>11. TrieOf(t, M, more, P)
  BY <1>1, <1>7, <1>8, <1>9, <1>10 DEF TrieOf
<1> QED BY <1>6, <1>11 DEF more, kind

LEMMA TrieInsertGood ==
    ASSUME TrieInv, NEW d \in DomainRecords, TrieInsert(d)
    PROVE  TrieInv'
<1> DEFINE path == Inward(d.name)
           t == Descend(path)
           kind == IF d.exact THEN "exact" ELSE "suffix"
<1>1. path \in Paths
  BY InputAssumption, InwardPath
<1>2. CameTo(t, names, path)
  BY <1>1, DescendKeeps
<1>3. PICK P : /\ TrieOf(t.edges, t.nodes, names, P)
               /\ t.cur = EMPTY \/ (t.cur \in DOMAIN P /\ P[t.cur] = path)
  BY <1>2 DEF CameTo
<1>4. CASE UNCHANGED trieVars
  BY <1>4 DEF TrieInv, trieVars
<1>5. CASE edges' = t.edges /\ nodes' = t.nodes /\ UNCHANGED names
  <2>1. TrieOf(edges', nodes', names', P)
    BY <1>3, <1>5
  <2> QED BY <2>1 DEF TrieInv
<1>6. CASE /\ path # <<>> /\ edges' = t.edges /\ t.cur # EMPTY
           /\ nodes' = [t.nodes EXCEPT ![t.cur][kind] = Claim(@, d.rule)]
           /\ names' = Append(names, d)
  <2> HIDE DEF t
  <2>1. t.cur \in DOMAIN P /\ P[t.cur] = path
    BY <1>3, <1>6
  <2>2. TrieOf(t.edges, [t.nodes EXCEPT ![t.cur][kind] = Claim(@, d.rule)], Append(names, d), P)
    BY <1>3, <1>6, <2>1, RuleClaimed
  <2>3. TrieOf(edges', nodes', names', P)
    BY <1>6, <2>2
  <2> QED BY <2>3 DEF TrieInv
<1> QED BY <1>4, <1>5, <1>6 DEF TrieInsert

\* The root alone.
LEMMA TrieInitGood == TrieInit => TrieInv
<1> SUFFICES ASSUME TrieInit PROVE TrieInv
  OBVIOUS
<1> DEFINE P == [n \in {Root} |-> <<>>]
<1>1. edges = Edges!NewTable(EdgeCap) /\ nodes = <<Blank>> /\ names = <<>>
  BY DEF TrieInit, Blank
<1>2. DOMAIN P = {Root} /\ P[Root] = <<>> /\ Root = 1
  BY DEF Root
<1> HIDE DEF P
<1>3. nodes \in Seq(TrieNodes) /\ Len(nodes) = 1 /\ nodes[1] = Blank
  BY <1>1 DEF Blank, TrieNodes
<1>4. <<>> \in Paths /\ \A h \in Hashes : <<>> # Append(<<>>, h)
  BY EmptySeq, AppendProperties DEF Paths
<1>5. Tree(P, 1)
  <2>1. 1 <= MaxTrieNodes /\ 1 \in 1 .. 1
    BY TrieAssumption
  <2> QED BY <1>2, <1>4, <2>1 DEF Tree
<1>6. Linked(edges, P)
  <2>1. ASSUME NEW p \in Numbers, NEW h \in Hashes PROVE Edge(edges, P, p, h)
    <3>1. Edges!Find(edges, <<p, h>>) = NoRule
      BY <1>1, NewEdges DEF EdgeKeys
    <3>2. \A n \in DOMAIN P : p \in DOMAIN P => P[n] # Append(P[p], h)
      BY <1>2, <1>4
    <3> QED BY <3>1, <3>2 DEF Edge
  <2> QED BY <1>1, <2>1, NewEdges DEF Linked
<1>7. Len(names) = 0 /\ names \in Seq(DomainRecords)
  BY <1>1
<1>8. NameLog(names) /\ Rooms(names, P)
  BY <1>7 DEF NameLog, IsRuleLog, Rooms
<1>9. Holds(nodes, names, P)
  <2>1. \A path, e : OfPath(names, path, e) = {}
    BY <1>7 DEF OfPath
  <2>2. \A path, e : FirstMostConfident(names, OfPath(names, path, e)) = NoRule
    BY <2>1 DEF FirstMostConfident
  <2>3. nodes[1].exact = NoRule /\ nodes[1].suffix = NoRule
    BY <1>3 DEF Blank
  <2> QED BY <1>2, <2>2, <2>3 DEF Holds
<1>10. TrieOf(edges, nodes, names, P)
  BY <1>3, <1>5, <1>6, <1>8, <1>9 DEF TrieOf
<1> QED BY <1>10 DEF TrieInv

LEMMA TrieNext ==
    ASSUME TrieInv, [Next]_vars
    PROVE  TrieInv'
<1>1. CASE UNCHANGED trieVars
  BY <1>1 DEF TrieInv, trieVars
<1>2. CASE LoadDomain
  <2>1. UNCHANGED trieVars \/ \E d \in DomainRecords : TrieInsert(d)
    BY <1>2 DEF LoadDomain
  <2> QED BY <1>1, <2>1, TrieInsertGood
<1>3. CASE Open \/ LoadPayload \/ LoadCidr \/ NextSection \/ NoMatcher \/ NoCapture \/ Read \/ Parse
  BY <1>1, <1>3 DEF Open, LoadPayload, LoadCidr, NextSection, NoMatcher, NoCapture, Read,
     Parse, Capturing, matchers
<1>4. CASE UNCHANGED vars
  BY <1>1, <1>4 DEF vars
<1> QED BY <1>2, <1>3, <1>4 DEF Next

-----------------------------------------------------------------------------
(* Looking up a name. *)

Walks(f, path, n) ==
    f = [i \in 0 .. n |-> IF i = 0 THEN Root
                          ELSE IF f[i - 1] = EMPTY THEN EMPTY ELSE edge_find(f[i - 1], path[i])]

LEMMA WalksExist ==
    ASSUME NEW path, NEW n \in Nat
    PROVE  \E f : Walks(f, path, n)
<1> DEFINE T == {k \in Nat : ~\E f : Walks(f, path, k)}
           on(x, i) == IF x = EMPTY THEN EMPTY ELSE edge_find(x, path[i])
<1>1. CASE T = {}
  BY <1>1
<1>2. CASE T # {}
  <2>1. PICK k \in T : \A l \in T : k <= l
    <3>1. T \subseteq Nat
      OBVIOUS
    <3> HIDE DEF T
    <3> QED BY <1>2, <3>1, LeastOf
  <2>2. CASE k = 0
    <3>1. Walks([i \in 0 .. 0 |-> Root], path, 0)
      BY DEF Walks
    <3> QED BY <2>1, <2>2, <3>1
  <2>3. CASE k # 0
    <3>1. k \in Nat /\ k - 1 \in Nat /\ k - 1 \notin T
      BY <2>1, <2>3
    <3>2. PICK f : Walks(f, path, k - 1)
      BY <3>1
    <3> DEFINE g == [i \in 0 .. k |-> IF i = k THEN on(f[k - 1], k) ELSE f[i]]
               h == [i \in 0 .. k |-> IF i = 0 THEN Root ELSE on(g[i - 1], i)]
    <3>3. \A i \in 0 .. k - 1 : f[i] = IF i = 0 THEN Root ELSE on(f[i - 1], i)
      BY <3>2 DEF Walks
    <3> HIDE DEF on
    <3>4. ASSUME NEW i \in 0 .. k PROVE g[i] = h[i]
      <4>1. CASE i = k
        <5>1. g[i - 1] = f[k - 1]
          BY <2>3, <3>1, <4>1
        <5> QED BY <2>3, <4>1, <5>1
      <4>2. CASE i # k
        <5>1. i \in 0 .. k - 1 /\ (i # 0 => i - 1 \in 0 .. k /\ i - 1 # k)
          BY <3>1, <4>2
        <5>2. g[i] = f[i] /\ (i # 0 => g[i - 1] = f[i - 1])
          BY <4>2, <5>1
        <5> QED BY <3>3, <5>1, <5>2
      <4> QED BY <4>1, <4>2
    <3>5. g = h
      BY <3>4
    <3> HIDE DEF g
    <3>6. Walks(g, path, k)
      BY <3>5 DEF Walks, on
    <3> QED BY <2>1, <3>6
  <2> QED BY <2>2, <2>3
<1> QED BY <1>1, <1>2

\* The node of a path, or EMPTY.
IsNode(P, n, path) ==
    \/ n \in DOMAIN P /\ P[n] = path
    \/ n = EMPTY /\ \A o \in DOMAIN P : P[o] # path

\* Following one edge.
LEMMA EdgeFollowed ==
    ASSUME NEW N, NEW log, NEW P, TrieOf(edges, N, log, P), NEW n, NEW path \in Paths,
           IsNode(P, n, path), NEW h \in Hashes
    PROVE  IsNode(P, IF n = EMPTY THEN EMPTY ELSE edge_find(n, h), Append(path, h))
<1>1. Tree(P, Len(N)) /\ Linked(edges, P) /\ DOMAIN P \subseteq Numbers
  <2>1. Tree(P, Len(N)) /\ Linked(edges, P)
    BY DEF TrieOf
  <2>2. DOMAIN P \subseteq Numbers
    BY <2>1, TrieAssumption DEF Tree, Numbers
  <2> QED BY <2>1, <2>2
<1>2. CASE n = EMPTY
  <2>1. n \notin DOMAIN P
    BY <1>1, <1>2, TrieAssumption DEF EMPTY, Numbers
  <2>2. \A o \in DOMAIN P : P[o] # path
    BY <2>1 DEF IsNode
  <2>3. \A o \in DOMAIN P : P[o] # Append(path, h)
    BY <1>1, <2>2, NothingBelow
  <2> QED BY <1>2, <2>3 DEF IsNode
<1>3. CASE n # EMPTY
  <2>1. n \in DOMAIN P /\ P[n] = path /\ n \in Numbers
    BY <1>1, <1>3 DEF IsNode
  <2>2. Edge(edges, P, n, h)
    BY <1>1, <2>1 DEF Linked
  <2>3. CASE /\ Edges!Find(edges, <<n, h>>) = NoRule
             /\ n \in DOMAIN P => \A o \in DOMAIN P : P[o] # Append(P[n], h)
    <3>1. edge_find(n, h) = EMPTY
      BY <2>3 DEF edge_find
    <3> QED BY <1>3, <2>1, <2>3, <3>1 DEF IsNode
  <2>4. CASE \E o \in DOMAIN P :
                 P[o] = Append(P[n], h) /\ Edges!Find(edges, <<n, h>>) = Child(<<n, h>>, o)
    <3>1. PICK o \in DOMAIN P :
              P[o] = Append(P[n], h) /\ Edges!Find(edges, <<n, h>>) = Child(<<n, h>>, o)
      BY <2>4
    <3>2. Child(<<n, h>>, o) # NoRule /\ Child(<<n, h>>, o).val = o
      <4>1. <<n, h>> \in EdgeKeys /\ o \in Numbers
        BY <1>1, <2>1 DEF EdgeKeys
      <4> QED BY <4>1, EdgeKey DEF Child
    <3>3. edge_find(n, h) = o
      BY <3>1, <3>2 DEF edge_find
    <3> QED BY <1>3, <2>1, <3>1, <3>3 DEF IsNode
  <2> QED BY <2>2, <2>3, <2>4 DEF Edge
<1> QED BY <1>2, <1>3

\* The way of a path passes the nodes of its beginnings.
LEMMA WalkIsNode ==
    ASSUME NEW N, NEW log, NEW P, TrieOf(edges, N, log, P), NEW path \in Paths
    PROVE  \A i \in 0 .. Len(path) : IsNode(P, Walk(path)[i], Start(path, i))
<1> DEFINE n == Len(path)
           f == CHOOSE g : Walks(g, path, n)
<1>1. n \in Nat
  BY LenProperties DEF Paths
<1>2. Walk(path) = f
  BY DEF Walk, Walks
<1> HIDE DEF n
<1>3. Walks(f, path, n)
  BY <1>1, WalksExist
<1> HIDE DEF f
<1>4. \A i \in 0 .. n : f[i] = IF i = 0 THEN Root
                               ELSE IF f[i - 1] = EMPTY THEN EMPTY ELSE edge_find(f[i - 1], path[i])
  BY <1>3 DEF Walks
<1> DEFINE T == {i \in 0 .. n : ~IsNode(P, f[i], Start(path, i))}
<1>5. CASE T = {}
  BY <1>2, <1>5 DEF n
<1>6. CASE T # {}
  <2>1. PICK k \in T : \A l \in T : k <= l
    <3>1. T \subseteq Nat
      OBVIOUS
    <3> HIDE DEF T
    <3> QED BY <1>6, <3>1, LeastOf
  <2>2. k # 0
    <3>1. f[0] = Root /\ Start(path, 0) = <<>>
      BY <1>1, <1>4, StartOf DEF n
    <3>2. IsNode(P, f[0], Start(path, 0))
      BY <3>1 DEF TrieOf, Tree, IsNode
    <3> QED BY <2>1, <3>2
  <2>3. k \in 0 .. n /\ k - 1 \in 0 .. n /\ k - 1 \notin T
    BY <1>1, <2>1, <2>2
  <2>4. IsNode(P, f[k - 1], Start(path, k - 1))
    BY <2>3
  <2>5. /\ Start(path, k) = Append(Start(path, k - 1), path[k]) /\ path[k] \in Hashes
        /\ Start(path, k - 1) \in Paths
    BY <2>2, <2>3, StartOf DEF n
  <2>6. IsNode(P, IF f[k - 1] = EMPTY THEN EMPTY ELSE edge_find(f[k - 1], path[k]), Start(path, k))
    BY <2>4, <2>5, EdgeFollowed
  <2>7. f[k] = IF f[k - 1] = EMPTY THEN EMPTY ELSE edge_find(f[k - 1], path[k])
    BY <1>4, <2>2, <2>3
  <2> QED BY <2>1, <2>6, <2>7
<1> QED BY <1>5, <1>6

\* What a node, or EMPTY, has to say of a path.
Says(N, log, n, path) ==
    /\ n # EMPTY =>
          /\ N[n].exact = FirstMostConfident(log, OfPath(log, path, TRUE))
          /\ N[n].suffix = FirstMostConfident(log, OfPath(log, path, FALSE))
    /\ n # EMPTY /\ N[n].exact # NoRule <=> OfPath(log, path, TRUE) # {}
    /\ n # EMPTY /\ N[n].suffix # NoRule <=> OfPath(log, path, FALSE) # {}

LEMMA NodeSays ==
    ASSUME NEW N, NEW log, NEW P, TrieOf(edges, N, log, P), NEW n, NEW path, IsNode(P, n, path)
    PROVE  Says(N, log, n, path)
<1> USE DEF Says
<1>1. NameLog(log) /\ Rooms(log, P) /\ Holds(N, log, P) /\ Len(log) \in Nat /\ IsRuleLog(log)
  BY DEF TrieOf, NameLog
<1>2. ASSUME NEW e
      PROVE  FirstMostConfident(log, OfPath(log, path, e)) # NoRule <=> OfPath(log, path, e) # {}
  <2>1. OfPath(log, path, e) \subseteq 1 .. Len(log)
    BY DEF OfPath
  <2> QED BY <1>1, <2>1, FirstIsRule
<1>3. CASE n # EMPTY
  <2>1. n \in DOMAIN P /\ P[n] = path
    BY <1>3 DEF IsNode
  <2>2. /\ N[n].exact = FirstMostConfident(log, OfPath(log, path, TRUE))
        /\ N[n].suffix = FirstMostConfident(log, OfPath(log, path, FALSE))
    BY <1>1, <2>1 DEF Holds
  <2> QED BY <1>2, <1>3, <2>2
<1>4. CASE n = EMPTY
  <2>1. n \notin DOMAIN P
    BY <1>4, TrieAssumption DEF TrieOf, Tree, EMPTY
  <2>2. \A o \in DOMAIN P : P[o] # path
    BY <2>1 DEF IsNode
  <2>3. \A e : OfPath(log, path, e) = {}
    BY <1>1, <2>2 DEF Rooms, OfPath
  <2> QED BY <1>4, <2>3
<1> QED BY <1>3, <1>4

\* A lookup answers with the most specific of what was loaded.
LEMMA NameRight ==
    ASSUME TrieInv, NEW name \in Names
    PROVE  TrieLookup(name) = MostSpecificRule(name)
<1> DEFINE path == Inward(name)
           n == Len(path)
           at == Walk(path)
           hits == {i \in 1 .. n : at[i] # EMPTY /\ nodes[at[i]].suffix # NoRule}
           deepest == CHOOSE i \in hits : \A j \in hits : j <= i
           key(i) == Inward(names[i].name)
           whole == {i \in 1 .. Len(names) : names[i].exact /\ key(i) = path}
           above == {i \in 1 .. Len(names) : /\ ~names[i].exact /\ Len(key(i)) <= n
                                            /\ key(i) = SubSeq(path, 1, Len(key(i)))}
           longest == {i \in above : \A j \in above : Len(key(j)) <= Len(key(i))}
<1>1. PICK P : TrieOf(edges, nodes, names, P)
  BY DEF TrieInv
<1>2. path \in Paths /\ n \in Nat
  <2>1. path \in Paths
    BY InwardPath
  <2> QED BY <2>1, LenProperties DEF Paths
<1>3. TrieLookup(name) =
          IF n > 0 /\ at[n] # EMPTY /\ nodes[at[n]].exact # NoRule
            THEN [rule |-> nodes[at[n]].exact, exact |-> TRUE, labels |-> n]
          ELSE IF hits = {} THEN NoMatch
          ELSE [rule |-> nodes[at[deepest]].suffix, exact |-> FALSE, labels |-> deepest]
  BY DEF TrieLookup
<1>4. MostSpecificRule(name) =
          IF whole # {}
            THEN [rule |-> FirstMostConfident(names, whole), exact |-> TRUE, labels |-> n]
          ELSE IF above = {} THEN NoMatch
          ELSE [rule |-> FirstMostConfident(names, longest), exact |-> FALSE,
                labels |-> Len(key(CHOOSE i \in longest : TRUE))]
  BY DEF MostSpecificRule
<1>5. ASSUME NEW i \in 1 .. Len(names)
      PROVE  key(i) \in Paths /\ Len(key(i)) \in Nat \ {0} /\ names[i].exact \in BOOLEAN
  <2>1. names \in Seq(DomainRecords) /\ key(i) # <<>>
    BY <1>1 DEF TrieOf, NameLog, Rooms
  <2>2. names[i] \in DomainRecords
    BY <2>1, ElementOfSeq
  <2>3. names[i].name \in Names /\ names[i].exact \in BOOLEAN
    BY <2>2, InputAssumption
  <2>4. key(i) \in Paths
    BY <2>3, InwardPath
  <2> HIDE DEF key
  <2> QED BY <2>1, <2>3, <2>4, EmptySeq DEF Paths
<1>6. \A i \in 0 .. n : IsNode(P, at[i], Start(path, i))
  BY <1>1, <1>2, WalkIsNode
<1> HIDE DEF path, n, at
<1>7. ASSUME NEW i \in 0 .. n
      PROVE  /\ Start(path, i) \in Paths /\ Len(Start(path, i)) = i /\ Start(path, n) = path
             /\ at[i] # EMPTY =>
                   /\ nodes[at[i]].exact = FirstMostConfident(names, OfPath(names, Start(path, i), TRUE))
                   /\ nodes[at[i]].suffix = FirstMostConfident(names, OfPath(names, Start(path, i), FALSE))
             /\ at[i] # EMPTY /\ nodes[at[i]].exact # NoRule
                   <=> OfPath(names, Start(path, i), TRUE) # {}
             /\ at[i] # EMPTY /\ nodes[at[i]].suffix # NoRule
                   <=> OfPath(names, Start(path, i), FALSE) # {}
  <2>1. Start(path, i) \in Paths /\ Len(Start(path, i)) = i /\ Start(path, n) = path
    BY <1>2, StartOf DEF n
  <2>2. IsNode(P, at[i], Start(path, i))
    BY <1>6
  <2> DEFINE p == Start(path, i)
             x == at[i]
  <2>3. IsNode(P, x, p)
    BY <2>2
  <2> HIDE DEF p, x
  <2>4. Says(nodes, names, x, p)
    BY <1>1, <2>3, NodeSays
  <2> QED BY <2>1, <2>4 DEF p, x, Says
<1>8. whole = OfPath(names, path, TRUE)
  BY <1>5 DEF OfPath
<1>9. CASE whole # {}
  <2>1. n > 0
    <3>1. PICK i \in whole : TRUE
      BY <1>9
    <3>2. path = key(i) /\ i \in 1 .. Len(names)
      BY <3>1
    <3>3. Len(key(i)) \in Nat \ {0}
      BY <1>5, <3>2
    <3> HIDE DEF key
    <3> QED BY <3>2, <3>3 DEF n
  <2>2. n \in 0 .. n
    BY <1>2
  <2> HIDE DEF whole
  <2>3. /\ at[n] # EMPTY /\ nodes[at[n]].exact # NoRule
        /\ nodes[at[n]].exact = FirstMostConfident(names, whole)
    BY <1>7, <1>8, <1>9, <2>2
  <2> QED BY <1>3, <1>4, <1>9, <2>1, <2>3
<1>10. CASE whole = {}
  <2>1. ~(n > 0 /\ at[n] # EMPTY /\ nodes[at[n]].exact # NoRule)
    <3>1. n \in 0 .. n
      BY <1>2
    <3> HIDE DEF whole
    <3> QED BY <1>7, <1>8, <1>10, <3>1
  <2>2. ASSUME NEW i \in above
        PROVE  /\ Len(key(i)) \in hits /\ Len(key(i)) \in 1 .. n
               /\ i \in OfPath(names, Start(path, Len(key(i))), FALSE)
    <3>1. /\ i \in 1 .. Len(names) /\ ~names[i].exact /\ Len(key(i)) <= n
          /\ key(i) = Start(path, Len(key(i)))
      BY DEF Start
    <3>2. Len(key(i)) \in Nat \ {0} /\ names[i].exact = FALSE
      BY <1>5, <3>1
    <3>3. i \in OfPath(names, Start(path, Len(key(i))), FALSE)
      BY <3>1, <3>2 DEF OfPath
    <3> DEFINE l == Len(key(i))
    <3>4. l \in 1 .. n /\ l \in 0 .. n
      BY <1>2, <3>1, <3>2
    <3>5. i \in OfPath(names, Start(path, l), FALSE)
      BY <3>3
    <3> HIDE DEF l
    <3>6. l \in hits
      BY <1>7, <3>4, <3>5
    <3> QED BY <3>3, <3>4, <3>6 DEF l
  <2>3. ASSUME NEW l \in 1 .. n, NEW i \in OfPath(names, Start(path, l), FALSE)
        PROVE  i \in above /\ Len(key(i)) = l
    <3>1. i \in 1 .. Len(names) /\ names[i].exact = FALSE /\ key(i) = Start(path, l)
      BY DEF OfPath
    <3>2. l \in 0 .. n
      BY <1>2
    <3>3. Len(key(i)) = l
      BY <1>7, <3>1, <3>2
    <3>4. Len(key(i)) <= n
      BY <1>2, <3>3
    <3> QED BY <3>1, <3>3, <3>4 DEF Start
  <2>4. ASSUME NEW l \in hits
        PROVE  l \in 1 .. n /\ \E i \in above : Len(key(i)) = l
    <3>1. l \in 1 .. n /\ l \in 0 .. n
      BY <1>2
    <3>2. OfPath(names, Start(path, l), FALSE) # {}
      BY <1>7, <3>1
    <3> HIDE DEF above, hits, key
    <3> QED BY <2>3, <3>1, <3>2
  <2>5. CASE above = {}
    <3>1. hits = {}
      <4> HIDE DEF above, hits, key
      <4> QED BY <2>4, <2>5
    <3> HIDE DEF above, hits, key, whole, deepest, longest
    <3> QED BY <1>3, <1>4, <1>10, <2>1, <2>5, <3>1
  <2>6. CASE above # {}
    <3> HIDE DEF above, hits, key
    <3>1. hits # {} /\ hits \subseteq 1 .. n /\ hits \subseteq Nat
      <4>1. hits # {}
        BY <2>2, <2>6
      <4>2. hits \subseteq 1 .. n
        BY <2>4
      <4> QED BY <1>2, <4>1, <4>2
    <3>2. deepest \in hits /\ \A j \in hits : j <= deepest
      <4>1. \A j \in hits : j <= n
        BY <1>2, <3>1
      <4> QED BY <1>2, <3>1, <4>1, GreatestOf
    <3> HIDE DEF deepest
    <3>3. deepest \in 1 .. n /\ deepest \in 0 .. n /\ \E i \in above : Len(key(i)) = deepest
      BY <1>2, <2>4, <3>2
    <3>4. ASSUME NEW i \in above PROVE i \in longest <=> Len(key(i)) = deepest
      <4>1. \A j \in above : Len(key(j)) \in Nat /\ Len(key(j)) <= deepest
        BY <2>2, <3>1, <3>2
      <4> QED BY <3>1, <3>3, <4>1
    <3>5. longest \subseteq above
      OBVIOUS
    <3> HIDE DEF longest
    <3>6. longest = OfPath(names, Start(path, deepest), FALSE)
      <4>1. ASSUME NEW i \in longest PROVE i \in OfPath(names, Start(path, deepest), FALSE)
        <5>1. i \in above /\ Len(key(i)) = deepest
          BY <3>4, <3>5
        <5> QED BY <2>2, <5>1
      <4>2. ASSUME NEW i \in OfPath(names, Start(path, deepest), FALSE) PROVE i \in longest
        BY <2>3, <3>3, <3>4
      <4> QED BY <4>1, <4>2
    <3>7. nodes[at[deepest]].suffix = FirstMostConfident(names, longest)
      <4>1. at[deepest] # EMPTY
        BY <3>2 DEF hits
      <4> QED BY <1>7, <3>3, <3>6, <4>1
    <3>8. Len(key(CHOOSE i \in longest : TRUE)) = deepest
      <4>1. longest # {}
        BY <3>3, <3>4
      <4>2. (CHOOSE i \in longest : TRUE) \in longest
        BY <4>1
      <4> QED BY <3>4, <3>5, <4>2
    <3> HIDE DEF whole
    <3> QED BY <1>3, <1>4, <1>10, <2>1, <2>6, <3>1, <3>7, <3>8
  <2> QED BY <2>5, <2>6
<1> QED BY <1>9, <1>10

\* Every name that is looked up gets its exact rule, or else that of the longest suffix.
THEOREM MostSpecific == Spec => []MostSpecificName
<1>1. TrieInv => MostSpecificName
  BY NameRight, InputAssumption DEF MostSpecificName
<1>2. Init => TrieInv
  BY TrieInitGood DEF Init
<1> QED BY <1>1, <1>2, TrieNext, PTL DEF Spec

-----------------------------------------------------------------------------
(* Types: of main's state, and of the matchers from what they hold. *)

Stages == {"read", "end", "link", "vlan", "ip", "v6", "l4", "tcp", "udp",
           "record", "hello", "session", "ciphers", "compression", "extensions",
           "extension", "list", "name"}

\* A loop without a bound counts its rounds by their parity.
StageInv ==
    /\ stage \in Stages
    /\ loops \in Nat /\ (stage \in {"vlan", "v6"} \/ loops <= 1)

LEMMA ReadingStage ==
    ASSUME StageInv, NEW n, NEW to \in Stages, NEW o, NEW l, Reading(n, to, o, l)
    PROVE  StageInv'
<1>1. stage' = to /\ loops \in Nat /\ (stage \in {"vlan", "v6"} \/ loops <= 1)
      /\ loops' = IF to # stage THEN 0
                  ELSE IF stage \in {"vlan", "v6"} THEN loops + 1 ELSE 1 - loops
  BY DEF StageInv, Reading
<1>2. loops' \in Nat /\ (to \in {"vlan", "v6"} \/ loops' <= 1)
  BY <1>1
<1> QED BY <1>1, <1>2 DEF StageInv

LEMMA DecodingStage ==
    ASSUME StageInv, Decoding
    PROVE  StageInv'
<1>1. ASSUME NEW n, Done(n) PROVE StageInv'
  BY <1>1, ReadingStage DEF Done, Stages
<1>2. ASSUME NEW n, NEW o, NEW l, NEW to \in Stages, Reading(n, to, o, l) PROVE StageInv'
  BY <1>2, ReadingStage
<1>3. /\ "vlan" \in Stages /\ "ip" \in Stages /\ "v6" \in Stages /\ "l4" \in Stages
      /\ "tcp" \in Stages /\ "udp" \in Stages /\ "record" \in Stages /\ "hello" \in Stages
  BY DEF Stages
<1>4. /\ "session" \in Stages /\ "ciphers" \in Stages /\ "compression" \in Stages
      /\ "extensions" \in Stages /\ "extension" \in Stages /\ "list" \in Stages
      /\ "name" \in Stages
  BY DEF Stages
<1>5. CASE Link
  BY <1>1, <1>2, <1>3, <1>5 DEF Link
<1>6. CASE Vlan
  BY <1>1, <1>2, <1>3, <1>6 DEF Vlan
<1>7. CASE IPv4
  BY <1>1, <1>2, <1>3, <1>7 DEF IPv4
<1>8. CASE IPv6
  BY <1>1, <1>2, <1>3, <1>8 DEF IPv6
<1>9. CASE Extension
  BY <1>1, <1>2, <1>3, <1>9 DEF Extension
<1>10. CASE Tcp
  BY <1>1, <1>2, <1>3, <1>10 DEF Tcp
<1>11. CASE UdpOrOther
  BY <1>1, <1>2, <1>3, <1>11 DEF UdpOrOther
<1>12. CASE Payload
  BY <1>1, <1>2, <1>3, <1>12 DEF Payload
<1>13. CASE Record
  BY <1>1, <1>2, <1>3, <1>13 DEF Record
<1>14. CASE Hello
  BY <1>1, <1>2, <1>4, <1>14 DEF Hello
<1>15. CASE Vectors
  <2>1. ASSUME NEW from, NEW w, NEW lengths, NEW to \in Stages, Skip(from, w, lengths, to)
        PROVE  StageInv'
    BY <1>1, <1>2, <2>1 DEF Skip
  <2> QED BY <1>4, <1>15, <2>1 DEF Vectors
<1>16. CASE Extensions
  BY <1>1, <1>2, <1>4, <1>16 DEF Extensions
<1>17. CASE TlsExtension
  BY <1>1, <1>2, <1>4, <1>17 DEF TlsExtension
<1>18. CASE NameList
  BY <1>1, <1>2, <1>4, <1>18 DEF NameList
<1>19. CASE ServerName
  BY <1>1, <1>2, <1>4, <1>19 DEF ServerName
<1> QED
  BY <1>5, <1>6, <1>7, <1>8, <1>9, <1>10, <1>11, <1>12, <1>13, <1>14, <1>15, <1>16, <1>17,
     <1>18, <1>19 DEF Decoding

LEMMA NextFrameStage ==
    ASSUME StageInv, NextFrame
    PROVE  StageInv'
BY DEF StageInv, NextFrame, Stages

Phases == {"open", "domain", "payload", "cidr", "capture", "accepted", "exit"}

\* What main loads from has no more records than a database may have.
Counted(file) == \A s \in Tables : file.section[s].count \in 0 .. MaxRules

MainInv ==
    /\ StageInv
    /\ phase \in Phases /\ (db = NoDb <=> phase = "open")
    /\ phase \in Tables => Counted(db)
    /\ next \in 0 .. MaxRules

\* No pattern without a byte to match has a bucket.
SomeByte == \A m \in Masks : buckets[m] # Inactive => m # {}

LEMMA DatabaseCounted ==
    ASSUME NEW file \in Databases
    PROVE  file \in FileType /\ Counted(file)
<1>1. PICK kind \in Tables, n \in 0 .. MaxRules : file = Layout(Counts(kind, n))
  BY DEF Databases
<1>2. Counts(kind, n) \in [Sections -> Nat]
  BY InputAssumption DEF Counts, Sections, ElemSize
<1>3. ASSUME NEW s \in Tables PROVE file.section[s].count \in 0 .. MaxRules
  <2>1. s \in Sections /\ s # "app" /\ s # "pool"
    BY DEF Tables, Sections, ElemSize
  <2>2. Counts(kind, n)[s] = n \/ Counts(kind, n)[s] = 0
    BY <2>1 DEF Counts
  <2>3. Counts(kind, n)[s] \in 0 .. MaxRules
    BY <2>2, InputAssumption
  <2>4. file.section[s].count = Counts(kind, n)[s]
    <3> DEFINE c == Counts(kind, n)
    <3>1. file = Layout(c)
      BY <1>1
    <3> HIDE DEF c
    <3>2. /\ Layout(c).section["domain"].count = c.domain
          /\ Layout(c).section["payload"].count = c.payload
          /\ Layout(c).section["cidr"].count = c.cidr
      BY DEF Layout, Span
    <3>3. file.section[s].count = c[s]
      BY <3>1, <3>2 DEF Tables
    <3> QED BY <3>3 DEF c
  <2> QED BY <2>3, <2>4
<1> QED BY <1>1, <1>2, <1>3, LayoutType DEF Counted

LEMMA FileIsDb ==
    ASSUME NEW file \in FileType
    PROVE  file # NoDb
<1>1. "size" \in DOMAIN file
  BY DEF FileType
<1>2. DOMAIN NoDb = {}
  BY DEF NoDb
<1> QED BY <1>1, <1>2

LEMMA MainNext ==
    ASSUME MainInv, [Next]_vars
    PROVE  MainInv'
<1>0. /\ StageInv /\ phase \in Phases /\ (db = NoDb <=> phase = "open")
      /\ (phase \in Tables => Counted(db)) /\ next \in 0 .. MaxRules
  BY DEF MainInv
<1>1. CASE Open
  <2>1. StageInv'
    BY <1>0, <1>1 DEF Open, decodeVars, StageInv
  <2>2. PICK file \in Databases :
            \/ db' = file /\ phase' = IF Accepted(file) THEN "domain" ELSE "exit"
            \/ db' \in Damaged(file) /\ phase' = IF Accepted(db') THEN "accepted" ELSE "exit"
    BY <1>1 DEF Open
  <2>3. db' \in FileType /\ (db' = file => Counted(db'))
    BY <2>2, DatabaseCounted, DamagedType
  <2>4. phase' \in Phases /\ phase' # "open" /\ (phase' \in Tables => Counted(db'))
    BY <2>2, <2>3 DEF Phases, Tables
  <2>5. db' # NoDb
    BY <2>3, FileIsDb
  <2>6. next' = next
    BY <1>1 DEF Open
  <2>7. NoDb' = NoDb /\ (Counted(db))' = Counted(db')
    BY DEF NoDb, Counted
  <2> QED BY <1>0, <2>1, <2>4, <2>5, <2>6, <2>7 DEF MainInv
<1>2. ASSUME NEW section \in Tables, Loading(section) PROVE MainInv'
  <2>1. /\ UNCHANGED <<stage, loops, phase, db>> /\ next' = next + 1
        /\ next < db.section[section].count /\ phase = section
    BY <1>2 DEF Loading, decodeVars
  <2>2. db.section[section].count \in 0 .. MaxRules
    BY <1>0, <1>2, <2>1 DEF Counted
  <2>3. next' \in 0 .. MaxRules
    BY <1>0, <2>1, <2>2, InputAssumption
  <2> QED BY <1>0, <2>1, <2>3 DEF MainInv, StageInv, Counted
<1>3. CASE LoadDomain \/ LoadPayload \/ LoadCidr
  BY <1>2, <1>3 DEF LoadDomain, LoadPayload, LoadCidr, Tables
<1>4. CASE NextSection
  <2>1. /\ UNCHANGED <<stage, loops, db>> /\ next' = 0 /\ phase' = Following[phase]
        /\ phase \in Tables
    BY <1>4 DEF NextSection, decodeVars
  <2>2. phase # "open" /\ phase' \in Phases /\ phase' # "open"
    BY <2>1 DEF Tables, Following, Phases
  <2>3. 0 \in 0 .. MaxRules
    BY InputAssumption
  <2> QED BY <1>0, <2>1, <2>2, <2>3 DEF MainInv, StageInv, Counted
<1>5. CASE NoMatcher \/ NoCapture
  <2>1. /\ UNCHANGED <<stage, loops, db, next>> /\ phase # "open"
        /\ phase' = "exit" \/ (phase \in Tables /\ phase' = "cidr")
    BY <1>5 DEF NoMatcher, NoCapture, decodeVars, Tables
  <2>2. phase' \in Phases /\ phase' # "open" /\ (phase' \in Tables => phase \in Tables)
    BY <2>1 DEF Phases, Tables
  <2> QED BY <1>0, <2>1, <2>2 DEF MainInv, StageInv, Counted
<1>6. CASE Read \/ Parse
  <2>1. StageInv' /\ UNCHANGED <<phase, db, next>>
    BY <1>0, <1>6, NextFrameStage, DecodingStage DEF Read, Parse, Capturing
  <2> QED BY <1>0, <2>1 DEF MainInv, Counted
<1>7. CASE UNCHANGED vars
  BY <1>0, <1>7 DEF vars, decodeVars, MainInv, StageInv, Counted
<1> QED BY <1>1, <1>3, <1>4, <1>5, <1>6, <1>7 DEF Next

LEMMA SomeByteNext ==
    ASSUME PayloadInv, SomeByte, [Next]_vars
    PROVE  SomeByte'
<1>1. CASE UNCHANGED payloadVars
  BY <1>1 DEF SomeByte, payloadVars
<1>2. ASSUME NEW q \in PayloadRecords, PayloadInsert(q) PROVE SomeByte'
  <2>1. UNCHANGED buckets \/ (q.mask # {} /\ \E u : buckets' = [buckets EXCEPT ![q.mask] = u])
    BY <1>2 DEF PayloadInsert, payloadVars
  <2>2. buckets = [m \in Masks |-> buckets[m]]
    BY DEF PayloadInv
  <2>3. \A m \in Masks : m # q.mask \/ UNCHANGED buckets => buckets'[m] = buckets[m]
    BY <2>1, <2>2
  <2> QED BY <2>1, <2>3 DEF SomeByte
<1>3. CASE LoadPayload
  BY <1>1, <1>2, <1>3 DEF LoadPayload
<1>4. CASE Open \/ LoadDomain \/ LoadCidr \/ NextSection \/ NoMatcher \/ NoCapture \/ Read \/ Parse
  BY <1>1, <1>4 DEF Open, LoadDomain, LoadCidr, NextSection, NoMatcher, NoCapture, Read,
     Parse, Capturing, matchers
<1>5. CASE UNCHANGED vars
  BY <1>1, <1>5 DEF vars
<1> QED BY <1>3, <1>4, <1>5 DEF Next

LEMMA LpmTyped == LpmInv => LpmTypeOK
<1> SUFFICES ASSUME LpmInv PROVE LpmTypeOK
  OBVIOUS
<1>1. DOMAIN trie = Families /\ DOMAIN prefixes = Families
  BY DEF LpmInv
<1>2. ASSUME NEW af \in Families
      PROVE  /\ \A p \in DOMAIN trie[af] :
                   /\ p \in Seq({0, 1}) /\ Len(p) <= Bits[af]
                   /\ Cuts(p, Len(p)) \subseteq DOMAIN trie[af]
                   /\ trie[af][p] \in Rules \union {NoRule}
             /\ Cardinality(DOMAIN trie[af]) <= MaxLpmNodes
  <2>1. /\ Rooted(DOMAIN trie[af], Bits[af])
        /\ Loaded(af, prefixes[af], DOMAIN trie[af])
        /\ HoldsBest(trie[af], prefixes[af])
    BY DEF LpmInv, TrieGood
  <2>2. Len(prefixes[af]) \in Nat /\ IsRuleLog(prefixes[af])
    BY <2>1, LogTyped
  <2>3. ASSUME NEW p \in DOMAIN trie[af] PROVE trie[af][p] \in Rules \union {NoRule}
    <3>1. At(prefixes[af], p) \subseteq 1 .. Len(prefixes[af])
      BY DEF At
    <3> QED BY <2>1, <2>2, <3>1, FirstIsRule DEF HoldsBest
  <2> QED BY <2>1, <2>3 DEF Rooted, BitStrings
<1> QED BY <1>1, <1>2 DEF LpmTypeOK

LEMMA PayloadTyped == PayloadInv /\ SomeByte => PayloadTypeOK
<1> SUFFICES ASSUME PayloadInv, SomeByte,
                    NEW m \in Masks, buckets[m] # Inactive,
                    NEW i \in Slots!Entries(buckets[m])
             PROVE  buckets[m][i].key \in Words /\ buckets[m][i].val \in Rules
  BY DEF PayloadTypeOK, SomeByte
<1> DEFINE t == buckets[m]
           key == t[i].key
           same == Alike(patterns, m, key)
<1>1. /\ Bucket(t) /\ Logged(patterns)
      /\ \A k \in Words :
            Slots!Find(t, k) = IF Alike(patterns, m, k) = {} THEN NoRule
                               ELSE Pair(k, FirstMostConfident(patterns, Alike(patterns, m, k)))
  BY DEF PayloadInv, Filled
<1>2. i \in SlotsP!Entries(t) /\ t[i] # NoRule
  BY DEF Slots!Entries, SlotsP!Entries
<1> HIDE DEF t
<1>3. key \in Words /\ SlotsP!Find(t, key) = t[i]
  BY <1>1, <1>2, SlotsP!FindHeld DEF Bucket, SlotsP!Good
<1>4. Slots!Find(t, key) = t[i]
  BY <1>3, SamePut
<1>5. same # {} /\ t[i] = Pair(key, FirstMostConfident(patterns, same))
  BY <1>1, <1>2, <1>3, <1>4
<1>6. FirstMostConfident(patterns, same) \in Rules
  <2>1. same \subseteq 1 .. Len(patterns)
    BY DEF Alike
  <2> HIDE DEF same
  <2> QED BY <1>1, <1>5, <2>1, FirstIsRule DEF Logged
<1>7. t[i].val = FirstMostConfident(patterns, same)
  BY <1>5 DEF Pair
<1> QED BY <1>3, <1>6, <1>7 DEF t

LEMMA TrieTyped == TrieInv => TrieTypeOK
<1> SUFFICES ASSUME TrieInv PROVE TrieTypeOK
  OBVIOUS
<1>1. PICK P : TrieOf(edges, nodes, names, P)
  BY DEF TrieInv
<1>2. nodes \in Seq(TrieNodes) /\ Tree(P, Len(nodes)) /\ Linked(edges, P)
  BY <1>1 DEF TrieOf
<1>3. ASSUME NEW i \in DOMAIN edges, edges[i] # NoRule
      PROVE  edges[i].val \in 2 .. Len(nodes)
  <2>1. edges[i].key \in EdgeKeys /\ Edges!Find(edges, edges[i].key) = edges[i]
    BY <1>2, <1>3, EdgeHeld DEF Linked
  <2>2. PICK p \in Numbers, h \in Hashes : edges[i].key = <<p, h>>
    BY <2>1 DEF EdgeKeys
  <2>3. Edge(edges, P, p, h) /\ Edges!Find(edges, <<p, h>>) # NoRule
    BY <1>2, <1>3, <2>1, <2>2 DEF Linked
  <2>4. PICK n \in DOMAIN P :
            P[n] = Append(P[p], h) /\ Edges!Find(edges, <<p, h>>) = Child(<<p, h>>, n)
    BY <2>3 DEF Edge
  <2>5. p \in DOMAIN P
    BY <2>3 DEF Edge
  <2>6. edges[i].val = n
    BY <2>1, <2>2, <2>4 DEF Child
  <2>7. n # Root
    <3>1. P[p] \in Seq(Hashes) /\ P[Root] = <<>>
      BY <1>2, <2>5 DEF Tree, Paths
    <3>2. Append(P[p], h) # <<>>
      BY <3>1, AppendProperties
    <3> QED BY <2>4, <3>1, <3>2
  <2>8. n \in 1 .. Len(nodes) /\ Len(nodes) \in Nat
    BY <1>2 DEF Tree
  <2> QED BY <2>6, <2>7, <2>8 DEF Root
<1>4. nodes \in Seq([exact : Rules \union {NoRule}, suffix : Rules \union {NoRule}])
  BY <1>2 DEF TrieNodes
<1>5. Len(nodes) <= MaxTrieNodes
  BY <1>2 DEF Tree
<1> QED BY <1>3, <1>4, <1>5 DEF TrieTypeOK

\* The state has its type: every node of a trie of prefixes comes with its ancestors and
\* a rule of the database, every edge between names leads to a node below the root, every
\* entry of a bucket is a masked word with a rule, and main never loads more than there is.
THEOREM TypeCorrect == Spec => []TypeOK
<1> DEFINE Inv == IInv /\ LpmInv /\ PayloadInv /\ SomeByte /\ TrieInv /\ MainInv
<1>1. Inv => TypeOK
  <2>1. IInv /\ MainInv => DecodeTypeOK
    BY DEF IInv, CursorInside, MainInv, StageInv, Stages, DecodeTypeOK
  <2> QED BY <2>1, LpmTyped, PayloadTyped, TrieTyped DEF TypeOK, MainInv, Phases
<1>2. Init => Inv
  <2>1. Init => SomeByte
    BY DEF Init, PayloadInit, SomeByte
  <2>2. Init => MainInv
    BY InputAssumption DEF Init, DecodeInit, MainInv, StageInv, Stages, Phases, Tables
  <2> QED
    BY <2>1, <2>2, InitInside, LpmInitGood, PayloadInitGood, TrieInitGood DEF Init
<1>3. Inv /\ [Next]_vars => Inv'
  BY NextInside, LpmNext, PayloadNext, SomeByteNext, TrieNext, MainNext
<1> QED BY <1>1, <1>2, <1>3, PTL DEF Spec
=============================================================================
