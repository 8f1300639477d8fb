---------------------------- MODULE EngineProofs ----------------------------
(***************************************************************************)
(* Theorems about the flow table and the engine that uses it, for every    *)
(* rule base, hash, capacity, window and traffic.                          *)
(***************************************************************************)
EXTENDS Engine, FunctionTheorems, FiniteSetTheorems, TLAPS

-----------------------------------------------------------------------------
(* The flow table finds every flow it holds, in one slot, from either end, *)
(* and counts its flows right.                                             *)
(*                                                                         *)
(* The inductive invariant says it of the stored key alone: every key lies *)
(* on its own probe, behind slots of other flows.  It survives an insert   *)
(* because used slots stay used, and an eviction because the flow that     *)
(* moves in was not to be found in any slot of its window.                 *)

OnItsProbe(i) ==
    \E k \in Probes : Reaches(slots[i].key, k) /\ i = Probe(slots[i].key, k)

TableInv ==
    /\ TableTypeOK
    /\ \A i \in SlotIds : slots[i].in_use => OnItsProbe(i)
    /\ CountIsOccupancy

\* No flow has two slots.
OneSlotPerFlow ==
    \A i, j \in Used : same_flow(slots[i].key, slots[j].key) => i = j

\* A probe stays inside the table, and its slots are pairwise different.
LEMMA ProbeInTable ==
    ASSUME NEW p \in Packets
    PROVE  /\ \A k \in Probes : Probe(p, k) \in SlotIds
           /\ \A k, m \in Probes : Probe(p, k) = Probe(p, m) => k = m
           /\ Probe(p, 0) \in SlotIds
<1>1. flow_hash(p) \in 0 .. Slots - 1
  BY TableAssumption DEF flow_hash, Packets, SlotIds
<1>2. Slots \in Nat \ {0} /\ Window \in 1 .. Slots
  BY TableAssumption
<1> QED BY <1>1, <1>2 DEF Probe, Probes, SlotIds

\* Packets of one flow, of either direction, have the same hash, so they probe the
\* same slots and pass the same ones.
LEMMA FlowsProbeAlike ==
    ASSUME NEW p \in Packets, NEW q \in Packets, same_flow(q, p)
    PROVE  /\ same_flow(p, q)
           /\ flow_hash(q) = flow_hash(p)
           /\ \A k : Probe(q, k) = Probe(p, k)
           /\ \A r \in Packets : same_flow(r, q) <=> same_flow(r, p)
<1>1. {q.src, q.dst} = {p.src, p.dst} /\ q.proto = p.proto
  BY DEF same_flow
<1>2. flow_hash(q) = flow_hash(p)
  BY <1>1 DEF flow_hash
<1>3. \A r \in Packets : same_flow(r, q) <=> same_flow(r, p)
  BY DEF same_flow, Packets
<1> QED BY <1>2, <1>3 DEF same_flow, Probe, Packets

\* A key on its own probe is found by every packet of its flow.
LEMMA FoundByAll ==
    ASSUME TableTypeOK, NEW i \in SlotIds, OnItsProbe(i),
           NEW p \in Packets, same_flow(slots[i].key, p)
    PROVE  \E k \in Probes : Reaches(p, k) /\ i = Probe(p, k)
<1> DEFINE q == slots[i].key
<1>1. q \in Packets
  BY DEF TableTypeOK, Entry
<1>2. PICK k \in Probes : Reaches(q, k) /\ i = Probe(q, k)
  BY DEF OnItsProbe
<1>3. /\ \A j : Probe(q, j) = Probe(p, j)
      /\ \A r \in Packets : same_flow(r, q) <=> same_flow(r, p)
  BY <1>1, FlowsProbeAlike
<1>4. ASSUME NEW j \in 0 .. k - 1
      PROVE  HeldByOther(p, Probe(p, j))
  <2>1. Probe(p, j) \in SlotIds
    BY ProbeInTable, TableAssumption DEF Probes
  <2>2. slots[Probe(p, j)].key \in Packets
    BY <2>1 DEF TableTypeOK, Entry
  <2> QED BY <1>2, <1>3, <2>2 DEF Reaches, HeldByOther
<1> QED BY <1>2, <1>3, <1>4 DEF Reaches

-----------------------------------------------------------------------------
\* calloc leaves a table that holds nothing.
LEMMA TableInitInv == TableInit => TableInv
<1> SUFFICES ASSUME TableInit PROVE TableInv
  OBVIOUS
<1>1. (CHOOSE p \in Packets : TRUE) \in Packets
  <2>1. PICK e \in Endpoints, t \in Protos : TRUE
    BY TableAssumption
  <2>2. [src |-> e, dst |-> e, proto |-> t] \in Packets
    BY DEF Packets
  <2> QED BY <2>2
<1>2. TableTypeOK
  BY <1>1 DEF TableInit, TableTypeOK, Entry
<1>3. Used = {}
  BY DEF TableInit, Used
<1>4. CountIsOccupancy
  <2>1. Cardinality(Used) = 0
    BY <1>3, FS_EmptySet
  <2>2. count = 0 /\ ~(evictions > 0)
    BY DEF TableInit
  <2> QED BY <2>1, <2>2 DEF CountIsOccupancy
<1> QED BY <1>2, <1>3, <1>4 DEF TableInv, Used

\* Insert and Evict put p into a slot of its window, so that the slot is a slot.
LEMMA StoreType ==
    ASSUME TableTypeOK, NEW p \in Packets, NEW i \in SlotIds, Insert(p, i) \/ Evict(p, i)
    PROVE  /\ TableTypeOK'
           /\ slots'[i] = [in_use |-> TRUE, key |-> p]
           /\ \A j \in SlotIds \ {i} : slots'[j] = slots[j]
<1>1. [in_use |-> TRUE, key |-> p] \in Entry
  BY DEF Entry
<1>2. slots' = [slots EXCEPT ![i] = [in_use |-> TRUE, key |-> p]]
  BY DEF Insert, Evict
<1>3. count' \in Nat /\ evictions' \in Nat
  BY DEF TableTypeOK, Insert, Evict, Evicted
<1> QED BY <1>1, <1>2, <1>3 DEF TableTypeOK

\* A used slot stays used.
LEMMA InsertKeepsProbes ==
    ASSUME TableInv, NEW p \in Packets, NEW i \in SlotIds, Insert(p, i)
    PROVE  \A t \in SlotIds : slots'[t].in_use => OnItsProbe(t)'
<1>0. TableTypeOK /\ Insert(p, i)
  BY DEF TableInv
<1>1. /\ TableTypeOK'
      /\ slots'[i] = [in_use |-> TRUE, key |-> p]
      /\ \A j \in SlotIds \ {i} : slots'[j] = slots[j]
  BY <1>0, StoreType
<1>2. ~slots[i].in_use
  BY DEF Insert
<1>3. ASSUME NEW q \in Packets, NEW k \in Probes, Reaches(q, k)
      PROVE  Reaches(q, k)'
  <2>1. ASSUME NEW j \in 0 .. k - 1
        PROVE  HeldByOther(q, Probe(q, j))'
    <3>1. HeldByOther(q, Probe(q, j))
      BY <1>3 DEF Reaches
    <3>2. Probe(q, j) \in SlotIds
      BY ProbeInTable, TableAssumption DEF Probes
    <3>3. Probe(q, j) # i
      BY <3>1, <1>2 DEF HeldByOther
    <3> QED BY <3>1, <3>2, <3>3, <1>1 DEF HeldByOther
  <2> QED BY <2>1 DEF Reaches
<1>4. ASSUME NEW t \in SlotIds, slots'[t].in_use, t # i
      PROVE  OnItsProbe(t)'
  <2>1. slots'[t] = slots[t] /\ slots[t].in_use /\ slots[t].key \in Packets
    BY <1>0, <1>1, <1>4 DEF TableTypeOK, Entry
  <2>2. PICK k \in Probes : Reaches(slots[t].key, k) /\ t = Probe(slots[t].key, k)
    BY <2>1 DEF TableInv, OnItsProbe
  <2> QED BY <1>3, <2>1, <2>2 DEF OnItsProbe
<1>5. OnItsProbe(i)'
  <2>1. PICK k \in Probes : Reaches(p, k) /\ i = Probe(p, k)
    BY DEF Insert
  <2> QED BY <1>1, <1>3, <2>1 DEF OnItsProbe
<1> QED BY <1>4, <1>5

\* The flow that takes over a slot had no slot before, so it hides nobody's.
LEMMA EvictKeepsProbes ==
    ASSUME TableInv, NEW p \in Packets, NEW i \in SlotIds, Evict(p, i)
    PROVE  \A t \in SlotIds : slots'[t].in_use => OnItsProbe(t)'
<1>0. TableTypeOK /\ Evict(p, i)
  BY DEF TableInv
<1>1. /\ TableTypeOK'
      /\ slots'[i] = [in_use |-> TRUE, key |-> p]
      /\ \A j \in SlotIds \ {i} : slots'[j] = slots[j]
  BY <1>0, StoreType
<1>2. Reaches(p, Window) /\ i = Probe(p, 0)
  BY DEF Evict
<1>3. OnItsProbe(i)'
  <2>1. 0 \in Probes
    BY TableAssumption DEF Probes
  <2>2. Reaches(p, 0)'
    BY DEF Reaches
  <2> QED BY <1>1, <1>2, <2>1, <2>2 DEF OnItsProbe
<1>4. ASSUME NEW t \in SlotIds, slots'[t].in_use, t # i
      PROVE  OnItsProbe(t)'
  <2> PICK q : q = slots[t].key
    OBVIOUS
  <2>1. slots'[t] = slots[t] /\ slots[t].in_use /\ q \in Packets
    BY <1>0, <1>1, <1>4 DEF TableTypeOK, Entry
  <2>2. PICK k \in Probes : Reaches(q, k) /\ t = Probe(q, k)
    BY <2>1 DEF TableInv, OnItsProbe
  <2>3. ~same_flow(p, q)
    <3>1. SUFFICES ASSUME same_flow(p, q) PROVE FALSE
      OBVIOUS
    <3>2. t = Probe(p, k) /\ same_flow(q, p)
      BY <2>1, <2>2, <3>1, FlowsProbeAlike
    <3>3. k \in 0 .. Window - 1
      BY <2>2 DEF Probes
    <3> QED BY <1>2, <3>2, <3>3 DEF Reaches, HeldByOther
  <2>4. ASSUME NEW j \in 0 .. k - 1
        PROVE  HeldByOther(q, Probe(q, j))'
    <3>1. HeldByOther(q, Probe(q, j))
      BY <2>2 DEF Reaches
    <3>2. Probe(q, j) \in SlotIds
      BY <2>1, ProbeInTable, TableAssumption DEF Probes
    <3>3. CASE Probe(q, j) = i
      BY <3>3, <1>1, <2>3 DEF HeldByOther
    <3>4. CASE Probe(q, j) # i
      BY <3>4, <3>1, <3>2, <1>1 DEF HeldByOther
    <3> QED BY <3>3, <3>4
  <2>5. Reaches(q, k)'
    BY <2>4 DEF Reaches
  <2> QED BY <2>1, <2>2, <2>5 DEF OnItsProbe
<1> QED BY <1>3, <1>4

\* An insert adds a slot to those in use.
LEMMA InsertCounts ==
    ASSUME TableInv, NEW p \in Packets, NEW i \in SlotIds, Insert(p, i)
    PROVE  CountIsOccupancy'
<1>1. /\ slots'[i] = [in_use |-> TRUE, key |-> p]
      /\ \A j \in SlotIds \ {i} : slots'[j] = slots[j]
  BY StoreType DEF TableInv
<1>2. Used' = Used \union {i} /\ i \notin Used
  BY <1>1 DEF Used, Insert
<1>3. IsFiniteSet(Used)
  <2>1. IsFiniteSet(SlotIds)
    BY FS_Interval, TableAssumption DEF SlotIds
  <2> QED BY <2>1, FS_Subset DEF Used
<1>4. Cardinality(Used') = Cardinality(Used) + 1
  BY <1>2, <1>3, FS_AddElement
<1>5. count' = count + 1 /\ evictions' = evictions /\ count \in Nat /\ Window \in Nat
  BY TableAssumption DEF Insert, TableInv, TableTypeOK
<1> QED BY <1>4, <1>5 DEF TableInv, CountIsOccupancy, Used

\* An eviction changes the owner of a slot in use, when a whole window is in use.
LEMMA EvictCounts ==
    ASSUME TableInv, NEW p \in Packets, NEW i \in SlotIds, Evict(p, i)
    PROVE  CountIsOccupancy'
<1>1. /\ slots'[i] = [in_use |-> TRUE, key |-> p]
      /\ \A j \in SlotIds \ {i} : slots'[j] = slots[j]
  BY StoreType DEF TableInv
<1>2. \A k \in Probes : Probe(p, k) \in Used
  BY ProbeInTable DEF Evict, Reaches, HeldByOther, Probes, Used
<1>3. i \in Used
  BY <1>2, TableAssumption DEF Evict, Probes
<1>4. Used' = Used
  BY <1>1, <1>3 DEF Used
<1>5. IsFiniteSet(Used)
  <2>1. IsFiniteSet(SlotIds)
    BY FS_Interval, TableAssumption DEF SlotIds
  <2> QED BY <2>1, FS_Subset DEF Used
<1>6. Window <= Cardinality(Used)
  <2> DEFINE f == [k \in Probes |-> Probe(p, k)]
  <2>1. f \in Injection(Probes, Used)
    BY <1>2, ProbeInTable DEF Injection, IsInjective
  <2>2. Cardinality(Probes) <= Cardinality(Used)
    BY <2>1, <1>5, FS_Injection
  <2>3. Cardinality(Probes) = Window
    BY FS_Interval, TableAssumption DEF Probes
  <2> QED BY <2>2, <2>3
<1>7. count' = count
  BY DEF Evict, Evicted
<1> QED BY <1>4, <1>6, <1>7 DEF TableInv, CountIsOccupancy, Used

\* Every lookup keeps the invariant, and so does every step that leaves the table
\* alone.
LEMMA TableStep == TableInv /\ [TableNext]_tableVars => TableInv'
<1> SUFFICES ASSUME TableInv, [TableNext]_tableVars PROVE TableInv'
  OBVIOUS
<1>1. CASE UNCHANGED tableVars
  BY <1>1 DEF tableVars, TableInv, TableTypeOK, OnItsProbe, Reaches, HeldByOther,
              CountIsOccupancy, Used
<1>2. CASE TableNext
  <2>1. PICK p \in Packets, i \in SlotIds : Lookup(p, i)
    BY <1>2 DEF TableNext
  <2>2. CASE Find(p, i)
    BY <1>1, <2>2 DEF Find
  <2>3. CASE Insert(p, i)
    BY <2>3, StoreType, InsertKeepsProbes, InsertCounts DEF TableInv
  <2>4. CASE Evict(p, i)
    BY <2>4, StoreType, EvictKeepsProbes, EvictCounts DEF TableInv
  <2> QED BY <2>1, <2>2, <2>3, <2>4 DEF Lookup
<1> QED BY <1>1, <1>2

\* The invariant holds throughout.
THEOREM TableInvariance == TableSpec => []TableInv
BY TableInitInv, TableStep, PTL DEF TableSpec

\* What the invariant says of packets: they find their flow, in its only slot.
LEMMA TableInvImplies == TableInv => FoundFromEitherEnd /\ OneSlotPerFlow
<1> SUFFICES ASSUME TableInv PROVE FoundFromEitherEnd /\ OneSlotPerFlow
  OBVIOUS
<1>1. FoundFromEitherEnd
  <2> SUFFICES ASSUME NEW i \in SlotIds, slots[i].in_use,
                      NEW p \in {slots[i].key, Reverse(slots[i].key)}
               PROVE  /\ same_flow(slots[i].key, p)
                      /\ \E k \in Probes : Reaches(p, k) /\ i = Probe(p, k)
    BY DEF FoundFromEitherEnd
  <2>1. slots[i].key \in Packets
    BY DEF TableInv, TableTypeOK, Entry
  <2>2. p \in Packets /\ same_flow(slots[i].key, p)
    BY <2>1 DEF Reverse, Packets, same_flow
  <2> QED BY <2>2, FoundByAll DEF TableInv
<1>2. OneSlotPerFlow
  <2> SUFFICES ASSUME NEW i \in Used, NEW j \in Used,
                      same_flow(slots[i].key, slots[j].key)
               PROVE  i = j
    BY DEF OneSlotPerFlow
  <2> DEFINE p == slots[j].key
  <2>1. i \in SlotIds /\ j \in SlotIds /\ p \in Packets /\ same_flow(slots[i].key, p)
    BY DEF TableInv, TableTypeOK, Entry, Used
  <2>2. same_flow(p, p)
    BY DEF same_flow
  <2>3. PICK k \in Probes : Reaches(p, k) /\ i = Probe(p, k)
    BY <2>1, FoundByAll DEF TableInv, Used
  <2>4. PICK m \in Probes : Reaches(p, m) /\ j = Probe(p, m)
    BY <2>1, <2>2, FoundByAll DEF TableInv, Used
  <2>5. ~(k < m)
    BY <2>1, <2>3, <2>4 DEF Reaches, HeldByOther, Probes
  <2>6. ~(m < k)
    BY <2>2, <2>3, <2>4 DEF Reaches, HeldByOther, Probes
  <2>7. k = m
    BY <2>5, <2>6 DEF Probes
  <2> QED BY <2>3, <2>4, <2>7
<1> QED BY <1>1, <1>2

\* Every flow in the table is found by the packets of both its directions.
THEOREM FlowsAreFound == TableSpec => []FoundFromEitherEnd
BY TableInvariance, TableInvImplies, PTL

\* No flow ever has two slots, so its verdict is never split.
THEOREM FlowsAreUnique == TableSpec => []OneSlotPerFlow
BY TableInvariance, TableInvImplies, PTL

\* ngfw_flow_count is the occupancy, and evictions need a full window.
THEOREM OccupancyCounted == TableSpec => []CountIsOccupancy
<1>1. TableInv => CountIsOccupancy
  BY DEF TableInv
<1> QED BY <1>1, TableInvariance, PTL

-----------------------------------------------------------------------------
(* What the engine says of a flow is sound.                                *)
(*                                                                         *)
(* The engine's steps on the table are lookups, so the table's theorems    *)
(* hold of it.  The rest is an invariant of each slot by itself, kept by   *)
(* each of the three stages; it adds to the properties that an answer of   *)
(* tier B or better is the rule of a name, which is what makes a final     *)
(* verdict one, and that a free slot has no final verdict, which is what   *)
(* makes the count of finals right when a slot is used again.              *)

Lines == [kind : {"none", "provisional", "final", "nomatch"}, app : Rules \union {NoRule}]

StrongIsName(v) == v.best # NoRule => v.best \in NameRules \/ v.best.tier > TierB

Strongest(v, h) ==
    /\ \A r \in h : v.best # NoRule /\ ~Stronger(r, v.best)
    /\ v.best # NoRule => v.best \in h

FinalIsName(v) ==
    v.is_final => "SNI" \in v.evidence /\ v.best \in NameRules /\ v.best.tier <= TierB

Told(v, l) ==
    /\ l.app = v.best
    /\ l.kind = "final" <=> v.is_final
    /\ v.best # NoRule \/ v.master # NoRule => l.kind # "none"

SlotSound(v, l, h) ==
    /\ v \in Verdict /\ l \in Lines /\ h \subseteq Rules
    /\ StrongIsName(v) /\ Strongest(v, h) /\ FinalIsName(v) /\ Told(v, l)

\* What the assumptions on the rule base say of single rules.
LEMMA RuleFields ==
    /\ \A r \in Rules : r.tier \in Nat /\ r.conf \in Nat
    /\ NoRule \notin Rules /\ NoRule \notin Protocols /\ NameRules \subseteq Rules
BY EngineAssumption

\* A flow starts from nothing.
LEMMA FreshSound == SlotSound(FreshVerdict, NoLine, {})
BY EngineAssumption DEF SlotSound, FreshVerdict, NoLine, Verdict, Lines, StrongIsName,
    Strongest, FinalIsName, Told

\* Counting a packet leaves everything else alone.
LEMMA BumpSound ==
    ASSUME NEW v, NEW l, NEW h, SlotSound(v, l, h)
    PROVE  SlotSound(Bump(v), l, h) /\ Bump(v).best = v.best
           /\ Bump(v).is_final = v.is_final /\ Bump(v).evidence = v.evidence
<1>1. PacketModulus \in Nat \ {0} /\ v.packets \in Nat
  BY EngineAssumption DEF SlotSound, Verdict
<1>2. (v.packets + 1) % PacketModulus \in 0 .. PacketModulus - 1
  BY <1>1
<1>3. Bump(v) = [best |-> v.best, master |-> v.master, evidence |-> v.evidence,
                 is_final |-> v.is_final, packets |-> (v.packets + 1) % PacketModulus]
  BY DEF Bump, SlotSound, Verdict
<1> QED BY <1>2, <1>3 DEF SlotSound, Verdict, StrongIsName, Strongest, FinalIsName, Told

-----------------------------------------------------------------------------
(* The stages *)

\* The payload stage sets the protocol and leaves the answer alone.
LEMMA PayloadKeeps ==
    ASSUME NEW v, NEW l, NEW h, SlotSound(v, l, h), ~v.is_final,
           NEW p \in Traffic, NEW c \in Contents(p)
    PROVE  LET a == PayloadStage(v, l, c) IN
           /\ SlotSound(a.v, a.l, h) /\ ~a.v.is_final /\ a.v.best = v.best
           /\ "IP" \in a.v.evidence <=> "IP" \in v.evidence
<1> DEFINE a == PayloadStage(v, l, c)
<1>1. CASE "PAYLOAD" \in v.evidence \/ c.protocol = NoRule
  BY <1>1 DEF PayloadStage
<1>2. CASE ~("PAYLOAD" \in v.evidence \/ c.protocol = NoRule)
  <2>1. a.v = [best |-> v.best, master |-> c.protocol,
               evidence |-> v.evidence \union {"PAYLOAD"}, is_final |-> v.is_final,
               packets |-> v.packets]
    BY <1>2 DEF PayloadStage, SlotSound, Verdict
  <2>2. a.l = IF v.best = NoRule THEN [kind |-> "provisional", app |-> NoRule] ELSE l
    BY <1>2 DEF PayloadStage, Line
  <2>3. c.protocol \in Protocols \union {NoRule}
    BY DEF Contents
  <2>4. a.v \in Verdict
    BY <2>1, <2>3 DEF SlotSound, Verdict
  <2>5. a.l \in Lines /\ Told(a.v, a.l)
    BY <2>1, <2>2 DEF SlotSound, Verdict, Lines, Told
  <2>6. StrongIsName(a.v) /\ Strongest(a.v, h) /\ FinalIsName(a.v)
    BY <2>1 DEF SlotSound, StrongIsName, Strongest, FinalIsName
  <2> QED BY <2>1, <2>4, <2>5, <2>6 DEF SlotSound
<1> QED BY <1>1, <1>2

\* The rule the address stage adds to what the flow has heard.
HeardAddress(v, p) ==
    (IF "IP" \in v.evidence THEN {} ELSE {AddressEvidence(p)}) \intersect Rules

\* The address stage adds its rule to what was heard and takes it if it is better.
LEMMA AddressKeeps ==
    ASSUME NEW v, NEW l, NEW h, SlotSound(v, l, h), ~v.is_final, NEW p \in Traffic
    PROVE  LET b == AddressStage(v, l, p) IN
           SlotSound(b.v, b.l, h \union HeardAddress(v, p)) /\ ~b.v.is_final
<1> DEFINE b == AddressStage(v, l, p)
           r == AddressEvidence(p)
           g == h \union HeardAddress(v, p)
<1>1. r \in Rules \union {NoRule} /\ (r # NoRule => r.tier > TierB)
  <2>1. p.dst \in Endpoints /\ p.src \in Endpoints
    BY EngineAssumption DEF Packets
  <2> QED BY <2>1, EngineAssumption DEF AddressEvidence
<1>2. CASE "IP" \in v.evidence \/ r = NoRule
  <2>1. b.v = v /\ b.l = l
    BY <1>2 DEF AddressStage
  <2>2. g = h
    BY <1>2, RuleFields DEF HeardAddress
  <2> QED BY <2>1, <2>2
<1>3. CASE ~("IP" \in v.evidence \/ r = NoRule)
  <2>0. g = h \union {r} /\ r \in Rules
    BY <1>1, <1>3 DEF HeardAddress
  <2>1. CASE evidence_is_better(v.best, r)
    <3>1. /\ b.v = [best |-> r, master |-> v.master, evidence |-> v.evidence \union {"IP"},
                    is_final |-> v.is_final, packets |-> v.packets]
          /\ b.l = [kind |-> "provisional", app |-> r]
      BY <1>3, <2>1 DEF AddressStage, Line, SlotSound, Verdict
    <3>2. b.v \in Verdict /\ b.l \in Lines /\ g \subseteq Rules
      BY <2>0, <3>1 DEF SlotSound, Verdict, Lines
    <3>3. StrongIsName(b.v) /\ FinalIsName(b.v) /\ Told(b.v, b.l)
      BY <1>1, <1>3, <3>1 DEF StrongIsName, FinalIsName, Told
    <3>4. ASSUME NEW q \in g PROVE ~Stronger(q, r)
      <4>1. q \in Rules
        BY <3>2
      <4>2. CASE v.best = NoRule
        BY <2>0, <4>2, <4>1, RuleFields DEF SlotSound, Strongest, Stronger
      <4>3. CASE v.best # NoRule
        BY <2>0, <2>1, <4>1, <4>3, RuleFields
           DEF SlotSound, Verdict, Strongest, Stronger, evidence_is_better
      <4> QED BY <4>2, <4>3
    <3> QED BY <1>3, <2>0, <3>1, <3>2, <3>3, <3>4 DEF SlotSound, Strongest
  <2>2. CASE ~evidence_is_better(v.best, r)
    <3>1. /\ b.v = [best |-> v.best, master |-> v.master,
                    evidence |-> v.evidence \union {"IP"},
                    is_final |-> v.is_final, packets |-> v.packets]
          /\ b.l = l
      BY <1>3, <2>2 DEF AddressStage, SlotSound, Verdict
    <3>2. b.v \in Verdict /\ b.l \in Lines /\ g \subseteq Rules
      BY <2>0, <3>1 DEF SlotSound, Verdict
    <3>3. StrongIsName(b.v) /\ FinalIsName(b.v) /\ Told(b.v, b.l)
      BY <3>1 DEF SlotSound, StrongIsName, FinalIsName, Told
    <3>4. v.best # NoRule /\ ~Stronger(r, v.best)
      BY <2>2 DEF evidence_is_better, Stronger
    <3> QED BY <2>0, <3>1, <3>2, <3>3, <3>4 DEF SlotSound, Strongest
  <2> QED BY <2>1, <2>2
<1> QED BY <1>2, <1>3

\* The name stage adds the name's rule, and decides whether the verdict is final.
LEMMA NameKeeps ==
    ASSUME NEW v, NEW l, NEW h, SlotSound(v, l, h), ~v.is_final,
           NEW p \in Traffic, NEW c \in Contents(p)
    PROVE  LET n == NameStage(v, l, c) IN
           SlotSound(n.v, n.l, h \union ({c.name} \intersect Rules))
<1> DEFINE n == NameStage(v, l, c)
           g == h \union ({c.name} \intersect Rules)
<1>0. c.name \in NameRules \union {NoRule} /\ (~c.hello => c.name = NoRule)
  BY DEF Contents
<1>1. CASE ~c.hello
  <2>1. n.v = v /\ n.l = l /\ g = h
    BY <1>0, <1>1, RuleFields DEF NameStage
  <2> QED BY <2>1
<1>2. CASE c.hello /\ c.name = NoRule
  <2>1. /\ n.v = v /\ g = h
        /\ n.l = [kind |-> IF v.best = NoRule THEN "nomatch" ELSE "provisional",
                  app |-> v.best]
    BY <1>2, RuleFields DEF NameStage, Line
  <2>2. n.l \in Lines /\ Told(n.v, n.l)
    BY <2>1 DEF SlotSound, Verdict, Lines, Told
  <2> QED BY <2>1, <2>2 DEF SlotSound
<1>3. CASE c.hello /\ c.name # NoRule
  <2> DEFINE best == Adopt(v.best, c.name)
  <2>1. /\ n.v = [best |-> best, master |-> v.master,
                  evidence |-> v.evidence \union {"SNI"},
                  is_final |-> Final(best), packets |-> v.packets]
        /\ n.l = [kind |-> IF Final(best) THEN "final" ELSE "provisional", app |-> best]
    BY <1>3 DEF NameStage, Line, SlotSound, Verdict
  <2>2. c.name \in NameRules /\ c.name \in Rules /\ g = h \union {c.name}
    BY <1>0, <1>3, RuleFields
  <2>3. best \in Rules /\ best \in {v.best, c.name}
    BY <2>2 DEF Adopt, evidence_is_better, SlotSound, Verdict
  <2>4. Final(best) \in BOOLEAN
    BY DEF Final
  <2>5. n.v \in Verdict /\ n.l \in Lines /\ g \subseteq Rules
    BY <2>1, <2>2, <2>3, <2>4 DEF SlotSound, Verdict, Lines
  <2>6. Told(n.v, n.l)
    BY <2>1 DEF Told
  <2>7. best \in NameRules \/ best.tier > TierB
    BY <2>2, <2>3, RuleFields DEF SlotSound, StrongIsName
  <2>8. StrongIsName(n.v) /\ FinalIsName(n.v)
    <3>1. n.v.best = best /\ n.v.is_final = Final(best) /\ "SNI" \in n.v.evidence
      BY <2>1
    <3>2. Final(best) => best \in NameRules /\ best.tier <= TierB
      BY <2>3, <2>7, RuleFields DEF Final, TierB
    <3> QED BY <2>7, <3>1, <3>2 DEF StrongIsName, FinalIsName
  <2>9. ASSUME NEW q \in g PROVE ~Stronger(q, best)
    <3>1. q \in Rules
      BY <2>5
    <3>2. CASE v.best = NoRule
      BY <2>2, <3>1, <3>2, RuleFields
         DEF Adopt, evidence_is_better, SlotSound, Strongest, Stronger
    <3>3. CASE v.best # NoRule
      BY <2>2, <3>1, <3>3, RuleFields
         DEF Adopt, evidence_is_better, SlotSound, Verdict, Strongest, Stronger
    <3> QED BY <3>2, <3>3
  <2>10. best \in g
    BY <2>2, <2>3, RuleFields DEF SlotSound, Strongest
  <2> QED BY <2>1, <2>3, <2>5, <2>6, <2>8, <2>9, <2>10, RuleFields
          DEF SlotSound, Strongest
<1> QED BY <1>1, <1>2, <1>3

\* All that a packet does to a slot that is open.
LEMMA StagesKeep ==
    ASSUME NEW v, NEW l, NEW h, SlotSound(v, l, h), ~v.is_final,
           NEW p \in Traffic, NEW c \in Contents(p)
    PROVE  LET r == Stages(v, l, p, c) IN
           SlotSound(r.v, r.l, h \union Heard(v, p, c))
<1> DEFINE a == PayloadStage(v, l, c)
           b == AddressStage(a.v, a.l, p)
           n == NameStage(b.v, b.l, c)
<1>1. /\ SlotSound(a.v, a.l, h) /\ ~a.v.is_final
      /\ "IP" \in a.v.evidence <=> "IP" \in v.evidence
  BY PayloadKeeps
<1>2. SlotSound(b.v, b.l, h \union HeardAddress(a.v, p)) /\ ~b.v.is_final
  BY <1>1, AddressKeeps
<1>3. SlotSound(n.v, n.l, (h \union HeardAddress(a.v, p)) \union ({c.name} \intersect Rules))
  BY <1>2, NameKeeps
<1>4. (h \union HeardAddress(a.v, p)) \union ({c.name} \intersect Rules)
          = h \union Heard(v, p, c)
  BY <1>1 DEF HeardAddress, Heard
<1>5. Stages(v, l, p, c) = n
  BY DEF Stages
<1> QED BY <1>3, <1>4, <1>5

-----------------------------------------------------------------------------
(* The engine *)

EngineInv ==
    /\ TypeOK
    /\ TableInv
    /\ \A i \in SlotIds : SlotSound(verdict[i], line[i], heard[i])
    /\ \A i \in SlotIds : verdict[i].is_final => slots[i].in_use
    /\ FinalsCounted

\* One packet of the flow in slot i, from what the flow had (v, l, h, n): the slot
\* stays sound, the others are untouched, and finals counts the step to final.
LEMMA ClassifyKeeps ==
    ASSUME TypeOK, NEW i \in SlotIds, NEW p \in Traffic, NEW c \in Contents(p),
           NEW v, NEW l, NEW h, NEW n \in Nat, SlotSound(v, l, h),
           Classify(p, c, i, v, l, h, n)
    PROVE  /\ verdict' \in [SlotIds -> Verdict] /\ line' \in [SlotIds -> Lines]
           /\ heard' \in [SlotIds -> SUBSET Rules] /\ inspected' \in [SlotIds -> Nat]
           /\ SlotSound(verdict'[i], line'[i], heard'[i])
           /\ \A j \in SlotIds \ {i} : /\ verdict'[j] = verdict[j] /\ line'[j] = line[j]
                                       /\ heard'[j] = heard[j]
           /\ finals' = IF verdict'[i].is_final /\ ~v.is_final THEN finals + 1 ELSE finals
           /\ v.is_final => verdict'[i].is_final
<1> DEFINE w == Bump(v)
           r == Stages(w, l, p, c)
<1>1. SlotSound(w, l, h) /\ w.is_final = v.is_final
  BY BumpSound
<1>2. /\ verdict \in [SlotIds -> Verdict] /\ line \in [SlotIds -> Lines]
      /\ heard \in [SlotIds -> SUBSET Rules] /\ inspected \in [SlotIds -> Nat]
  BY DEF TypeOK, Lines
<1>3. CASE ~Open(w)
  <2>1. /\ verdict' = [verdict EXCEPT ![i] = w] /\ line' = [line EXCEPT ![i] = l]
        /\ heard' = [heard EXCEPT ![i] = h] /\ inspected' = [inspected EXCEPT ![i] = n]
        /\ finals' = finals
    BY <1>3 DEF Classify
  <2>2. w \in Verdict /\ l \in Lines /\ h \subseteq Rules
    BY <1>1 DEF SlotSound
  <2> HIDE DEF w
  <2> QED BY <1>1, <1>2, <2>1, <2>2
<1>4. CASE Open(w)
  <2>1. ~w.is_final
    BY <1>4 DEF Open
  <2>2. SlotSound(r.v, r.l, h \union Heard(w, p, c))
    BY <1>1, <2>1, StagesKeep
  <2>3. /\ verdict' = [verdict EXCEPT ![i] = r.v] /\ line' = [line EXCEPT ![i] = r.l]
        /\ heard' = [heard EXCEPT ![i] = h \union Heard(w, p, c)]
        /\ inspected' = [inspected EXCEPT ![i] = n + 1]
        /\ finals' = IF r.v.is_final THEN finals + 1 ELSE finals
    BY <1>4 DEF Classify
  <2>4. r.v \in Verdict /\ r.l \in Lines /\ h \union Heard(w, p, c) \subseteq Rules
    BY <2>2 DEF SlotSound
  <2> HIDE DEF w, r
  <2> QED BY <1>1, <1>2, <2>1, <2>2, <2>3, <2>4
<1> QED BY <1>3, <1>4

\* The final verdicts in the table.
FinalSlots == {i \in Used : verdict[i].is_final}

\* They can be counted.
LEMMA FinalSlotsFinite == IsFiniteSet(FinalSlots)
<1>1. IsFiniteSet(SlotIds)
  BY FS_Interval, TableAssumption DEF SlotIds
<1> QED BY <1>1, FS_Subset DEF FinalSlots, Used

\* The invariant holds of an engine that has read nothing.
LEMMA EngineInitInv == Init => EngineInv
<1> SUFFICES ASSUME Init PROVE EngineInv
  OBVIOUS
<1>1. TableInv
  BY TableInitInv DEF Init
<1>2. \A i \in SlotIds : SlotSound(verdict[i], line[i], heard[i])
  BY FreshSound DEF Init
<1>3. FreshVerdict \in Verdict /\ NoLine \in Lines
  BY FreshSound DEF SlotSound
<1>4. TypeOK
  BY <1>1, <1>3 DEF Init, TypeOK, TableInv, Lines
<1>5. \A i \in SlotIds : ~verdict[i].is_final
  BY DEF Init, FreshVerdict
<1>6. FinalSlots = {}
  BY <1>5 DEF FinalSlots, Used
<1>7. FinalsCounted
  <2>1. Cardinality(FinalSlots) = 0
    BY <1>6, FS_EmptySet
  <2> QED BY <2>1 DEF Init, FinalsCounted, FinalSlots
<1> QED BY <1>1, <1>2, <1>4, <1>5, <1>7 DEF EngineInv

\* A packet of a flow that is in the table.
LEMMA FoundKeeps ==
    ASSUME EngineInv, NEW p \in Traffic, NEW c \in Contents(p), NEW i \in SlotIds,
           Find(p, i), lost' = lost,
           Classify(p, c, i, verdict[i], line[i], heard[i], inspected[i])
    PROVE  /\ \A j \in SlotIds : SlotSound(verdict'[j], line'[j], heard'[j])
           /\ \A j \in SlotIds : verdict'[j].is_final => slots'[j].in_use
           /\ FinalsCounted'
<1>1. TypeOK /\ SlotSound(verdict[i], line[i], heard[i]) /\ inspected[i] \in Nat
  BY DEF EngineInv, TypeOK
<1>2. /\ SlotSound(verdict'[i], line'[i], heard'[i])
      /\ \A j \in SlotIds \ {i} : /\ verdict'[j] = verdict[j] /\ line'[j] = line[j]
                                  /\ heard'[j] = heard[j]
      /\ finals' = IF verdict'[i].is_final /\ ~verdict[i].is_final THEN finals + 1 ELSE finals
      /\ verdict[i].is_final => verdict'[i].is_final
  BY <1>1, ClassifyKeeps
<1>3. slots' = slots /\ slots[i].in_use
  BY DEF Find, tableVars
<1>4. FinalsCounted'
  <2>1. FinalSlots' = IF verdict'[i].is_final THEN FinalSlots \union {i} ELSE FinalSlots
    BY <1>2, <1>3 DEF FinalSlots, Used
  <2>2. i \in FinalSlots <=> verdict[i].is_final
    BY <1>3 DEF FinalSlots, Used
  <2>3. Cardinality(FinalSlots \union {i})
            = IF i \in FinalSlots THEN Cardinality(FinalSlots) ELSE Cardinality(FinalSlots) + 1
    BY FinalSlotsFinite, FS_AddElement
  <2>4. Cardinality(FinalSlots) \in Nat /\ finals \in Nat /\ lost \in Nat
        /\ finals = Cardinality(FinalSlots) + lost
    BY FinalSlotsFinite, FS_CardinalityType DEF EngineInv, TypeOK, FinalsCounted, FinalSlots
  <2>5. finals' = Cardinality(FinalSlots') + lost'
    BY <1>2, <2>1, <2>2, <2>3, <2>4
  <2> QED BY <2>5 DEF FinalsCounted, FinalSlots
<1> QED BY <1>2, <1>3, <1>4 DEF EngineInv

\* A packet of a flow that is not: it starts from nothing, in a free slot or in
\* the slot of the flow it evicts, whose final verdict is then among the lost.
LEMMA NewFlowKeeps ==
    ASSUME EngineInv, NEW p \in Traffic, NEW c \in Contents(p), NEW i \in SlotIds,
           Insert(p, i) \/ Evict(p, i),
           lost' = IF verdict[i].is_final THEN lost + 1 ELSE lost,
           Classify(p, c, i, NewVerdict(i), NoLine, {}, 0)
    PROVE  /\ \A j \in SlotIds : SlotSound(verdict'[j], line'[j], heard'[j])
           /\ \A j \in SlotIds : verdict'[j].is_final => slots'[j].in_use
           /\ FinalsCounted'
<1>1. TypeOK /\ SlotSound(NewVerdict(i), NoLine, {}) /\ ~NewVerdict(i).is_final
  BY FreshSound DEF EngineInv, NewVerdict, FreshVerdict
<1>2. /\ SlotSound(verdict'[i], line'[i], heard'[i])
      /\ \A j \in SlotIds \ {i} : /\ verdict'[j] = verdict[j] /\ line'[j] = line[j]
                                  /\ heard'[j] = heard[j]
      /\ finals' = IF verdict'[i].is_final THEN finals + 1 ELSE finals
  BY <1>1, ClassifyKeeps
<1>3. /\ slots'[i] = [in_use |-> TRUE, key |-> p]
      /\ \A j \in SlotIds \ {i} : slots'[j] = slots[j]
  <2>1. p \in Packets /\ TableTypeOK
    BY EngineAssumption DEF EngineInv, TableInv
  <2> QED BY <2>1, StoreType
<1>4. verdict[i].is_final => slots[i].in_use
  BY DEF EngineInv
<1>5. FinalsCounted'
  <2> DEFINE rest == FinalSlots \ {i}
  <2>1. FinalSlots' = IF verdict'[i].is_final THEN rest \union {i} ELSE rest
    BY <1>2, <1>3 DEF FinalSlots, Used
  <2>2. i \in FinalSlots <=> verdict[i].is_final
    BY <1>4 DEF FinalSlots, Used
  <2>3. /\ IsFiniteSet(rest)
        /\ Cardinality(rest)
            = IF i \in FinalSlots THEN Cardinality(FinalSlots) - 1 ELSE Cardinality(FinalSlots)
    BY FinalSlotsFinite, FS_RemoveElement
  <2>4. Cardinality(rest \union {i}) = Cardinality(rest) + 1
    BY <2>3, FS_AddElement
  <2>5. Cardinality(FinalSlots) \in Nat /\ finals \in Nat /\ lost \in Nat
        /\ finals = Cardinality(FinalSlots) + lost
    BY FinalSlotsFinite, FS_CardinalityType DEF EngineInv, TypeOK, FinalsCounted, FinalSlots
  <2> HIDE DEF rest
  <2>6. finals' = Cardinality(FinalSlots') + lost'
    BY <1>2, <2>1, <2>2, <2>3, <2>4, <2>5
  <2> QED BY <2>6 DEF FinalsCounted, FinalSlots
<1> QED BY <1>2, <1>3, <1>5 DEF EngineInv

\* The engine touches its table by lookups alone.
LEMMA StepIsLookup == [Next]_vars => [TableNext]_tableVars
<1>1. ASSUME NEW p \in Traffic, NEW c \in Contents(p), Packet(p, c)
      PROVE  TableNext
  BY <1>1, EngineAssumption DEF Packet, TableNext, Lookup
<1> QED BY <1>1 DEF Next, Undecodable, vars, tableVars

\* Every packet, decodable or not, keeps the invariant.
LEMMA EngineStep == EngineInv /\ [Next]_vars => EngineInv'
<1> SUFFICES ASSUME EngineInv, [Next]_vars PROVE EngineInv'
  OBVIOUS
<1>1. TableInv'
  BY StepIsLookup, TableStep DEF EngineInv
<1>2. CASE UNCHANGED <<tableVars, verdict, line, finals, heard, inspected, lost>>
  <2>1. total' \in Nat
    BY <1>2 DEF Next, Undecodable, Packet, vars, EngineInv, TypeOK
  <2> QED BY <1>1, <1>2, <2>1 DEF EngineInv, TypeOK, TableInv, FinalsCounted, Used, tableVars
<1>3. ASSUME NEW p \in Traffic, NEW c \in Contents(p), Packet(p, c)
      PROVE  EngineInv'
  <2>1. PICK i \in SlotIds :
           \/ /\ Find(p, i)
              /\ Classify(p, c, i, verdict[i], line[i], heard[i], inspected[i])
              /\ lost' = lost
           \/ /\ Insert(p, i) \/ Evict(p, i)
              /\ Classify(p, c, i, NewVerdict(i), NoLine, {}, 0)
              /\ lost' = IF verdict[i].is_final THEN lost + 1 ELSE lost
    BY <1>3 DEF Packet
  <2>2. /\ \A j \in SlotIds : SlotSound(verdict'[j], line'[j], heard'[j])
        /\ \A j \in SlotIds : verdict'[j].is_final => slots'[j].in_use
        /\ FinalsCounted'
    BY <2>1, FoundKeeps, NewFlowKeeps
  <2>3. /\ verdict' \in [SlotIds -> Verdict] /\ line' \in [SlotIds -> Lines]
        /\ heard' \in [SlotIds -> SUBSET Rules] /\ inspected' \in [SlotIds -> Nat]
        /\ finals' \in {finals, finals + 1}
    <3>1. TypeOK /\ SlotSound(verdict[i], line[i], heard[i]) /\ inspected[i] \in Nat
      BY DEF EngineInv, TypeOK
    <3>2. SlotSound(NewVerdict(i), NoLine, {})
      BY FreshSound DEF NewVerdict
    <3> QED BY <2>1, <3>1, <3>2, ClassifyKeeps
  <2>4. total' \in Nat /\ lost' \in Nat /\ finals' \in Nat
    BY <1>3, <2>1, <2>3 DEF Packet, EngineInv, TypeOK
  <2>5. TypeOK'
    BY <1>1, <2>3, <2>4 DEF TypeOK, TableInv, Lines
  <2> QED BY <1>1, <2>2, <2>5 DEF EngineInv
<1> QED BY <1>2, <1>3 DEF Next, Undecodable, vars

\* The invariant holds throughout.
THEOREM EngineInvariance == Spec => []EngineInv
BY EngineInitInv, EngineStep, PTL DEF Spec

\* The invariant says all that the properties ask.
LEMMA EngineInvImplies ==
    EngineInv => TypeOK /\ VerdictIsStrongest /\ FinalByName /\ LastLineTrue /\ FinalsCounted
BY DEF EngineInv, SlotSound, VerdictIsStrongest, Strongest, FinalByName, FinalIsName,
       LastLineTrue, Told

\* Every variable keeps its type; in particular packets stays in its 16 bits.
THEOREM EngineTypeCorrect == Spec => []TypeOK
BY EngineInvariance, EngineInvImplies, PTL

\* Whatever the order of the evidence, the verdict is the strongest of it.
THEOREM FusionIsSound == Spec => []VerdictIsStrongest
BY EngineInvariance, EngineInvImplies, PTL

\* Given that address rules are of tier C, no verdict becomes final by an address.
THEOREM FinalsAreNames == Spec => []FinalByName
BY EngineInvariance, EngineInvImplies, PTL

\* What was printed last of a flow is what the engine knows of it.
THEOREM OutputIsVerdict == Spec => []LastLineTrue
BY EngineInvariance, EngineInvImplies, PTL

\* The summary counts every final verdict once.
THEOREM FinalsAreCounted == Spec => []FinalsCounted
BY EngineInvariance, EngineInvImplies, PTL

\* The engine drives the flow table as its interface says, so the table's theorems
\* hold of the engine.
THEOREM EngineUsesTable == Spec => TableSpec
<1>1. Init => TableInit
  BY DEF Init
<1> QED BY <1>1, StepIsLookup, PTL DEF Spec, TableSpec

-----------------------------------------------------------------------------
(* The engine implements FlowMemory: hiding slots, probes, directions and  *)
(* stages, it is a map from flows to answers that only improve, freeze     *)
(* when final, and are forgotten one at a time and only for a new flow.    *)
(*                                                                         *)
(* The abstract map is read off the table through SlotOf, which is the     *)
(* inverse of FlowOf on the used slots because no flow has two slots.      *)

Answer(v) == [best |-> v.best, final |-> v.is_final]

memory == [f \in Remembered |-> [best |-> verdict[SlotOf(f)].best,
                                 final |-> verdict[SlotOf(f)].is_final]]

\* Two packets are of the same flow just when the table says so.
LEMMA FlowOfIsSameFlow ==
    ASSUME NEW p \in Packets, NEW q \in Packets
    PROVE  FlowOf(p) = FlowOf(q) <=> same_flow(p, q)
<1>1. FlowOf(p) = FlowOf(q) <=> {p.src, p.dst} = {q.src, q.dst} /\ p.proto = q.proto
  BY DEF FlowOf
<1>2. {p.src, p.dst} = {q.src, q.dst}
          <=> (p.src = q.src /\ p.dst = q.dst) \/ (p.src = q.dst /\ p.dst = q.src)
  OBVIOUS
<1> QED BY <1>1, <1>2 DEF same_flow

\* SlotOf is the slot of the flow.
LEMMA SlotOfKey ==
    ASSUME TableInv, NEW i \in Used
    PROVE  /\ FlowOf(slots[i].key) \in Remembered
           /\ SlotOf(FlowOf(slots[i].key)) = i
<1> DEFINE f == FlowOf(slots[i].key)
           j == SlotOf(f)
<1>1. j \in Used /\ FlowOf(slots[j].key) = f
  BY DEF SlotOf
<1>2. /\ slots[i].key \in Packets /\ slots[j].key \in Packets
      /\ i \in SlotIds /\ j \in SlotIds
  BY <1>1 DEF TableInv, TableTypeOK, Entry, Used
<1>3. same_flow(slots[j].key, slots[i].key)
  BY <1>1, <1>2, FlowOfIsSameFlow
<1>4. OneSlotPerFlow
  BY TableInvImplies
<1> QED BY <1>1, <1>3, <1>4 DEF OneSlotPerFlow, Remembered

\* The abstract map at the flow of a used slot.
LEMMA MemoryAt ==
    ASSUME TableInv, NEW i \in Used
    PROVE  memory[FlowOf(slots[i].key)] = Answer(verdict[i])
BY SlotOfKey DEF memory, Answer

\* The abstract map holds what the slots hold.
MemoryHoldsSlots ==
    \A j \in Used : /\ FlowOf(slots[j].key) \in Remembered
                    /\ memory[FlowOf(slots[j].key)] = Answer(verdict[j])

\* It does, given the table's invariant.
LEMMA MemoryOfSlots == TableInv => MemoryHoldsSlots
BY SlotOfKey, MemoryAt DEF MemoryHoldsSlots

\* Improvement adds up.
LEMMA ImprovesTransitive ==
    ASSUME NEW a \in Rules \union {NoRule}, NEW b \in Rules, NEW c \in Rules,
           Improves(a, b), Improves(b, c)
    PROVE  Improves(a, c)
BY RuleFields DEF Improves, Stronger

\* What an answer may become.
Grows(a, b) == b # a => b \in Rules /\ Improves(a, b)

\* The three stages together only improve an answer, and a final one is known.
LEMMA StagesImprove ==
    ASSUME NEW v, NEW l, NEW h, SlotSound(v, l, h), ~v.is_final,
           NEW p \in Traffic, NEW c \in Contents(p)
    PROVE  LET r == Stages(v, l, p, c) IN
           /\ Grows(v.best, r.v.best)
           /\ r.v.is_final => r.v.best # NoRule
<1> DEFINE a == PayloadStage(v, l, c)
           b == AddressStage(a.v, a.l, p)
           n == NameStage(b.v, b.l, c)
<1>1. SlotSound(a.v, a.l, h) /\ ~a.v.is_final /\ a.v.best = v.best
  BY PayloadKeeps
<1>2. SlotSound(b.v, b.l, h \union HeardAddress(a.v, p)) /\ ~b.v.is_final
  BY <1>1, AddressKeeps
<1>3. SlotSound(n.v, n.l, (h \union HeardAddress(a.v, p)) \union ({c.name} \intersect Rules))
  BY <1>2, NameKeeps
<1>4. /\ a.v.best \in Rules \union {NoRule} /\ b.v.best \in Rules \union {NoRule}
      /\ n.v.best \in Rules \union {NoRule} /\ a.v \in Verdict /\ b.v \in Verdict
  BY <1>1, <1>2, <1>3 DEF SlotSound, Verdict
<1>5. Grows(a.v.best, b.v.best)
  <2> DEFINE r == AddressEvidence(p)
  <2> HIDE DEF a
  <2>1. b.v.best = a.v.best \/ (b.v.best = r /\ r # NoRule /\ evidence_is_better(a.v.best, r))
    BY <1>4 DEF AddressStage, Verdict
  <2> QED BY <1>4, <2>1 DEF Grows, Improves, Stronger, evidence_is_better
<1>6. Grows(b.v.best, n.v.best)
  <2> HIDE DEF a, b
  <2>1. \/ n.v.best = b.v.best
        \/ n.v.best = c.name /\ c.name # NoRule /\ evidence_is_better(b.v.best, c.name)
    BY <1>4 DEF NameStage, Adopt, Verdict
  <2> QED BY <1>4, <2>1 DEF Grows, Improves, Stronger, evidence_is_better
<1>7. Grows(v.best, n.v.best)
  <2> HIDE DEF a, b, n
  <2> QED BY <1>1, <1>4, <1>5, <1>6, ImprovesTransitive DEF Grows
<1>8. n.v.is_final => n.v.best # NoRule
  BY <1>3, RuleFields DEF SlotSound, FinalIsName
<1>9. Stages(v, l, p, c) = n
  BY DEF Stages
<1> QED BY <1>7, <1>8, <1>9

\* What a packet makes of the answer of its flow is a revision of it.
LEMMA ClassifyRevises ==
    ASSUME TypeOK, NEW i \in SlotIds, NEW p \in Traffic, NEW c \in Contents(p),
           NEW v, NEW l, NEW h, NEW n \in Nat, SlotSound(v, l, h),
           Classify(p, c, i, v, l, h, n)
    PROVE  Memory!Revised(Answer(v), Answer(verdict'[i]))
<1> DEFINE w == Bump(v)
           r == Stages(w, l, p, c)
<1>1. SlotSound(w, l, h) /\ w.best = v.best /\ w.is_final = v.is_final
  BY BumpSound
<1>2. verdict \in [SlotIds -> Verdict]
  BY DEF TypeOK
<1>3. v.is_final => v.best # NoRule
  BY RuleFields DEF SlotSound, FinalIsName
<1>4. CASE ~Open(w)
  <2>1. verdict'[i] = w
    BY <1>2, <1>4 DEF Classify
  <2>2. Answer(verdict'[i]) = Answer(v)
    BY <1>1, <2>1 DEF Answer
  <2> QED BY <1>3, <2>2 DEF Memory!Revised, Answer
<1>5. CASE Open(w)
  <2>1. ~w.is_final
    BY <1>5 DEF Open
  <2>2. verdict'[i] = r.v
    BY <1>2, <1>5 DEF Classify
  <2>3. Grows(w.best, r.v.best) /\ (r.v.is_final => r.v.best # NoRule)
    BY <1>1, <2>1, StagesImprove
  <2> HIDE DEF w, r
  <2> QED BY <1>1, <2>1, <2>2, <2>3, RuleFields DEF Memory!Revised, Answer, Grows
<1> QED BY <1>4, <1>5

-----------------------------------------------------------------------------
\* The table before and after a packet of flow f: f ends up in slot i, every other
\* slot keeps its flow and its answer, and slot i had f or another flow or nothing.
LEMMA LearnFromSlots ==
    ASSUME EngineInv, EngineInv', NEW i \in SlotIds, NEW p \in Traffic,
           slots'[i].in_use, same_flow(slots'[i].key, p),
           \A j \in SlotIds \ {i} : slots'[j] = slots[j] /\ verdict'[j] = verdict[j],
           \/ slots[i].in_use /\ slots'[i].key = slots[i].key
              /\ Memory!Revised(Answer(verdict[i]), Answer(verdict'[i]))
           \/ /\ \A j \in Used : ~same_flow(slots[j].key, p)
              /\ Memory!Revised(Answer(FreshVerdict), Answer(verdict'[i]))
    PROVE  Memory!Next
<1> DEFINE f == FlowOf(p)
<1>0. p \in Packets
  BY EngineAssumption
<1>1. TableInv /\ TableInv' /\ verdict' \in [SlotIds -> Verdict]
  BY DEF EngineInv, TypeOK
<1>2. \A j \in Used : /\ FlowOf(slots[j].key) \in Remembered
                      /\ memory[FlowOf(slots[j].key)] = Answer(verdict[j])
  BY <1>1, MemoryOfSlots DEF MemoryHoldsSlots
<1>3. \A j \in Used' : /\ FlowOf(slots'[j].key) \in Remembered'
                       /\ memory'[FlowOf(slots'[j].key)] = Answer(verdict'[j])
  <2>1. MemoryHoldsSlots'
    BY <1>1, MemoryOfSlots, PTL
  <2> QED BY <2>1 DEF MemoryHoldsSlots
<1>4. \A j \in Used : slots[j].key \in Packets
  BY <1>1 DEF TableInv, TableTypeOK, Entry, Used
<1>5. Used' = Used \union {i} /\ FlowOf(slots'[i].key) = f
  <2>1. slots'[i].key \in Packets
    BY <1>1 DEF TableInv, TableTypeOK, Entry
  <2>2. FlowOf(slots'[i].key) = f
    BY <1>0, <2>1, FlowOfIsSameFlow
  <2> QED BY <2>2 DEF Used
<1>6. /\ Remembered = {FlowOf(slots[j].key) : j \in Used}
      /\ Remembered' = {FlowOf(slots'[j].key) : j \in Used'}
  BY DEF Remembered
<1>7. /\ f \in Remembered' /\ Remembered' \subseteq Remembered \union {f}
      /\ memory'[f] = Answer(verdict'[i])
      /\ \A g \in Remembered' \ {f} : memory'[g] = memory[g]
  <2>1. f \in Remembered' /\ memory'[f] = Answer(verdict'[i])
    BY <1>3, <1>5
  <2>2. ASSUME NEW g \in Remembered', g # f
        PROVE  g \in Remembered /\ memory'[g] = memory[g]
    <3>1. PICK j \in Used' : g = FlowOf(slots'[j].key)
      BY <1>6
    <3>2. j # i /\ j \in Used
      BY <1>5, <2>2, <3>1
    <3>3. slots'[j] = slots[j] /\ verdict'[j] = verdict[j]
      BY <3>2 DEF Used
    <3>4. memory'[g] = Answer(verdict'[j]) /\ g \in Remembered
          /\ memory[g] = Answer(verdict[j])
      BY <1>2, <1>3, <3>1, <3>2, <3>3
    <3> QED BY <3>3, <3>4 DEF Answer
  <2> QED BY <2>1, <2>2
<1>8. /\ Memory!Revised(IF f \in Remembered THEN memory[f] ELSE Memory!Nothing, memory'[f])
      /\ \A g, h \in Remembered \ Remembered' : g = h
      /\ f \in Remembered => Remembered \subseteq Remembered'
  <2>1. CASE /\ slots[i].in_use /\ slots'[i].key = slots[i].key
             /\ Memory!Revised(Answer(verdict[i]), Answer(verdict'[i]))
    <3>1. i \in Used /\ FlowOf(slots[i].key) = f
      BY <2>1, <1>5 DEF Used
    <3>2. f \in Remembered /\ memory[f] = Answer(verdict[i])
      BY <1>2, <3>1
    <3>3. Remembered \subseteq Remembered'
      BY <1>5, <1>6, <2>1, <3>1 DEF Used
    <3> QED BY <1>7, <2>1, <3>2, <3>3
  <2>2. CASE /\ \A j \in Used : ~same_flow(slots[j].key, p)
             /\ Memory!Revised(Answer(FreshVerdict), Answer(verdict'[i]))
    <3>1. f \notin Remembered
      BY <1>0, <1>4, <1>6, <2>2, FlowOfIsSameFlow
    <3>2. Answer(FreshVerdict) = Memory!Nothing
      BY DEF Answer, FreshVerdict, Memory!Nothing
    <3>3. ASSUME NEW g \in Remembered \ Remembered'
          PROVE  g = FlowOf(slots[i].key)
      <4>1. PICK j \in Used : g = FlowOf(slots[j].key)
        BY <1>6
      <4>2. CASE j # i
        BY <1>5, <1>6, <4>1, <4>2 DEF Used
      <4> QED BY <4>1, <4>2
    <3> QED BY <1>7, <2>2, <3>1, <3>2, <3>3
  <2> QED BY <2>1, <2>2
<1>9. memory'[f] \in Memory!Answers
  <2>1. verdict'[i] \in Verdict
    BY <1>1
  <2> QED BY <1>7, <2>1 DEF Answer, Verdict, Memory!Answers
<1>10. /\ DOMAIN memory = Remembered /\ DOMAIN memory' = Remembered'
       /\ memory' = [g \in DOMAIN memory' |-> memory'[g]]
  BY DEF memory
<1>11. Memory!Learn(f)
  BY <1>7, <1>8, <1>9, <1>10
     DEF Memory!Learn, Memory!Known, Memory!AnswerOf, Memory!Forgotten, memory
<1> QED BY <1>11 DEF Memory!Next

\* The two ways a packet finds its slot are the two ways of the lemma above.
LEMMA PacketLearns ==
    ASSUME EngineInv, EngineInv', NEW p \in Traffic, NEW c \in Contents(p), Packet(p, c)
    PROVE  Memory!Next
<1>1. PICK i \in SlotIds :
         \/ /\ Find(p, i)
            /\ Classify(p, c, i, verdict[i], line[i], heard[i], inspected[i])
         \/ /\ Insert(p, i) \/ Evict(p, i)
            /\ Classify(p, c, i, NewVerdict(i), NoLine, {}, 0)
  BY DEF Packet
<1>2. p \in Packets /\ TypeOK /\ TableInv /\ TableTypeOK
  BY EngineAssumption DEF EngineInv, TableInv
<1>3. CASE Find(p, i) /\ Classify(p, c, i, verdict[i], line[i], heard[i], inspected[i])
  <2>1. SlotSound(verdict[i], line[i], heard[i]) /\ inspected[i] \in Nat
    BY DEF EngineInv, TypeOK
  <2>2. \A j \in SlotIds \ {i} : verdict'[j] = verdict[j]
    BY <1>2, <1>3, <2>1, ClassifyKeeps
  <2>3. Memory!Revised(Answer(verdict[i]), Answer(verdict'[i]))
    BY <1>2, <1>3, <2>1, ClassifyRevises
  <2>4. slots' = slots /\ slots[i].in_use /\ same_flow(slots[i].key, p)
    BY <1>3 DEF Find, tableVars
  <2> QED BY <1>2, <2>2, <2>3, <2>4, LearnFromSlots
<1>4. CASE /\ Insert(p, i) \/ Evict(p, i)
           /\ Classify(p, c, i, NewVerdict(i), NoLine, {}, 0)
  <2>1. SlotSound(NewVerdict(i), NoLine, {}) /\ NewVerdict(i) = FreshVerdict
    BY FreshSound DEF NewVerdict
  <2>2. \A j \in SlotIds \ {i} : verdict'[j] = verdict[j]
    BY <1>2, <1>4, <2>1, ClassifyKeeps
  <2>3. Memory!Revised(Answer(FreshVerdict), Answer(verdict'[i]))
    BY <1>2, <1>4, <2>1, ClassifyRevises
  <2>4. /\ slots'[i] = [in_use |-> TRUE, key |-> p]
        /\ \A j \in SlotIds \ {i} : slots'[j] = slots[j]
    BY <1>2, <1>4, StoreType
  <2>5. same_flow(slots'[i].key, p)
    BY <2>4 DEF same_flow
  <2>6. ASSUME NEW j \in Used PROVE ~same_flow(slots[j].key, p)
    <3>1. SUFFICES ASSUME same_flow(slots[j].key, p) PROVE FALSE
      OBVIOUS
    <3>2. PICK k \in Probes : Reaches(p, k) /\ j = Probe(p, k)
      BY <1>2, <3>1, FoundByAll DEF TableInv, Used
    <3>3. CASE Insert(p, i)
      <4>1. PICK m \in Probes : Reaches(p, m) /\ i = Probe(p, m)
        BY <3>3 DEF Insert
      <4>2. ~slots[i].in_use
        BY <3>3 DEF Insert
      <4>3. ~(k < m)
        BY <3>1, <3>2, <4>1 DEF Reaches, HeldByOther, Probes
      <4>4. ~(m < k)
        BY <3>2, <4>1, <4>2 DEF Reaches, HeldByOther, Probes
      <4>5. k = m
        BY <4>3, <4>4 DEF Probes
      <4> QED BY <3>2, <4>1, <4>2, <4>5 DEF Used
    <3>4. CASE Evict(p, i)
      BY <3>1, <3>2, <3>4 DEF Evict, Reaches, HeldByOther, Probes
    <3> QED BY <1>4, <3>3, <3>4
  <2> QED BY <1>2, <2>2, <2>3, <2>4, <2>5, <2>6, LearnFromSlots
<1> QED BY <1>1, <1>3, <1>4

\* Seen as a map from flows to answers, the engine is a FlowMemory.
THEOREM EngineIsMemory == Spec => IsMemory
<1>1. Init => Memory!Init
  <2> SUFFICES ASSUME Init PROVE Memory!Init
    OBVIOUS
  <2>1. Remembered = {}
    BY DEF Init, TableInit, Used, Remembered
  <2> QED BY <2>1 DEF Memory!Init
<1>2. EngineInv /\ EngineInv' /\ [Next]_vars => [Memory!Next]_memory
  <2> SUFFICES ASSUME EngineInv, EngineInv', [Next]_vars PROVE [Memory!Next]_memory
    OBVIOUS
  <2>1. CASE slots' = slots /\ verdict' = verdict
    BY <2>1 DEF memory, Remembered, SlotOf, Used
  <2>2. ASSUME NEW p \in Traffic, NEW c \in Contents(p), Packet(p, c)
        PROVE  Memory!Next
    BY <2>2, PacketLearns
  <2> QED BY <2>1, <2>2 DEF Next, Undecodable, vars, tableVars
<1>3. [Memory!Next]_memory <=> [Memory!Next]_[f \in Remembered |->
          [best |-> verdict[SlotOf(f)].best, final |-> verdict[SlotOf(f)].is_final]]
  BY DEF memory
<1> QED BY <1>1, <1>2, <1>3, EngineInvariance, PTL DEF Spec, IsMemory, Memory!Spec
=============================================================================
