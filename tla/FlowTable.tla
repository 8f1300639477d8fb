------------------------------ MODULE FlowTable ------------------------------
(***************************************************************************)
(* The flow table of src/engine/flow.c: open addressing with a bounded     *)
(* linear probe.  A packet is its 5-tuple: two endpoints (IP version,      *)
(* address and port) and the transport protocol.  A slot holds the 5-tuple *)
(* of the packet that created its flow; slots are never freed, and a       *)
(* packet that finds neither its flow nor a free slot in its probe window  *)
(* takes over the first slot of the window.                                *)
(***************************************************************************)
EXTENDS Integers, FiniteSets

CONSTANTS
    Endpoints,
    Protos,     \* l4proto
    Slots,      \* the capacity, mask + 1
    Window,     \* length of a probe, 16 in the code
    Home        \* flow_hash & mask, of the two endpoints and the protocol

SlotIds == 0 .. Slots - 1
Packets == [src : Endpoints, dst : Endpoints, proto : Protos]

\* (a ^ b) + (a & b) is symmetric, so the hash is one of the set of endpoints.
ASSUME TableAssumption ==
    /\ Endpoints # {} /\ Protos # {}
    /\ Slots \in Nat \ {0} /\ Window \in 1 .. Slots
    /\ Home \in [(SUBSET Endpoints) \X Protos -> SlotIds]

VARIABLES
    slots,      \* ngfw_flow_t: in_use and the 5-tuple
    count,
    evictions

tableVars == <<slots, count, evictions>>

Entry == [in_use : BOOLEAN, key : Packets]

Used == {i \in SlotIds : slots[i].in_use}

TableTypeOK ==
    /\ slots \in [SlotIds -> Entry]
    /\ count \in Nat /\ evictions \in Nat

\* calloc
TableInit ==
    /\ slots = [i \in SlotIds |-> [in_use |-> FALSE, key |-> CHOOSE p \in Packets : TRUE]]
    /\ count = 0 /\ evictions = 0

-----------------------------------------------------------------------------
Reverse(p) == [src |-> p.dst, dst |-> p.src, proto |-> p.proto]

\* Mutant: only the forward 5-tuple is compared.
ForwardOnly(q, p) == q = p

same_flow(q, p) ==
    /\ q.proto = p.proto
    /\ \/ q.src = p.src /\ q.dst = p.dst
       \/ q.src = p.dst /\ q.dst = p.src

\* Mutant: a hash of the source alone.
SourceHash(p) == Home[<<{p.src}, p.proto>>]

flow_hash(p) == Home[<<{p.src, p.dst}, p.proto>>]

\* (i + probe) & mask
Probe(p, k) ==
    LET i == flow_hash(p) + k IN IF i < Slots THEN i ELSE i - Slots

Probes == 0 .. Window - 1

HeldByOther(p, i) == slots[i].in_use /\ ~same_flow(slots[i].key, p)

\* The probe of p gets as far as its k-th slot.
Reaches(p, k) == \A j \in 0 .. k - 1 : HeldByOther(p, Probe(p, j))

\* A free slot before the flow's own would hide it: the loop takes the first hit.
Find(p, i) ==
    /\ \E k \in Probes : Reaches(p, k) /\ i = Probe(p, k)
    /\ slots[i].in_use /\ same_flow(slots[i].key, p)
    /\ UNCHANGED tableVars

Insert(p, i) ==
    /\ \E k \in Probes : Reaches(p, k) /\ i = Probe(p, k)
    /\ ~slots[i].in_use
    /\ slots' = [slots EXCEPT ![i] = [in_use |-> TRUE, key |-> p]]
    /\ count' = count + 1
    /\ UNCHANGED evictions

\* Mutant: the evicting flow is counted as one more.
CountEviction == count' = count + 1 /\ evictions' = evictions + 1

Evicted == evictions' = evictions + 1 /\ UNCHANGED count

\* Table pressure: the whole window belongs to other flows.
Evict(p, i) ==
    /\ Reaches(p, Window)
    /\ i = Probe(p, 0)
    /\ slots' = [slots EXCEPT ![i] = [in_use |-> TRUE, key |-> p]]
    /\ Evicted

\* ngfw_flow_lookup: the slot it returns is i.
Lookup(p, i) == Find(p, i) \/ Insert(p, i) \/ Evict(p, i)

TableNext == \E p \in Packets, i \in SlotIds : Lookup(p, i)

TableSpec == TableInit /\ [][TableNext]_tableVars

-----------------------------------------------------------------------------
(* Properties *)

\* "Direction-agnostic: A->B and B->A map to the same flow" (include/ngfw/flow.h):
\* the probe of a packet of either direction comes to the slot that holds its flow,
\* past slots of other flows only, however the flows before it were displaced and
\* evicted (so that no flow ever has two slots).
FoundFromEitherEnd ==
    \A i \in SlotIds : slots[i].in_use =>
        \A p \in {slots[i].key, Reverse(slots[i].key)} :
            /\ same_flow(slots[i].key, p)
            /\ \E k \in Probes : Reaches(p, k) /\ i = Probe(p, k)

\* The summary's "flows" is the number of slots in use, and a flow is evicted only
\* when there are more flows than a window holds.
CountIsOccupancy ==
    /\ count = Cardinality(Used)
    /\ evictions > 0 => count >= Window
=============================================================================
