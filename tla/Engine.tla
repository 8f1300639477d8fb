------------------------------- MODULE Engine -------------------------------
(***************************************************************************)
(* The classification loop of src/engine/main.c: every decoded packet is   *)
(* looked up in the flow table (FlowTable), and while its flow is neither  *)
(* final nor beyond its packet budget its payload, its addresses and its   *)
(* TLS server name are matched, in this order, and fused into the verdict. *)
(*                                                                         *)
(* The matchers are functions of what they are given: AddressRule is the   *)
(* longest-prefix match of an address, and a packet carries what the       *)
(* payload and the name matcher make of its bytes.  A verdict's app_id,    *)
(* tier, confidence and license_tier come from one rule, and are that      *)
(* rule.                                                                   *)
(***************************************************************************)
EXTENDS FlowTable

CONSTANTS
    Rules,          \* [app, tier, conf]: rules for names and addresses
    NameRules,      \* those for names
    AddressRule,    \* per endpoint: the rule for its address, or NoRule
    Protocols,      \* applications of the payload rules
    NoRule,         \* no match; NGFW_APP_UNKNOWN
    Traffic,        \* the packets' 5-tuples
    PACKET_BUDGET,
    PacketModulus,  \* 2^16, the width of ngfw_flow_t.packets
    MaxPackets      \* bound: packets read

TierB == 1

\* Address rules are "Tier C by nature" (include/ngfw/sigdb.h), and sigc.py writes
\* no other.
ASSUME EngineAssumption ==
    /\ Rules \subseteq [app : Nat, tier : 0 .. 3, conf : 0 .. 255]
    /\ NoRule \notin Rules /\ NoRule \notin Protocols
    /\ NameRules \subseteq Rules
    /\ AddressRule \in [Endpoints -> {r \in Rules : r.tier > TierB} \union {NoRule}]
    /\ Traffic \subseteq Packets
    /\ PACKET_BUDGET \in Nat /\ PacketModulus \in Nat \ {0} /\ MaxPackets \in Nat

VARIABLES
    verdict,    \* per slot: ngfw_verdict_t and the packets of ngfw_flow_t
    line,       \* per slot: the last line printed for its flow
    finals,     \* st.verdicts_final
    total,      \* st.packets
    heard,      \* history, per slot: the rules that matched the flow
    inspected,  \* history, per slot: packets the matchers saw
    lost        \* history: final verdicts that were evicted

vars == <<tableVars, verdict, line, finals, total, heard, inspected, lost>>

Verdict ==
    [best : Rules \union {NoRule}, master : Protocols \union {NoRule},
     evidence : SUBSET {"PAYLOAD", "IP", "SNI"}, is_final : BOOLEAN,
     packets : 0 .. PacketModulus - 1]

FreshVerdict ==
    [best |-> NoRule, master |-> NoRule, evidence |-> {}, is_final |-> FALSE,
     packets |-> 0]

NoLine == [kind |-> "none", app |-> NoRule]

\* What a packet's payload shows: a protocol, and in TCP perhaps a ClientHello with
\* a server name, which some rule matches or none does.
Contents(p) ==
    {c \in [protocol : Protocols \union {NoRule}, hello : BOOLEAN,
            name : NameRules \union {NoRule}] :
        /\ c.hello => p.proto = "tcp"
        /\ ~c.hello => c.name = NoRule}

TypeOK ==
    /\ TableTypeOK
    /\ verdict \in [SlotIds -> Verdict]
    /\ line \in [SlotIds -> [kind : {"none", "provisional", "final", "nomatch"},
                             app : Rules \union {NoRule}]]
    /\ finals \in Nat /\ total \in Nat /\ lost \in Nat
    /\ heard \in [SlotIds -> SUBSET Rules]
    /\ inspected \in [SlotIds -> Nat]

Init ==
    /\ TableInit
    /\ verdict = [i \in SlotIds |-> FreshVerdict]
    /\ line = [i \in SlotIds |-> NoLine]
    /\ finals = 0 /\ total = 0 /\ lost = 0
    /\ heard = [i \in SlotIds |-> {}]
    /\ inspected = [i \in SlotIds |-> 0]

-----------------------------------------------------------------------------
(* The stages.  Each takes a report, the verdict and the flow's last line, and *)
(* returns the report it leaves.                                               *)

\* Mutant: confidence is compared without the tier.
ConfidenceOnly(best, r) == best = NoRule \/ r.conf > best.conf

evidence_is_better(best, r) ==
    \/ best = NoRule
    \/ r.tier < best.tier
    \/ r.tier = best.tier /\ r.conf > best.conf

Adopt(best, r) == IF evidence_is_better(best, r) THEN r ELSE best

Line(kind, best) == [kind |-> kind, app |-> best]

\* Mutant: a flow known by its protocol alone is not reported.
QuietPayloadStage(v, l, c) ==
    IF "PAYLOAD" \in v.evidence \/ c.protocol = NoRule
      THEN [v |-> v, l |-> l]
      ELSE [v |-> [v EXCEPT !.master = c.protocol, !.evidence = @ \union {"PAYLOAD"}],
            l |-> l]

\* Payload prefix: the protocol on the wire; it never fills the app slot.
PayloadStage(v, l, c) ==
    IF "PAYLOAD" \in v.evidence \/ c.protocol = NoRule
      THEN [v |-> v, l |-> l]
      ELSE [v |-> [v EXCEPT !.master = c.protocol, !.evidence = @ \union {"PAYLOAD"}],
            l |-> IF v.best = NoRule THEN Line("provisional", NoRule) ELSE l]

\* The destination is looked up first.
AddressEvidence(p) ==
    IF AddressRule[p.dst] # NoRule THEN AddressRule[p.dst] ELSE AddressRule[p.src]

\* Mutant: the address rule is taken unconditionally.
LastWordAddressStage(v, l, p) ==
    LET r == AddressEvidence(p) IN
    IF r = NoRule
      THEN [v |-> v, l |-> l]
      ELSE [v |-> [v EXCEPT !.best = r, !.evidence = @ \union {"IP"}],
            l |-> Line("provisional", r)]

AddressStage(v, l, p) ==
    LET r == AddressEvidence(p)
        u == [v EXCEPT !.evidence = @ \union {"IP"}]
    IN  IF "IP" \in v.evidence \/ r = NoRule THEN [v |-> v, l |-> l]
        ELSE IF evidence_is_better(v.best, r)
          THEN [v |-> [u EXCEPT !.best = r], l |-> Line("provisional", r)]
          ELSE [v |-> u, l |-> l]

\* Mutant: any matched name ends the search.
AnyNameIsFinal(best) == TRUE

Final(best) == best.tier <= TierB

NameStage(v, l, c) ==
    IF ~c.hello THEN [v |-> v, l |-> l]
    ELSE IF c.name = NoRule
      THEN [v |-> v, l |-> Line(IF v.best = NoRule THEN "nomatch" ELSE "provisional",
                                v.best)]
      ELSE LET best == Adopt(v.best, c.name) IN
           [v |-> [v EXCEPT !.evidence = @ \union {"SNI"}, !.best = best,
                            !.is_final = Final(best)],
            l |-> Line(IF Final(best) THEN "final" ELSE "provisional", best)]

Stages(v, l, p, c) ==
    LET a == PayloadStage(v, l, c)
        b == AddressStage(a.v, a.l, p)
    IN  NameStage(b.v, b.l, c)

Heard(v, p, c) ==
    ((IF "IP" \in v.evidence THEN {} ELSE {AddressEvidence(p)}) \union {c.name}) \intersect Rules

\* Mutant: the budget alone is looked at.
BudgetOnly(v) == v.packets <= PACKET_BUDGET

Open(v) == ~v.is_final /\ v.packets <= PACKET_BUDGET

\* Mutant: a counter that does not wrap.
WideBump(v) == [v EXCEPT !.packets = @ + 1]

\* f->packets++, 16 bits wide
Bump(v) == [v EXCEPT !.packets = (@ + 1) % PacketModulus]

\* A packet of a flow whose slot is i, starting from verdict v.
Classify(p, c, i, v, l, h, n) ==
    LET w == Bump(v) IN
    \/ /\ ~Open(w)
       /\ verdict' = [verdict EXCEPT ![i] = w]
       /\ line' = [line EXCEPT ![i] = l]
       /\ heard' = [heard EXCEPT ![i] = h]
       /\ inspected' = [inspected EXCEPT ![i] = n]
       /\ UNCHANGED finals
    \/ /\ Open(w)
       /\ LET r == Stages(w, l, p, c) IN
          /\ verdict' = [verdict EXCEPT ![i] = r.v]
          /\ line' = [line EXCEPT ![i] = r.l]
          /\ finals' = IF r.v.is_final THEN finals + 1 ELSE finals
       /\ heard' = [heard EXCEPT ![i] = h \union Heard(w, p, c)]
       /\ inspected' = [inspected EXCEPT ![i] = n + 1]

\* Mutant: an evicted slot keeps its verdict, the memset is missing.
InheritedVerdict(i) == verdict[i]

\* memset: the verdict a new flow starts from.
NewVerdict(i) == FreshVerdict

Packet(p, c) ==
    /\ total < MaxPackets /\ total' = total + 1
    /\ \E i \in SlotIds :
       \/ /\ Find(p, i)
          /\ Classify(p, c, i, verdict[i], line[i], heard[i], inspected[i])
          /\ UNCHANGED lost
       \/ /\ Insert(p, i) \/ Evict(p, i)
          /\ Classify(p, c, i, NewVerdict(i), NoLine, {}, 0)
          /\ lost' = IF verdict[i].is_final THEN lost + 1 ELSE lost

\* A frame that ngfw_decode rejects.
Undecodable ==
    /\ total < MaxPackets /\ total' = total + 1
    /\ UNCHANGED <<tableVars, verdict, line, finals, heard, inspected, lost>>

Next == Undecodable \/ \E p \in Traffic : \E c \in Contents(p) : Packet(p, c)

Spec == Init /\ [][Next]_vars

-----------------------------------------------------------------------------
(* Properties *)

Stronger(q, r) == q.tier < r.tier \/ (q.tier = r.tier /\ q.conf > r.conf)

\* Fusion: the verdict of a flow is the strongest rule that ever matched this flow,
\* by tier first and confidence second, in whatever order its evidence came, and is
\* unknown only if none did ("Stronger tier wins; equal tier breaks on confidence",
\* docs/engine.md).  What an evicted flow left in the slot has no part in it.
VerdictIsStrongest ==
    \A i \in SlotIds :
        /\ \A r \in heard[i] : verdict[i].best # NoRule /\ ~Stronger(r, verdict[i].best)
        /\ verdict[i].best # NoRule => verdict[i].best \in heard[i]

\* "Tier-C evidence is never final on its own" (docs/engine.md): a final verdict is
\* a rule for a server name, of tier B or better, and an address never decides.
FinalByName ==
    \A i \in SlotIds : verdict[i].is_final =>
        /\ "SNI" \in verdict[i].evidence
        /\ verdict[i].best \in NameRules /\ verdict[i].best.tier <= TierB

\* The output is the verdict: the last line of a flow names its current answer, is
\* FINAL exactly when the verdict is, and a flow of which anything is known, be it
\* its protocol alone, has been reported.
LastLineTrue ==
    \A i \in SlotIds :
        /\ line[i].app = verdict[i].best
        /\ line[i].kind = "final" <=> verdict[i].is_final
        /\ verdict[i].best # NoRule \/ verdict[i].master # NoRule => line[i].kind # "none"

\* One FINAL per flow: the summary's count of final verdicts is the number of flows
\* that have one, those evicted since included.
FinalsCounted == finals = Cardinality({i \in Used : verdict[i].is_final}) + lost

\* The engine is a memory of flows: seen as a map from flows to answers, with the
\* table's slots, directions and evictions hidden, it only ever improves an answer,
\* never touches a final one, and a packet changes the answer of its own flow only.
FlowOf(p) == <<{p.src, p.dst}, p.proto>>
Remembered == {FlowOf(slots[i].key) : i \in Used}
SlotOf(f) == CHOOSE i \in Used : FlowOf(slots[i].key) = f
Improves(best, r) == best = NoRule \/ Stronger(r, best)
Memory == INSTANCE FlowMemory WITH
    Flows <- {FlowOf(p) : p \in Traffic}, Evidence <- Rules, Unknown <- NoRule,
    Better <- Improves,
    memory <- [f \in Remembered |-> [best |-> verdict[SlotOf(f)].best,
                                     final |-> verdict[SlotOf(f)].is_final]]
IsMemory == Memory!Spec

\* "the matchers never see more than the first PACKET_BUDGET (12) packets"
\* (docs/engine.md:31-32).
MatchersBounded == \A i \in SlotIds : inspected[i] <= PACKET_BUDGET
=============================================================================
