----------------------------- MODULE FlowMemory -----------------------------
(***************************************************************************)
(* What the engine promises of the answers it gives, without slots, probes *)
(* or matchers: a map from flows to answers.  An answer is unknown or a    *)
(* piece of evidence, only ever replaced by stronger evidence, and never   *)
(* replaced once it is final.  The memory may forget one flow to make room *)
(* for a new one; a flow that comes back starts from nothing.              *)
(***************************************************************************)
CONSTANTS
    Flows,
    Evidence,
    Unknown,        \* NGFW_APP_UNKNOWN
    Better(_, _)    \* evidence_is_better(answer, evidence)

VARIABLE memory     \* the answer of every remembered flow

Answers == [best : Evidence \union {Unknown}, final : BOOLEAN]
Nothing == [best |-> Unknown, final |-> FALSE]

Init == memory = [f \in {} |-> Nothing]

\* What may become of an answer when a packet of its flow is read.
Revised(old, new) ==
    /\ new.best # old.best => new.best # Unknown /\ Better(old.best, new.best)
    /\ old.final => new = old
    /\ new.final => new.best # Unknown

Known(f) == f \in DOMAIN memory
AnswerOf(f) == IF Known(f) THEN memory[f] ELSE Nothing

Forgotten == (DOMAIN memory) \ DOMAIN memory'

\* A packet of flow f: its answer is revised, nobody else's is, and only a flow
\* that is new may push one out.
Learn(f) ==
    /\ memory' = [g \in DOMAIN memory' |-> memory'[g]]
    /\ f \in DOMAIN memory' /\ DOMAIN memory' \subseteq (DOMAIN memory) \union {f}
    /\ memory'[f] \in Answers /\ Revised(AnswerOf(f), memory'[f])
    /\ \A g \in (DOMAIN memory') \ {f} : memory'[g] = memory[g]
    /\ \A g, h \in Forgotten : g = h
    /\ Known(f) => Forgotten = {}

Next == \E f \in Flows : Learn(f)

Spec == Init /\ [][Next]_memory
=============================================================================
