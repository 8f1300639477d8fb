------------------------------ MODULE SigRule ------------------------------
(***************************************************************************)
(* What a matcher answers with: the app_id, tier, confidence and licence   *)
(* of one rule of the database, kept together in a slot of the matcher.    *)
(***************************************************************************)
EXTENDS Integers, Sequences, FiniteSets

CONSTANTS
    Rules,      \* [app, conf, lic]
    NoRule      \* an empty slot: NGFW_*_NO_APP, or no match

ASSUME SigRuleAssumption ==
    /\ Rules \subseteq [app : Nat, conf : 0 .. 255, lic : 0 .. 2]
    /\ NoRule \notin Rules

\* "Two sources may claim the same prefix; keep the more confident one."
Claim(old, r) == IF old = NoRule \/ r.conf > old.conf THEN r ELSE old

\* The same over a whole load: of the claims of log at the positions I, the first of
\* the most confident ones.
FirstMostConfident(log, I) ==
    IF I = {} THEN NoRule
    ELSE log[CHOOSE i \in I : \A j \in I :
                 \/ log[i].rule.conf > log[j].rule.conf
                 \/ log[i].rule.conf = log[j].rule.conf /\ i <= j].rule
=============================================================================
