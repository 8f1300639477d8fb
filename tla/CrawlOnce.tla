------------------------------ MODULE CrawlOnce ------------------------------
(***************************************************************************)
(* What a crawl promises about one page, whatever its sources, duplicates, *)
(* failures and interleavings: a canonical URL is claimed once, requested  *)
(* at most once, after it was claimed, and recorded at most once, after it *)
(* was requested ("deduped", "Fetch", "Emit": README, How a crawl runs).   *)
(***************************************************************************)
CONSTANT Pages

VARIABLES
    claimed,    \* canonical URLs some task has taken on
    requested,  \* canonical URLs requested from their site
    recorded    \* canonical URLs handed to the outputs

vars == <<claimed, requested, recorded>>

Init == claimed = {} /\ requested = {} /\ recorded = {}

Claim(p) ==
    /\ p \notin claimed
    /\ claimed' = claimed \union {p}
    /\ UNCHANGED <<requested, recorded>>

Request(p) ==
    /\ p \in claimed \ requested
    /\ requested' = requested \union {p}
    /\ UNCHANGED <<claimed, recorded>>

Record(p) ==
    /\ p \in requested \ recorded
    /\ recorded' = recorded \union {p}
    /\ UNCHANGED <<claimed, requested>>

Next == \E p \in Pages : Claim(p) \/ Request(p) \/ Record(p)

Spec == Init /\ [][Next]_vars
=============================================================================
