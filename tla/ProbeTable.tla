----------------------------- MODULE ProbeTable -----------------------------
(***************************************************************************)
(* Open addressing with linear probing, as match/domain_trie.c does it for *)
(* its edges and match/payload.c for each of its buckets.  A table is a    *)
(* function from 0 .. capacity - 1 to entries, [key, val], or Empty; it    *)
(* doubles, re-inserting its entries in the order of their old slots,      *)
(* before it is seven tenths full.  The counters kept beside the slots are *)
(* the number of entries.                                                  *)
(***************************************************************************)
EXTENDS Integers, FiniteSets

CONSTANTS
    Home(_),        \* hash of a key
    MaxCap,         \* bound: calloc fails beyond this capacity
    Empty

NewTable(cap) == [i \in 0 .. cap - 1 |-> Empty]
Cap(t) == Cardinality(DOMAIN t)
Entries(t) == {i \in DOMAIN t : t[i] # Empty}

\* edge_slot: the first slot from home that is empty or holds the key.
Slot(t, k) ==
    LET at(d) == (Home(k) + d) % Cap(t)
        stops(d) == t[at(d)] = Empty \/ t[at(d)].key = k
    IN  at(CHOOSE d \in DOMAIN t : stops(d) /\ \A e \in 0 .. d - 1 : ~stops(e))

Find(t, k) == t[Slot(t, k)]
Put(t, k, v) == [t EXCEPT ![Slot(t, k)] = [key |-> k, val |-> v]]

Crowded(t) == (Cardinality(Entries(t)) + 1) * 10 >= Cap(t) * 7

\* Mutant: the entries are copied, not re-inserted.
Copied(t) == [i \in 0 .. 2 * Cap(t) - 1 |-> IF i \in DOMAIN t THEN t[i] ELSE Empty]

Doubled(t) ==
    LET moved[i \in 0 .. Cap(t)] ==
            IF i = 0 THEN NewTable(2 * Cap(t))
            ELSE IF t[i - 1] = Empty THEN moved[i - 1]
            ELSE Put(moved[i - 1], t[i - 1].key, t[i - 1].val)
    IN  moved[Cap(t)]

\* The insertion is refused: the table has to grow and cannot.
OutOfMemory(t) == Crowded(t) /\ 2 * Cap(t) > MaxCap

Grown(t) == IF Crowded(t) THEN Doubled(t) ELSE t
=============================================================================
