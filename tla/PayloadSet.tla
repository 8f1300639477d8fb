----------------------------- MODULE PayloadSet -----------------------------
(***************************************************************************)
(* match/payload.c: patterns over the first bytes of a flow, in one hash   *)
(* table per set of bytes they look at (a mask byte is 0xFF or 0x00,       *)
(* include/ngfw/sigdb.h:78, and bytes here are few).                       *)
(***************************************************************************)
EXTENDS SigRule

CONSTANTS
    Width,              \* 4: bytes of a pattern
    Bytes,              \* 0 is one
    KeyHome(_),         \* mix: slot hash of a masked word
    BucketCap, MaxBucketCap

VARIABLES
    buckets,    \* per mask: a table, or Inactive
    patterns    \* history: the patterns loaded, in order

payloadVars == <<buckets, patterns>>

Inactive == <<>>

Slots == INSTANCE ProbeTable WITH
    Home <- KeyHome, MaxCap <- MaxBucketCap, Empty <- NoRule

Words == [1 .. Width -> Bytes]
Masks == SUBSET (1 .. Width)    \* the bytes that must match
Masked(word, mask) == [i \in 1 .. Width |-> IF i \in mask THEN word[i] ELSE 0]
Wildcards(mask) == Width - Cardinality(mask)

\* A word has a slot, and an entry is told from an empty slot.
ASSUME PayloadAssumption ==
    /\ Width \in Nat /\ 0 \in Bytes /\ BucketCap \in Nat \ {0, 1}
    /\ \A w \in Words :
        KeyHome(w) \in Nat /\ \A r \in Rules : [key |-> w, val |-> r] # NoRule

\* mask_index: a byte ignored sets its bit, the last byte's is the highest.
mask_index(mask) ==
    LET bits[i \in 0 .. Width] ==
            IF i = 0 THEN 0
            ELSE 2 * bits[i - 1] + (IF Width + 1 - i \in mask THEN 0 ELSE 1)
    IN  bits[Width]

PayloadInit ==
    /\ buckets = [m \in Masks |-> Inactive]
    /\ patterns = <<>>

\* ngfw_payload_insert of a record q, [value, mask, rule].  A bucket that has to grow
\* and cannot refuses a pattern it has, too.
PayloadInsert(q) ==
    LET b == IF buckets[q.mask] = Inactive THEN Slots!NewTable(BucketCap) ELSE buckets[q.mask]
        key == Masked(q.value, q.mask)
        g == Slots!Grown(b)
        old == IF Slots!Find(g, key) = NoRule THEN NoRule ELSE Slots!Find(g, key).val
    IN  \/ q.mask = {} /\ UNCHANGED payloadVars
        \/ /\ q.mask # {} /\ Slots!OutOfMemory(b)
           /\ buckets' = [buckets EXCEPT ![q.mask] = b]
           /\ UNCHANGED patterns
        \/ /\ q.mask # {} /\ ~Slots!OutOfMemory(b)
           /\ buckets' = [buckets EXCEPT ![q.mask] = Slots!Put(g, key, Claim(old, q.rule))]
           /\ patterns' = Append(patterns, q)

\* Mutant: the buckets are taken in their order, whatever they ignore.
FirstBucket(m, n) == mask_index(m) <= mask_index(n)

\* A bucket of fewer wildcards, or the one looked at first, is preferred.
Preferred(m, n) ==
    \/ Wildcards(m) < Wildcards(n)
    \/ Wildcards(m) = Wildcards(n) /\ mask_index(m) <= mask_index(n)

\* ngfw_payload_lookup of the first len bytes of a payload.
PayloadLookup(word, len) ==
    LET hits == {m \in Masks :
                    /\ buckets[m] # Inactive
                    /\ Slots!Find(buckets[m], Masked(word, m)) # NoRule}
        best == CHOOSE m \in hits : \A n \in hits : Preferred(m, n)
    IN  IF len < Width \/ hits = {} THEN NoRule
        ELSE Slots!Find(buckets[best], Masked(word, best)).val

\* The rules a word may get, from the patterns alone: those of a matching pattern with
\* the fewest wildcards, and of them the most confident.
TightestRules(word) ==
    LET fits == {i \in 1 .. Len(patterns) :
                     Masked(word, patterns[i].mask) = Masked(patterns[i].value, patterns[i].mask)}
        tight == {i \in fits : \A j \in fits :
                      Wildcards(patterns[i].mask) <= Wildcards(patterns[j].mask)}
        alike(i) == {j \in tight : patterns[j].mask = patterns[i].mask}
    IN  IF fits = {} THEN {NoRule} ELSE {FirstMostConfident(patterns, alike(i)) : i \in tight}

PayloadTypeOK ==
    \A m \in Masks : buckets[m] # Inactive =>
        /\ m # {}
        /\ \A i \in Slots!Entries(buckets[m]) :
               buckets[m][i].key \in Words /\ buckets[m][i].val \in Rules
=============================================================================
