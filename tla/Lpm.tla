-------------------------------- MODULE Lpm --------------------------------
(***************************************************************************)
(* match/lpm.c: a binary trie per address family.  A node is named by the  *)
(* bits that lead to it from the root; a trie maps its nodes to the rule   *)
(* of the prefix that ends there, or NoRule.                               *)
(***************************************************************************)
EXTENDS SigRule

CONSTANTS
    Bits,           \* per family: the length of an address
    MaxLpmNodes     \* bound: node_new fails beyond

ASSUME LpmAssumption == Bits \in [DOMAIN Bits -> Nat] /\ MaxLpmNodes \in Nat \ {0}

VARIABLES
    trie,       \* per family
    prefixes    \* history, per family: the prefixes loaded, in order

lpmVars == <<trie, prefixes>>

Families == DOMAIN Bits
Addresses(af) == [1 .. Bits[af] -> {0, 1}]
Cut(addr, n) == SubSeq(addr, 1, n)
Cuts(addr, n) == {Cut(addr, i) : i \in 0 .. n}

\* ngfw_lpm_new: the root alone.
LpmInit ==
    /\ trie = [af \in Families |-> [p \in {<<>>} |-> NoRule]]
    /\ prefixes = [af \in Families |-> <<>>]

\* The nodes of a prefix are created from the root down, until node_new fails.
Grow(t, c) ==
    LET path == Cuts(c.addr, c.len)
        room == MaxLpmNodes - Cardinality(DOMAIN t)
        shared == Cardinality(path \intersect DOMAIN t)
    IN  [p \in (DOMAIN t) \union {q \in path : Len(q) < shared + room} |->
            IF p \in DOMAIN t THEN t[p] ELSE NoRule]

\* ngfw_lpm_insert of a record c, [af, addr, len, rule].
LpmInsert(c) ==
    LET t == Grow(trie[c.af], c)
        end == Cut(c.addr, c.len)
    IN  \/ c.len > Bits[c.af] /\ UNCHANGED lpmVars
        \/ /\ c.len <= Bits[c.af] /\ end \notin DOMAIN t
           /\ trie' = [trie EXCEPT ![c.af] = t]
           /\ UNCHANGED prefixes
        \/ /\ c.len <= Bits[c.af] /\ end \in DOMAIN t
           /\ trie' = [trie EXCEPT ![c.af] = [t EXCEPT ![end] = Claim(@, c.rule)]]
           /\ prefixes' = [prefixes EXCEPT ![c.af] = Append(@, c)]

\* Mutant: the walk stops at the first rule.
FirstOnTheWay(t, addr) ==
    LET valued == {i \in 0 .. Len(addr) :
                       Cuts(addr, i) \subseteq DOMAIN t /\ t[Cut(addr, i)] # NoRule}
    IN  IF valued = {} THEN NoRule
        ELSE t[Cut(addr, CHOOSE i \in valued : \A j \in valued : i <= j)]

\* ngfw_lpm_lookup: down the trie until a child is missing; the last rule met wins.
LpmLookup(t, addr) ==
    LET valued == {i \in 0 .. Len(addr) :
                       Cuts(addr, i) \subseteq DOMAIN t /\ t[Cut(addr, i)] # NoRule}
    IN  IF valued = {} THEN NoRule
        ELSE t[Cut(addr, CHOOSE i \in valued : \A j \in valued : j <= i)]

\* The rule an address should get, from the prefixes alone.
LongestPrefixRule(log, addr) ==
    LET covers == {i \in 1 .. Len(log) : Cut(log[i].addr, log[i].len) = Cut(addr, log[i].len)}
    IN  FirstMostConfident(log, {i \in covers : \A j \in covers : log[j].len <= log[i].len})

LpmTypeOK ==
    /\ DOMAIN trie = Families /\ DOMAIN prefixes = Families
    /\ \A af \in Families :
        /\ \A p \in DOMAIN trie[af] :
            /\ p \in Seq({0, 1}) /\ Len(p) <= Bits[af] /\ Cuts(p, Len(p)) \subseteq DOMAIN trie[af]
            /\ trie[af][p] \in Rules \union {NoRule}
        /\ Cardinality(DOMAIN trie[af]) <= MaxLpmNodes

\* Longest prefix match: every address of a family gets the rule of the longest loaded
\* prefix that covers it, /0 and the full width included, whatever the order in which
\* nested and repeated prefixes were loaded and wherever memory ran out between them.
LongestPrefixWins ==
    \A af \in Families : \A addr \in Addresses(af) :
        LpmLookup(trie[af], addr) = LongestPrefixRule(prefixes[af], addr)
=============================================================================
