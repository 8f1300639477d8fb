----------------------------- MODULE DomainTrie -----------------------------
(***************************************************************************)
(* match/domain_trie.c: a trie of names, top-level domain first, whose     *)
(* edges are in one hash table.  A name is the sequence of what stands     *)
(* between its dots, NoLabel where nothing does; labels that differ in     *)
(* case only have one hash.                                                *)
(***************************************************************************)
EXTENDS SigRule

CONSTANTS
    Labels, NoLabel,
    LabelHash,          \* per label
    EdgeHome(_),        \* slot hash of <<parent, label hash>>
    EdgeCap, MaxEdgeCap,
    MaxTrieNodes,       \* bound: node_new fails beyond
    MAX_LABELS

\* What stands between the dots of names.
Names == Seq(Labels \union {NoLabel})

\* An edge has a slot, and is told from an empty one.
ASSUME TrieAssumption ==
    /\ EdgeCap \in Nat \ {0, 1} /\ MaxTrieNodes \in Nat \ {0}
    /\ \A p, n \in 1 .. MaxTrieNodes : \A l \in Labels :
        LET edge == <<p, LabelHash[l]>>
        IN  EdgeHome(edge) \in Nat /\ [key |-> edge, val |-> n] # NoRule

VARIABLES
    edges, nodes,
    names       \* history: the rules loaded, in order

trieVars == <<edges, nodes, names>>

EMPTY == 0      \* nodes are numbered from 1, the root
Root == 1

Edges == INSTANCE ProbeTable WITH
    Home <- EdgeHome, MaxCap <- MaxEdgeCap, Empty <- NoRule

TrieInit ==
    /\ edges = Edges!NewTable(EdgeCap)
    /\ nodes = <<[exact |-> NoRule, suffix |-> NoRule]>>
    /\ names = <<>>

\* The labels of a name, or <<>>: trailing dots are tolerated, an empty label or too
\* many of them are not.
split_labels(d) ==
    LET full == {i \in 1 .. Len(d) : d[i] # NoLabel}
        n == IF full = {} THEN 0 ELSE CHOOSE i \in full : \A j \in full : j <= i
    IN  IF Cardinality(full) = n /\ n <= MAX_LABELS THEN SubSeq(d, 1, n) ELSE <<>>

\* The hashes of a name, top-level domain first.
Inward(d) ==
    LET s == split_labels(d) IN [i \in 1 .. Len(s) |-> LabelHash[s[Len(s) + 1 - i]]]

edge_find(parent, hash) ==
    LET e == Edges!Find(edges, <<parent, hash>>) IN IF e = NoRule THEN EMPTY ELSE e.val

\* One label of ngfw_trie_insert: follow its edge, or create it and its node; cur is
\* EMPTY once node_new or edges_grow has failed.
Step(t, hash) ==
    LET e == Edges!Find(t.edges, <<t.cur, hash>>)
        new == Len(t.nodes) + 1
    IN  IF t.cur = EMPTY THEN t
        ELSE IF e # NoRule THEN [t EXCEPT !.cur = e.val]
        ELSE IF Len(t.nodes) = MaxTrieNodes THEN [t EXCEPT !.cur = EMPTY]
        ELSE [nodes |-> Append(t.nodes, [exact |-> NoRule, suffix |-> NoRule]),
              edges |-> IF Edges!OutOfMemory(t.edges) THEN t.edges
                        ELSE Edges!Put(Edges!Grown(t.edges), <<t.cur, hash>>, new),
              cur |-> IF Edges!OutOfMemory(t.edges) THEN EMPTY ELSE new]

Descend(path) ==
    LET after[i \in 0 .. Len(path)] ==
            IF i = 0 THEN [nodes |-> nodes, edges |-> edges, cur |-> Root]
            ELSE Step(after[i - 1], path[i])
    IN  after[Len(path)]

\* ngfw_trie_insert of a record d, [name, exact, rule].
TrieInsert(d) ==
    LET path == Inward(d.name)
        t == Descend(path)
        kind == IF d.exact THEN "exact" ELSE "suffix"
    IN  \/ path = <<>> /\ UNCHANGED trieVars
        \/ /\ path # <<>> /\ edges' = t.edges
           /\ \/ t.cur = EMPTY /\ nodes' = t.nodes /\ UNCHANGED names
              \/ /\ t.cur # EMPTY
                 /\ nodes' = [t.nodes EXCEPT ![t.cur][kind] = Claim(@, d.rule)]
                 /\ names' = Append(names, d)

\* The nodes on the way of a path, EMPTY where there is none.
Walk(path) ==
    LET at[i \in 0 .. Len(path)] ==
            IF i = 0 THEN Root
            ELSE IF at[i - 1] = EMPTY THEN EMPTY ELSE edge_find(at[i - 1], path[i])
    IN  at

NoMatch == [rule |-> NoRule, exact |-> FALSE, labels |-> 0]

\* ngfw_trie_lookup: an exact rule at the end of the name, or the deepest suffix rule.
TrieLookup(name) ==
    LET path == Inward(name)
        at == Walk(path)
        n == Len(path)
        hits == {i \in 1 .. n : at[i] # EMPTY /\ nodes[at[i]].suffix # NoRule}
        deepest == CHOOSE i \in hits : \A j \in hits : j <= i
    IN  IF n > 0 /\ at[n] # EMPTY /\ nodes[at[n]].exact # NoRule
          THEN [rule |-> nodes[at[n]].exact, exact |-> TRUE, labels |-> n]
        ELSE IF hits = {} THEN NoMatch
        ELSE [rule |-> nodes[at[deepest]].suffix, exact |-> FALSE, labels |-> deepest]

\* The answer a name should get, from the rules alone.
MostSpecificRule(name) ==
    LET path == Inward(name)
        key(i) == Inward(names[i].name)
        whole == {i \in 1 .. Len(names) : names[i].exact /\ key(i) = path}
        above == {i \in 1 .. Len(names) :
                     /\ ~names[i].exact /\ Len(key(i)) <= Len(path)
                     /\ key(i) = SubSeq(path, 1, Len(key(i)))}
        longest == {i \in above : \A j \in above : Len(key(j)) <= Len(key(i))}
    IN  IF whole # {}
          THEN [rule |-> FirstMostConfident(names, whole), exact |-> TRUE, labels |-> Len(path)]
        ELSE IF above = {} THEN NoMatch
        ELSE [rule |-> FirstMostConfident(names, longest), exact |-> FALSE,
              labels |-> Len(key(CHOOSE i \in longest : TRUE))]

TrieTypeOK ==
    /\ \A i \in DOMAIN edges : edges[i] = NoRule \/ edges[i].val \in 2 .. Len(nodes)
    /\ nodes \in Seq([exact : Rules \union {NoRule}, suffix : Rules \union {NoRule}])
    /\ Len(nodes) <= MaxTrieNodes
=============================================================================
