------------------------------- MODULE Input -------------------------------
(***************************************************************************)
(* Everything the engine reads, in the order of main (engine/main.c): the  *)
(* database is opened (SigDb), its domains, payloads and prefixes are      *)
(* loaded into the matchers (DomainTrie, PayloadSet, Lpm), and the frames  *)
(* of the capture are decoded (Decode).                                    *)
(*                                                                         *)
(* Bounds.  The matchers share nothing, so a database has rules of one     *)
(* kind only, at most MaxRules of them; a damaged file that is accepted is *)
(* not loaded, since any records may follow any header; the decoder does   *)
(* not look at the matchers, and runs when the database is empty.          *)
(***************************************************************************)
EXTENDS Lpm, DomainTrie, PayloadSet, SigDb, Decode

CONSTANTS
    MaxLicense,         \* -l
    MaxRules,
    PoolSize,           \* bytes of the string pool
    DomainRecords, PayloadRecords, CidrRecords,
    Queries             \* names that are looked up

\* A prefix is read with an address of its family; its length may be any.
\* A pattern has all its bytes.
ASSUME InputAssumption ==
    /\ MaxLicense \in Nat /\ MaxRules \in Nat /\ PoolSize \in Nat
    /\ \A c \in CidrRecords :
        /\ c.af \in Families /\ c.addr \in Addresses(c.af)
        /\ c.len \in Nat /\ c.rule \in Rules
    /\ Queries \subseteq Names
    /\ \A d \in DomainRecords : d.name \in Names /\ d.exact \in BOOLEAN /\ d.rule \in Rules
    /\ \A q \in PayloadRecords : q.value \in Words /\ q.mask \in Masks /\ q.rule \in Rules

VARIABLES
    phase,      \* of main
    db,
    next        \* records of the section that have been loaded

vars == <<lpmVars, trieVars, payloadVars, decodeVars, phase, db, next>>
matchers == <<lpmVars, trieVars, payloadVars>>

Tables == {"domain", "payload", "cidr"}
Counts(kind, n) ==
    [s \in Sections |-> CASE s = kind -> n [] s = "app" -> 1 [] s = "pool" -> PoolSize [] OTHER -> 0]
Databases == {Layout(Counts(kind, n)) : kind \in Tables, n \in 0 .. MaxRules}
NoDb == <<>>

TypeOK ==
    /\ LpmTypeOK /\ TrieTypeOK /\ PayloadTypeOK /\ DecodeTypeOK
    /\ phase \in {"open", "domain", "payload", "cidr", "capture", "accepted", "exit"}
    /\ db = NoDb <=> phase = "open"
    /\ next \in 0 .. MaxRules

Init ==
    /\ LpmInit /\ TrieInit /\ PayloadInit /\ DecodeInit
    /\ phase = "open" /\ db = NoDb /\ next = 0

\* ngfw_sigdb_open; main leaves when it fails.
Open ==
    /\ phase = "open"
    /\ \E file \in Databases :
           \/ db' = file /\ phase' = IF Accepted(file) THEN "domain" ELSE "exit"
           \/ /\ db' \in Damaged(file)
              /\ phase' = IF Accepted(db') THEN "accepted" ELSE "exit"
    /\ UNCHANGED <<matchers, decodeVars, next>>

\* Mutant: one record more than there are.
LoadingPast(section) ==
    /\ phase = section /\ next <= db.section[section].count /\ next' = next + 1
    /\ UNCHANGED <<decodeVars, phase, db>>

\* The next record of a section, as long as the licence filter lets it pass.
Loading(section) ==
    /\ phase = section /\ next < db.section[section].count /\ next' = next + 1
    /\ UNCHANGED <<decodeVars, phase, db>>

Filtered(record) == record.rule.lic > MaxLicense

\* build_trie; a name that is not in the pool is passed over.
LoadDomain ==
    /\ Loading("domain")
    /\ \/ \E d \in DomainRecords :
              \/ Filtered(d) /\ UNCHANGED trieVars
              \/ ~Filtered(d) /\ TrieInsert(d)
       \/ UNCHANGED trieVars
    /\ UNCHANGED <<lpmVars, payloadVars>>

\* build_payload
LoadPayload ==
    /\ Loading("payload")
    /\ \E q \in PayloadRecords :
           \/ Filtered(q) /\ UNCHANGED payloadVars
           \/ ~Filtered(q) /\ PayloadInsert(q)
    /\ UNCHANGED <<lpmVars, trieVars>>

\* build_lpm
LoadCidr ==
    /\ Loading("cidr")
    /\ \E c \in CidrRecords :
           \/ Filtered(c) /\ UNCHANGED lpmVars
           \/ ~Filtered(c) /\ LpmInsert(c)
    /\ UNCHANGED <<trieVars, payloadVars>>

Following == [domain |-> "payload", payload |-> "cidr", cidr |-> "capture"]

\* A matcher is built.
NextSection ==
    /\ phase \in Tables /\ next = db.section[phase].count
    /\ phase' = Following[phase] /\ next' = 0
    /\ UNCHANGED <<matchers, decodeVars, db>>

\* A matcher cannot be allocated: main leaves, or does without payloads.
NoMatcher ==
    /\ phase \in Tables /\ next = 0
    /\ phase' = IF phase = "payload" THEN "cidr" ELSE "exit"
    /\ UNCHANGED <<matchers, decodeVars, db, next>>

NoCapture ==
    /\ phase = "capture" /\ stage = "read" /\ caplen = 0
    /\ phase' = "exit"
    /\ UNCHANGED <<matchers, decodeVars, db, next>>

Capturing ==
    /\ phase = "capture" /\ \A s \in Tables : db.section[s].count = 0
    /\ UNCHANGED <<matchers, phase, db, next>>

Read == Capturing /\ NextFrame
Parse == Capturing /\ Decoding

Next ==
    \/ Open \/ LoadDomain \/ LoadPayload \/ LoadCidr \/ NextSection \/ NoMatcher \/ NoCapture
    \/ Read \/ Parse

\* The program runs on: a frame's next check is made some time.
Spec == Init /\ [][Next]_vars /\ WF_vars(Parse)

-----------------------------------------------------------------------------
(* Properties *)

\* Names: a lookup answers with the exact rule of the whole name, or else with the
\* suffix rule of most labels, only at label boundaries, whatever the case and the
\* trailing dot, the order of loading, and the edges that collided, moved when their
\* table grew or were never made because it could not.
MostSpecificName == \A q \in Queries : TrieLookup(q) = MostSpecificRule(q)

\* Payloads: a word gets a rule of a loaded pattern that matches it with the fewest
\* wildcards, the most confident of that pattern's kind, and none if no pattern
\* matches or fewer than four bytes were captured.
TightestPayload ==
    \A w \in Words :
        /\ PayloadLookup(w, Width) \in TightestRules(w)
        /\ PayloadLookup(w, Width - 1) = NoRule

\* "Every field is length-checked against the captured buffer" (engine/tls.c:7) and
\* every section "against the mapping" (sigdb/sigdb_load.c:10): no byte past the
\* captured frame is read, and every section of a database that is accepted lies in
\* the file, whatever lengths, offsets and counts say.
ReadsInside ==
    /\ peak <= caplen
    /\ phase \notin {"open", "exit"} => \A s \in Sections : Inside(db, s)

\* No frame keeps the decoder busy for ever: its loops over tags, extension headers,
\* TLS extensions and names all end.
EveryFrameDecided == (stage = "link") ~> (stage = "read")
=============================================================================
