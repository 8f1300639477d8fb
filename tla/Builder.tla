------------------------------ MODULE Builder ------------------------------
(***************************************************************************)
(* The signature compiler's Builder (tools/sigc.py): the loaders of the    *)
(* feeds, one after the other, call app() for an identity and then attach  *)
(* a rule to the id it returned; serialize() keeps what a licence allows.  *)
(* A feed is a table of applications and of rules that name them by a      *)
(* number (netify), a list of hosts (nDPI, OpenAppID, MMT-DPI), a list of  *)
(* prefixes (the cloud feeds), or sources whose payload comparisons are    *)
(* harvested, and become rules only once all of them have been read.       *)
(*                                                                         *)
(* A pattern is the domain, prefix or payload bytes of a rule, of one      *)
(* kind.  A rule's confidence and tier are its feed's and come with its    *)
(* licence.  The tallies that are only printed are left out; the sets of   *)
(* keys already seen are those of the rules.                               *)
(***************************************************************************)
EXTENDS Integers, Sequences

CONSTANTS
    Feeds,      \* the licence of every feed, in loading order
    Shape,      \* per feed: table, hosts, prefixes or harvest
    Slugs,
    Keys,
    Key,        \* per slug: the slug without its separators
    Hyphenated, \* slugs that have a separator
    Drops,      \* data/drops.json
    Aliased,    \* data/aliases.json: the slugs with an entry,
    AliasOf,    \*   and what it says
    Patterns,
    Kind,       \* per pattern: domain, cidr or payload
    Norm,       \* per pattern: what its method stores
    Refused,    \* malformed patterns, and those pinning a reserved framing
    Noise,      \* payloads with too few pinned or distinct bytes
    MaxCalls    \* bound: entries the loaders read

Licences == 0 .. 2
DROPPED == 0

\* Curation is reviewed by hand: what an alias leads to is neither aliased nor dropped.
ASSUME BuilderAssumption ==
    /\ Feeds \in Seq(Licences)
    /\ Shape \in [1 .. Len(Feeds) -> {"table", "hosts", "prefixes", "harvest"}]
    /\ Key \in [Slugs -> Keys]
    /\ Hyphenated \subseteq Slugs /\ Drops \subseteq Slugs /\ Aliased \subseteq Slugs
    /\ AliasOf \in [Aliased -> Slugs \ (Aliased \union Drops)]
    /\ Kind \in [Patterns -> {"domain", "cidr", "payload"}]
    /\ Norm \in [Patterns -> Patterns] /\ Refused \subseteq Patterns
    /\ Noise \subseteq Patterns
    /\ MaxCalls \in Nat

VARIABLES
    source,     \* index of the feed being loaded
    apps,       \* identity -> app id
    app_meta,   \* app id -> display name, licence, feeds that named it
    next_id,
    rules,      \* domains, cidrs and payloads, in the order they were added
    by_native,  \* the table feed's: slug its number stands for -> app id
    owners,     \* a harvest's: feed, payload -> slugs that claim it
    emitted,    \* the payloads of this harvest that are behind its loop
    calls,
    claims      \* history: the rules the feeds have asked for

builder == <<apps, app_meta, next_id, rules>>
vars == <<source, builder, by_native, owners, emitted, calls, claims>>

Ids == Nat \ {DROPPED}
Meta == [name : Slugs, lic : Licences, feeds : SUBSET Nat]
Rule == [pattern : Patterns, app : Nat, lic : Licences]
Claims == [slug : Slugs, pattern : Patterns, lic : Licences, feed : Nat]

TypeOK ==
    /\ source \in 1 .. Len(Feeds) + 1
    /\ DOMAIN apps \subseteq Keys /\ apps \in [DOMAIN apps -> 1 .. next_id - 1]
    /\ app_meta \in [1 .. next_id - 1 -> Meta]
    /\ next_id \in Ids
    /\ rules \in Seq(Rule)
    /\ DOMAIN by_native \subseteq Slugs /\ by_native \in [DOMAIN by_native -> Nat]
    /\ owners \in [1 .. Len(Feeds) -> [Patterns -> SUBSET Slugs]]
    /\ emitted \subseteq Patterns
    /\ calls \in 0 .. MaxCalls
    /\ claims \subseteq Claims

NoNumbers == [s \in {} |-> DROPPED]

Init ==
    /\ source = 1
    /\ apps = [k \in {} |-> DROPPED]
    /\ next_id = 1
    /\ app_meta = [i \in {} |-> DROPPED]
    /\ rules = <<>>
    /\ by_native = NoNumbers
    /\ owners = [f \in 1 .. Len(Feeds) |-> [p \in Patterns |-> {}]]
    /\ emitted = {}
    /\ calls = 0
    /\ claims = {}

-----------------------------------------------------------------------------
(* app *)

\* Mutant: aliases are not looked up.
AsGiven(slug) == slug

Canonical(slug) == IF slug \in Aliased THEN AliasOf[slug] ELSE slug

\* The separator-free form.
Identity(slug) == Key[Canonical(slug)]

Known(slug) == Identity(slug) \in DOMAIN apps

\* The id app() returns.
IdOf(slug) ==
    IF slug \in Drops THEN DROPPED ELSE IF Known(slug) THEN apps[Identity(slug)] ELSE next_id

\* Mutant: the licence of the feed that came first stays.
FirstLicence(old, lic) == old

Freer(old, lic) == IF lic < old THEN lic ELSE old

\* Mutant: the spelling that came first stays.
FirstName(name, slug) == name

\* The hyphenated spelling is preferred for display.
DisplayName(name, slug) ==
    IF slug \in Hyphenated /\ name \notin Hyphenated THEN slug ELSE name

\* Mutant: the counter of ids stands still.
SameId == UNCHANGED next_id

TakeId == next_id' = next_id + 1

Resolve(slug, lic) ==
    \/ /\ slug \in Drops
       /\ UNCHANGED <<apps, app_meta, next_id>>
    \/ /\ slug \notin Drops /\ Known(slug)
       /\ LET old == app_meta[apps[Identity(slug)]] IN
          app_meta' = [app_meta EXCEPT ![apps[Identity(slug)]] =
                          [name |-> DisplayName(old.name, Canonical(slug)),
                           lic |-> Freer(old.lic, lic),
                           feeds |-> old.feeds \union {source}]]
       /\ UNCHANGED <<apps, next_id>>
    \/ /\ slug \notin Drops /\ ~Known(slug)
       /\ apps' = [k \in (DOMAIN apps) \union {Identity(slug)} |->
                      IF k = Identity(slug) THEN next_id ELSE apps[k]]
       /\ app_meta' = [i \in 1 .. next_id |->
                          IF i = next_id
                            THEN [name |-> Canonical(slug), lic |-> lic, feeds |-> {source}]
                            ELSE app_meta[i]]
       /\ TakeId

-----------------------------------------------------------------------------
(* domain, cidr, payload *)

\* cidr() and payload() turn the sentinel down, domain() does not.
TurnedDown(pattern, app) == app = DROPPED /\ Kind[pattern] # "domain"

Seen(pattern, app) ==
    \E i \in 1 .. Len(rules) : rules[i].pattern = Norm[pattern] /\ rules[i].app = app

Attach(pattern, app, lic) ==
    IF TurnedDown(pattern, app) \/ pattern \in Refused \/ Seen(pattern, app)
      THEN UNCHANGED rules
      ELSE rules' = Append(rules, [pattern |-> Norm[pattern], app |-> app, lic |-> lic])

-----------------------------------------------------------------------------
(* The loaders *)

Within(shape) == source <= Len(Feeds) /\ Shape[source] = shape

Reading(shape) ==
    /\ Within(shape)
    /\ calls < MaxCalls /\ calls' = calls + 1
    /\ UNCHANGED source

Claimed(slug, pattern) ==
    claims' = claims \union
        {[slug |-> slug, pattern |-> pattern, lic |-> Feeds[source], feed |-> source]}

\* app(), then the rule with the id it returned.
AppWithRule(slug, pattern) ==
    /\ Resolve(slug, Feeds[source])
    /\ Attach(pattern, IdOf(slug), Feeds[source])
    /\ Claimed(slug, pattern)
    /\ UNCHANGED <<by_native, owners>>

\* A table's "app" line: the id is kept under the number.
Declare(slug) ==
    /\ Reading("table")
    /\ Resolve(slug, Feeds[source])
    /\ by_native' = [s \in DOMAIN by_native \union {slug} |->
                         IF s = slug THEN IdOf(slug) ELSE by_native[s]]
    /\ UNCHANGED <<rules, owners, emitted, claims>>

\* A table's "dom" or "net" line: app() is not called again, and a number no line has
\* declared is skipped.
Entry(slug, pattern) ==
    /\ Reading("table")
    /\ slug \in DOMAIN by_native /\ Kind[pattern] # "payload"
    /\ Attach(pattern, by_native[slug], Feeds[source])
    /\ Claimed(slug, pattern)
    /\ UNCHANGED <<apps, app_meta, next_id, by_native, owners, emitted>>

Host(slug, pattern) ==
    /\ Reading("hosts") /\ Kind[pattern] = "domain"
    /\ AppWithRule(slug, pattern)
    /\ UNCHANGED emitted

Prefix(slug, pattern) ==
    /\ Reading("prefixes") /\ Kind[pattern] = "cidr"
    /\ AppWithRule(slug, pattern)
    /\ UNCHANGED emitted

\* A comparison of the payload in the source file of a protocol.
Harvest(slug, pattern) ==
    /\ Reading("harvest") /\ Kind[pattern] = "payload"
    /\ emitted = {}
    /\ owners' = [owners EXCEPT ![source][pattern] = @ \union {slug}]
    /\ UNCHANGED <<builder, by_native, emitted, claims>>

\* Mutant: a payload several protocols claim goes to one of them.
AnyOwner(slug, pattern) == slug \in owners[source][pattern]

\* The protocols of a feed are told apart by their slugs, not by their identities.
OneOwner(slug, pattern) == owners[source][pattern] = {slug}

\* The harvest's loop over what was collected; a payload that is ambiguous or noise
\* is passed over before app() is called.
Emits(slug, pattern) ==
    OneOwner(slug, pattern) /\ pattern \notin Noise /\ pattern \notin emitted

Emit(slug, pattern) ==
    /\ Within("harvest") /\ Emits(slug, pattern)
    /\ AppWithRule(slug, pattern)
    /\ emitted' = emitted \union {pattern}
    /\ UNCHANGED <<source, calls>>

NextFeed ==
    /\ source <= Len(Feeds)
    /\ Within("harvest") => ~ \E slug \in Slugs, pattern \in Patterns : Emits(slug, pattern)
    /\ source' = source + 1
    /\ by_native' = NoNumbers /\ emitted' = {}
    /\ UNCHANGED <<builder, owners, calls, claims>>

Next ==
    \/ \E slug \in Slugs :
           \/ Declare(slug)
           \/ \E pattern \in Patterns :
                  \/ Entry(slug, pattern) \/ Host(slug, pattern) \/ Prefix(slug, pattern)
                  \/ Harvest(slug, pattern) \/ Emit(slug, pattern)
    \/ NextFeed

Spec == Init /\ [][Next]_vars

-----------------------------------------------------------------------------
(* serialize, and the filter of the engine's loader *)

KeptApps(max) == {i \in DOMAIN app_meta : app_meta[i].lic <= max}

\* Mutant: rules of applications that are not in the build are kept.
ByLicenceOnly(max) == {i \in 1 .. Len(rules) : rules[i].lic <= max}

\* Mutant: only the application's licence is looked at.
ByAppOnly(max) == {i \in 1 .. Len(rules) : rules[i].app \in KeptApps(max)}

\* The rules a build with this licence holds, by their position.
Serialized(max) ==
    {i \in 1 .. Len(rules) : rules[i].lic <= max /\ rules[i].app \in KeptApps(max)}

\* What build_trie, build_lpm and build_payload load with -l max from a build with
\* licence built.
Loaded(built, max) == {i \in Serialized(built) : rules[i].lic <= max}

-----------------------------------------------------------------------------
(* Properties *)

\* "a build can be filtered to what it may actually ship" (tools/sigc.py:5-6): every
\* rule of a build was claimed, for this application and with this pattern, by a feed
\* whose licence the build allows (by one protocol only, where the feed is a harvest:
\* "claimed by exactly ONE protocol", tools/sigc.py:545), and its application is in the
\* build and was named by such a feed.
ShippedIsLicensed ==
    \A max \in Licences : \A i \in Serialized(max) :
        /\ \E c \in claims :
               /\ c.lic <= max /\ Norm[c.pattern] = rules[i].pattern
               /\ c.slug \notin Drops /\ Known(c.slug) /\ apps[Identity(c.slug)] = rules[i].app
               /\ Shape[c.feed] = "harvest" => owners[c.feed][c.pattern] = {c.slug}
        /\ \E f \in app_meta[rules[i].app].feeds : Feeds[f] <= max

\* "License filtering is checked at load time, not just at compile time" (docs/
\* engine.md): asking the full database with -l gives exactly the rules, in order, of
\* the database compiled with --max-license.
LoadFilterAgrees ==
    \A built \in Licences : \A max \in 0 .. built : Loaded(built, max) = Serialized(max)

\* "every drop and alias is applied" (tools/dup_audit.py:117): no application has the
\* name of a dropped or aliased slug, and no build has a rule that a feed attached to a
\* dropped one, whatever the order in which the feeds name them.
CurationApplied ==
    /\ \A i \in DOMAIN app_meta : app_meta[i].name \notin Drops \union Aliased
    /\ \A max \in Licences : \A i \in Serialized(max) : rules[i].app # DROPPED

\* One application is one identity: its display name has its identity, is hyphenated
\* if any feed spells it so, and no two applications share one.
NamesAreIdentities ==
    /\ \A k \in DOMAIN apps : Key[app_meta[apps[k]].name] = k
    /\ \A c \in claims : c.slug \notin Drops /\ Canonical(c.slug) \in Hyphenated =>
           app_meta[apps[Identity(c.slug)]].name \in Hyphenated
    /\ \A k, l \in DOMAIN apps : apps[k] = apps[l] => k = l

\* "Apache-2.0, so everything here lands in the SHIPPABLE build" (tools/sigc.py:457):
\* what a feed with a permissive licence claims is in the permissive build.
ShippableLands ==
    \A c \in claims : c.lic = 0 /\ c.slug \notin Drops /\ c.pattern \notin Refused =>
        \E i \in Serialized(0) :
            rules[i].pattern = Norm[c.pattern] /\ rules[i].app = apps[Identity(c.slug)]
=============================================================================
