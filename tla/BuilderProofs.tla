--------------------------- MODULE BuilderProofs ---------------------------
(***************************************************************************)
(* The licence filter and the curation of the signature compiler hold for  *)
(* all feeds, slugs, patterns and orders of calls.                         *)
(*                                                                         *)
(* The filter of serialize looks at the licence of a rule and at that of   *)
(* its application.  What makes the two agree is that app() has been       *)
(* called with the rule's licence before the rule is added, and only ever  *)
(* lowers the licence of an application (LicenceCovers).  Where app() is   *)
(* not called anew, as for the rules of a table, the number remembered     *)
(* still stands for what it stood for (NumbersTrue).                       *)
(***************************************************************************)
EXTENDS Builder, TLAPS

\* The applications: ids are given once, names belong to their identities, and the
\* licence of an application is that of a feed that named it.
AppsSound ==
    /\ \A k, l \in DOMAIN apps : apps[k] = apps[l] => k = l
    /\ \A k \in DOMAIN apps : Key[app_meta[apps[k]].name] = k
    /\ \A i \in 1 .. next_id - 1 :
           /\ app_meta[i].name \notin Drops \union Aliased
           /\ \E f \in app_meta[i].feeds : f \in 1 .. Len(Feeds) /\ Feeds[f] <= app_meta[i].lic

\* A rule's application is free to use under the rule's licence.
LicenceCovers ==
    \A i \in 1 .. Len(rules) : rules[i].app # DROPPED =>
        rules[i].app \in 1 .. next_id - 1 /\ app_meta[rules[i].app].lic <= rules[i].lic

\* A rule is what some feed claimed, under that feed's licence.
RulesClaimed ==
    \A i \in 1 .. Len(rules) : \E c \in claims :
        /\ Norm[c.pattern] = rules[i].pattern /\ c.lic = rules[i].lic
        /\ rules[i].app # DROPPED =>
               c.slug \notin Drops /\ Known(c.slug) /\ apps[Identity(c.slug)] = rules[i].app

\* What was claimed for a curated slug has an application, well spelled.
ClaimsNamed ==
    \A c \in claims : c.slug \notin Drops =>
        /\ Known(c.slug)
        /\ Canonical(c.slug) \in Hyphenated =>
               app_meta[apps[Identity(c.slug)]].name \in Hyphenated

\* The id is the one app() gives the slug, and free to use under the licence.
Named(slug, id, lic) ==
    /\ slug \in Drops => id = DROPPED
    /\ slug \notin Drops =>
           /\ Identity(slug) \in DOMAIN apps
           /\ apps[Identity(slug)] = id
           /\ id \in 1 .. next_id - 1
           /\ app_meta[id].lic <= lic
           /\ Canonical(slug) \in Hyphenated => app_meta[id].name \in Hyphenated

\* Every number a table has declared stands for the application of its slug.
NumbersTrue ==
    \A s \in DOMAIN by_native :
        source <= Len(Feeds) /\ Named(s, by_native[s], Feeds[source])

\* A harvested rule has one owner, and keeps it: its loop runs after all the reading.
HarvestsWhole ==
    \A c \in claims : Shape[c.feed] = "harvest" =>
        /\ owners[c.feed][c.pattern] = {c.slug}
        /\ c.feed = source => c.pattern \in emitted

\* The feeds that have claimed something have been reached.
ClaimsReached == \A c \in claims : c.feed \in 1 .. Len(Feeds) /\ c.feed <= source

BInv ==
    /\ TypeOK
    /\ AppsSound
    /\ LicenceCovers
    /\ RulesClaimed
    /\ ClaimsNamed
    /\ NumbersTrue
    /\ HarvestsWhole
    /\ ClaimsReached

-----------------------------------------------------------------------------
\* An identity is a key, and a canonical slug is curated.
LEMMA CanonicalCurated ==
    ASSUME NEW slug \in Slugs
    PROVE  /\ Canonical(slug) \in Slugs /\ Identity(slug) \in Keys
           /\ slug \notin Drops => Canonical(slug) \notin Drops \union Aliased
BY BuilderAssumption DEF Canonical, Identity

\* What is known of an application stays true: its id, a licence it is free under, a
\* hyphenated name.
Grown ==
    /\ \A k \in DOMAIN apps : k \in DOMAIN apps' /\ apps'[k] = apps[k]
    /\ next_id <= next_id'
    /\ \A i \in 1 .. next_id - 1 :
           /\ app_meta'[i].lic <= app_meta[i].lic
           /\ app_meta[i].name \in Hyphenated => app_meta'[i].name \in Hyphenated

\* What a call of app() does to the applications, whatever case it meets.
Resolved(slug, lic) ==
    /\ Grown
    /\ slug \notin Drops =>
           /\ Identity(slug) \in DOMAIN apps'
           /\ apps'[Identity(slug)] = IdOf(slug)
           /\ IdOf(slug) \in 1 .. next_id' - 1
           /\ app_meta'[IdOf(slug)].lic <= lic
           /\ Canonical(slug) \in Hyphenated => app_meta'[IdOf(slug)].name \in Hyphenated

AppsTyped ==
    /\ DOMAIN apps \subseteq Keys /\ apps \in [DOMAIN apps -> 1 .. next_id - 1]
    /\ app_meta \in [1 .. next_id - 1 -> Meta]
    /\ next_id \in Ids

\* A known identity: one entry of app_meta is merged, nothing else moves.
LEMMA MergeSound ==
    ASSUME AppsTyped, AppsSound, NEW slug \in Slugs, source \in 1 .. Len(Feeds),
           slug \notin Drops, Known(slug), Resolve(slug, Feeds[source])
    PROVE  AppsTyped' /\ AppsSound' /\ Resolved(slug, Feeds[source])
<1> DEFINE id == apps[Identity(slug)]
           old == app_meta[id]
           new == [name |-> DisplayName(old.name, Canonical(slug)),
                   lic |-> Freer(old.lic, Feeds[source]),
                   feeds |-> old.feeds \union {source}]
<1>1. /\ id \in 1 .. next_id - 1 /\ Identity(slug) \in DOMAIN apps
      /\ apps' = apps /\ next_id' = next_id
      /\ app_meta' = [app_meta EXCEPT ![id] = new]
  BY DEF AppsTyped, Known, Resolve
<1>2. old \in Meta /\ Feeds[source] \in Licences
  BY <1>1, BuilderAssumption DEF AppsTyped
<1>3. /\ old.name \in Slugs /\ old.lic \in Licences /\ old.feeds \in SUBSET Nat
      /\ Canonical(slug) \in Slugs /\ Canonical(slug) \notin Drops \union Aliased
  BY <1>2, CanonicalCurated DEF Meta
<1>4. new \in Meta
  <2>1. new.name \in Slugs /\ new.lic \in Licences
    BY <1>2, <1>3 DEF DisplayName, Freer
  <2>2. new.feeds \in SUBSET Nat
    BY <1>3
  <2> QED BY <2>1, <2>2 DEF Meta
<1>5. /\ app_meta' \in [1 .. next_id - 1 -> Meta] /\ app_meta'[id] = new
      /\ \A i \in 1 .. next_id - 1 : i # id => app_meta'[i] = app_meta[i]
  <2> HIDE DEF new
  <2> QED BY <1>1, <1>4 DEF AppsTyped
<1>6. AppsTyped'
  BY <1>1, <1>5 DEF AppsTyped
<1>7. Key[old.name] = Identity(slug)
  BY <1>1 DEF AppsSound
<1>8. /\ Key[new.name] = Identity(slug) /\ new.name \notin Drops \union Aliased
      /\ new.lic <= old.lic /\ new.lic <= Feeds[source]
      /\ old.name \in Hyphenated => new.name \in Hyphenated
      /\ Canonical(slug) \in Hyphenated => new.name \in Hyphenated
  <2>1. old.name \notin Drops \union Aliased
    BY <1>1 DEF AppsSound
  <2>2. new.lic <= old.lic /\ new.lic <= Feeds[source]
    BY <1>2, <1>3 DEF Freer, Licences
  <2> QED BY <1>3, <1>7, <2>1, <2>2 DEF DisplayName, Identity
<1>9. \E f \in new.feeds : f \in 1 .. Len(Feeds) /\ Feeds[f] <= new.lic
  <2>1. PICK f \in old.feeds : f \in 1 .. Len(Feeds) /\ Feeds[f] <= old.lic
    BY <1>1 DEF AppsSound
  <2>2. CASE Feeds[source] < old.lic
    BY <1>2, <2>2 DEF Freer, Licences
  <2>3. CASE ~(Feeds[source] < old.lic)
    BY <2>1, <2>3 DEF Freer
  <2> QED BY <2>2, <2>3
<1> HIDE DEF new, old, id
<1>10. AppsSound'
  <2>1. ASSUME NEW k \in DOMAIN apps PROVE Key[app_meta'[apps[k]].name] = k
    <3>1. apps[k] \in 1 .. next_id - 1
      BY DEF AppsTyped
    <3>2. CASE apps[k] = id
      BY <1>1, <1>5, <1>8, <3>2 DEF AppsSound, id
    <3>3. CASE apps[k] # id
      BY <1>5, <3>1, <3>3 DEF AppsSound
    <3> QED BY <3>2, <3>3
  <2>2. ASSUME NEW i \in 1 .. next_id - 1
        PROVE  /\ app_meta'[i].name \notin Drops \union Aliased
               /\ \E f \in app_meta'[i].feeds : f \in 1 .. Len(Feeds)
                                                /\ Feeds[f] <= app_meta'[i].lic
    <3>1. CASE i = id
      BY <1>5, <1>8, <1>9, <3>1
    <3>2. CASE i # id
      BY <1>5, <3>2 DEF AppsSound
    <3> QED BY <3>1, <3>2
  <2> QED BY <1>1, <2>1, <2>2 DEF AppsSound
<1>11. Resolved(slug, Feeds[source])
  <2>1. IdOf(slug) = id
    BY DEF IdOf, id
  <2>2. next_id <= next_id'
    BY <1>1 DEF AppsTyped, Ids
  <2>3. ASSUME NEW i \in 1 .. next_id - 1
        PROVE  /\ app_meta'[i].lic <= app_meta[i].lic
               /\ app_meta[i].name \in Hyphenated => app_meta'[i].name \in Hyphenated
    <3>1. CASE i = id
      BY <1>5, <1>8, <3>1 DEF old
    <3>2. CASE i # id
      <4>1. app_meta[i].lic \in Licences
        BY DEF AppsTyped, Meta
      <4> QED BY <1>5, <3>2, <4>1 DEF Licences
    <3> QED BY <3>1, <3>2
  <2>4. /\ Identity(slug) \in DOMAIN apps' /\ apps'[Identity(slug)] = id
        /\ id \in 1 .. next_id' - 1
    BY <1>1 DEF id
  <2> QED BY <1>1, <1>5, <1>8, <2>1, <2>2, <2>3, <2>4 DEF Resolved, Grown
<1> QED BY <1>6, <1>10, <1>11

\* A fresh identity: an id is taken, the applications before it stay as they are.
LEMMA FreshSound ==
    ASSUME AppsTyped, AppsSound, NEW slug \in Slugs, source \in 1 .. Len(Feeds),
           slug \notin Drops, ~Known(slug), Resolve(slug, Feeds[source])
    PROVE  AppsTyped' /\ AppsSound' /\ Resolved(slug, Feeds[source])
<1> DEFINE key == Identity(slug)
           new == [name |-> Canonical(slug), lic |-> Feeds[source], feeds |-> {source}]
<1>1. /\ key \notin DOMAIN apps
      /\ apps' = [k \in (DOMAIN apps) \union {key} |-> IF k = key THEN next_id ELSE apps[k]]
      /\ app_meta' = [i \in 1 .. next_id |-> IF i = next_id THEN new ELSE app_meta[i]]
      /\ next_id' = next_id + 1
  BY DEF Known, Resolve, TakeId
<1>2. /\ Canonical(slug) \in Slugs /\ Canonical(slug) \notin Drops \union Aliased
      /\ key \in Keys /\ Key[Canonical(slug)] = key
  BY CanonicalCurated DEF Identity
<1>3. Feeds[source] \in Licences /\ Feeds \in Seq(Licences) /\ source \in Nat
  BY BuilderAssumption
<1>4. new \in Meta
  BY <1>2, <1>3 DEF Meta
<1>5. next_id \in Nat /\ next_id >= 1
  BY DEF AppsTyped, Ids, DROPPED
<1> HIDE DEF key
<1>6. new.name = Canonical(slug) /\ new.lic = Feeds[source] /\ new.feeds = {source}
  OBVIOUS
<1> HIDE DEF new
<1>7. /\ \A i \in 1 .. next_id - 1 : app_meta'[i] = app_meta[i]
      /\ app_meta'[next_id] = new /\ 1 .. next_id' - 1 = 1 .. next_id
      /\ \A k \in DOMAIN apps : apps'[k] = apps[k] /\ apps[k] \in 1 .. next_id - 1
      /\ apps'[key] = next_id /\ DOMAIN apps' = (DOMAIN apps) \union {key}
  BY <1>1, <1>5 DEF AppsTyped
<1>8. AppsTyped'
  <2>1. apps' \in [DOMAIN apps' -> 1 .. next_id]
    BY <1>1, <1>5, <1>7
  <2>2. app_meta' \in [1 .. next_id -> Meta]
    BY <1>1, <1>4, <1>5 DEF AppsTyped
  <2>3. next_id' \in Ids
    BY <1>1, <1>5 DEF Ids, DROPPED
  <2>4. DOMAIN apps' \subseteq Keys
    BY <1>2, <1>7 DEF AppsTyped
  <2> QED BY <1>7, <2>1, <2>2, <2>3, <2>4 DEF AppsTyped
<1>9. AppsSound'
  <2>1. ASSUME NEW k \in DOMAIN apps', NEW l \in DOMAIN apps', apps'[k] = apps'[l]
        PROVE  k = l
    <3>1. next_id \notin 1 .. next_id - 1
      BY <1>5
    <3>2. CASE k = key
      BY <1>7, <2>1, <3>1, <3>2
    <3>3. CASE l = key
      BY <1>7, <2>1, <3>1, <3>3
    <3>4. CASE k # key /\ l # key
      BY <1>7, <2>1, <3>4 DEF AppsSound
    <3> QED BY <3>2, <3>3, <3>4
  <2>2. ASSUME NEW k \in DOMAIN apps' PROVE Key[app_meta'[apps'[k]].name] = k
    <3>1. CASE k = key
      BY <1>2, <1>6, <1>7, <3>1
    <3>2. CASE k # key
      BY <1>7, <3>2 DEF AppsSound
    <3> QED BY <3>1, <3>2
  <2>3. ASSUME NEW i \in 1 .. next_id
        PROVE  /\ app_meta'[i].name \notin Drops \union Aliased
               /\ \E f \in app_meta'[i].feeds : f \in 1 .. Len(Feeds)
                                                /\ Feeds[f] <= app_meta'[i].lic
    <3>1. CASE i = next_id
      BY <1>2, <1>3, <1>6, <1>7, <3>1 DEF Licences
    <3>2. CASE i # next_id
      <4>1. i \in 1 .. next_id - 1
        BY <1>5, <3>2
      <4> QED BY <1>7, <4>1 DEF AppsSound
    <3> QED BY <3>1, <3>2
  <2> QED BY <1>7, <2>1, <2>2, <2>3 DEF AppsSound
<1>10. Resolved(slug, Feeds[source])
  <2>1. IdOf(slug) = next_id
    BY DEF IdOf
  <2>2. next_id <= next_id' /\ next_id \in 1 .. next_id' - 1
    BY <1>1, <1>5
  <2>3. ASSUME NEW i \in 1 .. next_id - 1
        PROVE  /\ app_meta'[i].lic <= app_meta[i].lic
               /\ app_meta[i].name \in Hyphenated => app_meta'[i].name \in Hyphenated
    <3>1. app_meta[i].lic \in Licences
      BY DEF AppsTyped, Meta
    <3> QED BY <1>7, <3>1 DEF Licences
  <2>4. app_meta'[next_id].lic <= Feeds[source]
    BY <1>3, <1>6, <1>7 DEF Licences
  <2> QED BY <1>6, <1>7, <2>1, <2>2, <2>3, <2>4 DEF Resolved, Grown, key
<1> QED BY <1>8, <1>9, <1>10

\* Where nothing is done to the applications, they are sound as before.
LEMMA AppsUntouched ==
    ASSUME AppsTyped, AppsSound, UNCHANGED <<apps, app_meta, next_id>>
    PROVE  AppsTyped' /\ AppsSound' /\ Grown
<1>1. AppsTyped' /\ AppsSound'
  BY DEF AppsTyped, AppsSound
<1>2. \A i \in 1 .. next_id - 1 : app_meta[i].lic <= app_meta[i].lic
  BY DEF AppsTyped, Meta, Licences
<1>3. next_id <= next_id
  BY DEF AppsTyped, Ids
<1> QED BY <1>1, <1>2, <1>3 DEF Grown

\* Every call of app() keeps the applications sound.
LEMMA ResolveSound ==
    ASSUME AppsTyped, AppsSound, NEW slug \in Slugs, source \in 1 .. Len(Feeds),
           Resolve(slug, Feeds[source])
    PROVE  AppsTyped' /\ AppsSound' /\ Resolved(slug, Feeds[source])
<1>1. CASE slug \in Drops
  <2>1. UNCHANGED <<apps, app_meta, next_id>>
    BY <1>1 DEF Resolve
  <2> QED BY <1>1, <2>1, AppsUntouched DEF Resolved
<1> QED BY <1>1, MergeSound, FreshSound

-----------------------------------------------------------------------------
\* A call of app() takes nothing from the rules and claims there are.
LEMMA RulesKept ==
    ASSUME BInv, AppsTyped', Grown, claims \subseteq claims'
    PROVE  /\ \A i \in 1 .. Len(rules) : rules[i].app # DROPPED =>
                  /\ rules[i].app \in 1 .. next_id' - 1
                  /\ app_meta'[rules[i].app].lic <= rules[i].lic
           /\ \A i \in 1 .. Len(rules) : \E c \in claims' :
                  /\ Norm[c.pattern] = rules[i].pattern /\ c.lic = rules[i].lic
                  /\ rules[i].app # DROPPED =>
                         /\ c.slug \notin Drops
                         /\ Identity(c.slug) \in DOMAIN apps'
                         /\ apps'[Identity(c.slug)] = rules[i].app
           /\ \A c \in claims : c.slug \notin Drops =>
                  /\ Identity(c.slug) \in DOMAIN apps'
                  /\ Canonical(c.slug) \in Hyphenated =>
                         app_meta'[apps'[Identity(c.slug)]].name \in Hyphenated
<1>1. /\ rules \in Seq(Rule) /\ next_id \in Nat
      /\ app_meta \in [1 .. next_id - 1 -> Meta] /\ apps \in [DOMAIN apps -> 1 .. next_id - 1]
  BY DEF BInv, TypeOK, Ids
<1>2. ASSUME NEW i \in 1 .. Len(rules), rules[i].app # DROPPED
      PROVE  rules[i].app \in 1 .. next_id' - 1 /\ app_meta'[rules[i].app].lic <= rules[i].lic
  <2> DEFINE id == rules[i].app
  <2>1. id \in 1 .. next_id - 1 /\ app_meta[id].lic <= rules[i].lic
    BY <1>2 DEF BInv, LicenceCovers
  <2>2. app_meta'[id].lic <= app_meta[id].lic /\ next_id <= next_id'
    BY <2>1 DEF Resolved, Grown
  <2>3. id \in 1 .. next_id' - 1
    BY <1>1, <2>1, <2>2 DEF AppsTyped, Ids
  <2>4. rules[i] \in Rule /\ app_meta[id] \in Meta /\ app_meta'[id] \in Meta
    BY <1>1, <2>1, <2>3 DEF AppsTyped
  <2>5. rules[i].lic \in Int /\ app_meta[id].lic \in Int /\ app_meta'[id].lic \in Int
    BY <2>4 DEF Rule, Meta, Licences
  <2> QED BY <2>1, <2>2, <2>3, <2>5
<1>3. ASSUME NEW i \in 1 .. Len(rules)
      PROVE  \E c \in claims' :
                 /\ Norm[c.pattern] = rules[i].pattern /\ c.lic = rules[i].lic
                 /\ rules[i].app # DROPPED =>
                        /\ c.slug \notin Drops
                        /\ Identity(c.slug) \in DOMAIN apps'
                        /\ apps'[Identity(c.slug)] = rules[i].app
  BY DEF BInv, RulesClaimed, Known, Grown
<1>4. ASSUME NEW c \in claims, c.slug \notin Drops
      PROVE  /\ Identity(c.slug) \in DOMAIN apps'
             /\ Canonical(c.slug) \in Hyphenated =>
                    app_meta'[apps'[Identity(c.slug)]].name \in Hyphenated
  <2>1. /\ Identity(c.slug) \in DOMAIN apps
        /\ Canonical(c.slug) \in Hyphenated =>
               app_meta[apps[Identity(c.slug)]].name \in Hyphenated
    BY <1>4 DEF BInv, ClaimsNamed, Known
  <2>2. /\ Identity(c.slug) \in DOMAIN apps' /\ apps'[Identity(c.slug)] = apps[Identity(c.slug)]
        /\ apps[Identity(c.slug)] \in 1 .. next_id - 1
    BY <1>1, <2>1 DEF Resolved, Grown
  <2> QED BY <2>1, <2>2 DEF Resolved, Grown
<1> QED BY <1>2, <1>3, <1>4

\* An id stays the one of its slug.
LEMMA NamedKept ==
    ASSUME AppsTyped, AppsTyped', Grown, NEW slug, NEW id, NEW lic \in Licences,
           Named(slug, id, lic)
    PROVE  Named(slug, id, lic)'
<1>1. ASSUME slug \notin Drops
      PROVE  /\ Identity(slug) \in DOMAIN apps' /\ apps'[Identity(slug)] = id
             /\ id \in 1 .. next_id' - 1 /\ app_meta'[id].lic <= lic
             /\ Canonical(slug) \in Hyphenated => app_meta'[id].name \in Hyphenated
  <2>1. /\ Identity(slug) \in DOMAIN apps /\ apps[Identity(slug)] = id
        /\ id \in 1 .. next_id - 1 /\ app_meta[id].lic <= lic
        /\ Canonical(slug) \in Hyphenated => app_meta[id].name \in Hyphenated
    BY <1>1 DEF Named
  <2>2. /\ Identity(slug) \in DOMAIN apps' /\ apps'[Identity(slug)] = id
        /\ next_id <= next_id' /\ app_meta'[id].lic <= app_meta[id].lic
        /\ app_meta[id].name \in Hyphenated => app_meta'[id].name \in Hyphenated
    BY <2>1 DEF Grown
  <2>3. id \in 1 .. next_id' - 1
    BY <2>1, <2>2 DEF AppsTyped, Ids
  <2>4. app_meta[id] \in Meta /\ app_meta'[id] \in Meta
    BY <2>1, <2>3 DEF AppsTyped
  <2>5. app_meta[id].lic \in Int /\ app_meta'[id].lic \in Int /\ lic \in Int
    BY <2>4 DEF Meta, Licences
  <2> QED BY <2>1, <2>2, <2>3, <2>5
<1>2. slug \in Drops => id = DROPPED
  BY DEF Named
<1> QED BY <1>1, <1>2 DEF Named, Identity, Canonical

\* The numbers of a table stay true while applications are added and merged.
LEMMA NumbersKept ==
    ASSUME BInv, AppsTyped', Grown, UNCHANGED <<source, by_native>>
    PROVE  NumbersTrue'
<1> SUFFICES ASSUME NEW s \in DOMAIN by_native
             PROVE  source' <= Len(Feeds) /\ Named(s, by_native[s], Feeds[source])'
  BY DEF NumbersTrue
<1>1. source <= Len(Feeds) /\ Named(s, by_native[s], Feeds[source]) /\ AppsTyped
  BY DEF BInv, NumbersTrue, TypeOK, AppsTyped
<1>2. Feeds[source] \in Licences
  BY <1>1, BuilderAssumption DEF BInv, TypeOK
<1>3. PICK id, lic : id = by_native[s] /\ lic = Feeds[source] /\ lic \in Licences
  BY <1>2
<1>4. Named(s, id, lic)
  BY <1>1, <1>3
<1>5. Named(s, id, lic)'
  BY <1>1, <1>3, <1>4, NamedKept
<1> QED BY <1>1, <1>3, <1>5 DEF Named

\* A rule is added for the id of its slug, free to use under the same licence.
LEMMA AttachSound ==
    ASSUME BInv, AppsTyped', Grown, NEW slug \in Slugs, NEW pattern \in Patterns,
           NEW id, NEW lic, lic = Feeds[source], source \in 1 .. Len(Feeds),
           Named(slug, id, lic)', Attach(pattern, id, lic), Claimed(slug, pattern)
    PROVE  /\ rules' \in Seq(Rule) /\ claims' \subseteq Claims
           /\ LicenceCovers' /\ RulesClaimed' /\ ClaimsNamed'
<1> DEFINE claim == [slug |-> slug, pattern |-> pattern, lic |-> lic, feed |-> source]
           rule == [pattern |-> Norm[pattern], app |-> id, lic |-> lic]
<1>1. lic \in Licences /\ source \in Nat /\ Norm[pattern] \in Patterns
  BY BuilderAssumption
<1>2. /\ slug \in Drops => id = DROPPED
      /\ slug \notin Drops =>
             /\ Identity(slug) \in DOMAIN apps' /\ apps'[Identity(slug)] = id
             /\ id \in 1 .. next_id' - 1 /\ app_meta'[id].lic <= lic
             /\ Canonical(slug) \in Hyphenated => app_meta'[id].name \in Hyphenated
  BY DEF Named, Identity, Canonical
<1>3. id \in Nat
  BY <1>2 DEF DROPPED
<1>4. rule \in Rule /\ claim \in Claims /\ claim \in claims'
  BY <1>1, <1>3 DEF Rule, Claims, Claimed
<1>5. /\ rule.pattern = Norm[pattern] /\ rule.app = id /\ rule.lic = lic
      /\ claim.slug = slug /\ claim.pattern = pattern /\ claim.lic = lic
  OBVIOUS
<1>6. rules \in Seq(Rule) /\ claims \subseteq Claims
  BY DEF BInv, TypeOK
<1>7. rules' = rules \/ rules' = Append(rules, rule)
  BY DEF Attach
<1>8. claims' = claims \union {claim}
  BY DEF Claimed
<1> HIDE DEF rule, claim
<1>9. rules' \in Seq(Rule) /\ claims' \subseteq Claims /\ claims \subseteq claims'
  BY <1>4, <1>6, <1>7, <1>8
<1>10. ASSUME NEW i \in 1 .. Len(rules')
       PROVE  (i \in 1 .. Len(rules) /\ rules'[i] = rules[i]) \/ rules'[i] = rule
  BY <1>4, <1>6, <1>7
<1>11. LicenceCovers'
  <2>1. ASSUME NEW i \in 1 .. Len(rules'), rules'[i].app # DROPPED
        PROVE  /\ rules'[i].app \in 1 .. next_id' - 1
               /\ app_meta'[rules'[i].app].lic <= rules'[i].lic
    <3>1. CASE i \in 1 .. Len(rules) /\ rules'[i] = rules[i]
      BY <1>9, <2>1, <3>1, RulesKept
    <3>2. CASE rules'[i] = rule
      BY <1>2, <1>5, <2>1, <3>2
    <3> QED BY <1>10, <3>1, <3>2
  <2> QED BY <2>1 DEF LicenceCovers
<1>12. RulesClaimed'
  <2>1. ASSUME NEW i \in 1 .. Len(rules')
        PROVE  \E c \in claims' :
                   /\ Norm[c.pattern] = rules'[i].pattern /\ c.lic = rules'[i].lic
                   /\ rules'[i].app # DROPPED =>
                          /\ c.slug \notin Drops
                          /\ Identity(c.slug) \in DOMAIN apps'
                          /\ apps'[Identity(c.slug)] = rules'[i].app
    <3>1. CASE i \in 1 .. Len(rules) /\ rules'[i] = rules[i]
      BY <1>9, <3>1, RulesKept
    <3>2. CASE rules'[i] = rule
      BY <1>2, <1>4, <1>5, <3>2
    <3> QED BY <1>10, <3>1, <3>2
  <2> QED BY <2>1 DEF RulesClaimed, Known, Identity
<1>13. ClaimsNamed'
  <2>1. ASSUME NEW c \in claims', c.slug \notin Drops
        PROVE  /\ Identity(c.slug) \in DOMAIN apps'
               /\ Canonical(c.slug) \in Hyphenated =>
                      app_meta'[apps'[Identity(c.slug)]].name \in Hyphenated
    <3>1. CASE c \in claims
      BY <1>9, <2>1, <3>1, RulesKept
    <3>2. CASE c = claim
      BY <1>2, <1>5, <2>1, <3>2
    <3> QED BY <1>8, <3>1, <3>2
  <2> QED BY <2>1 DEF ClaimsNamed, Known, Identity
<1> QED BY <1>9, <1>11, <1>12, <1>13

\* The empty builder.
LEMMA BInit == Init => BInv
<1> SUFFICES ASSUME Init PROVE BInv
  OBVIOUS
<1>1. 1 .. next_id - 1 = {} /\ DOMAIN by_native = {} /\ claims = {}
  BY DEF Init, NoNumbers
<1>2. TypeOK
  <2>1. apps \in [DOMAIN apps -> 1 .. next_id - 1] /\ DOMAIN apps = {}
    BY DEF Init
  <2>2. app_meta \in [1 .. next_id - 1 -> Meta]
    BY <1>1 DEF Init
  <2>3. source \in 1 .. Len(Feeds) + 1
    BY BuilderAssumption DEF Init
  <2>4. by_native \in [DOMAIN by_native -> Nat]
    BY DEF Init, NoNumbers
  <2>5. owners \in [1 .. Len(Feeds) -> [Patterns -> SUBSET Slugs]]
    BY DEF Init
  <2> QED BY <1>1, <2>1, <2>2, <2>3, <2>4, <2>5, BuilderAssumption DEF Init, TypeOK, Ids, DROPPED
<1> QED BY <1>1, <1>2 DEF Init, BInv, AppsSound, LicenceCovers, RulesClaimed, ClaimsNamed,
           NumbersTrue, HarvestsWhole, ClaimsReached

\* The applications of a typed builder.
LEMMA AppsOfBInv == BInv => AppsTyped /\ AppsSound
BY DEF BInv, TypeOK, AppsTyped

\* What app() returns is the id of its slug.
LEMMA ResolvedNames ==
    ASSUME NEW slug, NEW id, NEW lic, Resolved(slug, lic), id = IdOf(slug)
    PROVE  Named(slug, id, lic)'
<1>1. slug \in Drops => id = DROPPED
  BY DEF IdOf
<1> QED BY <1>1 DEF Resolved, Named, Identity, Canonical

\* What holds of the builder, however its feed goes on.
BuilderSound == AppsTyped /\ AppsSound /\ LicenceCovers /\ RulesClaimed /\ ClaimsNamed
                /\ NumbersTrue

\* app() and then the rule: the applications, the rules and the numbers stay sound.
LEMMA AppWithRuleSound ==
    ASSUME BInv, NEW slug \in Slugs, NEW pattern \in Patterns,
           source \in 1 .. Len(Feeds), source' = source, AppWithRule(slug, pattern)
    PROVE  BuilderSound' /\ rules' \in Seq(Rule) /\ claims' \subseteq Claims
<1>1. /\ Resolve(slug, Feeds[source]) /\ Attach(pattern, IdOf(slug), Feeds[source])
      /\ Claimed(slug, pattern) /\ by_native' = by_native
  BY DEF AppWithRule
<1>2. AppsTyped' /\ AppsSound' /\ Resolved(slug, Feeds[source])
  BY <1>1, ResolveSound, AppsOfBInv
<1>3. PICK id, lic : id = IdOf(slug) /\ lic = Feeds[source]
  OBVIOUS
<1>4. Resolved(slug, lic) /\ Attach(pattern, id, lic) /\ Grown
  BY <1>1, <1>2, <1>3 DEF Resolved
<1>5. Named(slug, id, lic)'
  BY <1>3, <1>4, ResolvedNames
<1>6. /\ rules' \in Seq(Rule) /\ claims' \subseteq Claims
      /\ LicenceCovers' /\ RulesClaimed' /\ ClaimsNamed'
  BY <1>1, <1>2, <1>3, <1>4, <1>5, AttachSound
<1>7. NumbersTrue'
  BY <1>1, <1>2, <1>4, NumbersKept
<1> QED BY <1>2, <1>6, <1>7 DEF BuilderSound

\* A line of hosts or of prefixes harvests nothing.
LEMMA LineHarvestsNothing ==
    ASSUME BInv, NEW slug \in Slugs, NEW pattern \in Patterns,
           source \in 1 .. Len(Feeds), Shape[source] # "harvest",
           Claimed(slug, pattern), UNCHANGED <<source, owners, emitted>>
    PROVE  HarvestsWhole' /\ ClaimsReached'
<1>1. source \in Nat
  OBVIOUS
<1> QED BY <1>1 DEF BInv, HarvestsWhole, ClaimsReached, Claimed

\* Where nothing is claimed or harvested, what was is as it was.
LEMMA NothingClaimed ==
    ASSUME BInv, UNCHANGED <<source, owners, emitted, claims>>
    PROVE  HarvestsWhole' /\ ClaimsReached'
BY DEF BInv, HarvestsWhole, ClaimsReached

\* Where no application or rule is added, all of them stay sound.
LEMMA RulesUntouched ==
    ASSUME BInv, UNCHANGED <<builder, claims>>
    PROVE  AppsTyped' /\ AppsSound' /\ Grown /\ LicenceCovers' /\ RulesClaimed' /\ ClaimsNamed'
<1>1. UNCHANGED <<apps, app_meta, next_id>> /\ rules' = rules /\ claims' = claims
  BY DEF builder
<1>2. AppsTyped' /\ AppsSound' /\ Grown
  BY <1>1, AppsUntouched, AppsOfBInv
<1>3. LicenceCovers' /\ RulesClaimed' /\ ClaimsNamed'
  BY <1>1 DEF BInv, LicenceCovers, RulesClaimed, ClaimsNamed, Known, Identity
<1> QED BY <1>2, <1>3

\* A step of a loader that reads.
LEMMA ReadingTyped ==
    ASSUME BInv, NEW shape, Reading(shape)
    PROVE  /\ source \in 1 .. Len(Feeds) /\ Shape[source] = shape
           /\ source' = source /\ calls' \in 0 .. MaxCalls
BY BuilderAssumption DEF BInv, TypeOK, Reading, Within

LEMMA DeclareSound ==
    ASSUME BInv, NEW slug \in Slugs, Declare(slug)
    PROVE  BInv'
<1>1. /\ source \in 1 .. Len(Feeds) /\ source' = source /\ calls' \in 0 .. MaxCalls
      /\ UNCHANGED <<rules, owners, emitted, claims>> /\ Resolve(slug, Feeds[source])
      /\ by_native' = [s \in DOMAIN by_native \union {slug} |->
                           IF s = slug THEN IdOf(slug) ELSE by_native[s]]
  BY ReadingTyped DEF Declare
<1>2. AppsTyped' /\ AppsSound' /\ Resolved(slug, Feeds[source])
  BY <1>1, ResolveSound, AppsOfBInv
<1>3. LicenceCovers' /\ RulesClaimed' /\ ClaimsNamed'
  BY <1>1, <1>2, RulesKept
     DEF LicenceCovers, RulesClaimed, ClaimsNamed, Known, Identity, Resolved
<1>4. PICK id, lic : id = IdOf(slug) /\ lic = Feeds[source] /\ lic \in Licences
  BY <1>1, BuilderAssumption
<1>5. Named(slug, id, lic)'
  BY <1>2, <1>4, ResolvedNames
<1>6. IdOf(slug) \in Nat
  <2>1. next_id' \in Nat
    BY <1>2 DEF AppsTyped, Ids
  <2> QED BY <1>2, <2>1 DEF Resolved, IdOf, DROPPED
<1>7. DOMAIN by_native' \subseteq Slugs /\ by_native' \in [DOMAIN by_native' -> Nat]
  BY <1>1, <1>6 DEF BInv, TypeOK
<1>8. NumbersTrue'
  <2> SUFFICES ASSUME NEW s \in DOMAIN by_native \union {slug}
               PROVE  source' <= Len(Feeds) /\ Named(s, by_native[s], Feeds[source])'
    BY <1>1 DEF NumbersTrue
  <2>1. CASE s = slug
    <3>1. by_native'[s] = id
      BY <1>1, <1>4, <2>1
    <3> QED BY <1>1, <1>4, <1>5, <2>1, <3>1 DEF Named
  <2>2. CASE s # slug
    <3>1. PICK n : n = by_native[s]
      OBVIOUS
    <3>2. Named(s, n, lic) /\ by_native'[s] = n
      BY <1>1, <1>4, <2>2, <3>1 DEF BInv, NumbersTrue
    <3>3. Named(s, n, lic)'
      BY <1>2, <1>4, <3>2, NamedKept, AppsOfBInv DEF Resolved
    <3> QED BY <1>1, <1>4, <3>2, <3>3 DEF Named
  <2> QED BY <2>1, <2>2
<1>9. TypeOK'
  BY <1>1, <1>2, <1>7 DEF BInv, TypeOK, AppsTyped
<1> QED BY <1>1, <1>2, <1>3, <1>8, <1>9, NothingClaimed DEF BInv

LEMMA EntrySound ==
    ASSUME BInv, NEW slug \in Slugs, NEW pattern \in Patterns, Entry(slug, pattern)
    PROVE  BInv'
<1>1. /\ source \in 1 .. Len(Feeds) /\ source' = source /\ calls' \in 0 .. MaxCalls
      /\ Shape[source] = "table" /\ slug \in DOMAIN by_native
      /\ Attach(pattern, by_native[slug], Feeds[source]) /\ Claimed(slug, pattern)
      /\ UNCHANGED <<apps, app_meta, next_id, by_native, owners, emitted>>
  BY ReadingTyped DEF Entry
<1>2. AppsTyped' /\ AppsSound' /\ Grown
  BY <1>1, AppsUntouched, AppsOfBInv
<1>3. PICK id, lic : id = by_native[slug] /\ lic = Feeds[source] /\ lic \in Licences
  BY <1>1, BuilderAssumption
<1>4. Named(slug, id, lic) /\ Attach(pattern, id, lic)
  BY <1>1, <1>3 DEF BInv, NumbersTrue
<1>5. Named(slug, id, lic)'
  BY <1>2, <1>3, <1>4, NamedKept, AppsOfBInv
<1>6. /\ rules' \in Seq(Rule) /\ claims' \subseteq Claims
      /\ LicenceCovers' /\ RulesClaimed' /\ ClaimsNamed'
  BY <1>1, <1>2, <1>3, <1>4, <1>5, AttachSound
<1>7. NumbersTrue'
  BY <1>1, <1>2, NumbersKept
<1>8. HarvestsWhole' /\ ClaimsReached'
  BY <1>1, LineHarvestsNothing
<1>9. TypeOK'
  BY <1>1, <1>2, <1>6 DEF BInv, TypeOK, AppsTyped
<1> QED BY <1>2, <1>6, <1>7, <1>8, <1>9 DEF BInv

\* A line of a feed that lists hosts or prefixes.
LEMMA LineSound ==
    ASSUME BInv, NEW slug \in Slugs, NEW pattern \in Patterns, NEW shape,
           Reading(shape), shape # "harvest", AppWithRule(slug, pattern), emitted' = emitted
    PROVE  BInv'
<1>1. /\ source \in 1 .. Len(Feeds) /\ source' = source /\ calls' \in 0 .. MaxCalls
      /\ Shape[source] # "harvest" /\ Claimed(slug, pattern)
      /\ UNCHANGED <<by_native, owners, emitted>>
  BY ReadingTyped DEF AppWithRule
<1>2. BuilderSound' /\ rules' \in Seq(Rule) /\ claims' \subseteq Claims
  BY <1>1, AppWithRuleSound
<1>3. HarvestsWhole' /\ ClaimsReached'
  BY <1>1, LineHarvestsNothing
<1>4. TypeOK'
  BY <1>1, <1>2 DEF BInv, TypeOK, AppsTyped, BuilderSound
<1> QED BY <1>2, <1>3, <1>4 DEF BInv, BuilderSound

LEMMA HarvestSound ==
    ASSUME BInv, NEW slug \in Slugs, NEW pattern \in Patterns, Harvest(slug, pattern)
    PROVE  BInv'
<1>1. /\ source \in 1 .. Len(Feeds) /\ source' = source /\ calls' \in 0 .. MaxCalls
      /\ Shape[source] = "harvest" /\ emitted = {} /\ emitted' = {}
      /\ UNCHANGED <<builder, by_native, claims>>
      /\ owners' = [owners EXCEPT ![source][pattern] = @ \union {slug}]
  BY ReadingTyped DEF Harvest
<1>2. UNCHANGED <<apps, app_meta, next_id, rules>>
  BY <1>1 DEF builder
<1>3. /\ owners' \in [1 .. Len(Feeds) -> [Patterns -> SUBSET Slugs]]
      /\ \A f \in 1 .. Len(Feeds) : f # source => owners'[f] = owners[f]
  BY <1>1 DEF BInv, TypeOK
<1>4. \A c \in claims : Shape[c.feed] = "harvest" => c.feed # source
  BY <1>1 DEF BInv, HarvestsWhole
<1>5. HarvestsWhole' /\ ClaimsReached'
  BY <1>1, <1>3, <1>4 DEF BInv, HarvestsWhole, ClaimsReached
<1>6. TypeOK'
  BY <1>1, <1>2, <1>3 DEF BInv, TypeOK
<1>7. NumbersTrue'
  BY <1>1, RulesUntouched, NumbersKept
<1> QED BY <1>1, <1>5, <1>6, <1>7, RulesUntouched DEF BInv

LEMMA EmitSound ==
    ASSUME BInv, NEW slug \in Slugs, NEW pattern \in Patterns, Emit(slug, pattern)
    PROVE  BInv'
<1>1. /\ source \in 1 .. Len(Feeds) /\ source' = source /\ calls' = calls
      /\ AppWithRule(slug, pattern) /\ Claimed(slug, pattern)
      /\ UNCHANGED <<by_native, owners>>
      /\ owners[source][pattern] = {slug} /\ emitted' = emitted \union {pattern}
  BY BuilderAssumption
     DEF Emit, Emits, OneOwner, Within, AppWithRule, BInv, TypeOK
<1>2. BuilderSound' /\ rules' \in Seq(Rule) /\ claims' \subseteq Claims
  BY <1>1, AppWithRuleSound
<1>3. HarvestsWhole' /\ ClaimsReached'
  <2>1. source \in Nat
    BY <1>1
  <2> QED BY <1>1, <2>1 DEF BInv, HarvestsWhole, ClaimsReached, Claimed
<1>4. TypeOK'
  BY <1>1, <1>2 DEF BInv, TypeOK, AppsTyped, BuilderSound
<1> QED BY <1>2, <1>3, <1>4 DEF BInv, BuilderSound

\* The next feed has declared no number and harvested nothing yet.
LEMMA NextFeedSound == BInv /\ NextFeed => BInv'
<1> SUFFICES ASSUME BInv, NextFeed PROVE BInv'
  OBVIOUS
<1>1. /\ source' \in 1 .. Len(Feeds) + 1 /\ source \in Int /\ source' = source + 1
      /\ UNCHANGED <<builder, owners, calls, claims>>
      /\ by_native' = NoNumbers /\ emitted' = {}
  BY BuilderAssumption DEF NextFeed, BInv, TypeOK
<1>2. DOMAIN by_native' = {} /\ by_native' \in [DOMAIN by_native' -> Nat]
  BY <1>1 DEF NoNumbers
<1>3. NumbersTrue'
  BY <1>2 DEF NumbersTrue
<1>4. \A c \in claims : c.feed \in Int /\ c.feed <= source
  BY DEF BInv, ClaimsReached
<1>5. HarvestsWhole' /\ ClaimsReached'
  BY <1>1, <1>4 DEF BInv, HarvestsWhole, ClaimsReached
<1>6. TypeOK'
  BY <1>1, <1>2 DEF BInv, TypeOK, builder
<1> QED BY <1>1, <1>3, <1>5, <1>6, RulesUntouched DEF BInv

\* Every step of the builder keeps the invariant.
LEMMA BNext == BInv /\ [Next]_vars => BInv'
<1> SUFFICES ASSUME BInv, [Next]_vars PROVE BInv'
  OBVIOUS
<1>1. ASSUME NEW slug \in Slugs, Declare(slug) PROVE BInv'
  BY <1>1, DeclareSound
<1>2. ASSUME NEW slug \in Slugs, NEW pattern \in Patterns, Entry(slug, pattern) PROVE BInv'
  BY <1>2, EntrySound
<1>3. ASSUME NEW slug \in Slugs, NEW pattern \in Patterns,
             Host(slug, pattern) \/ Prefix(slug, pattern)
      PROVE  BInv'
  BY <1>3, LineSound DEF Host, Prefix
<1>4. ASSUME NEW slug \in Slugs, NEW pattern \in Patterns, Harvest(slug, pattern) PROVE BInv'
  BY <1>4, HarvestSound
<1>5. ASSUME NEW slug \in Slugs, NEW pattern \in Patterns, Emit(slug, pattern) PROVE BInv'
  BY <1>5, EmitSound
<1>6. CASE NextFeed
  BY <1>6, NextFeedSound
<1>7. CASE UNCHANGED vars
  BY <1>7, RulesUntouched, NumbersKept, NothingClaimed DEF vars, builder, BInv, TypeOK
<1> QED BY <1>1, <1>2, <1>3, <1>4, <1>5, <1>6, <1>7 DEF Next

-----------------------------------------------------------------------------
\* The invariant holds of every reachable state, whatever the feeds claim.
THEOREM BuilderInvariance == Spec => []BInv
BY BInit, BNext, PTL DEF Spec

\* The builder's state has its type.
THEOREM BuilderTypeCorrect == Spec => []TypeOK
BY BuilderInvariance, PTL DEF BInv

\* A rule of a build, and its application, are within the licence.
LEMMA SerializedSound ==
    ASSUME BInv, NEW max \in Licences, NEW i \in Serialized(max)
    PROVE  /\ i \in 1 .. Len(rules) /\ rules[i] \in Rule /\ rules[i].lic <= max
           /\ rules[i].app \in 1 .. next_id - 1 /\ rules[i].app # DROPPED
           /\ app_meta[rules[i].app] \in Meta /\ app_meta[rules[i].app].lic <= max
<1>1. /\ rules \in Seq(Rule) /\ next_id \in Nat /\ app_meta \in [1 .. next_id - 1 -> Meta]
      /\ i \in 1 .. Len(rules) /\ rules[i].lic <= max
      /\ rules[i].app \in DOMAIN app_meta /\ app_meta[rules[i].app].lic <= max
  BY DEF BInv, TypeOK, Ids, Serialized, KeptApps
<1>2. rules[i] \in Rule /\ rules[i].app \in 1 .. next_id - 1
  BY <1>1
<1>3. rules[i].app # DROPPED
  BY <1>1, <1>2 DEF DROPPED
<1> QED BY <1>1, <1>2, <1>3

\* A build has only rules that feeds with an allowed licence claimed, for applications
\* that such feeds named.
THEOREM BuildsAreLicensed == Spec => []ShippedIsLicensed
<1>1. BInv => ShippedIsLicensed
  <2> SUFFICES ASSUME BInv, NEW max \in Licences, NEW i \in Serialized(max)
               PROVE  /\ \E c \in claims :
                             /\ c.lic <= max /\ Norm[c.pattern] = rules[i].pattern
                             /\ c.slug \notin Drops /\ Known(c.slug)
                             /\ apps[Identity(c.slug)] = rules[i].app
                             /\ Shape[c.feed] = "harvest" =>
                                    owners[c.feed][c.pattern] = {c.slug}
                      /\ \E f \in app_meta[rules[i].app].feeds : Feeds[f] <= max
    BY DEF ShippedIsLicensed
  <2>1. PICK c \in claims :
            /\ Norm[c.pattern] = rules[i].pattern /\ c.lic = rules[i].lic
            /\ c.slug \notin Drops /\ Known(c.slug) /\ apps[Identity(c.slug)] = rules[i].app
            /\ Shape[c.feed] = "harvest" => owners[c.feed][c.pattern] = {c.slug}
    BY SerializedSound DEF BInv, RulesClaimed, HarvestsWhole
  <2>2. PICK f \in app_meta[rules[i].app].feeds :
            f \in 1 .. Len(Feeds) /\ Feeds[f] <= app_meta[rules[i].app].lic
    BY SerializedSound DEF BInv, AppsSound
  <2>3. /\ Feeds[f] \in Int /\ app_meta[rules[i].app].lic \in Int /\ max \in Int
        /\ app_meta[rules[i].app].lic <= max
    BY <2>2, SerializedSound, BuilderAssumption DEF Licences, Meta
  <2> QED BY <2>1, <2>2, <2>3, SerializedSound
<1> QED BY <1>1, BuilderInvariance, PTL

\* The engine's licence filter on a larger build gives the smaller build.
THEOREM LoadFilterIsCompileFilter == Spec => []LoadFilterAgrees
<1>1. BInv => LoadFilterAgrees
  <2> SUFFICES ASSUME BInv, NEW built \in Licences, NEW max \in 0 .. built
               PROVE  Loaded(built, max) = Serialized(max)
    BY DEF LoadFilterAgrees
  <2>1. max \in Licences /\ max \in Int /\ built \in Int /\ max <= built
    BY DEF Licences
  <2>2. ASSUME NEW i \in Serialized(max) PROVE i \in Loaded(built, max)
    <3>1. /\ i \in 1 .. Len(rules) /\ rules[i].lic \in Int /\ rules[i].lic <= max
          /\ rules[i].app \in 1 .. next_id - 1
          /\ app_meta[rules[i].app].lic \in Int /\ app_meta[rules[i].app].lic <= max
      BY <2>1, SerializedSound DEF Rule, Meta, Licences
    <3>2. rules[i].app \in DOMAIN app_meta
      BY <3>1 DEF BInv, TypeOK
    <3> QED BY <2>1, <3>1, <3>2 DEF Loaded, Serialized, KeptApps
  <2>3. ASSUME NEW i \in Loaded(built, max) PROVE i \in Serialized(max)
    <3>1. i \in Serialized(built) /\ rules[i].lic <= max
      BY DEF Loaded
    <3>2. /\ i \in 1 .. Len(rules) /\ rules[i] \in Rule /\ rules[i].app # DROPPED
          /\ rules[i].app \in 1 .. next_id - 1 /\ app_meta[rules[i].app] \in Meta
      BY <3>1, SerializedSound
    <3>3. app_meta[rules[i].app].lic <= rules[i].lic
      BY <3>2 DEF BInv, LicenceCovers
    <3>4. rules[i].lic \in Int /\ app_meta[rules[i].app].lic \in Int
      BY <3>2 DEF Rule, Meta, Licences
    <3>5. rules[i].app \in DOMAIN app_meta
      BY <3>2 DEF BInv, TypeOK
    <3> QED BY <2>1, <3>1, <3>2, <3>3, <3>4, <3>5 DEF Serialized, KeptApps
  <2> QED BY <2>2, <2>3
<1> QED BY <1>1, BuilderInvariance, PTL

\* No dropped or aliased slug is in any build, whatever order the feeds are read in.
THEOREM CurationHolds == Spec => []CurationApplied
<1>1. BInv => CurationApplied
  <2> SUFFICES ASSUME BInv PROVE CurationApplied
    OBVIOUS
  <2>1. DOMAIN app_meta = 1 .. next_id - 1
    BY DEF BInv, TypeOK
  <2>2. \A i \in DOMAIN app_meta : app_meta[i].name \notin Drops \union Aliased
    BY <2>1 DEF BInv, AppsSound
  <2>3. \A max \in Licences : \A i \in Serialized(max) : rules[i].app # DROPPED
    BY SerializedSound
  <2> QED BY <2>2, <2>3 DEF CurationApplied
<1> QED BY <1>1, BuilderInvariance, PTL

\* An application has one identity, and its display name is a spelling of it.
THEOREM OneNameOneApp == Spec => []NamesAreIdentities
<1>1. BInv => NamesAreIdentities
  BY DEF BInv, AppsSound, ClaimsNamed, NamesAreIdentities
<1> QED BY <1>1, BuilderInvariance, PTL
=============================================================================
