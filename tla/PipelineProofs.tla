---------------------------- MODULE PipelineProofs ----------------------------
(***************************************************************************)
(* Proofs about Pipeline, for any sources, items, pages, hosts, sinks and  *)
(* concurrency, whichever of them may fail: its limiter is a RateLimiter   *)
(* that gets all its rates before its first caller, so every host's        *)
(* requests keep the rate set for it; no permit is lost; failures stay     *)
(* where they arise; the counters tell what happened; and the crawl        *)
(* implements CrawlOnce.                                                   *)
(*                                                                         *)
(* N(T, S) counts the items of T whose stage is in S.  A step of an item   *)
(* moves one item from one stage to another, and MoveCounts says once for  *)
(* all what that does to every such number; the semaphore and the counters *)
(* are statements about them.                                              *)
(***************************************************************************)
EXTENDS Pipeline, FiniteSetTheorems, TLAPS

LP == INSTANCE RateLimiterProofs WITH
    Callers <- Items, Domains <- Hosts, Burst <- 1, IdleHorizon <- 0,
    queue <- lockQueue, pc <- lpc

-----------------------------------------------------------------------------
(* The inductive invariant *)

SourceStates == {"discovering", "gathering", "closing", "done", "failed", "cancelled"}
CallType == [source : Sources, domain : Hosts \union {NoHost}, rate : Rates]

CrawlTypeOK ==
    /\ run \in {"running", "returned", "exited"}
    /\ prelude \in Seq(CallType)
    /\ source \in [Sources -> SourceStates]
    /\ stage \in [Items -> {"absent"} \union Busy \union Ended]
    /\ seen \subseteq Pages /\ requested \subseteq Pages /\ recorded \subseteq Pages
    /\ permits \in Nat
    /\ semQueue \in Seq(Items)
    /\ client \in [Sources -> BOOLEAN]
    /\ written \in [Sinks -> SUBSET Items]
    /\ open \subseteq Sinks
    /\ stats \in [Counters -> Nat]
    /\ perSource \in [Sources -> Nat]

\* The items of T whose stage is in S, and how many there are.
In(T, S) == {i \in T : stage[i] \in S}
N(T, S) == Cardinality(In(T, S))

\* An item exists only once its source has discovered it, and belongs to that source.
Started ==
    \A i \in Items : stage[i] # "absent" =>
        SourceOf[i] \in Sources /\ source[SourceOf[i]] # "discovering"

\* A run returns when all its sources are done or one has failed.
NoneFailed == \A s \in Sources : source[s] # "failed"
ReturnedDone ==
    run # "running" => Configured /\ (NoneFailed => \A s \in Sources : source[s] = "done")

\* Until the last call of set_domain_rps there is neither an item nor a bucket, so a host
\* never changes its bucket.
OneBucket ==
    /\ ~Configured => made = {} /\ \A i \in Items : stage[i] = "absent"
    /\ \A d \in Hosts : \A k \in 0 .. MaxOverrides : <<d, k>> \in made => k = serial[d]

\* A call still to be made with a URL that cannot be parsed is one of its source.
CallsKnown ==
    \A k \in 1 .. Len(prelude) : prelude[k].domain = NoHost => Misconfigured(prelude[k].source)

\* A sink that works holds the records of the items counted as emitted.
SinksTrue == \A k \in Sinks \ Frail : written[k] = Ending("emitted")

\* Where an item at work on a page may be.
Past == {"gating", "waiting", "permitted", "fetching"}

Entries(q) == {q[k] : k \in 1 .. Len(q)}
Distinct(q) == \A j, k \in 1 .. Len(q) : q[j] = q[k] => j = k

Semaphore ==
    /\ permits + N(Items, {"permitted", "fetching"}) = MaxConcurrency
    /\ Entries(semQueue) = {i \in Items : stage[i] = "waiting"}
    /\ Distinct(semQueue)

\* One item at a time is at work on a page, and the page is claimed; it is requested
\* when that item fetches it, and not recorded before the fetch ends.
Claims ==
    /\ requested \subseteq seen /\ recorded \subseteq requested
    /\ \A i \in Items : stage[i] \in Past => PageOf[i] \in seen
    /\ \A i, j \in Items :
           stage[i] \in Past /\ stage[j] \in Past /\ PageOf[i] = PageOf[j] => i = j
    /\ \A i \in Items : stage[i] \in {"gating", "waiting", "permitted"} =>
           PageOf[i] \notin requested
    /\ \A i \in Items : stage[i] = "fetching" => PageOf[i] \in requested \ recorded

Of(s) == {i \in Items : SourceOf[i] = s}
Plain == {i \in Items : SourceOf[i] \notin BadStrategy}
Strange == {i \in Items : SourceOf[i] \in BadStrategy}

Counts ==
    /\ stats.failed = N(Items, {"failed"})
    /\ stats.skipped_robots = N(Items, {"refused"})
    /\ stats.skipped_duplicate = N(Items, {"duplicate"})
    /\ stats.extracted = N(Items, {"emitted"}) + N(Plain, {"broken"})
    /\ stats.fetched = stats.extracted + N(Strange, {"broken"})
    /\ \A s \in Sources : perSource[s] = N(Of(s), {"emitted"}) + N(Of(s), {"broken"})

PipelineInv ==
    /\ CrawlTypeOK /\ Started /\ ReturnedDone /\ OneBucket /\ CallsKnown
    /\ Semaphore /\ Claims /\ FailureConfined /\ Counts /\ SinksTrue

-----------------------------------------------------------------------------
(* The limiter *)

\* The limiter's assumption about its constants.
LEMMA LimiterConstants == LP!LimiterAssumption
BY PipelineAssumption DEF LP!LimiterAssumption

\* The limiter's actions under either name.
LEMMA SameInit == Limiter!Init => LP!Init
BY DEF Limiter!Init, LP!Init, Limiter!Buckets, LP!Buckets, Limiter!NewBucket, LP!NewBucket,
       Limiter!Full, LP!Full

LEMMA SameAcquire ==
    ASSUME NEW i \in Items, NEW h \in Hosts, Limiter!Acquire(i, h) PROVE LP!Acquire(i, h)
BY DEF Limiter!Acquire, LP!Acquire, Limiter!FreeForNewcomer, LP!FreeForNewcomer,
       Limiter!Locked, LP!Locked, Limiter!Enter, LP!Enter, Limiter!Refill, LP!Refill,
       Limiter!NewBucket, LP!NewBucket, Limiter!Full, LP!Full

LEMMA SameResume == ASSUME NEW i \in Items, Limiter!Resume(i) PROVE LP!Resume(i)
BY DEF Limiter!Resume, LP!Resume, Limiter!Locked, LP!Locked, Limiter!Enter, LP!Enter,
       Limiter!Refill, LP!Refill, Limiter!Full, LP!Full

LEMMA SameWake == ASSUME NEW i \in Items, Limiter!Wake(i) PROVE LP!Wake(i)
BY DEF Limiter!Wake, LP!Wake, Limiter!CanWake, LP!CanWake, Limiter!Pay, LP!Pay,
       Limiter!Refill, LP!Refill, Limiter!Full, LP!Full

LEMMA SameSetDomainRps ==
    ASSUME NEW h \in Hosts, NEW r \in Rates, Limiter!SetDomainRps(h, r)
    PROVE  LP!SetDomainRps(h, r)
BY DEF Limiter!SetDomainRps, LP!SetDomainRps

LEMMA SameTick == Limiter!Tick => LP!Tick
BY DEF Limiter!Tick, LP!Tick, Limiter!CanWake, LP!CanWake

LEMMA SameTypeOK == LP!TypeOK => Limiter!TypeOK
BY DEF Limiter!TypeOK, LP!TypeOK, Limiter!Buckets, LP!Buckets, Limiter!BucketType,
       LP!BucketType, Limiter!Full, LP!Full

\* A call of the prelude is one of a source, for a host unless its URL is malformed.
LEMMA CallTypes ==
    ASSUME CrawlTypeOK, prelude # <<>>
    PROVE  /\ Head(prelude).source \in Sources /\ Head(prelude).rate \in Rates
           /\ Head(prelude).domain \in Hosts \union {NoHost}
           /\ Tail(prelude) \in Seq(CallType)
<1>1. prelude \in Seq(CallType)
  BY DEF CrawlTypeOK
<1>2. Head(prelude) \in CallType /\ Tail(prelude) \in Seq(CallType)
  BY <1>1
<1> QED BY <1>2 DEF CallType

\* Every step of the crawl is a step of its limiter, or leaves it alone.
LEMMA LimiterSteps == CrawlTypeOK /\ [Next]_vars => [LP!Next]_LP!vars
<1> SUFFICES ASSUME CrawlTypeOK, [Next]_vars PROVE LP!Next \/ UNCHANGED limiterVars
  BY DEF limiterVars, LP!vars
<1>1. ASSUME NEW i \in Items, TakePermit(i)
      PROVE  LP!Next
  <2>1. HostOf[i] \in Hosts
    BY PipelineAssumption
  <2>2. LP!Acquire(i, HostOf[i])
    BY <1>1, <2>1, SameAcquire DEF TakePermit
  <2> QED BY <2>1, <2>2 DEF LP!Next
<1>2. ASSUME NEW i \in Items, LimiterStep(i)
      PROVE  LP!Next
  <2>1. LP!Resume(i) \/ LP!Wake(i)
    BY <1>2, SameResume, SameWake DEF LimiterStep
  <2> QED BY <2>1 DEF LP!Next
<1>3. ASSUME NEW i \in Items, ItemStep(i)
      PROVE  LP!Next \/ UNCHANGED limiterVars
  BY <1>1, <1>2, <1>3 DEF ItemStep, Begin, PassGate, Admit, StartFetch, EndFetch
<1>4. ASSUME NEW s \in Sources, SourceStep(s)
      PROVE  UNCHANGED limiterVars
  BY <1>4 DEF SourceStep, Discover, LeaveGather, CloseSource
<1>5. CASE Tick
  <2>1. LP!Tick
    BY <1>5, SameTick DEF Tick
  <2> QED BY <2>1 DEF LP!Next
<1>6. CASE Configure
  <2> DEFINE call == Head(prelude)
  <2>1. CASE call.domain # NoHost /\ Limiter!SetDomainRps(call.domain, call.rate)
    <3>1. call.domain \in Hosts /\ call.rate \in Rates
      BY <1>6, <2>1, CallTypes DEF Configure
    <3>2. LP!SetDomainRps(call.domain, call.rate)
      BY <2>1, <3>1, SameSetDomainRps
    <3> QED BY <3>1, <3>2 DEF LP!Next
  <2> QED BY <1>6, <2>1 DEF Configure
<1>7. CASE Return \/ Exit
  BY <1>7 DEF Return, Exit
<1>8. CASE UNCHANGED vars
  BY <1>8 DEF vars
<1> QED BY <1>3, <1>4, <1>5, <1>6, <1>7, <1>8 DEF Next

-----------------------------------------------------------------------------
(* Counting *)

LEMMA CountFinite ==
    ASSUME NEW T \in SUBSET Items, NEW S
    PROVE  IsFiniteSet(In(T, S)) /\ N(T, S) \in Nat
<1>1. IsFiniteSet(In(T, S))
  BY PipelineAssumption, FS_Subset DEF In
<1> QED BY <1>1, FS_CardinalityType DEF N

\* What the move of one item does to a number.
LEMMA MoveCounts ==
    ASSUME CrawlTypeOK, NEW i \in Items, NEW h, End(i, h),
           NEW T \in SUBSET Items, NEW S
    PROVE  N(T, S)' = IF i \in T /\ h \in S /\ stage[i] \notin S THEN N(T, S) + 1
                      ELSE IF i \in T /\ h \notin S /\ stage[i] \in S THEN N(T, S) - 1
                      ELSE N(T, S)
<1>1. stage'[i] = h /\ \A j \in Items \ {i} : stage'[j] = stage[j]
  BY DEF End, CrawlTypeOK
<1>2. IsFiniteSet(In(T, S))
  BY CountFinite
<1>3. CASE i \in T /\ h \in S /\ stage[i] \notin S
  <2>1. In(T, S)' = In(T, S) \union {i} /\ i \notin In(T, S)
    BY <1>1, <1>3 DEF In
  <2> QED BY <1>2, <1>3, <2>1, FS_AddElement DEF N
<1>4. CASE i \in T /\ h \notin S /\ stage[i] \in S
  <2>1. In(T, S)' = In(T, S) \ {i} /\ i \in In(T, S)
    BY <1>1, <1>4 DEF In
  <2> QED BY <1>2, <1>4, <2>1, FS_RemoveElement DEF N
<1>5. CASE ~(i \in T /\ h \in S /\ stage[i] \notin S) /\ ~(i \in T /\ h \notin S /\ stage[i] \in S)
  <2>1. In(T, S)' = In(T, S)
    BY <1>1, <1>5 DEF In
  <2> QED BY <1>5, <2>1 DEF N
<1> QED BY <1>3, <1>4, <1>5

\* A step that moves no item of T into S or out of it.
LEMMA SameCounts ==
    ASSUME NEW T \in SUBSET Items, NEW S,
           \A i \in T : stage'[i] \in S <=> stage[i] \in S
    PROVE  N(T, S)' = N(T, S)
<1>1. In(T, S)' = In(T, S)
  BY DEF In
<1> QED BY <1>1 DEF N

-----------------------------------------------------------------------------
(* Sources and their items *)

\* The URL a source discovered is an item of that source alone.
LEMMA SourceOfFound ==
    ASSUME NEW s \in Sources, NEW k \in 1 .. Len(ItemsOf[s])
    PROVE  ItemsOf[s][k] \in Items /\ SourceOf[ItemsOf[s][k]] = s
<1> DEFINE i == ItemsOf[s][k]
           Holds(t) == \E j \in 1 .. Len(ItemsOf[t]) : ItemsOf[t][j] = i
<1>1. i \in Items
  BY PipelineAssumption
<1>2. Holds(s)
  OBVIOUS
<1>3. \A t \in Sources : Holds(t) => t = s
  BY PipelineAssumption
<1>4. SourceOf[i] = CHOOSE t \in Sources : Holds(t)
  BY <1>1 DEF SourceOf
<1> HIDE DEF Holds
<1>5. (CHOOSE t \in Sources : Holds(t)) = s
  BY <1>2, <1>3
<1> QED BY <1>1, <1>4, <1>5

\* discover() creates items of its own source, none of which there was.
LEMMA DiscoverCreates ==
    ASSUME CrawlTypeOK, Started, NEW s \in Sources, Discover(s)
    PROVE  /\ \A i \in Items : \/ stage'[i] = stage[i]
                               \/ /\ stage[i] = "absent" /\ stage'[i] = "created"
                                  /\ SourceOf[i] = s /\ source'[s] = "gathering"
           /\ \A i \in Items : SourceOf[i] = s => stage[i] = "absent"
           /\ stage' \in [Items -> {"absent"} \union Busy \union Ended]
           /\ source' \in [Sources -> SourceStates]
           /\ source'[s] \in {"gathering", "closing"}
           /\ source'[s] = "closing" => stage' = stage
           /\ client' \in [Sources -> BOOLEAN]
           /\ \A t \in Sources \ {s} : source'[t] = source[t] /\ client'[t] = client[t]
           /\ stats' \in [Counters -> Nat]
           /\ \A c \in Counters \ {"discovered"} : stats'[c] = stats[c]
<1> DEFINE Kept(found) == {found[k] : k \in 1 .. (IF Len(found) < MaxItems
                                                 THEN Len(found) ELSE MaxItems)}
<1>1. source[s] = "discovering"
  BY DEF Discover
<1>2. \A i \in Items : SourceOf[i] = s => stage[i] = "absent"
  BY <1>1 DEF Started
<1>0. /\ client' \in [Sources -> BOOLEAN]
      /\ \A t \in Sources \ {s} : client'[t] = client[t]
  <2>1. CASE client' = [client EXCEPT ![s] = (s \in Feeds)]
    BY <2>1 DEF CrawlTypeOK
  <2>2. CASE \E held \in {FALSE, (s \in Feeds)} : client' = [client EXCEPT ![s] = held]
    <3>1. PICK held \in {FALSE, (s \in Feeds)} : client' = [client EXCEPT ![s] = held]
      BY <2>2
    <3>2. CASE held = FALSE
      BY <3>1, <3>2 DEF CrawlTypeOK
    <3>3. CASE held = (s \in Feeds)
      BY <2>1, <3>1, <3>3
    <3> QED BY <3>1, <3>2, <3>3
  <2> QED BY <2>1, <2>2 DEF Discover
<1>3. \A found \in {ItemsOf[s], <<>>} :
         Len(found) \in Nat /\ \A i \in Kept(found) : i \in Items /\ SourceOf[i] = s
  <2> SUFFICES ASSUME NEW found \in {ItemsOf[s], <<>>}
               PROVE  Len(found) \in Nat /\ \A i \in Kept(found) : i \in Items /\ SourceOf[i] = s
    OBVIOUS
  <2>1. ItemsOf[s] \in Seq(Items) /\ Len(ItemsOf[s]) \in Nat /\ MaxItems \in Nat
    BY PipelineAssumption
  <2>2. Len(found) \in Nat /\ (found = ItemsOf[s] \/ Len(found) = 0)
    BY <2>1
  <2> QED BY <2>1, <2>2, SourceOfFound
<1>4. \/ source' = [source EXCEPT ![s] = "closing"] /\ UNCHANGED <<stage, stats>>
      \/ \E found \in {ItemsOf[s], <<>>} :
             /\ source' = [source EXCEPT ![s] = "gathering"]
             /\ stage' = [i \in Items |-> IF i \in Kept(found) THEN "created" ELSE stage[i]]
             /\ Count("discovered", Len(found))
  BY DEF Discover
<1> HIDE DEF Kept
<1>5. CASE source' = [source EXCEPT ![s] = "closing"] /\ UNCHANGED <<stage, stats>>
  BY <1>0, <1>2, <1>5 DEF CrawlTypeOK, SourceStates
<1>6. ASSUME NEW found \in {ItemsOf[s], <<>>},
             source' = [source EXCEPT ![s] = "gathering"],
             stage' = [i \in Items |-> IF i \in Kept(found) THEN "created" ELSE stage[i]],
             Count("discovered", Len(found))
      PROVE  /\ \A i \in Items : \/ stage'[i] = stage[i]
                                 \/ /\ stage[i] = "absent" /\ stage'[i] = "created"
                                    /\ SourceOf[i] = s /\ source'[s] = "gathering"
             /\ stage' \in [Items -> {"absent"} \union Busy \union Ended]
             /\ source' \in [Sources -> SourceStates]
             /\ source'[s] = "gathering"
             /\ \A t \in Sources \ {s} : source'[t] = source[t]
             /\ stats' \in [Counters -> Nat]
             /\ \A c \in Counters \ {"discovered"} : stats'[c] = stats[c]
  <2>1. \A i \in Items : \/ stage'[i] = stage[i]
                         \/ stage[i] = "absent" /\ stage'[i] = "created" /\ SourceOf[i] = s
    BY <1>2, <1>3, <1>6
  <2>2. stage' \in [Items -> {"absent"} \union Busy \union Ended]
    BY <1>6 DEF CrawlTypeOK, Busy
  <2>3. stats' = [stats EXCEPT !["discovered"] = @ + Len(found)] /\ stats \in [Counters -> Nat]
    BY <1>6 DEF Count, CrawlTypeOK
  <2>4. stats' \in [Counters -> Nat] /\ \A c \in Counters \ {"discovered"} : stats'[c] = stats[c]
    BY <1>3, <2>3 DEF Counters
  <2> QED BY <1>6, <2>1, <2>2, <2>4 DEF CrawlTypeOK, SourceStates
<1> QED BY <1>0, <1>2, <1>4, <1>5, <1>6

\* What a step of an item does to stages: it moves this item on, out of a stage in which
\* it was busy; one that raises is ill formed or a browser's.
LEMMA ItemMoves ==
    ASSUME CrawlTypeOK, NEW i \in Items, ItemStep(i), ~LimiterStep(i)
    PROVE  /\ stage[i] \in Busy
           /\ \E h \in (Busy \union Ended) \ {"created", "cancelled"} :
                  /\ End(i, h)
                  /\ h \in {"raised", "broken"} => IllFormed(i) \/ SourceOf[i] \in Browsers
           /\ UNCHANGED <<run, prelude, source>>
           /\ client' = client \/ client' = [client EXCEPT ![SourceOf[i]] = TRUE]
<1>1. CASE Begin(i)
  BY <1>1 DEF Begin, Busy, Ended, End, IllFormed
<1>2. CASE PassGate(i)
  BY <1>2 DEF PassGate, TakePermit, Busy, Ended, End, IllFormed
<1>3. CASE Admit(i)
  <2>1. stage[i] \in Busy /\ UNCHANGED <<run, prelude, source, client>>
    BY <1>3 DEF Admit, Busy
  <2>2. End(i, "permitted")
    BY <1>3 DEF Admit, TakePermit, End
  <2> QED BY <2>1, <2>2 DEF Busy
<1>4. CASE StartFetch(i)
  <2>1. /\ stage[i] \in Busy /\ UNCHANGED <<run, prelude, source>>
        /\ client' = [client EXCEPT ![SourceOf[i]] = TRUE]
    BY <1>4 DEF StartFetch, Busy
  <2>2. End(i, "fetching")
    BY <1>4 DEF StartFetch, End
  <2> QED BY <2>1, <2>2 DEF Busy
<1>5. CASE EndFetch(i)
  <2>1. stage[i] \in Busy /\ UNCHANGED <<run, prelude, source, client>>
    BY <1>5 DEF EndFetch, Busy
  <2>2. CASE End(i, "broken") /\ BuildRaises(i)
    BY <2>1, <2>2 DEF BuildRaises, IllFormed, Ended
  <2>3. CASE End(i, "emitted") \/ End(i, "failed") \/ End(i, "skipped")
    BY <2>1, <2>3 DEF Ended
  <2>4. CASE End(i, "raised") /\ SourceOf[i] \in Browsers
    BY <2>1, <2>4 DEF Ended
  <2> QED BY <1>5, <2>2, <2>3, <2>4 DEF EndFetch, Finish, BuildRaises, Emit, EndEmit
<1> QED BY <1>1, <1>2, <1>3, <1>4, <1>5 DEF ItemStep

-----------------------------------------------------------------------------
(* The invariant holds at first *)

LEMMA InitInv == Init => PipelineInv
<1> SUFFICES ASSUME Init PROVE PipelineInv
  OBVIOUS
<1>1. \A T \in SUBSET Items : \A S : "absent" \notin S => N(T, S) = 0
  <2> SUFFICES ASSUME NEW T \in SUBSET Items, NEW S, "absent" \notin S PROVE N(T, S) = 0
    OBVIOUS
  <2>1. In(T, S) = {}
    BY DEF In, Init
  <2> QED BY <2>1, FS_EmptySet DEF N
<1>2. CrawlTypeOK
  <2>1. prelude \in Seq(CallType)
    BY PipelineAssumption DEF Init, CallType
  <2> QED BY <2>1, PipelineAssumption DEF Init, CrawlTypeOK, Counters, SourceStates
<1>3. Started /\ ReturnedDone /\ OneBucket
  BY DEF Init, Started, ReturnedDone, OneBucket, Limiter!Init
<1>8. CallsKnown
  BY DEF Init, CallsKnown, Misconfigured
<1>9. SinksTrue
  <2>1. Ending("emitted") = {}
    BY DEF Init, Ending
  <2> QED BY <2>1 DEF Init, SinksTrue
<1>4. Semaphore
  <2>1. N(Items, {"permitted", "fetching"}) = 0
    BY <1>1
  <2>2. {i \in Items : stage[i] = "waiting"} = {}
    BY DEF Init
  <2>3. Entries(semQueue) = {} /\ Distinct(semQueue)
    BY DEF Init, Entries, Distinct
  <2> QED BY <2>1, <2>2, <2>3, PipelineAssumption DEF Init, Semaphore
<1>5. Claims
  BY DEF Init, Claims, Past
<1>6. FailureConfined
  BY DEF Init, FailureConfined, Gathered, Raised
<1>7. Counts
  <2>1. \A S : "absent" \notin S =>
           /\ N(Items, S) = 0 /\ N(Plain, S) = 0 /\ N(Strange, S) = 0
           /\ \A s \in Sources : N(Of(s), S) = 0
    BY <1>1 DEF Plain, Strange, Of
  <2>2. stats = [c \in Counters |-> 0] /\ perSource = [s \in Sources |-> 0]
    BY DEF Init
  <2> QED BY <2>1, <2>2 DEF Counts, Counters
<1> QED BY <1>2, <1>3, <1>4, <1>5, <1>6, <1>7, <1>8, <1>9 DEF PipelineInv

-----------------------------------------------------------------------------
(* Types *)

\* What counting does to the counters.
LEMMA StatsType ==
    ASSUME stats \in [Counters -> Nat]
    PROVE  /\ \A c \in Counters : Count(c, 1) =>
                  /\ stats' \in [Counters -> Nat]
                  /\ stats'[c] = stats[c] + 1
                  /\ \A d \in Counters \ {c} : stats'[d] = stats[d]
           /\ stats' = [stats EXCEPT !.fetched = @ + 1, !.extracted = @ + 1] =>
                  /\ stats' \in [Counters -> Nat]
                  /\ stats'["fetched"] = stats["fetched"] + 1
                  /\ stats'["extracted"] = stats["extracted"] + 1
                  /\ \A d \in Counters \ {"fetched", "extracted"} : stats'[d] = stats[d]
           /\ {"failed", "skipped_robots", "skipped_duplicate", "fetched", "extracted"}
                  \subseteq Counters
<1>1. ASSUME NEW c \in Counters, Count(c, 1)
      PROVE  /\ stats' \in [Counters -> Nat]
             /\ stats'[c] = stats[c] + 1
             /\ \A d \in Counters \ {c} : stats'[d] = stats[d]
  BY <1>1 DEF Count
<1>2. ASSUME stats' = [stats EXCEPT !.fetched = @ + 1, !.extracted = @ + 1]
      PROVE  /\ stats' \in [Counters -> Nat]
             /\ stats'["fetched"] = stats["fetched"] + 1
             /\ stats'["extracted"] = stats["extracted"] + 1
             /\ \A d \in Counters \ {"fetched", "extracted"} : stats'[d] = stats[d]
  <2> DEFINE one == [stats EXCEPT !["fetched"] = stats["fetched"] + 1]
  <2>1. one \in [Counters -> Nat] /\ one["extracted"] = stats["extracted"]
        /\ one["fetched"] = stats["fetched"] + 1
        /\ \A d \in Counters \ {"fetched"} : one[d] = stats[d]
    BY DEF Counters
  <2>2. stats' = [one EXCEPT !["extracted"] = one["extracted"] + 1]
    BY <1>2, <2>1
  <2> HIDE DEF one
  <2> QED BY <2>1, <2>2 DEF Counters
<1>3. {"failed", "skipped_robots", "skipped_duplicate", "fetched", "extracted"} \subseteq Counters
  BY DEF Counters
<1> QED BY <1>1, <1>2, <1>3

LEMMA TypesKept == ASSUME PipelineInv, [Next]_vars PROVE CrawlTypeOK'
<1>0. CrawlTypeOK
  BY DEF PipelineInv
<1>1. ASSUME NEW i \in Items, ItemStep(i)
      PROVE  CrawlTypeOK'
  <2>2. CASE Begin(i)
    <3>1. PageOf[i] \in Pages
      BY PipelineAssumption
    <3>2. stage' \in [Items -> {"absent"} \union Busy \union Ended]
      BY <1>0, <2>2 DEF Begin, End, CrawlTypeOK, Busy, Ended
    <3>3. stats' \in [Counters -> Nat]
      BY <1>0, <2>2 DEF Begin, Count, CrawlTypeOK, Counters
    <3> QED BY <1>0, <2>2, <3>1, <3>2, <3>3 DEF Begin, Claim, CrawlTypeOK
  <2>3. CASE PassGate(i)
    <3>1. stage' \in [Items -> {"absent"} \union Busy \union Ended]
      BY <1>0, <2>3 DEF PassGate, TakePermit, End, CrawlTypeOK, Busy, Ended
    <3>2. stats' \in [Counters -> Nat]
      BY <1>0, <2>3 DEF PassGate, Count, CrawlTypeOK, Counters
    <3>3. permits' \in Nat /\ semQueue' \in Seq(Items)
      <4>1. permits \in Nat /\ semQueue \in Seq(Items)
        BY <1>0 DEF CrawlTypeOK
      <4>2. /\ permits' = permits \/ (permits > 0 /\ permits' = permits - 1)
            /\ semQueue' \in {semQueue, Append(semQueue, i)}
        BY <2>3 DEF PassGate, TakePermit
      <4> QED BY <1>1, <4>1, <4>2
    <3> QED BY <1>0, <2>3, <3>1, <3>2, <3>3 DEF PassGate, CrawlTypeOK
  <2>4. CASE Admit(i)
    <3>1. stage' \in [Items -> {"absent"} \union Busy \union Ended]
      BY <1>0, <2>4 DEF Admit, TakePermit, CrawlTypeOK, Busy
    <3>2. semQueue # <<>>
      BY <1>0, <1>1, <2>4 DEF Admit, PipelineInv, Semaphore, CrawlTypeOK, Entries
    <3>3. permits' \in Nat /\ semQueue' \in Seq(Items)
      BY <1>0, <2>4, <3>2 DEF Admit, TakePermit, CrawlTypeOK
    <3> QED BY <1>0, <2>4, <3>1, <3>3 DEF Admit, CrawlTypeOK
  <2>5. CASE LimiterStep(i)
    BY <1>0, <2>5 DEF LimiterStep, crawlVars, CrawlTypeOK
  <2>6. CASE StartFetch(i)
    <3>1. PageOf[i] \in Pages
      BY PipelineAssumption
    <3> QED BY <1>0, <2>6, <3>1 DEF StartFetch, CrawlTypeOK, Busy
  <2>7. CASE EndFetch(i)
    <3>1. stage' \in [Items -> {"absent"} \union Busy \union Ended]
      BY <1>0, <2>7 DEF EndFetch, Finish, BuildRaises, Emit, EndEmit, End, CrawlTypeOK, Ended
    <3>2. permits' \in Nat
      BY <1>0, <2>7 DEF EndFetch, Release, CrawlTypeOK
    <3>3. perSource' \in [Sources -> Nat]
      <4>1. SourceOf[i] \in Sources
        BY <2>7 DEF EndFetch, PipelineInv, Started
      <4>2. perSource' = [perSource EXCEPT ![SourceOf[i]] = @ + 1] \/ perSource' = perSource
        BY <2>7 DEF EndFetch, Finish
      <4> QED BY <1>0, <4>1, <4>2 DEF CrawlTypeOK
    <3>4. CASE BuildRaises(i) \/ UNCHANGED <<written, recorded, open>>
      <4>1. stats' \in [Counters -> Nat]
        BY <1>0, <2>7, <3>4, StatsType DEF EndFetch, Finish, BuildRaises, Emit, CrawlTypeOK
      <4> QED BY <1>0, <2>7, <3>1, <3>2, <3>3, <3>4, <4>1 DEF EndFetch, BuildRaises, CrawlTypeOK
    <3>5. CASE Emit(i)
      <4>1. PICK bad \in SUBSET Frail :
              /\ stats' = [stats EXCEPT !.fetched = @ + 1, !.extracted = @ + 1]
              /\ written' = [k \in Sinks |->
                                IF k \in Reached(bad) THEN written[k] \union {i}
                                                      ELSE written[k]]
              /\ recorded' = recorded \union {PageOf[i]}
              /\ open' = open \union Reached(bad)
        BY <3>5 DEF Emit
      <4>4. Reached(bad) \subseteq Sinks
        BY PipelineAssumption DEF Reached
      <4>2. stats' \in [Counters -> Nat]
        BY <1>0, <4>1, StatsType DEF CrawlTypeOK
      <4>3. written' \in [Sinks -> SUBSET Items] /\ recorded' \subseteq Pages /\ open' \subseteq Sinks
        BY <1>0, <4>1, <4>4, PipelineAssumption DEF CrawlTypeOK
      <4> QED BY <1>0, <2>7, <3>1, <3>2, <3>3, <4>2, <4>3 DEF EndFetch, CrawlTypeOK
    <3> QED BY <2>7, <3>4, <3>5 DEF EndFetch, Finish
  <2> QED BY <1>1, <2>2, <2>3, <2>4, <2>5, <2>6, <2>7 DEF ItemStep
<1>2. ASSUME NEW s \in Sources, Discover(s)
      PROVE  CrawlTypeOK'
  <2>1. /\ stage' \in [Items -> {"absent"} \union Busy \union Ended]
        /\ source' \in [Sources -> SourceStates] /\ client' \in [Sources -> BOOLEAN]
        /\ stats' \in [Counters -> Nat]
    BY <1>2, DiscoverCreates DEF PipelineInv
  <2> QED BY <1>0, <1>2, <2>1 DEF Discover, CrawlTypeOK
<1>3. ASSUME NEW s \in Sources, LeaveGather(s) \/ CloseSource(s)
      PROVE  CrawlTypeOK'
  BY <1>0, <1>3 DEF LeaveGather, CloseSource, CrawlTypeOK, SourceStates
<1>4. CASE Return
  <2>1. open' \subseteq Sinks
    BY <1>0, <1>4 DEF Return, CrawlTypeOK
  <2> QED BY <1>0, <1>4, <2>1 DEF Return, CrawlTypeOK
<1>5. CASE Exit
  <2>1. /\ stage' = [i \in Items |-> IF stage[i] \in Busy THEN "cancelled" ELSE stage[i]]
        /\ source' = [s \in Sources |-> IF Ran(s) THEN source[s] ELSE "cancelled"]
        /\ permits' = MaxConcurrency /\ semQueue' = <<>> /\ run' = "exited"
    BY <1>5 DEF Exit
  <2>2. client' \in [Sources -> BOOLEAN]
    <3>1. PICK left : client' = [s \in Sources |-> client[s] /\ (Ran(s) \/ s \in left)]
      BY <1>5 DEF Exit
    <3>2. \A s \in Sources : (client[s] /\ (Ran(s) \/ s \in left)) \in BOOLEAN
      OBVIOUS
    <3> QED BY <3>1, <3>2
  <2>3. /\ stage' \in [Items -> {"absent"} \union Busy \union Ended]
        /\ source' \in [Sources -> SourceStates]
    BY <1>0, <2>1 DEF CrawlTypeOK, Ended, SourceStates
  <2>4. UNCHANGED <<prelude, seen, requested, written, recorded, open, stats, perSource>>
    BY <1>5 DEF Exit
  <2> QED BY <1>0, <2>1, <2>2, <2>3, <2>4, PipelineAssumption DEF CrawlTypeOK
<1>6. CASE Configure
  <2>1. prelude' \in Seq(CallType) /\ Head(prelude).source \in Sources
    BY <1>0, <1>6, CallTypes DEF Configure
  <2>2. source' = source \/ source' = [source EXCEPT ![Head(prelude).source] = "failed"]
    BY <1>6 DEF Configure
  <2>3. source' \in [Sources -> SourceStates]
    BY <1>0, <2>1, <2>2 DEF CrawlTypeOK, SourceStates
  <2> QED BY <1>0, <1>6, <2>1, <2>3 DEF Configure, CrawlTypeOK
<1>7. CASE Tick \/ UNCHANGED vars
  BY <1>0, <1>7 DEF Tick, vars, crawlVars, CrawlTypeOK
<1> QED BY <1>1, <1>2, <1>3, <1>4, <1>5, <1>6, <1>7 DEF Next, SourceStep

-----------------------------------------------------------------------------
(* Sources, returns and buckets *)

\* Every step, as what it does to the stages of items and to their sources.
LEMMA Steps ==
    ASSUME PipelineInv, [Next]_vars
    PROVE  \/ \E i \in Items : ItemStep(i) /\ ~LimiterStep(i)
           \/ \E s \in Sources : Discover(s) \/ LeaveGather(s) \/ CloseSource(s)
           \/ Configure
           \/ Return
           \/ Exit
           \/ UNCHANGED crawlVars
BY DEF Next, SourceStep, LimiterStep, Tick, vars, crawlVars

LEMMA StartedKept == ASSUME PipelineInv, [Next]_vars PROVE Started'
<1>0. CrawlTypeOK /\ Started
  BY DEF PipelineInv
<1>1. ASSUME NEW i \in Items, ItemStep(i), ~LimiterStep(i)
      PROVE  Started'
  <2>1. /\ stage[i] \in Busy /\ UNCHANGED source
        /\ \A j \in Items \ {i} : stage'[j] = stage[j]
    BY <1>0, <1>1, ItemMoves DEF End, CrawlTypeOK
  <2>2. stage[i] # "absent"
    BY <2>1 DEF Busy
  <2> QED BY <1>0, <2>1, <2>2 DEF Started
<1>2. ASSUME NEW s \in Sources, Discover(s)
      PROVE  Started'
  <2>1. /\ \A i \in Items : \/ stage'[i] = stage[i]
                            \/ SourceOf[i] = s
        /\ source'[s] \in {"gathering", "closing"}
        /\ \A t \in Sources \ {s} : source'[t] = source[t]
    BY <1>0, <1>2, DiscoverCreates
  <2> QED BY <1>0, <2>1 DEF Started
<1>3. ASSUME NEW s \in Sources, LeaveGather(s) \/ CloseSource(s)
      PROVE  Started'
  <2>1. /\ stage' = stage
        /\ \E x \in {"closing", "done", "failed"} : source' = [source EXCEPT ![s] = x]
    BY <1>3 DEF LeaveGather, CloseSource
  <2> QED BY <1>0, <2>1 DEF Started, CrawlTypeOK
<1>4. CASE Return \/ UNCHANGED crawlVars
  BY <1>0, <1>4 DEF Return, crawlVars, Started
<1>5. CASE Exit
  <2>1. /\ \A s \in Sources : source'[s] = "discovering" => source[s] = "discovering"
        /\ \A i \in Items : stage'[i] # stage[i] => stage[i] \in Busy
    BY <1>0, <1>5 DEF Exit, CrawlTypeOK
  <2>2. \A i \in Items : stage'[i] # "absent" => stage[i] # "absent"
    BY <2>1 DEF Busy
  <2> QED BY <1>0, <2>1, <2>2 DEF Started
<1>6. CASE Configure
  <2>1. \A s \in Sources : source'[s] = "discovering" => source[s] = "discovering"
    BY <1>0, <1>6 DEF Configure, CrawlTypeOK
  <2>2. stage' = stage
    BY <1>6 DEF Configure
  <2> QED BY <1>0, <2>1, <2>2 DEF Started
<1> QED BY <1>1, <1>2, <1>3, <1>4, <1>5, <1>6, Steps

LEMMA ReturnedDoneKept == ASSUME PipelineInv, [Next]_vars PROVE ReturnedDone'
<1>0. CrawlTypeOK /\ ReturnedDone
  BY DEF PipelineInv
<1>1. ASSUME NEW i \in Items, ItemStep(i), ~LimiterStep(i)
      PROVE  UNCHANGED <<run, prelude, source>>
  BY <1>0, <1>1, ItemMoves
<1>2. ASSUME NEW s \in Sources, Discover(s) \/ LeaveGather(s) \/ CloseSource(s)
      PROVE  ReturnedDone'
  <2>1. source[s] \notin {"done", "failed"} /\ run' = run /\ prelude' = prelude
    BY <1>2 DEF Discover, LeaveGather, CloseSource
  <2>2. \A t \in Sources \ {s} : source'[t] = source[t]
    <3>1. \E x : source' = [source EXCEPT ![s] = x]
      BY <1>2 DEF Discover, LeaveGather, CloseSource
    <3> QED BY <1>0, <3>1 DEF CrawlTypeOK
  <2> QED BY <1>0, <2>1, <2>2 DEF ReturnedDone, NoneFailed, Configured
<1>3. CASE Return
  BY <1>3 DEF Return, ReturnedDone, NoneFailed, Configured
<1>4. CASE Exit
  <2>1. run = "returned" /\ prelude' = prelude
    BY <1>4 DEF Exit
  <2>2. source' = [s \in Sources |-> IF Ran(s) THEN source[s] ELSE "cancelled"]
    BY <1>4 DEF Exit
  <2> QED BY <1>0, <2>1, <2>2 DEF ReturnedDone, NoneFailed, Configured, Ran
<1>5. CASE Configure
  <2>1. run = "running" /\ run' = run
    BY <1>0, <1>5 DEF Configure, ReturnedDone, Configured
  <2> QED BY <2>1 DEF ReturnedDone
<1>6. CASE UNCHANGED <<run, prelude, source>>
  BY <1>0, <1>6 DEF ReturnedDone, NoneFailed, Configured
<1> QED BY <1>1, <1>2, <1>3, <1>4, <1>5, <1>6, Steps DEF crawlVars

LEMMA CallsKnownKept == ASSUME PipelineInv, [Next]_vars PROVE CallsKnown'
<1>0. CrawlTypeOK /\ CallsKnown
  BY DEF PipelineInv
<1>1. CASE UNCHANGED prelude
  BY <1>0, <1>1 DEF CallsKnown
<1>2. CASE Configure
  <2>1. prelude \in Seq(CallType) /\ prelude # <<>> /\ prelude' = Tail(prelude)
    BY <1>0, <1>2 DEF Configure, CrawlTypeOK
  <2>2. \A k \in 1 .. Len(prelude') : k + 1 \in 1 .. Len(prelude) /\ prelude'[k] = prelude[k + 1]
    BY <2>1
  <2> QED BY <1>0, <2>2 DEF CallsKnown
<1>3. ASSUME NEW i \in Items, ItemStep(i), ~LimiterStep(i)
      PROVE  UNCHANGED prelude
  BY <1>0, <1>3, ItemMoves
<1>4. ASSUME NEW s \in Sources, Discover(s) \/ LeaveGather(s) \/ CloseSource(s)
      PROVE  UNCHANGED prelude
  BY <1>4 DEF Discover, LeaveGather, CloseSource
<1> QED BY <1>1, <1>2, <1>3, <1>4, Steps DEF Return, Exit, crawlVars

\* Only acquire makes buckets, the one in use, and when it runs the rates are set.
LEMMA OneBucketKept == ASSUME PipelineInv, [Next]_vars PROVE OneBucket'
<1>0. CrawlTypeOK /\ OneBucket
  BY DEF PipelineInv
<1>1. ASSUME Configured, UNCHANGED <<prelude, made, serial>>
      PROVE  OneBucket'
  BY <1>0, <1>1 DEF OneBucket, Configured
<1>2. ASSUME UNCHANGED <<prelude, stage, made, serial>>
      PROVE  OneBucket'
  BY <1>0, <1>2 DEF OneBucket, Configured
<1>3. ASSUME NEW i \in Items, stage[i] # "absent", TakePermit(i), UNCHANGED prelude
      PROVE  OneBucket'
  <2>1. Configured
    BY <1>0, <1>3 DEF OneBucket
  <2>2. made' = made \union {<<HostOf[i], serial[HostOf[i]]>>} /\ serial' = serial
    BY <1>3 DEF TakePermit, Limiter!Acquire
  <2> QED BY <1>0, <1>3, <2>1, <2>2 DEF OneBucket, Configured
<1>4. ASSUME NEW i \in Items, ItemStep(i), ~LimiterStep(i)
      PROVE  OneBucket'
  <2>1. stage[i] # "absent" /\ prelude' = prelude
    BY <1>0, <1>4, ItemMoves DEF Busy
  <2>2. Configured
    BY <1>0, <2>1 DEF OneBucket
  <2>3. TakePermit(i) \/ UNCHANGED limiterVars
    BY <1>4 DEF ItemStep, Begin, PassGate, Admit, StartFetch, EndFetch
  <2> QED BY <1>1, <1>3, <1>4, <2>1, <2>2, <2>3 DEF limiterVars
<1>5. ASSUME NEW i \in Items, LimiterStep(i)
      PROVE  OneBucket'
  BY <1>2, <1>5 DEF LimiterStep, crawlVars, Limiter!Resume, Limiter!Wake
<1>6. ASSUME NEW s \in Sources, SourceStep(s)
      PROVE  OneBucket'
  BY <1>1, <1>2, <1>6 DEF SourceStep, Discover, LeaveGather, CloseSource, limiterVars
<1>7. CASE Configure
  <2>1. ~Configured
    BY <1>7 DEF Configure, Configured
  <2>2. made' = made /\ stage' = stage
    BY <1>7 DEF Configure, Limiter!SetDomainRps, limiterVars
  <2> QED BY <1>0, <2>1, <2>2 DEF OneBucket
<1>8. CASE Tick
  BY <1>2, <1>8 DEF Tick, crawlVars, Limiter!Tick
<1>9. CASE Return \/ Exit
  <2>1. UNCHANGED <<prelude, made, serial>>
    BY <1>9 DEF Return, Exit, limiterVars
  <2>2. Configured
    BY <1>9 DEF Return, Exit, PipelineInv, ReturnedDone
  <2> QED BY <1>1, <2>1, <2>2
<1>10. CASE UNCHANGED vars
  BY <1>2, <1>10 DEF vars, crawlVars, limiterVars
<1> QED BY <1>4, <1>5, <1>6, <1>7, <1>8, <1>9, <1>10 DEF Next

-----------------------------------------------------------------------------
(* The semaphore *)

Holding == {"permitted", "fetching"}

\* A waiter that joins the queue, and the one at its head that leaves it.
LEMMA Joins ==
    ASSUME NEW q \in Seq(Items), NEW i \in Items, i \notin Entries(q), Distinct(q)
    PROVE  /\ Entries(Append(q, i)) = Entries(q) \union {i}
           /\ Distinct(Append(q, i))
<1> DEFINE r == Append(q, i)
           W == Entries(q)
<1>1. /\ Len(q) \in Nat /\ Len(r) = Len(q) + 1
      /\ \A k \in 1 .. Len(q) : r[k] = q[k]
      /\ r[Len(q) + 1] = i
  OBVIOUS
<1>2. \A k \in 1 .. Len(r) : r[k] = i \/ (k \in 1 .. Len(q) /\ r[k] = q[k])
  BY <1>1
<1>3. \A w \in W : \E k \in 1 .. Len(r) : r[k] = w
  BY <1>1 DEF Entries
<1>4. \E k \in 1 .. Len(r) : r[k] = i
  BY <1>1
<1>5. \A k \in 1 .. Len(q) : q[k] # i
  BY DEF Entries
<1>6. \A j, k \in 1 .. Len(r) : r[j] = r[k] => j = k
  BY <1>1, <1>5 DEF Distinct
<1>7. {r[k] : k \in 1 .. Len(r)} = W \union {i}
  BY <1>1, <1>2, <1>3, <1>4 DEF Entries
<1> QED BY <1>6, <1>7 DEF Entries, Distinct

LEMMA Leaves ==
    ASSUME NEW q \in Seq(Items), q # <<>>, Distinct(q)
    PROVE  /\ Entries(Tail(q)) = Entries(q) \ {Head(q)}
           /\ Distinct(Tail(q))
<1> DEFINE r == Tail(q)
           i == Head(q)
           W == Entries(q)
<1>1. /\ Len(q) \in Nat \ {0} /\ Len(r) = Len(q) - 1 /\ q[1] = i
      /\ \A k \in 1 .. Len(r) : r[k] = q[k + 1]
  OBVIOUS
<1>2. \A k \in 1 .. Len(r) : k + 1 \in 1 .. Len(q) /\ r[k] \in W /\ r[k] # i
  BY <1>1 DEF Entries, Distinct
<1>3. ASSUME NEW w \in W, w # i
      PROVE  \E k \in 1 .. Len(r) : r[k] = w
  <2>1. PICK m \in 1 .. Len(q) : q[m] = w
    BY DEF Entries
  <2>2. m - 1 \in 1 .. Len(r) /\ r[m - 1] = w
    BY <1>1, <1>3, <2>1
  <2> QED BY <2>2
<1>4. \A j, k \in 1 .. Len(r) : r[j] = r[k] => j = k
  <2> SUFFICES ASSUME NEW j \in 1 .. Len(r), NEW k \in 1 .. Len(r), r[j] = r[k] PROVE j = k
    OBVIOUS
  <2>1. j + 1 \in 1 .. Len(q) /\ k + 1 \in 1 .. Len(q) /\ q[j + 1] = q[k + 1]
    BY <1>1
  <2>2. j + 1 = k + 1
    BY <2>1 DEF Distinct
  <2> QED BY <1>1, <2>2
<1>5. {r[k] : k \in 1 .. Len(r)} = W \ {i}
  BY <1>2, <1>3
<1> QED BY <1>4, <1>5 DEF Entries, Distinct

\* A move that neither takes nor gives a permit, of an item that neither was nor is
\* waiting, leaves the semaphore as it is.
LEMMA SemaphoreSame ==
    ASSUME CrawlTypeOK, Semaphore, UNCHANGED <<permits, semQueue>>,
           \A i \in Items : /\ stage'[i] \in Holding <=> stage[i] \in Holding
                            /\ stage'[i] = "waiting" <=> stage[i] = "waiting"
    PROVE  Semaphore'
<1>1. N(Items, Holding)' = N(Items, Holding)
  BY SameCounts
<1>2. {i \in Items : stage'[i] = "waiting"} = {i \in Items : stage[i] = "waiting"}
  OBVIOUS
<1> QED BY <1>1, <1>2 DEF Semaphore, Holding

LEMMA SemaphoreKept == ASSUME PipelineInv, [Next]_vars PROVE Semaphore'
<1>0. CrawlTypeOK /\ Started /\ Semaphore
  BY DEF PipelineInv
<1> DEFINE Waiting == {j \in Items : stage[j] = "waiting"}
<1>1. ASSUME NEW i \in Items, Begin(i)
      PROVE  Semaphore'
  <2>1. PICK h \in {"unfetchable", "raised", "duplicate", "gating"} : End(i, h)
    BY <1>1 DEF Begin
  <2>2. stage[i] = "created" /\ UNCHANGED <<permits, semQueue>>
    BY <1>1 DEF Begin
  <2>3. \A j \in Items : /\ stage'[j] \in Holding <=> stage[j] \in Holding
                         /\ stage'[j] = "waiting" <=> stage[j] = "waiting"
    BY <1>0, <2>1, <2>2 DEF End, CrawlTypeOK, Holding
  <2> QED BY <1>0, <2>2, <2>3, SemaphoreSame
<1>2. ASSUME NEW i \in Items, stage[i] \in {"gating", "waiting"}, TakePermit(i),
             \/ semQueue' = semQueue /\ stage[i] = "gating"
             \/ semQueue' = Tail(semQueue) /\ Head(semQueue) = i /\ stage[i] = "waiting"
      PROVE  Semaphore'
  <2>1. End(i, "permitted") /\ permits' = permits - 1
    BY <1>2 DEF TakePermit, End
  <2>2. N(Items, Holding)' = N(Items, Holding) + 1
    BY <1>0, <1>2, <2>1, MoveCounts DEF Holding
  <2>3. permits' + N(Items, Holding)' = MaxConcurrency
    <3>1. permits + N(Items, Holding) = MaxConcurrency /\ permits \in Nat
      BY <1>0 DEF Semaphore, CrawlTypeOK, Holding
    <3>2. N(Items, Holding) \in Nat /\ MaxConcurrency \in Nat
      BY CountFinite, PipelineAssumption
    <3> QED BY <2>1, <2>2, <3>1, <3>2
  <2>4. Waiting' = Waiting \ {i}
    BY <1>0, <2>1 DEF End, CrawlTypeOK
  <2>5. CASE stage[i] = "gating"
    <3>1. Waiting' = Waiting /\ semQueue' = semQueue
      BY <1>2, <2>4, <2>5
    <3> QED BY <1>0, <2>3, <3>1 DEF Semaphore, Holding
  <2>6. CASE stage[i] = "waiting"
    <3>1. semQueue # <<>> /\ semQueue \in Seq(Items)
      BY <1>0, <1>2, <2>6 DEF Semaphore, CrawlTypeOK, Entries
    <3>2. Entries(semQueue') = Waiting \ {i} /\ Distinct(semQueue')
      BY <1>0, <1>2, <2>6, <3>1, Leaves DEF Semaphore
    <3> QED BY <2>3, <2>4, <3>2 DEF Semaphore, Holding
  <2> QED BY <1>2, <2>5, <2>6
<1>3. ASSUME NEW i \in Items, PassGate(i)
      PROVE  Semaphore'
  <2>1. stage[i] = "gating"
    BY <1>3 DEF PassGate
  <2>2. CASE (End(i, "refused") \/ End(i, "raised")) /\ UNCHANGED <<permits, semQueue>>
    <3>1. \A j \in Items : /\ stage'[j] \in Holding <=> stage[j] \in Holding
                           /\ stage'[j] = "waiting" <=> stage[j] = "waiting"
      BY <1>0, <2>1, <2>2 DEF End, CrawlTypeOK, Holding
    <3> QED BY <1>0, <2>2, <3>1, SemaphoreSame
  <2>3. CASE TakePermit(i) /\ UNCHANGED semQueue
    BY <1>2, <1>3, <2>1, <2>3
  <2>4. CASE End(i, "waiting") /\ semQueue' = Append(semQueue, i) /\ UNCHANGED permits
    <3>1. N(Items, Holding)' = N(Items, Holding)
      BY <1>0, <2>1, <2>4, MoveCounts DEF Holding
    <3>2. Waiting' = Waiting \union {i} /\ i \notin Waiting
      BY <1>0, <2>1, <2>4 DEF End, CrawlTypeOK
    <3>3. Entries(semQueue') = Waiting \union {i} /\ Distinct(semQueue')
      BY <1>0, <1>3, <2>4, <3>2, Joins DEF Semaphore, CrawlTypeOK
    <3> QED BY <1>0, <2>4, <3>1, <3>2, <3>3 DEF Semaphore, Holding
  <2> QED BY <1>3, <2>2, <2>3, <2>4 DEF PassGate, End
<1>4. ASSUME NEW i \in Items, Admit(i)
      PROVE  Semaphore'
  BY <1>2, <1>4 DEF Admit
<1>5. ASSUME NEW i \in Items, StartFetch(i)
      PROVE  Semaphore'
  <2>1. \A j \in Items : /\ stage'[j] \in Holding <=> stage[j] \in Holding
                         /\ stage'[j] = "waiting" <=> stage[j] = "waiting"
    BY <1>0, <1>5 DEF StartFetch, CrawlTypeOK, Holding
  <2> QED BY <1>0, <1>5, <2>1, SemaphoreSame DEF StartFetch
<1>6. ASSUME NEW i \in Items, EndFetch(i)
      PROVE  Semaphore'
  <2>1. PICK h \in {"raised", "broken", "emitted", "failed", "skipped"} : End(i, h)
    BY <1>6 DEF EndFetch, Finish, BuildRaises, Emit, EndEmit
  <2>2. stage[i] = "fetching" /\ permits' = permits + 1 /\ UNCHANGED semQueue
    BY <1>6 DEF EndFetch, Release
  <2>3. N(Items, Holding)' = N(Items, Holding) - 1
    BY <1>0, <2>1, <2>2, MoveCounts DEF Holding
  <2>4. permits' + N(Items, Holding)' = MaxConcurrency
    <3>1. permits + N(Items, Holding) = MaxConcurrency /\ permits \in Nat
      BY <1>0 DEF Semaphore, CrawlTypeOK, Holding
    <3>2. N(Items, Holding) \in Nat /\ MaxConcurrency \in Nat
      BY CountFinite, PipelineAssumption
    <3> QED BY <2>2, <2>3, <3>1, <3>2
  <2>5. Waiting' = Waiting
    BY <1>0, <2>1, <2>2 DEF End, CrawlTypeOK
  <2> QED BY <1>0, <2>2, <2>4, <2>5 DEF Semaphore, Holding
<1>7. ASSUME NEW s \in Sources, Discover(s)
      PROVE  Semaphore'
  <2>1. \A j \in Items : \/ stage'[j] = stage[j]
                         \/ stage[j] = "absent" /\ stage'[j] = "created"
    BY <1>0, <1>7, DiscoverCreates
  <2>2. UNCHANGED <<permits, semQueue>>
    BY <1>7 DEF Discover
  <2> QED BY <1>0, <2>1, <2>2, SemaphoreSame DEF Holding
<1>8. CASE UNCHANGED <<stage, permits, semQueue>>
  BY <1>0, <1>8, SemaphoreSame
<1>9. CASE Exit
  <2>1. \A j \in Items : stage'[j] \notin Holding /\ stage'[j] # "waiting"
    BY <1>0, <1>9 DEF Exit, CrawlTypeOK, Holding, Busy
  <2>2. In(Items, Holding)' = {} /\ Waiting' = {}
    BY <2>1 DEF In
  <2>3. N(Items, Holding)' = 0
    BY <2>2, FS_EmptySet DEF N
  <2>4. permits' = MaxConcurrency /\ semQueue' = <<>>
    BY <1>9 DEF Exit
  <2>5. Entries(semQueue') = {} /\ Distinct(semQueue')
    BY <2>4 DEF Entries, Distinct
  <2> QED BY <2>2, <2>3, <2>4, <2>5, PipelineAssumption DEF Semaphore, Holding
<1> QED BY <1>1, <1>3, <1>4, <1>5, <1>6, <1>7, <1>8, <1>9, Steps
        DEF ItemStep, LeaveGather, CloseSource, Configure, Return, crawlVars

-----------------------------------------------------------------------------
(* Claims *)

Before == {"gating", "waiting", "permitted"}

\* A step that only moves items on before their fetch, or out of the way.
LEMMA ClaimsSame ==
    ASSUME Claims, UNCHANGED <<seen, requested, recorded>>,
           \A i \in Items : \/ stage'[i] = stage[i]
                            \/ stage'[i] \notin Past
                            \/ stage[i] \in Before /\ stage'[i] \in Before
    PROVE  Claims'
BY DEF Claims, Past, Before

LEMMA ClaimsKept == ASSUME PipelineInv, [Next]_vars PROVE Claims'
<1>0. CrawlTypeOK /\ Started /\ Claims
  BY DEF PipelineInv
<1>1. ASSUME NEW i \in Items, Begin(i)
      PROVE  Claims'
  <2>1. stage[i] = "created" /\ UNCHANGED <<requested, recorded>>
    BY <1>1 DEF Begin
  <2>2. CASE stage' = [stage EXCEPT ![i] = "gating"] /\ PageOf[i] \notin seen /\ Claim(i)
    <3>1. /\ stage'[i] = "gating"
          /\ \A j \in Items \ {i} : stage'[j] = stage[j]
          /\ seen' = seen \union {PageOf[i]}
      BY <1>0, <1>1, <2>2 DEF Claim, CrawlTypeOK
    <3>2. requested' \subseteq seen' /\ recorded' \subseteq requested'
      BY <1>0, <2>1, <3>1 DEF Claims
    <3>3. \A j \in Items : stage'[j] \in Past => PageOf[j] \in seen'
      BY <1>0, <3>1 DEF Claims
    <3>4. \A j, k \in Items :
             stage'[j] \in Past /\ stage'[k] \in Past /\ PageOf[j] = PageOf[k] => j = k
      BY <1>0, <2>2, <3>1 DEF Claims
    <3>5. \A j \in Items : stage'[j] \in Before => PageOf[j] \notin requested'
      BY <1>0, <2>1, <2>2, <3>1 DEF Claims, Before
    <3>6. \A j \in Items : stage'[j] = "fetching" => PageOf[j] \in requested' \ recorded'
      BY <1>0, <2>1, <3>1 DEF Claims
    <3> QED BY <3>2, <3>3, <3>4, <3>5, <3>6 DEF Claims, Before
  <2>3. CASE /\ UNCHANGED seen
             /\ \E h \in {"unfetchable", "raised", "duplicate"} : End(i, h)
    <3>1. \A j \in Items : stage'[j] = stage[j] \/ stage'[j] \notin Past
      BY <1>0, <2>3 DEF End, CrawlTypeOK, Past
    <3> QED BY <1>0, <2>1, <2>3, <3>1, ClaimsSame
  <2> QED BY <1>1, <2>2, <2>3 DEF Begin, End
<1>2. ASSUME NEW i \in Items, PassGate(i) \/ Admit(i)
      PROVE  Claims'
  <2>1. PICK h \in {"raised", "refused", "permitted", "waiting"} : End(i, h)
    BY <1>2 DEF PassGate, Admit, TakePermit, End
  <2>2. stage[i] \in Before /\ UNCHANGED <<seen, requested, recorded>>
    BY <1>2 DEF PassGate, Admit, Before
  <2>3. \A j \in Items : \/ stage'[j] = stage[j]
                         \/ stage'[j] \notin Past
                         \/ stage[j] \in Before /\ stage'[j] \in Before
    BY <1>0, <2>1, <2>2 DEF End, CrawlTypeOK, Past, Before
  <2> QED BY <1>0, <2>2, <2>3, ClaimsSame
<1>3. ASSUME NEW i \in Items, StartFetch(i)
      PROVE  Claims'
  <2>1. /\ stage[i] = "permitted" /\ stage'[i] = "fetching"
        /\ \A j \in Items \ {i} : stage'[j] = stage[j]
        /\ requested' = requested \union {PageOf[i]}
        /\ UNCHANGED <<seen, recorded>>
    BY <1>0, <1>3 DEF StartFetch, CrawlTypeOK
  <2>2. /\ PageOf[i] \in seen /\ PageOf[i] \notin requested
        /\ \A j \in Items : stage[j] \in Past /\ PageOf[i] = PageOf[j] => i = j
    BY <1>0, <1>3, <2>1 DEF Claims, Past
  <2>3. requested' \subseteq seen' /\ recorded' \subseteq requested'
    BY <1>0, <2>1, <2>2 DEF Claims
  <2>4. \A j \in Items : stage'[j] \in Past => stage[j] \in Past
    BY <2>1 DEF Past
  <2>5. /\ \A j \in Items : stage'[j] \in Past => PageOf[j] \in seen'
        /\ \A j, k \in Items :
               stage'[j] \in Past /\ stage'[k] \in Past /\ PageOf[j] = PageOf[k] => j = k
    BY <1>0, <2>1, <2>4 DEF Claims
  <2>6. \A j \in Items : stage'[j] \in Before => PageOf[j] \notin requested'
    <3> SUFFICES ASSUME NEW j \in Items, stage'[j] \in Before
                 PROVE  PageOf[j] \notin requested'
      OBVIOUS
    <3>1. j # i /\ stage[j] \in Before /\ stage[j] \in Past
      BY <2>1 DEF Before, Past
    <3>2. PageOf[j] # PageOf[i] /\ PageOf[j] \notin requested
      BY <1>0, <2>2, <3>1 DEF Claims, Before
    <3> QED BY <2>1, <3>2
  <2>7. \A j \in Items : stage'[j] = "fetching" => PageOf[j] \in requested' \ recorded'
    BY <1>0, <2>1, <2>2 DEF Claims
  <2> QED BY <2>3, <2>5, <2>6, <2>7 DEF Claims, Before
<1>4. ASSUME NEW i \in Items, EndFetch(i)
      PROVE  Claims'
  <2>1. PICK h \in {"raised", "broken", "emitted", "failed", "skipped"} : End(i, h)
    BY <1>4 DEF EndFetch, Finish, BuildRaises, Emit, EndEmit
  <2>2. /\ stage[i] = "fetching" /\ UNCHANGED <<seen, requested>>
        /\ recorded' = recorded \/ recorded' = recorded \union {PageOf[i]}
    BY <1>4 DEF EndFetch, Finish, BuildRaises, Emit
  <2>3. /\ stage'[i] \notin Past
        /\ \A j \in Items \ {i} : stage'[j] = stage[j]
    BY <1>0, <2>1 DEF End, CrawlTypeOK, Past
  <2>4. /\ PageOf[i] \in requested
        /\ \A j \in Items : stage[j] \in Past /\ PageOf[i] = PageOf[j] => i = j
    BY <1>0, <1>4, <2>2 DEF Claims, Past
  <2>5. requested' \subseteq seen' /\ recorded' \subseteq requested'
    BY <1>0, <2>2, <2>4 DEF Claims
  <2>6. \A j \in Items : stage'[j] \in Past => stage[j] \in Past /\ j # i
    BY <2>3
  <2>7. /\ \A j \in Items : stage'[j] \in Past => PageOf[j] \in seen'
        /\ \A j, k \in Items :
               stage'[j] \in Past /\ stage'[k] \in Past /\ PageOf[j] = PageOf[k] => j = k
    BY <1>0, <2>2, <2>6 DEF Claims
  <2>8. \A j \in Items : stage'[j] \in Before => PageOf[j] \notin requested'
    BY <1>0, <2>2, <2>3 DEF Claims, Before, Past
  <2>9. \A j \in Items : stage'[j] = "fetching" => PageOf[j] \in requested' \ recorded'
    <3> SUFFICES ASSUME NEW j \in Items, stage'[j] = "fetching"
                 PROVE  PageOf[j] \in requested' \ recorded'
      OBVIOUS
    <3>1. j # i /\ stage[j] = "fetching" /\ stage[j] \in Past
      BY <2>3 DEF Past
    <3>2. PageOf[j] # PageOf[i] /\ PageOf[j] \in requested \ recorded
      BY <1>0, <2>4, <3>1 DEF Claims
    <3> QED BY <2>2, <3>2
  <2> QED BY <2>5, <2>7, <2>8, <2>9 DEF Claims, Before
<1>5. ASSUME NEW s \in Sources, Discover(s)
      PROVE  Claims'
  <2>1. \A j \in Items : stage'[j] = stage[j] \/ stage'[j] = "created"
    BY <1>0, <1>5, DiscoverCreates
  <2>2. UNCHANGED <<seen, requested, recorded>>
    BY <1>5 DEF Discover
  <2> QED BY <1>0, <2>1, <2>2, ClaimsSame DEF Past
<1>6. CASE UNCHANGED <<stage, seen, requested, recorded>>
  BY <1>0, <1>6, ClaimsSame
<1>7. CASE Exit
  <2>1. \A j \in Items : stage'[j] = stage[j] \/ stage'[j] = "cancelled"
    BY <1>0, <1>7 DEF Exit, CrawlTypeOK
  <2>2. UNCHANGED <<seen, requested, recorded>>
    BY <1>7 DEF Exit
  <2> QED BY <1>0, <2>1, <2>2, ClaimsSame DEF Past
<1> QED BY <1>1, <1>2, <1>3, <1>4, <1>5, <1>6, <1>7, Steps
        DEF ItemStep, LeaveGather, CloseSource, Configure, Return, crawlVars

-----------------------------------------------------------------------------
(* Failures *)

\* The part of FailureConfined about one source.
Confined(s) ==
    NoneFailed /\ (\A i \in Gathered(s) : ~Raised(i)) =>
        /\ \A i \in Gathered(s) : stage[i] # "cancelled"
        /\ source[s] \in {"closing", "done"} => \A i \in Gathered(s) : stage[i] \in Ended
        /\ source[s] = "done" => ~client[s]

\* The reasons why an item raises and a source fails.
Reasons ==
    /\ \A i \in Items : Raised(i) => IllFormed(i) \/ SourceOf[i] \in Browsers
    /\ \A s \in Sources : source[s] = "failed" => Misconfigured(s) \/ s \in BadClose

LEMMA ConfinedParts == FailureConfined <=> Reasons /\ \A s \in Sources : Confined(s)
BY DEF FailureConfined, Reasons, Confined, NoneFailed

\* It depends on the source and its items, and on whether a source failed.
LEMMA ConfinedSame ==
    ASSUME NEW s \in Sources, Confined(s), NoneFailed' => NoneFailed,
           source'[s] = source[s], client'[s] = client[s],
           \A i \in Items : SourceOf[i] = s => stage'[i] = stage[i]
    PROVE  Confined(s)'
<1>1. Gathered(s)' = Gathered(s) /\ \A i \in Gathered(s) : stage'[i] = stage[i]
  BY DEF Gathered
<1> QED BY <1>1 DEF Confined, Raised

LEMMA FailureConfinedKept == ASSUME PipelineInv, [Next]_vars PROVE FailureConfined'
<1>0. /\ CrawlTypeOK /\ Started /\ ReturnedDone /\ Reasons
      /\ \A s \in Sources : Confined(s)
  BY ConfinedParts DEF PipelineInv
<1> SUFFICES Reasons' /\ \A s \in Sources : Confined(s)'
  BY DEF FailureConfined, Reasons, Confined, NoneFailed
<1> DEFINE Goal == Reasons /\ \A s \in Sources : Confined(s)
<1>1. ASSUME NEW i \in Items, ItemStep(i), ~LimiterStep(i)
      PROVE  Goal'
  <2>1. /\ stage[i] \in Busy /\ UNCHANGED source
        /\ client' = client \/ client' = [client EXCEPT ![SourceOf[i]] = TRUE]
    BY <1>0, <1>1, ItemMoves
  <2>2. PICK h \in (Busy \union Ended) \ {"created", "cancelled"} :
            /\ End(i, h)
            /\ h \in {"raised", "broken"} => IllFormed(i) \/ SourceOf[i] \in Browsers
    BY <1>0, <1>1, ItemMoves
  <2>3. stage'[i] = h /\ \A j \in Items \ {i} : stage'[j] = stage[j]
    BY <1>0, <2>2 DEF End, CrawlTypeOK
  <2>4. Reasons'
    BY <1>0, <2>1, <2>2, <2>3 DEF Reasons, Raised
  <2>5. ASSUME NEW s \in Sources
        PROVE  Confined(s)'
    <3>1. CASE SourceOf[i] # s
      <4>1. client'[s] = client[s]
        BY <1>0, <2>1, <3>1 DEF CrawlTypeOK
      <4>2. NoneFailed' => NoneFailed
        BY <2>1 DEF NoneFailed
      <4> QED BY <1>0, <2>1, <2>3, <2>5, <3>1, <4>1, <4>2, ConfinedSame
    <3>2. CASE SourceOf[i] = s
      <4>1. i \in Gathered(s) /\ stage[i] \notin Ended /\ ~Raised(i)
        BY <1>1, <2>1, <3>2 DEF Gathered, Busy, Ended, Raised
      <4>2. Gathered(s)' = Gathered(s)
        BY <2>1, <2>2, <2>3 DEF Gathered, Busy, Ended
      <4> SUFFICES ASSUME NoneFailed', \A j \in Gathered(s)' : ~Raised(j)'
                   PROVE  /\ \A j \in Gathered(s)' : stage'[j] # "cancelled"
                          /\ source'[s] \notin {"closing", "done"}
        BY DEF Confined
      <4>3. NoneFailed /\ \A j \in Gathered(s) : ~Raised(j)
        BY <2>1, <2>3, <4>1, <4>2 DEF Gathered, NoneFailed, Raised
      <4>4. \A j \in Gathered(s) : stage[j] # "cancelled"
        BY <1>0, <2>5, <4>3 DEF Confined
      <4>5. source[s] \notin {"closing", "done"}
        BY <1>0, <2>5, <4>1, <4>3 DEF Confined
      <4> QED BY <2>1, <2>2, <2>3, <4>2, <4>4, <4>5 DEF Gathered
    <3> QED BY <3>1, <3>2
  <2> QED BY <2>4, <2>5
<1>2. ASSUME NEW s \in Sources, Discover(s)
      PROVE  Goal'
  <2>1. /\ \A i \in Items : \/ stage'[i] = stage[i]
                            \/ stage'[i] = "created" /\ SourceOf[i] = s /\ source'[s] = "gathering"
        /\ \A i \in Items : SourceOf[i] = s => stage[i] = "absent"
        /\ source'[s] \in {"gathering", "closing"}
        /\ source'[s] = "closing" => stage' = stage
        /\ \A t \in Sources \ {s} : source'[t] = source[t] /\ client'[t] = client[t]
    BY <1>0, <1>2, DiscoverCreates
  <2>2. NoneFailed' => NoneFailed
    <3>1. source[s] # "failed"
      BY <1>2 DEF Discover
    <3> QED BY <2>1, <3>1 DEF NoneFailed
  <2>3. Reasons'
    BY <1>0, <2>1 DEF Reasons, Raised
  <2>4. ASSUME NEW t \in Sources, t # s
        PROVE  Confined(t)'
    BY <1>0, <2>1, <2>2, <2>4, ConfinedSame
  <2>5. Confined(s)'
    <3>1. \A i \in Gathered(s)' : stage'[i] = "created" /\ source'[s] = "gathering"
      BY <2>1 DEF Gathered
    <3> QED BY <2>1, <3>1 DEF Confined
  <2> QED BY <2>3, <2>4, <2>5
<1>3. ASSUME NEW s \in Sources, LeaveGather(s) \/ CloseSource(s)
      PROVE  Goal'
  <2>1. stage' = stage
    BY <1>3 DEF LeaveGather, CloseSource
  <2>2. Reasons'
    <3>1. \A t \in Sources : source'[t] = "failed" => source[t] = "failed" \/ t \in BadClose
      BY <1>0, <1>3 DEF LeaveGather, CloseSource, CrawlTypeOK
    <3> QED BY <1>0, <2>1, <3>1 DEF Reasons, Raised
  <2>5. NoneFailed' => NoneFailed
    <3>1. source[s] # "failed" /\ \A t \in Sources \ {s} : source'[t] = source[t]
      BY <1>0, <1>3 DEF LeaveGather, CloseSource, CrawlTypeOK
    <3> QED BY <3>1 DEF NoneFailed
  <2>3. ASSUME NEW t \in Sources, t # s
        PROVE  Confined(t)'
    <3>1. source'[t] = source[t] /\ client'[t] = client[t]
      BY <1>0, <1>3, <2>3 DEF LeaveGather, CloseSource, CrawlTypeOK
    <3> QED BY <1>0, <2>1, <2>3, <2>5, <3>1, ConfinedSame
  <2>4. Confined(s)'
    <3>1. Gathered(s)' = Gathered(s)
      BY <2>1 DEF Gathered
    <3>2. CASE LeaveGather(s)
      <4>1. source'[s] = "closing" /\ GatherOver(s)
        BY <1>0, <3>2 DEF LeaveGather, CrawlTypeOK
      <4> QED BY <1>0, <2>1, <2>5, <3>1, <4>1 DEF Confined, GatherOver, Raised
    <3>3. CASE CloseSource(s)
      <4>1. source[s] = "closing" /\ (~client'[s] \/ source'[s] = "failed")
        BY <1>0, <3>3 DEF CloseSource, CrawlTypeOK
      <4> QED BY <1>0, <2>1, <2>5, <3>1, <4>1 DEF Confined, Raised, NoneFailed
    <3> QED BY <1>3, <3>2, <3>3
  <2> QED BY <2>2, <2>3, <2>4
<1>4. CASE UNCHANGED <<source, stage, client>>
  <2>1. Reasons'
    BY <1>0, <1>4 DEF Reasons, Raised
  <2>2. NoneFailed' => NoneFailed
    BY <1>4 DEF NoneFailed
  <2>3. \A s \in Sources : Confined(s)'
    BY <1>0, <1>4, <2>2, ConfinedSame
  <2> QED BY <2>1, <2>3
<1>6. CASE Configure
  <2> DEFINE call == Head(prelude)
  <2>1. CASE source' = [source EXCEPT ![call.source] = "failed"] /\ call.domain = NoHost
    <3>1. call.source \in Sources
      BY <1>0, <1>6, CallTypes DEF Configure
    <3>2. Misconfigured(call.source)
      <4>1. prelude \in Seq(CallType) /\ prelude # <<>>
        BY <1>0, <1>6 DEF Configure, CrawlTypeOK
      <4>2. 1 \in 1 .. Len(prelude) /\ prelude[1] = call
        BY <4>1
      <4> QED BY <2>1, <4>2 DEF PipelineInv, CallsKnown
    <3>3. ~NoneFailed'
      BY <1>0, <2>1, <3>1 DEF NoneFailed, CrawlTypeOK
    <3>4. Reasons'
      <4>1. \A s \in Sources : source'[s] = "failed" => source[s] = "failed" \/ s = call.source
        BY <1>0, <2>1 DEF CrawlTypeOK
      <4>2. stage' = stage
        BY <1>6 DEF Configure
      <4> QED BY <1>0, <3>2, <4>1, <4>2 DEF Reasons, Raised
    <3> QED BY <3>3, <3>4 DEF Confined
  <2> QED BY <1>4, <1>6, <2>1 DEF Configure
<1>5. CASE Exit
  <2>1. \A i \in Items : \/ stage'[i] = stage[i]
                         \/ stage[i] \in Busy /\ stage'[i] = "cancelled"
    <3>1. stage' = [i \in Items |-> IF stage[i] \in Busy THEN "cancelled" ELSE stage[i]]
      BY <1>5 DEF Exit
    <3> QED BY <3>1
  <2>4. source' = [s \in Sources |-> IF Ran(s) THEN source[s] ELSE "cancelled"]
    BY <1>5 DEF Exit
  <2>2. Reasons'
    BY <1>0, <2>1, <2>4 DEF Reasons, Raised
  <2>5. ASSUME NoneFailed'
        PROVE  /\ NoneFailed /\ \A s \in Sources : source[s] = "done"
               /\ \A s \in Sources : source'[s] = source[s] /\ client'[s] = client[s]
    <3>1. NoneFailed
      BY <2>4, <2>5 DEF NoneFailed, Ran
    <3>2. \A s \in Sources : source[s] = "done"
      BY <1>0, <1>5, <3>1 DEF ReturnedDone, Exit
    <3>3. PICK left : client' = [s \in Sources |-> client[s] /\ (Ran(s) \/ s \in left)]
      BY <1>5 DEF Exit
    <3>4. \A s \in Sources : client[s] \in BOOLEAN /\ Ran(s)
      BY <1>0, <3>2 DEF CrawlTypeOK, Ran
    <3>5. \A s \in Sources : client'[s] = client[s]
      BY <3>3, <3>4
    <3> QED BY <2>4, <3>1, <3>2, <3>4, <3>5
  <2>3. ASSUME NEW s \in Sources
        PROVE  Confined(s)'
    <3>1. Gathered(s)' = Gathered(s)
      BY <2>1 DEF Gathered, Busy
    <3> SUFFICES ASSUME NoneFailed', \A i \in Gathered(s) : ~Raised(i)'
                 PROVE  /\ \A i \in Gathered(s) : stage'[i] \in Ended /\ stage'[i] # "cancelled"
                        /\ ~client'[s]
      BY <3>1 DEF Confined
    <3>2. \A i \in Gathered(s) : ~Raised(i)
      BY <2>1 DEF Gathered, Busy, Raised
    <3>3. /\ \A i \in Gathered(s) : stage[i] \in Ended /\ stage[i] # "cancelled"
          /\ ~client[s]
      BY <1>0, <2>5, <2>3, <3>2 DEF Confined
    <3> QED BY <2>1, <2>5, <3>3 DEF Gathered, Busy, Ended
  <2> QED BY <2>2, <2>3
<1> QED BY <1>1, <1>2, <1>3, <1>4, <1>5, <1>6, Steps DEF Return, crawlVars

-----------------------------------------------------------------------------
(* Counters *)

One(b) == IF b THEN 1 ELSE 0

\* An item that comes to an end is one more of that end, in every set it belongs to.
LEMMA EndCounts ==
    ASSUME CrawlTypeOK, NEW i \in Items, stage[i] \in Busy, NEW h, End(i, h),
           NEW T \in SUBSET Items, NEW how \in Ended
    PROVE  N(T, {how})' = N(T, {how}) + One(i \in T /\ h = how)
<1>1. stage[i] \notin {how}
  BY DEF Busy, Ended
<1>2. N(T, {how}) \in Nat
  BY CountFinite
<1>3. N(T, {how})' = IF i \in T /\ h \in {how} /\ stage[i] \notin {how} THEN N(T, {how}) + 1
                     ELSE IF i \in T /\ h \notin {how} /\ stage[i] \in {how}
                          THEN N(T, {how}) - 1 ELSE N(T, {how})
  BY MoveCounts
<1> QED BY <1>1, <1>2, <1>3 DEF One

\* What the counters have to do when item i ends as h.
Counted(i, h) ==
    /\ stats'.failed = stats.failed + One(h = "failed")
    /\ stats'.skipped_robots = stats.skipped_robots + One(h = "refused")
    /\ stats'.skipped_duplicate = stats.skipped_duplicate + One(h = "duplicate")
    /\ stats'.extracted = stats.extracted + One(h = "emitted")
            + One(i \in Plain /\ h = "broken")
    /\ stats'.fetched = stats.fetched + One(h = "emitted")
            + One(i \in Plain /\ h = "broken")
            + One(i \in Strange /\ h = "broken")
    /\ \A s \in Sources : perSource'[s] = perSource[s]
            + One(i \in Of(s) /\ h = "emitted") + One(i \in Of(s) /\ h = "broken")

LEMMA CountsMove ==
    ASSUME CrawlTypeOK, Counts, NEW i \in Items, stage[i] \in Busy, NEW h, End(i, h),
           Counted(i, h)
    PROVE  Counts'
<1>1. /\ {"failed", "refused", "duplicate", "emitted", "broken"} \subseteq Ended
      /\ Plain \in SUBSET Items /\ Strange \in SUBSET Items
      /\ Items \in SUBSET Items
      /\ \A s \in Sources : Of(s) \in SUBSET Items
  BY DEF Ended, Plain, Strange, Of
<1>2. \A T \in SUBSET Items : \A how \in Ended : N(T, {how}) \in Nat
  BY CountFinite
<1>3. \A T \in SUBSET Items : \A how \in Ended :
         N(T, {how})' = N(T, {how}) + One(i \in T /\ h = how)
  <2> SUFFICES ASSUME NEW T \in SUBSET Items, NEW how \in Ended
               PROVE  N(T, {how})' = N(T, {how}) + One(i \in T /\ h = how)
    OBVIOUS
  <2> QED BY EndCounts
<1>4. \A b : One(b) \in {0, 1}
  BY DEF One
<1>5. /\ stats'.failed = N(Items, {"failed"})'
      /\ stats'.skipped_robots = N(Items, {"refused"})'
      /\ stats'.skipped_duplicate = N(Items, {"duplicate"})'
  BY <1>1, <1>3 DEF Counts, Counted
<1>6. /\ N(Items, {"emitted"})' = N(Items, {"emitted"}) + One(h = "emitted")
      /\ N(Plain, {"broken"})' = N(Plain, {"broken"})
             + One(i \in Plain /\ h = "broken")
      /\ N(Strange, {"broken"})' = N(Strange, {"broken"})
             + One(i \in Strange /\ h = "broken")
  BY <1>1, <1>3
<1>7. /\ N(Items, {"emitted"}) \in Nat /\ N(Plain, {"broken"}) \in Nat
      /\ N(Strange, {"broken"}) \in Nat
  BY <1>1, <1>2
<1>8. /\ stats'.extracted = N(Items, {"emitted"})' + N(Plain, {"broken"})'
      /\ stats'.fetched = stats'.extracted + N(Strange, {"broken"})'
  <2>1. /\ stats.extracted = N(Items, {"emitted"}) + N(Plain, {"broken"})
        /\ stats.fetched = stats.extracted + N(Strange, {"broken"})
    BY DEF Counts
  <2> QED BY <1>4, <1>6, <1>7, <2>1 DEF Counted
<1>9. ASSUME NEW s \in Sources
      PROVE  perSource'[s] = N(Of(s), {"emitted"})' + N(Of(s), {"broken"})'
  <2>1. perSource[s] = N(Of(s), {"emitted"}) + N(Of(s), {"broken"})
    BY <1>9 DEF Counts
  <2>2. /\ N(Of(s), {"emitted"}) \in Nat /\ N(Of(s), {"broken"}) \in Nat
        /\ N(Of(s), {"emitted"})' = N(Of(s), {"emitted"}) + One(i \in Of(s) /\ h = "emitted")
        /\ N(Of(s), {"broken"})' = N(Of(s), {"broken"})
               + One(i \in Of(s) /\ h = "broken")
    BY <1>1, <1>2, <1>3, <1>9
  <2> QED BY <1>4, <1>9, <2>1, <2>2 DEF Counted
<1>10. \A s \in Sources : (Of(s))' = Of(s)
  BY DEF Of
<1> QED BY <1>5, <1>8, <1>9, <1>10 DEF Counts, Plain, Strange

\* A step that brings no item to an end leaves the counters of ends as they are.
LEMMA CountsSame ==
    ASSUME CrawlTypeOK, Counts, perSource' = perSource,
           \A c \in Counters \ {"discovered"} : stats'[c] = stats[c],
           \A i \in Items : \A how \in {"failed", "refused", "duplicate", "emitted", "broken"} :
               stage'[i] = how <=> stage[i] = how
    PROVE  Counts'
<1>1. \A T \in SUBSET Items :
         \A how \in {"failed", "refused", "duplicate", "emitted", "broken"} :
             N(T, {how})' = N(T, {how})
  BY SameCounts
<1>2. /\ Plain \in SUBSET Items /\ Strange \in SUBSET Items
      /\ Items \in SUBSET Items
      /\ \A s \in Sources : Of(s) \in SUBSET Items
  BY DEF Plain, Strange, Of
<1>3. /\ stats'.failed = stats.failed /\ stats'.skipped_robots = stats.skipped_robots
      /\ stats'.skipped_duplicate = stats.skipped_duplicate
      /\ stats'.extracted = stats.extracted /\ stats'.fetched = stats.fetched
  BY DEF Counters
<1> QED BY <1>1, <1>2, <1>3 DEF Counts, Plain, Strange, Of

LEMMA CountsKept == ASSUME PipelineInv, [Next]_vars PROVE Counts'
<1>0. /\ CrawlTypeOK /\ Started /\ Counts
      /\ stats \in [Counters -> Nat] /\ perSource \in [Sources -> Nat]
  BY DEF PipelineInv, CrawlTypeOK
<1> DEFINE Same == /\ perSource' = perSource
                   /\ \A c \in Counters \ {"discovered"} : stats'[c] = stats[c]
<1>1. ASSUME NEW i \in Items, NEW h,
             h \notin {"failed", "refused", "duplicate", "emitted", "broken"},
             stage[i] \in Busy, End(i, h), Same
      PROVE  Counts'
  <2>1. \A j \in Items : \A how \in {"failed", "refused", "duplicate", "emitted", "broken"} :
           stage'[j] = how <=> stage[j] = how
    BY <1>0, <1>1 DEF End, CrawlTypeOK, Busy
  <2> QED BY <1>0, <1>1, <2>1, CountsSame
<1>2. ASSUME NEW i \in Items, Begin(i)
      PROVE  Counts'
  <2>1. stage[i] = "created" /\ stage[i] \in Busy /\ UNCHANGED perSource
    BY <1>2 DEF Begin, Busy
  <2>2. CASE (End(i, "unfetchable") \/ End(i, "raised") \/ End(i, "gating")) /\ UNCHANGED stats
    BY <1>1, <1>2, <2>1, <2>2
  <2>4. CASE End(i, "duplicate") /\ Count("skipped_duplicate", 1)
    <3>1. stats'.skipped_duplicate = stats.skipped_duplicate + 1
      BY <1>0, <2>4 DEF Count, CrawlTypeOK, Counters
    <3>2. \A c \in Counters \ {"skipped_duplicate"} : stats'[c] = stats[c]
      BY <1>0, <2>4 DEF Count, CrawlTypeOK, Counters
    <3>3. Counted(i, "duplicate")
      BY <1>0, <1>2, <2>1, <2>4, <3>1, <3>2 DEF Counted, Counters, One
    <3> QED BY <1>0, <1>2, <2>1, <2>4, <3>3, CountsMove
  <2> QED BY <1>2, <2>1, <2>2, <2>4 DEF Begin, End
<1>3. ASSUME NEW i \in Items, PassGate(i) \/ Admit(i)
      PROVE  Counts'
  <2>1. stage[i] \in {"gating", "waiting"} /\ stage[i] \in Busy /\ UNCHANGED perSource
    BY <1>3 DEF PassGate, Admit, Busy
  <2>2. CASE /\ End(i, "permitted") \/ End(i, "waiting") \/ End(i, "raised")
             /\ UNCHANGED stats
    BY <1>1, <1>3, <2>1, <2>2
  <2>3. CASE End(i, "refused") /\ Count("skipped_robots", 1)
    <3>1. stats'.skipped_robots = stats.skipped_robots + 1
      BY <1>0, <2>3 DEF Count, CrawlTypeOK, Counters
    <3>2. \A c \in Counters \ {"skipped_robots"} : stats'[c] = stats[c]
      BY <1>0, <2>3 DEF Count, CrawlTypeOK, Counters
    <3>3. Counted(i, "refused")
      BY <1>0, <1>3, <2>1, <2>3, <3>1, <3>2 DEF Counted, Counters, One
    <3> QED BY <1>0, <1>3, <2>1, <2>3, <3>3, CountsMove
  <2> QED BY <1>3, <2>1, <2>2, <2>3 DEF PassGate, Admit, TakePermit, End
<1>4. ASSUME NEW i \in Items, StartFetch(i)
      PROVE  Counts'
  <2>1. stage[i] \in Busy /\ End(i, "fetching") /\ UNCHANGED <<stats, perSource>>
    BY <1>4 DEF StartFetch, Busy, End
  <2> QED BY <1>1, <1>4, <2>1
<1>5. ASSUME NEW i \in Items, EndFetch(i)
      PROVE  Counts'
  <2>1. stage[i] = "fetching" /\ stage[i] \in Busy /\ SourceOf[i] \in Sources
    BY <1>0, <1>5 DEF EndFetch, Busy, Started, CrawlTypeOK
  <2>2. CASE End(i, "failed") /\ Count("failed", 1) /\ UNCHANGED perSource
    <3>1. stats'.failed = stats.failed + 1
      BY <1>0, <2>2 DEF Count, CrawlTypeOK, Counters
    <3>2. \A c \in Counters \ {"failed"} : stats'[c] = stats[c]
      BY <1>0, <2>2 DEF Count, CrawlTypeOK, Counters
    <3>3. Counted(i, "failed")
      BY <1>0, <1>5, <2>1, <2>2, <3>1, <3>2 DEF Counted, Counters, One
    <3> QED BY <1>0, <1>5, <2>1, <2>2, <3>3, CountsMove
  <2>3. CASE (End(i, "skipped") \/ End(i, "raised")) /\ UNCHANGED <<stats, perSource>>
    BY <1>1, <1>5, <2>1, <2>3
  <2>4. ASSUME perSource' = [perSource EXCEPT ![SourceOf[i]] = @ + 1]
        PROVE  \A s \in Sources :
                   /\ perSource[s] \in Nat /\ (i \in Of(s) <=> s = SourceOf[i])
                   /\ perSource'[s] = IF s = SourceOf[i] THEN perSource[s] + 1 ELSE perSource[s]
    BY <1>0, <1>5, <2>1, <2>4 DEF Of
  <2>5. CASE /\ perSource' = [perSource EXCEPT ![SourceOf[i]] = @ + 1]
             /\ SourceOf[i] \in BadStrategy /\ Count("fetched", 1) /\ End(i, "broken")
    <3>1. stats'.fetched = stats.fetched + 1
      BY <1>0, <2>5 DEF Count, CrawlTypeOK, Counters
    <3>2. \A c \in Counters \ {"fetched"} : stats'[c] = stats[c]
      BY <1>0, <2>5 DEF Count, CrawlTypeOK, Counters
    <3>3. i \in Strange /\ i \notin Plain
      BY <1>5, <2>1, <2>5 DEF Strange, Plain
    <3>4. \A s \in Sources : perSource'[s] = perSource[s]
             + One(i \in Of(s) /\ "broken" = "emitted")
             + One(i \in Of(s) /\ "broken" = "broken")
      BY <2>1, <2>4, <2>5 DEF One
    <3>5. Counted(i, "broken")
      BY <1>0, <1>5, <2>1, <2>5, <3>1, <3>2, <3>3, <3>4 DEF Counted, Counters, One
    <3> QED BY <1>0, <1>5, <2>1, <2>5, <3>5, CountsMove
  <2>6. CASE /\ perSource' = [perSource EXCEPT ![SourceOf[i]] = @ + 1]
             /\ i \in ListText /\ SourceOf[i] \notin BadStrategy /\ End(i, "broken")
             /\ stats' = [stats EXCEPT !.fetched = @ + 1, !.extracted = @ + 1]
    <3>1. /\ stats'.fetched = stats.fetched + 1 /\ stats'.extracted = stats.extracted + 1
          /\ \A c \in Counters \ {"fetched", "extracted"} : stats'[c] = stats[c]
      BY <1>0, <2>6 DEF CrawlTypeOK, Counters
    <3>2. i \notin Strange /\ i \in Plain
      BY <1>5, <2>1, <2>6 DEF Strange, Plain
    <3>3. \A s \in Sources : perSource'[s] = perSource[s]
             + One(i \in Of(s) /\ "broken" = "emitted")
             + One(i \in Of(s) /\ "broken" = "broken")
      BY <2>1, <2>4, <2>6 DEF One
    <3>4. Counted(i, "broken")
      BY <1>0, <1>5, <2>1, <2>6, <3>1, <3>2, <3>3 DEF Counted, Counters, One
    <3> QED BY <1>0, <1>5, <2>1, <2>6, <3>4, CountsMove
  <2>7. CASE /\ perSource' = [perSource EXCEPT ![SourceOf[i]] = @ + 1]
             /\ End(i, "emitted")
             /\ stats' = [stats EXCEPT !.fetched = @ + 1, !.extracted = @ + 1]
    <3>1. /\ stats'.fetched = stats.fetched + 1 /\ stats'.extracted = stats.extracted + 1
          /\ \A c \in Counters \ {"fetched", "extracted"} : stats'[c] = stats[c]
      BY <1>0, <2>7 DEF CrawlTypeOK, Counters
    <3>2. \A s \in Sources : perSource'[s] = perSource[s]
             + One(i \in Of(s) /\ "emitted" = "emitted")
             + One(i \in Of(s) /\ "emitted" = "broken")
      BY <2>1, <2>4, <2>7 DEF One
    <3>3. Counted(i, "emitted")
      BY <1>0, <1>5, <2>1, <2>7, <3>1, <3>2 DEF Counted, Counters, One
    <3> QED BY <1>0, <1>5, <2>1, <2>7, <3>3, CountsMove
  <2> QED BY <1>5, <2>2, <2>3, <2>5, <2>6, <2>7
          DEF EndFetch, Finish, BuildRaises, Emit, EndEmit
<1>6. ASSUME NEW s \in Sources, Discover(s)
      PROVE  Counts'
  <2>1. /\ \A i \in Items : \/ stage'[i] = stage[i]
                            \/ stage[i] = "absent" /\ stage'[i] = "created"
        /\ \A c \in Counters \ {"discovered"} : stats'[c] = stats[c]
    BY <1>0, <1>6, DiscoverCreates
  <2>2. perSource' = perSource
    BY <1>6 DEF Discover
  <2> QED BY <1>0, <2>1, <2>2, CountsSame
<1>7. CASE UNCHANGED <<stage, stats, perSource>>
  BY <1>0, <1>7, CountsSame
<1>8. CASE Exit
  <2>1. \A i \in Items : \/ stage'[i] = stage[i]
                         \/ stage[i] \in Busy /\ stage'[i] = "cancelled"
    BY <1>0, <1>8 DEF Exit, CrawlTypeOK
  <2>2. UNCHANGED <<stats, perSource>>
    BY <1>8 DEF Exit
  <2>3. \A i \in Items : \A how \in {"failed", "refused", "duplicate", "emitted", "broken"} :
           stage'[i] = how <=> stage[i] = how
    BY <2>1 DEF Busy
  <2> QED BY <1>0, <2>2, <2>3, CountsSame
<1> QED BY <1>2, <1>3, <1>4, <1>5, <1>6, <1>7, <1>8, Steps
        DEF ItemStep, LeaveGather, CloseSource, Configure, Return, crawlVars

-----------------------------------------------------------------------------
(* Sinks *)

LEMMA SinksTrueKept == ASSUME PipelineInv, [Next]_vars PROVE SinksTrue'
<1>0. CrawlTypeOK /\ SinksTrue
  BY DEF PipelineInv
<1>1. ASSUME UNCHANGED written,
             \A i \in Items : stage'[i] = "emitted" <=> stage[i] = "emitted"
      PROVE  SinksTrue'
  <2>1. Ending("emitted")' = Ending("emitted")
    BY <1>1 DEF Ending
  <2> QED BY <1>0, <1>1, <2>1 DEF SinksTrue
<1>2. ASSUME NEW i \in Items, NEW h, h # "emitted", stage[i] \in Busy, End(i, h),
             UNCHANGED written
      PROVE  SinksTrue'
  <2>1. \A j \in Items : stage'[j] = "emitted" <=> stage[j] = "emitted"
    BY <1>0, <1>2 DEF End, CrawlTypeOK, Busy
  <2> QED BY <1>1, <1>2, <2>1
<1>3. ASSUME NEW i \in Items, stage[i] \in Busy, Emit(i)
      PROVE  SinksTrue'
  <2>1. PICK bad \in SUBSET Frail :
           /\ written' = [k \in Sinks |->
                             IF k \in Reached(bad) THEN written[k] \union {i} ELSE written[k]]
           /\ End(i, "emitted")
    BY <1>3 DEF Emit, EndEmit
  <2>2. Ending("emitted")' = Ending("emitted") \union {i}
    BY <1>0, <2>1 DEF End, CrawlTypeOK, Ending
  <2>3. \A k \in Sinks \ Frail : k \in Reached(bad)
    BY <2>1, PipelineAssumption DEF Reached
  <2> QED BY <1>0, <2>1, <2>2, <2>3 DEF SinksTrue
<1>4. ASSUME NEW i \in Items, ItemStep(i), ~LimiterStep(i)
      PROVE  SinksTrue'
  <2>1. stage[i] \in Busy
    BY <1>0, <1>4, ItemMoves
  <2>2. CASE Begin(i)
    BY <1>2, <2>1, <2>2 DEF Begin, End
  <2>3. CASE PassGate(i) \/ Admit(i)
    BY <1>2, <2>1, <2>3 DEF PassGate, Admit, TakePermit, End
  <2>4. CASE StartFetch(i)
    BY <1>2, <2>1, <2>4 DEF StartFetch, End
  <2>5. CASE EndFetch(i)
    <3>1. Emit(i) \/ (UNCHANGED written /\ \E h \in Ended \ {"emitted"} : End(i, h))
      BY <2>5 DEF EndFetch, Finish, BuildRaises, Ended
    <3> QED BY <1>2, <1>3, <2>1, <3>1
  <2> QED BY <1>4, <2>2, <2>3, <2>4, <2>5 DEF ItemStep
<1>5. ASSUME NEW s \in Sources, Discover(s)
      PROVE  SinksTrue'
  <2>1. \A i \in Items : \/ stage'[i] = stage[i]
                         \/ stage[i] = "absent" /\ stage'[i] = "created"
    BY <1>0, <1>5, DiscoverCreates DEF PipelineInv
  <2>2. written' = written
    BY <1>5 DEF Discover
  <2> QED BY <1>1, <2>1, <2>2
<1>6. CASE UNCHANGED <<stage, written>>
  BY <1>1, <1>6
<1>7. CASE Exit
  <2>1. \A i \in Items : \/ stage'[i] = stage[i]
                         \/ stage[i] \in Busy /\ stage'[i] = "cancelled"
    BY <1>0, <1>7 DEF Exit, CrawlTypeOK
  <2>2. written' = written
    BY <1>7 DEF Exit
  <2> QED BY <1>1, <2>1, <2>2 DEF Busy
<1> QED BY <1>4, <1>5, <1>6, <1>7, Steps
        DEF LeaveGather, CloseSource, Configure, Return, crawlVars

-----------------------------------------------------------------------------
(* What every behaviour of the crawl keeps *)

LEMMA InvHolds == Spec => []PipelineInv
<1>1. PipelineInv /\ [Next]_vars => PipelineInv'
  BY TypesKept, StartedKept, ReturnedDoneKept, OneBucketKept, CallsKnownKept, SemaphoreKept,
     ClaimsKept, FailureConfinedKept, CountsKept, SinksTrueKept DEF PipelineInv
<1> QED BY InitInv, <1>1, PTL DEF Spec

\* The crawl's limiter is a RateLimiter.
LEMMA LimiterSpec == Spec => LP!Spec
<1>1. Init => LP!Init
  BY SameInit DEF Init
<1>2. PipelineInv => CrawlTypeOK
  BY DEF PipelineInv
<1> QED BY <1>1, <1>2, InvHolds, LimiterSteps, PTL DEF Spec, LP!Spec

LEMMA LimiterTypes == Spec => []Limiter!TypeOK
<1>1. LP!Spec => []LP!TypeOK
  BY LimiterConstants, LP!TypeCorrect
<1> QED BY <1>1, SameTypeOK, LimiterSpec, PTL

\* Politeness of every crawl, for any rates, order of overrides, failures and early timers:
\* a host keeps one bucket, and its requests the rate set for it over every window.
THEOREM CrawlIsPolite == Spec => []Politeness
<1>1. ASSUME LP!IInv, OneBucket
      PROVE  Politeness
  <2> SUFFICES ASSUME NEW d \in Hosts
               PROVE  LET b == <<d, serial[d]>> IN
                      /\ \A k \in 0 .. MaxOverrides : grants[<<d, k>>] # <<>> => k = serial[d]
                      /\ overrides[d] > 0 =>
                             \A m \in 1 .. Len(grants[b]) : \A n \in 1 .. m :
                                 (m - n + 1) * (Token - EarlyCredit)
                                     <= Token + overrides[d] * (grants[b][m] - grants[b][n])
    BY DEF Politeness
  <2> DEFINE b == <<d, serial[d]>>
  <2>1. LP!TypeOK /\ LP!Lineage /\ LP!CurrentRate /\ LP!Paid
    BY <1>1 DEF LP!IInv
  <2>2. \A k \in 0 .. MaxOverrides : <<d, k>> \in LP!Buckets
    BY DEF LP!Buckets
  <2>3. \A k \in 0 .. MaxOverrides : grants[<<d, k>>] # <<>> => k = serial[d]
    BY <1>1, <2>1, <2>2 DEF LP!Lineage, OneBucket
  <2>4. b \in LP!Buckets
    BY <2>1, <2>2 DEF LP!TypeOK
  <2>5. CASE b \notin made
    <3>1. grants[b] = <<>>
      BY <2>1, <2>4, <2>5 DEF LP!Lineage
    <3>2. 1 .. Len(grants[b]) = {}
      BY <3>1
    <3> QED BY <2>3, <3>2
  <2>6. CASE b \in made
    <3>1. bucket[b].rps = overrides[d]
      BY <2>1, <2>6 DEF LP!CurrentRate
    <3>2. LP!Window(bucket[b], grants[b])
      BY <2>1, <2>4 DEF LP!Paid
    <3>3. LP!Full = Token
      BY PipelineAssumption DEF LP!Full
    <3> QED BY <2>3, <3>1, <3>2, <3>3 DEF LP!Window
  <2> QED BY <2>5, <2>6
<1>2. LP!Spec => []LP!IInv
  BY LimiterConstants, LP!Invariance
<1>3. PipelineInv => OneBucket
  BY DEF PipelineInv
<1> QED BY <1>1, <1>2, <1>3, InvHolds, LimiterSpec, PTL

\* No permit is lost or made, and the waiters are those of the queue, for any number of
\* items and any concurrency.
THEOREM PermitsKept == Spec => []PermitsConserved
<1>1. Semaphore => PermitsConserved
  <2>1. In(Items, {"permitted", "fetching"})
            = {i \in Items : stage[i] \in {"permitted", "fetching"}}
    BY DEF In
  <2> QED BY <2>1 DEF Semaphore, PermitsConserved, N, Entries
<1>2. PipelineInv => Semaphore
  BY DEF PipelineInv
<1> QED BY InvHolds, <1>1, <1>2, PTL

\* The state of a crawl keeps its types, the semaphore's value between zero and its bound.
THEOREM TypeCorrect == Spec => []TypeOK
<1>1. PipelineInv => permits \in 0 .. MaxConcurrency
  <2> SUFFICES ASSUME PipelineInv PROVE permits \in 0 .. MaxConcurrency
    OBVIOUS
  <2>1. permits \in Nat /\ permits + N(Items, {"permitted", "fetching"}) = MaxConcurrency
    BY DEF PipelineInv, CrawlTypeOK, Semaphore
  <2>2. N(Items, {"permitted", "fetching"}) \in Nat /\ MaxConcurrency \in Nat
    BY CountFinite, PipelineAssumption
  <2> QED BY <2>1, <2>2
<1>2. PipelineInv /\ Limiter!TypeOK => TypeOK
  BY <1>1 DEF PipelineInv, CrawlTypeOK, SourceStates, CallType, TypeOK
<1> QED BY InvHolds, LimiterTypes, <1>2, PTL

\* Only an ill-formed item or one of a browser raises, only a source with a malformed URL or
\* a close() that raises fails, and while none fails a source none of whose items raised
\* ends with all of them ended and no client held, for any sources, items and sinks.
THEOREM FailuresStay == Spec => []FailureConfined
<1>1. PipelineInv => FailureConfined
  BY DEF PipelineInv
<1> QED BY InvHolds, <1>1, PTL

\* The summary of a run tells what happened to the items, and what it counts as emitted is
\* in every sink that works, for any sources, items and sinks.
THEOREM StatsAreTrue == Spec => []StatsTellTheTruth
<1>1. ASSUME Counts, SinksTrue
      PROVE  StatsTellTheTruth
  <2>1. \A how : Ending(how) = In(Items, {how})
    BY DEF Ending, In
  <2>2. {i \in Ending("broken") : SourceOf[i] \notin BadStrategy} = In(Plain, {"broken"})
    BY DEF In, Plain, Ending
  <2>3. {i \in Ending("broken") : SourceOf[i] \in BadStrategy} = In(Strange, {"broken"})
    BY DEF In, Strange, Ending
  <2>4. ASSUME NEW s \in Sources
        PROVE  perSource[s]
                 = Cardinality({i \in Gathered(s) : stage[i] \in {"emitted", "broken"}})
    <3> DEFINE A == In(Of(s), {"emitted"})
               B == In(Of(s), {"broken"})
    <3>1. {i \in Gathered(s) : stage[i] \in {"emitted", "broken"}} = A \union B
      BY DEF In, Of, Gathered
    <3>2. A \intersect B = {}
      BY DEF In
    <3>3. IsFiniteSet(A) /\ IsFiniteSet(B) /\ Cardinality(A) \in Nat /\ Cardinality(B) \in Nat
      BY CountFinite DEF Of, N
    <3> HIDE DEF A, B
    <3>4. Cardinality(A \union B) = Cardinality(A) + Cardinality(B)
      <4>1. Cardinality(A \union B) = Cardinality(A) + Cardinality(B) - Cardinality({})
        BY <3>2, <3>3, FS_Union
      <4> QED BY <3>3, <4>1, FS_EmptySet
    <3>5. perSource[s] = Cardinality(A) + Cardinality(B)
      BY <1>1, <2>4 DEF Counts, N, A, B
    <3> QED BY <3>1, <3>4, <3>5
  <2> QED BY <1>1, <2>1, <2>2, <2>3, <2>4 DEF Counts, SinksTrue, StatsTellTheTruth, N
<1>2. PipelineInv => Counts /\ SinksTrue
  BY DEF PipelineInv
<1> QED BY InvHolds, <1>1, <1>2, PTL

-----------------------------------------------------------------------------
(* The crawl implements CrawlOnce *)

\* A step of the crawl claims, requests or records one page that was not, or none.
LEMMA OnceSteps == ASSUME PipelineInv, [Next]_vars PROVE [Once!Next]_(Once!vars)
<1>0. /\ CrawlTypeOK /\ Claims
      /\ \A i \in Items : PageOf[i] \in Pages
  BY PipelineAssumption DEF PipelineInv
<1> SUFFICES Once!Next \/ UNCHANGED <<seen, requested, recorded>>
  BY DEF Once!vars
<1>1. ASSUME NEW i \in Items, Begin(i)
      PROVE  Once!Next \/ UNCHANGED <<seen, requested, recorded>>
  <2>1. CASE PageOf[i] \notin seen /\ Claim(i) /\ UNCHANGED <<requested, recorded>>
    <3>1. Once!Claim(PageOf[i])
      BY <2>1 DEF Once!Claim, Claim
    <3> QED BY <1>0, <1>1, <3>1 DEF Once!Next
  <2> QED BY <1>1, <2>1 DEF Begin
<1>2. ASSUME NEW i \in Items, StartFetch(i)
      PROVE  Once!Next
  <2>1. PageOf[i] \in seen /\ PageOf[i] \notin requested
    BY <1>0, <1>2 DEF StartFetch, Claims, Past
  <2>2. Once!Request(PageOf[i])
    BY <1>2, <2>1 DEF StartFetch, Once!Request
  <2> QED BY <1>0, <1>2, <2>2 DEF Once!Next
<1>3. ASSUME NEW i \in Items, EndFetch(i)
      PROVE  Once!Next \/ UNCHANGED <<seen, requested, recorded>>
  <2>1. PageOf[i] \in requested /\ PageOf[i] \notin recorded /\ UNCHANGED <<seen, requested>>
    BY <1>0, <1>3 DEF EndFetch, Claims
  <2>2. CASE recorded' = recorded \union {PageOf[i]}
    <3>1. Once!Record(PageOf[i])
      BY <2>1, <2>2 DEF Once!Record
    <3> QED BY <1>0, <1>3, <3>1 DEF Once!Next
  <2> QED BY <1>3, <2>1, <2>2 DEF EndFetch, Finish, BuildRaises, Emit
<1>4. ASSUME NEW i \in Items, PassGate(i) \/ Admit(i)
      PROVE  UNCHANGED <<seen, requested, recorded>>
  BY <1>4 DEF PassGate, Admit
<1>5. ASSUME NEW s \in Sources, Discover(s) \/ LeaveGather(s) \/ CloseSource(s)
      PROVE  UNCHANGED <<seen, requested, recorded>>
  BY <1>5 DEF Discover, LeaveGather, CloseSource
<1>6. CASE Configure \/ Return \/ Exit \/ UNCHANGED crawlVars
  BY <1>6 DEF Configure, Return, Exit, crawlVars
<1> QED BY <1>1, <1>2, <1>3, <1>4, <1>5, <1>6, Steps DEF ItemStep

\* Over all sources, duplicates, failures and interleavings, a page is claimed, requested
\* and recorded at most once, in this order: the crawl implements CrawlOnce.
THEOREM EveryPageOnce == Spec => PagesCrawledOnce
<1>1. Init => Once!Init
  BY DEF Init, Once!Init
<1>2. PipelineInv /\ [Next]_vars => [Once!Next]_(Once!vars)
  BY OnceSteps
<1> QED BY <1>1, <1>2, InvHolds, PTL DEF Spec, Once!Spec, PagesCrawledOnce
=============================================================================
