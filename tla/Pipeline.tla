------------------------------ MODULE Pipeline ------------------------------
(***************************************************************************)
(* The crawl of src/core/pipeline.py: one task per source, one task per    *)
(* discovered URL (an item), the robots gate, the global semaphore, the    *)
(* per-domain limiter (RateLimiter, instantiated), the fetch and the emit; *)
(* and around it the end of a run in src/cli.py.                           *)
(*                                                                         *)
(* A step is the code between two awaits that may suspend.  The sinks of   *)
(* the repository write synchronously, so dedupe and emit run through      *)
(* while they hold _write_lock, and the lock is never seen taken.  The     *)
(* first step of every source task makes its set_domain_rps calls; gather  *)
(* queues all these steps before any item exists, so they come first, in   *)
(* the order of the sources: prelude holds the calls still to be made.     *)
(*                                                                         *)
(* What may raise, and where, is given by the sets BadPort to Frail: what  *)
(* is in none of them does what its signature says.                        *)
(***************************************************************************)
EXTENDS Integers, Sequences, FiniteSets

CONSTANTS
    Items,          \* discovered URLs, one per occurrence
    Sources,
    Hosts,
    Pages,          \* canonical URLs
    Sinks,
    ItemsOf,        \* per source: the URLs discover() returns
    PageOf,         \* per item: canonicalize(url)
    HostOf,         \* per item: its domain
    Unfetchable,    \* items is_fetchable rejects
    Outputs,        \* the sinks, in the order of Pipeline.outputs
    BadPort,        \* items whose port makes canonicalize raise
    BadHost,        \* items whose user or host, unquoted, makes can_fetch raise
    BadStrategy,    \* sources whose extraction strategy is unknown
    ListText,       \* items for whose text a selector gives a list
    Feeds,          \* sources whose discover() fetches, with their client
    Browsers,       \* sources whose fetch raises when context.close() does
    BadClose,       \* sources whose close() may raise
    Frail,          \* sinks whose write and close may raise
    Preludes,       \* the calls of set_domain_rps a crawl may begin with
    NoHost,         \* in such a call: the URL cannot be parsed
    MaxItems,       \* SourceConfig.max_items
    MaxConcurrency, \* Settings.max_concurrency
    Rates,          \* the rps values in use, in credits per tick
    DefaultRate,    \* Settings.default_rps
    Token,          \* credits of one token
    EarlyCredit,    \* most credits missing when the loop fires a timer early
    MaxOverrides    \* bound: calls of set_domain_rps in a crawl

ASSUME PipelineAssumption ==
    /\ ItemsOf \in [Sources -> Seq(Items)]
    /\ PageOf \in [Items -> Pages] /\ HostOf \in [Items -> Hosts]
    /\ Unfetchable \subseteq Items /\ BadPort \subseteq Items
    /\ BadStrategy \subseteq Sources /\ ListText \subseteq Items
    /\ BadHost \subseteq Items /\ Feeds \subseteq Sources
    /\ Browsers \subseteq Sources /\ BadClose \subseteq Sources
    /\ Outputs \in Seq(Sinks) /\ Frail \subseteq Sinks
    /\ \A k \in Sinks : \E n \in 1 .. Len(Outputs) : Outputs[n] = k
    /\ MaxItems \in Nat /\ MaxConcurrency \in Nat \ {0}
    /\ \A s, t \in Sources : \A j \in 1 .. Len(ItemsOf[s]), k \in 1 .. Len(ItemsOf[t]) :
           ItemsOf[s][j] = ItemsOf[t][k] => s = t /\ j = k
    /\ IsFiniteSet(Items) /\ Hosts # {}
    /\ Rates \subseteq Nat /\ DefaultRate \in Rates
    /\ Token \in Nat \ {0} /\ EarlyCredit \in 0 .. Token - 1 /\ MaxOverrides \in Nat
    /\ NoHost \notin Hosts
    /\ \A p \in Preludes :
        /\ p \in Seq([source : Sources, domain : Hosts \union {NoHost}, rate : Rates])
        /\ Len(p) <= MaxOverrides
        \* a URL that cannot be parsed ends the calls of its source
        /\ \A j \in 1 .. Len(p) : \A k \in 1 .. j - 1 :
               p[k].source = p[j].source => p[k].domain # NoHost

VARIABLES
    run,        \* running, returned (outputs closed), exited (loop closed)
    prelude,    \* the calls of set_domain_rps still to be made
    source,     \* per source task: discovering, gathering, closing, done; or
                \*   failed (it raised), cancelled (at the end of the run)
    stage,      \* per item task: where it is, or how it ended
    seen,       \* _seen
    permits,    \* _semaphore: its value
    semQueue,   \* _semaphore: its waiters, in order
    client,     \* per source: whether it holds an open HTTP client or browser
    requested,  \* history: pages a request was sent for
    written,    \* per sink: the items it has a record of
    recorded,   \* history: pages handed to _emit
    open,       \* the sinks that are open
    stats,      \* CrawlStats
    perSource   \* CrawlStats.per_source

crawlVars == <<run, prelude, source, stage, seen, permits, semQueue, client, requested,
               written, recorded, open, stats, perSource>>

VARIABLES now, overrides, serial, made, bucket, lockQueue, lpc, at, nap, grants

limiterVars == <<now, overrides, serial, made, bucket, lockQueue, lpc, at, nap, grants>>
vars == <<crawlVars, limiterVars>>

Limiter == INSTANCE RateLimiter WITH
    Callers <- Items, Domains <- Hosts, Burst <- 1, IdleHorizon <- 0,
    queue <- lockQueue, pc <- lpc

Busy == {"created", "gating", "waiting", "permitted", "fetching"}
Ended == {"unfetchable", "duplicate", "refused", "skipped", "failed", "emitted",
          "raised", "broken", "cancelled"}
Counters == {"discovered", "fetched", "failed", "skipped_robots", "skipped_duplicate",
             "extracted"}

SourceOf ==
    [i \in Items |-> CHOOSE s \in Sources : \E k \in 1 .. Len(ItemsOf[s]) : ItemsOf[s][k] = i]
Gathered(s) == {i \in Items : SourceOf[i] = s /\ stage[i] # "absent"}

TypeOK ==
    /\ run \in {"running", "returned", "exited"}
    /\ prelude \in Seq([source : Sources, domain : Hosts \union {NoHost}, rate : Rates])
    /\ source \in [Sources -> {"discovering", "gathering", "closing", "done",
                               "failed", "cancelled"}]
    /\ stage \in [Items -> {"absent"} \union Busy \union Ended]
    /\ seen \subseteq Pages /\ requested \subseteq Pages /\ recorded \subseteq Pages
    /\ permits \in 0 .. MaxConcurrency
    /\ semQueue \in Seq(Items)
    /\ client \in [Sources -> BOOLEAN]
    /\ written \in [Sinks -> SUBSET Items]
    /\ open \subseteq Sinks
    /\ stats \in [Counters -> Nat]
    /\ perSource \in [Sources -> Nat]
    /\ Limiter!TypeOK

Init ==
    /\ run = "running"
    /\ prelude \in Preludes
    /\ source = [s \in Sources |-> "discovering"]
    /\ stage = [i \in Items |-> "absent"]
    /\ seen = {} /\ requested = {} /\ recorded = {}
    /\ permits = MaxConcurrency
    /\ semQueue = <<>>
    /\ client = [s \in Sources |-> FALSE]
    /\ written = [k \in Sinks |-> {}]
    /\ open = Sinks
    /\ stats = [c \in Counters |-> 0]
    /\ perSource = [s \in Sources |-> 0]
    /\ Limiter!Init

Count(counter, n) == stats' = [stats EXCEPT ![counter] = @ + n]
End(i, how) == stage' = [stage EXCEPT ![i] = how]

-----------------------------------------------------------------------------
(* _run_source *)

\* The next call of set_domain_rps, or domain_of raises before it: outside the try,
\* so the task itself fails.
Configure ==
    /\ prelude # <<>>
    /\ prelude' = Tail(prelude)
    /\ LET call == Head(prelude) IN
       \/ /\ call.domain # NoHost
          /\ Limiter!SetDomainRps(call.domain, call.rate)
          /\ UNCHANGED source
       \/ /\ call.domain = NoHost
          /\ source' = [source EXCEPT ![call.source] = "failed"]
          /\ UNCHANGED limiterVars
    /\ UNCHANGED <<run, stage, seen, permits, semQueue, client, requested, written, recorded,
                   open, stats, perSource>>

\* Mutant: the rps of a source is set after items have started.
ConfiguredLate == TRUE

Configured == prelude = <<>>

\* discover() returns: every URL, none of them (the feed failed), or an error.
Discover(s) ==
    /\ Configured
    /\ source[s] = "discovering"
    /\ \/ \E found \in {ItemsOf[s], <<>>} :
              LET kept == {found[k] : k \in 1 .. (IF Len(found) < MaxItems
                                                  THEN Len(found) ELSE MaxItems)} IN
              /\ source' = [source EXCEPT ![s] = "gathering"]
              /\ stage' = [i \in Items |-> IF i \in kept THEN "created" ELSE stage[i]]
              /\ Count("discovered", Len(found))
              /\ client' = [client EXCEPT ![s] = (s \in Feeds)]
       \/ /\ source' = [source EXCEPT ![s] = "closing"]
          /\ \E held \in {FALSE, (s \in Feeds)} : client' = [client EXCEPT ![s] = held]
          /\ UNCHANGED <<stage, stats>>
    /\ UNCHANGED <<run, prelude, seen, permits, semQueue, requested, written, recorded,
                   open, perSource, limiterVars>>

Raised(i) == stage[i] \in {"raised", "broken"}

\* gather returns when all its items have, and raises with the first that raises.
GatherOver(s) ==
    \/ \A i \in Gathered(s) : stage[i] \in Ended
    \/ \E i \in Gathered(s) : Raised(i)

LeaveGather(s) ==
    /\ source[s] = "gathering"
    /\ GatherOver(s)
    /\ source' = [source EXCEPT ![s] = "closing"]
    /\ UNCHANGED <<run, prelude, stage, seen, permits, semQueue, client, requested, written,
                   recorded, open, stats, perSource, limiterVars>>

\* finally: source.close(), which raises out of the task when a browser does not close.
CloseSource(s) ==
    /\ source[s] = "closing"
    /\ \/ /\ source' = [source EXCEPT ![s] = "done"]
          /\ client' = [client EXCEPT ![s] = FALSE]
       \/ /\ s \in BadClose /\ client[s]
          /\ source' = [source EXCEPT ![s] = "failed"]
          /\ UNCHANGED client
    /\ UNCHANGED <<run, prelude, stage, seen, permits, semQueue, requested, written, recorded,
                   open, stats, perSource, limiterVars>>

-----------------------------------------------------------------------------
(* _process *)

\* Mutant: the page is not put into _seen.
ClaimNothing(i) == UNCHANGED seen

Claim(i) == seen' = seen \union {PageOf[i]}

\* The head of _process, up to the robots check.
Begin(i) ==
    /\ stage[i] = "created"
    /\ \/ /\ i \in Unfetchable
          /\ End(i, "unfetchable") /\ UNCHANGED <<seen, stats>>
       \/ /\ i \in BadPort \ Unfetchable
          /\ End(i, "raised") /\ UNCHANGED <<seen, stats>>
       \/ /\ i \notin Unfetchable \union BadPort /\ PageOf[i] \in seen
          /\ End(i, "duplicate") /\ Count("skipped_duplicate", 1) /\ UNCHANGED seen
       \/ /\ i \notin Unfetchable \union BadPort /\ PageOf[i] \notin seen
          /\ Claim(i) /\ End(i, "gating") /\ UNCHANGED stats
    /\ UNCHANGED <<run, prelude, source, permits, semQueue, client, requested, written, recorded,
                   open, perSource, limiterVars>>

\* Inside the semaphore, on to the limiter.
TakePermit(i) ==
    /\ permits' = permits - 1
    /\ stage' = [stage EXCEPT ![i] = "permitted"]
    /\ Limiter!Acquire(i, HostOf[i])

\* robots.can_fetch answers (RobotsTxtChecker says how), or is not asked.
PassGate(i) ==
    /\ stage[i] = "gating"
    /\ \/ /\ i \in BadHost
          /\ End(i, "raised")
          /\ UNCHANGED <<permits, semQueue, stats, limiterVars>>
       \/ /\ End(i, "refused") /\ Count("skipped_robots", 1)
          /\ UNCHANGED <<permits, semQueue, limiterVars>>
       \/ /\ permits > 0 /\ semQueue = <<>>
          /\ TakePermit(i)
          /\ UNCHANGED <<semQueue, stats>>
       \/ /\ ~(permits > 0 /\ semQueue = <<>>)
          /\ stage' = [stage EXCEPT ![i] = "waiting"]
          /\ semQueue' = Append(semQueue, i)
          /\ UNCHANGED <<permits, stats, limiterVars>>
    /\ UNCHANGED <<run, prelude, source, seen, client, requested, written, recorded, open, perSource>>

\* A permit is free for the first waiter.
Admit(i) ==
    /\ stage[i] = "waiting" /\ permits > 0
    /\ Head(semQueue) = i
    /\ semQueue' = Tail(semQueue)
    /\ TakePermit(i)
    /\ UNCHANGED <<run, prelude, source, seen, client, requested, written, recorded, open, stats,
                   perSource>>

\* The limiter's own steps, for an item waiting in acquire.
LimiterStep(i) ==
    /\ stage[i] = "permitted"
    /\ Limiter!Resume(i) \/ Limiter!Wake(i)
    /\ UNCHANGED crawlVars

\* source.fetch up to the request; a client or browser is made if there is none.
StartFetch(i) ==
    /\ stage[i] = "permitted" /\ lpc[i] = "served"
    /\ stage' = [stage EXCEPT ![i] = "fetching"]
    /\ client' = [client EXCEPT ![SourceOf[i]] = TRUE]
    /\ requested' = requested \union {PageOf[i]}
    /\ UNCHANGED <<run, prelude, source, seen, permits, semQueue, written, recorded, open, stats,
                   perSource, limiterVars>>

\* Mutant: the permit is given back twice, by the fetch and by the semaphore's exit.
ReleaseTwice(failed) == permits' = permits + 2

\* Mutant: the permit is not given back when a fetch fails.
LeakOnFailure(failed) == permits' = IF failed THEN permits ELSE permits + 1

Release(failed) == permits' = permits + 1

\* Mutant: a failing sink is not caught, and the item raises.
SinkErrorRaises(i, bad) == End(i, IF bad = {} THEN "emitted" ELSE "broken")

\* _emit swallows the error of a sink.
EndEmit(i, bad) == End(i, "emitted")

\* Mutant: the error of a sink ends the loop over the outputs.
UpToError(bad) ==
    {Outputs[n] : n \in {m \in 1 .. Len(Outputs) : \A l \in 1 .. m : Outputs[l] \notin bad}}

\* The sinks that get a record, when those in bad fail: the loop goes on after an error.
Reached(bad) == {Outputs[n] : n \in 1 .. Len(Outputs)} \ bad

\* _build_record raises: no extractor is built, or the extraction has been counted and
\* refang is given a list.
BuildRaises(i) ==
    /\ \/ SourceOf[i] \in BadStrategy /\ Count("fetched", 1)
       \/ /\ i \in ListText /\ SourceOf[i] \notin BadStrategy
          /\ stats' = [stats EXCEPT !.fetched = @ + 1, !.extracted = @ + 1]
    /\ End(i, "broken")
    /\ UNCHANGED <<written, recorded, open>>

\* The record goes to every sink but those whose write fails; a write opens a sink
\* that was closed.
Emit(i) ==
    /\ i \notin ListText /\ SourceOf[i] \notin BadStrategy
    /\ \E bad \in SUBSET Frail :
          /\ stats' = [stats EXCEPT !.fetched = @ + 1, !.extracted = @ + 1]
          /\ written' = [k \in Sinks |->
                            IF k \in Reached(bad) THEN written[k] \union {i} ELSE written[k]]
          /\ recorded' = recorded \union {PageOf[i]}
          /\ open' = open \union Reached(bad)
          /\ EndEmit(i, bad)

\* The fetch returned a document.
Finish(i) ==
    /\ perSource' = [perSource EXCEPT ![SourceOf[i]] = @ + 1]
    /\ BuildRaises(i) \/ Emit(i)

\* source.fetch returns, or raises (a browser's context does not close), and the
\* semaphore is released.
EndFetch(i) ==
    /\ stage[i] = "fetching"
    /\ \/ Finish(i) /\ Release(FALSE)
       \/ /\ End(i, "failed") /\ Count("failed", 1) /\ Release(TRUE)
          /\ UNCHANGED <<written, recorded, open, perSource>>
       \/ /\ End(i, "skipped") /\ Release(FALSE)
          /\ UNCHANGED <<written, recorded, open, stats, perSource>>
       \/ /\ SourceOf[i] \in Browsers
          /\ End(i, "raised") /\ Release(TRUE)
          /\ UNCHANGED <<written, recorded, open, stats, perSource>>
    /\ UNCHANGED <<run, prelude, source, seen, semQueue, client, requested, limiterVars>>

-----------------------------------------------------------------------------
(* The end of a run *)

\* gather over the sources is over, with the last of them or the first that raised;
\* _run closes the outputs in turn in its finally, up to one whose close raises.
Return ==
    /\ run = "running" /\ Configured
    /\ \/ \A s \in Sources : source[s] = "done"
       \/ \E s \in Sources : source[s] = "failed"
    /\ run' = "returned"
    /\ \/ open' = {}
       \/ \E n \in 1 .. Len(Outputs) :
              /\ Outputs[n] \in Frail
              /\ open' = open \intersect {Outputs[m] : m \in n .. Len(Outputs)}
    /\ UNCHANGED <<prelude, source, stage, seen, permits, semQueue, client, requested,
                   written, recorded, stats, perSource, limiterVars>>

Ran(s) == source[s] \in {"done", "failed"}

\* asyncio.run cancels what is still running, which unwinds the semaphore and the
\* finally of every source, and closes the loop.  A close() that raises, or that is
\* itself cancelled, may leave its client open.
Exit ==
    /\ run = "returned"
    /\ run' = "exited"
    /\ stage' = [i \in Items |-> IF stage[i] \in Busy THEN "cancelled" ELSE stage[i]]
    /\ source' = [s \in Sources |-> IF Ran(s) THEN source[s] ELSE "cancelled"]
    /\ \E left \in SUBSET {s \in Sources : s \in BadClose \/ source[s] = "closing"} :
           client' = [s \in Sources |-> client[s] /\ (Ran(s) \/ s \in left)]
    /\ permits' = MaxConcurrency
    /\ semQueue' = <<>>
    /\ UNCHANGED <<prelude, seen, requested, written, recorded, open, stats, perSource,
                   limiterVars>>

ItemStep(i) ==
    \/ Begin(i)
    \/ PassGate(i)
    \/ Admit(i)
    \/ LimiterStep(i)
    \/ StartFetch(i)
    \/ EndFetch(i)

SourceStep(s) == Discover(s) \/ LeaveGather(s) \/ CloseSource(s)

Tick == Limiter!Tick /\ UNCHANGED crawlVars

Next ==
    \/ /\ run # "exited"
       /\ \/ \E i \in Items : ItemStep(i)
          \/ \E s \in Sources : SourceStep(s)
          \/ Configure
          \/ Tick
    \/ Return
    \/ Exit

Spec == Init /\ [][Next]_vars

\* The loop runs every ready task; every await of the network ends (all clients
\* have timeouts); the clock does not stop.
Fairness ==
    /\ \A i \in Items : WF_vars(run # "exited" /\ ItemStep(i))
    /\ \A s \in Sources : WF_vars(run # "exited" /\ SourceStep(s))
    /\ WF_vars(run # "exited" /\ Configure)
    /\ WF_vars(run # "exited" /\ Tick) /\ WF_vars(Return) /\ WF_vars(Exit)

FairSpec == Spec /\ Fairness

-----------------------------------------------------------------------------
(* Properties *)

\* Every page is claimed, requested and recorded at most once, in this order, over
\* all sources, even when items raise and their siblings run on.
Once == INSTANCE CrawlOnce WITH claimed <- seen
PagesCrawledOnce == Once!Spec

\* No permit of the semaphore is lost or made, however the fetches end: what is
\* missing is in the hands of an item between its permit and the end of its fetch,
\* and the items waiting for one are exactly those in the semaphore's queue.
PermitsConserved ==
    /\ permits + Cardinality({i \in Items : stage[i] \in {"permitted", "fetching"}})
           = MaxConcurrency
    /\ {semQueue[k] : k \in 1 .. Len(semQueue)} = {i \in Items : stage[i] = "waiting"}

IllFormed(i) ==
    i \in BadPort \union BadHost \union ListText \/ SourceOf[i] \in BadStrategy

\* A URL of the source cannot be parsed, and the source sets an rps.
Misconfigured(s) ==
    \E p \in Preludes : \E k \in 1 .. Len(p) : p[k].source = s /\ p[k].domain = NoHost

\* Failures stay where they arise.  An item raises only because its host, port, text or
\* strategy is bad or a browser's context did not close, whatever other items, sinks and
\* sites do; a source fails only by a URL that cannot be parsed or a close() that raises;
\* and while no source fails, a source none of whose items raised is closed only after
\* every one of them has come to a regular end, and then holds no client.
FailureConfined ==
    /\ \A i \in Items : Raised(i) => IllFormed(i) \/ SourceOf[i] \in Browsers
    /\ \A s \in Sources : source[s] = "failed" => Misconfigured(s) \/ s \in BadClose
    /\ \A s \in Sources :
        (\A t \in Sources : source[t] # "failed") /\ (\A i \in Gathered(s) : ~Raised(i)) =>
            /\ \A i \in Gathered(s) : stage[i] # "cancelled"
            /\ source[s] \in {"closing", "done"} => \A i \in Gathered(s) : stage[i] \in Ended
            /\ source[s] = "done" => ~client[s]

Ending(how) == {i \in Items : stage[i] = how}

\* The summary tells what happened: every counter is the number of items that came
\* to that end, fetched is the sum of per_source, the documents fetched but not extracted
\* are those of an unknown strategy, and those extracted but handed to no sink are
\* those whose text is a list.  And what it counts as emitted is in the sinks: one that
\* works has a record of exactly these items, whatever the sinks before it did.
StatsTellTheTruth ==
    /\ stats.failed = Cardinality(Ending("failed"))
    /\ stats.skipped_robots = Cardinality(Ending("refused"))
    /\ stats.skipped_duplicate = Cardinality(Ending("duplicate"))
    /\ stats.extracted = Cardinality(Ending("emitted"))
           + Cardinality({i \in Ending("broken") : SourceOf[i] \notin BadStrategy})
    /\ stats.fetched = stats.extracted
           + Cardinality({i \in Ending("broken") : SourceOf[i] \in BadStrategy})
    /\ \A s \in Sources :
           perSource[s] = Cardinality({i \in Gathered(s) : stage[i] \in {"emitted", "broken"}})
    /\ \A k \in Sinks \ Frail : written[k] = Ending("emitted")

\* "politeness is enforced per-domain by the rate limiter" (src/core/pipeline.py:54-55):
\* a crawl never uses two buckets of one host, and over every window the tokens given
\* for the host cost no more than the one it starts with and what the rate its sources
\* set last, or the default, earned.  Rate 0 never limits, as in RateLimiter.
Politeness ==
    \A d \in Hosts : LET b == <<d, serial[d]>> IN
        /\ \A k \in 0 .. MaxOverrides : grants[<<d, k>>] # <<>> => k = serial[d]
        /\ overrides[d] > 0 =>
               \A m \in 1 .. Len(grants[b]) : \A n \in 1 .. m :
                   (m - n + 1) * (Token - EarlyCredit)
                       <= Token + overrides[d] * (grants[b][m] - grants[b][n])

\* A run ends, and with it every item it started.
RunEnds == <>[](run = "exited" /\ \A i \in Items : stage[i] \notin Busy)

\* "politeness is enforced per-domain by the rate limiter, so a burst of URLs from
\* one host serializes without stalling other hosts" (src/core/pipeline.py:54-56):
\* no item waits for the semaphore while its own host has no request pending and
\* every permit is held by items waiting their turn at other hosts.
NoCrossHostStall ==
    \A i \in Items : stage[i] = "waiting" =>
        \/ \E j \in Items : stage[j] \in {"permitted", "fetching"} /\ HostOf[j] = HostOf[i]
        \/ \E j \in Items : stage[j] = "fetching" \/ (stage[j] = "permitted" /\ lpc[j] = "served")
        \/ permits > 0

\* "Release held resources (HTTP clients, browsers)" (src/sources/base.py:69) and
\* "open files or DB handles once per run and flush deterministically on exit"
\* (src/outputs/base.py:11-12): nothing is held when the process is done.
NothingHeldAtExit ==
    run = "exited" => open = {} /\ \A s \in Sources : ~client[s]

=============================================================================
