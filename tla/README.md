# A TLA+ model of the NGFW policy crawler and engine

The repository holds two programs around one data set: a Python **crawler**
(`src/core`, `src/sources`, `src/utils`, `src/outputs`, `src/extractors`,
`src/cli.py`) that collects threat-intelligence documents politely and
concurrently, and a C **engine** (`src/engine`, `src/match`, `src/sigdb`,
`include/ngfw`) that classifies the flows of a packet capture with a signature
database which the **compiler** `tools/sigc.py` writes.  This directory models
their cores in TLA+, checks small instances with TLC and proves the main safety
properties for all values of the constants with TLAPS.  (Paths below are
relative to the repository's root.)

## 1. Inventory

| component | state | operations | interaction | what makes it correct |
|---|---|---|---|---|
| per-domain rate limiter, `src/utils/rate_limiter.py` | buckets (tokens, `updated_at`, lock), overrides | `acquire`, `set_domain_rps` | every fetch awaits it; the lock is held across `asyncio.sleep` | no window of time has more grants than burst and rate allow; a new rate holds at once; every caller returns |
| robots.txt cache, `src/utils/robotstxt.py` | parser and time stamp per origin, one lock per origin | `can_fetch`, `crawl_delay` (nobody calls it) | awaited before the semaphore | one load per origin and TTL; no stale answer; fails open |
| crawl pipeline, `src/core/pipeline.py` | `_seen`, semaphore, write lock, counters | `run`, `_run_source`, `_process`, `_emit` | one task per source and per URL; calls robots, limiter, source, extractor, outputs | a page is claimed, requested and recorded at most once; permits are conserved; failures stay local; the counters are true; every host is asked at its rate; a run ends and leaves nothing open |
| command line, `src/cli.py` | - | `crawl`, `fetch`, ... | opens and closes the outputs around a run | outputs closed whatever happens |
| sources, `src/sources/*` | lazily made HTTP client or browser | `discover`, `fetch`, `close` | called by many items at once | the resource is made once and released |
| outputs, `src/outputs/*` | file handle, connection | `open`, `write`, `close` | under the pipeline's write lock | a failing sink harms neither the others nor the run; flush on exit; what a crash costs is bounded |
| extractors, `src/extractors/*` | - | `extract_and_evaluate` | pure | a field has what the page says, else what the feed says; status follows from required fields and score |
| configuration and URLs, `src/core/config.py`, `src/utils/url.py` | mtime cache | `load_config`, `canonicalize`, `is_fetchable` | read once | canonical form is a key |
| flow table, `src/engine/flow.c` | slots, count, evictions | `ngfw_flow_lookup` | once per packet | both directions find the one slot of a flow, whatever was displaced and evicted |
| classification loop, `src/engine/main.c` | verdict per flow, counters | one iteration per packet | table, payload, address and name matchers | the verdict is the strongest evidence; only a name makes it final; the output agrees with it |
| matchers, `src/match/*` | tree, trie, hash tables | insert, lookup | built once, read per packet | longest match, confidence between equal claims |
| database loader, `src/sigdb/sigdb_load.c` | the mapping | `open`, `app_name` | before everything else | every section inside the file |
| decoding, `src/engine/decode.c`, `tls.c`, `pcap.c` | file position | next packet, decode, server name | feeds the loop | cursor within the buffer |
| compiler, `tools/sigc.py` | apps, rules, keys seen | `app`, `domain`, `cidr`, `payload`, `serialize` | loaders call it in order | one id per identity; licence filter |
| other tools, scripts, page, data | - | - | - | not core logic |

What is hard here: asyncio tasks interleaving at every await (limiter,
robots, pipeline, sources), `asyncio.gather` raising while siblings run on, a
lock held across a sleep, time (timers, TTL), and in the engine a probe
sequence that depends on the whole history of the table, evidence arriving in
any order, eviction, and a counter of 16 bits.  `PROJECT.json` lists these
hazards at their lines with the properties that cover them.

## 2. Modules

| module | models | lines of code |
|---|---|---|
| `RateLimiter` | `RateLimiter`, `DomainBucket` | `src/utils/rate_limiter.py` |
| `RateLimiterProofs` | theorems about it | |
| `RobotsTxtChecker` | the cache, its locks and loads | `src/utils/robotstxt.py` |
| `RobotsTxtCheckerProofs` | theorems about it | |
| `CrawlOnce` | abstract: the life of a page | |
| `Pipeline`, `MCPipeline` | a crawl; instantiates `RateLimiter` | `src/core/pipeline.py`, end of run in `src/cli.py`, client of `src/sources/http_source.py` |
| `PipelineProofs` | theorems about it, that its limiter is a `RateLimiter`, and the refinement | |
| `FlowTable` | the flow table | `src/engine/flow.c`, `include/ngfw/flow.h` |
| `FlowMemory` | abstract: a map from flows to answers | |
| `Engine`, `MCEngine` | the packet loop; extends `FlowTable` | `src/engine/main.c` |
| `EngineProofs` | theorems about the table and the loop, and the refinement | |
| `Builder`, `MCBuilder` | the loaders, ids, curation, licences and rules of the compiler, and the engine's licence filter | `class Builder`, the `load_*` and `main` of `tools/sigc.py`, `build_*` of `src/engine/main.c` |
| `BuilderProofs` | theorems about it | |
| `FetchResult`, `HttpSource`, `BrowserSource` | the sources: discovery, fetch, escalation, the shared browser | `src/sources/*.py` |
| `Extraction` | strategies, scoring contract, record | `src/extractors/*.py` but for indicators, `_build_record` |
| `Outputs` | the two sinks over runs that may die | `src/outputs/*.py` |
| `Documents`, `MCDocuments` | a source's documents from discovery to the sinks; extends the five above | `_run_source`, `_process`, `_emit` of `src/core/pipeline.py`, `_run` of `src/cli.py` |
| `DocumentsProofs` | theorems about it | |
| `SigRule`, `ProbeTable` | the rule a slot holds; the hash tables of the matchers | shared by the next three |
| `ProbeTableProofs` | theorems about the hash tables, for any hash | |
| `Lpm`, `DomainTrie`, `PayloadSet` | the matchers, each with its reference definition | `src/match/*.c` |
| `SigDb` | layout and checks of the database file | `src/sigdb/sigdb_load.c`, `serialize` of `tools/sigc.py` |
| `Decode` | a frame, from the capture to the server name | `src/engine/pcap.c`, `decode.c`, `tls.c` |
| `Input`, `MCInput` | all the engine reads, in the order of `main`; extends the five above | `main` and `build_*` of `src/engine/main.c` |
| `InputProofs` | theorems about it | |

### Crawler

A step of `RateLimiter`, `RobotsTxtChecker` and `Pipeline` is the code between
two points where a task may suspend; the single-threaded event loop makes that
atomic.  An uncontended `asyncio.Lock` or `Semaphore` does not suspend, and
their waiters are served in arrival order; so `Acquire`, `Ask` and `PassGate`
have a branch for each case, and `Resume` and `Admit` are the wake-ups.

*RateLimiter.*  `Acquire` is `bucket_for` and `acquire` up to the first
suspension, `Enter` the body of `DomainBucket.acquire` up to the sleep, `Wake`
what comes after it.  Buckets are objects: `set_domain_rps` drops one while
waiters hold it, so they are named by domain and number of drops.  A token is
worth `Token` credits and rates are credits per tick, which makes the code's
floats exact rationals.  The event loop may fire a timer up to its clock
resolution early; `EarlyCredit` is the most credit that can then be missing,
and the code's `max(0, tokens - 1)` forgives it.

*RobotsTxtChecker.*  The two awaits of `_get_parser` are the lock and `_load`.
The site is the environment: `SiteChanges` may change what it serves, also
while a load is in flight, and a load returns what was served when it left or
what is served now.

*Pipeline.*  `Configure`, `Discover`, `LeaveGather`, `CloseSource` are
`_run_source`; `Begin`, `PassGate`, `Admit`, `LimiterStep`, `StartFetch`,
`EndFetch` are `_process`, `Return` is the `finally` of `cli._run`, `Exit` what
`asyncio.run` does with tasks left over (they are cancelled, and cancellation
unwinds the semaphore).  `gather` queues the first step of every source task
before any of them can queue an item, and that step makes the source's
`set_domain_rps` calls; so these calls come first, in the order of the sources
(`prelude`), and `Discover` waits until all are made (`Configured`).  The
limiter is `INSTANCE`d with the rates of the sources, their overrides and early
timers; the robots gate is its contract, an answer of either kind.  The sinks
of the repository do not suspend while they write, so dedupe and emit are
atomic under `_write_lock`.

What may raise, and what becomes of it, is the point of the module.  In
`_run_source`, before its `try`, only `domain_of` can: with a `rps` and a URL
that `urlparse` rejects the task fails (`NoHost`; without a `rps`,
`is_fetchable` drops such a URL), while `build_source` cannot, because pydantic
admits only the three kinds of its table.  In its `finally` the `close` of a
browser or client may (`BadClose`).  A failed source ends `run`'s `gather`, the
outputs are closed and `asyncio.run` cancels the sources that were still
running.  An item raises when its port makes `canonicalize` raise (`BadPort`);
when its user or host holds a quoted bracket and the host has robots rules, as
`urllib.robotparser` cannot parse it unquoted (`BadHost`); when
`context.close()` raises, outside the `except` of `BrowserSource.fetch`
(`Browsers`); and when `_build_record` does, for an unknown strategy
(`BadStrategy`) or, after the extraction was counted, for a text that is a list
(`ListText`: `SelectorExtractor` gives a list when several nodes match, and
`refang` takes a string).  The last two are stage `broken`, as the fetch was
counted; the others are `raised`.  Either makes the source's `gather` raise,
which the `except` of `_run_source` swallows, while the siblings run on.  Any
of the sinks in `Frail` may fail in a write, which `_emit` swallows, or in its
`close`, which leaves the sinks after it open.  `discover` may return
everything, nothing, or raise; `fetch` may also fail or be skipped
(`FetchStatus` has it although no source of the repository returns it).

*HttpSource.*  An action is one answer: to the first request (`Respond`), to
the one over `curl_cffi` (`Escalate`), or the news that it is not installed
(`NoEscalation`).  `ReadFeed` reads one feed of any of the listed contents, a
feed that fails being empty; `_entry_meta` is kept, as the record's fallback
comes from it.

*BrowserSource.*  One action per await of `_ensure_browser` and `fetch`, each
of which may fail; a driver or browser process is named by the page whose fetch
started it, so that the ones forgotten can be told from the ones stopped.

*Extraction.*  A value is known by what the code's tests tell apart: `None` or
`""`, white space, `0`, text, and a JSON-LD value of which `_flatten` leaves
nothing.  The three strategies are functions of where a page has its text;
`JsonLd` keeps the order of `_iter_objects`' stack.  Selectors are configured
(without any, and without `selectolax`, nothing is extracted); of several nodes
with text they make a list, which as the text of a page is no record
(`Refangable`, and `Break` in `Documents`).

*Outputs.*  The file is a sequence of lines.  Of the records in the process's
buffer any number may reach the file, the first of the rest in part (`cut`);
when the process dies that part stays as a line without its newline (`torn`),
and the next run's first record ends up in it.  A DuckDB statement commits by
itself, may fail, and its row is keyed by page.

*Documents.*  The composition: a record is built and goes to both sinks without
a suspension, so it is one turn of the loop, but the process may die between
the two writes.  What only delays or drops an item (robots, semaphore,
limiter), and an item that raises beside siblings that run on, is in
`Pipeline`; `Pipeline` in turn knows of a fetch only its outcome.

### Engine

*Matchers.*  A node of `Lpm` is the bit string that leads to it; a node of
`DomainTrie` is a number, reached through an edge table that both it and
`PayloadSet` take from `ProbeTable` with their own hash, so that collisions,
wrap-around, doubling and its failure are in the model.  What must come out is
defined on the log of what was loaded (`LongestPrefixRule`,
`MostSpecificRule`, `TightestRules`), without any of the structure.  A prefix
that ran out of memory leaves its nodes, but no rule, behind.  Labels are
model-checked with hashes that tell them apart; two labels of one 64-bit hash
would be one label to the code.

*SigDb.*  The real structure sizes, over any modulus of `size_t`.  A damaged
file differs in one place from one that `serialize` writes.

*Decode.*  One cursor with a limit.  Each parser of the three files is an
action (or one per field) that says how many bytes it reads, where it goes and
how far it may go from then on; what the bytes say is any of the constants'
values.  `peak` remembers the farthest byte read.

*Input.*  `main` up to and around the packet loop.  `Filtered` is the `-l`
filter; a matcher that cannot be allocated ends the program, but for the
payload set, which it does without.

*FlowTable.*  `Find`, `Insert` and `Evict` are the three ways out of
`ngfw_flow_lookup`.  The hash is *any* function of the set of endpoints and
the protocol, which is what `(a ^ b) + (a & b) + l4proto` guarantees.

*Engine.*  `Packet` is one iteration: lookup, counter, gate, then
`PayloadStage`, `AddressStage`, `NameStage` in the code's order, each returning
the verdict and the last line printed.  The matchers enter as functions of the
packet (what they compute is in `Input`): `AddressRule` per endpoint (destination asked first), and a packet
carries what the payload and name matchers make of its bytes.  `app_id`,
`tier`, `confidence` and `license_tier` always come together from one rule and
are that rule.  The counter has width `PacketModulus`.  Assumption: address
rules have a tier weaker than B, as `include/ngfw/sigdb.h` says and
`tools/sigc.py` writes them; the file format would allow others.  Tallies of
the summary other than finals, flows and packets, and `-q`, are left out.

### Compiler

*Builder.*  A loader reads a feed and, per entry, calls `app` (`Resolve`) and
`domain`, `cidr` or `payload` (`Attach`); the loaders run in the order of
`main` (`NextFeed`) and each passes its own feed's licence to both calls.  What
a feed says is the environment: any slug with any pattern, in any order.  Four
shapes of loader are told apart by what they keep between entries (`Shape`):

- *table* (`Declare`, `Entry`): an application line, and later lines that name
  it by the feed's own number; `by_native` is that map;
- *hosts* (`Host`): an entry names its application and its host at once;
- *prefixes* (`Prefix`): an entry carries its application, too, but is a prefix;
- *harvest* (`Harvest`, `Emit`): payloads are first collected under the
  protocols that claim them (`owners`), and those with one owner are emitted
  when the feed ends (`emitted`), in order.

`Noise` is what a loader passes over before it calls `app`, `Refused` what
`domain`, `cidr` and `payload` turn down afterwards, when the application is
already there.  What the loaders' regular expressions make of a line is not
modelled.  A pattern stands for a name with its match type, a prefix or payload
bytes with their mask; `Norm` is what the method stores of it (no leading dot,
host bits cleared).
`Serialized` is the filter of `serialize`,
`Loaded` that of the engine's `-l`.  Assumption: what an alias leads to is
neither aliased nor dropped, as `data/aliases.json` and `data/drops.json` have
it; the code would not follow a chain.  (`domain`, unlike `cidr` and
`payload`, attaches rules to the sentinel id 0 of dropped slugs, although the
comment at `tools/sigc.py:119` says the caller must discard them; only the
filter on kept applications keeps them out, which `CurationApplied` checks.)

## 3. Runs

| run | instance | shows |
|---|---|---|
| `limiter` | 4 callers of one domain, rates 0, 1, 3 of a token of 4, one override, timers 1 credit early | `Conformance` over every window, `SleeperOwnsBucket`, `CurrentRate`, and `EveryAcquireReturns` |
| `robots` | 3 askers of one origin, TTL 2, time 0..4, 2 changes of the site | `LoadsSpaced`, `AnswersAreFresh`, `RefusedOnlyByRules`, `EveryAskAnswered` |
| `pipeline` | a feed and a browser source with 7 URLs: a shared page, one rejected, one with a bad port, one with a bad user name, one whose text is a list, one beyond `max_items`, an unknown strategy; contexts and the browser may fail to close; both sources set a rate for one host, or one of them has a malformed URL; timers 1 credit early; 2 permits; a frail sink before a sound one | refinement of `CrawlOnce`, `PermitsConserved`, `FailureConfined`, `StatsTellTheTruth`, `Politeness`, `RunEnds` |
| `host_stall` (violated) | 3 pages of one host and 1 of another, 2 permits | a burst on one host does stall another |
| `held_at_exit` (violated) | a good item beside one that raises, a second source | a client is made after its source was closed |
| `engine` | 2 slots, window 2, 3 flows in both directions, 6 packets, budget 2, counter modulo 4 | table, fusion, finality and output properties, refinement of `FlowMemory` |
| `matchers_bounded` (violated) | the same, 5 packets | the counter wraps and the budget starts again |
| `builder` | six feeds, of all shapes, with licences 0, 2, 0, 1, 0, 0; 4 slugs, 6 patterns, 4 entries read | `ShippedIsLicensed`, `LoadFilterAgrees`, `CurationApplied`, `NamesAreIdentities` |
| `shippable` (violated) | the same, 3 entries read | a rule claimed first by a stricter feed is missing from the permissive build |
| `input` | up to 3 rules of one kind: 9 prefixes in two families of 2 and 3 bits, 8 names of up to 3 labels, 9 patterns of 3 bytes, each with up to 4 rules; tables of 2 slots; damaged headers modulo 4096; 9 frame lengths, 5 values of every length field | `LongestPrefixWins`, `MostSpecificName`, `TightestPayload`, `ReadsInside`, `EveryFrameDecided` |
| `documents` | an RSS source with two feeds that share a link, `max_items` 2, or a browser source with one page; codes 200, 204, 429 and none; 2 runs that may die, one refused statement | `FetchContract`, `RecordsHonest`, `CrashCost` |
| `browsers` (violated) | a browser source with two pages, no crash | a driver and its browser outlive `close()` |

*Why the bounds are enough.*  One caller served, one asleep, one queued and one
arriving is every shape of a bucket's lock (domains share no state, and the
proofs cover any number of them); `IdleHorizon` only stops time from passing when nobody sleeps.  In `robots`
one load can finish, expire and be followed by another while a third asker
waits; origins share no state, so one suffices.  The pipeline's items are the
cases of `_process`, one each, and two sources sharing a page and two permits
make them compete.  The frail sink comes first, so that a sink after a failing
one is there to miss its record; two overrides of one host, the slower one
last, are the fewest that can be mixed up.  Two slots with a window of two have every displacement,
wrap-around and eviction that sixteen slots have (the proofs do not depend on
it), and budget 2 below modulus 4 stands for 12 below 65536.  The
properties of `builder` are about two claims at most, one that names an
application or rule and one that names it again or another; two more entries
let a line that names its application by number, or another owner of a payload,
come before or between them.  In `input` the matchers share nothing,
so a database has one kind of rule; three rules are two that interact and one
that makes the table of two slots grow, or memory run out, before or between
them, and records come in every order.  Prefixes of length 0, of the full width
and beyond it, an empty label and too many of them, and an all-wildcard pattern
are among the records; mask bytes are 0xFF or 0x00, as the file format has them.
An allocation fails at a bound on nodes or slots.  The frame lengths are those
at which a fixed header just fits or just does not, and one beyond `MAX_SNAP`;
the decoder keeps nothing from one frame to the next, and does not see the
matchers, so it runs behind an empty database.  In `documents` two runs are one
that dies and one that finds what it left (a quiet run between the two, which
takes a third, is beyond TLC's time here and is covered by the proof, which is for
any number of runs); the two feeds have more links than
`max_items`; every content lets one strategy find its text in one of the places
it looks, or in none.  `CHECK_DEADLOCK
FALSE` is said where the system stops: all callers served, the run exited, the
capture read, the feeds read.

*Fairness.*  Weak fairness of every task's next step: the event loop runs all
that is ready; the clock does not stop (`Tick`); every network await ends,
because all clients are made with timeouts.  No fairness is assumed of
arrivals, site changes or overrides.  The engine is a loop over a finite file;
`EveryFrameDecided` assumes only that the program runs on (`WF_vars(Parse)`),
and not that another frame follows.  Rounds of the two loops over TLS data,
which only their cursor bounds, are not counted, so that a cursor that stood
still would be a cycle.

*Disagreements found.*  (1) `Pipeline`'s docstring promises that a burst on
one host does not stall others; the limiter is awaited inside the global
semaphore, so it does (`host_stall`).  (2) `gather` without
`return_exceptions` lets siblings run on after the source and the outputs are
closed; `_get_client` and `write` reopen lazily, and nobody closes again
(`held_at_exit`).  The run takes the simplest item that
raises, one whose port is not a number.  (3) `docs/engine.md` bounds what the matchers see by
`PACKET_BUDGET`; `packets` is 16 bits wide and wraps (`matchers_bounded`).
(4) `tools/sigc.py` says that everything of mmt-dpi lands in the shippable
build; a rule that openappid (GPL) or libprotoident (LGPL) claimed before it
keeps their licence and does not (`shippable`).  (5) `_ensure_browser` tests, awaits twice and
then assigns, so concurrent items start several drivers and browsers; a launch
that fails leaves its driver to be overwritten; `close` stops the last
(`browsers`).

## 4. Proofs

All for arbitrary constants satisfying the named `ASSUME`s.

* `RateLimiterProofs`: the type invariant, `Conformance`, `SleeperOwnsBucket`,
  `CurrentRate`.  `Conformance` compares pairs of grants, and
  is not inductive.  The invariant adds, for every bucket, that the credit
  left plus the cost of the grants since any past grant is at most the burst
  plus what was earned up to `updated_at` - a potential that a refill and a
  payment both preserve - together with the facts that only one caller sleeps
  on a bucket, that its deficit is the exact one, and that `grants` is ordered
  in time.
* `EngineProofs`, of the table: `FoundFromEitherEnd`, `OneSlotPerFlow`,
  `CountIsOccupancy`.  Inductive because a used slot is never freed: a slot
  that a probe passed stays used, and an eviction puts into the home slot a
  flow whose home it is; uniqueness is the fact that makes "held by another"
  stable.
* `EngineProofs`, of the loop: `TypeOK`, `VerdictIsStrongest`, `FinalByName`,
  `LastLineTrue`, `FinalsCounted`, from an invariant that ties the evidence
  mask to what was heard and proves each stage as a lemma about its report;
  and that the engine's steps are steps of `FlowTable`, so that the table's
  invariants carry over.
  The engine also implements `FlowMemory`, under the mapping
  that forgets slots.  It needs `OneSlotPerFlow` (a flow's slot is well
  defined) and `FinalByName`-style facts (a final answer is never revised).
* `RobotsTxtCheckerProofs`: the type invariant, `LoadsSpaced`,
  `AnswersAreFresh`, `RefusedOnlyByRules`.  The lock is what spaces the loads:
  one asker per origin is between the test of the cache and its filling, and
  what the others find when they get the lock is what that one left, whose time
  stamp is the last load's.  `RobotsInv` says which asker that is, and of what
  load each parser is.
* `PipelineProofs`: the type invariant, `PermitsConserved`, `FailureConfined`,
  `StatsTellTheTruth`, `Politeness`, and the refinement of `CrawlOnce`.  The
  limiter's variables are changed only by its own actions, so the crawl
  implements `RateLimiter!Spec` (`LimiterSpec`), with the crawl's rates,
  overrides and early timers, and what is proved of that module holds of every
  crawl.  `Politeness` takes from it the windows of one bucket and the rate that
  is in force, and adds what only the crawl can: while a call of
  `set_domain_rps` is outstanding no item exists, so no bucket is made before
  the last of them and a host never has a second one (`OneBucket`).  For
  `FailureConfined`, a run returns before its sources are done only when one of
  them failed (`ReturnedDone`), so until then nothing is cancelled.  The
  counters are cardinalities of sets of items in certain places; a step moves
  one item, and two lemmas (`MoveCounts`, `CountsMove`) say what that does to
  every count; that a sound sink has every record is kept beside them
  (`SinksTrue`).
  For `CrawlOnce`, an item that was created holds the only claim of its page
  (`Claims`), which the check of `_seen` and its update, in one step of the
  loop, keep.
* `BuilderProofs`: the type invariant and the four properties of `builder`,
  and of what the loaders keep: numbers lead to the applications they were
  declared for (`NumbersTrue`), a payload is emitted once and only if one
  protocol of the feed claims it (`HarvestsWhole`), and every rule goes back to
  an entry (`ClaimsReached`).
  The filters look at two licences, a rule's, fixed when it is added, and its
  application's, which falls as feeds are read; they agree because `app` was
  called with the rule's licence before the rule was added and never raises a
  licence (`LicenceCovers`).  The rest of the invariant says that a rule is what
  some feed claimed and that names belong to their identities; a lemma per case
  of `app` shows what a call leaves of what there was (`Resolved`).
* `ProbeTableProofs`: an open-addressing table is a map (`InsertKept`), for
  every hash, capacity and order of insertions.  A table is *good* if every
  entry lies on its own probe behind entries of other keys, and some slot is
  empty.  The empty slot ends every probe, so a lookup finds the entry of its
  key or that there is none; what is put fills the slot where its own probe
  stopped, which no other entry's probe stopped at.  Doubling is a recursive
  function over the old slots: after each the new table is good and holds the
  entries so far (`MoveOne`), so that nothing is lost where the old table
  wrapped around or entries change their order.
* `InputProofs`: `ReadsInside`, for every length of frame, value of a length
  field and header.  The invariant is that the cursor is within its limit and
  the limit within the frame; a lemma says that a step that reads what is left,
  goes no farther than its new limit and does not raise the limit keeps it, and
  each parser's checks are shown to give these three facts, the casts to 16
  bits included (a remainder is never more than what it is of).  For the
  database, `span_ok`'s division bounds the product before it can wrap.
  And `LongestPrefixWins`, for every width of address, sequence of prefixes and
  bound on nodes.  `LpmInv` says that a trie's nodes are closed under
  shortening, and that a node has the most confident of the prefixes loaded at
  just that bit string, the first among equals; a lookup walks the cuts of an
  address, so the last rule it meets is at the longest of the loaded prefixes
  that are cuts of it.  That a node which could not be created leaves a prefix
  unlogged, and not half loaded, is `GrowRooted`: the nodes that are created
  are the shortest missing ones.  Least and greatest elements come from the
  well-foundedness of the natural numbers, which takes no operator parameter.
  `TightestPayload`: by `InsertKept` a bucket holds, under every masked word,
  the most confident of the patterns loaded for it (`Filled`), and the index of
  a mask tells apart masks of as many wildcards, so one bucket is preferred.
  `MostSpecificName`: the nodes that can be reached have one path each and the
  edges of a node lead to the paths one label longer (`Tree`, `Linked`).  A node
  whose edge found no memory has no path; the invariant must allow for it, and
  says that no rule and no edge leads there.  A walk is then at the node of the
  labels it took, or there is none (`WalkIsNode`), and a node's two rules are
  the most confident of the names of its path (`Holds`).
  The type invariant follows from these: an edge leads to a numbered node other
  than the root because paths are unique, an entry has a rule because some
  pattern was logged for it.
* `DocumentsProofs`: the type invariant, `FetchContract`, `CrashCost` and
  `RecordsHonest`, for any number of runs.  For `CrashCost` the file is related to the history: its
  whole lines are the written records up to those in the buffer, some missing,
  in their order (`Filed`), and a record that left the buffer is *settled*, that
  is in the file, or of a run that died, or the first written after a run that
  died.  Every step that writes lands a part of the buffer, which one lemma
  (`LandingKeeps`) covers; a line is torn only while nothing was written since
  a run died, so each crash tears one line and loses one record at most, which
  an injection from the lost records to the crashes counts (`FewLost`).  The
  attempt showed the property as it was first stated to be false of three runs:
  it said the loss was the first record of the *next* run, but a run that
  writes nothing may lie between.  It also showed that a source of plain URLs
  may fetch one twice, if its configuration lists it twice
  (`src/core/config.py:58`; a claim in `_seen` then drops it), so the
  part of `FetchContract` about links is about feeds.  For `FetchContract`, the
  answers a page got determine its result (`Asked`), and what is taken of a feed
  is a recursive function of its entries, shown to exist and to keep links
  distinct by the least position at which it would not (`TakeEachKeeps`).
  For `RecordsHonest`, each strategy is shown to have text in a field exactly
  where the page offers some (`Shows`), and then whatever the feed's entry has
  can only fill what is left (`RecordHonest`).  The JSON-LD strategy is two
  loops, over the objects of all blocks and over the keys of an object; each is
  a recursive function, shown to exist, and after every round a field has text
  exactly if some value so far was text (`Made`), so neither the order of the
  stack nor a hollow value on the way matters.  A record is made in one step and
  stays until its second write, as no other page comes between.

The assumptions on constants are what the code gives them: in `Pipeline` that
the sources, items and hosts relate as its configuration says and a URL that
cannot be parsed ends the calls of its source, in `Lpm` that
widths are natural numbers and a trie has its root, in `PayloadSet` and
`DomainTrie` that hashes are natural numbers, a new table has two slots or more
and an entry is told from an empty slot, in `Input` that a record has the fields
of its section (an address of its family, a word of the pattern width, a name), in `Outputs` that a spoilt line is no record,
in `Documents` that the configured URLs are a sequence of pages, and that pages
hold what the libraries give the extractors: texts that trafilatura and the
fallback have stripped, texts of selected nodes, lists of JSON-LD objects.

Only model-checked: all liveness (`EveryAcquireReturns`, `EveryAskAnswered`,
`RunEnds`, `EveryFrameDecided`; fairness is out of the prover's reach).  Every
other property of the passing runs is proved.

## 5. Not modelled, and the plan

Left to do, in this order:

1. *Configuration*: the mtime cache of `src/core/config.py`.
2. *IP payload*: `decode.c` does not look at the IP header's total length, so
   Ethernet padding is payload; modelling it means giving packets contents.

Not modelled: the indicator regular expressions (no state; what they match is
their text), what `trafilatura`, `selectolax` and `feedparser` find (third
party), YAML and argument parsing, logging, the byte order of a capture's
header, the QUIC stub (it returns 0), the regular expressions with
which the loaders of `sigc.py` take third-party feeds apart, and the reports, capture generators and web page under
`tools/` and `page/`, which run straight through over files and keep nothing.
