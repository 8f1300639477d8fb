----------------------------- MODULE Documents -----------------------------
(***************************************************************************)
(* What becomes of one source's documents over several runs of the crawler *)
(* that may die at any time: it discovers links and fetches pages          *)
(* (HttpSource, BrowserSource), extracts a record from each page it gets   *)
(* (Extraction) and writes it to the two sinks (Outputs).                  *)
(*                                                                         *)
(* A record is built and written without an await that suspends, so no     *)
(* task moves between its two writes; the process may still die there.     *)
(* The robots gate, the semaphore and the limiter, which only delay or     *)
(* drop an item, are in Pipeline, as is what follows an item that raises:  *)
(* here its siblings end before the source is closed.  A source has one    *)
(* strategy; since only its records depend on it, it is chosen with each.  *)
(***************************************************************************)
EXTENDS HttpSource, BrowserSource, Extraction, Outputs

CONSTANTS
    ConfigUrls,     \* all_urls of a source without discovery of its own
    Kinds,          \* bound: kinds of source, of "http", "rss", "browser"
    Contents,       \* bound: what pages hold, per strategy
    NoPage,
    MayDie          \* bound: whether a run may die

ASSUME DocumentsAssumption == ConfigUrls \in Seq(Pages) /\ Kinds \subseteq {"http", "rss", "browser"}

ASSUME ContentsAssumption ==
    \A strategy \in DOMAIN Contents : \A page \in Contents[strategy] :
        \/ strategy = "article" /\ IsArticle(page)
        \/ strategy = "selectors" /\ IsSelection(page)
        \/ strategy = "jsonld" /\ IsBlocks(page)

VARIABLES
    kind,
    phase,      \* of the run
    stage,      \* per page: "none", "fetching", "half" written, "ended"
    record,     \* the record that is being written, or NoRecord
    holds       \* history: the strategy and the page it was extracted with and from

vars == <<httpVars, browserVars, outputVars, kind, phase, stage, record, holds>>
sourceVars == <<httpVars, browserVars>>
recordVars == <<record, holds>>

NoRecord == [status |-> "none", missing |-> {}, data |-> <<>>]
Nothing == [strategy |-> "none", page |-> NoPage]

TypeOK ==
    /\ HttpTypeOK /\ BrowserTypeOK /\ OutputTypeOK
    /\ kind \in Kinds
    /\ phase \in {"starting", "discovering", "gathering", "closed", "dead"}
    /\ stage \in [Pages -> {"none", "fetching", "half", "ended"}]
    /\ record.status \in {"none", "SUCCESS", "PARTIAL", "FAIL"}
    /\ record.missing \subseteq required_fields
    /\ record.status # "none" <=> \E p \in Pages : stage[p] = "half"
    /\ buffer # <<>> \/ phase = "gathering" => open

Init ==
    /\ HttpInit /\ BrowserInit /\ OutputInit
    /\ kind \in Kinds
    /\ phase = "starting"
    /\ stage = [p \in Pages |-> "none"]
    /\ record = NoRecord /\ holds = Nothing

\* cli.py opens the sinks before the crawl.
Start ==
    /\ phase = "starting" /\ phase' = "discovering"
    /\ OutputOpen
    /\ UNCHANGED <<sourceVars, run, buffer, cut, torn, rows, written, refused, crashed, kind,
                   stage, recordVars>>

Discover ==
    /\ phase = "discovering" /\ kind = "rss"
    /\ ReadFeed
    /\ UNCHANGED <<browserVars, outputVars, kind, phase, stage, recordVars>>

\* discover() returns, and the items are created.
Gather ==
    /\ phase = "discovering" /\ phase' = "gathering"
    /\ IF kind = "rss" THEN ~Discovering /\ urls' = urls
                       ELSE urls' = SubSeq(ConfigUrls, 1, Min({MaxItems, Len(ConfigUrls)}))
    /\ stage' = [p \in Pages |-> IF Contains(urls', p) THEN "fetching" ELSE "none"]
    /\ UNCHANGED <<feed, meta, sent, answer, browserVars, outputVars, kind, recordVars>>

\* A step of a task: nobody is between the two writes of a record.
Turn(p) ==
    phase = "gathering" /\ stage[p] = "fetching" /\ \A q \in Pages : stage[q] # "half"

Fetch(p) ==
    /\ Turn(p)
    /\ IF kind = "browser" THEN BrowserFetch(p) /\ UNCHANGED httpVars
                           ELSE HttpFetch(p) /\ UNCHANGED browserVars
    /\ UNCHANGED <<outputVars, kind, phase, stage, recordVars>>

Result(p) == IF kind = "browser" THEN rendered[p] ELSE answer[p]
Returned(p) == IF kind = "browser" THEN fetching[p] = "over" ELSE answer[p] # NoAnswer

\* The item ends, and its FetchResult is gone.
End(p) ==
    /\ stage' = [stage EXCEPT ![p] = "ended"]
    /\ HttpForget(p) /\ BrowserForget(p)

\* No document: fetch raised, or its result is not ok.
Drop(p) ==
    /\ Turn(p)
    /\ fetching[p] = "raised" \/ (Returned(p) /\ ~Ok(Result(p)))
    /\ End(p)
    /\ UNCHANGED <<outputVars, kind, phase, recordVars>>

FeedEntry(p) == IF p \in DOMAIN meta THEN meta[p] ELSE {}

\* A document whose text is a list: no record is built, the item raises.
Break(p) ==
    /\ Turn(p) /\ Returned(p) /\ Ok(Result(p))
    /\ \E strategy \in DOMAIN Contents : \E page \in Contents[strategy] :
           ~Refangable(Extracted(strategy, page))
    /\ End(p)
    /\ UNCHANGED <<outputVars, kind, phase, recordVars>>

\* A document: its record is built, or what an extractor that raises leaves, and goes
\* to the first sink.
Store(p) ==
    /\ Turn(p) /\ Returned(p) /\ Ok(Result(p))
    /\ \/ \E strategy \in DOMAIN Contents : \E page \in Contents[strategy] :
              /\ holds' = [strategy |-> strategy, page |-> page]
              /\ record' = Record(Evaluated(Extracted(strategy, page)), FeedEntry(p))
       \/ holds' = Nothing /\ record' = Record(Raised, FeedEntry(p))
    /\ Refangable(record'.data)
    /\ JsonlWrite(p)
    /\ stage' = [stage EXCEPT ![p] = "half"]
    /\ UNCHANGED <<sourceVars, kind, phase>>

\* The second sink.
StoreRow(p) ==
    /\ phase = "gathering" /\ stage[p] = "half"
    /\ \E ok \in BOOLEAN : DuckDbWrite(p, ok)
    /\ record' = NoRecord /\ holds' = Nothing
    /\ End(p)
    /\ UNCHANGED <<kind, phase>>

\* Every item has ended: the source and then the sinks are closed.
Close ==
    /\ phase = "gathering" /\ phase' = "closed"
    /\ \A p \in Pages : stage[p] \in {"none", "ended"}
    /\ BrowserClose /\ OutputClose
    /\ UNCHANGED <<httpVars, kind, stage, recordVars>>

\* Of a process that is gone only what the sinks keep is left.
Gone ==
    /\ HttpAnew /\ BrowserAnew
    /\ stage' = [p \in Pages |-> "none"]
    /\ record' = NoRecord /\ holds' = Nothing
    /\ UNCHANGED kind

Die ==
    /\ MayDie
    /\ phase \in {"discovering", "gathering"} /\ phase' = "dead"
    /\ OutputCrash /\ Gone

\* The crawler is run again.
RunAgain ==
    /\ phase \in {"closed", "dead"} /\ phase' = "starting"
    /\ NextRun /\ Gone

Next ==
    \/ Start \/ Discover \/ Gather
    \/ \E p \in Pages : Fetch(p) \/ Drop(p) \/ Break(p) \/ Store(p) \/ StoreRow(p)
    \/ Close \/ Die \/ RunAgain

Spec == Init /\ [][Next]_vars

-----------------------------------------------------------------------------
(* Properties *)

\* Fetching over HTTP: no link of feeds is fetched twice, in however many it is; a page is
\* requested at most twice, the second time only after a code that blocks; there is a
\* document exactly if the last answer was one, and RATE_LIMITED is said only of a page
\* whose one answer was 429 or that had no second transport.
FetchContract ==
    /\ kind = "rss" => IsInjective(urls)
    /\ \A p \in Pages :
           LET codes == sent[p] IN
           /\ Len(codes) = 2 => Impersonate /\ codes[1] \in BLOCK_CODES
           /\ Len(codes) <= 2
           /\ Ok(answer[p]) =>
                  codes[Len(codes)] < 400 /\ codes[Len(codes)] \notin {NoResponse, NoBody}
           /\ answer[p].status = "RATE_LIMITED" => codes = <<429>>
           /\ answer[p].status = "FAILED" => codes[Len(codes)] \notin 200 .. 399

\* Fields for which the page has text, wherever in it the extractor may find it.
Offers ==
    LET page == holds.page IN
    CASE holds.strategy = "none" -> {}
      [] holds.strategy = "article" ->
           {f \in {"text"} : page.body = "text"}
           \union {f \in DOMAIN page.meta : page.meta[f] = "text"}
           \union {f \in DOMAIN page.fallback : page.fallback[f] = "text"}
      [] holds.strategy = "selectors" ->
           {f \in DOMAIN page.nodes : Contains(page.nodes[f], "text")}
      [] holds.strategy = "jsonld" ->
           LET objects == UNION {UNION {{item.object} \union ToSet(item.graph) :
                                        item \in ToSet(block)} : block \in ToSet(page.blocks)}
           IN  UNION {{_FIELD_MAP[k] : k \in {x \in DOMAIN o : o[x] = "text"}} : o \in objects}

\* Records are honest: a field has the page's text, or its texts, if the page has any,
\* else the feed's, and is otherwise absent; a SUCCESS has every required field, and the page has none of
\* the fields that are called missing.
RecordsHonest ==
    \A p \in Pages : stage[p] = "half" =>
        /\ \A f \in {"title", "published", "text", "author"} :
               LET v == Get(record.data, f) IN
               /\ f \in Offers <=> v \in {"text", "list"}
               /\ f \in FeedEntry(p) \ Offers <=> v = "feed"
               /\ is_present(v) => v \in {"text", "list", "feed"}
        /\ record.status = "SUCCESS" =>
               \A f \in required_fields : is_present(Get(record.data, f))
        /\ record.missing \intersect Offers = {}

Healthy(w) == w[2] \notin crashed /\ (w[2] = run => phase = "closed")
Whole == {i \in DOMAIN file : file[i] # Bad}
Lost == {w \in ToSet(written) : Healthy(w) /\ ~Contains(file, w)}

\* The i-th record is the first one that was written after a run that died.
FirstAfterCrash(i) ==
    \E r \in crashed : r < written[i][2] /\ \A j \in 1 .. i - 1 : written[j][2] <= r

\* What a crash costs: a run that ends has every record it wrote in the file, but for
\* the first record after a crash, which may be lost in the line the crash left; there
\* is at most one such line per crash; records are in the file once, in the order in
\* which they were written; and a page's row is of the last run in which it was written
\* and not refused, unless that run died.
CrashCost ==
    /\ Cardinality({i \in DOMAIN file : file[i] = Bad}) <= Cardinality(crashed)
    /\ Cardinality(Lost) <= Cardinality(crashed)
    /\ \A i \in DOMAIN written : written[i] \in Lost => FirstAfterCrash(i)
    /\ IsInjective(written)
    /\ \A a \in Whole : Contains(written, file[a])
    /\ \A a \in Whole, b \in Whole : a < b =>
           \E i \in DOMAIN written, j \in DOMAIN written :
               i < j /\ file[a] = written[i] /\ file[b] = written[j]
    /\ \A w \in ToSet(written) \ refused : Healthy(w) => rows[w[1]] >= w[2]
    /\ \A p \in Pages : rows[p] # 0 => <<p, rows[p]>> \in ToSet(written) \ refused

\* "Release held resources (HTTP clients, browsers)." (src/sources/base.py:69): when the
\* source has been closed, no browser of its runs.
NothingLeftRunning == phase = "closed" => drivers = {} /\ browsers = {}
=============================================================================
