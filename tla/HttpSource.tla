----------------------------- MODULE HttpSource -----------------------------
(***************************************************************************)
(* sources/http_source.py and sources/rss_source.py: the feeds of a source *)
(* name the pages, and a page is requested over httpx and, when that is    *)
(* blocked and the source impersonates, once more over curl_cffi.          *)
(***************************************************************************)
EXTENDS FetchResult, Integers, Sequences, FiniteSets

CONSTANTS
    NoLink,         \* an entry without one
    EntryLists,     \* bound: what a feed may hold, sequences of [link, has]
    FeedCount,      \* config.all_urls
    MaxItems,       \* config.max_items
    Impersonate,    \* config.impersonate is set
    Codes           \* bound: status codes a server answers with

FeedFields == {"title", "published"}

ASSUME HttpAssumption ==
    /\ FeedCount \in Nat /\ MaxItems \in Nat \ {0}
    /\ Impersonate \in BOOLEAN /\ Codes \subseteq 200 .. 599
    /\ \A es \in EntryLists : es \in Seq([link : Pages \union {NoLink}, has : SUBSET FeedFields])

VARIABLES
    feed,       \* feeds read
    urls,       \* what discover will return
    meta,       \* _entry_meta: link -> the fields its entry has
    sent,       \* history, per page: the answers to its requests, by code
    answer      \* per page: the FetchResult, [status, html], or NoAnswer

httpVars == <<feed, urls, meta, sent, answer>>

BLOCK_CODES == {403, 429, 503}
NoResponse == 0         \* an answer that was an exception
NoBody == 204        \* one without a body

HttpInit ==
    /\ feed = 0 /\ urls = <<>>
    /\ meta = [p \in {} |-> {}]
    /\ sent = [p \in Pages |-> <<>>]
    /\ answer = [p \in Pages |-> NoAnswer]

\* A source is built, with nothing of an earlier one.
HttpAnew ==
    /\ feed' = 0 /\ urls' = <<>>
    /\ meta' = [p \in {} |-> {}]
    /\ sent' = [p \in Pages |-> <<>>]
    /\ answer' = [p \in Pages |-> NoAnswer]

-----------------------------------------------------------------------------
\* Mutant: a feed is read to its end.
TakeAll(s, e) ==
    IF e.link = NoLink \/ e.link \in DOMAIN s.meta THEN s
    ELSE [urls |-> Append(s.urls, e.link),
          meta |-> [p \in (DOMAIN s.meta) \union {e.link} |->
                       IF p = e.link THEN e.has ELSE s.meta[p]]]

\* An entry of a feed: taken unless its link is empty or known, up to max_items.
Take(s, e) ==
    IF e.link = NoLink \/ e.link \in DOMAIN s.meta \/ Len(s.urls) >= MaxItems THEN s
    ELSE [urls |-> Append(s.urls, e.link),
          meta |-> [p \in (DOMAIN s.meta) \union {e.link} |->
                       IF p = e.link THEN e.has ELSE s.meta[p]]]

\* What is taken of a feed, entry by entry.
TakeEach(s, es) ==
    LET after[i \in 0 .. Len(es)] == IF i = 0 THEN s ELSE Take(after[i - 1], es[i])
    IN  after[Len(es)]

Discovering == feed < FeedCount /\ Len(urls) < MaxItems

\* discover: the next feed, which may fail to load or to parse.
ReadFeed ==
    /\ Discovering /\ feed' = feed + 1
    /\ \E es \in EntryLists \union {<<>>} :
           LET after == TakeEach([urls |-> urls, meta |-> meta], es)
           IN  urls' = after.urls /\ meta' = after.meta
    /\ UNCHANGED <<sent, answer>>

-----------------------------------------------------------------------------
Give(p, code, a) ==
    /\ sent' = [sent EXCEPT ![p] = Append(@, code)]
    /\ answer' = [answer EXCEPT ![p] = a]
    /\ UNCHANGED <<feed, urls, meta>>

\* The result of a code, when nothing further is tried.
ResultOf(code) ==
    IF code = NoResponse THEN Failed
    ELSE IF code = 429 THEN [status |-> "RATE_LIMITED", html |-> FALSE]
    ELSE IF code >= 400 THEN Failed
    ELSE [status |-> "SUCCESS", html |-> code # NoBody]

Blocked(code) == code \in BLOCK_CODES /\ Impersonate

\* Mutant: the answer of the second transport is ignored.
FirstAnswer(p, code) == ResultOf(sent[p][1])

\* _fetch_impersonated knows no RATE_LIMITED.
SecondAnswer(p, code) == IF code >= 400 THEN Failed ELSE ResultOf(code)

\* fetch: the first request is answered; a blocked one has no result yet.
Respond(p, code) ==
    /\ sent[p] = <<>>
    /\ Give(p, code, IF Blocked(code) THEN NoAnswer ELSE ResultOf(code))

\* The second request, and its absence when curl_cffi is not installed.
Escalate(p, code) ==
    /\ Len(sent[p]) = 1 /\ answer[p] = NoAnswer
    /\ Give(p, code, SecondAnswer(p, code))

NoEscalation(p) ==
    /\ Len(sent[p]) = 1 /\ answer[p] = NoAnswer
    /\ answer' = [answer EXCEPT ![p] = ResultOf(sent[p][1])]
    /\ UNCHANGED <<feed, urls, meta, sent>>

HttpFetch(p) ==
    \/ \E code \in Codes \union {NoResponse} : Respond(p, code) \/ Escalate(p, code)
    \/ NoEscalation(p)

\* The result of a fetch is dropped by its caller.
HttpForget(p) ==
    /\ sent' = [sent EXCEPT ![p] = <<>>] /\ answer' = [answer EXCEPT ![p] = NoAnswer]
    /\ UNCHANGED <<feed, urls, meta>>

HttpTypeOK ==
    /\ feed \in 0 .. FeedCount
    /\ urls \in Seq(Pages) /\ Len(urls) <= MaxItems
    /\ DOMAIN meta \subseteq Pages /\ meta \in [DOMAIN meta -> SUBSET FeedFields]
    /\ sent \in [Pages -> Seq(Codes \union {NoResponse})]
    /\ answer \in [Pages -> Answers]
=============================================================================
