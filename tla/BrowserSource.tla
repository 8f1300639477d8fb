--------------------------- MODULE BrowserSource ---------------------------
(***************************************************************************)
(* sources/browser_source.py: every page is rendered in a context of one   *)
(* headless browser, which is launched when a fetch finds none.  A driver  *)
(* or a browser is known by the page whose fetch started it.  Every await  *)
(* may suspend, and may fail.                                              *)
(*                                                                         *)
(* Bound: close() itself succeeds.                                         *)
(***************************************************************************)
EXTENDS FetchResult

CONSTANT NoInstance      \* None

VARIABLES
    fetching,   \* per page: the await its fetch is at
    rendered,   \* per page: its FetchResult, [status, html], or NoAnswer
    playwright, \* _playwright
    browser,    \* _browser
    drivers,    \* processes that run: playwright drivers
    browsers    \* and browsers

browserVars == <<fetching, rendered, playwright, browser, drivers, browsers>>

BrowserInit ==
    /\ fetching = [p \in Pages |-> "no"]
    /\ rendered = [p \in Pages |-> NoAnswer]
    /\ playwright = NoInstance /\ browser = NoInstance
    /\ drivers = {} /\ browsers = {}

\* A source is built in a new process; the one before took its children with it.
BrowserAnew ==
    /\ fetching' = [p \in Pages |-> "no"]
    /\ rendered' = [p \in Pages |-> NoAnswer]
    /\ playwright' = NoInstance /\ browser' = NoInstance
    /\ drivers' = {} /\ browsers' = {}

Go(p, from, to) == fetching[p] = from /\ fetching' = [fetching EXCEPT ![p] = to]

\* _ensure_browser, up to its first await.
EnsureBrowser(p) ==
    /\ Go(p, "no", IF browser # NoInstance THEN "new_context" ELSE "start")
    /\ UNCHANGED <<rendered, playwright, browser, drivers, browsers>>

Started(p) ==
    /\ Go(p, "start", "launch")
    /\ playwright' = p /\ drivers' = drivers \union {p}
    /\ UNCHANGED <<rendered, browser, browsers>>

Launched(p) ==
    /\ Go(p, "launch", "new_context")
    /\ browser' = p /\ browsers' = browsers \union {p}
    /\ UNCHANGED <<rendered, playwright, drivers>>

NewContext(p) ==
    /\ Go(p, "new_context", "render")
    /\ UNCHANGED <<rendered, playwright, browser, drivers, browsers>>

\* The page settled; the status of the response is kept, and not looked at.
Rendered(p, html) ==
    /\ Go(p, "render", "close")
    /\ rendered' = [rendered EXCEPT ![p] = IF html THEN [status |-> "SUCCESS", html |-> TRUE]
                                                   ELSE Failed]
    /\ UNCHANGED <<playwright, browser, drivers, browsers>>

\* Any of these awaits raises; a context is closed.
RenderFails(p) ==
    /\ \/ \E at \in {"start", "launch", "new_context"} : Go(p, at, "over")
       \/ Go(p, "render", "close")
    /\ rendered' = [rendered EXCEPT ![p] = Failed]
    /\ UNCHANGED <<playwright, browser, drivers, browsers>>

\* finally: context.close(), and fetch returns or raises.
CloseContext(p) ==
    /\ Go(p, "close", "over") \/ Go(p, "close", "raised")
    /\ UNCHANGED <<rendered, playwright, browser, drivers, browsers>>

BrowserFetch(p) ==
    \/ EnsureBrowser(p) \/ Started(p) \/ Launched(p) \/ NewContext(p)
    \/ \E html \in BOOLEAN : Rendered(p, html)
    \/ RenderFails(p) \/ CloseContext(p)

BrowserForget(p) ==
    /\ rendered' = [rendered EXCEPT ![p] = NoAnswer]
    /\ UNCHANGED <<fetching, playwright, browser, drivers, browsers>>

\* A driver that stops takes its browsers with it.
BrowserClose ==
    /\ browser' = NoInstance /\ playwright' = NoInstance
    /\ browsers' = browsers \ {browser, playwright}
    /\ drivers' = drivers \ {playwright}
    /\ UNCHANGED <<fetching, rendered>>

BrowserTypeOK ==
    /\ fetching \in [Pages -> {"no", "start", "launch", "new_context", "render", "close",
                               "over", "raised"}]
    /\ rendered \in [Pages -> Answers]
    /\ playwright \in Pages \union {NoInstance} /\ browser \in drivers \union {NoInstance}
    /\ drivers \subseteq Pages /\ browsers \subseteq drivers
=============================================================================
