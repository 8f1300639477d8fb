----------------------------- MODULE MCPipeline -----------------------------
(***************************************************************************)
(* Small crawls.  Crawl: the feed s1 has two pages on h1, of one of which  *)
(* its selectors make a list, an item that is_fetchable rejects and one    *)
(* beyond max_items; s2, rendered by a browser and with an extraction      *)
(* strategy that is unknown, has an item whose port makes canonicalize     *)
(* raise, a page s1 has too, with a user name that makes can_fetch raise,  *)
(* and one on h2.  Both sources set an rps for h1, or s2 sets one for a    *)
(* URL that cannot be parsed.                                              *)
(* Burst: one source, three pages on h1 and one on h2.  Siblings: a good   *)
(* item beside one that raises, and a second source that keeps the run     *)
(* going.                                                                  *)
(***************************************************************************)
EXTENDS Pipeline, TLC

CONSTANTS s1, s2, h1, h2, i1, i2, i3, i4, i5, i6, i7, p1, p2, p3, p4, k1, k2

Call(s, d, r) == [source |-> s, domain |-> d, rate |-> r]

CrawlItemsOf == (s1 :> <<i1, i2, i6, i7>>) @@ (s2 :> <<i5, i3, i4>>)
CrawlPageOf ==
    (i1 :> p1) @@ (i2 :> p2) @@ (i3 :> p1) @@ (i4 :> p3) @@ [i \in {i5, i6, i7} |-> p4]
CrawlHostOf == (i4 :> h2) @@ [i \in {i1, i2, i3, i5, i6, i7} |-> h1]
CrawlPreludes ==
    {<<Call(s1, h1, 2), Call(s2, h1, 1)>>, <<Call(s1, h1, 2), Call(s2, NoHost, 1)>>}
CrawlOutputs == <<k1, k2>>

BurstItemsOf == s1 :> <<i1, i2, i3, i4>>
BurstPageOf == (i1 :> p1) @@ (i2 :> p2) @@ (i3 :> p3) @@ (i4 :> p4)
BurstHostOf == (i1 :> h1) @@ (i2 :> h1) @@ (i3 :> h1) @@ (i4 :> h2)

SiblingItemsOf == (s1 :> <<i1, i5>>) @@ (s2 :> <<i4>>)
SiblingPageOf == (i1 :> p1) @@ (i5 :> p2) @@ (i4 :> p3)
SiblingHostOf == (i1 :> h1) @@ (i5 :> h1) @@ (i4 :> h2)

NoPrelude == {<<>>}
OneOutput == <<k1>>
=============================================================================
