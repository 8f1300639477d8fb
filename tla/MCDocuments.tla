---------------------------- MODULE MCDocuments ----------------------------
(***************************************************************************)
(* Two feeds that share a link and have more of them than max_items; pages *)
(* whose text is found in any of the places an extractor looks, hollow     *)
(* values and malformed blocks among them.                                 *)
(***************************************************************************)
EXTENDS Documents, TLC

CONSTANTS p1, p2, p3, none, bad

Entry(l, S) == [link |-> l, has |-> S]
MCEntryLists ==
    {<<Entry(none, {"title"}), Entry(p1, {"title", "published"})>>,
     <<Entry(p1, {}), Entry(p2, {"title"}), Entry(p3, {"title"})>>}
MCOneUrl == <<p1>>
MCTwoUrls == <<p1, p2>>

Meta(t) == [title |-> t, published |-> "empty", author |-> "text"]
Paragraphs(t) == [title |-> t, text |-> "text"]
MCArticles ==
    {[body |-> "text", meta |-> Meta("text"), fallback |-> Paragraphs("empty")],
     [body |-> "empty", meta |-> Meta("empty"), fallback |-> Paragraphs("text")],
     [body |-> "text", meta |-> <<>>, fallback |-> Paragraphs("empty")]}
MCSelected == [nodes : {<<>>, [title |-> <<"blank", "text">>, author |-> <<"blank">>],
                        [published |-> <<"text", "text">>, text |-> <<>>],
                        [title |-> <<"text">>, text |-> <<"text", "blank", "text">>]}]
Item(o, g) == [object |-> o, graph |-> g]
MCBlocks ==
    {<<>>,
     <<Item([headline |-> "text", name |-> "empty"], <<>>), Item([headline |-> "hollow"], <<>>)>>,
     <<Item([author |-> "text"], <<[name |-> "text"], [datePublished |-> "text", name |-> "hollow"]>>)>>}
MCPages == ("article" :> MCArticles) @@ ("selectors" :> MCSelected)
           @@ ("jsonld" :> [blocks : {<<b>> : b \in MCBlocks}])
=============================================================================
