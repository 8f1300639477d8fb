----------------------------- MODULE Extraction -----------------------------
(***************************************************************************)
(* The extractors of src/extractors, the scoring contract of their base.py *)
(* and the record core/pipeline.py builds from an extraction.  A value is  *)
(* known by its kind: "absent", "empty" ("" or nothing), "hollow" (a value *)
(* of JSON-LD of which _flatten leaves ""), "blank" (white space), "zero"  *)
(* (0 or False), "text", "list" (several texts), and "feed", text that a   *)
(* feed supplied.                                                          *)
(***************************************************************************)
EXTENDS Integers, Sequences, FiniteSets, SequencesExt

CONSTANTS
    required_fields, optional_fields,
    min_quality_score       \* in hundredths

ASSUME ExtractionAssumption ==
    /\ IsFiniteSet(required_fields) /\ IsFiniteSet(optional_fields)
    /\ min_quality_score \in Nat

is_present(v) == v \in {"hollow", "zero", "text", "list", "feed"}

\* The truth value Python gives it.
Truthy(v) == v \in {"hollow", "blank", "text", "list", "feed"}

Get(data, f) == IF f \in DOMAIN data THEN data[f] ELSE "absent"
Put(data, f, v) == [g \in (DOMAIN data) \union {f} |-> IF g = f THEN v ELSE data[g]]

\* A page as an extractor finds it, in the fields of this record that it reads: the
\* body and the metadata trafilatura returns and the structural fallback, all without
\* white space around them.
IsArticle(page) ==
    /\ page.body \in {"empty", "text"}
    /\ DOMAIN page.meta \subseteq {"title", "author", "published", "sitename", "description"}
    /\ \A f \in DOMAIN page.meta : page.meta[f] \in {"empty", "text"}
    /\ DOMAIN page.fallback \subseteq {"title", "text"}
    /\ \A f \in DOMAIN page.fallback : page.fallback[f] \in {"empty", "text"}

\* The texts of the nodes each selector matches.
IsSelection(page) ==
    \A f \in DOMAIN page.nodes : page.nodes[f] \in Seq({"empty", "blank", "text"})

\* The parsed JSON-LD blocks: lists of objects, each with the objects of its @graph.
LdKeys == {"headline", "name", "datePublished", "articleBody", "author"}
LdObjects == UNION {[K -> {"empty", "zero", "hollow", "text"}] : K \in SUBSET LdKeys}
LdItems == [object : LdObjects, graph : Seq(LdObjects)]
IsBlocks(page) == page.blocks \in Seq(Seq(LdItems))

Url == [url |-> "text"]

-----------------------------------------------------------------------------
\* ArticleExtractor.extract
Article(page) ==
    LET found == [f \in {"url", "text"} \union DOMAIN page.meta |->
                     CASE f = "url" -> "text" [] f = "text" -> page.body [] OTHER -> page.meta[f]]
    IN  IF Truthy(Get(found, "text")) /\ Truthy(Get(found, "title")) THEN found
        ELSE [f \in (DOMAIN found) \union (DOMAIN page.fallback) |->
                 IF f \notin DOMAIN page.fallback \/ Truthy(Get(found, f)) THEN found[f]
                 ELSE page.fallback[f]]

\* SelectorExtractor.extract, over the values of the nodes a selector matches: the one
\* that is not blank, or a list of them.
Selected(page) ==
    LET Values(f) == {n \in DOMAIN page.nodes[f] : page.nodes[f][n] = "text"}
    IN  [f \in {"url"} \union {g \in DOMAIN page.nodes : Values(g) # {}} |->
            IF f \in DOMAIN page.nodes /\ Cardinality(Values(f)) > 1 THEN "list" ELSE "text"]

_FIELD_MAP == [headline |-> "title", name |-> "title", datePublished |-> "published",
               articleBody |-> "text", author |-> "author"]
Keys == <<"headline", "name", "datePublished", "articleBody", "author">>

_flatten(v) == IF v = "hollow" THEN "empty" ELSE v

\* Mutant: a key that is there at all is taken, and the last one wins.
LastValue(data, obj, key) ==
    IF key \in DOMAIN obj THEN Put(data, _FIELD_MAP[key], _flatten(obj[key])) ELSE data

\* A field has the first value that is something, until _flatten leaves nothing of it.
Adopted(data, obj, key) ==
    IF Truthy(Get(obj, key)) /\ ~Truthy(Get(data, _FIELD_MAP[key]))
      THEN Put(data, _FIELD_MAP[key], _flatten(obj[key])) ELSE data

\* _iter_objects of a list of objects: its stack gives the last of them first, and what
\* is in an object's @graph right after the object.
_iter_objects(payload) ==
    FlattenSeq([i \in 1 .. Len(payload) |->
        LET item == payload[Len(payload) + 1 - i] IN <<item.object>> \o Reverse(item.graph)])

\* The keys of one object, in order.
ReadObject(data, obj) ==
    LET after[i \in 0 .. Len(Keys)] ==
            IF i = 0 THEN data ELSE Adopted(after[i - 1], obj, Keys[i])
    IN  after[Len(Keys)]

\* JsonLdExtractor.extract; a malformed block is an empty payload.
JsonLd(page) ==
    LET objects == FlattenSeq([b \in 1 .. Len(page.blocks) |-> _iter_objects(page.blocks[b])])
        after[i \in 0 .. Len(objects)] ==
            IF i = 0 THEN Url ELSE ReadObject(after[i - 1], objects[i])
    IN  after[Len(objects)]

\* build_extractor
Extracted(strategy, page) ==
    CASE strategy = "article" -> Article(page)
      [] strategy = "jsonld" -> JsonLd(page)
      [] strategy = "selectors" -> Selected(page)

-----------------------------------------------------------------------------
Present(data, S) == {f \in S : is_present(Get(data, f))}

\* Without optional fields in the configuration, whatever else was extracted is.
Optional(data) ==
    IF optional_fields # {} THEN optional_fields ELSE (DOMAIN data) \ required_fields

\* compute_quality_score, as what was earned and what could be.
Earned(data) ==
    2 * Cardinality(Present(data, required_fields)) + Cardinality(Present(data, Optional(data)))
Weight(data) == 2 * Cardinality(required_fields) + Cardinality(Optional(data))
GoodScore(data) == Weight(data) = 0 \/ Earned(data) * 100 >= min_quality_score * Weight(data)

Missing(data) == required_fields \ Present(data, required_fields)

\* evaluate_extraction
Evaluate(data) ==
    IF required_fields = {} \/ (Missing(data) = {} /\ GoodScore(data)) THEN "SUCCESS"
    ELSE IF DOMAIN data = {} \/ Missing(data) = required_fields THEN "FAIL"
    ELSE "PARTIAL"

\* extract_and_evaluate of an extractor that raises.
Raised == [status |-> "FAIL", missing |-> {}, data |-> [f \in {} |-> "absent"]]

Evaluated(data) == [status |-> Evaluate(data), missing |-> Missing(data), data |-> data]

\* _build_record: the fields in which the feed's entry has text are filled from it when
\* they are false; status and missing fields stay.
Record(extraction, entry) ==
    [extraction EXCEPT !.data =
        [f \in (DOMAIN @) \union entry |->
            IF f \in entry /\ ~Truthy(Get(@, f)) THEN "feed" ELSE @[f]]]

\* The indicators are read off the text, or off the page if there is none; refang takes
\* no list.
Refangable(data) == Get(data, "text") # "list"
=============================================================================
