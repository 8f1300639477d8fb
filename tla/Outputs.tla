------------------------------ MODULE Outputs ------------------------------
(***************************************************************************)
(* outputs/jsonl_output.py and outputs/duckdb_output.py over several runs  *)
(* of the crawler, any of which may die.  A record is known by its page    *)
(* and the run that wrote it.  The JSONL file is opened in append mode and *)
(* what is written waits in the process's buffer until some of it, to any  *)
(* byte, goes to the file; a DuckDB statement commits by itself.           *)
(*                                                                         *)
(* Bounds: the operating system survives; a JSONL write does not fail.     *)
(***************************************************************************)
EXTENDS FetchResult, Integers, Sequences, FiniteSets

CONSTANTS
    Bad,        \* a line that is not one whole object and its newline
    MaxRuns,    \* bound
    MaxRefusals \* bound: statements of DuckDB that fail

ASSUME OutputsAssumption == Bad \notin Pages \X Nat /\ MaxRuns \in Nat \ {0}

VARIABLES
    run,        \* number of the current run
    open,       \* _fh
    buffer,     \* records that are not whole in the file
    cut,        \* the first of them is in the file in part
    file,       \* lines of the JSONL file: records or Bad
    torn,       \* the last line has no newline and its writer is dead
    rows,       \* per page: the run of its row in documents, or 0
    written,    \* history: the records written, in order
    refused,    \* history: the records DuckDB did not take
    crashed     \* history: the runs that died

outputVars == <<run, open, buffer, cut, file, torn, rows, written, refused, crashed>>

OutputInit ==
    /\ run = 1 /\ open = FALSE
    /\ buffer = <<>> /\ cut = FALSE /\ file = <<>> /\ torn = FALSE
    /\ rows = [p \in Pages |-> 0]
    /\ written = <<>> /\ refused = {} /\ crashed = {}

\* JsonlOutput.open, in append mode.
OutputOpen == open' = TRUE /\ UNCHANGED file

\* What the file is when k more records are whole in it: the first of them ends a torn
\* line and is lost in it.
Landed(records, k) ==
    IF torn /\ k > 0 THEN file \o SubSeq(records, 2, k) ELSE file \o SubSeq(records, 1, k)

\* JsonlOutput.write, of a file that is open.
JsonlWrite(p) ==
    LET records == Append(buffer, <<p, run>>) IN
    /\ written' = Append(written, <<p, run>>)
    /\ \E k \in 0 .. Len(records) :
           /\ file' = Landed(records, k)
           /\ buffer' = SubSeq(records, k + 1, Len(records))
           /\ torn' = (torn /\ k = 0)
           /\ cut' \in IF k = Len(records) THEN {FALSE} ELSE IF k = 0 /\ cut THEN {TRUE} ELSE BOOLEAN
    /\ UNCHANGED <<run, open, rows, refused, crashed>>

Upsert(p) == rows' = [rows EXCEPT ![p] = run]

\* DuckDbOutput.write; _emit catches its errors.
DuckDbWrite(p, ok) ==
    /\ \/ ok /\ Upsert(p) /\ UNCHANGED refused
       \/ ~ok /\ Cardinality(refused) < MaxRefusals
          /\ refused' = refused \union {<<p, run>>} /\ UNCHANGED rows
    /\ UNCHANGED <<run, open, buffer, cut, file, torn, written, crashed>>

\* Mutant: close() drops what is buffered.
CloseUnflushed == UNCHANGED file

Flush == file' = Landed(buffer, Len(buffer))

\* close()
OutputClose ==
    /\ open' = FALSE
    /\ Flush
    /\ buffer' = <<>> /\ cut' = FALSE /\ torn' = (torn /\ buffer = <<>>)
    /\ UNCHANGED <<run, rows, written, refused, crashed>>

\* The process dies.
OutputCrash ==
    /\ open' = FALSE /\ buffer' = <<>> /\ cut' = FALSE
    /\ file' = IF cut /\ ~torn THEN Append(file, Bad) ELSE file
    /\ torn' = (torn \/ cut)
    /\ crashed' = crashed \union {run}
    /\ UNCHANGED <<run, rows, written, refused>>

NextRun ==
    /\ run < MaxRuns /\ run' = run + 1
    /\ UNCHANGED <<open, buffer, cut, file, torn, rows, written, refused, crashed>>

OutputTypeOK ==
    LET Records == Pages \X (1 .. run) IN
    /\ run \in 1 .. MaxRuns /\ {open, cut, torn} \subseteq BOOLEAN
    /\ {buffer, written} \subseteq Seq(Records) /\ file \in Seq(Records \union {Bad})
    /\ cut => buffer # <<>>
    /\ rows \in [Pages -> 0 .. run] /\ refused \subseteq Records /\ crashed \subseteq 1 .. run
=============================================================================
