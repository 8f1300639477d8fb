---------------------------- MODULE FetchResult ----------------------------
(***************************************************************************)
(* The FetchResult of sources/base.py, of which the crawl looks at the     *)
(* status and at whether there is a body.                                  *)
(***************************************************************************)
CONSTANT Pages      \* URLs

NoAnswer == [status |-> "none", html |-> FALSE]
Failed == [status |-> "FAILED", html |-> FALSE]

Answers == [status : {"none", "SUCCESS", "RATE_LIMITED", "FAILED"}, html : BOOLEAN]

\* FetchResult.ok
Ok(result) == result.status = "SUCCESS" /\ result.html
=============================================================================
