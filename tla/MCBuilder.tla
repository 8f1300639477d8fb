----------------------------- MODULE MCBuilder -----------------------------
(***************************************************************************)
(* Some of the feeds in the order sigc.py loads them: netify (permissive), *)
(* OpenAppID (GPL), the hosts of MMT-DPI (permissive), libprotoident       *)
(* (LGPL), the payloads of MMT-DPI and the cloud feeds (permissive).  Two  *)
(* spellings of one identity, one of them the target of an alias; a        *)
(* dropped slug.  A domain and the same domain with a leading dot, a       *)
(* prefix, and a good, a refused and a noisy payload.                      *)
(***************************************************************************)
EXTENDS Builder, TLC

CONSTANTS epicgames, epic_games, epic, go, k1, k2, d1, dot_d1, c1, ssh, tls, zeros

MCFeeds == <<0, 2, 0, 1, 0, 0>>
MCShape == <<"table", "hosts", "hosts", "harvest", "harvest", "prefixes">>
MCKey == (epicgames :> k1) @@ (epic_games :> k1) @@ [s \in {epic, go} |-> k2]
MCAliasOf == epic :> epic_games
MCKind ==
    [p \in {d1, dot_d1} |-> "domain"] @@ (c1 :> "cidr") @@ [p \in {ssh, tls, zeros} |-> "payload"]
MCNorm == (dot_d1 :> d1) @@ [p \in {d1, c1, ssh, tls, zeros} |-> p]
=============================================================================
