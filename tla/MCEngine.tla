------------------------------ MODULE MCEngine ------------------------------
(***************************************************************************)
(* Two slots and three flows, two of which hash to slot 0 and one to slot  *)
(* 1: every kind of displacement, wrap-around and eviction happens.  One   *)
(* flow runs between a listed exit and a server in a cloud range, the      *)
(* others, in TCP and UDP, between endpoints no rule knows.  Name rules of *)
(* tiers B and C; the name of tier B is less confident than the exit.      *)
(***************************************************************************)
EXTENDS Engine, TLC

CONSTANTS e1, e2, e3, srv, tls, none

Rule(a, t, c) == [app |-> a, tier |-> t, conf |-> c]
Aws == Rule(1, 2, 40)
Tor == Rule(2, 2, 75)
Netflix == Rule(3, 1, 70)
Shared == Rule(4, 2, 60)

MCRules == {Aws, Tor, Netflix, Shared}
MCNameRules == {Netflix, Shared}
MCAddressRule == (srv :> Aws) @@ (e2 :> Tor) @@ [e \in {e1, e3} |-> none]
MCHome == [x \in (SUBSET Endpoints) \X Protos |->
              IF x \in {<<{e1, e3}, "udp">>, <<{srv}, "tcp">>} THEN 1 ELSE 0]
Between(a, b, proto) ==
    {[src |-> a, dst |-> b, proto |-> proto], [src |-> b, dst |-> a, proto |-> proto]}
MCTraffic == Between(e1, e3, "tcp") \union Between(e2, srv, "tcp") \union Between(e1, e3, "udp")
=============================================================================
