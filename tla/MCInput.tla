------------------------------ MODULE MCInput ------------------------------
(***************************************************************************)
(* Databases of up to three rules.  Two rules are equally confident, one   *)
(* less so and one is GPL.  Prefixes of no bits, of the full width and     *)
(* beyond, nested and in two families; names that are nested, differ in    *)
(* case, end in a dot, have an empty label or too many; patterns with and  *)
(* without wildcards.  The hashes collide and wrap around, the tables      *)
(* start with two slots, grow, and run out of memory.                      *)
(***************************************************************************)
EXTENDS Input, TLC

CONSTANT none

Sig(a, c, l) == [app |-> a, conf |-> c, lic |-> l]
MCRules == {Sig(1, 40, 0), Sig(2, 80, 0), Sig(3, 80, 1), Sig(4, 90, 2)}

MCBits == (4 :> 2) @@ (6 :> 3)
Prefixes(a, S) == {[af |-> a, addr |-> x[1], len |-> x[2], rule |-> r] : x \in S, r \in MCRules}
MCCidrRecords ==
    Prefixes(4, {<<<<0, 0>>, 0>>, <<<<0, 0>>, 1>>, <<<<0, 1>>, 2>>, <<<<0, 0>>, 2>>,
                 <<<<1, 1>>, 2>>, <<<<1, 1>>, 3>>})
    \union Prefixes(6, {<<<<0, 1, 0>>, 1>>, <<<<0, 1, 0>>, 3>>, <<<<0, 1, 0>>, 4>>})

MCLabels == {"com", "org", "a", "A", "b", "xa"}
MCLabelHash ==
    ("com" :> 1) @@ ("org" :> 2) @@ ("a" :> 3) @@ ("A" :> 3) @@ ("b" :> 4) @@ ("xa" :> 5)
MCEdgeHome(k) == k[1] + k[2]
Named(S, E, R) == [name : S, exact : {E}, rule : R]
MCDomainRecords ==
    LET low == Sig(1, 40, 0)
        high == {Sig(2, 80, 0), Sig(3, 80, 1)}
    IN  Named({<<"com">>, <<"A", "com", "">>}, FALSE, {low} \union high)
        \union Named({<<"a", "com">>}, TRUE, {low} \union high)
        \union Named({<<"a", "com">>}, FALSE, high)
        \union Named({<<"b", "a", "com">>, <<"xa", "com">>}, TRUE, {low})
        \union Named({<<"b", "a", "com">>, <<"b", "org">>, <<"a", "", "com">>}, FALSE, {low})
        \union Named({<<"org">>}, FALSE, {Sig(4, 90, 2)})
MCQueries ==
    {<<"">>, <<"org">>, <<"com">>, <<"A", "com">>, <<"a", "com", "">>, <<"xa", "com">>,
     <<"b", "a", "com">>, <<"b", "xa", "com">>, <<"b", "org">>, <<"a", "", "com">>,
     <<"a", "b", "a", "com">>}

MCKeyHome(w) == IF w[1] = w[2] THEN 3 ELSE 1
MCPayloadRecords ==
    [value : {<<0, 0, 0>>, <<0, 1, 0>>, <<1, 1, 0>>}, mask : {{1, 2, 3}}, rule : MCRules]
    \union [value : {<<0, 0, 0>>, <<1, 1, 0>>}, mask : {{1, 2}, {3}, {}}, rule : MCRules]
=============================================================================
