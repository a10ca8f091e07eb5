------------------------------- MODULE MCZone -------------------------------
(* Files over the labels a, b and the asterisk, up to four labels deep. *)
EXTENDS ZoneBuild

CONSTANTS ip1, ip2, garbage, long

MCRank == [l \in {"*", "a", "b"} |-> CASE l = "*" -> 1 [] l = "a" -> 2 [] l = "b" -> 3]

MCTypeCode == [t \in {"A", "NS", "CNAME", "SOA", "TXT", "AAAA"} |->
    CASE t = "A" -> 1 [] t = "NS" -> 2 [] t = "CNAME" -> 5
      [] t = "SOA" -> 6 [] t = "TXT" -> 16 [] t = "AAAA" -> 28]

Block(owner, rtype, ttl, values) ==
    [owner |-> owner, rtype |-> rtype, ttl |-> ttl, values |-> values]

ApexNs == Block(Apex, "NS", 1, <<Outside>>)
ApexSoa == Block(Apex, "SOA", 1, <<ip1>>)

\* Every shape of data the lookup tells apart.
Shapes ==
    {Block(<<"a">>, "A", 1, <<ip1>>),
     Block(<<"a">>, "NS", 1, <<<<"a", "b">>>>),
     Block(<<"a", "b">>, "A", 1, <<ip1>>),
     Block(<<"a", "b">>, "TXT", 1, <<ip1, ip2>>),
     Block(<<"a", "b">>, "NS", 1, <<Outside>>),
     Block(<<"b">>, "NS", 1, <<Outside, <<"a", "b">>>>),
     Block(<<"b">>, "CNAME", 1, <<<<"a">>>>),
     Block(<<"a">>, "CNAME", 1, <<<<"b">>>>),
     Block(<<"*">>, "A", 1, <<ip2>>),
     Block(<<"*">>, "CNAME", 1, <<<<"a">>>>),
     Block(<<"b", "*">>, "TXT", 1, <<ip1>>),
     Block(<<"b", "*", "a">>, "A", 1, <<ip1>>),
     Block(<<"b", "a", "a", "a">>, "A", 1, <<ip1>>)}

\* Delegations only.
CutShapes ==
    {Block(<<"a">>, "NS", 1, <<<<"a", "b">>>>),
     Block(<<"a", "b">>, "NS", 1, <<Outside>>),
     Block(<<"b">>, "NS", 1, <<<<"a", "b">>>>),
     Block(<<"a", "b">>, "A", 1, <<ip1>>),
     Block(<<"*">>, "A", 1, <<ip2>>)}

\* Blocks that check_invariants or insert_spec must judge.
Judged ==
    {ApexNs, ApexSoa,
     Block(Apex, "SOA", 2, <<ip1>>),
     Block(<<"a">>, "SOA", 1, <<ip1>>),
     Block(<<"*">>, "NS", 1, <<Outside>>),
     Block(<<"a">>, "A", 1, <<ip1>>),
     Block(<<"a">>, "A", 1, <<ip2>>),
     Block(<<"a">>, "A", 2, <<ip2>>),
     Block(<<"a">>, "CNAME", 1, <<<<"b">>>>),
     Block(<<"a">>, "CNAME", 1, <<Outside, <<"b">>>>),
     Block(<<"a">>, "NS", 1, <<Outside>>),
     Block(<<"a", "b">>, "TXT", 1, <<ip1, ip2>>),
     Block(<<"b", "b", "b", "b", "*">>, "A", 1, <<ip2>>),
     Block(<<"b", "b", "b", "b", "b", "*">>, "A", 1, <<ip1>>),
     Block(<<"b", "b", "b", "b", "b", "b">>, "A", 1, <<ip1>>),
     Block(<<"b">>, "A", 1, <<>>),
     Block(<<"b">>, "A", 1, <<ip1, garbage>>),
     Block(<<"b">>, "A", 1, <<long>>),
     Block(Outside, "A", 1, <<ip1>>)}

MCSuites ==
    {[preamble |-> <<ApexNs>>, specs |-> Shapes, max |-> 4],
     [preamble |-> <<>>, specs |-> Judged, max |-> 3]}

CutSuites == {[preamble |-> <<ApexNs>>, specs |-> CutShapes, max |-> 2]}

MCNames ==
    {<<>>, <<"*">>, <<"a">>, <<"b">>, <<"*", "a">>, <<"a", "a">>, <<"a", "b">>,
     <<"b", "*">>, <<"b", "a">>, <<"b", "b">>, <<"a", "b", "a">>, <<"b", "a", "a">>,
     <<"b", "*", "a">>, <<"b", "a", "a", "a">>, <<"b", "a", "b", "b", "b">>,
     <<"b", "b", "b", "b", "b">>}

MCTypes == {"A", "NS", "TXT", "CNAME", "ANY"}
=============================================================================
