----------------------------- MODULE MCHandler ------------------------------
(* Two queries against three configurations: the zone with and without the *)
(* built-ins, and another zone.                                             *)
EXTENDS Handler

CONSTANTS q1, q2, ip1, ip2

MCRank == [l \in {"*", "a", "b", "hello", "counter", "myip", "version"} |->
    CASE l = "*" -> 1 [] l = "a" -> 2 [] l = "b" -> 3 [] l = "counter" -> 4
      [] l = "hello" -> 5 [] l = "myip" -> 6 [] l = "version" -> 7]

Run(rtype, values) == [rtype |-> rtype, ttl |-> 1, rdata |-> values]

\* An alias into a delegated subtree with glue.
FirstZone ==
    (<<>> :> <<Run("NS", <<Outside>>), Run("SOA", <<ip1>>)>>)
    @@ (<<"a">> :> <<Run("CNAME", <<<<"b", "a">>>>)>>)
    @@ (<<"b">> :> <<Run("NS", <<<<"b", "a">>, Outside>>)>>)
    @@ (<<"b", "a">> :> <<Run("A", <<ip1>>)>>)

\* A wildcard and nothing else.
SecondZone ==
    (<<>> :> <<Run("NS", <<Outside>>), Run("SOA", <<ip2>>)>>)
    @@ (<<"*">> :> <<Run("A", <<ip2>>), Run("TXT", <<ip2>>)>>)

MCActives ==
    {[zone |-> Finish(FirstZone, FALSE, 6), builtins |-> TRUE],
     [zone |-> Finish(FirstZone, FALSE, 6), builtins |-> FALSE],
     [zone |-> Finish(SecondZone, FALSE, 4), builtins |-> TRUE]}

Plain(protocol, edns, name, qtype) ==
    [protocol |-> protocol, message_type |-> "Query", op_code |-> "Query",
     edns |-> edns, max_payload |-> 2, qdcount |-> 1, class |-> "IN", name |-> name, qtype |-> qtype,
     src |-> [rtype |-> "A", data |-> ip1]]

\* One input per gate, and those that reach the zone and the built-ins.
AllInputs ==
    LET ok == Plain("Udp", Nothing, <<"a">>, "A") IN
    {ok, [ok EXCEPT !.protocol = "Tcp"]}
    \cup {[ok EXCEPT !.edns = 0, !.max_payload = offered] : offered \in {0, 2, 9}}
    \cup
    {Plain("Tcp", 0, <<"b">>, "A"),
     [ok EXCEPT !.message_type = "Response"],
     [ok EXCEPT !.op_code = "Notify", !.edns = 1],
     [ok EXCEPT !.edns = 1, !.class = "CH"],
     [ok EXCEPT !.qdcount = 2],
     [ok EXCEPT !.class = "CH"],
     [ok EXCEPT !.qtype = "AXFR", !.protocol = "Tcp"],
     [ok EXCEPT !.qtype = "OPT"], [ok EXCEPT !.qtype = "MAILB"],
     Plain("Tcp", Nothing, <<"b", "a">>, "ANY"),
     Plain("Udp", Nothing, <<"a">>, "ANY"),
     Plain("Udp", 0, <<"counter">>, "TXT"),
     Plain("Udp", 0, <<"hello", "a">>, "TXT"),
     Plain("Tcp", Nothing, <<"myip">>, "A"),
     Plain("Udp", Nothing, <<"version">>, "A"),
     Plain("Udp", Nothing, Outside, "A")}

\* What a reload can get between.
FewInputs ==
    {Plain("Udp", Nothing, <<"a">>, "A"),
     [Plain("Udp", Nothing, <<"a">>, "A") EXCEPT !.class = "CH"],
     Plain("Tcp", Nothing, <<"hello">>, "TXT")}

\* Every kind of query next to every kind a reload or a refusal can disturb.
MCInputs == (q1 :> AllInputs) @@ (q2 :> FewInputs)
=============================================================================
