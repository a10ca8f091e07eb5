------------------------------ MODULE MCEditor ------------------------------
(* Two processes, one directory, a file with two tables for www A.          *)
EXTENDS Editor

CONSTANTS e1, e2

Block(name, rtype, ttl, values) ==
    [name |-> name, rtype |-> rtype, ttl |-> ttl, values |-> values]

WwwA(values) == Block("www", "A", Unset, values)

\* A record set that is split over two tables, which insert_spec merges, and
\* another of the same name.
MCDocuments ==
    {[serial |-> 2025123198,
      records |-> <<WwwA(<<"1">>), [WwwA(<<"3">>) EXCEPT !.name = " WWW"],
                    Block("www", "TXT", 60, <<"t">>)>>]}

MCTrimmed == [n \in {"www", " WWW", "www.", "@"} |-> IF n = " WWW" THEN "www" ELSE n]
MCUndotted == [n \in DOMAIN MCTrimmed |-> IF n = "@" THEN "@" ELSE "www"]

\* The last days of 2025 and the first of 2026.
MCDays == {20453, 20454}

MCStarter == [serial |-> 1, records |-> <<Block("@", "NS", Unset, <<"ns1">>)>>]

Add(rtype, values, ttl, replace) ==
    [op |-> "add", name |-> "www", rtype |-> rtype, values |-> values,
     ttl |-> ttl, replace |-> replace, bump |-> ttl # Unset]

Delete(rtype, values) ==
    [op |-> "delete", name |-> "www", rtype |-> rtype,
     values |-> values, bump |-> FALSE]

MCCommands ==
    {Add("A", <<"2", "1">>, 60, FALSE), Add("A", <<"2">>, Unset, TRUE),
     Add("A", <<"2", "bad">>, Unset, FALSE), Add("TXT", <<"u">>, Unset, FALSE),
     Delete(Unset, <<"1">>), Delete("A", <<>>),
     [op |-> "bump-serial"], [op |-> "init"],
     [op |-> "get", name |-> "www.", rtype |-> Unset]}

\* `vega record add www A 2 --replace'
ReplaceOnly == {Add("A", <<"2">>, Unset, TRUE)}

EditorSymmetry == Permutations(Editors)
=============================================================================
