----------------------------- MODULE MCEncloser -----------------------------
(***************************************************************************)
(* Small zones over every letter case and asterisk, and chains deep enough *)
(* for the search to bisect, with a short and a root origin.               *)
(***************************************************************************)
EXTENDS NameIndex

a == <<97>>
A == <<65>>
ab == <<97, 98>>
b == <<98>>
star == WILDCARD_LABEL

\* The chain of n labels `a', and its ancestors down from the m-th.
Chain(n) == [i \in 1..n |-> a]
Down(m, n) == [i \in 1..(n - m + 1) |-> Chain(m + i - 1)]

\* Zones in arena order, in the case an operator may write each owner.
Small ==
    {<< <<>> >>,
     << <<>>, <<star>>, <<a>>, <<a, star>>, <<a, star, star>>, <<ab>>, <<b>>, <<b, a>> >>,
     << <<A>>, <<A, star>>, <<A, a>>, <<a, A, a>>, <<a, A, a, star>>, <<A, ab>>,
        <<a, b>>, <<a, b, b>>, <<a, b, b, b>> >>,
     << <<a>>, <<a, b>>, <<A, b, star>>, <<a, b, star, a>>, <<a, b, A>> >>}

\* A chain to some depth, and the deepest chain the zone has beside it.
Deep(m, n, k) ==
    Down(m, n) \o [i \in 1..(k - n) |-> Append(Chain(n), b) \o Chain(i - 1)]

MCArenas ==
    Small \cup {Deep(m, n, k) : m \in {0, 2}, n \in 2..9, k \in {9, 14}}

MCQueries ==
    UNION {[1..n -> {a, ab, b, star}] : n \in 1..4}
    \cup {Chain(n) : n \in 5..15}

MCSeeds == {0, 11}

MCOrigins == 0..2
MCDepths == 0..15
=============================================================================
