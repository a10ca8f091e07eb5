------------------------------- MODULE Arena --------------------------------
(***************************************************************************)
(* The memory layout of a zone in src/zone.rs: three arenas, for the nodes *)
(* in canonical order, the RRsets and their rdata, held together by        *)
(* half-open ranges and node indices.  Zone.tla is about the records by    *)
(* name; here they are laid out as ZoneBuilder::finish does it and read    *)
(* back as the query path does it.  Offsets count from 0, node indices     *)
(* from 1, and 0 is NodeIdx::NONE.                                         *)
(***************************************************************************)
EXTENDS Zone

CONSTANT TypeCode    \* [record types -> Nat]: the numbers of RFC 1035 section 3.2.2

ASSUME TypesAssumption ==
    /\ TypeCode \in [DOMAIN TypeCode -> Nat]
    /\ \A t, u \in DOMAIN TypeCode : TypeCode[t] = TypeCode[u] => t = u

NONE == 0

IndexOf(order, name) == CHOOSE i \in DOMAIN order : order[i] = name

\* The runs before the one at i: those of a lower type, and those of its own
\* type that came first, as the sort is stable.
Sooner(runs, i) ==
    {j \in DOMAIN runs : \/ TypeCode[runs[j].rtype] < TypeCode[runs[i].rtype]
                         \/ runs[j].rtype = runs[i].rtype /\ j < i}

\* Mutant of SortRuns: the runs stay in the order of the configuration.
RunsAsWritten(runs) == runs

\* A node's RRsets by ascending type.
SortRuns(runs) ==
    [k \in DOMAIN runs |->
        runs[CHOOSE i \in DOMAIN runs : Cardinality(Sooner(runs, i)) = k - 1]]

\* NodeFlags of a node: its position relative to a cut, an asterisk in front,
\* an alias.
Flags(zone, name) ==
    {flag \in {"DELEGATION", "GLUE", "WILDCARD", "HAS_CNAME"} :
        CASE flag = "DELEGATION" -> zone.cut[name] = name
          [] flag = "GLUE" -> zone.cut[name] \notin {NoCut, name}
          [] flag = "WILDCARD" -> IsWildcard(name)
          [] flag = "HAS_CNAME" -> Has(zone.nodes[name], "CNAME")}

\* Appends one run's rdata and the Rrset that points at them.
PlaceRun(arena, run) ==
    LET start == Len(arena.rdata) IN
    [nodes |-> arena.nodes,
     rrsets |-> Append(arena.rrsets, [rtype |-> run.rtype, ttl |-> run.ttl,
                                      rdata |-> <<start, start + Len(run.rdata)>>]),
     rdata |-> arena.rdata \o run.rdata]

\* One after the other.
PlaceRuns(arena, runs) ==
    LET laid[i \in 0..Len(runs)] == IF i = 0 THEN arena ELSE PlaceRun(laid[i - 1], runs[i])
    IN laid[Len(runs)]

\* The index of the cut a node is at or below.
CutIndex(zone, order, name) ==
    IF zone.cut[name] = NoCut THEN NONE ELSE IndexOf(order, zone.cut[name])

\* One node: its RRsets, then the Node that points at them.
Place(zone, order, arena, name) ==
    LET laid == PlaceRuns(arena, SortRuns(zone.nodes[name])) IN
    [nodes |-> Append(arena.nodes,
                  [name |-> name,
                   rrsets |-> <<Len(arena.rrsets), Len(laid.rrsets)>>,
                   cut |-> CutIndex(zone, order, name),
                   flags |-> Flags(zone, name)]),
     rrsets |-> laid.rrsets,
     rdata |-> laid.rdata]

\* The loop of finish over the canonical order.
LayOut(zone) ==
    LET order == CanonicalOrder(DOMAIN zone.nodes)
        laid[i \in 0..Len(order)] ==
            IF i = 0 THEN [nodes |-> <<>>, rrsets |-> <<>>, rdata |-> <<>>]
            ELSE Place(zone, order, laid[i - 1], order[i])
    IN laid[Len(order)]

\* A range of an arena, as slice::get takes it.
span(items, range) == SubSeq(items, range[1] + 1, range[2])

\* One pass of the binary search for the first RRset of a type not in `below'.
Halve(all, below, window) ==
    LET low == window[1]
        high == window[2]
        mid == (low + high) \div 2
    IN IF low >= high THEN window
       ELSE IF all[mid + 1].rtype \in below THEN <<mid + 1, high>> ELSE <<low, mid>>

\* Its position, which no more passes than there are RRsets leave open.
partition_point(all, below) ==
    LET window[k \in 0..Len(all)] ==
            IF k = 0 THEN <<0, Len(all)>> ELSE Halve(all, below, window[k - 1])
    IN window[Len(all)][1]

\* The RRsets of a type at a node, between two partition points.
rrsets_of(arena, node, rtype) ==
    LET all == span(arena.rrsets, node.rrsets) IN
    span(all, <<partition_point(all, {t \in DOMAIN TypeCode : TypeCode[t] < TypeCode[rtype]}),
                partition_point(all, {t \in DOMAIN TypeCode : TypeCode[t] <= TypeCode[rtype]})>>)

\* The records of a slice of RRsets, owned by `owner'.
EmitRun(arena, run, owner) ==
    LET Of(rrset) ==
            LET values == span(arena.rdata, rrset.rdata) IN
            [i \in DOMAIN values |->
                [owner |-> owner, rtype |-> rrset.rtype, ttl |-> rrset.ttl, data |-> values[i]]]
    IN FlattenSeq([i \in DOMAIN run |-> Of(run[i])])

\* What holds of the arenas after every build: the apex first, strict
\* canonical order, ancestry closed, ranges in bounds, in type order and not
\* empty, depths in the window, and flags, cuts and referrals that agree.
debug_assert_invariants(zone, arena) ==
    LET nodes == arena.nodes
        names == {nodes[i].name : i \in DOMAIN nodes}
        InBounds(range, items) == range[1] <= range[2] /\ range[2] <= Len(items)
    IN /\ nodes[1].name = Apex
       /\ \A i \in 1..(Len(nodes) - 1) : Precedes(nodes[i].name, nodes[i + 1].name)
       /\ \A n \in names : n = Apex \/ Front(n) \in names
       /\ \A i \in DOMAIN nodes :
             LET node == nodes[i]
                 rrsets == span(arena.rrsets, node.rrsets)
             IN /\ InBounds(node.rrsets, arena.rrsets)
                /\ \A j \in 1..(Len(rrsets) - 1) :
                      TypeCode[rrsets[j].rtype] <= TypeCode[rrsets[j + 1].rtype]
                /\ \A j \in DOMAIN rrsets :
                      /\ InBounds(rrsets[j].rdata, arena.rdata)
                      /\ span(arena.rdata, rrsets[j].rdata) # <<>>
                /\ Len(node.name) <= zone.max_depth
                /\ "DELEGATION" \in node.flags <=> node.cut = i
                /\ "GLUE" \in node.flags <=> node.cut \notin {NONE, i}
                /\ node.cut = i => node.name \in DOMAIN zone.referrals
                /\ node.cut # NONE => IsPrefix(nodes[node.cut].name, node.name)
=============================================================================
