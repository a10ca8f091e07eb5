-------------------------------- MODULE Zone --------------------------------
(***************************************************************************)
(* The zone data model of src/zone.rs: what the build makes of a set of    *)
(* records, and what a query finds in it.                                  *)
(*                                                                         *)
(* A name is the sequence of its labels from the apex down, relative to    *)
(* the origin: <<>> is the apex, <<"b", "a">> is a.b.<origin>, and an      *)
(* ancestor is a prefix.  A name outside the zone is Outside.  An rdata is *)
(* a name for NS and CNAME and an opaque value otherwise.  A node of the   *)
(* arena is its sequence of runs: [rtype, ttl, rdata].                     *)
(*                                                                         *)
(* A probe is set membership here and names have one letter case: the      *)
(* suffix hashes and the index are NameIndex.tla, the arenas Arena.tla.    *)
(***************************************************************************)
EXTENDS Naturals, FiniteSets, SequencesExt

CONSTANTS
    Rank,      \* [labels -> Nat]: the canonical order of single labels
    Outside,   \* a name that is not in the zone
    NoCut,     \* NodeIdx::NONE
    Soa,       \* the rdata of the [zone.soa] table
    MAX_LABELS \* the longest name the wire can carry, in labels

MAX_CNAME_DEPTH == 8

\* The names of the zone.
ZoneNames == Seq(DOMAIN Rank)

ASSUME NamesAssumption ==
    /\ Rank \in [DOMAIN Rank -> Nat]
    /\ \A l, m \in DOMAIN Rank : Rank[l] = Rank[m] => l = m
    /\ Outside \notin ZoneNames
    /\ NoCut \notin ZoneNames \cup {Outside}
    /\ MAX_LABELS \in Nat \ {0}

Apex == <<>>

contains(name) == name # Outside

IsWildcard(name) == name # Apex /\ Last(name) = "*"

\* A map with one more entry, or with one replaced.
Put(map, key, value) ==
    [k \in DOMAIN map \cup {key} |-> IF k = key THEN value ELSE map[k]]

\* The runs of some types, in order.
Retain(runs, types) ==
    FlattenSeq([i \in DOMAIN runs |-> IF runs[i].rtype \in types THEN <<runs[i]>> ELSE <<>>])

RunsOf(runs, rtype) == Retain(runs, {rtype})

Has(runs, rtype) == \E i \in DOMAIN runs : runs[i].rtype = rtype

\* The rdata of every run of a type, in order.
Values(runs, rtype) ==
    FlattenSeq([i \in DOMAIN RunsOf(runs, rtype) |-> RunsOf(runs, rtype)[i].rdata])

-----------------------------------------------------------------------------
(* The build. *)

\* A block joins the last run of its type when the TTLs agree, and starts a
\* run of its own when they do not.
AddRun(runs, spec) ==
    LET same == {i \in DOMAIN runs : runs[i].rtype = spec.rtype} IN
    IF same # {} /\ runs[Max(same)].ttl = spec.ttl
    THEN [runs EXCEPT ![Max(same)].rdata = @ \o spec.values]
    ELSE Append(runs, [rtype |-> spec.rtype, ttl |-> spec.ttl,
                       rdata |-> spec.values])

\* Mutant of materialise_ancestors: only the declared owners are nodes.
OwnersOnly(scratch) ==
    [n \in {Apex} \cup DOMAIN scratch |->
        IF n \in DOMAIN scratch THEN scratch[n] ELSE <<>>]

\* The apex and every ancestor of an owner are nodes, with no records of
\* their own unless declared.
materialise_ancestors(scratch) ==
    [n \in {Apex} \cup UNION {Prefixes(o) : o \in DOMAIN scratch} |->
        IF n \in DOMAIN scratch THEN scratch[n] ELSE <<>>]

\* Mutant of check_invariants: I-7 is not checked.
CheckAnyTtl(nodes, soaInConfig) ==
    /\ \A n \in DOMAIN nodes :
          /\ n # Apex => ~Has(nodes[n], "SOA")
          /\ IsWildcard(n) => ~Has(nodes[n], "NS")
          /\ Has(nodes[n], "CNAME") => Len(nodes[n]) = 1
          /\ Len(Values(nodes[n], "CNAME")) <= 1
    /\ Len(Values(nodes[Apex], "SOA")) = IF soaInConfig THEN 0 ELSE 1
    /\ Has(nodes[Apex], "NS")

\* I-4 to I-8: one SOA, at the apex only; an apex NS RRset; a CNAME alone
\* and single; one TTL per RRset; no wildcard delegation.
check_invariants(nodes, soaInConfig) ==
    /\ \A n \in DOMAIN nodes :
          LET runs == nodes[n] IN
          /\ \A i, j \in DOMAIN runs : runs[i].rtype = runs[j].rtype => i = j
          /\ n # Apex => ~Has(runs, "SOA")
          /\ IsWildcard(n) => ~Has(runs, "NS")
          /\ Has(runs, "CNAME") => Len(runs) = 1
          /\ Len(Values(runs, "CNAME")) <= 1
    /\ Len(Values(nodes[Apex], "SOA")) = IF soaInConfig THEN 0 ELSE 1
    /\ Has(nodes[Apex], "NS")

\* RFC 4034 section 6.1, label by label from the right.
Precedes(m, n) ==
    \/ IsStrictPrefix(m, n)
    \/ \E i \in 1..Min({Len(m), Len(n)}) :
          /\ SubSeq(m, 1, i - 1) = SubSeq(n, 1, i - 1)
          /\ Rank[m[i]] < Rank[n[i]]

CanonicalOrder(names) ==
    [i \in 1..Cardinality(names) |->
        CHOOSE n \in names : Cardinality({m \in names : Precedes(m, n)}) = i - 1]

\* The ancestors of n still on the stack once the others are popped.
PopTo(ancestry, n) ==
    LET above == {i \in DOMAIN ancestry : IsStrictPrefix(ancestry[i], n)} IN
    SubSeq(ancestry, 1, IF above = {} THEN 0 ELSE Max(above))

\* Mutant of Visit: the stack is never popped.
VisitWithoutPop(nodes, acc, n) ==
    [ancestry |-> Append(acc.ancestry, n),
     cut_of |-> Put(acc.cut_of, n,
        IF n # Apex /\ Has(nodes[n], "NS") THEN n
        ELSE IF acc.ancestry = <<>> THEN NoCut ELSE acc.cut_of[Last(acc.ancestry)])]

\* A node with an NS RRset is its own cut, the apex excepted; any other inherits
\* the cut of its parent, the top of the stack of ancestors.
Visit(nodes, acc, n) ==
    LET ancestry == PopTo(acc.ancestry, n)
        inherited == IF ancestry = <<>> THEN NoCut ELSE acc.cut_of[Last(ancestry)]
        cut == IF n # Apex /\ Has(nodes[n], "NS") THEN n ELSE inherited
    IN [ancestry |-> Append(ancestry, n), cut_of |-> Put(acc.cut_of, n, cut)]

\* One pass in canonical order.
layout(nodes) ==
    LET order == CanonicalOrder(DOMAIN nodes)
        pass[i \in 0..Len(order)] ==
            IF i = 0 THEN [ancestry |-> <<>>, cut_of |-> <<>>]
            ELSE Visit(nodes, pass[i - 1], order[i])
    IN pass[Len(order)].cut_of

ns_targets(runs) == ToSet(Values(runs, "NS"))

\* Mutant of apply_cut: everything at a glue name is kept.
ApplyCutKeepsGlueName(nodes, cut, n) ==
    IF cut = NoCut \/ n \in ns_targets(nodes[cut]) THEN nodes[n]
    ELSE Retain(nodes[n], IF n = cut THEN {"NS"} ELSE {})

\* What stays of the node n: at a cut the NS RRset, at or below it the
\* addresses of a target of that cut; without a cut, everything.
apply_cut(nodes, cut, n) ==
    IF cut = NoCut THEN nodes[n]
    ELSE Retain(nodes[n],
                (IF n = cut THEN {"NS"} ELSE {})
                \cup (IF n \in ns_targets(nodes[cut]) THEN {"A", "AAAA"} ELSE {}))

\* The values of an arena, each by its node, its run and its place in it.
Stored(nodes) ==
    UNION {UNION {{<<n, i, j>> : j \in DOMAIN nodes[n][i].rdata} : i \in DOMAIN nodes[n]} :
              n \in DOMAIN nodes}

ValueCount(nodes) == Cardinality(Stored(nodes))

\* The records of the runs of one type, owned by `owner'.
emit(runs, rtype, owner) ==
    LET Records(run) ==
            [i \in DOMAIN run.rdata |->
                [owner |-> owner, rtype |-> rtype, ttl |-> run.ttl, data |-> run.rdata[i]]]
        all == RunsOf(runs, rtype)
    IN FlattenSeq([i \in DOMAIN all |-> Records(all[i])])

\* The in-zone addresses of a name server.
Addresses(nodes, target) ==
    IF contains(target) /\ target \in DOMAIN nodes
    THEN ToSet(emit(nodes[target], "A", target))
         \cup ToSet(emit(nodes[target], "AAAA", target))
    ELSE {}

\* One referral per delegation: its NS RRset, and the addresses its targets
\* have left in the arena.
build_referrals(nodes, cut_of) ==
    [c \in {n \in DOMAIN nodes : cut_of[n] = n} |->
        [authority |-> ToSet(emit(nodes[c], "NS", c)),
         additional |-> UNION {Addresses(nodes, t) : t \in ns_targets(nodes[c])}]]

\* Delegations that name a server inside themselves without an address.
MissingGlue(nodes, cut_of) ==
    LET Unreachable(c) ==
            {t \in ns_targets(nodes[c]) :
                contains(t) /\ IsPrefix(c, t) /\ Addresses(nodes, t) = {}}
    IN UNION {{c} \X Unreachable(c) : c \in {n \in DOMAIN nodes : cut_of[n] = n}}

\* ZoneBuilder::finish for a configuration that passes check_invariants.
Finish(scratch, soaInConfig, counted) ==
    LET nodes == materialise_ancestors(scratch)
        cut_of == layout(nodes)
        kept == [n \in DOMAIN nodes |-> apply_cut(nodes, cut_of[n], n)]
        apexSoa == emit(nodes[Apex], "SOA", Apex)
    IN [nodes |-> kept,
        cut |-> cut_of,
        soa |-> IF soaInConfig
                THEN [owner |-> Apex, rtype |-> "SOA", ttl |-> 0, data |-> Soa]
                ELSE apexSoa[1],
        max_depth |-> Min({MAX_LABELS, Max({Len(n) : n \in DOMAIN nodes})}),
        referrals |-> build_referrals(kept, cut_of),
        occluded |-> UNION {{<<n, run.rtype>> : run \in ToSet(nodes[n]) \ ToSet(kept[n])} :
                               n \in DOMAIN nodes},
        missing_glue |-> MissingGlue(kept, cut_of),
        record_count |-> counted - (ValueCount(nodes) - ValueCount(kept))]

-----------------------------------------------------------------------------
(* The lookup. *)

\* The node named by the `depth' labels nearest the apex.
node_at(zone, name, depth) == SubSeq(name, 1, depth) \in DOMAIN zone.nodes

encloser_window(zone, labels) ==
    <<0, Min({IF labels = 0 THEN 0 ELSE labels - 1, zone.max_depth, MAX_LABELS})>>

\* One pass of the loop of closest_encloser.
Narrow(zone, name, window) ==
    LET low == window[1]
        high == window[2]
        mid == low + (high - low + 1) \div 2
    IN IF low >= high THEN window
       ELSE IF node_at(zone, name, mid) THEN <<mid, high>> ELSE <<low, mid - 1>>

\* The loop over [floor, ceiling - 1], which no more passes than that can leave
\* open.
Bisect(zone, name, floor, ceiling) ==
    LET window[k \in 0..ceiling] ==
            IF k = 0 THEN <<floor, ceiling - 1>> ELSE Narrow(zone, name, window[k - 1])
    IN window[ceiling][1]

\* The deepest candidate is tried before the search.
DeepestWithin(zone, name, window) ==
    IF window[2] <= window[1] THEN window[1]
    ELSE IF node_at(zone, name, window[2]) THEN window[2]
    ELSE Bisect(zone, name, window[1], window[2])

\* The depth of the deepest proper ancestor that is a node.
closest_encloser(zone, name) ==
    DeepestWithin(zone, name, encloser_window(zone, Len(name)))

EncloserOf(zone, name) == SubSeq(name, 1, closest_encloser(zone, name))

\* The source of synthesis: `*' below the closest encloser, and no other.
wildcard_node(zone, name) == Append(EncloserOf(zone, name), "*")

source_of_synthesis(zone, name) == wildcard_node(zone, name) \in DOMAIN zone.nodes

exists(zone, name) ==
    name \in DOMAIN zone.nodes \/ source_of_synthesis(zone, name)

\* A Resolution together with the records emitted on the way.
Resolution(kind, cut, out) == [kind |-> kind, cut |-> cut, out |-> out]

\* What the encloser and the source of synthesis make of the name.
Synthesised(zone, cut, star, name, qtype) ==
    IF cut # NoCut THEN Resolution("Referral", cut, <<>>)
    ELSE IF star \notin DOMAIN zone.nodes THEN Resolution("NxDomain", NoCut, <<>>)
    ELSE IF qtype # "ANY" /\ Has(zone.nodes[star], qtype)
    THEN Resolution("Found", NoCut, emit(zone.nodes[star], qtype, name))
    ELSE Resolution("NoData", NoCut, <<>>)

\* RFC 1034 section 4.3.2 step 3(c), for a name that is not a node.
AtNothing(zone, name, qtype) ==
    Synthesised(zone, zone.cut[EncloserOf(zone, name)], wildcard_node(zone, name),
                name, qtype)

\* The alias in front of what its target resolved to: only a referral at the
\* far end changes what kind of answer it is.
Behind(alias, end) ==
    Resolution(IF end.kind = "Referral" THEN "Referral" ELSE "Found",
               end.cut, alias \o end.out)

\* An exact node answers from its cut, its type or its CNAME, which is followed
\* inside the zone as long as there are aliases `left' to follow.
AtNode(zone, name, qtype, left, further) ==
    LET node == zone.nodes[name]
        alias == emit(node, "CNAME", name)
        target == Values(node, "CNAME")[1]
    IN IF zone.cut[name] # NoCut
       THEN Resolution("Referral", zone.cut[name], <<>>)
       ELSE IF qtype # "ANY" /\ Has(node, qtype)
       THEN Resolution("Found", NoCut, emit(node, qtype, name))
       ELSE IF qtype \in {"ANY", "CNAME"} \/ ~Has(node, "CNAME") \/ IsWildcard(name)
       THEN Resolution("NoData", NoCut, <<>>)
       ELSE IF left = 0 \/ ~contains(target)
       THEN Resolution("Found", NoCut, alias)
       ELSE Behind(alias, further[target])

ResolveAt(zone, name, qtype, left, further) ==
    IF ~contains(name) THEN Resolution("NxDomain", NoCut, <<>>)
    ELSE IF name \notin DOMAIN zone.nodes THEN AtNothing(zone, name, qtype)
    ELSE AtNode(zone, name, qtype, left, further)

\* Zone::resolve, for a name that MAX_CNAME_DEPTH aliases may lead away from.
resolve(zone, qname, qtype) ==
    LET R[left \in 0..MAX_CNAME_DEPTH] ==
            [name \in ZoneNames \cup {Outside} |->
                ResolveAt(zone, name, qtype, left, R[left - 1])]
    IN R[MAX_CNAME_DEPTH][qname]

\* Zone::referral: the referral assembled at build time for a cut.
ReferralAt(zone, cut, answers) ==
    [kind |-> "Referral", answers |-> answers,
     authority |-> zone.referrals[cut].authority,
     additional |-> zone.referrals[cut].additional]

\* A Resolution as an Answer.
AsAnswer(zone, r) ==
    CASE r.kind = "Found" -> [kind |-> "Records", answers |-> r.out]
      [] r.kind = "Referral" -> ReferralAt(zone, r.cut, r.out)
      [] OTHER -> [kind |-> r.kind, answers |-> <<>>]

\* Zone::lookup.
lookup(zone, name, qtype) == AsAnswer(zone, resolve(zone, name, qtype))

\* The AA bit comes off for a referral with nothing in the answer section.
is_authoritative(answer) == answer.kind # "Referral" \/ answer.answers # <<>>
=============================================================================
