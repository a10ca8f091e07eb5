----------------------------- MODULE ZoneBuild ------------------------------
(***************************************************************************)
(* Zone::from_config as a state machine: the builder takes the             *)
(* [[zone.records]] blocks of a configuration one at a time and finishes   *)
(* with a zone to serve or a refusal.  The file is chosen as it is read,   *)
(* so a run visits every file of up to `max' blocks of a suite; the        *)
(* properties then ask every query of every zone that was built.           *)
(***************************************************************************)
EXTENDS Resolver, Arena, Rdata

CONSTANTS
    Suites,    \* kinds of files: [preamble, specs, max], the blocks each starts
               \* with, those it may go on with and a bound on their number;
               \* a block is [owner, rtype, ttl, values]
    QueryNames, QueryTypes,
    NoZone

Blocks == UNION {s.specs \cup ToSet(s.preamble) : s \in Suites}

\* The targets of NS and CNAME are names, and no record is of type ANY, which
\* is a QTYPE only (RFC 1035 section 3.2.3).
ASSUME BlocksAssumption ==
    /\ \A s \in Suites : s.max \in Nat /\ s.preamble \in Seq(Blocks)
    /\ \A b \in Blocks :
        /\ b.owner \in ZoneNames \cup {Outside}
        /\ b.rtype \in DOMAIN TypeCode \ {"ANY"}
        /\ b.values \in Seq(ToSet(b.values))
        /\ b.rtype \in {"NS", "CNAME"} => ToSet(b.values) \subseteq ZoneNames \cup {Outside}

ASSUME QuestionsAssumption ==
    /\ QueryNames \subseteq ZoneNames
    /\ QueryTypes # {} /\ QueryTypes \ {"ANY"} \subseteq DOMAIN TypeCode

VARIABLES
    suite,     \* the kind of file being read
    scratch,   \* ZoneBuilder.nodes: [owners -> Seq(runs)]
    counted,   \* ZoneBuilder.record_count
    read,      \* history: the blocks the file holds, none of them refused
    accepted,  \* history: the blocks inserted
    dropped,   \* history: values of wildcards that have no representable name
    soa,       \* is there a [zone.soa] table?
    taken,     \* blocks read so far
    status,    \* "building", "refused" or "served"
    zone       \* the Zone, once there is one

buildVars == <<suite, scratch, counted, read, accepted, dropped, soa, taken, status, zone>>

BuildInit ==
    /\ suite \in Suites
    /\ scratch = <<>>
    /\ counted = 0
    /\ read = {}
    /\ accepted = {}
    /\ dropped = 0
    /\ soa \in BOOLEAN
    /\ taken = 0
    /\ status = "building"
    /\ zone = NoZone

\* The blocks that may come next.
NextSpecs ==
    IF taken < Len(suite.preamble) THEN {suite.preamble[taken + 1]} ELSE suite.specs

\* The name an owner field qualifies, without the asterisk of a wildcard.
Qualified(owner) == IF IsWildcard(owner) THEN Front(owner) ELSE owner

\* What insert_spec refuses: no values, an owner outside the zone or too long
\* for a name, a value (or a type) that does not parse.
Malformed(spec) ==
    \/ spec.values = <<>>
    \/ ~contains(spec.owner)
    \/ contains(spec.owner) /\ Len(Qualified(spec.owner)) > MAX_LABELS
    \/ \E value \in ToSet(spec.values) : ~parse_value(value)

\* Mutant of Unrepresentable: the longest name counts as too long.
UnrepresentableEarly(spec) == IsWildcard(spec.owner) /\ Len(spec.owner) >= MAX_LABELS

\* A wildcard with no representable owner name: it is only logged, and
\* neither stored nor among the diagnostics.
Unrepresentable(spec) == IsWildcard(spec.owner) /\ Len(spec.owner) > MAX_LABELS

\* The block becomes part of its owner's node.
Store(spec) ==
    /\ scratch' = Put(scratch, spec.owner,
                      AddRun(IF spec.owner \in DOMAIN scratch
                             THEN scratch[spec.owner] ELSE <<>>, spec))
    /\ accepted' = accepted \cup {spec}

\* Mutant of insert_spec: one is counted per block.
InsertCountsBlocks(spec) ==
    /\ status = "building" /\ ~Malformed(spec) /\ ~Unrepresentable(spec)
    /\ taken' = taken + 1
    /\ counted' = counted + 1
    /\ read' = read \cup {spec}
    /\ Store(spec)
    /\ UNCHANGED <<suite, dropped, soa, status, zone>>

\* ZoneBuilder::insert_spec.  The values are counted before the name is known
\* to be representable.
insert_spec(spec) ==
    /\ status = "building"
    /\ taken' = taken + 1
    /\ \/ /\ Malformed(spec)
          /\ status' = "refused"
          /\ UNCHANGED <<scratch, counted, read, accepted, dropped>>
       \/ /\ ~Malformed(spec) /\ Unrepresentable(spec)
          /\ counted' = counted + Len(spec.values)
          /\ dropped' = dropped + Len(spec.values)
          /\ read' = read \cup {spec}
          /\ UNCHANGED <<scratch, accepted, status>>
       \/ /\ ~Malformed(spec) /\ ~Unrepresentable(spec)
          /\ counted' = counted + Len(spec.values)
          /\ read' = read \cup {spec}
          /\ Store(spec)
          /\ UNCHANGED <<dropped, status>>
    /\ UNCHANGED <<suite, soa, zone>>

\* ZoneBuilder::finish, at the end of the file.
finish ==
    /\ status = "building"
    /\ taken >= Len(suite.preamble)
    /\ IF check_invariants(materialise_ancestors(scratch), soa)
       THEN /\ status' = "served"
            /\ zone' = Finish(scratch, soa, counted)
       ELSE status' = "refused" /\ UNCHANGED zone
    /\ UNCHANGED <<suite, scratch, counted, read, accepted, dropped, soa, taken>>

\* Zone::diagnostics, and what `vega check' makes of the zone it builds: the
\* findings that a server only warns of fail the command.
diagnostics(built) == built.occluded \cup built.missing_glue
check(built) == diagnostics(built) = {}

BuildNext ==
    \/ \E spec \in NextSpecs :
          taken < Len(suite.preamble) + suite.max /\ insert_spec(spec)
    \/ finish

BuildSpec == BuildInit /\ [][BuildNext]_buildVars
-----------------------------------------------------------------------------
(* The reference: RFC 1034 section 4.3.2 and RFC 4592, read off the blocks  *)
(* of the file, with no arena, no cut table and no search.                  *)

\* The records a file declares at `source', as answered for `owner'.
Declared(source, rtype, owner) ==
    UNION {{[owner |-> owner, rtype |-> rtype, ttl |-> s.ttl, data |-> v] :
               v \in ToSet(s.values)} :
           s \in {x \in accepted : x.owner = source /\ x.rtype = rtype}}

InTree(n) == n = Apex \/ \E s \in accepted : IsPrefix(n, s.owner)

\* The delegations at or above a name.
CutsAbove(n) == {c \in Prefixes(n) \ {Apex} : Declared(c, "NS", c) # {}}

Longest(names) == CHOOSE n \in names : \A m \in names : Len(m) <= Len(n)

\* Where the data for a name comes from, when it is not delegated: the name
\* itself if it exists, otherwise the wildcard at its closest encloser.
SourceOf(n) ==
    IF InTree(n) THEN n ELSE Append(Longest({p \in Prefixes(n) : InTree(p)}), "*")

\* The alias a query for n of this type is answered with, if there is one:
\* that of the name or the one a wildcard gives it (RFC 4592 section 3.3.3).
AliasAt(n, qtype) ==
    IF qtype \in {"CNAME", "ANY"} \/ CutsAbove(n) # {} THEN {}
    ELSE Declared(SourceOf(n), "CNAME", n)

\* Is the alias a wildcard's?
ByWildcard(n, qtype) == AliasAt(n, qtype) # {} /\ IsWildcard(SourceOf(n))

\* Where an alias at n leads, as long as that is in the zone.
Hop(n, qtype) ==
    LET inside == {rr \in AliasAt(n, qtype) : contains(rr.data)}
    IN IF inside = {} THEN n ELSE (CHOOSE rr \in inside : TRUE).data

\* The name a query is at after each alias, MAX_CNAME_DEPTH of them at most.
Walk(n, qtype) ==
    LET at[i \in 0..MAX_CNAME_DEPTH] == IF i = 0 THEN n ELSE Hop(at[i - 1], qtype)
    IN at

\* The part of the walk before the first alias of a wildcard.
Before(n, qtype) ==
    LET walk == Walk(n, qtype)
    IN {i \in 0..MAX_CNAME_DEPTH : \A j \in 0..i : ~ByWildcard(walk[j], qtype)}

\* The name whose data or delegation answers the query.
Final(n, qtype) == Walk(n, qtype)[MAX_CNAME_DEPTH]

\* The kind of answer and its records, as a set.
Expected(n, qtype) ==
    LET walk == Walk(n, qtype)
        final == walk[MAX_CNAME_DEPTH]
        aliases == UNION {AliasAt(m, qtype) : m \in {walk[i] : i \in 0..MAX_CNAME_DEPTH}}
        data == IF CutsAbove(final) = {} THEN Declared(SourceOf(final), qtype, final)
                ELSE {}
        kind == IF CutsAbove(final) # {} THEN "Referral"
                ELSE IF aliases \cup data # {} THEN "Records"
                ELSE IF InTree(SourceOf(final)) THEN "NoData"
                ELSE "NxDomain"
    IN [kind |-> kind, answers |-> aliases \cup data]

-----------------------------------------------------------------------------
(* Properties. *)

Served == status = "served"

\* What the handler makes of a query, without the built-ins.
Responded(n, t) ==
    resolve_query([zone |-> zone, builtins |-> FALSE], n, t,
                  [rtype |-> "A", data |-> Text], 0)

\* Every variable keeps its type.
BuildTypeOK ==
    /\ {counted, dropped, taken} \subseteq Nat
    /\ soa \in BOOLEAN
    /\ status \in {"building", "refused", "served"}
    /\ ~Served => zone = NoZone
    /\ Served => /\ zone.record_count \in Nat
                 /\ DOMAIN zone.cut = DOMAIN zone.nodes
                 /\ \A n \in DOMAIN zone.nodes :
                       zone.cut[n] \in DOMAIN zone.referrals \cup {NoCut}

\* Every lookup in every zone returns what RFC 1034 section 4.3.2 and RFC
\* 4592 derive from the configured records: the empty non-terminals, the cut
\* pass, the occlusion, the bisection and the CNAME chase together lose and
\* invent nothing (zone.rs resolve).  The one departure is the alias of a
\* wildcard, which the code does not substitute (zone.rs:1032-1044): there
\* the answer ends with the aliases before it, or is NODATA if there are none.
LookupAgrees ==
    Served =>
        \A n \in QueryNames, t \in QueryTypes :
            LET got == lookup(zone, n, t)
                expected == Expected(n, t)
                walk == Walk(n, t)
                before == Before(n, t)
                aliases == UNION {AliasAt(walk[i], t) : i \in before}
            IN IF before = 0..MAX_CNAME_DEPTH
               THEN got.kind = expected.kind /\ ToSet(got.answers) = expected.answers
               ELSE /\ got.kind = IF aliases = {} THEN "NoData" ELSE "Records"
                    /\ ToSet(got.answers) = aliases

\* Whether a name is denied does not depend on the type asked for
\* (zone.rs:917-923, VEGA-083): a resolver may deny the whole subtree.
DenialIgnoresType ==
    Served =>
        \A n \in QueryNames :
            Cardinality({lookup(zone, n, t).kind = "NxDomain" : t \in QueryTypes}) = 1

\* Every negative response carries the zone's SOA and nothing else, and
\* every other response does without it unless it was asked for (RFC 2308
\* section 3, handler.rs negative).
NegativeCarriesSoa ==
    Served =>
        \A n \in QueryNames, t \in QueryTypes : \A r \in {Responded(n, t)} :
            r.answers = <<>> =>
                r.authority = IF CutsAbove(n) # {} /\ r.code = "NoError"
                              THEN lookup(zone, n, "A").authority ELSE {zone.soa}

\* The answers and the denials of every zone are those of the RFCs, but for
\* the aliases of wildcards: the three parts above.
LookupMatchesRFC == LookupAgrees /\ DenialIgnoresType /\ NegativeCarriesSoa

\* Data at or below a delegation is never in an answer section, whatever the
\* nesting of delegations and whichever alias led there (RFC 2181 section 6,
\* zone.rs:972-981), and AA is cleared exactly when nothing above it was.
GlueIsNeverAnAnswer ==
    Served =>
        \A n \in QueryNames, t \in QueryTypes \ {"ANY"} : \A r \in {Responded(n, t)} :
            /\ \A rr \in ToSet(r.answers) : CutsAbove(rr.owner) = {}
            /\ r.authoritative <=> CutsAbove(n) = {}

\* A referral always names servers, those of a delegation at or above the
\* name it was reached from, and its additional section holds only addresses
\* of those servers (zone.rs:690-710).
ReferralsAreUsable ==
    Served =>
        \A n \in QueryNames, t \in QueryTypes :
            LET a == lookup(zone, n, t) IN
            a.kind = "Referral" =>
                /\ a.authority # {}
                /\ \A rr \in a.authority :
                      rr.rtype = "NS" /\ rr.owner \in CutsAbove(Final(n, t))
                /\ \A rr \in a.additional :
                      /\ rr.rtype \in {"A", "AAAA"}
                      /\ \E ns \in a.authority : ns.data = rr.owner

\* A delegated subtree is referred and never answered: the two parts above.
DelegationsAreHonoured == GlueIsNeverAnAnswer /\ ReferralsAreUsable

\* An RRset is answered whole and with one TTL: the records of one owner and
\* type in an answer are all those the file declares, in however many blocks
\* it does so (RFC 2181 section 5, zone.rs:1552-1586).
RRsetsAreAtomic ==
    Served =>
        \A n \in QueryNames, t \in QueryTypes \ {"ANY"} :
            LET answers == ToSet(lookup(zone, n, t).answers) IN
            \A rr \in answers :
                /\ \A other \in answers :
                      other.owner = rr.owner /\ other.rtype = rr.rtype => other.ttl = rr.ttl
                /\ Declared(SourceOf(rr.owner), rr.rtype, rr.owner) \subseteq answers

\* No record a file declares disappears without a word: each one is answered
\* at its owner, travels in a referral, or is reported as occluded
\* (zone.rs:674-680); and when `vega check' passes, none is occluded, and
\* every name server inside its own delegation has an address in the referral
\* (commands/zone.rs report_findings).  The one exception is logged and not
\* reported: a wildcard too long to have a name, and the names it stands for
\* are too long for any query (zone.rs:1530-1546).
NothingSilentlyDropped ==
    Served =>
        LET referred == UNION {zone.referrals[c].authority \cup zone.referrals[c].additional :
                                  c \in DOMAIN zone.referrals}
            Reachable(s) ==
                LET rrs == Declared(s.owner, s.rtype, s.owner) IN
                \/ rrs \subseteq ToSet(lookup(zone, s.owner, s.rtype).answers)
                \/ rrs \subseteq referred
        IN /\ \A s \in read \ accepted : \A n \in QueryNames :
                 IsWildcard(s.owner) /\ (IsStrictPrefix(Front(s.owner), n) => Len(n) > MAX_LABELS)
           /\ \A s \in accepted : ~Reachable(s) <=> <<s.owner, s.rtype>> \in zone.occluded
           /\ check(zone) =>
                 /\ \A s \in accepted : Reachable(s)
                 /\ \A c \in DOMAIN zone.referrals :
                       \A rr \in zone.referrals[c].authority :
                          contains(rr.data) /\ IsPrefix(c, rr.data) =>
                              \E g \in zone.referrals[c].additional : g.owner = rr.data

\* vega_zone_records counts the values that are served, those that travel in
\* referrals included, whatever merging and occlusion did to the blocks: "so
\* `record_count' reports what is served rather than what was configured"
\* (zone.rs:1931-1934).  The one excess is a wildcard too long to be
\* represented, which insert_spec counts before it drops it.
CountIsWhatIsServed ==
    Served => zone.record_count = ValueCount(zone.nodes) + dropped

\* The arenas hold what the build means them to (zone.rs
\* debug_assert_invariants), and the binary search for a type in them returns
\* the records of exactly that type, at every node of every zone.
ArenasAreSound ==
    Served =>
        \A arena \in {LayOut(zone)} :
            /\ debug_assert_invariants(zone, arena)
            /\ \A i \in DOMAIN arena.nodes, t \in QueryTypes \ {"ANY"} :
                  LET node == arena.nodes[i] IN
                  EmitRun(arena, rrsets_of(arena, node, t), node.name)
                      = emit(zone.nodes[node.name], t, node.name)

-----------------------------------------------------------------------------
(* The invariant behind them. *)

Runs ==
    [rtype : {b.rtype : b \in Blocks}, ttl : {b.ttl : b \in Blocks},
     rdata : Seq(UNION {ToSet(b.values) : b \in Blocks})]

\* What the blocks accepted for an owner say, and what its runs do.
Accepted(n) ==
    UNION {{<<s.rtype, s.ttl, v>> : v \in ToSet(s.values)} : s \in {x \in accepted : x.owner = n}}
InRuns(runs) ==
    UNION {{<<r.rtype, r.ttl, v>> : v \in ToSet(r.rdata)} : r \in ToSet(runs)}

\* The builder holds what it accepted, all of it and nothing else, and has
\* counted that and the values it dropped; and a zone that is served is what
\* finish makes of it.
BuildInv ==
    /\ suite \in Suites /\ soa \in BOOLEAN
    /\ taken \in Nat /\ dropped \in Nat
    /\ \A s \in accepted : s \in Blocks /\ ~Malformed(s) /\ ~Unrepresentable(s)
    /\ accepted \subseteq read
    /\ \A s \in read \ accepted : s \in Blocks /\ ~Malformed(s) /\ Unrepresentable(s)
    /\ DOMAIN scratch = {s.owner : s \in accepted}
    /\ IsFiniteSet(accepted)
    /\ \A n \in DOMAIN scratch :
        /\ scratch[n] \in Seq(Runs)
        /\ \A r \in ToSet(scratch[n]) : r.rdata # <<>>
        /\ InRuns(scratch[n]) = Accepted(n)
    /\ counted = ValueCount(scratch) + dropped
    /\ status \in {"building", "refused", "served"}
    /\ IF Served THEN /\ check_invariants(materialise_ancestors(scratch), soa)
                      /\ zone = Finish(scratch, soa, counted)
       ELSE zone = NoZone

-----------------------------------------------------------------------------
(* Statements of the source that the code does not keep. *)

\* "The same existence determination every other QTYPE gets" (handler.rs:285):
\* ANY denies a name exactly when the other types do.
AnyDeniesLikeOthers ==
    Served =>
        \A n \in QueryNames, t \in QueryTypes :
            Responded(n, "ANY").code = Responded(n, t).code
=============================================================================
