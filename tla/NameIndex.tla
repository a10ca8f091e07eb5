----------------------------- MODULE NameIndex ------------------------------
(***************************************************************************)
(* How a zone finds the node for a query name: the suffix hashes, the hash *)
(* table and the comparison that confirms a hit (src/zone.rs).             *)
(*                                                                         *)
(* A name is the sequence of its labels from the root down, the origin's   *)
(* included, and a label is a sequence of octets: the `depth' rightmost    *)
(* labels of a name are its prefix of that length here.  The arena is a    *)
(* sequence of nodes, each with the name the configuration wrote, in its   *)
(* letter case.  A lookup is an exact probe, the search of Encloser with   *)
(* every probe made through the index, and the probe for the wildcard.     *)
(*                                                                         *)
(* The hash is HASH_BITS wide instead of 64, so that names collide.        *)
(***************************************************************************)
EXTENDS Encloser, SequencesExt

CONSTANTS
    Arenas,     \* node names in arena order: the origin first, ancestry closed
    Queries,    \* query names
    Seeds,      \* values of Zone::hash_seed
    HASH_BITS

FNV_PRIME == 435
GOLDEN == 21
WILDCARD_LABEL == <<42>>

VARIABLES
    seed,     \* Zone::hash_seed
    arena,    \* the names of Zone::nodes
    index,    \* Zone::index: the hash and the offset of every node
    qname,    \* the LowerName that is looked up
    hashes,   \* SuffixHashes of qname
    stage,    \* "exact", "search" or "answered"
    node      \* the node found, 0 for None

zone == <<seed, arena, index, qname, hashes>>
searching == <<question, low, high, probes, pc, depth>>
allVars == <<searching, zone, stage, node>>

Wrap(n) == n % 2^HASH_BITS

LowerOctet(o) == IF o \in 65..90 THEN o + 32 ELSE o

eq_ignore_ascii_case(l, m) ==
    /\ Len(l) = Len(m)
    /\ \A i \in DOMAIN l : LowerOctet(l[i]) = LowerOctet(m[i])

\* LowerName::from.
LowerLabel(label) == [i \in DOMAIN label |-> LowerOctet(label[i])]
LowerName(name) == [i \in DOMAIN name |-> LowerLabel(name[i])]

\* Mutant of label_count: hickory's num_labels, a leading asterisk discounted.
num_labels(name) ==
    IF name # <<>> /\ Last(name) = WILDCARD_LABEL THEN Len(name) - 1 ELSE Len(name)

\* The raw label count.
label_count(name) == Len(name)

\* The exclusive or of a hash and a hash or an octet.
Xor(m, n) ==
    MapThenSumSet(LAMBDA i : ((m \div 2^i + n \div 2^i) % 2) * 2^i, 0..(HASH_BITS + 7))

\* Fold the octets, then finish at the label's boundary.
mix_label(state, label) ==
    LET folded == FoldLeft(LAMBDA h, octet : Wrap(Xor(h, octet) * FNV_PRIME), state, label)
        hash == Wrap(folded * GOLDEN)
    IN Xor(hash, hash \div 2^(HASH_BITS \div 2))

\* The hash after each label, the root's first.  The root hashes to the seed.
Mixed(s, name) ==
    LET h[i \in 0..Len(name)] == IF i = 0 THEN s ELSE mix_label(h[i - 1], name[i])
    IN h

name_hash(s, name) == Mixed(s, LowerName(name))[Len(name)]

\* One pass fills the hash of every suffix, up to the longest name the wire can
\* carry.
SuffixHashes(s, name) ==
    LET longest == IF Len(name) <= MAX_LABELS THEN Len(name) ELSE MAX_LABELS
    IN [h |-> Mixed(s, SubSeq(name, 1, longest)), labels |-> label_count(name)]

\* SuffixHashes::at for a depth that has an entry.
has_suffix(sh, d) == d <= sh.labels /\ d <= MAX_LABELS
at(sh, d) == sh.h[d]

build_index(s, names) == [i \in DOMAIN names |-> name_hash(s, names[i])]

\* Mutant of node_name_matches: equal hashes and lengths are taken for equal
\* names.
HashIsEnough(name, query, d, star) ==
    /\ Len(name) = d + (IF star THEN 1 ELSE 0)
    /\ star => name[d + 1] = WILDCARD_LABEL

\* Is this node named by the d rightmost labels of the query, behind an
\* asterisk when `star' is set?
node_name_matches(name, query, d, star) ==
    /\ Len(name) = d + (IF star THEN 1 ELSE 0)
    /\ \A i \in 1..d : i \in DOMAIN query /\ eq_ignore_ascii_case(name[i], query[i])
    /\ star => name[d + 1] = WILDCARD_LABEL

\* HashTable::find: the first entry of that hash that is confirmed.
probe(hash, d, star) ==
    LET confirmed == {i \in DOMAIN index :
                        index[i] = hash /\ node_name_matches(arena[i], qname, d, star)}
    IN IF confirmed = {} THEN 0 ELSE CHOOSE i \in confirmed : TRUE

indexed_node_at(d) ==
    IF has_suffix(hashes, d) THEN probe(at(hashes, d), d, FALSE) ELSE 0

exact_node == indexed_node_at(hashes.labels)

\* The asterisk is folded onto the hash of the encloser.
wildcard_node(d) ==
    IF has_suffix(hashes, d)
    THEN probe(mix_label(at(hashes, d), WILDCARD_LABEL), d, TRUE) ELSE 0

-----------------------------------------------------------------------------

Name == Seq(Seq(Nat))

\* What the build and the wire guarantee.  A name has at most MAX_LABELS labels;
\* the arena begins with the origin, holds none that is shorter, and with every
\* node its ancestors down from the origin (zone.rs materialise_ancestors); a
\* LowerName has been folded.
ASSUME NamesAssumption ==
    /\ \A a \in Arenas :
        /\ a \in Seq(Name) /\ a # <<>>
        /\ Len(a[1]) \in OriginDepths
        /\ \A i \in DOMAIN a :
            /\ Len(a[i]) \in ZoneDepths /\ Len(a[1]) <= Len(a[i])
            /\ \A d \in Len(a[1])..Len(a[i]) :
                \E j \in DOMAIN a : LowerName(a[j]) = SubSeq(LowerName(a[i]), 1, d)
    /\ \A q \in Queries : q \in Name /\ Len(q) \in QueryLabels /\ LowerName(q) = q

\* The reference: the names of the zone as a set, and the proper ancestors of
\* the query among them.
Names == {LowerName(arena[i]) : i \in DOMAIN arena}
AncestorDepths == {d \in 0..(Len(qname) - 1) : SubSeq(qname, 1, d) \in Names}

\* Depths are clamped to MAX_LABELS.
depth_byte(d) == IF d <= MAX_LABELS THEN d ELSE MAX_LABELS

\* A zone as the build leaves it, and a query for a name below its origin.
IndexInit ==
    /\ arena \in Arenas /\ seed \in Seeds
    /\ index = build_index(seed, arena)
    /\ qname \in Queries /\ IsStrictPrefix(LowerName(arena[1]), qname)
    /\ hashes = SuffixHashes(seed, qname)
    /\ origin_depth = depth_byte(label_count(arena[1]))
    /\ labels = Len(qname)
    /\ max_depth = depth_byte(Max({Len(arena[i]) : i \in DOMAIN arena}))
    /\ deepest = Max(AncestorDepths)
    /\ low = origin_depth /\ high = origin_depth
    /\ probes = 0 /\ pc = "start" /\ depth = 0
    /\ stage = "exact" /\ node = 0

\* resolve and exists_hashed look for the name itself first.
Exact ==
    /\ stage = "exact"
    /\ node' = exact_node
    /\ stage' = IF exact_node # 0 THEN "answered" ELSE "search"
    /\ UNCHANGED <<zone, searching>>

\* closest_encloser, every probe through the index.
Search ==
    /\ stage = "search"
    /\ \/ Floor
       \/ ProbeCeiling(indexed_node_at(ceiling) # 0)
       \/ Probe(indexed_node_at(mid) # 0)
       \/ Return
    /\ UNCHANGED <<zone, stage, node>>

\* source_of_synthesis: one probe below the encloser.
Synthesise ==
    /\ stage = "search" /\ pc = "done"
    /\ node' = wildcard_node(depth)
    /\ stage' = "answered"
    /\ UNCHANGED <<zone, searching>>

IndexNext == Exact \/ Search \/ Synthesise

IndexSpec == IndexInit /\ [][IndexNext]_allVars
-----------------------------------------------------------------------------

\* The search over the index takes the steps of the search over the tree:
\* what is proved of Encloser holds of the zone's hash table, whatever
\* collides (zone.rs probe, "a hash hit is confirmed").
SearchesTheTree == Spec

\* A lookup answers from the node the zone's names determine: the name itself
\* in any letter case, otherwise the asterisk below its deepest existing
\* ancestor and no other name, otherwise none; an asterisk in the query is a
\* label like any other (RFC 4592 sections 2.3 and 3.3.1, zone.rs:95-113).
IndexAnswers ==
    stage = "answered" =>
        LET wanted == IF qname \in Names THEN qname
                      ELSE Append(SubSeq(qname, 1, Max(AncestorDepths)), WILDCARD_LABEL)
        IN IF wanted \in Names
           THEN node # 0 /\ LowerName(arena[node]) = wanted
           ELSE node = 0

\* What the search relies on: the question is about the zone and the name it
\* was asked of, the search is where Encloser's is, and it began because the
\* name itself is not there.
IndexInv ==
    /\ arena \in Arenas /\ qname \in Queries
    /\ IsStrictPrefix(LowerName(arena[1]), qname)
    /\ index = build_index(seed, arena) /\ hashes = SuffixHashes(seed, qname)
    /\ origin_depth = Len(arena[1]) /\ labels = Len(qname)
    /\ deepest = Max(AncestorDepths)
    /\ IInv
    /\ stage = "search" => qname \notin Names
    /\ IndexAnswers
=============================================================================
