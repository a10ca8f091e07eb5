------------------------------ MODULE Encloser ------------------------------
(***************************************************************************)
(* Zone::closest_encloser of src/zone.rs, one step per probe.              *)
(*                                                                         *)
(* The ancestors of a query name are numbered by their depth, the number   *)
(* of their labels.  Because the node set is closed under ancestry, the    *)
(* ancestors that are nodes are those at depths origin_depth..deepest, and *)
(* `deepest' is what the search is after.  The name itself is not a node:  *)
(* resolve has already looked.                                             *)
(***************************************************************************)
EXTENDS Naturals

CONSTANTS
    OriginDepths,  \* label counts the origin may have
    QueryLabels,   \* label counts a query name may have
    ZoneDepths     \* label counts the deepest node of the zone may have

MAX_LABELS == 127

ASSUME DepthsAssumption ==
    /\ OriginDepths \subseteq 0..MAX_LABELS
    /\ QueryLabels \subseteq 0..MAX_LABELS
    /\ ZoneDepths \subseteq 0..MAX_LABELS

VARIABLES
    origin_depth, labels, max_depth, deepest,   \* the question
    low, high,                                  \* the window of the loop
    probes,                                     \* history: hash probes made
    pc, depth                                   \* where, and the answer

question == <<origin_depth, labels, max_depth, deepest>>
vars == <<question, low, high, probes, pc, depth>>

\* node_at: is the ancestor with d labels a node?
node_at(d) == origin_depth <= d /\ d <= deepest

\* Mutant of ceiling: the zone's depth is taken as one less than it is.
CeilingShort ==
    IF labels - 1 <= max_depth THEN labels - 1
    ELSE IF max_depth = 0 THEN 0 ELSE max_depth - 1

\* encloser_window: no deeper than the parent of the name or the zone.
\* MAX_LABELS caps both already.
ceiling ==
    IF labels - 1 <= max_depth THEN labels - 1 ELSE max_depth

Init ==
    /\ origin_depth \in OriginDepths
    /\ labels \in {n \in QueryLabels : n > origin_depth}
    /\ max_depth \in {n \in ZoneDepths : n >= origin_depth}
    /\ deepest \in {n \in origin_depth..(labels - 1) : n <= max_depth}
    /\ low = origin_depth /\ high = origin_depth
    /\ probes = 0
    /\ pc = "start"
    /\ depth = 0

\* Nothing between the apex and the name: the floor, without a probe.
Floor ==
    /\ pc = "start" /\ ceiling <= origin_depth
    /\ depth' = origin_depth
    /\ pc' = "done"
    /\ UNCHANGED <<question, low, high, probes>>

\* The speculative probe of the deepest candidate, and what it found.
ProbeCeiling(hit) ==
    /\ pc = "start" /\ ceiling > origin_depth
    /\ probes' = probes + 1
    /\ \/ /\ hit
          /\ depth' = ceiling
          /\ pc' = "done"
          /\ UNCHANGED <<low, high>>
       \/ /\ ~hit
          /\ low' = origin_depth /\ high' = ceiling - 1
          /\ pc' = "loop"
          /\ UNCHANGED depth
    /\ UNCHANGED question

\* Halfway, rounded up.
mid == low + (high - low + 1) \div 2

\* One pass of the loop.
Probe(hit) ==
    /\ pc = "loop" /\ low < high
    /\ probes' = probes + 1
    /\ \/ hit /\ low' = mid /\ UNCHANGED high
       \/ ~hit /\ high' = mid - 1 /\ UNCHANGED low
    /\ UNCHANGED <<question, pc, depth>>

\* The window has closed.
Return ==
    /\ pc = "loop" /\ low >= high
    /\ depth' = low
    /\ pc' = "done"
    /\ UNCHANGED <<question, low, high, probes>>

Next == Floor \/ ProbeCeiling(node_at(ceiling)) \/ Probe(node_at(mid)) \/ Return

Spec == Init /\ [][Next]_vars

-----------------------------------------------------------------------------
\* Every variable keeps its type.
TypeOK ==
    /\ origin_depth \in 0..MAX_LABELS
    /\ labels \in 0..MAX_LABELS
    /\ max_depth \in 0..MAX_LABELS
    /\ deepest \in 0..MAX_LABELS
    /\ low \in 0..MAX_LABELS /\ high \in 0..MAX_LABELS
    /\ probes \in Nat
    /\ pc \in {"start", "loop", "done"}
    /\ depth \in 0..MAX_LABELS

\* The search returns the deepest ancestor that exists, neither a shallower
\* one (a wildcard would reach into a subtree carved out of it, VEGA-009)
\* nor one that is not there.
FindsDeepest == pc = "done" => depth = deepest

\* "<= 8 probes for any name the wire can carry" (zone.rs:1192).
EightProbes == probes <= 8

\* "`low' exists, `high + 1' does not" (zone.rs:1221-1222), the window that
\* halves with every probe, and what each position of the search knows.
Slack == <<127, 63, 31, 15, 7, 3, 1, 0>>

Question ==
    /\ origin_depth <= deepest /\ deepest < labels /\ deepest <= max_depth

IInv ==
    /\ TypeOK
    /\ Question
    /\ pc = "start" => probes = 0
    /\ pc = "loop" => /\ low <= deepest /\ deepest <= high
                      /\ origin_depth <= low /\ low <= high
                      /\ probes \in 1..8
                      /\ high - low <= Slack[probes]
    /\ pc = "done" => depth = deepest /\ probes <= 8
=============================================================================
