-------------------------- MODULE NameIndex_proof ---------------------------
(***************************************************************************)
(* The closest-encloser search is correct and takes at most eight probes,  *)
(* for every origin, every query name and every zone; and the search the   *)
(* zone makes through its hash table is that search, whatever the hash.    *)
(***************************************************************************)
EXTENDS NameIndex, SequenceTheorems, WellFoundedInduction, TLAPS

(***************************************************************************)
(* Rounding up halves the window on either side of a probe, and the        *)
(* midpoint is above `low', so the window shrinks (zone.rs:1232-1237).     *)
(***************************************************************************)
LEMMA Halving ==
    ASSUME NEW l \in Nat, NEW h \in Nat, l < h,
           NEW m, m = l + (h - l + 1) \div 2
    PROVE  /\ m \in Nat
           /\ l < m /\ m <= h
           /\ 2 * (h - m) <= h - l
           /\ 2 * (m - 1 - l) <= h - l
  OBVIOUS

(***************************************************************************)
(* What the window may still hold after one more probe: half of it, and    *)
(* after the eighth nothing that would need a ninth.                       *)
(***************************************************************************)
LEMMA SlackHalves ==
    ASSUME NEW k \in 1..8, NEW w \in Nat, NEW v \in Nat,
           w <= Slack[k], w > 0, 2 * v <= w
    PROVE  k + 1 \in 1..8 /\ v <= Slack[k + 1]
  <1>1. CASE k = 1  BY <1>1 DEF Slack
  <1>2. CASE k = 2  BY <1>2 DEF Slack
  <1>3. CASE k = 3  BY <1>3 DEF Slack
  <1>4. CASE k = 4  BY <1>4 DEF Slack
  <1>5. CASE k = 5  BY <1>5 DEF Slack
  <1>6. CASE k = 6  BY <1>6 DEF Slack
  <1>7. CASE k = 7  BY <1>7 DEF Slack
  <1>8. CASE k = 8  BY <1>8 DEF Slack
  <1> QED  BY <1>1, <1>2, <1>3, <1>4, <1>5, <1>6, <1>7, <1>8

(***************************************************************************)
(* The invariant holds when closest_encloser is called.                    *)
(***************************************************************************)
LEMMA InitIInv == Init => IInv
  BY DepthsAssumption DEF Init, IInv, TypeOK, Question, MAX_LABELS

(***************************************************************************)
(* Every step of the search preserves the invariant.                       *)
(***************************************************************************)
LEMMA NextIInv == IInv /\ [Next]_vars => IInv'
  <1> SUFFICES ASSUME IInv, [Next]_vars PROVE IInv'
    OBVIOUS
  <1> USE DEF MAX_LABELS
  <1>1. CASE Floor
    BY <1>1 DEF IInv, TypeOK, Question, Floor, ceiling, question
  <1>2. CASE ProbeCeiling(node_at(ceiling))
    <2>1. CASE node_at(ceiling)
      BY <1>2, <2>1 DEF IInv, TypeOK, Question, ProbeCeiling, ceiling, node_at, question
    <2>2. CASE ~node_at(ceiling)
      <3>1. ceiling \in 1..126
        BY <1>2 DEF IInv, TypeOK, Question, ProbeCeiling, ceiling
      <3>2. deepest <= ceiling - 1
        BY <2>2, <3>1 DEF IInv, TypeOK, Question, ceiling, node_at
      <3>3. Slack[1] = 127
        BY DEF Slack
      <3> QED
        BY <1>2, <2>2, <3>1, <3>2, <3>3
        DEF IInv, TypeOK, Question, ProbeCeiling, question
    <2> QED  BY <2>1, <2>2
  <1>3. CASE Probe(node_at(mid))
    <2>1. /\ low \in Nat /\ high \in Nat /\ low < high
          /\ probes \in 1..8 /\ high - low <= Slack[probes]
      BY <1>3 DEF IInv, TypeOK, Probe
    <2>2. /\ mid \in Nat /\ low < mid /\ mid <= high
          /\ 2 * (high - mid) <= high - low
          /\ 2 * (mid - 1 - low) <= high - low
      BY <2>1, Halving DEF mid
    <2>3. CASE node_at(mid)
      <3>1. /\ probes + 1 \in 1..8
            /\ high - mid <= Slack[probes + 1]
        BY <2>1, <2>2, SlackHalves
      <3> QED
        BY <1>3, <2>1, <2>2, <2>3, <3>1
        DEF IInv, TypeOK, Question, Probe, node_at, question
    <2>4. CASE ~node_at(mid)
      <3>1. /\ probes + 1 \in 1..8
            /\ mid - 1 - low <= Slack[probes + 1]
        BY <2>1, <2>2, SlackHalves
      <3> QED
        BY <1>3, <2>1, <2>2, <2>4, <3>1
        DEF IInv, TypeOK, Question, Probe, node_at, question
    <2> QED  BY <2>3, <2>4
  <1>4. CASE Return
    BY <1>4 DEF IInv, TypeOK, Question, Return, question
  <1>5. CASE UNCHANGED vars
    BY <1>5 DEF IInv, TypeOK, Question, vars, question
  <1> QED
    BY <1>1, <1>2, <1>3, <1>4, <1>5 DEF Next

(***************************************************************************)
(* The search only ever handles depths a name can have.                    *)
(***************************************************************************)
THEOREM TypeCorrect == Spec => []TypeOK
  <1>1. IInv => TypeOK
    BY DEF IInv
  <1> QED
    BY InitIInv, NextIInv, <1>1, PTL DEF Spec

(***************************************************************************)
(* closest_encloser returns the deepest existing ancestor of the name, for *)
(* every zone whose node set is closed under ancestry.                     *)
(***************************************************************************)
THEOREM FindsTheDeepest == Spec => []FindsDeepest
  <1>1. IInv => FindsDeepest
    BY DEF IInv, FindsDeepest
  <1> QED
    BY InitIInv, NextIInv, <1>1, PTL DEF Spec

(***************************************************************************)
(* It does so with at most eight probes, whatever the client sends and the *)
(* operator configures.                                                    *)
(***************************************************************************)
THEOREM AtMostEightProbes == Spec => []EightProbes
  <1>1. IInv => EightProbes
    BY DEF IInv, EightProbes, TypeOK
  <1> QED
    BY InitIInv, NextIInv, <1>1, PTL DEF Spec

-----------------------------------------------------------------------------
(* Hashes. *)

\* Induction over the natural numbers, from the well-foundedness of their
\* order: a set that holds 0 and the successor of each of its members holds
\* them all.
LEMMA NatSetInduction ==
    ASSUME NEW S, 0 \in S, \A n \in Nat : n \in S => n + 1 \in S
    PROVE  \A n \in Nat : n \in S
<1> DEFINE T == Nat \ S
<1> SUFFICES ASSUME T # {} PROVE FALSE
    OBVIOUS
<1>1. PICK x \in T : \A y \in T : ~(<<y, x>> \in OpToRel(<, Nat))
    BY WFMin, NatLessThanWellFounded
<1>2. x \in Nat /\ x # 0
    OBVIOUS
<1>3. x - 1 \in Nat /\ (x - 1) + 1 = x /\ <<x - 1, x>> \in OpToRel(<, Nat)
    BY <1>2 DEF OpToRel
<1>4. x - 1 \in S
    BY <1>1, <1>3
<1>5. x \in S
    BY <1>3, <1>4
<1> QED
    BY <1>5

\* A table of n + 1 hashes as the loop of SuffixHashes::new fills it.
Fills(h, s, name, n) ==
    h = [i \in 0..n |-> IF i = 0 THEN s ELSE mix_label(h[i - 1], name[i])]

\* There is one for every name.
LEMMA Filled == ASSUME NEW s, NEW name PROVE \A n \in Nat : \E h : Fills(h, s, name, n)
<1> DEFINE S == {n \in Nat : \E h : Fills(h, s, name, n)}
<1>1. 0 \in S
    <2> DEFINE h == [i \in 0..0 |-> s]
    <2>1. Fills(h, s, name, 0)
        BY DEF Fills
    <2> QED
        BY <2>1
<1>2. ASSUME NEW n \in Nat, n \in S PROVE n + 1 \in S
    <2>1. PICK f : Fills(f, s, name, n)
        BY <1>2
    <2> DEFINE h == [i \in 0..(n + 1) |->
                        IF i = n + 1 THEN mix_label(f[n], name[n + 1]) ELSE f[i]]
    <2>2. \A i \in 0..n : f[i] = IF i = 0 THEN s ELSE mix_label(f[i - 1], name[i])
        BY <2>1 DEF Fills
    <2>3. ASSUME NEW i \in 0..(n + 1)
          PROVE  h[i] = IF i = 0 THEN s ELSE mix_label(h[i - 1], name[i])
        <3>1. CASE i = n + 1
            <4>1. h[i - 1] = f[n] /\ h[i] = mix_label(f[n], name[n + 1])
                BY <3>1
            <4> QED
                BY <3>1, <4>1
        <3>2. CASE i = 0
            BY <3>2, <2>2
        <3>3. CASE i \in 1..n
            <4>1. h[i] = f[i] /\ h[i - 1] = f[i - 1]
                BY <3>3
            <4> QED
                BY <3>3, <4>1, <2>2
        <3> QED
            BY <3>1, <3>2, <3>3
    <2>4. Fills(h, s, name, n + 1)
        <3> DEFINE g == [i \in 0..(n + 1) |-> IF i = 0 THEN s ELSE mix_label(h[i - 1], name[i])]
        <3>1. DOMAIN h = 0..(n + 1) /\ h = [i \in DOMAIN h |-> h[i]]
            OBVIOUS
        <3>2. DOMAIN g = 0..(n + 1) /\ \A i \in 0..(n + 1) : g[i] = IF i = 0 THEN s ELSE mix_label(h[i - 1], name[i])
            OBVIOUS
        <3> HIDE DEF h
        <3>3. h = g
            BY <2>3, <3>1, <3>2
        <3> QED
            BY <3>3 DEF Fills
    <2> HIDE DEF h
    <2> QED
        BY <2>4
<1> HIDE DEF S
<1>3. \A n \in Nat : n \in S
    BY <1>1, <1>2, NatSetInduction
<1> QED
    BY <1>3 DEF S

\* Mixed is the table the loop fills.
LEMMA MixedStep ==
    ASSUME NEW s, NEW name, Len(name) \in Nat
    PROVE  /\ Mixed(s, name)[0] = s
           /\ \A i \in 1..Len(name) :
                Mixed(s, name)[i] = mix_label(Mixed(s, name)[i - 1], name[i])
<1> DEFINE h == Mixed(s, name)
<1>1. \E f : Fills(f, s, name, Len(name))
    BY Filled
<1>2. h = CHOOSE f : Fills(f, s, name, Len(name))
    BY DEF Mixed, Fills
<1>3. Fills(h, s, name, Len(name))
    BY <1>1, <1>2
<1> HIDE DEF h
<1>4. h[0] = s /\ \A i \in 1..Len(name) : h[i] = mix_label(h[i - 1], name[i])
    BY <1>3 DEF Fills
<1> QED
    BY <1>4 DEF h

\* The hash of a suffix depends on the labels of that suffix only.
LEMMA MixedAgrees ==
    ASSUME NEW s, NEW m, NEW n, NEW d \in Nat, Len(m) \in Nat, Len(n) \in Nat,
           d <= Len(m), d <= Len(n), \A i \in 1..d : m[i] = n[i]
    PROVE  Mixed(s, m)[d] = Mixed(s, n)[d]
<1> DEFINE S == {k \in Nat : k <= d => Mixed(s, m)[k] = Mixed(s, n)[k]}
<1>1. 0 \in S
    BY MixedStep
<1>2. ASSUME NEW k \in Nat, k \in S PROVE k + 1 \in S
    <2> SUFFICES ASSUME k + 1 <= d PROVE Mixed(s, m)[k + 1] = Mixed(s, n)[k + 1]
        OBVIOUS
    <2>1. Mixed(s, m)[k] = Mixed(s, n)[k] /\ m[k + 1] = n[k + 1]
        BY <1>2
    <2>2. k + 1 \in 1..Len(m) /\ k + 1 \in 1..Len(n) /\ (k + 1) - 1 = k
        OBVIOUS
    <2>3. Mixed(s, m)[k + 1] = mix_label(Mixed(s, m)[k], m[k + 1])
        BY <2>2, MixedStep
    <2>4. Mixed(s, n)[k + 1] = mix_label(Mixed(s, n)[k], n[k + 1])
        BY <2>2, MixedStep
    <2> QED
        BY <2>1, <2>3, <2>4
<1> HIDE DEF S
<1>3. d \in S
    BY <1>1, <1>2, NatSetInduction
<1> QED
    BY <1>3 DEF S

-----------------------------------------------------------------------------
(* Names. *)

\* An octet folds to an octet, and only the asterisk folds to the asterisk.
LEMMA LoweredOctet ==
    ASSUME NEW o \in Nat
    PROVE  LowerOctet(o) \in Nat /\ (LowerOctet(o) = 42 <=> o = 42)
<1>1. CASE o \in 65..90
    <2>1. LowerOctet(o) = o + 32
        BY <1>1 DEF LowerOctet
    <2> QED
        BY <1>1, <2>1
<1>2. CASE o \notin 65..90
    BY <1>2 DEF LowerOctet
<1> QED
    BY <1>1, <1>2

\* A label folds to a label of as many octets.
LEMMA LoweredShape ==
    ASSUME NEW label \in Seq(Nat)
    PROVE  /\ LowerLabel(label) \in Seq(Nat)
           /\ DOMAIN label = 1..Len(label) /\ DOMAIN LowerLabel(label) = 1..Len(label)
           /\ Len(LowerLabel(label)) = Len(label) /\ Len(label) \in Nat
           /\ \A i \in 1..Len(label) :
                LowerLabel(label)[i] = LowerOctet(label[i]) /\ label[i] \in Nat
<1>1. DOMAIN label = 1..Len(label) /\ Len(label) \in Nat
    OBVIOUS
<1>2. \A i \in 1..Len(label) : label[i] \in Nat
    OBVIOUS
<1>3. \A i \in 1..Len(label) : LowerOctet(label[i]) \in Nat
    BY <1>2, LoweredOctet
<1>4. LowerLabel(label) \in [1..Len(label) -> Nat]
    BY <1>1, <1>3 DEF LowerLabel
<1> DEFINE l == LowerLabel(label)
<1>5. \A i \in 1..Len(label) : l[i] = LowerOctet(label[i])
    BY <1>1 DEF LowerLabel
<1> HIDE DEF l
<1>6. l \in Seq(Nat) /\ Len(l) = Len(label)
    BY <1>1, <1>4 DEF l
<1> QED
    BY <1>1, <1>2, <1>4, <1>5, <1>6 DEF l

\* Folding the letter case keeps every label in its place, and the asterisk is
\* what no other label folds to.
LEMMA Lowered ==
    ASSUME NEW name \in Name
    PROVE  /\ LowerName(name) \in Name /\ Len(LowerName(name)) = Len(name)
           /\ DOMAIN name = 1..Len(name)
           /\ \A i \in 1..Len(name) : LowerName(name)[i] = LowerLabel(name[i])
<1>1. DOMAIN name = 1..Len(name) /\ Len(name) \in Nat
    BY DEF Name
<1>3. \A i \in 1..Len(name) : LowerLabel(name[i]) \in Seq(Nat)
    BY <1>1, LoweredShape DEF Name
<1>4. LowerName(name) \in [1..Len(name) -> Seq(Nat)]
    BY <1>1, <1>3 DEF LowerName
<1>5. LowerName(name) \in Name /\ Len(LowerName(name)) = Len(name)
    BY <1>1, <1>4 DEF Name
<1> QED
    BY <1>1, <1>5 DEF LowerName

LEMMA LoweredLabel ==
    ASSUME NEW l \in Seq(Nat), NEW m \in Seq(Nat)
    PROVE  /\ eq_ignore_ascii_case(l, m) <=> LowerLabel(l) = LowerLabel(m)
           /\ LowerLabel(l) = WILDCARD_LABEL <=> l = WILDCARD_LABEL
<1>1. /\ DOMAIN l = 1..Len(l) /\ Len(l) \in Nat
      /\ DOMAIN m = 1..Len(m) /\ Len(m) \in Nat
    OBVIOUS
<1>2. /\ LowerLabel(l) \in Seq(Nat) /\ Len(LowerLabel(l)) = Len(l)
      /\ \A i \in 1..Len(l) : LowerLabel(l)[i] = LowerOctet(l[i]) /\ l[i] \in Nat
      /\ LowerLabel(m) \in Seq(Nat) /\ Len(LowerLabel(m)) = Len(m)
      /\ \A i \in 1..Len(m) : LowerLabel(m)[i] = LowerOctet(m[i])
    BY LoweredShape
<1>3. ASSUME eq_ignore_ascii_case(l, m) PROVE LowerLabel(l) = LowerLabel(m)
    <2> DEFINE ll == LowerLabel(l)
               lm == LowerLabel(m)
    <2>1. Len(ll) = Len(lm)
        BY <1>2, <1>3 DEF eq_ignore_ascii_case
    <2>2. \A i \in 1..Len(ll) : ll[i] = lm[i]
        BY <1>1, <1>2, <1>3 DEF eq_ignore_ascii_case
    <2>3. ll \in Seq(Nat) /\ lm \in Seq(Nat)
        BY <1>2
    <2> HIDE DEF ll, lm
    <2>4. ll = lm
        BY <2>1, <2>2, <2>3, SeqEqual
    <2> QED
        BY <2>4 DEF ll, lm
<1>4. ASSUME LowerLabel(l) = LowerLabel(m) PROVE eq_ignore_ascii_case(l, m)
    BY <1>1, <1>2, <1>4 DEF eq_ignore_ascii_case
<1>5. WILDCARD_LABEL \in Seq(Nat) /\ Len(WILDCARD_LABEL) = 1 /\ WILDCARD_LABEL[1] = 42
    BY DEF WILDCARD_LABEL
<1>6. ASSUME LowerLabel(l) = WILDCARD_LABEL PROVE l = WILDCARD_LABEL
    <2>1. Len(l) = 1
        BY <1>2, <1>5, <1>6
    <2>2. LowerOctet(l[1]) = 42 /\ l[1] \in Nat
        BY <1>2, <1>5, <1>6, <2>1
    <2>3. l[1] = 42
        BY <2>2, LoweredOctet
    <2> QED
        BY <2>1, <2>3, <1>5
<1>7. ASSUME l = WILDCARD_LABEL PROVE LowerLabel(l) = WILDCARD_LABEL
    <2>1. Len(l) = 1 /\ l[1] = 42
        BY <1>5, <1>7
    <2>2. Len(LowerLabel(l)) = 1 /\ LowerLabel(l)[1] = LowerOctet(42)
        BY <1>2, <2>1
    <2>3. LowerOctet(42) = 42
        BY LoweredOctet
    <2> QED
        BY <2>2, <2>3, <1>2, <1>5
<1> QED
    BY <1>3, <1>4, <1>6, <1>7

\* The name the probe at depth d asks for: the d rightmost labels of the query,
\* behind an asterisk or not.
Wanted(q, d, star) ==
    IF star THEN Append(SubSeq(q, 1, d), WILDCARD_LABEL) ELSE SubSeq(q, 1, d)

LEMMA WantedShape ==
    ASSUME NEW q \in Name, NEW d \in 0..Len(q), NEW star \in BOOLEAN
    PROVE  /\ Wanted(q, d, star) \in Name
           /\ Len(Wanted(q, d, star)) = d + (IF star THEN 1 ELSE 0)
           /\ \A i \in 1..d : Wanted(q, d, star)[i] = q[i]
           /\ star => Wanted(q, d, star)[d + 1] = WILDCARD_LABEL
<1>1. /\ SubSeq(q, 1, d) \in Name /\ Len(SubSeq(q, 1, d)) = d
      /\ \A i \in 1..d : SubSeq(q, 1, d)[i] = q[i]
    BY DEF Name
<1>2. WILDCARD_LABEL \in Seq(Nat)
    BY DEF WILDCARD_LABEL
<1> QED
    BY <1>1, <1>2 DEF Wanted, Name

\* The comparison behind a probe is equality of names but for the letter case.
LEMMA MatchIsEquality ==
    ASSUME NEW name \in Name, NEW q \in Name, LowerName(q) = q,
           NEW d \in 0..Len(q), NEW star \in BOOLEAN
    PROVE  node_name_matches(name, q, d, star) <=> LowerName(name) = Wanted(q, d, star)
<1> DEFINE w == Wanted(q, d, star)
           n == d + (IF star THEN 1 ELSE 0)
           lname == LowerName(name)
<1>1. /\ w \in Name /\ Len(w) = n /\ n \in Nat
      /\ \A i \in 1..d : w[i] = q[i]
      /\ star => w[d + 1] = WILDCARD_LABEL
    BY WantedShape
<1>2. /\ lname \in Name /\ Len(lname) = Len(name)
      /\ \A i \in 1..Len(name) : lname[i] = LowerLabel(name[i])
    BY Lowered
<1>3. \A i \in 1..Len(q) : q[i] = LowerLabel(q[i]) /\ q[i] \in Seq(Nat)
    BY Lowered DEF Name
<1>4. \A i \in 1..Len(name) : name[i] \in Seq(Nat)
    BY DEF Name
<1>5. DOMAIN q = 1..Len(q)
    BY DEF Name
<1> HIDE DEF w, lname
<1>6. ASSUME node_name_matches(name, q, d, star) PROVE lname = w
    <2>1. Len(name) = n
        BY <1>6 DEF node_name_matches
    <2>2. \A i \in 1..d : lname[i] = w[i]
        <3> TAKE i \in 1..d
        <3>1. eq_ignore_ascii_case(name[i], q[i])
            BY <1>6 DEF node_name_matches
        <3>2. i \in 1..Len(name) /\ i \in 1..Len(q)
            BY <2>1
        <3>3. LowerLabel(name[i]) = LowerLabel(q[i])
            BY <3>1, <3>2, <1>3, <1>4, LoweredLabel
        <3> QED
            BY <3>2, <3>3, <1>1, <1>2, <1>3
    <2>3. star => lname[d + 1] = w[d + 1]
        <3> HAVE star
        <3>1. name[d + 1] = WILDCARD_LABEL /\ d + 1 \in 1..Len(name)
            BY <1>6, <2>1 DEF node_name_matches
        <3>2. LowerLabel(name[d + 1]) = WILDCARD_LABEL
            BY <3>1, <1>4, LoweredLabel
        <3> QED
            BY <3>1, <3>2, <1>1, <1>2
    <2>4. \A i \in 1..n : lname[i] = w[i]
        BY <2>2, <2>3
    <2> QED
        BY <2>1, <2>4, <1>1, <1>2 DEF Name
<1>7. ASSUME lname = w PROVE node_name_matches(name, q, d, star)
    <2>1. Len(name) = n
        BY <1>7, <1>1, <1>2
    <2>2. \A i \in 1..d : i \in DOMAIN q /\ eq_ignore_ascii_case(name[i], q[i])
        <3> TAKE i \in 1..d
        <3>1. i \in 1..Len(name) /\ i \in 1..Len(q)
            BY <2>1
        <3>2. LowerLabel(name[i]) = LowerLabel(q[i])
            BY <3>1, <1>1, <1>2, <1>3, <1>7
        <3> QED
            BY <3>1, <3>2, <1>3, <1>4, <1>5, LoweredLabel
    <2>3. star => name[d + 1] = WILDCARD_LABEL
        <3> HAVE star
        <3>1. d + 1 \in 1..Len(name)
            BY <2>1
        <3>2. LowerLabel(name[d + 1]) = WILDCARD_LABEL
            BY <3>1, <1>1, <1>2, <1>7
        <3> QED
            BY <3>1, <3>2, <1>4, LoweredLabel
    <2> QED
        BY <2>1, <2>2, <2>3 DEF node_name_matches
<1> QED
    BY <1>6, <1>7 DEF w, lname

-----------------------------------------------------------------------------
(* The index. *)

\* What IndexInv says of the zone and the name that is looked up.
Asked ==
    /\ arena \in Arenas /\ qname \in Queries
    /\ IsStrictPrefix(LowerName(arena[1]), qname)
    /\ index = build_index(seed, arena) /\ hashes = SuffixHashes(seed, qname)
    /\ origin_depth = Len(arena[1]) /\ labels = Len(qname)
    /\ deepest = Max(AncestorDepths)

LEMMA TheZone ==
    ASSUME Asked
    PROVE  /\ arena \in Seq(Name) /\ Len(arena) \in Nat /\ 1 \in DOMAIN arena
           /\ DOMAIN arena = 1..Len(arena)
           /\ \A i \in DOMAIN arena : arena[i] \in Name /\ Len(arena[i]) \in 0..MAX_LABELS
           /\ qname \in Name /\ Len(qname) \in 0..MAX_LABELS /\ LowerName(qname) = qname
<1>1. arena \in Seq(Name) /\ arena # <<>>
    BY NamesAssumption DEF Asked
<1>2. \A i \in DOMAIN arena : Len(arena[i]) \in ZoneDepths
    BY NamesAssumption DEF Asked
<1>3. DOMAIN arena = 1..Len(arena) /\ Len(arena) \in Nat /\ 1 \in DOMAIN arena
    BY <1>1
<1>4. \A i \in DOMAIN arena : arena[i] \in Name
    BY <1>1, <1>3
<1>5. qname \in Name /\ Len(qname) \in QueryLabels /\ LowerName(qname) = qname
    BY NamesAssumption DEF Asked
<1> QED
    BY <1>1, <1>2, <1>3, <1>4, <1>5, DepthsAssumption

\* The hash a probe at depth d goes by.
Probed(d, star) ==
    IF star THEN mix_label(at(hashes, d), WILDCARD_LABEL) ELSE at(hashes, d)

\* A node that is the one wanted is filed under the hash the probe goes by: the
\* hash of a configured name and the one folded along the query agree.
LEMMA FiledUnderItsHash ==
    ASSUME Asked, NEW d \in 0..Len(qname), NEW star \in BOOLEAN,
           NEW i \in DOMAIN arena, LowerName(arena[i]) = Wanted(qname, d, star)
    PROVE  index[i] = Probed(d, star)
<1> DEFINE w == Wanted(qname, d, star)
           q == SubSeq(qname, 1, Len(qname))
<1>1. /\ w \in Name /\ Len(w) = d + (IF star THEN 1 ELSE 0)
      /\ \A k \in 1..d : w[k] = qname[k]
      /\ star => w[d + 1] = WILDCARD_LABEL
    BY WantedShape, TheZone
<1>2. Len(arena[i]) = Len(w)
    BY Lowered, TheZone
<1>3. index[i] = Mixed(seed, w)[Len(w)]
    BY <1>2 DEF Asked, build_index, name_hash
<1>4. at(hashes, d) = Mixed(seed, q)[d]
    BY TheZone DEF Asked, SuffixHashes, at
<1>5. q = qname /\ Len(qname) \in Nat /\ d \in Nat
    BY TheZone DEF Name
<1> HIDE DEF w, q
<1>6. Mixed(seed, w)[d] = Mixed(seed, q)[d]
    <2>1. Len(w) \in Nat /\ d <= Len(w) /\ Len(q) \in Nat /\ d <= Len(q)
        BY <1>1, <1>5
    <2>2. \A k \in 1..d : w[k] = q[k]
        BY <1>1, <1>5
    <2>3. d \in Nat
        BY <1>5
    <2> QED
        BY <2>1, <2>2, <2>3, MixedAgrees
<1>7. CASE star
    <2>1. /\ Len(w) = d + 1 /\ d + 1 \in 1..Len(w) /\ (d + 1) - 1 = d
          /\ Len(w) \in Nat
        BY <1>1, <1>5, <1>7
    <2>2. Mixed(seed, w)[d + 1] = mix_label(Mixed(seed, w)[(d + 1) - 1], w[d + 1])
        BY <2>1, MixedStep
    <2> QED
        BY <2>1, <2>2, <1>1, <1>3, <1>4, <1>6, <1>7 DEF Probed
<1>8. CASE ~star
    <2>1. Len(w) = d
        BY <1>1, <1>5, <1>8
    <2> QED
        BY <2>1, <1>3, <1>4, <1>6, <1>8 DEF Probed
<1> QED
    BY <1>7, <1>8

\* A probe is membership in the zone's names, and the node it returns has the
\* name wanted.
LEMMA ProbeIsMembership ==
    ASSUME Asked, NEW d \in 0..Len(qname), NEW star \in BOOLEAN
    PROVE  IF Wanted(qname, d, star) \in Names
           THEN /\ probe(Probed(d, star), d, star) # 0
                /\ LowerName(arena[probe(Probed(d, star), d, star)]) = Wanted(qname, d, star)
           ELSE probe(Probed(d, star), d, star) = 0
<1> DEFINE w == Wanted(qname, d, star)
           confirmed == {i \in DOMAIN index : index[i] = Probed(d, star)
                                              /\ node_name_matches(arena[i], qname, d, star)}
           n == probe(Probed(d, star), d, star)
<1>1. DOMAIN index = DOMAIN arena
    BY DEF Asked, build_index
<1>2. \A i \in DOMAIN arena :
        node_name_matches(arena[i], qname, d, star) <=> LowerName(arena[i]) = w
    BY MatchIsEquality, TheZone
<1>3. n = IF confirmed = {} THEN 0 ELSE CHOOSE i \in confirmed : TRUE
    BY DEF probe
<1>4. confirmed = {i \in DOMAIN arena : LowerName(arena[i]) = w}
    BY <1>1, <1>2, FiledUnderItsHash
<1>5. 0 \notin DOMAIN arena
    BY TheZone
<1> HIDE DEF confirmed, n, w
<1>6. CASE confirmed = {}
    <2>1. w \notin Names
        BY <1>4, <1>6 DEF Names
    <2> QED
        BY <2>1, <1>3, <1>6 DEF w, n
<1>7. CASE confirmed # {}
    <2>1. n \in confirmed
        BY <1>3, <1>7
    <2>2. n \in DOMAIN arena /\ LowerName(arena[n]) = w
        BY <1>4, <2>1
    <2>3. w \in Names
        BY <2>2 DEF Names
    <2> QED
        BY <2>2, <2>3, <1>5 DEF w, n
<1> QED
    BY <1>6, <1>7

\* A set of numbers up to N that is not empty has a greatest.
LEMMA Greatest ==
    ASSUME NEW N \in Nat, NEW S \in SUBSET (0..N), S # {}
    PROVE  Max(S) \in S /\ \A x \in S : x <= Max(S)
<1> DEFINE T == {y \in Nat : \E x \in S : y = N - x}
<1>1. T # {} /\ T \subseteq Nat
    <2>1. PICK x \in S : TRUE
        OBVIOUS
    <2>2. N - x \in T
        OBVIOUS
    <2> QED
        BY <2>2
<1>2. PICK y \in T : \A z \in T : ~(<<z, y>> \in OpToRel(<, Nat))
    BY <1>1, WFMin, NatLessThanWellFounded
<1>3. PICK x \in S : y = N - x
    OBVIOUS
<1>4. \A z \in S : x >= z
    <2> TAKE z \in S
    <2>1. N - z \in T /\ N - z \in Nat
        OBVIOUS
    <2>2. ~(N - z < y)
        BY <1>2, <2>1 DEF OpToRel
    <2> QED
        BY <1>3, <2>2
<1>5. Max(S) \in S /\ \A z \in S : Max(S) >= z
    BY <1>4 DEF Max
<1> QED
    BY <1>5

\* The ancestors of the name among the zone's nodes: not none, and deepest is
\* the last of them.
LEMMA DeepestAncestor ==
    ASSUME Asked
    PROVE  /\ deepest \in AncestorDepths
           /\ \A d \in AncestorDepths : d <= deepest
           /\ Len(arena[1]) \in AncestorDepths
<1>1. LowerName(arena[1]) \in Name /\ Len(LowerName(arena[1])) = Len(arena[1])
    BY TheZone, Lowered
<1>2. IsStrictPrefix(LowerName(arena[1]), qname)
    BY DEF Asked
<1> DEFINE o == LowerName(arena[1])
<1>3. Len(o) \in 0..(Len(qname) - 1) /\ SubSeq(qname, 1, Len(o)) = o
    <2>1. qname \in Name /\ Len(qname) \in Nat
        BY TheZone
    <2> HIDE DEF o
    <2>2. o \in Name /\ IsStrictPrefix(o, qname)
        BY <1>1, <1>2 DEF o
    <2>3. /\ Len(o) <= Len(qname) /\ o # qname
          /\ SubSeq(o, 1, Len(o)) = SubSeq(qname, 1, Len(o))
        BY <2>2 DEF IsStrictPrefix, IsPrefix
    <2>4. SubSeq(o, 1, Len(o)) = o /\ SubSeq(qname, 1, Len(qname)) = qname /\ Len(o) \in Nat
        BY <2>1, <2>2 DEF Name
    <2>5. Len(o) # Len(qname)
        BY <2>3, <2>4
    <2>6. Len(o) \in 0..(Len(qname) - 1)
        <3>1. Len(o) \in Nat /\ Len(qname) \in Nat /\ Len(o) <= Len(qname)
            BY <2>1, <2>3, <2>4
        <3> QED
            BY <2>5, <3>1
    <2>7. SubSeq(qname, 1, Len(o)) = o
        BY <2>3, <2>4
    <2> QED
        BY <2>6, <2>7
<1>4. o \in Names
    BY TheZone DEF Names
<1>5. Len(arena[1]) \in AncestorDepths
    BY <1>1, <1>3, <1>4 DEF AncestorDepths
<1>6. AncestorDepths \in SUBSET (0..Len(qname)) /\ Len(qname) \in Nat
    BY TheZone DEF AncestorDepths
<1> HIDE DEF o
<1>7. Max(AncestorDepths) \in AncestorDepths /\ \A d \in AncestorDepths : d <= Max(AncestorDepths)
    BY <1>5, <1>6, Greatest
<1> QED
    BY <1>5, <1>7 DEF Asked

\* Because the zone is closed under ancestry, its names among the proper
\* ancestors of the query are those from the origin to the deepest.
LEMMA TreeOfAncestors ==
    ASSUME Asked, NEW d \in 0..(Len(qname) - 1)
    PROVE  SubSeq(qname, 1, d) \in Names <=> node_at(d)
<1>1. /\ deepest \in 0..(Len(qname) - 1) /\ SubSeq(qname, 1, deepest) \in Names
      /\ Len(qname) \in Nat /\ qname \in Name
    BY DeepestAncestor, TheZone DEF AncestorDepths
<1>2. ASSUME SubSeq(qname, 1, d) \in Names PROVE node_at(d)
    <2>1. d <= deepest
        BY <1>2, DeepestAncestor DEF AncestorDepths
    <2>2. PICK i \in DOMAIN arena : SubSeq(qname, 1, d) = LowerName(arena[i])
        BY <1>2 DEF Names
    <2>3. Len(SubSeq(qname, 1, d)) = d
        BY <1>1 DEF Name
    <2>4. Len(arena[i]) = d
        BY <2>2, <2>3, TheZone, Lowered
    <2>5. Len(arena[1]) <= Len(arena[i])
        BY NamesAssumption DEF Asked
    <2> QED
        BY <2>1, <2>4, <2>5 DEF node_at, Asked
<1>3. ASSUME node_at(d) PROVE SubSeq(qname, 1, d) \in Names
    <2>1. origin_depth <= d /\ d <= deepest
        BY <1>3 DEF node_at
    <2>2. PICK i \in DOMAIN arena : SubSeq(qname, 1, deepest) = LowerName(arena[i])
        BY <1>1 DEF Names
    <2>3. Len(SubSeq(qname, 1, deepest)) = deepest
        BY <1>1 DEF Name
    <2>4. Len(arena[i]) = deepest
        BY <2>2, <2>3, TheZone, Lowered
    <2>5. d \in Len(arena[1])..Len(arena[i])
        BY <2>1, <2>4, <1>1, TheZone DEF Asked
    <2>6. PICK j \in DOMAIN arena : LowerName(arena[j]) = SubSeq(LowerName(arena[i]), 1, d)
        BY <2>5, NamesAssumption DEF Asked
    <2>7. SubSeq(SubSeq(qname, 1, deepest), 1, d) = SubSeq(qname, 1, d)
        <3>1. /\ SubSeq(qname, 1, deepest) \in Seq(Seq(Nat)) /\ SubSeq(qname, 1, d) \in Seq(Seq(Nat))
              /\ Len(SubSeq(qname, 1, d)) = d
              /\ \A k \in 1..d : SubSeq(qname, 1, d)[k] = qname[k]
              /\ \A k \in 1..d : SubSeq(qname, 1, deepest)[k] = qname[k]
            BY <1>1, <2>1 DEF Name
        <3> DEFINE s == SubSeq(qname, 1, deepest)
                   t == SubSeq(qname, 1, d)
                   u == SubSeq(s, 1, d)
        <3>2. Len(s) = deepest /\ d <= Len(s) /\ d \in Nat
            BY <1>1, <2>1, <2>3
        <3> HIDE DEF s, t
        <3>3. u \in Seq(Seq(Nat)) /\ Len(u) = d /\ \A k \in 1..d : u[k] = s[k]
            BY <3>1, <3>2 DEF s
        <3> HIDE DEF u
        <3>4. t \in Seq(Seq(Nat)) /\ Len(t) = d /\ \A k \in 1..d : t[k] = s[k]
            BY <3>1 DEF s, t
        <3>5. u = t
            BY <3>3, <3>4, SeqEqual
        <3> QED
            BY <3>5 DEF u, s, t
    <2> QED
        BY <2>2, <2>6, <2>7 DEF Names
<1> QED
    BY <1>2, <1>3 DEF node_at

\* The table of suffix hashes has an entry for every depth the name has.
LEMMA SuffixWithin ==
    ASSUME NEW sh, NEW n \in 0..MAX_LABELS, sh.labels = n, NEW d \in Nat
    PROVE  has_suffix(sh, d) <=> d <= n
<1>1. has_suffix(sh, d) <=> d <= n /\ d <= MAX_LABELS
    BY DEF has_suffix
<1> QED
    BY <1>1 DEF MAX_LABELS

\* A probe of the index answers what the search over the tree would be told.
LEMMA ProbeIsNodeAt ==
    ASSUME Asked, IInv, qname \notin Names, NEW d \in Nat
    PROVE  (indexed_node_at(d) # 0) <=> node_at(d)
<1>1. /\ Len(qname) \in 0..MAX_LABELS /\ qname \in Name
      /\ hashes.labels = Len(qname) /\ deepest \in Nat /\ deepest < Len(qname)
    BY TheZone DEF Asked, SuffixHashes, label_count, IInv, TypeOK, Question
<1>2. has_suffix(hashes, d) <=> d <= Len(qname)
    BY <1>1, SuffixWithin
<1>3. CASE d > Len(qname)
    <2>1. ~has_suffix(hashes, d)
        BY <1>1, <1>2, <1>3
    <2>3. indexed_node_at(d) = 0
        BY <2>1 DEF indexed_node_at
    <2>2. ~node_at(d)
        BY <1>1, <1>3 DEF node_at
    <2> QED
        BY <2>2, <2>3
<1>4. CASE d <= Len(qname)
    <2>1. d \in 0..Len(qname)
        BY <1>1, <1>4
    <2>2. indexed_node_at(d) = probe(Probed(d, FALSE), d, FALSE)
        BY <1>2, <1>4 DEF indexed_node_at, Probed
    <2>3. (indexed_node_at(d) # 0) <=> SubSeq(qname, 1, d) \in Names
        BY <2>1, <2>2, ProbeIsMembership DEF Wanted
    <2>4. CASE d = Len(qname)
        <3>1. SubSeq(qname, 1, d) = qname
            BY <2>4, <1>1 DEF Name
        <3>2. ~node_at(d)
            BY <2>4, <1>1 DEF node_at
        <3> QED
            BY <2>3, <3>1, <3>2
    <2>5. CASE d \in 0..(Len(qname) - 1)
        BY <2>3, <2>5, TreeOfAncestors
    <2> QED
        BY <2>1, <2>4, <2>5, <1>1
<1> QED
    BY <1>1, <1>3, <1>4

-----------------------------------------------------------------------------
(* The lookup. *)

\* A lookup begins where a search over the tree may begin.
LEMMA IndexInitInv == IndexInit => Init /\ IndexInv
<1> SUFFICES ASSUME IndexInit PROVE Init /\ IndexInv
    OBVIOUS
<1> DEFINE Depths == {Len(arena[i]) : i \in DOMAIN arena}
<1>1. arena \in Arenas /\ qname \in Queries
    BY DEF IndexInit
<1>2. /\ arena \in Seq(Name) /\ arena # <<>> /\ Len(arena[1]) \in OriginDepths
      /\ Depths \subseteq ZoneDepths
      /\ \A i \in DOMAIN arena : Len(arena[1]) <= Len(arena[i])
    BY <1>1, NamesAssumption
<1>3. 1 \in DOMAIN arena
    BY <1>2
<1>4. Len(arena[1]) \in 0..MAX_LABELS /\ MAX_LABELS \in Nat /\ Depths \in SUBSET (0..MAX_LABELS)
    BY <1>2, DepthsAssumption DEF MAX_LABELS
<1>5. Max(Depths) \in Depths /\ \A d \in Depths : d <= Max(Depths)
    <2>1. Depths # {}
        BY <1>3
    <2> HIDE DEF Depths
    <2> QED
        BY <2>1, <1>4, Greatest
<1>6. origin_depth = Len(arena[1]) /\ origin_depth \in 0..MAX_LABELS
    BY <1>4 DEF IndexInit, depth_byte, label_count
<1>7. Asked
    BY <1>6 DEF IndexInit, Asked
<1>8. max_depth = Max(Depths) /\ max_depth \in ZoneDepths /\ max_depth \in 0..MAX_LABELS
    BY <1>2, <1>4, <1>5 DEF IndexInit, depth_byte
<1>9. labels \in QueryLabels /\ Len(qname) \in 0..MAX_LABELS /\ labels = Len(qname)
    BY <1>1, <1>7, TheZone, NamesAssumption DEF Asked
<1>10. origin_depth <= deepest /\ deepest \in 0..(labels - 1)
    BY <1>6, <1>7, <1>9, DeepestAncestor DEF AncestorDepths
<1>11. deepest <= max_depth
    <2>1. SubSeq(qname, 1, deepest) \in Names /\ qname \in Name
        BY <1>7, DeepestAncestor, TheZone DEF AncestorDepths
    <2>2. PICK i \in DOMAIN arena : SubSeq(qname, 1, deepest) = LowerName(arena[i])
        BY <2>1 DEF Names
    <2>3. Len(SubSeq(qname, 1, deepest)) = deepest
        BY <2>1, <1>9, <1>10 DEF Name
    <2>4. Len(arena[i]) = deepest
        BY <2>2, <2>3, <1>7, TheZone, Lowered
    <2>5. deepest \in Depths
        BY <2>4
    <2> QED
        BY <2>5, <1>5, <1>8
<1>12. max_depth >= origin_depth
    BY <1>6, <1>8, <1>10, <1>11, <1>9
<1>13. Init
    <2>1. deepest \in origin_depth..(labels - 1)
        BY <1>6, <1>9, <1>10
    <2>2. labels > origin_depth
        BY <1>6, <1>9, <1>10
    <2> QED
        BY <2>1, <2>2, <1>2, <1>6, <1>8, <1>9, <1>11, <1>12 DEF Init, IndexInit
<1> QED
    BY <1>7, <1>13, InitIInv DEF IndexInv, Asked, IndexInit, IndexAnswers

\* What the question is does not change.
LEMMA AskedIsStable == ASSUME Asked, UNCHANGED <<zone, question>> PROVE Asked'
BY DEF Asked, zone, question, Names, AncestorDepths, build_index, SuffixHashes

LEMMA InvAsked == IndexInv <=> /\ Asked /\ IInv /\ IndexAnswers
                               /\ stage = "search" => qname \notin Names
BY DEF IndexInv, Asked

\* Every step of a lookup is a step of the search or leaves the search alone,
\* and keeps the invariant.
LEMMA IndexNextInv == IndexInv /\ [IndexNext]_allVars => [Next]_vars /\ IndexInv'
<1> SUFFICES ASSUME IndexInv, [IndexNext]_allVars PROVE [Next]_vars /\ IndexInv'
    OBVIOUS
<1>1. Asked /\ IInv /\ IndexAnswers /\ (stage = "search" => qname \notin Names)
    BY InvAsked
<1>2. CASE Exact
    <2>1. UNCHANGED <<zone, searching>> /\ UNCHANGED vars
        BY <1>2 DEF Exact, searching, vars
    <2>2. Asked' /\ IInv'
        BY <1>1, <2>1, AskedIsStable, NextIInv DEF vars, searching
    <2>3. hashes.labels = Len(qname) /\ Len(qname) \in 0..MAX_LABELS /\ qname \in Name
        BY <1>1, TheZone DEF Asked, SuffixHashes, label_count
    <2>4. exact_node = probe(Probed(Len(qname), FALSE), Len(qname), FALSE)
        <3>1. has_suffix(hashes, Len(qname))
            BY <2>3, SuffixWithin
        <3> QED
            BY <2>3, <3>1 DEF exact_node, indexed_node_at, Probed
    <2>5. SubSeq(qname, 1, Len(qname)) = qname
        BY <2>3 DEF Name
    <2>6. IF qname \in Names THEN exact_node # 0 /\ LowerName(arena[exact_node]) = qname
          ELSE exact_node = 0
        <3>1. Len(qname) \in 0..Len(qname) /\ FALSE \in BOOLEAN
            BY <2>3
        <3>2. Wanted(qname, Len(qname), FALSE) = qname
            BY <2>5 DEF Wanted
        <3> QED
            BY <1>1, <2>4, <3>1, <3>2, ProbeIsMembership
    <2>7. Names' = Names /\ AncestorDepths' = AncestorDepths /\ qname' = qname /\ arena' = arena
        BY <2>1 DEF Names, AncestorDepths, zone
    <2>8. /\ stage' = "search" => qname \notin Names
          /\ stage' = "answered" => /\ node' # 0 /\ qname \in Names
                                    /\ LowerName(arena[node']) = qname
        BY <1>2, <2>6 DEF Exact
    <2>9. IndexAnswers'
        BY <2>7, <2>8 DEF IndexAnswers
    <2> QED
        BY <2>1, <2>2, <2>7, <2>8, <2>9 DEF IndexInv, Asked
<1>3. CASE Search
    <2>1. stage = "search" /\ qname \notin Names /\ UNCHANGED <<zone, stage, node>>
        BY <1>1, <1>3 DEF Search
    <2>2. ceiling \in Nat
        BY <1>1 DEF IInv, TypeOK, Question, ceiling
    <2>3. (indexed_node_at(ceiling) # 0) <=> node_at(ceiling)
        BY <1>1, <2>1, <2>2, ProbeIsNodeAt
    <2>4. ASSUME Floor PROVE Next
        BY <2>4 DEF Next
    <2>5. ASSUME ProbeCeiling(indexed_node_at(ceiling) # 0) PROVE Next
        BY <2>3, <2>5 DEF Next, ProbeCeiling
    <2>6. ASSUME Probe(indexed_node_at(mid) # 0) PROVE Next
        <3>1. mid \in Nat
            BY <1>1, <2>6, Halving DEF IInv, TypeOK, Probe, mid
        <3>2. (indexed_node_at(mid) # 0) <=> node_at(mid)
            BY <1>1, <2>1, <3>1, ProbeIsNodeAt
        <3> QED
            BY <2>6, <3>2 DEF Next, Probe
    <2>7. ASSUME Return PROVE Next
        BY <2>7 DEF Next
    <2>8. Next
        BY <1>3, <2>4, <2>5, <2>6, <2>7 DEF Search
    <2>9. UNCHANGED question
        BY <2>8 DEF Next, Floor, ProbeCeiling, Probe, Return, question
    <2>10. Asked' /\ IInv'
        BY <1>1, <2>1, <2>8, <2>9, AskedIsStable, NextIInv
    <2>11. Names' = Names /\ qname' = qname /\ stage' = "search"
        BY <2>1 DEF Names, zone
    <2> QED
        BY <2>1, <2>8, <2>10, <2>11 DEF IndexInv, Asked, IndexAnswers
<1>4. CASE Synthesise
    <2>1. UNCHANGED <<zone, searching>> /\ UNCHANGED vars /\ pc = "done"
        BY <1>4 DEF Synthesise, searching, vars
    <2>2. Asked' /\ IInv'
        BY <1>1, <2>1, AskedIsStable, NextIInv DEF vars, searching
    <2>3. /\ depth = Max(AncestorDepths) /\ depth \in 0..(Len(qname) - 1)
          /\ Len(qname) \in 0..MAX_LABELS /\ hashes.labels = Len(qname)
        BY <1>1, <2>1, DeepestAncestor, TheZone
        DEF Asked, IInv, AncestorDepths, SuffixHashes, label_count
    <2>4. wildcard_node(depth) = probe(Probed(depth, TRUE), depth, TRUE)
        <3>1. has_suffix(hashes, depth)
            BY <2>3, SuffixWithin
        <3> QED
            BY <3>1 DEF wildcard_node, Probed
    <2> DEFINE w == Append(SubSeq(qname, 1, depth), WILDCARD_LABEL)
    <2>5. IF w \in Names
          THEN wildcard_node(depth) # 0 /\ LowerName(arena[wildcard_node(depth)]) = w
          ELSE wildcard_node(depth) = 0
        <3>1. depth \in 0..Len(qname) /\ TRUE \in BOOLEAN
            BY <2>3
        <3>2. Wanted(qname, depth, TRUE) = w
            BY DEF Wanted
        <3> HIDE DEF w
        <3> QED
            BY <1>1, <2>4, <3>1, <3>2, ProbeIsMembership
    <2>6. Names' = Names /\ AncestorDepths' = AncestorDepths /\ qname' = qname /\ arena' = arena
        BY <2>1 DEF Names, AncestorDepths, zone
    <2>7. stage' = "answered" /\ node' = wildcard_node(depth) /\ qname \notin Names
        BY <1>1, <1>4 DEF Synthesise
    <2>8. IndexAnswers'
        BY <2>3, <2>5, <2>6, <2>7 DEF IndexAnswers
    <2> QED
        BY <2>1, <2>2, <2>7, <2>8 DEF IndexInv, Asked
<1>5. CASE UNCHANGED allVars
    <2>1. UNCHANGED vars /\ UNCHANGED <<zone, question, stage, node>>
        BY <1>5 DEF allVars, searching, vars
    <2>2. Asked' /\ IInv'
        BY <1>1, <2>1, AskedIsStable, NextIInv
    <2>3. /\ Names' = Names /\ AncestorDepths' = AncestorDepths
          /\ qname' = qname /\ arena' = arena /\ stage' = stage /\ node' = node
        BY <2>1 DEF Names, AncestorDepths, zone
    <2>4. IndexAnswers'
        BY <1>1, <2>3 DEF IndexAnswers
    <2> QED
        BY <1>1, <2>1, <2>2, <2>3, <2>4 DEF IndexInv, Asked
<1> QED
    BY <1>2, <1>3, <1>4, <1>5 DEF IndexNext

(***************************************************************************)
(* The lookup through the hash table implements the search over the tree:  *)
(* what is proved of closest_encloser holds of a zone's index, for every   *)
(* hash function, seed and collision (zone.rs probe).                      *)
(***************************************************************************)
THEOREM IndexSearchesTheTree == IndexSpec => SearchesTheTree
  BY IndexInitInv, IndexNextInv, PTL DEF IndexSpec, SearchesTheTree, Spec

(***************************************************************************)
(* A lookup answers from the node the zone's names determine: the name in  *)
(* any letter case, else the asterisk below its deepest existing ancestor, *)
(* else none (resolve, source_of_synthesis).                               *)
(***************************************************************************)
THEOREM IndexAnswersRight == IndexSpec => []IndexAnswers
  <1>1. IndexInv => IndexAnswers
    BY DEF IndexInv
  <1> QED
    BY IndexInitInv, IndexNextInv, <1>1, PTL DEF IndexSpec
=============================================================================
