---------------------------- MODULE Serving_proof ----------------------------
(***************************************************************************)
(* What the server serves is right: the zone it builds from any file, and  *)
(* the responses it makes of any zone.                                     *)
(*                                                                         *)
(* The zone: the builder's books (BuildInv) are kept by every block; the   *)
(* tree holds what they hold; its canonical order lists it with subtrees   *)
(* in one piece; one pass over that order finds the delegation over each   *)
(* node; bisection finds the closest encloser; the chase follows the       *)
(* aliases as the reference does; referrals and occlusion share out what   *)
(* lies below a delegation; and the arenas lay the records out so that     *)
(* each search reads back its own.                                         *)
(*                                                                         *)
(* The handler: its theorems are about any zone at all, so what a lookup   *)
(* returns stays opaque there, and only that it is a response is used.     *)
(***************************************************************************)
EXTENDS Handler, ZoneBuild, FiniteSetTheorems, SequenceTheorems, WellFoundedInduction, TLAPS

-----------------------------------------------------------------------------
(* Sequences. *)

\* Induction over the natural numbers, from the well-foundedness of their
\* order: a set that holds 0 and the successor of each of its members holds
\* them all.
LEMMA NatSetInduction ==
    ASSUME NEW S, 0 \in S, \A n \in Nat : n \in S => n + 1 \in S
    PROVE  \A n \in Nat : n \in S
<1> DEFINE T == Nat \ S
<1> SUFFICES ASSUME T # {} PROVE FALSE
    OBVIOUS
<1>1. PICK x \in T : \A y \in T : ~(<<y, x>> \in OpToRel(<, Nat))
    BY WFMin, NatLessThanWellFounded
<1>2. x \in Nat /\ x # 0
    OBVIOUS
<1>3. x - 1 \in Nat /\ (x - 1) + 1 = x /\ <<x - 1, x>> \in OpToRel(<, Nat)
    BY <1>2 DEF OpToRel
<1>4. x - 1 \in S
    BY <1>1, <1>3
<1>5. x \in S
    BY <1>3, <1>4
<1> QED
    BY <1>5

\* A table of n concatenations as the loop of FlattenSeq fills it.
Flattens(h, seqs, n) ==
    h = [i \in 1..n |-> IF i = 1 THEN seqs[i] ELSE h[i - 1] \o seqs[i]]

LEMMA Flattened == ASSUME NEW seqs PROVE \A n \in Nat : \E h : Flattens(h, seqs, n)
<1> DEFINE S == {n \in Nat : \E h : Flattens(h, seqs, n)}
<1>1. 0 \in S
    <2> DEFINE h == [i \in 1..0 |-> seqs]
    <2>1. Flattens(h, seqs, 0)
        BY DEF Flattens
    <2> QED
        BY <2>1
<1>2. ASSUME NEW n \in Nat, n \in S PROVE n + 1 \in S
    <2>1. PICK f : Flattens(f, seqs, n)
        BY <1>2
    <2> DEFINE last == IF n = 0 THEN seqs[1] ELSE f[n] \o seqs[n + 1]
               h == [i \in 1..(n + 1) |-> IF i = n + 1 THEN last ELSE f[i]]
               g == [i \in 1..(n + 1) |-> IF i = 1 THEN seqs[i] ELSE h[i - 1] \o seqs[i]]
    <2>2. \A i \in 1..n : f[i] = IF i = 1 THEN seqs[i] ELSE f[i - 1] \o seqs[i]
        BY <2>1 DEF Flattens
    <2>3. ASSUME NEW i \in 1..(n + 1)
          PROVE  h[i] = IF i = 1 THEN seqs[i] ELSE h[i - 1] \o seqs[i]
        <3>1. CASE i = n + 1
            <4>1. h[i] = last
                BY <3>1
            <4>2. CASE n = 0
                BY <4>1, <4>2, <3>1
            <4>3. CASE n # 0
                <5>1. h[i - 1] = f[n] /\ i # 1
                    BY <3>1, <4>3
                <5> QED
                    BY <5>1, <4>1, <4>3, <3>1
            <4> QED
                BY <4>2, <4>3
        <3>2. CASE i = 1 /\ i # n + 1
            BY <3>2, <2>2
        <3>3. CASE i \in 2..n
            <4>1. h[i] = f[i] /\ h[i - 1] = f[i - 1]
                BY <3>3
            <4> QED
                BY <3>3, <4>1, <2>2
        <3> QED
            BY <3>1, <3>2, <3>3
    <2>4. DOMAIN h = 1..(n + 1) /\ h = [i \in DOMAIN h |-> h[i]]
        OBVIOUS
    <2>5. DOMAIN g = 1..(n + 1)
          /\ \A i \in 1..(n + 1) : g[i] = IF i = 1 THEN seqs[i] ELSE h[i - 1] \o seqs[i]
        OBVIOUS
    <2> HIDE DEF h
    <2>6. h = g
        BY <2>3, <2>4, <2>5
    <2>7. Flattens(h, seqs, n + 1)
        BY <2>6 DEF Flattens
    <2> QED
        BY <2>7
<1> HIDE DEF S
<1>3. \A n \in Nat : n \in S
    BY <1>1, <1>2, NatSetInduction
<1> QED
    BY <1>3 DEF S

\* Two sequences in a row hold what each holds.
LEMMA Joined ==
    ASSUME NEW S, NEW s \in Seq(S), NEW t \in Seq(S)
    PROVE  s \o t \in Seq(S) /\ ToSet(s \o t) = ToSet(s) \cup ToSet(t)
<1>1. /\ s \o t \in Seq(S) /\ Len(s \o t) = Len(s) + Len(t)
      /\ Len(s) \in Nat /\ Len(t) \in Nat
      /\ DOMAIN s = 1..Len(s) /\ DOMAIN t = 1..Len(t)
    OBVIOUS
<1>2. \A i \in 1..Len(s) : (s \o t)[i] = s[i]
    OBVIOUS
<1>3. \A i \in 1..Len(t) : (s \o t)[Len(s) + i] = t[i]
    OBVIOUS
<1> DEFINE u == s \o t
<1>4. DOMAIN u = 1..(Len(s) + Len(t))
    BY <1>1
<1> HIDE DEF u
<1>5. ASSUME NEW i \in DOMAIN u PROVE u[i] \in ToSet(s) \cup ToSet(t)
    <2>1. CASE i \in 1..Len(s)
        BY <2>1, <1>1, <1>2 DEF ToSet, u
    <2>2. CASE i > Len(s)
        <3>1. i - Len(s) \in 1..Len(t) /\ Len(s) + (i - Len(s)) = i
            BY <1>1, <1>4, <2>2
        <3>2. u[i] = t[i - Len(s)]
            BY <3>1, <1>3 DEF u
        <3> QED
            BY <3>1, <3>2, <1>1 DEF ToSet
    <2> QED
        BY <2>1, <2>2, <1>1, <1>4
<1>6. ASSUME NEW i \in DOMAIN s PROVE s[i] \in ToSet(u)
    BY <1>1, <1>2, <1>4 DEF ToSet, u
<1>7. ASSUME NEW i \in DOMAIN t PROVE t[i] \in ToSet(u)
    <2>1. Len(s) + i \in DOMAIN u /\ u[Len(s) + i] = t[i]
        BY <1>1, <1>3, <1>4 DEF u
    <2> QED
        BY <2>1 DEF ToSet
<1>8. ToSet(u) = ToSet(s) \cup ToSet(t)
    BY <1>5, <1>6, <1>7 DEF ToSet
<1> QED
    BY <1>1, <1>8 DEF u

\* A flattened sequence of sequences holds what they hold.
LEMMA FlattenHolds ==
    ASSUME NEW S, NEW seqs \in Seq(Seq(S))
    PROVE  /\ FlattenSeq(seqs) \in Seq(S)
           /\ ToSet(FlattenSeq(seqs)) = UNION {ToSet(seqs[i]) : i \in DOMAIN seqs}
<1>1. Len(seqs) \in Nat /\ DOMAIN seqs = 1..Len(seqs) /\ \A i \in 1..Len(seqs) : seqs[i] \in Seq(S)
    OBVIOUS
<1>2. CASE Len(seqs) = 0
    <2>1. FlattenSeq(seqs) = seqs /\ seqs = <<>> /\ DOMAIN seqs = {}
        BY <1>1, <1>2 DEF FlattenSeq
    <2> QED
        BY <2>1 DEF ToSet
<1>3. CASE Len(seqs) # 0
    <2> DEFINE f == CHOOSE h : Flattens(h, seqs, Len(seqs))
               Right(n) == /\ f[n] \in Seq(S)
                           /\ ToSet(f[n]) = UNION {ToSet(seqs[i]) : i \in 1..n}
               T == {n \in Nat : n + 1 <= Len(seqs) => Right(n + 1)}
    <2>1. FlattenSeq(seqs) = f[Len(seqs)]
        BY <1>3 DEF FlattenSeq, Flattens
    <2>2. Flattens(f, seqs, Len(seqs))
        BY <1>1, Flattened
    <2> HIDE DEF f
    <2>3. \A i \in 1..Len(seqs) : f[i] = IF i = 1 THEN seqs[i] ELSE f[i - 1] \o seqs[i]
        BY <2>2 DEF Flattens
    <2>4. 0 \in T
        <3>1. f[1] = seqs[1] /\ seqs[1] \in Seq(S)
            BY <1>1, <1>3, <2>3
        <3>2. UNION {ToSet(seqs[i]) : i \in 1..1} = ToSet(seqs[1])
            OBVIOUS
        <3>3. Right(1) /\ 0 + 1 = 1
            BY <3>1, <3>2
        <3> HIDE DEF Right
        <3> QED
            BY <3>3
    <2>5. ASSUME NEW n \in Nat, n \in T PROVE n + 1 \in T
        <3> DEFINE m == n + 1
        <3>1. m \in Nat \ {0} /\ (m <= Len(seqs) => Right(m)) /\ n + 1 = m
            BY <2>5
        <3> HIDE DEF m
        <3>2. ASSUME m + 1 <= Len(seqs) PROVE Right(m + 1)
            <4>1. f[m] \in Seq(S) /\ ToSet(f[m]) = UNION {ToSet(seqs[i]) : i \in 1..m}
                BY <1>1, <3>1, <3>2
            <4>2. m + 1 \in 1..Len(seqs) /\ m + 1 # 1 /\ (m + 1) - 1 = m
                BY <1>1, <3>1, <3>2
            <4>3. f[m + 1] = f[m] \o seqs[m + 1] /\ seqs[m + 1] \in Seq(S)
                BY <4>2, <2>3, <1>1
            <4>4. f[m + 1] \in Seq(S) /\ ToSet(f[m + 1]) = ToSet(f[m]) \cup ToSet(seqs[m + 1])
                BY <4>1, <4>3, Joined
            <4>5. 1..(m + 1) = 1..m \cup {m + 1}
                BY <3>1
            <4> QED
                BY <4>1, <4>4, <4>5
        <3> HIDE DEF Right
        <3> QED
            BY <3>1, <3>2
    <2> HIDE DEF T
    <2>8. \A n \in Nat : n \in T
        BY <2>4, <2>5, NatSetInduction
    <2>6. Len(seqs) - 1 \in T /\ Len(seqs) - 1 \in Nat
        BY <1>1, <1>3, <2>8
    <2>7. (Len(seqs) - 1) + 1 = Len(seqs)
        BY <1>1
    <2> QED
        BY <1>1, <2>1, <2>6, <2>7 DEF T
<1> QED
    BY <1>2, <1>3

\* A sequence is empty exactly when it holds nothing.
LEMMA EmptyHoldsNothing ==
    ASSUME NEW S, NEW s \in Seq(S)
    PROVE  s = <<>> <=> ToSet(s) = {}
<1>1. DOMAIN s = 1..Len(s) /\ Len(s) \in Nat
    OBVIOUS
<1>2. CASE s = <<>>
    BY <1>2 DEF ToSet
<1>3. CASE s # <<>>
    <2>1. Len(s) # 0
        BY <1>3
    <2>2. s[1] \in ToSet(s)
        BY <1>1, <2>1 DEF ToSet
    <2> QED
        BY <1>3, <2>2
<1> QED
    BY <1>2, <1>3

-----------------------------------------------------------------------------
(* Runs. *)

\* The runs of some types are those of the node, and only those.
LEMMA Retained ==
    ASSUME NEW S, NEW runs \in Seq(S), NEW types
    PROVE  /\ Retain(runs, types) \in Seq(S)
           /\ ToSet(Retain(runs, types)) = {r \in ToSet(runs) : r.rtype \in types}
<1> DEFINE Kept(i) == IF runs[i].rtype \in types THEN <<runs[i]>> ELSE <<>>
           seqs == [i \in DOMAIN runs |-> Kept(i)]
<1>1. DOMAIN runs = 1..Len(runs) /\ Len(runs) \in Nat /\ \A i \in 1..Len(runs) : runs[i] \in S
    OBVIOUS
<1>2. ASSUME NEW i \in 1..Len(runs)
      PROVE  /\ Kept(i) \in Seq(S)
             /\ ToSet(Kept(i)) = IF runs[i].rtype \in types THEN {runs[i]} ELSE {}
    <2>1. CASE runs[i].rtype \in types
        <3>1. <<runs[i]>> \in Seq(S) /\ ToSet(<<runs[i]>>) = {runs[i]}
            BY <1>1 DEF ToSet
        <3> QED
            BY <2>1, <3>1
    <2>2. CASE runs[i].rtype \notin types
        <3>1. <<>> \in Seq(S) /\ ToSet(<<>>) = {}
            BY DEF ToSet
        <3> QED
            BY <2>2, <3>1
    <2> QED
        BY <2>1, <2>2
<1>3. seqs \in [1..Len(runs) -> Seq(S)]
    BY <1>1, <1>2
<1>4. seqs \in Seq(Seq(S)) /\ DOMAIN seqs = 1..Len(runs)
    BY <1>1, <1>3
<1>5. \A i \in DOMAIN seqs : seqs[i] = Kept(i)
    BY <1>1
<1>6. Retain(runs, types) = FlattenSeq(seqs)
    BY DEF Retain
<1> HIDE DEF seqs
<1>7. /\ FlattenSeq(seqs) \in Seq(S)
      /\ ToSet(FlattenSeq(seqs)) = UNION {ToSet(seqs[i]) : i \in DOMAIN seqs}
    BY <1>4, FlattenHolds
<1>8. UNION {ToSet(seqs[i]) : i \in DOMAIN seqs} = {r \in ToSet(runs) : r.rtype \in types}
    <2>1. \A i \in 1..Len(runs) : ToSet(seqs[i]) = IF runs[i].rtype \in types THEN {runs[i]} ELSE {}
        BY <1>2, <1>4, <1>5
    <2>2. ToSet(runs) = {runs[i] : i \in 1..Len(runs)}
        BY <1>1 DEF ToSet
    <2> HIDE DEF Kept
    <2>3. ASSUME NEW x
          PROVE  x \in UNION {ToSet(seqs[i]) : i \in DOMAIN seqs}
                     <=> \E i \in 1..Len(runs) : runs[i].rtype \in types /\ x = runs[i]
        <3>1. x \in UNION {ToSet(seqs[i]) : i \in DOMAIN seqs}
                  <=> \E i \in 1..Len(runs) : x \in ToSet(seqs[i])
            BY <1>4
        <3>2. \A i \in 1..Len(runs) : x \in ToSet(seqs[i]) <=> runs[i].rtype \in types /\ x = runs[i]
            BY <2>1
        <3> QED
            BY <3>1, <3>2
    <2>4. ASSUME NEW x
          PROVE  x \in {r \in ToSet(runs) : r.rtype \in types}
                     <=> \E i \in 1..Len(runs) : runs[i].rtype \in types /\ x = runs[i]
        BY <2>2
    <2> QED
        BY <2>3, <2>4
<1> QED
    BY <1>6, <1>7, <1>8

\* The runs of a node: records with the values of an RRset.
IsRuns(runs, S, V) == runs \in Seq(S) /\ \A r \in S : r.rdata \in Seq(V)

\* Values is all values of the runs of the type.
LEMMA ValuesHeld ==
    ASSUME NEW S, NEW V, NEW runs, IsRuns(runs, S, V), NEW rtype
    PROVE  /\ Values(runs, rtype) \in Seq(V)
           /\ ToSet(Values(runs, rtype)) =
                UNION {ToSet(r.rdata) : r \in {x \in ToSet(runs) : x.rtype = rtype}}
<1> DEFINE all == RunsOf(runs, rtype)
           seqs == [i \in DOMAIN all |-> all[i].rdata]
<1>1. all \in Seq(S) /\ ToSet(all) = {r \in ToSet(runs) : r.rtype = rtype}
    <2>1. ToSet(all) = {r \in ToSet(runs) : r.rtype \in {rtype}} /\ all \in Seq(S)
        BY Retained DEF RunsOf, IsRuns
    <2> QED
        BY <2>1
<1>2. Values(runs, rtype) = FlattenSeq(seqs)
    BY DEF Values
<1> HIDE DEF all
<1>3. DOMAIN all = 1..Len(all) /\ Len(all) \in Nat /\ \A i \in 1..Len(all) : all[i].rdata \in Seq(V)
    BY <1>1 DEF IsRuns
<1>4. seqs \in [1..Len(all) -> Seq(V)] /\ \A i \in 1..Len(all) : seqs[i] = all[i].rdata
    BY <1>3
<1>5. seqs \in Seq(Seq(V)) /\ DOMAIN seqs = 1..Len(all)
    BY <1>3, <1>4
<1> HIDE DEF seqs
<1>6. /\ FlattenSeq(seqs) \in Seq(V)
      /\ ToSet(FlattenSeq(seqs)) = UNION {ToSet(seqs[i]) : i \in DOMAIN seqs}
    BY <1>5, FlattenHolds
<1>7. UNION {ToSet(seqs[i]) : i \in DOMAIN seqs} = UNION {ToSet(r.rdata) : r \in ToSet(all)}
    <2>1. \A i \in 1..Len(all) : ToSet(seqs[i]) = ToSet(all[i].rdata)
        BY <1>4
    <2>2. ToSet(all) = {all[i] : i \in 1..Len(all)}
        BY <1>3 DEF ToSet
    <2>3. \A x : x \in UNION {ToSet(seqs[i]) : i \in DOMAIN seqs}
                 <=> \E i \in 1..Len(all) : x \in ToSet(all[i].rdata)
        BY <1>5, <2>1
    <2>4. \A x : x \in UNION {ToSet(r.rdata) : r \in ToSet(all)}
                 <=> \E i \in 1..Len(all) : x \in ToSet(all[i].rdata)
        BY <2>2
    <2> QED
        BY <2>3, <2>4
<1> QED
    BY <1>1, <1>2, <1>6, <1>7

\* The records of one run, and of the runs of a node.
RunRecords(run, rtype, owner) ==
    {[owner |-> owner, rtype |-> rtype, ttl |-> run.ttl, data |-> v] : v \in ToSet(run.rdata)}
NodeRecords(runs, rtype, owner) ==
    UNION {RunRecords(r, rtype, owner) : r \in {x \in ToSet(runs) : x.rtype = rtype}}

\* emit yields these and nothing else.
LEMMA Emitted ==
    ASSUME NEW S, NEW V, NEW runs, IsRuns(runs, S, V), NEW rtype, NEW owner
    PROVE  /\ emit(runs, rtype, owner) \in Seq(NodeRecords(runs, rtype, owner))
           /\ ToSet(emit(runs, rtype, owner)) = NodeRecords(runs, rtype, owner)
<1> DEFINE all == RunsOf(runs, rtype)
           Rec(run, i) == [owner |-> owner, rtype |-> rtype, ttl |-> run.ttl, data |-> run.rdata[i]]
           Recs(run) == [i \in DOMAIN run.rdata |-> Rec(run, i)]
           seqs == [i \in DOMAIN all |-> Recs(all[i])]
           N == NodeRecords(runs, rtype, owner)
<1>1. all \in Seq(S) /\ ToSet(all) = {r \in ToSet(runs) : r.rtype = rtype}
    <2>1. ToSet(all) = {r \in ToSet(runs) : r.rtype \in {rtype}} /\ all \in Seq(S)
        BY Retained DEF RunsOf, IsRuns
    <2> QED
        BY <2>1
<1>2. emit(runs, rtype, owner) = FlattenSeq(seqs)
    BY DEF emit
<1> HIDE DEF all
<1>3. /\ DOMAIN all = 1..Len(all) /\ Len(all) \in Nat
      /\ \A i \in 1..Len(all) : all[i] \in S /\ all[i] \in ToSet(all) /\ all[i].rdata \in Seq(V)
    BY <1>1 DEF IsRuns, ToSet
<1>4. ASSUME NEW i \in 1..Len(all)
      PROVE  Recs(all[i]) \in Seq(N) /\ ToSet(Recs(all[i])) = RunRecords(all[i], rtype, owner)
    <2> DEFINE run == all[i]
    <2>1. run.rdata \in Seq(V) /\ run \in {x \in ToSet(runs) : x.rtype = rtype}
        BY <1>1, <1>3
    <2> HIDE DEF run
    <2>2. DOMAIN run.rdata = 1..Len(run.rdata) /\ Len(run.rdata) \in Nat
        BY <2>1
    <2>3. ToSet(Recs(run)) = RunRecords(run, rtype, owner)
        <3>1. DOMAIN Recs(run) = DOMAIN run.rdata /\ \A k \in DOMAIN run.rdata : Recs(run)[k] = Rec(run, k)
            OBVIOUS
        <3>2. ToSet(Recs(run)) = {Rec(run, k) : k \in DOMAIN run.rdata}
            BY <3>1 DEF ToSet
        <3>3. RunRecords(run, rtype, owner) = {Rec(run, k) : k \in DOMAIN run.rdata}
            BY DEF RunRecords, ToSet
        <3> QED
            BY <3>2, <3>3
    <2>4. \A k \in 1..Len(run.rdata) : Rec(run, k) \in RunRecords(run, rtype, owner)
        BY <2>2 DEF RunRecords, ToSet
    <2>5. RunRecords(run, rtype, owner) \subseteq N
        BY <2>1 DEF NodeRecords
    <2>6. Recs(run) \in [1..Len(run.rdata) -> N]
        <3> HIDE DEF Rec, N
        <3> QED
            BY <2>2, <2>4, <2>5
    <2>7. Recs(run) \in Seq(N)
        <3> HIDE DEF N, Recs
        <3> QED
            BY <2>2, <2>6
    <2> QED
        BY <2>3, <2>7 DEF run
<1> HIDE DEF Recs, N
<1>5. seqs \in [1..Len(all) -> Seq(N)] /\ \A i \in 1..Len(all) : seqs[i] = Recs(all[i])
    BY <1>3, <1>4
<1>6. seqs \in Seq(Seq(N)) /\ DOMAIN seqs = 1..Len(all)
    BY <1>3, <1>5
<1> HIDE DEF seqs
<1>7. /\ FlattenSeq(seqs) \in Seq(N)
      /\ ToSet(FlattenSeq(seqs)) = UNION {ToSet(seqs[i]) : i \in DOMAIN seqs}
    BY <1>6, FlattenHolds
<1>8. UNION {ToSet(seqs[i]) : i \in DOMAIN seqs} = UNION {RunRecords(r, rtype, owner) : r \in ToSet(all)}
    <2>1. \A i \in 1..Len(all) : ToSet(seqs[i]) = RunRecords(all[i], rtype, owner)
        BY <1>4, <1>5
    <2>2. ToSet(all) = {all[i] : i \in 1..Len(all)}
        BY <1>3 DEF ToSet
    <2> QED
        BY <1>6, <2>1, <2>2
<1>9. UNION {RunRecords(r, rtype, owner) : r \in ToSet(all)} = N
    BY <1>1 DEF NodeRecords, N
<1> QED
    BY <1>2, <1>7, <1>8, <1>9 DEF N

\* A set of numbers up to N that is not empty has a greatest.
LEMMA Greatest ==
    ASSUME NEW N \in Nat, NEW S \in SUBSET (0..N), S # {}
    PROVE  Max(S) \in S /\ \A x \in S : x <= Max(S)
<1> DEFINE T == {y \in Nat : \E x \in S : y = N - x}
<1>1. T # {} /\ T \subseteq Nat
    <2>1. PICK x \in S : TRUE
        OBVIOUS
    <2>2. N - x \in T
        OBVIOUS
    <2> QED
        BY <2>2
<1>2. PICK y \in T : \A z \in T : ~(<<z, y>> \in OpToRel(<, Nat))
    BY <1>1, WFMin, NatLessThanWellFounded
<1>3. PICK x \in S : y = N - x
    OBVIOUS
<1>4. \A z \in S : x >= z
    <2> TAKE z \in S
    <2>1. N - z \in T /\ N - z \in Nat
        OBVIOUS
    <2>2. ~(N - z < y)
        BY <1>2, <2>1 DEF OpToRel
    <2> QED
        BY <1>3, <2>2
<1>5. Max(S) \in S /\ \A z \in S : Max(S) >= z
    BY <1>4 DEF Max
<1> QED
    BY <1>5

\* The values of a function with a finite domain are finitely many.
LEMMA FiniteRange ==
    ASSUME NEW f, IsFiniteSet(DOMAIN f)
    PROVE  IsFiniteSet({f[x] : x \in DOMAIN f})
<1> DEFINE T == {f[x] : x \in DOMAIN f}
           g == [x \in DOMAIN f |-> f[x]]
<1>1. g \in Surjection(DOMAIN f, T)
    BY DEF Surjection
<1> QED
    BY <1>1, FS_Surjection

-----------------------------------------------------------------------------
(* The builder. *)

\* What is assumed of a block, in the form the proofs use.
LEMMA BlockFacts ==
    ASSUME NEW b \in Blocks
    PROVE  /\ b.values \in Seq(ToSet(b.values))
           /\ b.values \in Seq(UNION {ToSet(x.values) : x \in Blocks})
           /\ Len(b.values) \in Nat /\ DOMAIN b.values = 1..Len(b.values)
           /\ b.owner \in ZoneNames \cup {Outside}
           /\ [rtype |-> b.rtype, ttl |-> b.ttl, rdata |-> b.values] \in Runs
<1>1. b.values \in Seq(ToSet(b.values)) /\ b.owner \in ZoneNames \cup {Outside}
    BY BlocksAssumption
<1>2. Len(b.values) \in Nat /\ DOMAIN b.values = 1..Len(b.values)
    BY <1>1
<1> DEFINE V == UNION {ToSet(x.values) : x \in Blocks}
<1>3. ToSet(b.values) \subseteq V
    OBVIOUS
<1> HIDE DEF V
<1>4. b.values \in Seq(V)
    BY <1>1, <1>2, <1>3
<1>5. [rtype |-> b.rtype, ttl |-> b.ttl, rdata |-> b.values] \in Runs
    BY <1>4 DEF Runs, V
<1> QED
    BY <1>1, <1>2, <1>4, <1>5 DEF V

\* A run of a node, in the form the proofs use.
LEMMA RunFacts ==
    ASSUME NEW r \in Runs
    PROVE  /\ r.rdata \in Seq(UNION {ToSet(x.values) : x \in Blocks})
           /\ Len(r.rdata) \in Nat /\ DOMAIN r.rdata = 1..Len(r.rdata)
           /\ r = [rtype |-> r.rtype, ttl |-> r.ttl, rdata |-> r.rdata]
BY DEF Runs

LEMMA RunExtended ==
    ASSUME NEW r \in Runs, NEW values
    PROVE  [r EXCEPT !.rdata = values] = [rtype |-> r.rtype, ttl |-> r.ttl, rdata |-> values]
BY DEF Runs

\* The places of the values in the runs of a node.
Slots(runs) == UNION {{<<i, j>> : j \in DOMAIN runs[i].rdata} : i \in DOMAIN runs}

\* The places a block takes: in run k, behind the first m.
Fresh(k, m, n) == {<<k, m + j>> : j \in 1..n}
FreshAt(owner, k, m, n) == {<<owner, k, m + j>> : j \in 1..n}

\* A block that joins a run or starts one adds its values, in places of their
\* own, and disturbs nothing.
LEMMA AddRunAdds ==
    ASSUME NEW runs \in Seq(Runs), \A r \in ToSet(runs) : r.rdata # <<>>,
           NEW spec \in Blocks, spec.values # <<>>
    PROVE  LET new == AddRun(runs, spec) IN
           /\ new \in Seq(Runs)
           /\ \A r \in ToSet(new) : r.rdata # <<>>
           /\ InRuns(new) = InRuns(runs) \cup {<<spec.rtype, spec.ttl, v>> : v \in ToSet(spec.values)}
           /\ \E k, m \in Nat : /\ Slots(new) = Slots(runs) \cup Fresh(k, m, Len(spec.values))
                                /\ Slots(runs) \cap Fresh(k, m, Len(spec.values)) = {}
<1> DEFINE new == AddRun(runs, spec)
           same == {i \in DOMAIN runs : runs[i].rtype = spec.rtype}
           V == UNION {ToSet(x.values) : x \in Blocks}
           n == Len(spec.values)
           run == [rtype |-> spec.rtype, ttl |-> spec.ttl, rdata |-> spec.values]
           Triples(r) == {<<r.rtype, r.ttl, v>> : v \in ToSet(r.rdata)}
<1>1. /\ DOMAIN runs = 1..Len(runs) /\ Len(runs) \in Nat
      /\ \A i \in 1..Len(runs) : runs[i] \in Runs /\ runs[i].rdata # <<>>
    BY DEF ToSet
<1>2. /\ run \in Runs /\ spec.values \in Seq(V) /\ n \in Nat /\ DOMAIN spec.values = 1..n
      /\ Triples(run) = {<<spec.rtype, spec.ttl, v>> : v \in ToSet(spec.values)}
    BY BlockFacts
<1>3. ASSUME NEW s \in Seq(Runs)
      PROVE  /\ DOMAIN s = 1..Len(s) /\ Len(s) \in Nat
             /\ InRuns(s) = UNION {Triples(s[i]) : i \in 1..Len(s)}
    BY DEF InRuns, ToSet
<1>4. CASE same # {} /\ runs[Max(same)].ttl = spec.ttl
    <2> DEFINE k == Max(same)
               old == runs[k].rdata
               joined == [rtype |-> runs[k].rtype, ttl |-> runs[k].ttl, rdata |-> old \o spec.values]
    <2>1. k \in same /\ k \in 1..Len(runs) /\ runs[k].rtype = spec.rtype /\ runs[k].ttl = spec.ttl
        <3>1. same \in SUBSET (0..Len(runs)) /\ same # {}
            BY <1>1, <1>4
        <3>2. Max(same) \in same
            BY <1>1, <3>1, Greatest
        <3> QED
            BY <1>1, <1>4, <3>2
    <2>2. new = [runs EXCEPT ![k].rdata = @ \o spec.values]
        BY <1>4 DEF AddRun
    <2> HIDE DEF k, same
    <2>3. /\ old \in Seq(V) /\ old # <<>> /\ Len(old) \in Nat /\ DOMAIN old = 1..Len(old)
          /\ runs[k] \in Runs
        BY <1>1, <2>1, RunFacts
    <2>4. /\ old \o spec.values \in Seq(V) /\ Len(old \o spec.values) = Len(old) + n
          /\ ToSet(old \o spec.values) = ToSet(old) \cup ToSet(spec.values)
          /\ DOMAIN (old \o spec.values) = 1..(Len(old) + n)
        BY <1>2, <2>3, Joined
    <2>5. joined \in Runs /\ joined.rdata = old \o spec.values /\ joined.rdata # <<>>
        <3>1. joined \in Runs
            BY <2>3, <2>4 DEF Runs
        <3>2. Len(old) # 0
            BY <2>3
        <3>3. Len(old \o spec.values) # 0
            <4> HIDE DEF old
            <4> QED
                BY <1>2, <2>3, <2>4, <3>2
        <3>4. joined.rdata = old \o spec.values
            OBVIOUS
        <3> HIDE DEF joined, old
        <3> QED
            BY <3>1, <3>3, <3>4, <2>4
    <2>6. [runs[k] EXCEPT !.rdata = old \o spec.values] = joined
        BY <2>3, RunExtended
    <2>7. new = [i \in 1..Len(runs) |-> IF i = k THEN joined ELSE runs[i]]
        BY <1>1, <2>1, <2>2, <2>6
    <2> HIDE DEF joined, new, old, n
    <2>8. new \in Seq(Runs) /\ Len(new) = Len(runs) /\ DOMAIN new = 1..Len(runs)
        BY <1>1, <2>5, <2>7
    <2>9. \A i \in 1..Len(runs) : new[i] = IF i = k THEN joined ELSE runs[i]
        BY <2>7
    <2>10. \A r \in ToSet(new) : r.rdata # <<>>
        BY <1>1, <2>5, <2>8, <2>9 DEF ToSet
    <2>11. Triples(joined) = Triples(runs[k]) \cup Triples(run)
        BY <1>2, <2>1, <2>4 DEF joined, old
    <2>12. InRuns(new) = InRuns(runs) \cup Triples(run)
        <3> HIDE DEF Triples
        <3>1. InRuns(new) = UNION {Triples(new[i]) : i \in 1..Len(runs)}
            BY <1>3, <2>8
        <3>2. InRuns(runs) = UNION {Triples(runs[i]) : i \in 1..Len(runs)}
            BY <1>3
        <3> QED
            BY <3>1, <3>2, <2>1, <2>9, <2>11
    <2>13. /\ Slots(new) = Slots(runs) \cup Fresh(k, Len(old), n)
           /\ Slots(runs) \cap Fresh(k, Len(old), n) = {}
        <3>1. DOMAIN new[k].rdata = 1..(Len(old) + n)
            BY <2>1, <2>4, <2>5, <2>9
        <3>2. \A i \in 1..Len(runs) : i # k => DOMAIN new[i].rdata = DOMAIN runs[i].rdata
            BY <2>9
        <3>3. DOMAIN runs[k].rdata = 1..Len(old)
            BY <2>3 DEF old
        <3>4. ASSUME NEW p \in Slots(new) PROVE p \in Slots(runs) \cup Fresh(k, Len(old), n)
            <4>0. PICK i \in 1..Len(runs) : \E x \in DOMAIN new[i].rdata : p = <<i, x>>
                BY <2>8 DEF Slots
            <4>1. PICK j \in DOMAIN new[i].rdata : p = <<i, j>>
                BY <4>0
            <4>2. CASE i # k
                BY <1>1, <3>2, <4>1, <4>2 DEF Slots
            <4>3. CASE i = k /\ j <= Len(old)
                <5>1. j \in DOMAIN runs[k].rdata
                    BY <1>2, <2>3, <3>1, <3>3, <4>1, <4>3
                <5> QED
                    BY <1>1, <2>1, <4>1, <4>3, <5>1 DEF Slots
            <4>4. CASE i = k /\ j > Len(old)
                <5>1. j - Len(old) \in 1..n /\ Len(old) + (j - Len(old)) = j
                    BY <1>2, <2>3, <3>1, <4>1, <4>4
                <5> QED
                    BY <4>1, <4>4, <5>1 DEF Fresh
            <4> QED
                BY <1>2, <2>3, <3>1, <4>1, <4>2, <4>3, <4>4
        <3>5. ASSUME NEW p \in Slots(runs) PROVE p \in Slots(new)
            <4>0. PICK i \in 1..Len(runs) : \E x \in DOMAIN runs[i].rdata : p = <<i, x>>
                BY <1>1 DEF Slots
            <4>1. PICK j \in DOMAIN runs[i].rdata : p = <<i, j>>
                BY <4>0
            <4>2. j \in DOMAIN new[i].rdata
                BY <1>2, <2>3, <3>1, <3>2, <3>3, <4>1
            <4> QED
                BY <2>8, <4>1, <4>2 DEF Slots
        <3>6. ASSUME NEW p \in Fresh(k, Len(old), n) PROVE p \in Slots(new) /\ p \notin Slots(runs)
            <4>1. PICK j \in 1..n : p = <<k, Len(old) + j>>
                BY DEF Fresh
            <4>2. Len(old) + j \in DOMAIN new[k].rdata /\ Len(old) + j \notin DOMAIN runs[k].rdata
                BY <1>2, <2>3, <3>1, <3>3, <4>1
            <4> QED
                BY <2>1, <2>8, <4>1, <4>2 DEF Slots
        <3> QED
            BY <3>4, <3>5, <3>6
    <2>14. k \in Nat /\ Len(old) \in Nat
        BY <1>1, <2>1, <2>3
    <2> QED
        BY <1>2, <2>8, <2>10, <2>12, <2>13, <2>14 DEF new, n
<1>5. CASE ~(same # {} /\ runs[Max(same)].ttl = spec.ttl)
    <2>1. new = Append(runs, run)
        BY <1>5 DEF AddRun
    <2> DEFINE l == Len(runs)
    <2> HIDE DEF new
    <2>2. /\ new \in Seq(Runs) /\ Len(new) = l + 1 /\ DOMAIN new = 1..(l + 1)
          /\ \A i \in 1..l : new[i] = runs[i]
          /\ new[l + 1] = run
        BY <1>2, <2>1
    <2>3. \A r \in ToSet(new) : r.rdata # <<>>
        <3>1. \A i \in 1..(l + 1) : new[i].rdata # <<>>
            BY <1>1, <2>2
        <3> QED
            BY <2>2, <3>1 DEF ToSet
    <2>4. InRuns(new) = InRuns(runs) \cup Triples(run)
        <3> HIDE DEF Triples, run
        <3>1. InRuns(new) = UNION {Triples(new[i]) : i \in 1..(l + 1)}
            BY <1>3, <2>2
        <3>2. InRuns(runs) = UNION {Triples(runs[i]) : i \in 1..l}
            BY <1>3
        <3>3. 1..(l + 1) = 1..l \cup {l + 1}
            BY <1>1
        <3> QED
            BY <3>1, <3>2, <3>3, <2>2
    <2>5. /\ Slots(new) = Slots(runs) \cup Fresh(l + 1, 0, n)
          /\ Slots(runs) \cap Fresh(l + 1, 0, n) = {}
        <3>1. \A i \in 1..l : DOMAIN new[i].rdata = DOMAIN runs[i].rdata
            BY <2>2
        <3>2. DOMAIN new[l + 1].rdata = 1..n
            BY <1>2, <2>2
        <3>3. Fresh(l + 1, 0, n) = {<<l + 1, j>> : j \in 1..n}
            BY <1>2 DEF Fresh
        <3>4. \A i \in 1..(l + 1) : i \in 1..l \/ i = l + 1
            BY <1>1
        <3>5. l + 1 \in 1..(l + 1) /\ l + 1 \notin 1..l /\ 1..l \subseteq 1..(l + 1)
            BY <1>1
        <3>6. Slots(new) = Slots(runs) \cup {<<l + 1, j>> : j \in 1..n}
            BY <1>1, <2>2, <3>1, <3>2, <3>4, <3>5 DEF Slots
        <3>7. Slots(runs) \cap {<<l + 1, j>> : j \in 1..n} = {}
            BY <1>1, <3>5 DEF Slots
        <3> QED
            BY <3>3, <3>6, <3>7
    <2>6. l + 1 \in Nat /\ 0 \in Nat
        BY <1>1
    <2> QED
        BY <1>2, <2>2, <2>3, <2>4, <2>5, <2>6 DEF new
<1> QED
    BY <1>4, <1>5

\* The values of a tree of nodes, by their places.
LEMMA StoredIs ==
    ASSUME NEW nodes, NEW q
    PROVE  q \in Stored(nodes) <=>
               \E n \in DOMAIN nodes : \E i \in DOMAIN nodes[n] :
                   \E j \in DOMAIN nodes[n][i].rdata : q = <<n, i, j>>
BY DEF Stored

LEMMA SlotsAre ==
    ASSUME NEW runs, NEW q
    PROVE  q \in Slots(runs) <=>
               \E i \in DOMAIN runs : \E j \in DOMAIN runs[i].rdata : q = <<i, j>>
BY DEF Slots

\* They are finitely many when the nodes are.
LEMMA StoredFinite ==
    ASSUME NEW nodes, IsFiniteSet(DOMAIN nodes), \A n \in DOMAIN nodes : nodes[n] \in Seq(Runs)
    PROVE  IsFiniteSet(Stored(nodes)) /\ ValueCount(nodes) \in Nat
<1> DEFINE Of(n, i) == {<<n, i, j>> : j \in DOMAIN nodes[n][i].rdata}
           Spot(n) == UNION {Of(n, i) : i \in DOMAIN nodes[n]}
           All == {Spot(n) : n \in DOMAIN nodes}
<1>1. ASSUME NEW n \in DOMAIN nodes PROVE IsFiniteSet(Spot(n))
    <2>1. DOMAIN nodes[n] = 1..Len(nodes[n]) /\ Len(nodes[n]) \in Nat
        OBVIOUS
    <2> DEFINE f == [i \in DOMAIN nodes[n] |-> Of(n, i)]
    <2>2. ASSUME NEW i \in DOMAIN nodes[n] PROVE IsFiniteSet(Of(n, i))
        <3>1. nodes[n][i] \in Runs
            BY <2>1
        <3>2. DOMAIN nodes[n][i].rdata = 1..Len(nodes[n][i].rdata) /\ Len(nodes[n][i].rdata) \in Nat
            BY <3>1, RunFacts
        <3> DEFINE g == [j \in DOMAIN nodes[n][i].rdata |-> <<n, i, j>>]
        <3>3. IsFiniteSet(DOMAIN g)
            <4> DEFINE m == Len(nodes[n][i].rdata)
            <4>1. m \in Nat /\ DOMAIN g = 1..m
                BY <3>2
            <4> HIDE DEF m, g
            <4>2. IsFiniteSet(1..m)
                BY <4>1, FS_Interval
            <4> QED
                BY <4>1, <4>2
        <3>4. Of(n, i) = {g[j] : j \in DOMAIN g}
            OBVIOUS
        <3> HIDE DEF g, Of
        <3> QED
            BY <3>3, <3>4, FiniteRange
    <2>3. IsFiniteSet(DOMAIN f)
        BY <2>1, FS_Interval
    <2>4. {Of(n, i) : i \in DOMAIN nodes[n]} = {f[i] : i \in DOMAIN f}
        OBVIOUS
    <2> DEFINE F == {f[i] : i \in DOMAIN f}
    <2>7. \A T \in F : IsFiniteSet(T)
        BY <2>2
    <2>8. UNION F = Spot(n)
        BY <2>4
    <2> HIDE DEF f, Of
    <2>5. IsFiniteSet(F)
        BY <2>3, FiniteRange
    <2> HIDE DEF F, Spot
    <2> QED
        BY <2>5, <2>7, <2>8, FS_UNION
<1> DEFINE h == [n \in DOMAIN nodes |-> Spot(n)]
<1>2. All = {h[n] : n \in DOMAIN h} /\ DOMAIN h = DOMAIN nodes
    OBVIOUS
<1>3. Stored(nodes) = UNION All
    BY DEF Stored
<1>4. \A T \in All : IsFiniteSet(T)
    BY <1>1
<1> HIDE DEF h, Spot
<1>5. IsFiniteSet(All)
    BY <1>2, FiniteRange
<1> HIDE DEF All
<1>6. IsFiniteSet(Stored(nodes))
    BY <1>3, <1>4, <1>5, FS_UNION
<1> QED
    BY <1>6, FS_CardinalityType DEF ValueCount

\* The places a block takes are as many as its values.
LEMMA FreshCount ==
    ASSUME NEW owner, NEW k \in Nat, NEW m \in Nat, NEW n \in Nat
    PROVE  /\ IsFiniteSet(FreshAt(owner, k, m, n))
           /\ Cardinality(FreshAt(owner, k, m, n)) = n
<1> DEFINE F == {<<owner, k, m + j>> : j \in 1..n}
           f == [j \in 1..n |-> <<owner, k, m + j>>]
<1>1. f \in Bijection(1..n, F)
    <2>1. f \in [1..n -> F] /\ \A t \in F : \E j \in 1..n : f[j] = t
        OBVIOUS
    <2>2. ASSUME NEW i \in 1..n, NEW j \in 1..n, f[i] = f[j] PROVE i = j
        <3>1. m + i = m + j
            BY <2>2
        <3> QED
            BY <3>1
    <2>3. \A i, j \in 1..n : f[i] = f[j] => i = j
        BY <2>2
    <2> HIDE DEF F, f
    <2>5. f \in Injection(1..n, F)
        BY <2>1, <2>3 DEF Injection, IsInjective
    <2>6. f \in Surjection(1..n, F)
        BY <2>1 DEF Surjection
    <2>4. f \in Injection(1..n, F) /\ f \in Surjection(1..n, F)
        BY <2>5, <2>6
    <2> QED
        BY <2>4 DEF Bijection
<1> HIDE DEF F, f
<1>2. ExistsBijection(1..n, F)
    BY <1>1 DEF ExistsBijection
<1>3. IsFiniteSet(F)
    BY <1>2, FS_NatBijection
<1>4. Cardinality(F) = n
    BY <1>2, FS_CountingElements
<1> QED
    BY <1>3, <1>4 DEF F, FreshAt

\* Storing a block keeps the books: the owner's runs hold what was accepted for
\* it, and its values are counted once each.
LEMMA StoreKeepsInv ==
    ASSUME BuildInv, NEW spec \in Blocks, ~Malformed(spec), ~Unrepresentable(spec),
           Store(spec), counted' = counted + Len(spec.values), UNCHANGED dropped
    PROVE  /\ \A s \in accepted' : s \in Blocks /\ ~Malformed(s) /\ ~Unrepresentable(s)
           /\ DOMAIN scratch' = {s.owner : s \in accepted'}
           /\ IsFiniteSet(accepted')
           /\ \A n \in DOMAIN scratch' :
                /\ scratch'[n] \in Seq(Runs)
                /\ \A r \in ToSet(scratch'[n]) : r.rdata # <<>>
                /\ InRuns(scratch'[n]) = Accepted(n)'
           /\ counted' = ValueCount(scratch') + dropped'
<1> DEFINE o == spec.owner
           old == IF o \in DOMAIN scratch THEN scratch[o] ELSE <<>>
           new == AddRun(old, spec)
           l == Len(spec.values)
           Of(s) == {<<s.rtype, s.ttl, v>> : v \in ToSet(s.values)}
<1>1. /\ scratch' = Put(scratch, o, new)
      /\ accepted' = accepted \cup {spec}
    BY DEF Store
<1>2. /\ DOMAIN scratch' = DOMAIN scratch \cup {o} /\ scratch'[o] = new
      /\ \A n \in DOMAIN scratch : n # o => scratch'[n] = scratch[n]
    <2> HIDE DEF o, new
    <2> QED
        BY <1>1 DEF Put
<1>3. /\ \A s \in accepted : s \in Blocks /\ ~Malformed(s) /\ ~Unrepresentable(s)
      /\ DOMAIN scratch = {s.owner : s \in accepted}
      /\ IsFiniteSet(accepted)
      /\ \A n \in DOMAIN scratch :
            /\ scratch[n] \in Seq(Runs)
            /\ \A r \in ToSet(scratch[n]) : r.rdata # <<>>
            /\ InRuns(scratch[n]) = Accepted(n)
      /\ counted = ValueCount(scratch) + dropped
      /\ dropped \in Nat
    BY DEF BuildInv
<1>4. spec.values # <<>> /\ l \in Nat
    BY BlockFacts DEF Malformed
<1>5. old \in Seq(Runs) /\ \A r \in ToSet(old) : r.rdata # <<>>
    <2>1. CASE o \in DOMAIN scratch
        BY <1>3, <2>1
    <2>2. CASE o \notin DOMAIN scratch
        BY <2>2 DEF ToSet
    <2> QED
        BY <2>1, <2>2
<1>6. InRuns(old) = Accepted(o)
    <2>1. CASE o \in DOMAIN scratch
        BY <1>3, <2>1
    <2>2. CASE o \notin DOMAIN scratch
        <3>1. InRuns(<<>>) = {}
            BY DEF InRuns, ToSet
        <3>2. {x \in accepted : x.owner = o} = {}
            BY <1>3, <2>2
        <3>3. Accepted(o) = {}
            BY <3>2 DEF Accepted
        <3> QED
            BY <2>2, <3>1, <3>3
    <2> QED
        BY <2>1, <2>2
<1> HIDE DEF old, new
<1>7. /\ new \in Seq(Runs)
      /\ \A r \in ToSet(new) : r.rdata # <<>>
      /\ InRuns(new) = InRuns(old) \cup Of(spec)
      /\ \E k, m \in Nat : /\ Slots(new) = Slots(old) \cup Fresh(k, m, l)
                           /\ Slots(old) \cap Fresh(k, m, l) = {}
    BY <1>4, <1>5, AddRunAdds DEF new
<1>8. ASSUME NEW n PROVE Accepted(n)' = Accepted(n) \cup (IF n = o THEN Of(spec) ELSE {})
    <2>1. Accepted(n) = UNION {Of(s) : s \in {x \in accepted : x.owner = n}}
        BY DEF Accepted
    <2>2. Accepted(n)' = UNION {Of(s) : s \in {x \in accepted' : x.owner = n}}
        BY DEF Accepted
    <2>3. {x \in accepted' : x.owner = n} =
              {x \in accepted : x.owner = n} \cup (IF n = o THEN {spec} ELSE {})
        BY <1>1
    <2> HIDE DEF Of
    <2> QED
        BY <2>1, <2>2, <2>3
<1>9. /\ \A s \in accepted' : s \in Blocks /\ ~Malformed(s) /\ ~Unrepresentable(s)
      /\ DOMAIN scratch' = {s.owner : s \in accepted'}
    BY <1>1, <1>2, <1>3
<1>10. IsFiniteSet(accepted')
    BY <1>1, <1>3, FS_AddElement
<1>11. ASSUME NEW n \in DOMAIN scratch'
       PROVE  /\ scratch'[n] \in Seq(Runs)
              /\ \A r \in ToSet(scratch'[n]) : r.rdata # <<>>
              /\ InRuns(scratch'[n]) = Accepted(n)'
    <2> HIDE DEF o, Of
    <2>1. CASE n = o
        BY <1>2, <1>6, <1>7, <1>8, <2>1
    <2>2. CASE n # o
        <3>1. n \in DOMAIN scratch /\ scratch'[n] = scratch[n]
            BY <1>2, <2>2
        <3>2. Accepted(n)' = Accepted(n)
            BY <1>8, <2>2
        <3> QED
            BY <1>3, <3>1, <3>2
    <2> QED
        BY <2>1, <2>2
<1>12. counted' = ValueCount(scratch') + dropped'
    <2>1. PICK k, m \in Nat : /\ Slots(new) = Slots(old) \cup Fresh(k, m, l)
                              /\ Slots(old) \cap Fresh(k, m, l) = {}
        BY <1>7
    <2> HIDE DEF o, l
    <2> DEFINE F == {<<o, k, m + j>> : j \in 1..l}
    <2>2. IsFiniteSet(F) /\ Cardinality(F) = l
        <3>1. /\ IsFiniteSet(FreshAt(o, k, m, l))
              /\ Cardinality(FreshAt(o, k, m, l)) = l
            BY <1>4, FreshCount
        <3> QED
            BY <3>1 DEF FreshAt
    <2>3. \A i, j : <<o, i, j>> \in F <=> <<i, j>> \in Fresh(k, m, l)
        BY DEF Fresh
    <2>4. ASSUME NEW n \in DOMAIN scratch', NEW i, NEW j
          PROVE  <<n, i, j>> \in Stored(scratch') <=> <<i, j>> \in Slots(scratch'[n])
        BY StoredIs, SlotsAre
    <2>5. ASSUME NEW n \in DOMAIN scratch, NEW i, NEW j
          PROVE  <<n, i, j>> \in Stored(scratch) <=> <<i, j>> \in Slots(scratch[n])
        BY StoredIs, SlotsAre
    <2>6. \A q \in Stored(scratch') : \E n \in DOMAIN scratch' : \E i, j : q = <<n, i, j>>
        BY StoredIs
    <2>7. \A q \in Stored(scratch) : \E n \in DOMAIN scratch : \E i, j : q = <<n, i, j>>
        BY StoredIs
    <2>8. o \notin DOMAIN scratch => Slots(old) = {}
        BY SlotsAre DEF old
    <2>9. o \in DOMAIN scratch => old = scratch[o]
        BY DEF old
    <2>10. \A i, j : <<o, i, j>> \in Stored(scratch) <=> <<i, j>> \in Slots(old)
        <3>1. CASE o \in DOMAIN scratch
            BY <2>5, <2>9, <3>1
        <3>2. CASE o \notin DOMAIN scratch
            BY <2>7, <2>8, <3>2
        <3> QED
            BY <3>1, <3>2
    <2>11. \A i, j : <<o, i, j>> \in Stored(scratch') <=> <<i, j>> \in Slots(new)
        BY <1>2, <2>4
    <2>12. Stored(scratch') = Stored(scratch) \cup F
        <3>1. ASSUME NEW q \in Stored(scratch') PROVE q \in Stored(scratch) \cup F
            <4>1. PICK n \in DOMAIN scratch' : \E i, j : q = <<n, i, j>>
                BY <2>6
            <4>2. PICK i, j : q = <<n, i, j>>
                BY <4>1
            <4> HIDE DEF F
            <4>3. CASE n = o
                <5>1. <<i, j>> \in Slots(old) \/ <<i, j>> \in Fresh(k, m, l)
                    BY <2>1, <2>11, <4>2, <4>3
                <5> QED
                    BY <2>3, <2>10, <4>2, <4>3, <5>1
            <4>4. CASE n # o
                <5>1. n \in DOMAIN scratch /\ scratch'[n] = scratch[n]
                    BY <1>2, <4>4
                <5> QED
                    BY <2>4, <2>5, <4>2, <5>1
            <4> QED
                BY <4>3, <4>4
        <3>2. ASSUME NEW q \in Stored(scratch) PROVE q \in Stored(scratch')
            <4>1. PICK n \in DOMAIN scratch : \E i, j : q = <<n, i, j>>
                BY <2>7
            <4>2. PICK i, j : q = <<n, i, j>>
                BY <4>1
            <4>3. CASE n = o
                <5>1. <<i, j>> \in Slots(old)
                    BY <2>10, <4>2, <4>3
                <5> QED
                    BY <2>1, <2>11, <4>2, <4>3, <5>1
            <4>4. CASE n # o
                <5>1. n \in DOMAIN scratch' /\ scratch'[n] = scratch[n]
                    BY <1>2, <4>4
                <5> QED
                    BY <2>4, <2>5, <4>2, <5>1
            <4> QED
                BY <4>3, <4>4
        <3>3. ASSUME NEW q \in F PROVE q \in Stored(scratch')
            <4>1. PICK j \in 1..l : q = <<o, k, m + j>>
                OBVIOUS
            <4>2. <<k, m + j>> \in Fresh(k, m, l)
                BY DEF Fresh
            <4> QED
                BY <2>1, <2>11, <4>1, <4>2
        <3> QED
            BY <3>1, <3>2, <3>3
    <2>13. Stored(scratch) \cap F = {}
        <3> SUFFICES ASSUME NEW q \in F, q \in Stored(scratch) PROVE FALSE
            OBVIOUS
        <3>1. PICK j \in 1..l : q = <<o, k, m + j>>
            OBVIOUS
        <3>2. <<k, m + j>> \in Fresh(k, m, l) /\ <<k, m + j>> \in Slots(old)
            BY <2>10, <3>1 DEF Fresh
        <3> QED
            BY <2>1, <3>2
    <2>14. IsFiniteSet(DOMAIN scratch)
        <3> DEFINE f == [s \in accepted |-> s.owner]
        <3>1. DOMAIN f = accepted /\ DOMAIN scratch = {f[s] : s \in DOMAIN f}
            BY <1>3
        <3> HIDE DEF f
        <3> QED
            BY <1>3, <3>1, FiniteRange
    <2>15. IsFiniteSet(Stored(scratch)) /\ Cardinality(Stored(scratch)) \in Nat
        BY <1>3, <2>14, StoredFinite DEF ValueCount
    <2> HIDE DEF F
    <2>16. Cardinality(Stored(scratch')) = Cardinality(Stored(scratch)) + l
        <3>1. Cardinality(Stored(scratch) \cup F) =
                  Cardinality(Stored(scratch)) + Cardinality(F) - Cardinality(Stored(scratch) \cap F)
            BY <2>2, <2>15, FS_Union
        <3>2. Cardinality({}) = 0
            BY FS_EmptySet
        <3>3. Cardinality(Stored(scratch) \cap F) = 0
            BY <2>13, <3>2
        <3>4. Cardinality(Stored(scratch) \cup F) = Cardinality(Stored(scratch)) + l - 0
            BY <2>2, <3>1, <3>3
        <3>5. Cardinality(Stored(scratch')) = Cardinality(Stored(scratch) \cup F)
            BY <2>12
        <3> QED
            BY <1>4, <2>15, <3>4, <3>5
    <2>17. counted' = counted + l /\ dropped' = dropped
        BY DEF l
    <2> QED
        BY <1>3, <1>4, <2>15, <2>16, <2>17 DEF ValueCount
<1> QED
    BY <1>9, <1>10, <1>11, <1>12

\* The next block of a file is a block.
LEMMA NextIsBlock ==
    ASSUME BuildInv, NEW spec \in NextSpecs
    PROVE  spec \in Blocks
<1>1. suite \in Suites /\ taken \in Nat /\ suite.preamble \in Seq(Blocks)
    BY BlocksAssumption DEF BuildInv
<1>2. CASE taken < Len(suite.preamble)
    <2>1. Len(suite.preamble) \in Nat /\ taken + 1 \in 1..Len(suite.preamble)
        BY <1>1, <1>2
    <2>2. suite.preamble[taken + 1] \in Blocks
        BY <1>1, <2>1
    <2> QED
        BY <1>2, <2>2 DEF NextSpecs
<1>3. CASE ~(taken < Len(suite.preamble))
    BY <1>1, <1>3 DEF NextSpecs, Blocks
<1> QED
    BY <1>2, <1>3

\* The builder's books are in order at the start and after every step.
LEMMA InitKeepsInv == BuildInit => BuildInv
<1> SUFFICES ASSUME BuildInit PROVE BuildInv
    OBVIOUS
<1>1. /\ suite \in Suites /\ soa \in BOOLEAN /\ taken = 0 /\ dropped = 0
      /\ accepted = {} /\ read = {}
      /\ scratch = <<>> /\ counted = 0 /\ status = "building" /\ zone = NoZone
    BY DEF BuildInit
<1>2. DOMAIN scratch = {}
    BY <1>1
<1>3. Stored(scratch) = {}
    BY <1>2, StoredIs
<1>4. counted = ValueCount(scratch) + dropped
    <2>1. ValueCount(scratch) = 0
        BY <1>3, FS_EmptySet DEF ValueCount
    <2> QED
        BY <1>1, <2>1
<1>5. IsFiniteSet(accepted)
    BY <1>1, FS_EmptySet
<1>6. ~Served
    BY <1>1 DEF Served
<1> QED
    BY <1>1, <1>2, <1>4, <1>5, <1>6 DEF BuildInv

LEMMA InsertKeepsInv ==
    ASSUME BuildInv, NEW spec \in NextSpecs, insert_spec(spec)
    PROVE  BuildInv'
<1>1. spec \in Blocks
    BY NextIsBlock
<1>2. /\ suite \in Suites /\ soa \in BOOLEAN /\ taken' \in Nat /\ dropped \in Nat
      /\ suite' = suite /\ soa' = soa /\ status = "building" /\ zone' = NoZone
    BY DEF BuildInv, insert_spec, Served
<1>3. Len(spec.values) \in Nat
    BY <1>1, BlockFacts
<1>4. CASE Malformed(spec) /\ status' = "refused" /\ UNCHANGED <<scratch, counted, read, accepted, dropped>>
    <2>1. \A n : Accepted(n)' = Accepted(n)
        BY <1>4 DEF Accepted
    <2>2. ~Served'
        BY <1>4 DEF Served
    <2> QED
        BY <1>2, <1>4, <2>1, <2>2 DEF BuildInv
<1>5. CASE /\ ~Malformed(spec) /\ Unrepresentable(spec)
           /\ counted' = counted + Len(spec.values)
           /\ dropped' = dropped + Len(spec.values)
           /\ read' = read \cup {spec}
           /\ UNCHANGED <<scratch, accepted, status>>
    <2>1. \A n : Accepted(n)' = Accepted(n)
        BY <1>5 DEF Accepted
    <2>2. ~Served' /\ status' = "building"
        BY <1>2, <1>5 DEF Served
    <2>3. dropped' \in Nat
        BY <1>2, <1>3, <1>5
    <2>4. counted' = ValueCount(scratch') + dropped'
        <3>1. counted = ValueCount(scratch) + dropped
            BY DEF BuildInv
        <3>2. IsFiniteSet(DOMAIN scratch)
            <4> DEFINE f == [s \in accepted |-> s.owner]
            <4>1. DOMAIN f = accepted /\ DOMAIN scratch = {f[s] : s \in DOMAIN f} /\ IsFiniteSet(accepted)
                BY DEF BuildInv
            <4> HIDE DEF f
            <4> QED
                BY <4>1, FiniteRange
        <3>3. \A n \in DOMAIN scratch : scratch[n] \in Seq(Runs)
            BY DEF BuildInv
        <3>4. ValueCount(scratch) \in Nat
            BY <3>2, <3>3, StoredFinite
        <3> QED
            BY <1>2, <1>3, <1>5, <3>1, <3>4
    <2> QED
        BY <1>1, <1>2, <1>5, <2>1, <2>2, <2>3, <2>4 DEF BuildInv
<1>6. CASE /\ ~Malformed(spec) /\ ~Unrepresentable(spec)
           /\ counted' = counted + Len(spec.values)
           /\ read' = read \cup {spec}
           /\ Store(spec)
           /\ UNCHANGED <<dropped, status>>
    <2>1. /\ \A s \in accepted' : s \in Blocks /\ ~Malformed(s) /\ ~Unrepresentable(s)
          /\ DOMAIN scratch' = {s.owner : s \in accepted'}
          /\ IsFiniteSet(accepted')
          /\ \A n \in DOMAIN scratch' :
               /\ scratch'[n] \in Seq(Runs)
               /\ \A r \in ToSet(scratch'[n]) : r.rdata # <<>>
               /\ InRuns(scratch'[n]) = Accepted(n)'
          /\ counted' = ValueCount(scratch') + dropped'
        BY <1>1, <1>6, StoreKeepsInv
    <2>2. ~Served' /\ status' = "building" /\ dropped' \in Nat
        BY <1>2, <1>6 DEF Served
    <2>3. /\ accepted' \subseteq read'
          /\ \A s \in read' \ accepted' : s \in Blocks /\ ~Malformed(s) /\ Unrepresentable(s)
        <3>1. accepted' = accepted \cup {spec}
            BY <1>6 DEF Store
        <3> QED
            BY <1>6, <3>1 DEF BuildInv
    <2> QED
        BY <1>2, <2>1, <2>2, <2>3 DEF BuildInv
<1> QED
    BY <1>4, <1>5, <1>6 DEF insert_spec

LEMMA FinishKeepsInv ==
    ASSUME BuildInv, finish
    PROVE  BuildInv'
<1>1. UNCHANGED <<suite, scratch, counted, read, accepted, dropped, soa, taken>>
    BY DEF finish
<1>2. \A n : Accepted(n)' = Accepted(n)
    BY <1>1 DEF Accepted
<1>3. /\ status' \in {"served", "refused"}
      /\ IF Served' THEN /\ check_invariants(materialise_ancestors(scratch), soa)
                         /\ zone' = Finish(scratch, soa, counted)
         ELSE zone' = NoZone
    BY DEF finish, Served, BuildInv
<1> QED
    BY <1>1, <1>2, <1>3 DEF BuildInv

LEMMA StutterKeepsInv ==
    ASSUME BuildInv, UNCHANGED buildVars
    PROVE  BuildInv'
<1>1. \A n : Accepted(n)' = Accepted(n)
    BY DEF Accepted, buildVars
<1> QED
    BY <1>1 DEF BuildInv, buildVars, Served

THEOREM BuilderKeepsBooks == BuildSpec => []BuildInv
<1>1. BuildInv /\ [BuildNext]_buildVars => BuildInv'
    BY InsertKeepsInv, FinishKeepsInv, StutterKeepsInv DEF BuildNext
<1> QED
    BY <1>1, InitKeepsInv, PTL DEF BuildSpec

-----------------------------------------------------------------------------
(* Names. *)

LEMMA NameFacts ==
    ASSUME NEW n \in ZoneNames
    PROVE  /\ Len(n) \in Nat /\ DOMAIN n = 1..Len(n)
           /\ \A i \in 1..Len(n) : n[i] \in DOMAIN Rank
           /\ n \in Seq(DOMAIN Rank)
BY DEF ZoneNames

LEMMA NamesEqual ==
    ASSUME NEW m \in ZoneNames, NEW n \in ZoneNames, Len(m) = Len(n),
           \A i \in 1..Len(m) : m[i] = n[i]
    PROVE  m = n
BY SeqEqual DEF ZoneNames

\* The ancestor of a name at a depth.
LEMMA Ancestor ==
    ASSUME NEW n \in ZoneNames, NEW k \in 0..Len(n)
    PROVE  /\ SubSeq(n, 1, k) \in ZoneNames
           /\ Len(SubSeq(n, 1, k)) = k
           /\ \A i \in 1..k : SubSeq(n, 1, k)[i] = n[i]
<1>1. Len(n) \in Nat /\ k \in Nat /\ k <= Len(n) /\ \A i \in 1..k : n[i] \in DOMAIN Rank
    BY NameFacts
<1>2. /\ SubSeq(n, 1, k) \in Seq(DOMAIN Rank)
      /\ Len(SubSeq(n, 1, k)) = IF 1 <= k THEN k - 1 + 1 ELSE 0
      /\ \A i \in 1..(k - 1 + 1) : SubSeq(n, 1, k)[i] = n[1 + i - 1]
    BY <1>1, SubSeqProperties
<1>3. k - 1 + 1 = k /\ \A i \in 1..k : 1 + i - 1 = i
    BY <1>1
<1> QED
    BY <1>1, <1>2, <1>3 DEF ZoneNames

LEMMA WholeName ==
    ASSUME NEW n \in ZoneNames
    PROVE  SubSeq(n, 1, Len(n)) = n
BY SubSeqFull DEF ZoneNames

LEMMA PrefixMeans ==
    ASSUME NEW m \in ZoneNames, NEW n \in ZoneNames
    PROVE  IsPrefix(m, n) <=> Len(m) <= Len(n) /\ \A i \in 1..Len(m) : m[i] = n[i]
<1>1. Len(m) \in Nat /\ Len(n) \in Nat /\ SubSeq(m, 1, Len(m)) = m
    BY NameFacts, WholeName
<1>2. CASE ~(Len(m) <= Len(n))
    BY <1>2 DEF IsPrefix
<1>3. CASE Len(m) <= Len(n)
    <2> DEFINE p == SubSeq(n, 1, Len(m))
    <2>1. Len(m) \in 0..Len(n)
        BY <1>1, <1>3
    <2>2. p \in ZoneNames /\ Len(p) = Len(m) /\ \A i \in 1..Len(m) : p[i] = n[i]
        BY <2>1, Ancestor
    <2>3. IsPrefix(m, n) <=> m = p
        BY <1>1, <1>3 DEF IsPrefix
    <2> HIDE DEF p
    <2>4. (\A i \in 1..Len(m) : m[i] = n[i]) => m = p
        BY <2>2, NamesEqual
    <2> QED
        BY <1>3, <2>2, <2>3, <2>4
<1> QED
    BY <1>2, <1>3

LEMMA PrefixesAre ==
    ASSUME NEW n \in ZoneNames
    PROVE  /\ Prefixes(n) = {m \in ZoneNames : IsPrefix(m, n)}
           /\ \A m \in Prefixes(n) : Len(m) \in 0..Len(n) /\ m = SubSeq(n, 1, Len(m))
<1>1. Len(n) \in Nat
    BY NameFacts
<1>2. ASSUME NEW m \in Prefixes(n)
      PROVE  m \in ZoneNames /\ IsPrefix(m, n) /\ Len(m) \in 0..Len(n) /\ m = SubSeq(n, 1, Len(m))
    <2>1. PICK k \in 0..Len(n) : m = SubSeq(n, 1, k)
        BY DEF Prefixes
    <2>2. m \in ZoneNames /\ Len(m) = k /\ \A i \in 1..k : m[i] = n[i]
        BY <2>1, Ancestor
    <2>3. IsPrefix(m, n)
        BY <1>1, <2>2, PrefixMeans
    <2> QED
        BY <2>1, <2>2, <2>3
<1>3. ASSUME NEW m \in ZoneNames, IsPrefix(m, n) PROVE m \in Prefixes(n)
    <2>1. Len(m) \in 0..Len(n) /\ m = SubSeq(n, 1, Len(m))
        <3>1. Len(m) \in Nat /\ SubSeq(m, 1, Len(m)) = m
            BY NameFacts, WholeName
        <3> QED
            BY <1>1, <1>3, <3>1 DEF IsPrefix
    <2> QED
        BY <2>1 DEF Prefixes
<1> QED
    BY <1>2, <1>3

LEMMA PrefixOrder ==
    /\ \A n \in ZoneNames : IsPrefix(n, n) /\ Apex \in ZoneNames /\ IsPrefix(Apex, n)
    /\ \A l, m, n \in ZoneNames : IsPrefix(l, m) /\ IsPrefix(m, n) => IsPrefix(l, n)
    /\ \A m, n \in ZoneNames : IsPrefix(m, n) /\ Len(m) = Len(n) => m = n
    /\ \A l, m, n \in ZoneNames : IsPrefix(l, n) /\ IsPrefix(m, n) /\ Len(l) <= Len(m) => IsPrefix(l, m)
<1>0. Apex \in ZoneNames /\ Len(Apex) = 0
    BY DEF Apex, ZoneNames
<1>1. ASSUME NEW n \in ZoneNames PROVE IsPrefix(n, n) /\ IsPrefix(Apex, n)
    <2>1. Len(n) \in Nat
        BY NameFacts
    <2> QED
        BY <1>0, <2>1, PrefixMeans
<1>2. ASSUME NEW l \in ZoneNames, NEW m \in ZoneNames, NEW n \in ZoneNames,
             IsPrefix(l, m), IsPrefix(m, n)
      PROVE  IsPrefix(l, n)
    <2>1. Len(l) \in Nat /\ Len(m) \in Nat /\ Len(n) \in Nat
        BY NameFacts
    <2>2. /\ Len(l) <= Len(m) /\ \A i \in 1..Len(l) : l[i] = m[i]
          /\ Len(m) <= Len(n) /\ \A i \in 1..Len(m) : m[i] = n[i]
        BY <1>2, PrefixMeans
    <2>3. Len(l) <= Len(n) /\ \A i \in 1..Len(l) : l[i] = n[i]
        BY <2>1, <2>2
    <2> QED
        BY <2>3, PrefixMeans
<1>3. ASSUME NEW m \in ZoneNames, NEW n \in ZoneNames, IsPrefix(m, n), Len(m) = Len(n)
      PROVE  m = n
    BY <1>3, PrefixMeans, NamesEqual
<1>4. ASSUME NEW l \in ZoneNames, NEW m \in ZoneNames, NEW n \in ZoneNames,
             IsPrefix(l, n), IsPrefix(m, n), Len(l) <= Len(m)
      PROVE  IsPrefix(l, m)
    <2>1. Len(l) \in Nat /\ Len(m) \in Nat /\ Len(n) \in Nat
        BY NameFacts
    <2>2. /\ \A i \in 1..Len(l) : l[i] = n[i]
          /\ \A i \in 1..Len(m) : m[i] = n[i]
        BY <1>4, PrefixMeans
    <2>3. \A i \in 1..Len(l) : l[i] = m[i]
        BY <1>4, <2>1, <2>2
    <2> QED
        BY <1>4, <2>3, PrefixMeans
<1> QED
    BY <1>0, <1>1, <1>2, <1>3, <1>4

-----------------------------------------------------------------------------
(* The tree. *)

Tree == materialise_ancestors(scratch)

\* Owners are names of the zone that the wire can carry.
LEMMA OwnerFacts ==
    ASSUME BuildInv, NEW s \in accepted
    PROVE  /\ s \in Blocks /\ s.owner \in ZoneNames /\ Len(s.owner) <= MAX_LABELS
           /\ s.values # <<>> /\ s.owner \in DOMAIN scratch
<1>1. s \in Blocks /\ ~Malformed(s) /\ ~Unrepresentable(s) /\ s.owner \in DOMAIN scratch
    BY DEF BuildInv
<1>2. s.owner \in ZoneNames
    <2>1. s.owner # Outside
        BY <1>1 DEF Malformed, contains
    <2> QED
        BY <1>1, <2>1, BlockFacts
<1>3. Len(s.owner) \in Nat /\ MAX_LABELS \in Nat
    BY <1>2, NameFacts, NamesAssumption
<1>4. ASSUME IsWildcard(s.owner) PROVE Len(s.owner) <= MAX_LABELS
    BY <1>1, <1>3, <1>4 DEF Unrepresentable
<1>5. ASSUME ~IsWildcard(s.owner) PROVE Len(s.owner) <= MAX_LABELS
    <2>1. Qualified(s.owner) = s.owner
        BY <1>5 DEF Qualified
    <2> QED
        BY <1>1, <1>3, <2>1 DEF Malformed
<1> QED
    BY <1>1, <1>2, <1>4, <1>5 DEF Malformed

\* The nodes are the names at or above an owner, and the apex: a finite tree.
LEMMA TreeShape ==
    ASSUME BuildInv
    PROVE  /\ DOMAIN Tree = {n \in ZoneNames : InTree(n)}
           /\ Apex \in DOMAIN Tree
           /\ IsFiniteSet(DOMAIN Tree)
           /\ \A n \in DOMAIN Tree : \A m \in ZoneNames : IsPrefix(m, n) => m \in DOMAIN Tree
           /\ \A n \in DOMAIN Tree : Len(n) <= MAX_LABELS
<1>1. DOMAIN scratch = {s.owner : s \in accepted} /\ IsFiniteSet(accepted)
    BY DEF BuildInv
<1>2. DOMAIN Tree = {Apex} \cup UNION {Prefixes(o) : o \in DOMAIN scratch}
    BY DEF Tree, materialise_ancestors
<1>3. \A o \in DOMAIN scratch : o \in ZoneNames /\ Len(o) <= MAX_LABELS
    BY <1>1, OwnerFacts
<1>4. Apex \in ZoneNames /\ Len(Apex) = 0
    BY PrefixOrder DEF Apex, ZoneNames
<1>5. ASSUME NEW n
      PROVE  n \in DOMAIN Tree <=> n \in ZoneNames /\ (n = Apex \/ \E o \in DOMAIN scratch : IsPrefix(n, o))
    <2>1. n \in DOMAIN Tree <=> n = Apex \/ \E o \in DOMAIN scratch : n \in Prefixes(o)
        BY <1>2
    <2>2. \A o \in DOMAIN scratch : n \in Prefixes(o) <=> n \in ZoneNames /\ IsPrefix(n, o)
        BY <1>3, PrefixesAre
    <2> QED
        BY <1>4, <2>1, <2>2
<1>6. \A n : InTree(n) <=> n = Apex \/ \E o \in DOMAIN scratch : IsPrefix(n, o)
    BY <1>1 DEF InTree
<1>7. DOMAIN Tree = {n \in ZoneNames : InTree(n)}
    BY <1>5, <1>6
<1>8. IsFiniteSet(DOMAIN Tree)
    <2> DEFINE f == [s \in accepted |-> s.owner]
               g == [o \in DOMAIN scratch |-> Prefixes(o)]
               G == {g[o] : o \in DOMAIN g}
    <2>1. DOMAIN f = accepted /\ DOMAIN scratch = {f[s] : s \in DOMAIN f}
        BY <1>1
    <2>2. DOMAIN g = DOMAIN scratch /\ DOMAIN Tree = {Apex} \cup UNION G
        BY <1>2
    <2>3. ASSUME NEW o \in DOMAIN scratch PROVE IsFiniteSet(g[o])
        <3> DEFINE h == [l \in 0..Len(o) |-> SubSeq(o, 1, l)]
        <3>1. Len(o) \in Nat
            BY <1>3, NameFacts
        <3>2. g[o] = {h[l] : l \in DOMAIN h} /\ DOMAIN h = 0..Len(o)
            BY DEF Prefixes
        <3>3. IsFiniteSet(0..Len(o))
            BY <3>1, FS_Interval
        <3> HIDE DEF h
        <3> QED
            BY <3>2, <3>3, FiniteRange
    <2> HIDE DEF f, g
    <2>4. IsFiniteSet(DOMAIN scratch)
        BY <1>1, <2>1, FiniteRange
    <2>5. IsFiniteSet(G)
        BY <2>2, <2>4, FiniteRange
    <2>6. \A T \in G : IsFiniteSet(T)
        BY <2>2, <2>3
    <2> HIDE DEF G
    <2>7. IsFiniteSet(UNION G)
        BY <2>5, <2>6, FS_UNION
    <2>8. IsFiniteSet((UNION G) \cup {Apex})
        BY <2>7, FS_AddElement
    <2>9. (UNION G) \cup {Apex} = DOMAIN Tree
        BY <2>2
    <2> QED
        BY <2>8, <2>9
<1>9. ASSUME NEW n \in DOMAIN Tree, NEW m \in ZoneNames, IsPrefix(m, n)
      PROVE  m \in DOMAIN Tree
    <2>1. CASE n = Apex
        <3>1. Len(m) = 0
            BY <1>4, <1>9, <2>1, NameFacts, PrefixMeans
        <3> QED
            BY <1>4, <1>5, <1>9, <2>1, <3>1, PrefixOrder
    <2>2. CASE n # Apex
        <3>1. PICK o \in DOMAIN scratch : IsPrefix(n, o)
            BY <1>5, <2>2
        <3>2. IsPrefix(m, o)
            BY <1>3, <1>5, <1>9, <3>1, PrefixOrder
        <3> QED
            BY <1>5, <3>2
    <2> QED
        BY <2>1, <2>2
<1>10. ASSUME NEW n \in DOMAIN Tree PROVE Len(n) <= MAX_LABELS
    <2>1. MAX_LABELS \in Nat
        BY NamesAssumption
    <2>2. CASE n = Apex
        BY <1>4, <2>1, <2>2
    <2>3. CASE n # Apex
        <3>1. PICK o \in DOMAIN scratch : IsPrefix(n, o)
            BY <1>5, <2>3
        <3>2. Len(n) <= Len(o) /\ Len(n) \in Nat /\ Len(o) \in Nat /\ Len(o) <= MAX_LABELS
            BY <1>3, <1>5, <3>1, NameFacts, PrefixMeans
        <3> QED
            BY <2>1, <3>2
    <2> QED
        BY <2>2, <2>3
<1> QED
    BY <1>4, <1>5, <1>7, <1>8, <1>9, <1>10

\* A node holds what was accepted for it.
LEMMA TreeHolds ==
    ASSUME BuildInv, NEW n \in DOMAIN Tree
    PROVE  /\ Tree[n] \in Seq(Runs)
           /\ \A r \in ToSet(Tree[n]) : r.rdata # <<>>
           /\ InRuns(Tree[n]) = Accepted(n)
<1>1. Tree[n] = IF n \in DOMAIN scratch THEN scratch[n] ELSE <<>>
    BY DEF Tree, materialise_ancestors
<1>2. CASE n \in DOMAIN scratch
    BY <1>1, <1>2 DEF BuildInv
<1>3. CASE n \notin DOMAIN scratch
    <2>1. Tree[n] = <<>>
        BY <1>1, <1>3
    <2>2. InRuns(<<>>) = {} /\ ToSet(<<>>) = {} /\ <<>> \in Seq(Runs)
        BY DEF InRuns, ToSet
    <2>3. {x \in accepted : x.owner = n} = {}
        BY <1>3 DEF BuildInv
    <2>4. Accepted(n) = {}
        BY <2>3 DEF Accepted
    <2> QED
        BY <2>1, <2>2, <2>4
<1> QED
    BY <1>2, <1>3

-----------------------------------------------------------------------------
(* The count. *)

\* What stays of a node after its cut.
LEMMA KeptRuns ==
    ASSUME NEW nodes, NEW n \in DOMAIN nodes, nodes[n] \in Seq(Runs), NEW cut
    PROVE  apply_cut(nodes, cut, n) \in Seq(Runs)
BY Retained DEF apply_cut

LEMMA CountIsServed == BuildInv => CountIsWhatIsServed
<1> SUFFICES ASSUME BuildInv, Served PROVE zone.record_count = ValueCount(zone.nodes) + dropped
    BY DEF CountIsWhatIsServed
<1> DEFINE cut_of == layout(Tree)
           kept == [n \in DOMAIN Tree |-> apply_cut(Tree, cut_of[n], n)]
<1>1. zone = Finish(scratch, soa, counted) /\ dropped \in Nat
    BY DEF BuildInv
<1>2. zone.nodes = kept /\ zone.record_count = counted - (ValueCount(Tree) - ValueCount(kept))
    BY <1>1 DEF Finish, Tree
<1>3. DOMAIN kept = DOMAIN Tree /\ IsFiniteSet(DOMAIN Tree)
    BY TreeShape
<1>4. ASSUME NEW n \in DOMAIN Tree PROVE Tree[n] \in Seq(Runs) /\ kept[n] \in Seq(Runs)
    <2>1. Tree[n] \in Seq(Runs)
        BY TreeHolds
    <2>2. apply_cut(Tree, cut_of[n], n) \in Seq(Runs)
        BY <2>1, KeptRuns
    <2> QED
        BY <2>1, <2>2
<1> HIDE DEF kept
<1>5. ValueCount(Tree) \in Nat /\ ValueCount(kept) \in Nat
    BY <1>3, <1>4, StoredFinite
<1>6. Stored(Tree) = Stored(scratch)
    <2>1. \A n \in DOMAIN Tree : Tree[n] = IF n \in DOMAIN scratch THEN scratch[n] ELSE <<>>
        BY DEF Tree, materialise_ancestors
    <2>2. DOMAIN scratch \subseteq DOMAIN Tree
        <3> SUFFICES ASSUME NEW o \in DOMAIN scratch PROVE o \in DOMAIN Tree
            OBVIOUS
        <3>1. PICK s \in accepted : s.owner = o
            BY DEF BuildInv
        <3>2. o \in ZoneNames /\ IsPrefix(o, o)
            BY <3>1, OwnerFacts, PrefixOrder
        <3>3. InTree(o)
            BY <3>1, <3>2 DEF InTree
        <3> QED
            BY <3>2, <3>3, TreeShape
    <2>3. ASSUME NEW q PROVE q \in Stored(Tree) <=> q \in Stored(scratch)
        <3>1. q \in Stored(Tree) <=>
               \E n \in DOMAIN Tree : \E i \in DOMAIN Tree[n] :
                   \E j \in DOMAIN Tree[n][i].rdata : q = <<n, i, j>>
            BY StoredIs
        <3>2. q \in Stored(scratch) <=>
               \E n \in DOMAIN scratch : \E i \in DOMAIN scratch[n] :
                   \E j \in DOMAIN scratch[n][i].rdata : q = <<n, i, j>>
            BY StoredIs
        <3>3. \A n \in DOMAIN Tree : n \in DOMAIN scratch \/ DOMAIN Tree[n] = {}
            BY <2>1
        <3> QED
            BY <2>1, <2>2, <3>1, <3>2, <3>3
    <2> QED
        BY <2>3
<1>7. counted = ValueCount(Tree) + dropped
    BY <1>6 DEF BuildInv, ValueCount
<1> QED
    BY <1>1, <1>2, <1>5, <1>7

\* The gauge of the zone's records is the number of values it serves, and the
\* wildcards that have no name (zone.rs finish).
THEOREM RecordCountIsServed == BuildSpec => []CountIsWhatIsServed
    BY BuilderKeepsBooks, CountIsServed, PTL

-----------------------------------------------------------------------------
(* The canonical order. *)

LEMMA MinOfTwo ==
    ASSUME NEW a \in Nat, NEW b \in Nat
    PROVE  Min({a, b}) = IF a <= b THEN a ELSE b
<1> DEFINE c == IF a <= b THEN a ELSE b
<1>1. c \in {a, b} /\ \A y \in {a, b} : c =< y
    OBVIOUS
<1>2. Min({a, b}) \in {a, b} /\ \A y \in {a, b} : Min({a, b}) =< y
    BY <1>1 DEF Min
<1> QED
    BY <1>2

\* The order, label by label.
LEMMA PrecedesMeans ==
    ASSUME NEW m \in ZoneNames, NEW n \in ZoneNames
    PROVE  Precedes(m, n) <=>
               \/ Len(m) < Len(n) /\ \A i \in 1..Len(m) : m[i] = n[i]
               \/ \E i \in 1..Len(m) : /\ i <= Len(n)
                                       /\ \A j \in 1..(i - 1) : m[j] = n[j]
                                       /\ Rank[m[i]] < Rank[n[i]]
<1>1. Len(m) \in Nat /\ Len(n) \in Nat
    BY NameFacts
<1>2. IsStrictPrefix(m, n) <=> Len(m) < Len(n) /\ \A i \in 1..Len(m) : m[i] = n[i]
    <2>1. IsPrefix(m, n) <=> Len(m) <= Len(n) /\ \A i \in 1..Len(m) : m[i] = n[i]
        BY PrefixMeans
    <2>2. IsPrefix(m, n) /\ Len(m) = Len(n) => m = n
        BY PrefixOrder
    <2> QED
        BY <1>1, <2>1, <2>2 DEF IsStrictPrefix
<1>3. 1..Min({Len(m), Len(n)}) = {i \in 1..Len(m) : i <= Len(n)}
    BY <1>1, MinOfTwo
<1>4. ASSUME NEW i \in 1..Len(m), i <= Len(n)
      PROVE  SubSeq(m, 1, i - 1) = SubSeq(n, 1, i - 1) <=> \A j \in 1..(i - 1) : m[j] = n[j]
    <2> DEFINE a == SubSeq(m, 1, i - 1)
               b == SubSeq(n, 1, i - 1)
    <2>1. i - 1 \in 0..Len(m) /\ i - 1 \in 0..Len(n)
        BY <1>1, <1>4
    <2>2. /\ a \in ZoneNames /\ Len(a) = i - 1 /\ \A j \in 1..(i - 1) : a[j] = m[j]
          /\ b \in ZoneNames /\ Len(b) = i - 1 /\ \A j \in 1..(i - 1) : b[j] = n[j]
        BY <2>1, Ancestor
    <2> HIDE DEF a, b
    <2>3. (\A j \in 1..(i - 1) : m[j] = n[j]) => a = b
        BY <2>2, NamesEqual
    <2>4. a = b => \A j \in 1..(i - 1) : m[j] = n[j]
        BY <2>2
    <2> QED
        BY <2>3, <2>4 DEF a, b
<1> QED
    BY <1>2, <1>3, <1>4 DEF Precedes

LEMMA LabelRanks ==
    /\ \A l \in DOMAIN Rank : Rank[l] \in Nat
    /\ \A l, m \in DOMAIN Rank : Rank[l] = Rank[m] => l = m
BY NamesAssumption

LEMMA PrecedesIrreflexive == \A n \in ZoneNames : ~Precedes(n, n)
<1> SUFFICES ASSUME NEW n \in ZoneNames, Precedes(n, n) PROVE FALSE
    OBVIOUS
<1>1. Len(n) \in Nat /\ \A i \in 1..Len(n) : Rank[n[i]] \in Nat
    BY NameFacts, LabelRanks
<1>2. \E i \in 1..Len(n) : Rank[n[i]] < Rank[n[i]]
    BY <1>1, PrecedesMeans
<1> QED
    BY <1>1, <1>2

LEMMA PrecedesTransitive ==
    ASSUME NEW l \in ZoneNames, NEW m \in ZoneNames, NEW n \in ZoneNames,
           Precedes(l, m), Precedes(m, n)
    PROVE  Precedes(l, n)
<1> DEFINE Shorter(x, y) == Len(x) < Len(y) /\ \A i \in 1..Len(x) : x[i] = y[i]
           Splits(x, y, i) == /\ i <= Len(y)
                              /\ \A j \in 1..(i - 1) : x[j] = y[j]
                              /\ Rank[x[i]] < Rank[y[i]]
<1>1. /\ Len(l) \in Nat /\ Len(m) \in Nat /\ Len(n) \in Nat
      /\ \A i \in 1..Len(l) : Rank[l[i]] \in Nat
      /\ \A i \in 1..Len(m) : Rank[m[i]] \in Nat
      /\ \A i \in 1..Len(n) : Rank[n[i]] \in Nat
    BY NameFacts, LabelRanks
<1>2. Shorter(l, m) \/ \E i \in 1..Len(l) : Splits(l, m, i)
    BY PrecedesMeans
<1>3. Shorter(m, n) \/ \E i \in 1..Len(m) : Splits(m, n, i)
    BY PrecedesMeans
<1>4. CASE Shorter(l, m) /\ Shorter(m, n)
    <2>1. Shorter(l, n)
        BY <1>1, <1>4
    <2> QED
        BY <2>1, PrecedesMeans
<1>5. ASSUME NEW i \in 1..Len(m), Splits(m, n, i), Shorter(l, m) PROVE Precedes(l, n)
    <2>1. CASE i <= Len(l)
        <3>1. i \in 1..Len(l) /\ Splits(l, n, i)
            BY <1>1, <1>5, <2>1
        <3> QED
            BY <3>1, PrecedesMeans
    <2>2. CASE i > Len(l)
        <3>1. Shorter(l, n)
            BY <1>1, <1>5, <2>2
        <3> QED
            BY <3>1, PrecedesMeans
    <2> QED
        BY <1>1, <2>1, <2>2
<1>6. ASSUME NEW i \in 1..Len(l), Splits(l, m, i), Shorter(m, n) PROVE Precedes(l, n)
    <2>1. Splits(l, n, i)
        BY <1>1, <1>6
    <2> QED
        BY <2>1, PrecedesMeans
<1>7. ASSUME NEW i \in 1..Len(l), Splits(l, m, i), NEW k \in 1..Len(m), Splits(m, n, k)
      PROVE  Precedes(l, n)
    <2>1. CASE i <= k
        <3>1. Splits(l, n, i)
            BY <1>1, <1>7, <2>1
        <3> QED
            BY <3>1, PrecedesMeans
    <2>2. CASE k < i
        <3>1. k \in 1..Len(l) /\ Splits(l, n, k)
            BY <1>1, <1>7, <2>2
        <3> QED
            BY <3>1, PrecedesMeans
    <2> QED
        BY <1>1, <2>1, <2>2
<1> HIDE DEF Shorter, Splits
<1> QED
    BY <1>2, <1>3, <1>4, <1>5, <1>6, <1>7

LEMMA PrecedesTotal ==
    ASSUME NEW m \in ZoneNames, NEW n \in ZoneNames, m # n
    PROVE  Precedes(m, n) \/ Precedes(n, m)
<1> DEFINE D == {i \in Nat : i \in 1..Len(m) /\ i <= Len(n) /\ m[i] # n[i]}
<1>1. /\ Len(m) \in Nat /\ Len(n) \in Nat
      /\ \A i \in 1..Len(m) : m[i] \in DOMAIN Rank /\ Rank[m[i]] \in Nat
      /\ \A i \in 1..Len(n) : n[i] \in DOMAIN Rank /\ Rank[n[i]] \in Nat
    BY NameFacts, LabelRanks
<1>2. CASE D = {}
    <2>1. \A i \in 1..Len(m) : i <= Len(n) => m[i] = n[i]
        BY <1>1, <1>2
    <2>2. CASE Len(m) < Len(n)
        <3>1. \A i \in 1..Len(m) : m[i] = n[i]
            BY <1>1, <2>1, <2>2
        <3> QED
            BY <2>2, <3>1, PrecedesMeans
    <2>3. CASE Len(n) < Len(m)
        <3>1. \A i \in 1..Len(n) : n[i] = m[i]
            BY <1>1, <2>1, <2>3
        <3> QED
            BY <2>3, <3>1, PrecedesMeans
    <2>4. CASE Len(m) = Len(n)
        <3>1. \A i \in 1..Len(m) : m[i] = n[i]
            BY <1>1, <2>1, <2>4
        <3> QED
            BY <2>4, <3>1, NamesEqual
    <2> QED
        BY <1>1, <2>2, <2>3, <2>4
<1>3. CASE D # {}
    <2>1. PICK i \in D : \A j \in D : ~(<<j, i>> \in OpToRel(<, Nat))
        BY <1>3, WFMin, NatLessThanWellFounded
    <2>2. i \in 1..Len(m) /\ i \in 1..Len(n) /\ m[i] # n[i] /\ i <= Len(n) /\ i <= Len(m)
        BY <1>1
    <2>3. \A j \in 1..(i - 1) : m[j] = n[j]
        <3> SUFFICES ASSUME NEW j \in 1..(i - 1), m[j] # n[j] PROVE FALSE
            OBVIOUS
        <3>1. j \in D /\ i \in Nat /\ j < i
            BY <1>1, <2>2
        <3> QED
            BY <2>1, <3>1 DEF OpToRel
    <2>4. Rank[m[i]] < Rank[n[i]] \/ Rank[n[i]] < Rank[m[i]]
        BY <1>1, <2>2, LabelRanks
    <2>5. \A j \in 1..(i - 1) : n[j] = m[j]
        BY <2>3
    <2>6. Rank[m[i]] < Rank[n[i]] => Precedes(m, n)
        BY <2>2, <2>3, PrecedesMeans
    <2>7. Rank[n[i]] < Rank[m[i]] => Precedes(n, m)
        BY <2>2, <2>5, PrecedesMeans
    <2> QED
        BY <2>4, <2>6, <2>7
<1> QED
    BY <1>2, <1>3

\* A subtree is contiguous in the order.
LEMMA Contiguous ==
    ASSUME NEW p \in ZoneNames, NEW m \in ZoneNames, NEW n \in ZoneNames,
           IsPrefix(p, n), Precedes(p, m), Precedes(m, n)
    PROVE  IsPrefix(p, m)
<1> DEFINE Shorter(x, y) == Len(x) < Len(y) /\ \A i \in 1..Len(x) : x[i] = y[i]
           Splits(x, y, i) == /\ i <= Len(y)
                              /\ \A j \in 1..(i - 1) : x[j] = y[j]
                              /\ Rank[x[i]] < Rank[y[i]]
<1>1. /\ Len(p) \in Nat /\ Len(m) \in Nat /\ Len(n) \in Nat
      /\ \A i \in 1..Len(p) : Rank[p[i]] \in Nat
      /\ \A i \in 1..Len(m) : Rank[m[i]] \in Nat
      /\ \A i \in 1..Len(n) : Rank[n[i]] \in Nat
    BY NameFacts, LabelRanks
<1>2. Shorter(p, m) \/ \E i \in 1..Len(p) : Splits(p, m, i)
    BY PrecedesMeans
<1>3. Shorter(m, n) \/ \E i \in 1..Len(m) : Splits(m, n, i)
    BY PrecedesMeans
<1>4. Len(p) <= Len(n) /\ \A i \in 1..Len(p) : p[i] = n[i]
    BY PrefixMeans
<1>5. CASE Shorter(p, m)
    BY <1>1, <1>5, PrefixMeans
<1>6. ASSUME NEW i \in 1..Len(p), Splits(p, m, i) PROVE FALSE
    <2>1. Rank[n[i]] < Rank[m[i]] /\ i \in 1..Len(m) /\ i \in 1..Len(n)
        BY <1>1, <1>4, <1>6
    <2>2. \A j \in 1..(i - 1) : m[j] = n[j]
        BY <1>1, <1>4, <1>6
    <2>3. ~Shorter(m, n)
        BY <1>1, <2>1
    <2>4. PICK k \in 1..Len(m) : Splits(m, n, k)
        BY <1>3, <2>3
    <2>5. k < i \/ k = i \/ i < k
        BY <1>1
    <2>6. CASE k < i
        <3>1. m[k] = n[k] /\ Rank[m[k]] \in Nat
            BY <1>1, <2>2, <2>6
        <3> QED
            BY <2>4, <3>1
    <2>7. CASE k = i
        BY <1>1, <2>1, <2>4, <2>7
    <2>8. CASE i < k
        <3>1. m[i] = n[i]
            BY <1>1, <2>4, <2>8
        <3> QED
            BY <1>1, <2>1, <3>1
    <2> QED
        BY <2>5, <2>6, <2>7, <2>8
<1> HIDE DEF Shorter, Splits
<1> QED
    BY <1>2, <1>5, <1>6

LEMMA PrefixPrecedes ==
    ASSUME NEW m \in ZoneNames, NEW n \in ZoneNames, IsPrefix(m, n), m # n
    PROVE  Precedes(m, n)
BY DEF Precedes, IsStrictPrefix

\* The names that precede a name, of a set.
Earlier(names, n) == {m \in names : Precedes(m, n)}

LEMMA EarlierCounts ==
    ASSUME NEW names \in SUBSET ZoneNames, IsFiniteSet(names)
    PROVE  /\ Cardinality(names) \in Nat
           /\ \A n \in names : Cardinality(Earlier(names, n)) \in 0..(Cardinality(names) - 1)
           /\ \A m, n \in names :
                 Precedes(m, n) => Cardinality(Earlier(names, m)) < Cardinality(Earlier(names, n))
<1>1. Cardinality(names) \in Nat
    BY FS_CardinalityType
<1>2. ASSUME NEW n \in names
      PROVE  /\ IsFiniteSet(Earlier(names, n))
             /\ Cardinality(Earlier(names, n)) \in Nat
             /\ Cardinality(Earlier(names, n)) < Cardinality(names)
    <2>1. Earlier(names, n) \in SUBSET names /\ n \notin Earlier(names, n)
        BY PrecedesIrreflexive DEF Earlier
    <2>2. /\ IsFiniteSet(Earlier(names, n))
          /\ Cardinality(Earlier(names, n)) <= Cardinality(names)
          /\ Cardinality(names) = Cardinality(Earlier(names, n)) => names = Earlier(names, n)
        BY <2>1, FS_Subset
    <2>3. Cardinality(Earlier(names, n)) \in Nat
        BY <2>2, FS_CardinalityType
    <2>4. Cardinality(names) # Cardinality(Earlier(names, n))
        BY <2>1, <2>2
    <2> QED
        BY <1>1, <2>2, <2>3, <2>4
<1>3. ASSUME NEW m \in names, NEW n \in names, Precedes(m, n)
      PROVE  Cardinality(Earlier(names, m)) < Cardinality(Earlier(names, n))
    <2> DEFINE S == Earlier(names, n)
               T == Earlier(names, m)
    <2>1. T \in SUBSET S
        BY <1>3, PrecedesTransitive DEF Earlier
    <2>2. m \in S /\ m \notin T
        BY <1>3, PrecedesIrreflexive DEF Earlier
    <2>3. IsFiniteSet(S) /\ Cardinality(S) \in Nat /\ Cardinality(T) \in Nat
        BY <1>2
    <2> HIDE DEF S, T
    <2>4. Cardinality(T) <= Cardinality(S) /\ (Cardinality(S) = Cardinality(T) => S = T)
        BY <2>1, <2>3, FS_Subset
    <2>5. Cardinality(T) < Cardinality(S)
        BY <2>2, <2>3, <2>4
    <2> QED
        BY <2>5 DEF S, T
<1>4. \A n \in names : Cardinality(Earlier(names, n)) \in 0..(Cardinality(names) - 1)
    BY <1>1, <1>2
<1> QED
    BY <1>1, <1>3, <1>4

\* The canonical order lists each name of the set once, in order.
LEMMA OrderEnumerates ==
    ASSUME NEW names \in SUBSET ZoneNames, IsFiniteSet(names)
    PROVE  /\ Len(CanonicalOrder(names)) \in Nat
           /\ DOMAIN CanonicalOrder(names) = 1..Len(CanonicalOrder(names))
           /\ \A i \in 1..Len(CanonicalOrder(names)) : CanonicalOrder(names)[i] \in names
           /\ \A n \in names : \E i \in 1..Len(CanonicalOrder(names)) : CanonicalOrder(names)[i] = n
           /\ \A i, j \in 1..Len(CanonicalOrder(names)) :
                 i < j <=> Precedes(CanonicalOrder(names)[i], CanonicalOrder(names)[j])
<1> DEFINE N == Cardinality(names)
           C(n) == Cardinality(Earlier(names, n))
           r == [n \in names |-> C(n)]
           Pick(i) == CHOOSE n \in names : C(n) = i - 1
           order == [i \in 1..N |-> Pick(i)]
<1>1. /\ N \in Nat
      /\ \A n \in names : C(n) \in 0..(N - 1)
      /\ \A m, n \in names : Precedes(m, n) => C(m) < C(n)
    BY EarlierCounts
<1>2. CanonicalOrder(names) = order
    BY DEF CanonicalOrder, Earlier
<1> HIDE DEF N, C
<1>3. \A m, n \in names : C(m) = C(n) => m = n
    BY <1>1, PrecedesTotal
<1>4. r \in Injection(names, 0..(N - 1))
    BY <1>1, <1>3 DEF Injection, IsInjective
<1>5. IsFiniteSet(0..(N - 1)) /\ Cardinality(0..(N - 1)) = N
    BY <1>1, FS_Interval
<1>6. Cardinality(names) = Cardinality(0..(N - 1)) <=> r \in Surjection(names, 0..(N - 1))
    <2> HIDE DEF r
    <2> QED
        BY <1>4, <1>5, FS_Injection
<1>7. r \in Surjection(names, 0..(N - 1))
    BY <1>5, <1>6 DEF N
<1>8. \A k \in 0..(N - 1) : \E n \in names : C(n) = k
    BY <1>7 DEF Surjection
<1>9. ASSUME NEW i \in 1..N PROVE Pick(i) \in names /\ C(Pick(i)) = i - 1
    <2>1. i - 1 \in 0..(N - 1)
        BY <1>1
    <2>2. \E n \in names : C(n) = i - 1
        BY <1>8, <2>1
    <2> QED
        BY <2>2
<1> HIDE DEF Pick
<1>10. \A i \in 1..N : order[i] \in names /\ C(order[i]) = i - 1
    BY <1>9
<1>11. DOMAIN order = 1..N
    OBVIOUS
<1> HIDE DEF order, r
<1>12. Len(order) = N
    BY <1>1, <1>11
<1>13. ASSUME NEW n \in names PROVE \E i \in 1..N : order[i] = n
    <2>1. C(n) + 1 \in 1..N /\ (C(n) + 1) - 1 = C(n)
        BY <1>1
    <2>2. order[C(n) + 1] = n
        BY <1>3, <1>10, <2>1
    <2> QED
        BY <2>1, <2>2
<1>14. ASSUME NEW i \in 1..N, NEW j \in 1..N
       PROVE  i < j <=> Precedes(order[i], order[j])
    <2>1. order[i] \in names /\ order[j] \in names /\ C(order[i]) = i - 1 /\ C(order[j]) = j - 1
        BY <1>10
    <2>2. Precedes(order[i], order[j]) => i < j
        <3>1. Precedes(order[i], order[j]) => i - 1 < j - 1
            BY <1>1, <2>1
        <3> QED
            BY <1>1, <3>1
    <2>3. Precedes(order[j], order[i]) => j < i
        <3>1. Precedes(order[j], order[i]) => j - 1 < i - 1
            BY <1>1, <2>1
        <3> QED
            BY <1>1, <3>1
    <2>4. i < j => order[i] # order[j]
        <3>1. order[i] = order[j] => i - 1 = j - 1
            BY <2>1
        <3> QED
            BY <1>1, <3>1
    <2>5. order[i] # order[j] => Precedes(order[i], order[j]) \/ Precedes(order[j], order[i])
        BY <2>1, PrecedesTotal
    <2> QED
        BY <1>1, <2>2, <2>3, <2>4, <2>5
<1> QED
    BY <1>1, <1>2, <1>10, <1>11, <1>12, <1>13, <1>14

-----------------------------------------------------------------------------
(* The cut pass. *)

\* The table of a pass over the first n names of the order.
Passes(h, nodes, order, n) ==
    h = [i \in 0..n |-> IF i = 0 THEN [ancestry |-> <<>>, cut_of |-> <<>>]
                       ELSE Visit(nodes, h[i - 1], order[i])]

LEMMA PassesExist == ASSUME NEW nodes, NEW order PROVE \A n \in Nat : \E h : Passes(h, nodes, order, n)
<1> DEFINE Base == [ancestry |-> <<>>, cut_of |-> <<>>]
           Following(x, i) == Visit(nodes, x, order[i])
           S == {n \in Nat : \E h : Passes(h, nodes, order, n)}
<1>1. 0 \in S
    <2> DEFINE h == [i \in 0..0 |-> Base]
    <2>1. \A i \in 0..0 : i = 0
        OBVIOUS
    <2>2. h = [i \in 0..0 |-> IF i = 0 THEN Base ELSE Following(h[i - 1], i)]
        <3> HIDE DEF Base, Following
        <3> QED
            BY <2>1
    <2>3. Passes(h, nodes, order, 0)
        BY <2>2 DEF Passes
    <2> QED
        BY <2>3
<1>2. ASSUME NEW n \in Nat, n \in S PROVE n + 1 \in S
    <2>1. PICK f : Passes(f, nodes, order, n)
        BY <1>2
    <2>2. \A i \in 0..n : f[i] = IF i = 0 THEN Base ELSE Following(f[i - 1], i)
        BY <2>1 DEF Passes
    <2> DEFINE h == [i \in 0..(n + 1) |-> IF i = n + 1 THEN Following(f[n], n + 1) ELSE f[i]]
               g == [i \in 0..(n + 1) |-> IF i = 0 THEN Base ELSE Following(h[i - 1], i)]
    <2>3. h = g
        <3> HIDE DEF Base, Following
        <3>1. \A i \in 0..n : h[i] = f[i]
            OBVIOUS
        <3>2. h[n + 1] = Following(f[n], n + 1) /\ DOMAIN h = 0..(n + 1) /\ h = [i \in DOMAIN h |-> h[i]]
            OBVIOUS
        <3>3. DOMAIN g = 0..(n + 1)
              /\ \A i \in 0..(n + 1) : g[i] = IF i = 0 THEN Base ELSE Following(h[i - 1], i)
            OBVIOUS
        <3> HIDE DEF h, g
        <3>4. ASSUME NEW i \in 0..(n + 1) PROVE h[i] = g[i]
            <4>1. CASE i = n + 1
                <5>1. i # 0 /\ i - 1 = n /\ n \in 0..n
                    BY <4>1
                <5>2. g[i] = Following(f[n], i)
                    BY <3>1, <3>3, <5>1
                <5> QED
                    BY <3>2, <4>1, <5>2
            <4>2. CASE i # n + 1
                <5>1. i \in 0..n /\ (i # 0 => i - 1 \in 0..n)
                    BY <4>2
                <5> QED
                    BY <2>2, <3>1, <3>3, <5>1
            <4> QED
                BY <4>1, <4>2
        <3>5. g = [i \in DOMAIN g |-> g[i]]
            BY DEF g
        <3> QED
            BY <3>2, <3>3, <3>4, <3>5
    <2> HIDE DEF h
    <2>4. Passes(h, nodes, order, n + 1)
        BY <2>3 DEF Passes
    <2> QED
        BY <2>4
<1> HIDE DEF S
<1>3. \A n \in Nat : n \in S
    BY <1>1, <1>2, NatSetInduction
<1> QED
    BY <1>3 DEF S

\* The parent of a name.
LEMMA Parent ==
    ASSUME NEW n \in ZoneNames, n # Apex
    PROVE  /\ Len(n) \in Nat \ {0}
           /\ Front(n) = SubSeq(n, 1, Len(n) - 1)
           /\ Front(n) \in ZoneNames /\ Len(Front(n)) = Len(n) - 1
           /\ \A i \in 1..(Len(n) - 1) : Front(n)[i] = n[i]
           /\ IsPrefix(Front(n), n) /\ Front(n) # n
<1>1. Len(n) \in Nat /\ Len(n) # 0
    BY NameFacts DEF Apex, ZoneNames
<1>2. Front(n) = SubSeq(n, 1, Len(n) - 1) /\ Len(n) - 1 \in 0..Len(n)
    BY <1>1 DEF Front
<1>3. /\ Front(n) \in ZoneNames /\ Len(Front(n)) = Len(n) - 1
      /\ \A i \in 1..(Len(n) - 1) : Front(n)[i] = n[i]
    BY <1>2, Ancestor
<1>4. IsPrefix(Front(n), n) /\ Front(n) # n
    BY <1>1, <1>3, PrefixMeans
<1> QED
    BY <1>1, <1>2, <1>3, <1>4

\* The stack holds the ancestors of the name last visited, and the name.
Stacked(ancestry, n) ==
    /\ ancestry \in Seq(ZoneNames) /\ Len(ancestry) = Len(n) + 1
    /\ \A k \in 1..(Len(n) + 1) : ancestry[k] = SubSeq(n, 1, k - 1)

\* A visit finds the parent at the top of the stack it pops to.
LEMMA VisitStep ==
    ASSUME NEW nodes, NEW acc, NEW n \in ZoneNames, NEW x \in ZoneNames, x # Apex,
           Stacked(acc.ancestry, n), IsPrefix(Front(x), n)
    PROVE  /\ Stacked(Visit(nodes, acc, x).ancestry, x)
           /\ Visit(nodes, acc, x).cut_of =
                 Put(acc.cut_of, x, IF Has(nodes[x], "NS") THEN x ELSE acc.cut_of[Front(x)])
<1> DEFINE stack == acc.ancestry
           above == {k \in DOMAIN stack : IsStrictPrefix(stack[k], x)}
           L == Len(x)
           p == Front(x)
           popped == SubSeq(stack, 1, L)
<1>1. /\ L \in Nat \ {0} /\ p = SubSeq(x, 1, L - 1) /\ p \in ZoneNames /\ Len(p) = L - 1
      /\ \A i \in 1..(L - 1) : p[i] = x[i]
      /\ IsPrefix(p, x) /\ p # x
    BY Parent
<1>2. /\ Len(n) \in Nat /\ L - 1 <= Len(n) /\ \A i \in 1..(L - 1) : p[i] = n[i]
    BY <1>1, NameFacts, PrefixMeans
<1>3. /\ stack \in Seq(ZoneNames) /\ Len(stack) = Len(n) + 1 /\ DOMAIN stack = 1..(Len(n) + 1)
      /\ \A k \in 1..(Len(n) + 1) : stack[k] = SubSeq(n, 1, k - 1)
    BY DEF Stacked
<1> HIDE DEF stack, L, p
<1>4. ASSUME NEW k \in 1..L
      PROVE  k \in 1..(Len(n) + 1) /\ stack[k] = SubSeq(x, 1, k - 1) /\ stack[k] \in ZoneNames
    <2>1. k \in 1..(Len(n) + 1) /\ k - 1 \in 0..Len(n) /\ k - 1 \in 0..Len(x) /\ k - 1 <= L - 1
        BY <1>1, <1>2 DEF L
    <2> DEFINE a == SubSeq(n, 1, k - 1)
               b == SubSeq(x, 1, k - 1)
    <2>2. /\ a \in ZoneNames /\ Len(a) = k - 1 /\ \A i \in 1..(k - 1) : a[i] = n[i]
          /\ b \in ZoneNames /\ Len(b) = k - 1 /\ \A i \in 1..(k - 1) : b[i] = x[i]
        BY <2>1, Ancestor
    <2>3. \A i \in 1..(k - 1) : n[i] = x[i]
        BY <1>1, <1>2, <2>1
    <2>4. stack[k] = a
        BY <1>3, <2>1
    <2> HIDE DEF a, b
    <2>5. a = b
        BY <2>2, <2>3, NamesEqual
    <2> QED
        BY <2>1, <2>2, <2>4, <2>5 DEF b
<1>5. stack[L] = p /\ L \in 1..(Len(n) + 1)
    BY <1>1, <1>4
<1>6. L \in above
    BY <1>1, <1>3, <1>5 DEF IsStrictPrefix
<1>7. ASSUME NEW k \in above PROVE k <= L
    <2>1. k \in 1..(Len(n) + 1) /\ IsStrictPrefix(stack[k], x) /\ k - 1 \in 0..Len(n)
        BY <1>2, <1>3
    <2>2. stack[k] = SubSeq(n, 1, k - 1) /\ Len(SubSeq(n, 1, k - 1)) = k - 1 /\ stack[k] \in ZoneNames
        BY <1>3, <2>1, Ancestor
    <2>3. IsPrefix(stack[k], x) /\ stack[k] # x
        BY <2>1 DEF IsStrictPrefix
    <2>4. Len(stack[k]) <= L /\ Len(stack[k]) # L
        BY <2>2, <2>3, PrefixMeans, PrefixOrder DEF L
    <2>5. k - 1 <= L /\ k - 1 # L
        BY <2>2, <2>4
    <2> QED
        BY <1>1, <1>2, <2>1, <2>5
<1>8. Max(above) = L
    <2>1. above \in SUBSET (0..(Len(n) + 1)) /\ above # {} /\ Len(n) + 1 \in Nat
        BY <1>2, <1>3, <1>6
    <2>2. Max(above) \in above /\ \A y \in above : y <= Max(above)
        BY <2>1, Greatest
    <2>3. Max(above) <= L /\ L <= Max(above) /\ Max(above) \in 0..(Len(n) + 1)
        BY <1>6, <1>7, <2>1, <2>2
    <2> HIDE DEF above
    <2> QED
        BY <1>1, <1>2, <2>3
<1>9. PopTo(stack, x) = popped
    BY <1>6, <1>8 DEF PopTo
<1>10. /\ popped \in Seq(ZoneNames) /\ Len(popped) = L
       /\ \A k \in 1..L : popped[k] = stack[k]
    <2>1. \A k \in 1..L : stack[k] \in ZoneNames
        BY <1>4
    <2>2. /\ SubSeq(stack, 1, L) \in Seq(ZoneNames)
          /\ Len(SubSeq(stack, 1, L)) = IF 1 <= L THEN L - 1 + 1 ELSE 0
          /\ \A k \in 1..(L - 1 + 1) : SubSeq(stack, 1, L)[k] = stack[1 + k - 1]
        BY <1>1, <2>1, SubSeqProperties
    <2>3. L - 1 + 1 = L /\ \A k \in 1..L : 1 + k - 1 = k
        BY <1>1
    <2> QED
        BY <1>1, <2>2, <2>3
<1> HIDE DEF popped
<1>11. popped # <<>> /\ Last(popped) = p
    BY <1>1, <1>5, <1>10 DEF Last
<1>12. /\ Visit(nodes, acc, x).ancestry = Append(popped, x)
       /\ Visit(nodes, acc, x).cut_of =
             Put(acc.cut_of, x, IF Has(nodes[x], "NS") THEN x ELSE acc.cut_of[p])
    BY <1>9, <1>11 DEF Visit, stack
<1>13. /\ Append(popped, x) \in Seq(ZoneNames) /\ Len(Append(popped, x)) = L + 1
       /\ \A k \in 1..L : Append(popped, x)[k] = popped[k]
       /\ Append(popped, x)[L + 1] = x
    BY <1>10, AppendProperties
<1>14. ASSUME NEW k \in 1..(L + 1) PROVE Append(popped, x)[k] = SubSeq(x, 1, k - 1)
    <2>1. CASE k \in 1..L
        BY <1>4, <1>10, <1>13, <2>1
    <2>2. CASE k = L + 1
        <3>1. k - 1 = Len(x)
            BY <1>1, <2>2 DEF L
        <3> QED
            BY <1>13, <2>2, <3>1, WholeName
    <2>3. k \in 1..L \/ k = L + 1
        BY <1>1
    <2> QED
        BY <2>1, <2>2, <2>3
<1> QED
    BY <1>12, <1>13, <1>14 DEF Stacked, L, p

\* The first visit is the apex.
LEMMA VisitApex ==
    ASSUME NEW nodes, NEW acc, acc = [ancestry |-> <<>>, cut_of |-> <<>>]
    PROVE  /\ Stacked(Visit(nodes, acc, Apex).ancestry, Apex)
           /\ Visit(nodes, acc, Apex).cut_of = Put(<<>>, Apex, NoCut)
<1>1. acc.ancestry = <<>> /\ acc.cut_of = <<>>
    OBVIOUS
<1>2. {k \in DOMAIN <<>> : IsStrictPrefix(<<>>[k], Apex)} = {} /\ SubSeq(<<>>, 1, 0) = <<>>
    BY SubSeqEmpty
<1>3. PopTo(<<>>, Apex) = <<>>
    BY <1>2 DEF PopTo
<1>4. /\ Visit(nodes, acc, Apex).ancestry = Append(<<>>, Apex)
      /\ Visit(nodes, acc, Apex).cut_of = Put(<<>>, Apex, NoCut)
    BY <1>1, <1>3 DEF Visit
<1>5. Apex \in ZoneNames /\ Len(Apex) = 0 /\ <<>> \in Seq(ZoneNames) /\ Len(<<>>) = 0
    BY DEF Apex, ZoneNames
<1>6. /\ Append(<<>>, Apex) \in Seq(ZoneNames) /\ Len(Append(<<>>, Apex)) = 1
      /\ Append(<<>>, Apex)[1] = Apex
    BY <1>5, AppendProperties
<1>7. SubSeq(Apex, 1, 0) = Apex
    BY <1>5, SubSeqEmpty DEF Apex
<1>8. Stacked(Append(<<>>, Apex), Apex)
    <2>1. 1..(Len(Apex) + 1) = {1} /\ 1 - 1 = 0 /\ Len(Apex) + 1 = 1
        BY <1>5
    <2> QED
        BY <1>6, <1>7, <2>1 DEF Stacked
<1> QED
    BY <1>4, <1>8

\* A tree of nodes: finite, with the apex and every ancestor of a node.
IsTree(names) ==
    /\ names \in SUBSET ZoneNames /\ IsFiniteSet(names) /\ Apex \in names
    /\ \A n \in names : \A m \in ZoneNames : IsPrefix(m, n) => m \in names

\* The cut of a node: itself if it is delegated, or else that of its parent.
CutRule(nodes, cut, n) ==
    cut[n] = IF n = Apex THEN NoCut ELSE IF Has(nodes[n], "NS") THEN n ELSE cut[Front(n)]

\* In canonical order the apex comes first, and the parent of the next name is
\* an ancestor of the last, or it.
LEMMA OrderOfTree ==
    ASSUME NEW names, IsTree(names)
    PROVE  LET order == CanonicalOrder(names) IN
           /\ Len(order) \in Nat \ {0} /\ order[1] = Apex
           /\ \A i \in 1..Len(order) : i > 1 =>
                 /\ order[i] # Apex /\ order[i - 1] \in ZoneNames
                 /\ IsPrefix(Front(order[i]), order[i - 1])
                 /\ \E j \in 1..(i - 1) : order[j] = Front(order[i])
<1> DEFINE order == CanonicalOrder(names)
           N == Len(order)
<1>1. /\ N \in Nat /\ \A i \in 1..N : order[i] \in names
      /\ \A n \in names : \E i \in 1..N : order[i] = n
      /\ \A i, j \in 1..N : i < j <=> Precedes(order[i], order[j])
    BY OrderEnumerates DEF IsTree
<1> HIDE DEF order
<1>2. Apex \in names /\ names \subseteq ZoneNames /\ Apex \in ZoneNames /\ Len(Apex) = 0
    BY DEF IsTree, Apex, ZoneNames
<1> HIDE DEF N
<1>3. PICK a \in 1..N : order[a] = Apex
    BY <1>1, <1>2
<1>4. \A m \in ZoneNames : ~Precedes(m, Apex)
    <2> SUFFICES ASSUME NEW m \in ZoneNames, Precedes(m, Apex) PROVE FALSE
        OBVIOUS
    <2>1. Len(m) \in Nat
        BY NameFacts
    <2>2. Len(m) < 0 \/ \E i \in 1..Len(m) : i <= 0
        BY <1>2, PrecedesMeans
    <2> QED
        BY <2>1, <2>2
<1>5. a = 1
    <2>1. 1 \in 1..N /\ order[1] \in ZoneNames
        BY <1>1, <1>2, <1>3
    <2>2. ~(1 < a)
        BY <1>1, <1>3, <1>4, <2>1
    <2> QED
        BY <1>1, <2>2
<1>6. ASSUME NEW i \in 1..N, i > 1
      PROVE  /\ order[i] # Apex /\ order[i - 1] \in ZoneNames
             /\ IsPrefix(Front(order[i]), order[i - 1])
             /\ \E j \in 1..(i - 1) : order[j] = Front(order[i])
    <2> DEFINE x == order[i]
               n == order[i - 1]
               p == Front(x)
    <2>1. i - 1 \in 1..N /\ i - 1 < i /\ 1 \in 1..N
        BY <1>1, <1>6
    <2>2. x \in names /\ x \in ZoneNames /\ n \in names /\ n \in ZoneNames /\ Precedes(n, x)
        BY <1>1, <1>2, <2>1
    <2>3. x # Apex
        <3>1. 1 < i
            BY <1>6
        <3>2. Precedes(order[1], x)
            BY <1>1, <2>1, <3>1
        <3> QED
            BY <1>2, <1>3, <1>5, <3>2, PrecedesIrreflexive
    <2>4. p \in ZoneNames /\ IsPrefix(p, x) /\ p # x
        BY <2>2, <2>3, Parent
    <2>5. p \in names
        BY <2>2, <2>4 DEF IsTree
    <2>6. PICK j \in 1..N : order[j] = p
        BY <1>1, <2>5
    <2>7. Precedes(p, x)
        BY <2>2, <2>4, PrefixPrecedes
    <2>8. j < i
        BY <1>1, <2>6, <2>7
    <2>9. j \in 1..(i - 1)
        BY <1>1, <2>8
    <2>10. IsPrefix(p, n)
        <3>1. CASE j = i - 1
            BY <2>4, <2>6, <3>1, PrefixOrder
        <3>2. CASE j # i - 1
            <4>1. j < i - 1
                BY <1>1, <2>9, <3>2
            <4>2. Precedes(p, n)
                BY <1>1, <2>1, <2>6, <4>1
            <4> HIDE DEF p, n, x
            <4> QED
                BY <2>2, <2>4, <4>2, Contiguous
        <3> QED
            BY <3>1, <3>2
    <2> QED
        BY <2>2, <2>3, <2>6, <2>9, <2>10
<1> QED
    BY <1>1, <1>3, <1>5, <1>6 DEF order, N

\* The pass gives every node the cut of the rule.
LEMMA LayoutCuts ==
    ASSUME NEW nodes, IsTree(DOMAIN nodes)
    PROVE  /\ DOMAIN layout(nodes) = DOMAIN nodes
           /\ \A n \in DOMAIN nodes : CutRule(nodes, layout(nodes), n)
<1> DEFINE order == CanonicalOrder(DOMAIN nodes)
           N == Len(order)
           pass == CHOOSE h : Passes(h, nodes, order, N)
<1>1. layout(nodes) = pass[N].cut_of
    BY DEF layout, Passes
<1>2. /\ N \in Nat \ {0} /\ order[1] = Apex
      /\ \A i \in 1..N : i > 1 =>
            /\ order[i] # Apex /\ order[i - 1] \in ZoneNames
            /\ IsPrefix(Front(order[i]), order[i - 1])
            /\ \E j \in 1..(i - 1) : order[j] = Front(order[i])
    BY OrderOfTree
<1>3. /\ \A i \in 1..N : order[i] \in DOMAIN nodes
      /\ \A n \in DOMAIN nodes : \E i \in 1..N : order[i] = n
      /\ \A i, j \in 1..N : i < j <=> Precedes(order[i], order[j])
    BY OrderEnumerates DEF IsTree
<1> HIDE DEF order, N
<1>4. Passes(pass, nodes, order, N)
    BY <1>2, PassesExist
<1> HIDE DEF pass
<1>5. /\ pass[0] = [ancestry |-> <<>>, cut_of |-> <<>>]
      /\ \A i \in 1..N : pass[i] = Visit(nodes, pass[i - 1], order[i])
    BY <1>2, <1>4 DEF Passes
<1> DEFINE Good(i) == /\ Stacked(pass[i].ancestry, order[i])
                      /\ DOMAIN pass[i].cut_of = {order[j] : j \in 1..i}
                      /\ \A j \in 1..i : CutRule(nodes, pass[i].cut_of, order[j])
           S == {i \in Nat : i + 1 <= N => Good(i + 1)}
<1>6. 0 \in S
    <2>1. pass[1] = Visit(nodes, pass[0], Apex)
        BY <1>2, <1>5
    <2>2. Stacked(pass[1].ancestry, Apex) /\ pass[1].cut_of = Put(<<>>, Apex, NoCut)
        BY <1>5, <2>1, VisitApex
    <2>3. DOMAIN pass[1].cut_of = {Apex} /\ pass[1].cut_of[Apex] = NoCut
        BY <2>2 DEF Put
    <2>4. CutRule(nodes, pass[1].cut_of, Apex)
        BY <2>3 DEF CutRule
    <2>5. 1..1 = {1} /\ 0 + 1 = 1
        OBVIOUS
    <2>6. Good(1)
        <3>1. Stacked(pass[1].ancestry, order[1])
            BY <1>2, <2>2
        <3>2. {order[j] : j \in 1..1} = {Apex}
            BY <1>2, <2>5
        <3>3. \A j \in 1..1 : CutRule(nodes, pass[1].cut_of, order[j])
            BY <1>2, <2>4, <2>5
        <3> QED
            BY <2>3, <3>1, <3>2, <3>3
    <2> HIDE DEF Good
    <2> QED
        BY <2>5, <2>6
<1>7. ASSUME NEW i0 \in Nat, i0 \in S PROVE i0 + 1 \in S
    <2> DEFINE i == i0 + 1
    <2>1. i \in Nat \ {0} /\ (i <= N => Good(i)) /\ i0 + 1 = i
        BY <1>7
    <2> HIDE DEF i
    <2>2. ASSUME i + 1 <= N PROVE Good(i + 1)
        <3> DEFINE x == order[i + 1]
                   old == pass[i].cut_of
                   new == pass[i + 1].cut_of
        <3>1. i \in 1..N /\ i + 1 \in 1..N /\ i + 1 > 1 /\ (i + 1) - 1 = i
            BY <1>2, <2>1, <2>2
        <3>2. /\ x # Apex /\ order[i] \in ZoneNames /\ IsPrefix(Front(x), order[i]) /\ x \in ZoneNames
              /\ \E j \in 1..i : order[j] = Front(x)
            BY <1>2, <1>3, <3>1 DEF IsTree
        <3>3. Good(i)
            BY <1>2, <2>1, <3>1
        <3>4. pass[i + 1] = Visit(nodes, pass[i], x)
            BY <1>5, <3>1
        <3>5. /\ Stacked(pass[i + 1].ancestry, x)
              /\ new = Put(old, x, IF Has(nodes[x], "NS") THEN x ELSE old[Front(x)])
            <4> HIDE DEF x
            <4>1. Stacked(pass[i].ancestry, order[i])
                BY <3>3
            <4> DEFINE acc == pass[i]
                       n == order[i]
            <4>2. /\ Stacked(Visit(nodes, acc, x).ancestry, x)
                  /\ Visit(nodes, acc, x).cut_of =
                        Put(acc.cut_of, x, IF Has(nodes[x], "NS") THEN x ELSE acc.cut_of[Front(x)])
                <5>1. Stacked(acc.ancestry, n) /\ n \in ZoneNames /\ IsPrefix(Front(x), n)
                    BY <3>2, <4>1
                <5>2. x \in ZoneNames /\ x # Apex
                    BY <3>2
                <5> HIDE DEF acc, n
                <5> QED
                    BY <5>1, <5>2, VisitStep
            <4> QED
                BY <3>4, <4>2
        <3>6. ASSUME NEW j \in 1..i PROVE order[j] # x
            <4>1. j \in 1..N /\ j < i + 1 /\ order[j] \in ZoneNames
                BY <1>2, <1>3, <3>1 DEF IsTree
            <4>2. Precedes(order[j], x)
                BY <1>3, <3>1, <4>1
            <4> QED
                BY <4>1, <4>2, PrecedesIrreflexive
        <3> HIDE DEF x, old, new
        <3>7. /\ DOMAIN new = DOMAIN old \cup {x}
              /\ new[x] = IF Has(nodes[x], "NS") THEN x ELSE old[Front(x)]
              /\ \A m \in DOMAIN old : m # x => new[m] = old[m]
            BY <3>5 DEF Put
        <3>8. DOMAIN old = {order[j] : j \in 1..i} /\ \A j \in 1..i : CutRule(nodes, old, order[j])
            BY <3>3 DEF old
        <3>9. 1..(i + 1) = 1..i \cup {i + 1} /\ order[i + 1] = x
            BY <2>1 DEF x
        <3>10. DOMAIN new = {order[j] : j \in 1..(i + 1)}
            BY <3>7, <3>8, <3>9
        <3>11. \A j \in 1..i : new[order[j]] = old[order[j]]
            BY <3>6, <3>7, <3>8
        <3>12. ASSUME NEW j \in 1..i PROVE CutRule(nodes, new, order[j])
            <4>1. CutRule(nodes, old, order[j])
                BY <3>8
            <4>2. CASE order[j] = Apex
                BY <3>11, <4>1, <4>2 DEF CutRule
            <4>3. CASE order[j] # Apex
                <5>1. j \in 1..N /\ j # 1 /\ j > 1
                    BY <1>2, <3>1, <4>3
                <5>2. PICK k \in 1..(j - 1) : order[k] = Front(order[j])
                    BY <1>2, <5>1
                <5>3. k \in 1..i
                    BY <2>1, <5>1
                <5>4. new[Front(order[j])] = old[Front(order[j])]
                    BY <3>11, <5>2, <5>3
                <5> QED
                    BY <3>11, <4>1, <4>3, <5>4 DEF CutRule
            <4> QED
                BY <4>2, <4>3
        <3>13. CutRule(nodes, new, x)
            <4>1. new[Front(x)] = old[Front(x)]
                BY <3>2, <3>11
            <4> QED
                BY <3>2, <3>7, <4>1 DEF CutRule
        <3>14. \A j \in 1..(i + 1) : CutRule(nodes, new, order[j])
            BY <3>9, <3>12, <3>13
        <3> QED
            BY <3>5, <3>9, <3>10, <3>14 DEF new
    <2> HIDE DEF Good
    <2>3. i \in S
        BY <2>1, <2>2
    <2> QED
        BY <2>1, <2>3
<1> HIDE DEF S
<1>8. \A i \in Nat : i \in S
    BY <1>6, <1>7, NatSetInduction
<1>9. Good(N)
    <2>1. N - 1 \in Nat /\ (N - 1) + 1 = N
        BY <1>2
    <2>2. N - 1 \in S
        BY <1>8, <2>1
    <2>3. (N - 1) + 1 <= N => Good((N - 1) + 1)
        BY <2>2 DEF S
    <2> HIDE DEF Good
    <2> QED
        BY <1>2, <2>1, <2>3
<1>10. DOMAIN layout(nodes) = DOMAIN nodes
    BY <1>1, <1>3, <1>9
<1>11. \A n \in DOMAIN nodes : CutRule(nodes, layout(nodes), n)
    BY <1>1, <1>3, <1>9
<1> QED
    BY <1>10, <1>11

-----------------------------------------------------------------------------
(* What a node declares. *)

\* Records by the triple they come from.
RecordOf(owner, rtype, ttl, v) == [owner |-> owner, rtype |-> rtype, ttl |-> ttl, data |-> v]

Says(triples, t, o, x) == \E ttl, v : <<t, ttl, v>> \in triples /\ x = RecordOf(o, t, ttl, v)

LEMMA DeclaredMeans ==
    ASSUME NEW n, NEW t, NEW o, NEW x
    PROVE  x \in Declared(n, t, o) <=> Says(Accepted(n), t, o, x)
<1>1. x \in Declared(n, t, o) <=>
          \E s \in accepted : /\ s.owner = n /\ s.rtype = t
                              /\ \E v \in ToSet(s.values) : x = RecordOf(o, t, s.ttl, v)
    BY DEF Declared, RecordOf
<1>2. ASSUME NEW ttl, NEW v
      PROVE  <<t, ttl, v>> \in Accepted(n) <=>
                \E s \in accepted : /\ s.owner = n /\ s.rtype = t /\ s.ttl = ttl
                                    /\ v \in ToSet(s.values)
    BY DEF Accepted
<1>3. ASSUME x \in Declared(n, t, o)
      PROVE  \E ttl, v : <<t, ttl, v>> \in Accepted(n) /\ x = RecordOf(o, t, ttl, v)
    <2>1. PICK s \in accepted : /\ s.owner = n /\ s.rtype = t
                                /\ \E v \in ToSet(s.values) : x = RecordOf(o, t, s.ttl, v)
        BY <1>1, <1>3
    <2>2. PICK v \in ToSet(s.values) : x = RecordOf(o, t, s.ttl, v)
        BY <2>1
    <2>3. <<t, s.ttl, v>> \in Accepted(n)
        BY <1>2, <2>1
    <2> QED
        BY <2>2, <2>3
<1>4. ASSUME NEW ttl, NEW v, <<t, ttl, v>> \in Accepted(n), x = RecordOf(o, t, ttl, v)
      PROVE  x \in Declared(n, t, o)
    <2>1. PICK s \in accepted : s.owner = n /\ s.rtype = t /\ s.ttl = ttl /\ v \in ToSet(s.values)
        BY <1>2, <1>4
    <2> QED
        BY <1>1, <1>4, <2>1
<1> QED
    BY <1>3, <1>4 DEF Says

LEMMA RecordsMean ==
    ASSUME NEW runs, NEW t, NEW o, NEW x
    PROVE  x \in NodeRecords(runs, t, o) <=> Says(InRuns(runs), t, o, x)
<1>1. x \in NodeRecords(runs, t, o) <=>
          \E r \in ToSet(runs) : /\ r.rtype = t
                                 /\ \E v \in ToSet(r.rdata) : x = RecordOf(o, t, r.ttl, v)
    BY DEF NodeRecords, RunRecords, RecordOf
<1>2. ASSUME NEW ttl, NEW v
      PROVE  <<t, ttl, v>> \in InRuns(runs) <=>
                \E r \in ToSet(runs) : r.rtype = t /\ r.ttl = ttl /\ v \in ToSet(r.rdata)
    BY DEF InRuns
<1>3. ASSUME x \in NodeRecords(runs, t, o)
      PROVE  \E ttl, v : <<t, ttl, v>> \in InRuns(runs) /\ x = RecordOf(o, t, ttl, v)
    <2>1. PICK r \in ToSet(runs) : /\ r.rtype = t
                                   /\ \E v \in ToSet(r.rdata) : x = RecordOf(o, t, r.ttl, v)
        BY <1>1, <1>3
    <2>2. PICK v \in ToSet(r.rdata) : x = RecordOf(o, t, r.ttl, v)
        BY <2>1
    <2>3. <<t, r.ttl, v>> \in InRuns(runs)
        BY <1>2, <2>1
    <2> QED
        BY <2>2, <2>3
<1>4. ASSUME NEW ttl, NEW v, <<t, ttl, v>> \in InRuns(runs), x = RecordOf(o, t, ttl, v)
      PROVE  x \in NodeRecords(runs, t, o)
    <2>1. PICK r \in ToSet(runs) : r.rtype = t /\ r.ttl = ttl /\ v \in ToSet(r.rdata)
        BY <1>2, <1>4
    <2> QED
        BY <1>1, <1>4, <2>1
<1> QED
    BY <1>3, <1>4 DEF Says

AnyValue == UNION {ToSet(b.values) : b \in Blocks}

\* A node emits exactly the records the file declares for it.
LEMMA NodeDeclares ==
    ASSUME BuildInv, NEW n \in DOMAIN Tree, NEW t, NEW o
    PROVE  /\ IsRuns(Tree[n], Runs, AnyValue)
           /\ NodeRecords(Tree[n], t, o) = Declared(n, t, o)
           /\ ToSet(emit(Tree[n], t, o)) = Declared(n, t, o)
           /\ Has(Tree[n], t) <=> Declared(n, t, o) # {}
<1>1. /\ Tree[n] \in Seq(Runs)
      /\ \A r \in ToSet(Tree[n]) : r.rdata # <<>>
      /\ InRuns(Tree[n]) = Accepted(n)
    BY TreeHolds
<1>2. IsRuns(Tree[n], Runs, AnyValue)
    BY <1>1, RunFacts DEF IsRuns, AnyValue
<1>3. NodeRecords(Tree[n], t, o) = Declared(n, t, o)
    <2>1. ASSUME NEW x PROVE x \in NodeRecords(Tree[n], t, o) <=> x \in Declared(n, t, o)
        <3>1. x \in NodeRecords(Tree[n], t, o) <=> Says(InRuns(Tree[n]), t, o, x)
            BY RecordsMean
        <3>2. x \in Declared(n, t, o) <=> Says(Accepted(n), t, o, x)
            BY DeclaredMeans
        <3> QED
            BY <1>1, <3>1, <3>2
    <2> QED
        BY <2>1
<1>4. ToSet(emit(Tree[n], t, o)) = NodeRecords(Tree[n], t, o)
    BY <1>2, Emitted
<1>5. Has(Tree[n], t) <=> \E r \in ToSet(Tree[n]) : r.rtype = t
    BY DEF Has, ToSet
<1>6. ASSUME NEW r \in ToSet(Tree[n]), r.rtype = t PROVE NodeRecords(Tree[n], t, o) # {}
    <2>1. r \in Runs /\ r.rdata # <<>>
        BY <1>1 DEF ToSet
    <2>2. r.rdata \in Seq(AnyValue)
        BY <2>1, RunFacts DEF AnyValue
    <2>3. PICK v \in ToSet(r.rdata) : TRUE
        BY <2>1, <2>2, EmptyHoldsNothing
    <2>4. RecordOf(o, t, r.ttl, v) \in NodeRecords(Tree[n], t, o)
        BY <1>6 DEF NodeRecords, RunRecords, RecordOf
    <2> QED
        BY <2>4
<1>7. ASSUME NodeRecords(Tree[n], t, o) # {} PROVE \E r \in ToSet(Tree[n]) : r.rtype = t
    BY <1>7 DEF NodeRecords
<1> QED
    BY <1>2, <1>3, <1>4, <1>5, <1>6, <1>7

\* What is not a node declares nothing.
LEMMA NothingDeclared ==
    ASSUME BuildInv, NEW n, n \notin DOMAIN Tree, NEW t, NEW o
    PROVE  Declared(n, t, o) = {}
<1>1. \A s \in accepted : s.owner # n
    <2> SUFFICES ASSUME NEW s \in accepted PROVE s.owner \in DOMAIN Tree
        OBVIOUS
    <2>1. s.owner \in ZoneNames /\ IsPrefix(s.owner, s.owner)
        BY OwnerFacts, PrefixOrder
    <2>2. InTree(s.owner)
        BY <2>1 DEF InTree
    <2> QED
        BY <2>1, <2>2, TreeShape
<1> QED
    BY <1>1 DEF Declared

\* The owner of the answer does not matter to whether there is one.
LEMMA DeclaredForAny ==
    ASSUME NEW n, NEW t, NEW o, NEW p
    PROVE  Declared(n, t, o) = {} <=> Declared(n, t, p) = {}
<1>1. ASSUME NEW a PROVE Declared(n, t, a) # {} <=> \E ttl, v : <<t, ttl, v>> \in Accepted(n)
    <2>1. ASSUME NEW ttl, NEW v, <<t, ttl, v>> \in Accepted(n) PROVE Declared(n, t, a) # {}
        <3>1. RecordOf(a, t, ttl, v) \in Declared(n, t, a)
            BY <2>1, DeclaredMeans DEF Says
        <3> QED
            BY <3>1
    <2>2. ASSUME NEW x \in Declared(n, t, a) PROVE \E ttl, v : <<t, ttl, v>> \in Accepted(n)
        <3>1. \E ttl, v : <<t, ttl, v>> \in Accepted(n) /\ x = RecordOf(a, t, ttl, v)
            BY DeclaredMeans DEF Says
        <3> QED
            BY <3>1
    <2> QED
        BY <2>1, <2>2
<1> QED
    BY <1>1

LEMMA TreeIsTree == BuildInv => IsTree(DOMAIN Tree)
BY TreeShape DEF IsTree

-----------------------------------------------------------------------------
(* Cuts. *)

Cut == layout(Tree)

\* The cut of a node is a delegation at or above it, if there is one, and then
\* its own cut.
LEMMA CutIsAbove ==
    ASSUME BuildInv
    PROVE  \A n \in DOMAIN Tree :
              \/ CutsAbove(n) = {} /\ Cut[n] = NoCut
              \/ Cut[n] \in CutsAbove(n) /\ Cut[n] \in DOMAIN Tree /\ Cut[Cut[n]] = Cut[n]
<1> DEFINE Right(n) == \/ CutsAbove(n) = {} /\ Cut[n] = NoCut
                       \/ Cut[n] \in CutsAbove(n) /\ Cut[n] \in DOMAIN Tree /\ Cut[Cut[n]] = Cut[n]
           S == {d \in Nat : \A n \in DOMAIN Tree : Len(n) = d => Right(n)}
<1>1. IsTree(DOMAIN Tree)
    BY TreeIsTree
<1>2. \A n \in DOMAIN Tree : CutRule(Tree, Cut, n)
    BY <1>1, LayoutCuts DEF Cut
<1>3. DOMAIN Tree \subseteq ZoneNames /\ Apex \in ZoneNames /\ Len(Apex) = 0
    BY <1>1 DEF IsTree, Apex, ZoneNames
<1>4. \A n \in DOMAIN Tree : Has(Tree[n], "NS") <=> Declared(n, "NS", n) # {}
    BY NodeDeclares
<1>5. ASSUME NEW n \in ZoneNames, NEW c
      PROVE  c \in CutsAbove(n) <=>
                c \in ZoneNames /\ IsPrefix(c, n) /\ c # Apex /\ Declared(c, "NS", c) # {}
    BY PrefixesAre DEF CutsAbove
<1>6. 0 \in S
    <2> SUFFICES ASSUME NEW n \in DOMAIN Tree, Len(n) = 0 PROVE Right(n)
        BY DEF S
    <2>1. n = Apex
        BY <1>3, NamesEqual
    <2>2. \A c \in ZoneNames : IsPrefix(c, Apex) => c = Apex
        <3> SUFFICES ASSUME NEW c \in ZoneNames, IsPrefix(c, Apex) PROVE c = Apex
            OBVIOUS
        <3>1. Len(c) \in Nat /\ Len(c) <= 0
            BY <1>3, NameFacts, PrefixMeans
        <3> QED
            BY <1>3, <3>1, PrefixOrder
    <2>3. CutsAbove(n) = {}
        BY <1>3, <1>5, <2>1, <2>2
    <2>4. Cut[n] = NoCut
        BY <1>2, <2>1 DEF CutRule
    <2> QED
        BY <2>3, <2>4
<1>7. ASSUME NEW d \in Nat, d \in S PROVE d + 1 \in S
    <2> SUFFICES ASSUME NEW n \in DOMAIN Tree, Len(n) = d + 1 PROVE Right(n)
        BY DEF S
    <2>1. n # Apex /\ n \in ZoneNames
        BY <1>3
    <2>2. CASE Has(Tree[n], "NS")
        <3>1. Cut[n] = n
            BY <1>2, <2>1, <2>2 DEF CutRule
        <3>2. n \in CutsAbove(n)
            BY <1>4, <1>5, <2>1, <2>2, PrefixOrder
        <3> QED
            BY <3>1, <3>2
    <2>3. CASE ~Has(Tree[n], "NS")
        <3> DEFINE p == Front(n)
        <3>1. p \in ZoneNames /\ Len(p) = d /\ IsPrefix(p, n) /\ p # n /\ Len(n) = Len(p) + 1
            BY <2>1, Parent
        <3>2. p \in DOMAIN Tree
            BY <1>1, <3>1 DEF IsTree
        <3>3. Cut[n] = Cut[p]
            BY <1>2, <2>1, <2>3 DEF CutRule
        <3>4. Right(p)
            BY <1>7, <3>1, <3>2
        <3> HIDE DEF p
        <3>5. CutsAbove(n) = CutsAbove(p)
            <4>1. ASSUME NEW c \in CutsAbove(n) PROVE c \in CutsAbove(p)
                <5>1. c \in ZoneNames /\ IsPrefix(c, n) /\ c # Apex /\ Declared(c, "NS", c) # {}
                    BY <1>5, <2>1
                <5>2. c # n
                    BY <1>4, <2>3, <5>1
                <5>3. Len(c) <= Len(p)
                    <6>1. Len(c) \in Nat /\ Len(p) \in Nat /\ Len(c) <= Len(n) /\ Len(c) # Len(n)
                        BY <2>1, <3>1, <5>1, <5>2, NameFacts, PrefixMeans, PrefixOrder
                    <6> QED
                        BY <3>1, <6>1
                <5>4. IsPrefix(c, p)
                    BY <2>1, <3>1, <5>1, <5>3, PrefixOrder
                <5> QED
                    BY <1>5, <3>1, <5>1, <5>4
            <4>2. ASSUME NEW c \in CutsAbove(p) PROVE c \in CutsAbove(n)
                <5>1. c \in ZoneNames /\ IsPrefix(c, p) /\ c # Apex /\ Declared(c, "NS", c) # {}
                    BY <1>5, <3>1
                <5>2. IsPrefix(c, n)
                    BY <2>1, <3>1, <5>1, PrefixOrder
                <5> QED
                    BY <1>5, <2>1, <5>1, <5>2
            <4> QED
                BY <4>1, <4>2
        <3> QED
            BY <3>3, <3>4, <3>5
    <2> QED
        BY <2>2, <2>3
<1> HIDE DEF S, Right
<1>8. \A d \in Nat : d \in S
    BY <1>6, <1>7, NatSetInduction
<1>9. ASSUME NEW n \in DOMAIN Tree PROVE Right(n)
    <2>1. Len(n) \in Nat
        BY <1>3, NameFacts
    <2>2. Len(n) \in S
        BY <1>8, <2>1
    <2> QED
        BY <2>2 DEF S
<1> QED
    BY <1>9 DEF Right

-----------------------------------------------------------------------------
(* The closest encloser. *)

\* The table of n passes of the loop over a window.
Narrows(h, built, name, low, high, n) ==
    h = [i \in 0..n |-> IF i = 0 THEN <<low, high>>
                       ELSE Narrow(built, name, h[i - 1])]

LEMMA NarrowsExist == ASSUME NEW built, NEW name, NEW low, NEW high PROVE \A n \in Nat : \E h : Narrows(h, built, name, low, high, n)
<1> DEFINE Base == <<low, high>>
           Following(x, i) == Narrow(built, name, x)
           S == {n \in Nat : \E h : Narrows(h, built, name, low, high, n)}
<1>1. 0 \in S
    <2> DEFINE h == [i \in 0..0 |-> Base]
    <2>1. \A i \in 0..0 : i = 0
        OBVIOUS
    <2>2. h = [i \in 0..0 |-> IF i = 0 THEN Base ELSE Following(h[i - 1], i)]
        <3> HIDE DEF Base, Following
        <3> QED
            BY <2>1
    <2>3. Narrows(h, built, name, low, high, 0)
        BY <2>2 DEF Narrows
    <2> QED
        BY <2>3
<1>2. ASSUME NEW n \in Nat, n \in S PROVE n + 1 \in S
    <2>1. PICK f : Narrows(f, built, name, low, high, n)
        BY <1>2
    <2>2. \A i \in 0..n : f[i] = IF i = 0 THEN Base ELSE Following(f[i - 1], i)
        BY <2>1 DEF Narrows
    <2> DEFINE h == [i \in 0..(n + 1) |-> IF i = n + 1 THEN Following(f[n], n + 1) ELSE f[i]]
               g == [i \in 0..(n + 1) |-> IF i = 0 THEN Base ELSE Following(h[i - 1], i)]
    <2>3. h = g
        <3> HIDE DEF Base, Following
        <3>1. \A i \in 0..n : h[i] = f[i]
            OBVIOUS
        <3>2. h[n + 1] = Following(f[n], n + 1) /\ DOMAIN h = 0..(n + 1) /\ h = [i \in DOMAIN h |-> h[i]]
            OBVIOUS
        <3>3. DOMAIN g = 0..(n + 1)
              /\ \A i \in 0..(n + 1) : g[i] = IF i = 0 THEN Base ELSE Following(h[i - 1], i)
            OBVIOUS
        <3> HIDE DEF h, g
        <3>4. ASSUME NEW i \in 0..(n + 1) PROVE h[i] = g[i]
            <4>1. CASE i = n + 1
                <5>1. i # 0 /\ i - 1 = n /\ n \in 0..n
                    BY <4>1
                <5>2. g[i] = Following(f[n], i)
                    BY <3>1, <3>3, <5>1
                <5> QED
                    BY <3>2, <4>1, <5>2
            <4>2. CASE i # n + 1
                <5>1. i \in 0..n /\ (i # 0 => i - 1 \in 0..n)
                    BY <4>2
                <5> QED
                    BY <2>2, <3>1, <3>3, <5>1
            <4> QED
                BY <4>1, <4>2
        <3>5. g = [i \in DOMAIN g |-> g[i]]
            BY DEF g
        <3> QED
            BY <3>2, <3>3, <3>4, <3>5
    <2> HIDE DEF h
    <2>4. Narrows(h, built, name, low, high, n + 1)
        BY <2>3 DEF Narrows
    <2> QED
        BY <2>4
<1> HIDE DEF S
<1>3. \A n \in Nat : n \in S
    BY <1>1, <1>2, NatSetInduction
<1> QED
    BY <1>3 DEF S

\* A zone built on a tree, as far as the search looks at it.
OnTree(built, names) ==
    /\ IsTree(names) /\ DOMAIN built.nodes = names
    /\ \A n \in names : Len(n) <= MAX_LABELS
    /\ built.max_depth = Min({MAX_LABELS, Max({Len(n) : n \in names})})

\* The depth d is that of the deepest ancestor of a name in the tree.
Deepest(built, name, d) ==
    /\ d \in 0..(Len(name) - 1)
    /\ node_at(built, name, d)
    /\ \A k \in (d + 1)..Len(name) : ~node_at(built, name, k)

\* One pass keeps the answer in the window and shrinks it.
LEMMA NarrowKeeps ==
    ASSUME NEW built, NEW name, NEW low \in Nat, NEW high \in Nat, low <= high, NEW top \in Nat,
           node_at(built, name, low),
           \A k \in (high + 1)..top : ~node_at(built, name, k),
           \A d, e \in 0..top : d <= e /\ node_at(built, name, e) => node_at(built, name, d)
    PROVE  \E a, b \in Nat :
              /\ Narrow(built, name, <<low, high>>) = <<a, b>> /\ a <= b /\ b <= high
              /\ node_at(built, name, a) /\ \A k \in (b + 1)..top : ~node_at(built, name, k)
              /\ low < high => b - a < high - low
<1> DEFINE mid == low + (high - low + 1) \div 2
<1>1. CASE low >= high
    <2>1. Narrow(built, name, <<low, high>>) = <<low, high>>
        BY <1>1 DEF Narrow
    <2> QED
        BY <1>1, <2>1
<1>2. CASE low < high
    <2>1. mid \in Nat /\ low < mid /\ mid <= high
        BY <1>2
    <2>2. Narrow(built, name, <<low, high>>) =
              IF node_at(built, name, mid) THEN <<mid, high>> ELSE <<low, mid - 1>>
        BY <1>2 DEF Narrow
    <2> HIDE DEF mid
    <2>3. CASE node_at(built, name, mid)
        <3>1. Narrow(built, name, <<low, high>>) = <<mid, high>>
            BY <2>2, <2>3
        <3>2. high - mid < high - low
            BY <2>1
        <3> QED
            BY <2>1, <2>3, <3>1, <3>2
    <2>4. CASE ~node_at(built, name, mid)
        <3>1. Narrow(built, name, <<low, high>>) = <<low, mid - 1>>
            BY <2>2, <2>4
        <3>2. mid - 1 \in Nat /\ low <= mid - 1 /\ mid - 1 <= high /\ (mid - 1) - low < high - low
            BY <2>1
        <3>3. ASSUME NEW k \in ((mid - 1) + 1)..top PROVE ~node_at(built, name, k)
            <4>1. mid \in 0..top /\ k \in 0..top /\ mid <= k
                BY <2>1
            <4> QED
                BY <2>4, <4>1
        <3> QED
            BY <3>1, <3>2, <3>3
    <2> QED
        BY <2>3, <2>4
<1> QED
    BY <1>1, <1>2

\* The loop ends with the deepest ancestor below a ceiling that is no node.
LEMMA BisectFinds ==
    ASSUME NEW built, NEW name, NEW ceiling \in Nat \ {0}, NEW top \in Nat,
           node_at(built, name, 0),
           \A k \in ceiling..top : ~node_at(built, name, k),
           \A d, e \in 0..top : d <= e /\ node_at(built, name, e) => node_at(built, name, d)
    PROVE  LET d == Bisect(built, name, 0, ceiling) IN
           /\ d \in 0..(ceiling - 1) /\ node_at(built, name, d)
           /\ \A k \in (d + 1)..top : ~node_at(built, name, k)
<1> DEFINE w == CHOOSE h : Narrows(h, built, name, 0, ceiling - 1, ceiling)
<1>1. Bisect(built, name, 0, ceiling) = w[ceiling][1]
    BY DEF Bisect, Narrows
<1>2. Narrows(w, built, name, 0, ceiling - 1, ceiling)
    <2>1. \E h : Narrows(h, built, name, 0, ceiling - 1, ceiling)
        BY NarrowsExist
    <2> QED
        BY <2>1
<1> HIDE DEF w
<1>3. /\ w[0] = <<0, ceiling - 1>>
      /\ \A i \in 1..ceiling : w[i] = Narrow(built, name, w[i - 1])
    <2>1. \A i \in 0..ceiling : w[i] = IF i = 0 THEN <<0, ceiling - 1>>
                                       ELSE Narrow(built, name, w[i - 1])
        BY <1>2 DEF Narrows
    <2>2. 0 \in 0..ceiling /\ \A i \in 1..ceiling : i \in 0..ceiling /\ i # 0
        OBVIOUS
    <2> QED
        BY <2>1, <2>2
<1> DEFINE Good(i, a, b) ==
               /\ w[i] = <<a, b>> /\ a <= b /\ b <= ceiling - 1
               /\ node_at(built, name, a)
               /\ \A k \in (b + 1)..top : ~node_at(built, name, k)
               /\ b - a <= ceiling - 1 - i \/ a = b
           S == {i \in Nat : i <= ceiling => \E a, b \in Nat : Good(i, a, b)}
<1>4. 0 \in S
    <2>1. Good(0, 0, ceiling - 1) /\ ceiling - 1 \in Nat
        BY <1>3
    <2> HIDE DEF Good
    <2> QED
        BY <2>1
<1>5. ASSUME NEW i \in Nat, i \in S PROVE i + 1 \in S
    <2>1. ASSUME i + 1 <= ceiling PROVE \E a, b \in Nat : Good(i + 1, a, b)
        <3>1. i <= ceiling /\ i + 1 \in 1..ceiling /\ (i + 1) - 1 = i
            BY <2>1
        <3>2. PICK a \in Nat, b \in Nat : Good(i, a, b)
            BY <1>5, <3>1
        <3>3. w[i + 1] = Narrow(built, name, <<a, b>>)
            BY <1>3, <3>1, <3>2
        <3>4. PICK c \in Nat, d \in Nat :
              /\ Narrow(built, name, <<a, b>>) = <<c, d>> /\ c <= d /\ d <= b
              /\ node_at(built, name, c) /\ \A k \in (d + 1)..top : ~node_at(built, name, k)
              /\ a < b => d - c < b - a
            <4>1. /\ a <= b /\ node_at(built, name, a)
                  /\ \A k \in (b + 1)..top : ~node_at(built, name, k)
                BY <3>2
            <4> HIDE DEF Good, S
            <4> QED
                BY <4>1, NarrowKeeps
        <3>5. d <= ceiling - 1
            BY <3>2, <3>4
        <3>6. d - c <= ceiling - 1 - (i + 1) \/ c = d
            <4>1. CASE a < b
                <5>1. d - c < b - a /\ b - a <= ceiling - 1 - i
                    BY <3>2, <3>4, <4>1
                <5> QED
                    BY <5>1
            <4>2. CASE ~(a < b)
                <5>1. a = b
                    BY <3>2, <4>2
                <5>2. Narrow(built, name, <<a, b>>) = <<a, b>>
                    BY <5>1 DEF Narrow
                <5>3. c = a /\ d = b
                    BY <3>4, <5>2
                <5> QED
                    BY <5>1, <5>3
            <4> QED
                BY <4>1, <4>2
        <3>7. Good(i + 1, c, d)
            BY <3>3, <3>4, <3>5, <3>6
        <3> HIDE DEF Good
        <3> QED
            BY <3>7
    <2> HIDE DEF Good
    <2> QED
        BY <2>1
<1> HIDE DEF S
<1>6. \A i \in Nat : i \in S
    BY <1>4, <1>5, NatSetInduction
<1>7. PICK a \in Nat, b \in Nat : Good(ceiling, a, b)
    <2>1. ceiling \in S
        BY <1>6
    <2> HIDE DEF Good
    <2> QED
        BY <2>1 DEF S
<1>8. a = b /\ w[ceiling][1] = a
    BY <1>7
<1> QED
    BY <1>1, <1>7, <1>8

LEMMA MinOfThree ==
    ASSUME NEW a \in Nat, NEW b \in Nat, NEW c \in Nat
    PROVE  /\ Min({a, b, c}) \in {a, b, c}
           /\ Min({a, b, c}) <= a /\ Min({a, b, c}) <= b /\ Min({a, b, c}) <= c
<1>1. \E x \in {a, b, c} : \A y \in {a, b, c} : x =< y
    <2>1. CASE a <= b /\ a <= c
        BY <2>1
    <2>2. CASE b <= a /\ b <= c
        BY <2>2
    <2>3. CASE c <= a /\ c <= b
        BY <2>3
    <2> QED
        BY <2>1, <2>2, <2>3
<1>2. Min({a, b, c}) \in {a, b, c} /\ \A y \in {a, b, c} : Min({a, b, c}) =< y
    BY <1>1 DEF Min
<1> QED
    BY <1>2

\* The depth of the zone is no less than that of any node.
LEMMA DepthHeld ==
    ASSUME NEW built, NEW names, OnTree(built, names)
    PROVE  built.max_depth \in Nat /\ \A n \in names : Len(n) <= built.max_depth
<1> DEFINE depths == {Len(n) : n \in names}
<1>1. Apex \in names /\ names \in SUBSET ZoneNames
    BY DEF OnTree, IsTree
<1>2. MAX_LABELS \in Nat
    BY NamesAssumption
<1>3. \A n \in names : Len(n) \in 0..MAX_LABELS
    <2>1. \A n \in names : Len(n) \in Nat
        BY <1>1, NameFacts
    <2>2. \A n \in names : Len(n) <= MAX_LABELS
        BY DEF OnTree
    <2> QED
        BY <1>2, <2>1, <2>2
<1>4. depths \in SUBSET (0..MAX_LABELS) /\ depths # {}
    BY <1>1, <1>3
<1>5. built.max_depth = Min({MAX_LABELS, Max(depths)})
    BY DEF OnTree
<1>6. \A n \in names : Len(n) \in depths
    OBVIOUS
<1> HIDE DEF depths
<1>7. Max(depths) \in depths /\ \A x \in depths : x <= Max(depths)
    BY <1>2, <1>4, Greatest
<1>8. Max(depths) \in Nat /\ Max(depths) <= MAX_LABELS
    <2>1. Max(depths) \in 0..MAX_LABELS
        BY <1>4, <1>7
    <2> HIDE DEF Max
    <2> QED
        BY <1>2, <2>1
<1>9. built.max_depth = Max(depths)
    BY <1>2, <1>5, <1>8, MinOfTwo
<1> QED
    BY <1>6, <1>7, <1>8, <1>9

\* For a name that is not a node, closest_encloser finds the deepest ancestor
\* that is one.
LEMMA EncloserFound ==
    ASSUME NEW built, NEW names, OnTree(built, names), NEW name \in ZoneNames, name \notin names
    PROVE  Deepest(built, name, closest_encloser(built, name))
<1> DEFINE L == Len(name)
           M == built.max_depth
           high == encloser_window(built, L)[2]
<1>1. IsTree(names) /\ names \subseteq ZoneNames /\ Apex \in names /\ Apex \in ZoneNames /\ Len(Apex) = 0
    BY DEF OnTree, IsTree, Apex, ZoneNames
<1>2. name # Apex /\ L \in Nat \ {0}
    BY <1>1, Parent
<1>3. MAX_LABELS \in Nat
    BY NamesAssumption
<1>4. M \in Nat /\ \A n \in names : Len(n) <= M
    BY DepthHeld
<1> HIDE DEF M
<1>5. /\ encloser_window(built, L)[1] = 0
      /\ high = Min({L - 1, M, MAX_LABELS})
    BY <1>2 DEF encloser_window, M
<1>6. high \in {L - 1, M, MAX_LABELS} /\ high <= L - 1 /\ high <= M /\ high <= MAX_LABELS
    BY <1>2, <1>3, <1>4, <1>5, MinOfThree
<1>7. ASSUME NEW d \in 0..L
      PROVE  /\ node_at(built, name, d) <=> SubSeq(name, 1, d) \in names
             /\ SubSeq(name, 1, d) \in ZoneNames /\ Len(SubSeq(name, 1, d)) = d
             /\ \A i \in 1..d : SubSeq(name, 1, d)[i] = name[i]
    BY Ancestor DEF node_at, OnTree
<1>8. node_at(built, name, 0)
    <2> DEFINE a == SubSeq(name, 1, 0)
    <2>1. a = Apex
        BY SubSeqEmpty DEF Apex
    <2>2. 0 \in 0..L
        BY <1>2
    <2>3. node_at(built, name, 0) <=> a \in names
        BY <1>7, <2>2
    <2> HIDE DEF a
    <2> QED
        BY <1>1, <2>1, <2>3
<1>9. ~node_at(built, name, L)
    <2> DEFINE a == SubSeq(name, 1, L)
    <2>1. a = name
        BY WholeName
    <2>2. L \in 0..L
        BY <1>2
    <2>3. node_at(built, name, L) <=> a \in names
        BY <1>7, <2>2
    <2> HIDE DEF a
    <2> QED
        BY <2>1, <2>3
<1>10. ASSUME NEW d \in 0..L, NEW e \in 0..L, d <= e, node_at(built, name, e)
       PROVE  node_at(built, name, d)
    <2> DEFINE a == SubSeq(name, 1, d)
               b == SubSeq(name, 1, e)
    <2>1. /\ a \in ZoneNames /\ Len(a) = d /\ \A i \in 1..d : a[i] = name[i]
          /\ b \in ZoneNames /\ Len(b) = e /\ \A i \in 1..e : b[i] = name[i]
          /\ b \in names
        BY <1>7, <1>10
    <2> HIDE DEF a, b
    <2>2. \A i \in 1..d : a[i] = b[i]
        BY <1>2, <1>10, <2>1
    <2>3. IsPrefix(a, b)
        BY <1>10, <2>1, <2>2, PrefixMeans
    <2>4. a \in names
        BY <1>1, <2>1, <2>3 DEF IsTree
    <2> QED
        BY <1>7, <2>4 DEF a
<1>11. ASSUME NEW k \in (high + 1)..L PROVE ~node_at(built, name, k)
    <2>1. high \in Nat /\ k \in 0..L
        BY <1>2, <1>3, <1>4, <1>6
    <2>2. CASE high = L - 1
        BY <1>2, <1>9, <2>1, <2>2
    <2>3. CASE high = M \/ high = MAX_LABELS
        <3>1. k > M \/ k > MAX_LABELS
            BY <1>3, <1>4, <2>1, <2>3
        <3>2. \A n \in names : Len(n) \in Nat /\ Len(n) <= M /\ Len(n) <= MAX_LABELS
            BY <1>1, <1>4, NameFacts DEF OnTree
        <3>3. SubSeq(name, 1, k) \notin names
            <4> DEFINE a == SubSeq(name, 1, k)
            <4>1. Len(a) = k
                BY <1>7, <2>1
            <4> HIDE DEF a
            <4>2. a \notin names
                BY <1>3, <1>4, <2>1, <3>1, <3>2, <4>1
            <4> QED
                BY <4>2 DEF a
        <3> QED
            BY <1>7, <2>1, <3>3
    <2> QED
        BY <1>6, <2>2, <2>3
<1>12. high \in 0..(L - 1)
    BY <1>2, <1>3, <1>4, <1>6
<1>13. closest_encloser(built, name) =
           IF high <= 0 THEN 0
           ELSE IF node_at(built, name, high) THEN high
           ELSE Bisect(built, name, 0, high)
    BY <1>5 DEF closest_encloser, DeepestWithin
<1> HIDE DEF high
<1>14. CASE high <= 0
    <2>1. high = 0 /\ closest_encloser(built, name) = 0
        BY <1>12, <1>13, <1>14
    <2> QED
        BY <1>2, <1>8, <1>11, <2>1 DEF Deepest
<1>15. CASE high > 0 /\ node_at(built, name, high)
    <2>1. closest_encloser(built, name) = high
        BY <1>12, <1>13, <1>15
    <2> QED
        BY <1>11, <1>12, <1>15, <2>1 DEF Deepest
<1>16. CASE high > 0 /\ ~node_at(built, name, high)
    <2> DEFINE d == Bisect(built, name, 0, high)
    <2>1. closest_encloser(built, name) = d
        BY <1>12, <1>13, <1>16
    <2>2. high \in Nat \ {0} /\ \A k \in high..L : ~node_at(built, name, k)
        <3>1. \A k \in high..L : k = high \/ k \in (high + 1)..L
            BY <1>2, <1>12
        <3> QED
            BY <1>11, <1>12, <1>16, <3>1
    <2>3. L \in Nat
        BY <1>2
    <2>4. \A x, y \in 0..L : x <= y /\ node_at(built, name, y) => node_at(built, name, x)
        BY <1>10
    <2> HIDE DEF L
    <2>5. /\ d \in 0..(high - 1) /\ node_at(built, name, d)
          /\ \A k \in (d + 1)..L : ~node_at(built, name, k)
        BY <1>8, <2>2, <2>3, <2>4, BisectFinds
    <2>6. d \in 0..(L - 1)
        BY <1>12, <2>3, <2>5
    <2> QED
        BY <2>1, <2>5, <2>6 DEF Deepest, L
<1> QED
    BY <1>12, <1>14, <1>15, <1>16

-----------------------------------------------------------------------------
(* The served zone. *)

LEMMA ServedFacts ==
    ASSUME BuildInv, Served
    PROVE  /\ DOMAIN zone.nodes = DOMAIN Tree /\ zone.cut = Cut
           /\ \A n \in DOMAIN Tree : zone.nodes[n] = apply_cut(Tree, Cut[n], n)
           /\ \A n \in DOMAIN Tree : Cut[n] = NoCut => zone.nodes[n] = Tree[n]
           /\ OnTree(zone, DOMAIN Tree)
           /\ zone.referrals = build_referrals(zone.nodes, Cut)
           /\ check_invariants(Tree, soa)
<1>1. zone = Finish(scratch, soa, counted) /\ check_invariants(Tree, soa)
    BY DEF BuildInv, Tree
<1> DEFINE kept == [n \in DOMAIN Tree |-> apply_cut(Tree, Cut[n], n)]
<1>2. /\ zone.nodes = kept /\ zone.cut = Cut
      /\ zone.max_depth = Min({MAX_LABELS, Max({Len(n) : n \in DOMAIN Tree})})
      /\ zone.referrals = build_referrals(kept, Cut)
    BY <1>1 DEF Finish, Tree, Cut
<1>3. DOMAIN kept = DOMAIN Tree /\ \A n \in DOMAIN Tree : kept[n] = apply_cut(Tree, Cut[n], n)
    OBVIOUS
<1> HIDE DEF kept
<1>4. \A n \in DOMAIN Tree : Cut[n] = NoCut => apply_cut(Tree, Cut[n], n) = Tree[n]
    BY DEF apply_cut
<1>5. OnTree(zone, DOMAIN Tree)
    BY <1>2, <1>3, TreeIsTree, TreeShape DEF OnTree
<1> QED
    BY <1>1, <1>2, <1>3, <1>4, <1>5

\* What the build refuses, as facts about a node.
LEMMA CheckedNode ==
    ASSUME BuildInv, Served, NEW n \in DOMAIN Tree
    PROVE  /\ \A i, j \in DOMAIN Tree[n] : Tree[n][i].rtype = Tree[n][j].rtype => i = j
           /\ IsWildcard(n) => ~Has(Tree[n], "NS")
           /\ Has(Tree[n], "CNAME") => Len(Tree[n]) = 1
           /\ Len(Values(Tree[n], "CNAME")) <= 1
<1>1. check_invariants(Tree, soa)
    BY ServedFacts
<1> QED
    BY <1>1 DEF check_invariants

LEMMA CutsAboveMeans ==
    ASSUME NEW n \in ZoneNames, NEW c
    PROVE  c \in CutsAbove(n) <=>
              c \in ZoneNames /\ IsPrefix(c, n) /\ c # Apex /\ Declared(c, "NS", c) # {}
BY PrefixesAre DEF CutsAbove

\* The name the search stops at, for a name that is not a node: its longest
\* ancestor in the tree, with the same delegations above it, and the wildcard
\* there.
LEMMA EncloserFacts ==
    ASSUME BuildInv, Served, NEW n \in ZoneNames, n \notin DOMAIN Tree
    PROVE  LET e == EncloserOf(zone, n)
               star == wildcard_node(zone, n)
           IN /\ e \in DOMAIN Tree
              /\ CutsAbove(n) = CutsAbove(e)
              /\ ~InTree(n) /\ SourceOf(n) = star
              /\ InTree(star) <=> star \in DOMAIN Tree
              /\ star \in DOMAIN Tree /\ Cut[e] = NoCut => Cut[star] = NoCut
<1> DEFINE d == closest_encloser(zone, n)
           e == EncloserOf(zone, n)
           star == wildcard_node(zone, n)
           P == {p \in Prefixes(n) : InTree(p)}
<1>1. OnTree(zone, DOMAIN Tree) /\ DOMAIN zone.nodes = DOMAIN Tree
    BY ServedFacts
<1>2. Deepest(zone, n, d)
    BY <1>1, EncloserFound
<1>3. e = SubSeq(n, 1, d) /\ Len(n) \in Nat
    BY NameFacts DEF EncloserOf
<1> HIDE DEF d
<1>4. d \in 0..(Len(n) - 1) /\ SubSeq(n, 1, d) \in DOMAIN Tree
    BY <1>1, <1>2 DEF Deepest, node_at
<1>5. \A k \in (d + 1)..Len(n) : SubSeq(n, 1, k) \notin DOMAIN Tree
    BY <1>1, <1>2 DEF Deepest, node_at
<1>6. d \in 0..Len(n)
    BY <1>3, <1>4
<1>7. e \in DOMAIN Tree /\ e \in ZoneNames /\ Len(e) = d /\ \A i \in 1..d : e[i] = n[i]
    BY <1>3, <1>4, <1>6, Ancestor
<1>8. star = Append(e, "*")
    BY DEF wildcard_node
<1> HIDE DEF e, star
<1>9. IsPrefix(e, n)
    <2>1. Len(e) <= Len(n) /\ \A i \in 1..Len(e) : e[i] = n[i]
        BY <1>3, <1>4, <1>7
    <2> QED
        BY <1>7, <2>1, PrefixMeans
<1>10. DOMAIN Tree = {m \in ZoneNames : InTree(m)}
    BY TreeShape
<1>11. ASSUME NEW p \in ZoneNames, IsPrefix(p, n), p \in DOMAIN Tree
       PROVE  Len(p) <= Len(e) /\ IsPrefix(p, e)
    <2>1. Len(p) \in Nat /\ Len(p) \in 0..Len(n) /\ p = SubSeq(n, 1, Len(p))
        BY <1>11, NameFacts, PrefixesAre
    <2>2. Len(p) <= d
        <3>1. SUFFICES ASSUME Len(p) > d PROVE FALSE
            BY <1>3, <1>4, <2>1
        <3>2. Len(p) \in (d + 1)..Len(n)
            BY <1>3, <1>4, <2>1, <3>1
        <3> QED
            BY <1>5, <1>11, <2>1, <3>2
    <2> QED
        BY <1>7, <1>9, <1>11, <2>2, PrefixOrder
<1>12. CutsAbove(n) = CutsAbove(e)
    <2>1. ASSUME NEW c \in CutsAbove(n) PROVE c \in CutsAbove(e)
        <3>1. c \in ZoneNames /\ IsPrefix(c, n) /\ c # Apex /\ Declared(c, "NS", c) # {}
            BY CutsAboveMeans
        <3>2. c \in DOMAIN Tree
            BY <3>1, NothingDeclared
        <3>3. IsPrefix(c, e)
            BY <1>11, <3>1, <3>2
        <3> QED
            BY <1>7, <3>1, <3>3, CutsAboveMeans
    <2>2. ASSUME NEW c \in CutsAbove(e) PROVE c \in CutsAbove(n)
        <3>1. c \in ZoneNames /\ IsPrefix(c, e) /\ c # Apex /\ Declared(c, "NS", c) # {}
            BY <1>7, CutsAboveMeans
        <3>2. IsPrefix(c, n)
            BY <1>7, <1>9, <3>1, PrefixOrder
        <3> QED
            BY <3>1, <3>2, CutsAboveMeans
    <2> QED
        BY <2>1, <2>2
<1>13. e = Longest(P)
    <2>1. P = {p \in ZoneNames : IsPrefix(p, n) /\ p \in DOMAIN Tree}
        BY <1>10, PrefixesAre
    <2> HIDE DEF P
    <2>2. e \in P /\ \A m \in P : Len(m) <= Len(e)
        BY <1>7, <1>9, <1>11, <2>1
    <2>3. Longest(P) \in P /\ \A m \in P : Len(m) <= Len(Longest(P))
        BY <2>2 DEF Longest
    <2>4. Longest(P) \in ZoneNames /\ IsPrefix(Longest(P), n) /\ Len(Longest(P)) = Len(e)
        <3>1. Longest(P) \in ZoneNames /\ IsPrefix(Longest(P), n)
            BY <2>1, <2>3
        <3>2. Len(Longest(P)) \in Nat /\ Len(e) \in Nat
            BY <1>7, <3>1, NameFacts
        <3>3. Len(e) <= Len(Longest(P)) /\ Len(Longest(P)) <= Len(e)
            BY <2>2, <2>3
        <3> QED
            BY <3>1, <3>2, <3>3
    <2>5. Len(Longest(P)) <= Len(e)
        BY <2>2, <2>3
    <2>6. IsPrefix(Longest(P), e)
        BY <1>7, <1>9, <2>4, <2>5, PrefixOrder
    <2> QED
        BY <1>7, <2>4, <2>6, PrefixOrder
<1>14. ~InTree(n) /\ SourceOf(n) = star
    BY <1>8, <1>10, <1>13 DEF SourceOf
<1>15. ASSUME InTree(star) PROVE star \in ZoneNames
    <2> DEFINE L == (DOMAIN Rank) \cup {"*"}
    <2>1. e \in Seq(L) /\ "*" \in L
        BY <1>7, SeqMonotonic DEF ZoneNames
    <2> HIDE DEF L
    <2>2. star \in Seq(L) /\ Len(star) = Len(e) + 1 /\ Len(e) \in Nat /\ star # <<>>
        BY <1>8, <2>1, AppendProperties, LenProperties
    <2>3. PICK s \in accepted : IsPrefix(star, s.owner)
        BY <1>15, <2>2 DEF InTree, Apex
    <2>4. s.owner \in ZoneNames /\ Len(s.owner) \in Nat
        BY OwnerFacts, NameFacts
    <2>5. SubSeq(star, 1, Len(star)) = star
        BY <2>2, SubSeqFull
    <2>6. Len(star) \in 0..Len(s.owner) /\ star = SubSeq(s.owner, 1, Len(star))
        BY <2>2, <2>3, <2>4, <2>5 DEF IsPrefix
    <2>7. SubSeq(s.owner, 1, Len(star)) \in ZoneNames
        BY <2>4, <2>6, Ancestor
    <2> QED
        BY <2>6, <2>7
<1>16. InTree(star) <=> star \in DOMAIN Tree
    BY <1>10, <1>15
<1>17. ASSUME star \in DOMAIN Tree, Cut[e] = NoCut PROVE Cut[star] = NoCut
    <2> DEFINE L == (DOMAIN Rank) \cup {"*"}
    <2>1. e \in Seq(L) /\ "*" \in L
        BY <1>7, SeqMonotonic DEF ZoneNames
    <2> HIDE DEF L
    <2>2. /\ star \in Seq(L) /\ Len(star) = Len(e) + 1 /\ Len(e) \in Nat /\ star # <<>>
          /\ star[Len(e) + 1] = "*" /\ \A i \in 1..Len(e) : star[i] = e[i]
        BY <1>8, <2>1, AppendProperties, LenProperties
    <2>3. star # Apex /\ IsWildcard(star) /\ star \in ZoneNames
        BY <1>10, <1>17, <2>2 DEF IsWildcard, Last, Apex
    <2>4. Front(star) \in ZoneNames /\ Len(Front(star)) = Len(star) - 1
          /\ \A i \in 1..(Len(star) - 1) : Front(star)[i] = star[i]
        BY <2>3, Parent
    <2>5. Len(star) - 1 = Len(e)
        BY <2>2
    <2>6. Front(star) = e
        BY <1>7, <2>2, <2>4, <2>5, NamesEqual
    <2>7. ~Has(Tree[star], "NS")
        BY <1>17, <2>3, CheckedNode
    <2>8. CutRule(Tree, Cut, star)
        BY <1>17, TreeIsTree, LayoutCuts DEF Cut
    <2> QED
        BY <1>17, <2>3, <2>6, <2>7, <2>8 DEF CutRule
<1> QED
    BY <1>7, <1>12, <1>14, <1>16, <1>17 DEF e, star

\* The values of NS and CNAME records are names.
LEMMA TargetsAreNames ==
    ASSUME BuildInv, NEW n, NEW t \in {"NS", "CNAME"}, NEW ttl, NEW v, <<t, ttl, v>> \in Accepted(n)
    PROVE  v \in ZoneNames \cup {Outside}
<1>1. PICK s \in accepted : s.rtype = t /\ v \in ToSet(s.values)
    BY DEF Accepted
<1>2. s \in Blocks
    BY OwnerFacts
<1> QED
    BY <1>1, <1>2, BlocksAssumption

\* An alias is alone at its node, and has one target.
LEMMA CnameIsAlone ==
    ASSUME BuildInv, Served, NEW n \in DOMAIN Tree, Declared(n, "CNAME", n) # {}
    PROVE  /\ Values(Tree[n], "CNAME")[1] \in ZoneNames \cup {Outside}
           /\ \E ttl : Declared(n, "CNAME", n) =
                          {RecordOf(n, "CNAME", ttl, Values(Tree[n], "CNAME")[1])}
           /\ \A t, o : t # "CNAME" => Declared(n, t, o) = {}
<1> DEFINE runs == Tree[n]
           vals == Values(runs, "CNAME")
           r == runs[1]
<1>1. /\ runs \in Seq(Runs)
      /\ \A x \in ToSet(runs) : x.rdata # <<>>
      /\ InRuns(runs) = Accepted(n)
    BY TreeHolds
<1>2. /\ IsRuns(runs, Runs, AnyValue) /\ Has(runs, "CNAME")
      /\ \A t, o : NodeRecords(runs, t, o) = Declared(n, t, o)
    BY NodeDeclares
<1>3. Len(runs) = 1 /\ Len(vals) <= 1
    BY <1>2, CheckedNode
<1>4. /\ vals \in Seq(AnyValue)
      /\ ToSet(vals) = UNION {ToSet(x.rdata) : x \in {y \in ToSet(runs) : y.rtype = "CNAME"}}
    BY <1>2, ValuesHeld
<1> HIDE DEF vals, runs
<1>5. ToSet(runs) = {r} /\ r \in ToSet(runs) /\ r.rtype = "CNAME"
    <2>1. DOMAIN runs = {1}
        BY <1>1, <1>3
    <2> QED
        BY <1>2, <2>1 DEF ToSet, Has
<1>6. {y \in ToSet(runs) : y.rtype = "CNAME"} = {r} /\ \A t : t # "CNAME" => {y \in ToSet(runs) : y.rtype = t} = {}
    BY <1>5
<1>7. ToSet(vals) = ToSet(r.rdata)
    BY <1>4, <1>6
<1>8. r \in Runs /\ r.rdata # <<>> /\ r.rdata \in Seq(AnyValue)
    <2>1. 1 \in 1..Len(runs)
        BY <1>3
    <2>2. r \in Runs
        BY <1>1, <2>1, ElementOfSeq
    <2>3. \A x \in Runs : x.rdata \in Seq(AnyValue)
        BY <1>2 DEF IsRuns
    <2>4. r.rdata # <<>>
        BY <1>1, <1>5
    <2> HIDE DEF r
    <2> QED
        BY <2>2, <2>3, <2>4
<1>9. ToSet(r.rdata) # {}
    BY <1>8, EmptyHoldsNothing
<1>10. vals # <<>>
    BY <1>4, <1>7, <1>9, EmptyHoldsNothing
<1>11. Len(vals) = 1 /\ DOMAIN vals = {1}
    <2>1. Len(vals) \in Nat /\ DOMAIN vals = 1..Len(vals) /\ Len(vals) # 0
        BY <1>4, <1>10, EmptySeq, LenProperties
    <2>2. Len(vals) = 1
        BY <1>3, <2>1
    <2> QED
        BY <2>1, <2>2
<1>12. ToSet(r.rdata) = {vals[1]}
    BY <1>7, <1>11 DEF ToSet
<1> HIDE DEF r
<1>13. NodeRecords(runs, "CNAME", n) = {RecordOf(n, "CNAME", r.ttl, vals[1])}
    <2>1. NodeRecords(runs, "CNAME", n) = RunRecords(r, "CNAME", n)
        BY <1>6 DEF NodeRecords
    <2>2. RunRecords(r, "CNAME", n) = {RecordOf(n, "CNAME", r.ttl, vals[1])}
        BY <1>12 DEF RunRecords, RecordOf
    <2> QED
        BY <2>1, <2>2
<1>14. \A t, o : t # "CNAME" => NodeRecords(runs, t, o) = {}
    BY <1>6 DEF NodeRecords
<1>15. vals[1] \in ZoneNames \cup {Outside}
    <2>1. <<"CNAME", r.ttl, vals[1]>> \in InRuns(runs)
        BY <1>5, <1>12 DEF InRuns
    <2> QED
        BY <1>1, <2>1, TargetsAreNames
<1> QED
    BY <1>2, <1>13, <1>14, <1>15 DEF vals, runs

\* No record is of type ANY.
LEMMA NoneIsAny ==
    ASSUME BuildInv, NEW n, NEW o
    PROVE  Declared(n, "ANY", o) = {}
<1>1. \A s \in accepted : s.rtype # "ANY"
    BY OwnerFacts, BlocksAssumption
<1> QED
    BY <1>1 DEF Declared

-----------------------------------------------------------------------------
(* What the code is meant to return: the reference of ZoneBuild, except that *)
(* the alias of a wildcard is not followed.  The proofs are about this one   *)
(* first; where the two part is settled once, in Parting.                    *)

\* The alias that is followed at a name, where it leads, and the path.
FollowedAt(n, qtype) ==
    IF qtype \in {"CNAME", "ANY"} \/ CutsAbove(n) # {} \/ IsWildcard(n) THEN {}
    ELSE Declared(n, "CNAME", n)

Stride(n, qtype) ==
    LET inside == {rr \in FollowedAt(n, qtype) : contains(rr.data)}
    IN IF inside = {} THEN n ELSE (CHOOSE rr \in inside : TRUE).data

Path(n, qtype) ==
    LET at[i \in 0..MAX_CNAME_DEPTH] == IF i = 0 THEN n ELSE Stride(at[i - 1], qtype)
    IN at

PathEnd(n, qtype) == Path(n, qtype)[MAX_CNAME_DEPTH]

\* The kind of answer and its records.
Returned(n, qtype) ==
    LET path == Path(n, qtype)
        final == path[MAX_CNAME_DEPTH]
        aliases == UNION {FollowedAt(m, qtype) : m \in {path[i] : i \in 0..MAX_CNAME_DEPTH}}
        data == IF CutsAbove(final) = {} THEN Declared(SourceOf(final), qtype, final)
                ELSE {}
        kind == IF CutsAbove(final) # {} THEN "Referral"
                ELSE IF aliases \cup data # {} THEN "Records"
                ELSE IF InTree(SourceOf(final)) THEN "NoData"
                ELSE "NxDomain"
    IN [kind |-> kind, answers |-> aliases \cup data]

-----------------------------------------------------------------------------
(* One step of the lookup. *)

\* Where the cut of a name is looked up.
CutAt(n) == IF n \in DOMAIN Tree THEN Cut[n] ELSE Cut[EncloserOf(zone, n)]

\* At or below a delegation: a referral, whatever the type and the budget.
LEMMA StepAtCut ==
    ASSUME BuildInv, Served, NEW n \in ZoneNames, CutsAbove(n) # {}, NEW t
    PROVE  /\ \A left, further :
                 ResolveAt(zone, n, t, left, further) = Resolution("Referral", CutAt(n), <<>>)
           /\ CutAt(n) \in CutsAbove(n) /\ CutAt(n) \in DOMAIN Tree /\ Cut[CutAt(n)] = CutAt(n)
           /\ FollowedAt(n, t) = {} /\ Stride(n, t) = n
<1>1. DOMAIN zone.nodes = DOMAIN Tree /\ zone.cut = Cut
    BY ServedFacts
<1>2. contains(n)
    BY NamesAssumption DEF contains
<1>3. FollowedAt(n, t) = {} /\ Stride(n, t) = n
    BY DEF FollowedAt, Stride
<1>4. \A m \in DOMAIN Tree : CutsAbove(m) # {} =>
         Cut[m] \in CutsAbove(m) /\ Cut[m] \in DOMAIN Tree /\ Cut[Cut[m]] = Cut[m]
    BY CutIsAbove
<1>5. CASE n \in DOMAIN Tree
    <2>1. CutAt(n) = Cut[n]
        BY <1>5 DEF CutAt
    <2>2. CutAt(n) \in CutsAbove(n) /\ CutAt(n) \in DOMAIN Tree /\ Cut[CutAt(n)] = CutAt(n)
        BY <1>4, <1>5, <2>1
    <2>3. Cut[n] # NoCut
        <3>1. Cut[n] \in ZoneNames
            BY <2>1, <2>2, CutsAboveMeans
        <3> QED
            BY <3>1, NamesAssumption
    <2>4. ASSUME NEW left, NEW further
          PROVE  ResolveAt(zone, n, t, left, further) = Resolution("Referral", CutAt(n), <<>>)
        BY <1>1, <1>2, <1>5, <2>1, <2>3 DEF ResolveAt, AtNode
    <2> QED
        BY <1>3, <2>2, <2>4
<1>6. CASE n \notin DOMAIN Tree
    <2> DEFINE e == EncloserOf(zone, n)
    <2>1. e \in DOMAIN Tree /\ CutsAbove(n) = CutsAbove(e)
        BY <1>6, EncloserFacts
    <2>2. CutAt(n) = Cut[e]
        BY <1>6 DEF CutAt
    <2> HIDE DEF e
    <2>3. CutAt(n) \in CutsAbove(n) /\ CutAt(n) \in DOMAIN Tree /\ Cut[CutAt(n)] = CutAt(n)
        BY <1>4, <2>1, <2>2
    <2>4. Cut[e] # NoCut
        <3>1. CutAt(n) \in ZoneNames
            BY <2>3, CutsAboveMeans
        <3> QED
            BY <2>2, <3>1, NamesAssumption
    <2>5. ASSUME NEW left, NEW further
          PROVE  ResolveAt(zone, n, t, left, further) = Resolution("Referral", CutAt(n), <<>>)
        BY <1>1, <1>2, <1>6, <2>2, <2>4 DEF ResolveAt, AtNothing, Synthesised, e
    <2> QED
        BY <1>3, <2>3, <2>5
<1> QED
    BY <1>5, <1>6

\* Every record an answer to a query of type t may hold.
Rrs(t) == UNION {Declared(s, x, o) : s \in ZoneNames, x \in {t, "CNAME"}, o \in ZoneNames}

LEMMA EmitsRrs ==
    ASSUME BuildInv, NEW n \in DOMAIN Tree, NEW t, NEW x \in {t, "CNAME"}, NEW o \in ZoneNames
    PROVE  emit(Tree[n], x, o) \in Seq(Rrs(t)) /\ ToSet(emit(Tree[n], x, o)) = Declared(n, x, o)
<1>1. /\ IsRuns(Tree[n], Runs, AnyValue)
      /\ NodeRecords(Tree[n], x, o) = Declared(n, x, o)
      /\ ToSet(emit(Tree[n], x, o)) = Declared(n, x, o)
    BY NodeDeclares
<1>2. emit(Tree[n], x, o) \in Seq(Declared(n, x, o))
    BY <1>1, Emitted
<1>3. n \in ZoneNames
    BY TreeShape
<1>4. Declared(n, x, o) \subseteq Rrs(t)
    BY <1>3 DEF Rrs
<1> QED
    BY <1>1, <1>2, <1>4, SeqMonotonic

\* What a name resolves to when there is neither a delegation nor an alias.
DataOnly(r, n, t) ==
    /\ r.out \in Seq(Rrs(t)) /\ ToSet(r.out) = Declared(SourceOf(n), t, n)
    /\ r.kind = IF Declared(SourceOf(n), t, n) # {} THEN "Found"
                ELSE IF InTree(SourceOf(n)) THEN "NoData" ELSE "NxDomain"

LEMMA DenialOnly ==
    ASSUME NEW n, NEW t, NEW k, NEW c, Declared(SourceOf(n), t, n) = {},
           k = IF InTree(SourceOf(n)) THEN "NoData" ELSE "NxDomain"
    PROVE  DataOnly(Resolution(k, c, <<>>), n, t)
<1> DEFINE r == Resolution(k, c, <<>>)
<1>1. r.out = <<>> /\ r.kind = k
    BY DEF Resolution
<1>2. <<>> \in Seq(Rrs(t)) /\ ToSet(<<>>) = {}
    BY DEF ToSet
<1> HIDE DEF r
<1>3. r.out \in Seq(Rrs(t)) /\ ToSet(r.out) = Declared(SourceOf(n), t, n)
    BY <1>1, <1>2
<1>4. r.kind = IF Declared(SourceOf(n), t, n) # {} THEN "Found"
               ELSE IF InTree(SourceOf(n)) THEN "NoData" ELSE "NxDomain"
    BY <1>1
<1>5. DataOnly(r, n, t)
    BY <1>3, <1>4 DEF DataOnly
<1> QED
    BY <1>5 DEF r

LEMMA StepAtData ==
    ASSUME BuildInv, Served, NEW n \in ZoneNames, CutsAbove(n) = {}, NEW t, FollowedAt(n, t) = {},
           NEW left, NEW further
    PROVE  DataOnly(ResolveAt(zone, n, t, left, further), n, t) /\ Stride(n, t) = n
<1> DEFINE r == ResolveAt(zone, n, t, left, further)
<1>1. /\ DOMAIN zone.nodes = DOMAIN Tree /\ zone.cut = Cut
      /\ \A m \in DOMAIN Tree : Cut[m] = NoCut => zone.nodes[m] = Tree[m]
    BY ServedFacts
<1>2. contains(n)
    BY NamesAssumption DEF contains
<1>3. Stride(n, t) = n
    BY DEF Stride
<1>4. \A m \in DOMAIN Tree : CutsAbove(m) = {} => Cut[m] = NoCut
    BY CutIsAbove
<1>5. DOMAIN Tree = {m \in ZoneNames : InTree(m)}
    BY TreeShape
<1>6. <<>> \in Seq(Rrs(t)) /\ ToSet(<<>>) = {}
    BY DEF ToSet
<1>7. ASSUME NEW k, NEW c, NEW out
      PROVE  Resolution(k, c, out).kind = k /\ Resolution(k, c, out).out = out
    BY DEF Resolution
<1>8. CASE n \in DOMAIN Tree
    <2>1. Cut[n] = NoCut /\ zone.nodes[n] = Tree[n] /\ InTree(n)
        BY <1>1, <1>4, <1>5, <1>8
    <2>2. SourceOf(n) = n
        BY <2>1 DEF SourceOf
    <2>3. \A x : Has(Tree[n], x) <=> Declared(n, x, n) # {}
        BY <1>8, NodeDeclares
    <2>4. t = "ANY" => Declared(n, t, n) = {}
        BY NoneIsAny
    <2>5. CASE t # "ANY" /\ Has(Tree[n], t)
        <3>1. r = Resolution("Found", NoCut, emit(Tree[n], t, n))
            BY <1>1, <1>2, <1>8, <2>1, <2>5 DEF ResolveAt, AtNode
        <3>2. emit(Tree[n], t, n) \in Seq(Rrs(t)) /\ ToSet(emit(Tree[n], t, n)) = Declared(n, t, n)
            BY <1>8, EmitsRrs
        <3> HIDE DEF r
        <3> QED
            BY <1>3, <1>7, <2>2, <2>3, <2>5, <3>1, <3>2 DEF DataOnly, r
    <2>6. CASE ~(t # "ANY" /\ Has(Tree[n], t))
        <3>1. t \in {"ANY", "CNAME"} \/ ~Has(Tree[n], "CNAME") \/ IsWildcard(n)
            BY <2>3 DEF FollowedAt
        <3>2. r = Resolution("NoData", NoCut, <<>>)
            BY <1>1, <1>2, <1>8, <2>1, <2>6, <3>1 DEF ResolveAt, AtNode
        <3>3. Declared(n, t, n) = {}
            BY <2>3, <2>4, <2>6
        <3> HIDE DEF r
        <3> QED
            BY <1>3, <2>1, <2>2, <3>2, <3>3, DenialOnly DEF r
    <2> QED
        BY <2>5, <2>6
<1>9. CASE n \notin DOMAIN Tree
    <2> DEFINE e == EncloserOf(zone, n)
               star == wildcard_node(zone, n)
    <2>1. /\ e \in DOMAIN Tree /\ CutsAbove(n) = CutsAbove(e)
          /\ ~InTree(n) /\ SourceOf(n) = star
          /\ InTree(star) <=> star \in DOMAIN Tree
          /\ star \in DOMAIN Tree /\ Cut[e] = NoCut => Cut[star] = NoCut
        BY <1>9, EncloserFacts
    <2>2. Cut[e] = NoCut
        BY <1>4, <2>1
    <2>3. r = Synthesised(zone, Cut[e], star, n, t)
        BY <1>1, <1>2, <1>9 DEF ResolveAt, AtNothing
    <2> HIDE DEF e, star, r
    <2>4. CASE star \notin DOMAIN Tree
        <3>1. r = Resolution("NxDomain", NoCut, <<>>)
            BY <1>1, <2>2, <2>3, <2>4 DEF Synthesised
        <3>2. Declared(star, t, n) = {}
            BY <2>4, NothingDeclared
        <3> QED
            BY <1>3, <2>1, <2>4, <3>1, <3>2, DenialOnly DEF r
    <2>5. CASE star \in DOMAIN Tree /\ t # "ANY" /\ Has(Tree[star], t)
        <3>1. zone.nodes[star] = Tree[star]
            BY <1>1, <2>1, <2>2, <2>5
        <3>2. r = Resolution("Found", NoCut, emit(Tree[star], t, n))
            BY <1>1, <2>2, <2>3, <2>5, <3>1 DEF Synthesised
        <3>3. emit(Tree[star], t, n) \in Seq(Rrs(t)) /\ ToSet(emit(Tree[star], t, n)) = Declared(star, t, n)
            BY <2>5, EmitsRrs
        <3>4. Declared(star, t, n) # {}
            BY <2>5, NodeDeclares
        <3> QED
            BY <1>3, <1>7, <2>1, <3>2, <3>3, <3>4 DEF DataOnly, r
    <2>6. CASE star \in DOMAIN Tree /\ ~(t # "ANY" /\ Has(Tree[star], t))
        <3>1. zone.nodes[star] = Tree[star]
            BY <1>1, <2>1, <2>2, <2>6
        <3>2. r = Resolution("NoData", NoCut, <<>>)
            BY <1>1, <2>2, <2>3, <2>6, <3>1 DEF Synthesised
        <3>3. Declared(star, t, n) = {}
            BY <2>6, NodeDeclares, NoneIsAny
        <3> QED
            BY <1>3, <2>1, <2>6, <3>2, <3>3, DenialOnly DEF r
    <2> QED
        BY <2>4, <2>5, <2>6
<1> QED
    BY <1>8, <1>9

\* The alias at a node, and where it leads.
Alias(n) == emit(Tree[n], "CNAME", n)
Target(n) == Values(Tree[n], "CNAME")[1]

\* At an alias: its record, and whatever its target resolves to unless that is
\* outside the zone or there are no more aliases to follow.
LEMMA StepAtAlias ==
    ASSUME BuildInv, Served, NEW n \in ZoneNames, NEW t, FollowedAt(n, t) # {}
    PROVE  /\ Alias(n) \in Seq(Rrs(t)) /\ ToSet(Alias(n)) = FollowedAt(n, t)
           /\ Target(n) \in ZoneNames \cup {Outside}
           /\ Stride(n, t) = IF Target(n) = Outside THEN n ELSE Target(n)
           /\ CutsAbove(n) = {} /\ Declared(SourceOf(n), t, n) = {}
           /\ \A left, further :
                 ResolveAt(zone, n, t, left, further) =
                    IF left = 0 \/ Target(n) = Outside THEN Resolution("Found", NoCut, Alias(n))
                    ELSE Behind(Alias(n), further[Target(n)])
<1>1. /\ DOMAIN zone.nodes = DOMAIN Tree /\ zone.cut = Cut
      /\ \A m \in DOMAIN Tree : Cut[m] = NoCut => zone.nodes[m] = Tree[m]
    BY ServedFacts
<1>2. /\ t # "CNAME" /\ t # "ANY" /\ CutsAbove(n) = {} /\ ~IsWildcard(n)
      /\ FollowedAt(n, t) = Declared(n, "CNAME", n) /\ Declared(n, "CNAME", n) # {}
    BY DEF FollowedAt
<1>3. n \in DOMAIN Tree
    BY <1>2, NothingDeclared
<1>4. InTree(n) /\ SourceOf(n) = n
    BY <1>3, TreeShape DEF SourceOf
<1>5. Cut[n] = NoCut /\ zone.nodes[n] = Tree[n]
    BY <1>1, <1>2, <1>3, CutIsAbove
<1>6. /\ Target(n) \in ZoneNames \cup {Outside}
      /\ \E ttl : Declared(n, "CNAME", n) = {RecordOf(n, "CNAME", ttl, Target(n))}
      /\ Declared(n, t, n) = {}
    BY <1>2, <1>3, CnameIsAlone DEF Target
<1>7. Alias(n) \in Seq(Rrs(t)) /\ ToSet(Alias(n)) = FollowedAt(n, t)
    BY <1>2, <1>3, EmitsRrs DEF Alias
<1>8. Has(Tree[n], "CNAME") /\ ~Has(Tree[n], t)
    BY <1>2, <1>3, <1>6, NodeDeclares
<1>9. Stride(n, t) = IF Target(n) = Outside THEN n ELSE Target(n)
    <2>1. PICK ttl : FollowedAt(n, t) = {RecordOf(n, "CNAME", ttl, Target(n))}
        BY <1>2, <1>6
    <2> DEFINE rr == RecordOf(n, "CNAME", ttl, Target(n))
               inside == {x \in FollowedAt(n, t) : contains(x.data)}
    <2>2. rr.data = Target(n)
        BY DEF RecordOf
    <2>3. Stride(n, t) = IF inside = {} THEN n ELSE (CHOOSE x \in inside : TRUE).data
        BY DEF Stride
    <2> HIDE DEF rr
    <2>4. inside = IF Target(n) = Outside THEN {} ELSE {rr}
        BY <2>1, <2>2 DEF contains, rr
    <2> HIDE DEF inside
    <2>5. CASE Target(n) = Outside
        BY <2>3, <2>4, <2>5
    <2>6. CASE Target(n) # Outside
        <3>1. inside = {rr}
            BY <2>4, <2>6
        <3>2. (CHOOSE x \in inside : TRUE) = rr
            BY <3>1
        <3> QED
            BY <2>2, <2>3, <2>6, <3>1, <3>2
    <2> QED
        BY <2>5, <2>6
<1>10. ASSUME NEW left, NEW further
       PROVE  ResolveAt(zone, n, t, left, further) =
                 IF left = 0 \/ Target(n) = Outside THEN Resolution("Found", NoCut, Alias(n))
                 ELSE Behind(Alias(n), further[Target(n)])
    <2>1. ResolveAt(zone, n, t, left, further) = AtNode(zone, n, t, left, further)
        BY <1>1, <1>3, NamesAssumption DEF ResolveAt, contains
    <2> QED
        BY <1>1, <1>2, <1>5, <1>8, <2>1 DEF AtNode, Alias, Target, contains
<1> QED
    BY <1>2, <1>4, <1>6, <1>7, <1>9, <1>10

-----------------------------------------------------------------------------
(* The chase of aliases. *)

\* The table of the names n aliases lead to.
Walks(h, name, qtype, n) ==
    h = [i \in 0..n |-> IF i = 0 THEN name
                       ELSE Stride(h[i - 1], qtype)]

\* The same for a walk that follows every alias, and for one that does not
\* follow those of wildcards.
Onward(n, qtype, all) == IF all THEN Hop(n, qtype) ELSE Stride(n, qtype)
Strolls(h, name, qtype, n, all) ==
    h = [i \in 0..n |-> IF i = 0 THEN name ELSE Onward(h[i - 1], qtype, all)]

LEMMA StrollsExist ==
    ASSUME NEW name, NEW qtype, NEW all
    PROVE  \A n \in Nat : \E h : Strolls(h, name, qtype, n, all)
<1> DEFINE Base == name
           Following(x, i) == Onward(x, qtype, all)
           S == {n \in Nat : \E h : Strolls(h, name, qtype, n, all)}
<1>1. 0 \in S
    <2> DEFINE h == [i \in 0..0 |-> Base]
    <2>1. \A i \in 0..0 : i = 0
        OBVIOUS
    <2>2. h = [i \in 0..0 |-> IF i = 0 THEN Base ELSE Following(h[i - 1], i)]
        <3> HIDE DEF Base, Following
        <3> QED
            BY <2>1
    <2>3. Strolls(h, name, qtype, 0, all)
        BY <2>2 DEF Strolls
    <2> QED
        BY <2>3
<1>2. ASSUME NEW n \in Nat, n \in S PROVE n + 1 \in S
    <2>1. PICK f : Strolls(f, name, qtype, n, all)
        BY <1>2
    <2>2. \A i \in 0..n : f[i] = IF i = 0 THEN Base ELSE Following(f[i - 1], i)
        BY <2>1 DEF Strolls
    <2> DEFINE h == [i \in 0..(n + 1) |-> IF i = n + 1 THEN Following(f[n], n + 1) ELSE f[i]]
               g == [i \in 0..(n + 1) |-> IF i = 0 THEN Base ELSE Following(h[i - 1], i)]
    <2>3. h = g
        <3> HIDE DEF Base, Following
        <3>1. \A i \in 0..n : h[i] = f[i]
            OBVIOUS
        <3>2. h[n + 1] = Following(f[n], n + 1) /\ DOMAIN h = 0..(n + 1) /\ h = [i \in DOMAIN h |-> h[i]]
            OBVIOUS
        <3>3. DOMAIN g = 0..(n + 1)
              /\ \A i \in 0..(n + 1) : g[i] = IF i = 0 THEN Base ELSE Following(h[i - 1], i)
            OBVIOUS
        <3> HIDE DEF h, g
        <3>4. ASSUME NEW i \in 0..(n + 1) PROVE h[i] = g[i]
            <4>1. CASE i = n + 1
                <5>1. i # 0 /\ i - 1 = n /\ n \in 0..n
                    BY <4>1
                <5>2. g[i] = Following(f[n], i)
                    BY <3>1, <3>3, <5>1
                <5> QED
                    BY <3>2, <4>1, <5>2
            <4>2. CASE i # n + 1
                <5>1. i \in 0..n /\ (i # 0 => i - 1 \in 0..n)
                    BY <4>2
                <5> QED
                    BY <2>2, <3>1, <3>3, <5>1
            <4> QED
                BY <4>1, <4>2
        <3>5. g = [i \in DOMAIN g |-> g[i]]
            BY DEF g
        <3> QED
            BY <3>2, <3>3, <3>4, <3>5
    <2> HIDE DEF h
    <2>4. Strolls(h, name, qtype, n + 1, all)
        BY <2>3 DEF Strolls
    <2> QED
        BY <2>4
<1> HIDE DEF S
<1>3. \A n \in Nat : n \in S
    BY <1>1, <1>2, NatSetInduction
<1> QED
    BY <1>3 DEF S

LEMMA WalksExist == ASSUME NEW name, NEW qtype PROVE \A n \in Nat : \E h : Walks(h, name, qtype, n)
<1>1. \A n \in Nat : \E h : Strolls(h, name, qtype, n, FALSE)
    BY StrollsExist
<1> QED
    BY <1>1 DEF Walks, Strolls, Onward

\* The aliases met on the way, and the data at the end of it.
AliasesOn(w, b, t) == UNION {FollowedAt(w[i], t) : i \in 0..b}
DataAt(n, t) == IF CutsAbove(n) = {} THEN Declared(SourceOf(n), t, n) ELSE {}

\* Where there is no alias to follow the walk stays.
LEMMA WalkStays ==
    ASSUME NEW n, NEW t, NEW b \in Nat, NEW w, Walks(w, n, t, b), b = 0 \/ Stride(n, t) = n
    PROVE  w[b] = n /\ AliasesOn(w, b, t) = FollowedAt(n, t)
<1>1. \A i \in 0..b : w[i] = IF i = 0 THEN n ELSE Stride(w[i - 1], t)
    BY DEF Walks
<1> DEFINE S == {i \in Nat : i <= b => w[i] = n}
<1>2. 0 \in S
    BY <1>1
<1>3. ASSUME NEW i \in Nat, i \in S PROVE i + 1 \in S
    <2>1. CASE i + 1 <= b
        <3>1. i \in 0..b /\ i + 1 \in 0..b /\ i + 1 # 0 /\ (i + 1) - 1 = i /\ b # 0
            BY <2>1
        <3>2. w[i + 1] = Stride(w[i], t)
            BY <1>1, <3>1
        <3>3. w[i] = n
            BY <1>3, <3>1
        <3> QED
            BY <3>1, <3>2, <3>3
    <2> QED
        BY <2>1
<1> HIDE DEF S
<1>4. \A i \in Nat : i \in S
    BY <1>2, <1>3, NatSetInduction
<1>5. \A i \in 0..b : w[i] = n
    BY <1>4 DEF S
<1>6. b \in 0..b
    OBVIOUS
<1> QED
    BY <1>5, <1>6 DEF AliasesOn

\* The rest of a walk is the walk from where the first alias leads.
Rest(w, b) == [i \in 0..b |-> w[i + 1]]

LEMMA WalkGoesOn ==
    ASSUME NEW n, NEW t, NEW b \in Nat, NEW w, Walks(w, n, t, b + 1)
    PROVE  /\ Walks(Rest(w, b), Stride(n, t), t, b)
           /\ Rest(w, b)[b] = w[b + 1]
           /\ AliasesOn(w, b + 1, t) = FollowedAt(n, t) \cup AliasesOn(Rest(w, b), b, t)
<1> DEFINE v == Rest(w, b)
<1>1. \A i \in 0..(b + 1) : w[i] = IF i = 0 THEN n ELSE Stride(w[i - 1], t)
    BY DEF Walks
<1>2. DOMAIN v = 0..b /\ v = [i \in 0..b |-> v[i]] /\ \A i \in 0..b : v[i] = w[i + 1]
    BY DEF Rest
<1> HIDE DEF v
<1>3. ASSUME NEW i \in 0..b PROVE v[i] = IF i = 0 THEN Stride(n, t) ELSE Stride(v[i - 1], t)
    <2>1. v[i] = Stride(w[i], t)
        <3>1. i + 1 \in 0..(b + 1) /\ i + 1 # 0 /\ (i + 1) - 1 = i
            OBVIOUS
        <3> QED
            BY <1>1, <1>2, <3>1
    <2>2. CASE i = 0
        BY <1>1, <2>1, <2>2
    <2>3. CASE i # 0
        <3>1. i - 1 \in 0..b /\ (i - 1) + 1 = i
            BY <2>3
        <3>2. v[i - 1] = w[i]
            BY <1>2, <3>1
        <3> QED
            BY <2>1, <2>3, <3>2
    <2> QED
        BY <2>2, <2>3
<1>4. v = [i \in 0..b |-> IF i = 0 THEN Stride(n, t) ELSE Stride(v[i - 1], t)]
    BY <1>2, <1>3
<1>5. Walks(v, Stride(n, t), t, b)
    BY <1>4 DEF Walks
<1>6. b \in 0..b /\ 0 \in 0..(b + 1) /\ \A i \in 0..b : i + 1 \in 0..(b + 1)
    OBVIOUS
<1>7. \A i \in 0..(b + 1) : i = 0 \/ (i - 1 \in 0..b /\ (i - 1) + 1 = i)
    OBVIOUS
<1>8. AliasesOn(w, b + 1, t) = FollowedAt(n, t) \cup AliasesOn(v, b, t)
    <2>1. ASSUME NEW x \in AliasesOn(w, b + 1, t) PROVE x \in FollowedAt(n, t) \cup AliasesOn(v, b, t)
        <3>1. PICK i \in 0..(b + 1) : x \in FollowedAt(w[i], t)
            BY DEF AliasesOn
        <3>2. CASE i = 0
            BY <1>1, <3>1, <3>2
        <3>3. CASE i # 0
            <4>1. i - 1 \in 0..b /\ v[i - 1] = w[i]
                BY <1>2, <1>7, <3>3
            <4> QED
                BY <3>1, <4>1 DEF AliasesOn
        <3> QED
            BY <3>2, <3>3
    <2>2. FollowedAt(n, t) \subseteq AliasesOn(w, b + 1, t)
        BY <1>1, <1>6 DEF AliasesOn
    <2>3. ASSUME NEW x \in AliasesOn(v, b, t) PROVE x \in AliasesOn(w, b + 1, t)
        <3>1. PICK i \in 0..b : x \in FollowedAt(v[i], t)
            BY DEF AliasesOn
        <3>2. x \in FollowedAt(w[i + 1], t)
            BY <1>2, <3>1
        <3> QED
            BY <1>6, <3>2 DEF AliasesOn
    <2> QED
        BY <2>1, <2>2, <2>3
<1> QED
    BY <1>2, <1>5, <1>6, <1>8 DEF v

\* What a walk of b aliases says a name resolves to.
Meant(r, w, b, t) ==
    /\ r.out \in Seq(Rrs(t)) /\ ToSet(r.out) = AliasesOn(w, b, t) \cup DataAt(w[b], t)
    /\ r.kind = IF CutsAbove(w[b]) # {} THEN "Referral"
                ELSE IF AliasesOn(w, b, t) \cup DataAt(w[b], t) # {} THEN "Found"
                ELSE IF InTree(SourceOf(w[b])) THEN "NoData" ELSE "NxDomain"
    /\ CutsAbove(w[b]) # {} => r.cut = CutAt(w[b])

\* Where no alias is followed, the name itself answers.
LEMMA MeantHere ==
    ASSUME BuildInv, Served, NEW n \in ZoneNames, NEW t, NEW b, NEW w, NEW left, NEW further,
           w[b] = n, AliasesOn(w, b, t) = FollowedAt(n, t),
           FollowedAt(n, t) = {} \/ left = 0 \/ Target(n) = Outside
    PROVE  Meant(ResolveAt(zone, n, t, left, further), w, b, t)
<1> DEFINE r == ResolveAt(zone, n, t, left, further)
<1>1. CASE CutsAbove(n) # {}
    <2>1. r = Resolution("Referral", CutAt(n), <<>>) /\ FollowedAt(n, t) = {}
        BY <1>1, StepAtCut
    <2>2. r.kind = "Referral" /\ r.cut = CutAt(n) /\ r.out = <<>>
        BY <2>1 DEF Resolution
    <2>3. <<>> \in Seq(Rrs(t)) /\ ToSet(<<>>) = {}
        BY DEF ToSet
    <2>4. DataAt(n, t) = {}
        BY <1>1 DEF DataAt
    <2> HIDE DEF r
    <2>5. r.out \in Seq(Rrs(t)) /\ ToSet(r.out) = AliasesOn(w, b, t) \cup DataAt(w[b], t)
        BY <2>1, <2>2, <2>3, <2>4
    <2>6. Meant(r, w, b, t)
        BY <1>1, <2>2, <2>5 DEF Meant
    <2> QED
        BY <2>6 DEF r
<1>2. CASE CutsAbove(n) = {} /\ FollowedAt(n, t) = {}
    <2>1. DataOnly(r, n, t)
        BY <1>2, StepAtData
    <2>2. DataAt(n, t) = Declared(SourceOf(n), t, n)
        BY <1>2 DEF DataAt
    <2> HIDE DEF r
    <2>3. AliasesOn(w, b, t) \cup DataAt(w[b], t) = Declared(SourceOf(n), t, n)
        BY <1>2, <2>2
    <2>4. Meant(r, w, b, t)
        BY <1>2, <2>1, <2>3 DEF Meant, DataOnly
    <2> QED
        BY <2>4 DEF r
<1>3. CASE FollowedAt(n, t) # {}
    <2>1. /\ Alias(n) \in Seq(Rrs(t)) /\ ToSet(Alias(n)) = FollowedAt(n, t)
          /\ CutsAbove(n) = {} /\ Declared(SourceOf(n), t, n) = {}
          /\ r = Resolution("Found", NoCut, Alias(n))
        BY <1>3, StepAtAlias
    <2>2. r.kind = "Found" /\ r.out = Alias(n)
        BY <2>1 DEF Resolution
    <2>3. DataAt(n, t) = {}
        BY <2>1 DEF DataAt
    <2> HIDE DEF r
    <2>4. AliasesOn(w, b, t) \cup DataAt(w[b], t) = FollowedAt(n, t)
        BY <2>3
    <2>5. Meant(r, w, b, t)
        BY <1>3, <2>1, <2>2, <2>4 DEF Meant
    <2> QED
        BY <2>5 DEF r
<1> QED
    BY <1>1, <1>2, <1>3

\* Where one is, it comes in front of what its target resolves to.
LEMMA MeantBehind ==
    ASSUME BuildInv, Served, NEW n \in ZoneNames, NEW t, NEW b \in Nat, NEW w, NEW v,
           FollowedAt(n, t) # {}, NEW end, Meant(end, v, b, t), v[b] = w[b + 1],
           AliasesOn(w, b + 1, t) = FollowedAt(n, t) \cup AliasesOn(v, b, t)
    PROVE  Meant(Behind(Alias(n), end), w, b + 1, t)
<1> DEFINE r == Behind(Alias(n), end)
<1>1. Alias(n) \in Seq(Rrs(t)) /\ ToSet(Alias(n)) = FollowedAt(n, t)
    BY StepAtAlias
<1>2. /\ r.kind = IF end.kind = "Referral" THEN "Referral" ELSE "Found"
      /\ r.cut = end.cut /\ r.out = Alias(n) \o end.out
    BY DEF Behind, Resolution
<1> HIDE DEF r
<1>3. end.out \in Seq(Rrs(t)) /\ ToSet(end.out) = AliasesOn(v, b, t) \cup DataAt(w[b + 1], t)
    BY DEF Meant
<1>4. r.out \in Seq(Rrs(t)) /\ ToSet(r.out) = AliasesOn(w, b + 1, t) \cup DataAt(w[b + 1], t)
    <2> DEFINE x == Alias(n)
               y == end.out
    <2>1. x \in Seq(Rrs(t)) /\ y \in Seq(Rrs(t))
        BY <1>1, <1>3
    <2> HIDE DEF x, y
    <2>2. x \o y \in Seq(Rrs(t)) /\ ToSet(x \o y) = ToSet(x) \cup ToSet(y)
        BY <2>1, Joined
    <2> QED
        BY <1>1, <1>2, <1>3, <2>2 DEF x, y
<1>5. /\ end.kind = "Referral" <=> CutsAbove(w[b + 1]) # {}
      /\ CutsAbove(w[b + 1]) # {} => end.cut = CutAt(w[b + 1])
    BY DEF Meant
<1>6. AliasesOn(w, b + 1, t) \cup DataAt(w[b + 1], t) # {}
    OBVIOUS
<1>7. Meant(r, w, b + 1, t)
    BY <1>2, <1>4, <1>5, <1>6 DEF Meant
<1> QED
    BY <1>7 DEF r


\* The table of what names resolve to with up to n aliases to follow.
Resolves(h, built, qtype, n) ==
    h = [i \in 0..n |-> IF i = 0 THEN [name \in ZoneNames \cup {Outside} |-> ResolveAt(built, name, qtype, 0, <<>>)]
                       ELSE [name \in ZoneNames \cup {Outside} |-> ResolveAt(built, name, qtype, i, h[i - 1])]]

LEMMA ResolvesExist == ASSUME NEW built, NEW qtype PROVE \A n \in Nat : \E h : Resolves(h, built, qtype, n)
<1> DEFINE Base == [name \in ZoneNames \cup {Outside} |-> ResolveAt(built, name, qtype, 0, <<>>)]
           Following(x, i) == [name \in ZoneNames \cup {Outside} |-> ResolveAt(built, name, qtype, i, x)]
           S == {n \in Nat : \E h : Resolves(h, built, qtype, n)}
<1>1. 0 \in S
    <2> DEFINE h == [i \in 0..0 |-> Base]
    <2>1. \A i \in 0..0 : i = 0
        OBVIOUS
    <2>2. h = [i \in 0..0 |-> IF i = 0 THEN Base ELSE Following(h[i - 1], i)]
        <3> HIDE DEF Base, Following
        <3> QED
            BY <2>1
    <2>3. Resolves(h, built, qtype, 0)
        BY <2>2 DEF Resolves
    <2> QED
        BY <2>3
<1>2. ASSUME NEW n \in Nat, n \in S PROVE n + 1 \in S
    <2>1. PICK f : Resolves(f, built, qtype, n)
        BY <1>2
    <2>2. \A i \in 0..n : f[i] = IF i = 0 THEN Base ELSE Following(f[i - 1], i)
        BY <2>1 DEF Resolves
    <2> DEFINE h == [i \in 0..(n + 1) |-> IF i = n + 1 THEN Following(f[n], n + 1) ELSE f[i]]
               g == [i \in 0..(n + 1) |-> IF i = 0 THEN Base ELSE Following(h[i - 1], i)]
    <2>3. h = g
        <3> HIDE DEF Base, Following
        <3>1. \A i \in 0..n : h[i] = f[i]
            OBVIOUS
        <3>2. h[n + 1] = Following(f[n], n + 1) /\ DOMAIN h = 0..(n + 1) /\ h = [i \in DOMAIN h |-> h[i]]
            OBVIOUS
        <3>3. DOMAIN g = 0..(n + 1)
              /\ \A i \in 0..(n + 1) : g[i] = IF i = 0 THEN Base ELSE Following(h[i - 1], i)
            OBVIOUS
        <3> HIDE DEF h, g
        <3>4. ASSUME NEW i \in 0..(n + 1) PROVE h[i] = g[i]
            <4>1. CASE i = n + 1
                <5>1. i # 0 /\ i - 1 = n /\ n \in 0..n
                    BY <4>1
                <5>2. g[i] = Following(f[n], i)
                    BY <3>1, <3>3, <5>1
                <5> QED
                    BY <3>2, <4>1, <5>2
            <4>2. CASE i # n + 1
                <5>1. i \in 0..n /\ (i # 0 => i - 1 \in 0..n)
                    BY <4>2
                <5> QED
                    BY <2>2, <3>1, <3>3, <5>1
            <4> QED
                BY <4>1, <4>2
        <3>5. g = [i \in DOMAIN g |-> g[i]]
            BY DEF g
        <3> QED
            BY <3>2, <3>3, <3>4, <3>5
    <2> HIDE DEF h
    <2>4. Resolves(h, built, qtype, n + 1)
        BY <2>3 DEF Resolves
    <2> QED
        BY <2>4
<1> HIDE DEF S
<1>3. \A n \in Nat : n \in S
    BY <1>1, <1>2, NatSetInduction
<1> QED
    BY <1>3 DEF S

\* With no aliases left, what they would lead to does not matter.
LEMMA NoneLeft ==
    ASSUME NEW built, NEW n, NEW t, NEW f, NEW g
    PROVE  ResolveAt(built, n, t, 0, f) = ResolveAt(built, n, t, 0, g)
BY DEF ResolveAt, AtNode

\* Every name resolves to what the walk from it says, whatever the budget.
LEMMA ChaseIsWalk ==
    ASSUME BuildInv, Served, NEW t, NEW N \in Nat, NEW R, Resolves(R, zone, t, N)
    PROVE  \A b \in 0..N : \A n \in ZoneNames : \A w : Walks(w, n, t, b) => Meant(R[b][n], w, b, t)
<1> DEFINE Right(b) == \A n \in ZoneNames : \A w : Walks(w, n, t, b) => Meant(R[b][n], w, b, t)
           S == {b \in Nat : b <= N => Right(b)}
<1>1. /\ \A n \in ZoneNames : R[0][n] = ResolveAt(zone, n, t, 0, <<>>)
      /\ \A b \in 1..N : \A n \in ZoneNames : R[b][n] = ResolveAt(zone, n, t, b, R[b - 1])
    <2>1. \A i \in 0..N : R[i] = IF i = 0 THEN [name \in ZoneNames \cup {Outside} |-> ResolveAt(zone, name, t, 0, <<>>)]
                       ELSE [name \in ZoneNames \cup {Outside} |-> ResolveAt(zone, name, t, i, R[i - 1])]
        BY DEF Resolves
    <2>2. 0 \in 0..N /\ \A b \in 1..N : b \in 0..N /\ b # 0
        OBVIOUS
    <2> QED
        BY <2>1, <2>2
<1>2. Right(0)
    <2>1. SUFFICES ASSUME NEW n \in ZoneNames, NEW w, Walks(w, n, t, 0)
                   PROVE  Meant(R[0][n], w, 0, t)
        OBVIOUS
    <2>2. w[0] = n /\ AliasesOn(w, 0, t) = FollowedAt(n, t)
        BY <2>1, WalkStays
    <2>3. Meant(ResolveAt(zone, n, t, 0, <<>>), w, 0, t)
        BY <2>2, MeantHere
    <2> QED
        BY <1>1, <2>3
<1>3. ASSUME NEW b \in Nat, b \in S PROVE b + 1 \in S
    <2>1. SUFFICES ASSUME b + 1 <= N, NEW n \in ZoneNames, NEW w, Walks(w, n, t, b + 1)
                   PROVE  Meant(R[b + 1][n], w, b + 1, t)
        OBVIOUS
    <2>2. b + 1 \in 1..N /\ (b + 1) - 1 = b /\ b <= N /\ b + 1 \in Nat
        BY <2>1
    <2>3. R[b + 1][n] = ResolveAt(zone, n, t, b + 1, R[b])
        BY <1>1, <2>2
    <2>4. Right(b)
        BY <1>3, <2>2
    <2>5. CASE FollowedAt(n, t) = {} \/ Target(n) = Outside
        <3>1. Stride(n, t) = n
            <4>1. CASE FollowedAt(n, t) = {}
                BY <4>1 DEF Stride
            <4>2. CASE FollowedAt(n, t) # {}
                BY <2>5, <4>2, StepAtAlias
            <4> QED
                BY <4>1, <4>2
        <3>2. w[b + 1] = n /\ AliasesOn(w, b + 1, t) = FollowedAt(n, t)
            BY <2>1, <2>2, <3>1, WalkStays
        <3>3. Meant(ResolveAt(zone, n, t, b + 1, R[b]), w, b + 1, t)
            BY <2>5, <3>2, MeantHere
        <3> QED
            BY <2>3, <3>3
    <2>6. CASE FollowedAt(n, t) # {} /\ Target(n) # Outside
        <3>1. /\ Stride(n, t) = Target(n) /\ Target(n) \in ZoneNames
              /\ ResolveAt(zone, n, t, b + 1, R[b]) = Behind(Alias(n), R[b][Target(n)])
            BY <2>2, <2>6, StepAtAlias
        <3>2. /\ Walks(Rest(w, b), Target(n), t, b)
              /\ Rest(w, b)[b] = w[b + 1]
              /\ AliasesOn(w, b + 1, t) = FollowedAt(n, t) \cup AliasesOn(Rest(w, b), b, t)
            BY <2>1, <3>1, WalkGoesOn
        <3>3. Meant(R[b][Target(n)], Rest(w, b), b, t)
            BY <2>4, <3>1, <3>2
        <3>4. Meant(Behind(Alias(n), R[b][Target(n)]), w, b + 1, t)
            BY <2>6, <3>2, <3>3, MeantBehind
        <3> QED
            BY <2>3, <3>1, <3>4
    <2> QED
        BY <2>5, <2>6
<1>4. 0 \in S
    BY <1>2
<1> HIDE DEF S
<1>5. \A b \in Nat : b \in S
    BY <1>3, <1>4, NatSetInduction
<1>6. \A b \in 0..N : Right(b)
    BY <1>5 DEF S
<1> QED
    BY <1>6

\* The reference's walk is a walk, and the code's recursion is the table.
LEMMA LookupIsMeant ==
    ASSUME BuildInv, Served, NEW n \in ZoneNames, NEW t
    PROVE  /\ Walks(Path(n, t), n, t, MAX_CNAME_DEPTH)
           /\ Meant(resolve(zone, n, t), Path(n, t), MAX_CNAME_DEPTH, t)
<1>0. MAX_CNAME_DEPTH \in Nat
    BY DEF MAX_CNAME_DEPTH
<1>1. Walks(Path(n, t), n, t, MAX_CNAME_DEPTH)
    <2>1. \E h : Walks(h, n, t, MAX_CNAME_DEPTH)
        BY <1>0, WalksExist
    <2>2. Path(n, t) = CHOOSE h : Walks(h, n, t, MAX_CNAME_DEPTH)
        BY DEF Path, Walks
    <2> QED
        BY <2>1, <2>2
<1> DEFINE Table(h) == h = [left \in 0..MAX_CNAME_DEPTH |->
                              [name \in ZoneNames \cup {Outside} |->
                                  ResolveAt(zone, name, t, left, h[left - 1])]]
           R == CHOOSE h : Table(h)
<1>2. \A h : Resolves(h, zone, t, MAX_CNAME_DEPTH) <=> Table(h)
    <2>1. ASSUME NEW h, NEW i \in 0..MAX_CNAME_DEPTH
          PROVE  (IF i = 0 THEN [name \in ZoneNames \cup {Outside} |-> ResolveAt(zone, name, t, 0, <<>>)]
                  ELSE [name \in ZoneNames \cup {Outside} |-> ResolveAt(zone, name, t, i, h[i - 1])])
                 = [name \in ZoneNames \cup {Outside} |-> ResolveAt(zone, name, t, i, h[i - 1])]
        <3>1. CASE i = 0
            <4>1. \A name : ResolveAt(zone, name, t, 0, <<>>) = ResolveAt(zone, name, t, 0, h[i - 1])
                BY NoneLeft
            <4> QED
                BY <3>1, <4>1
        <3> QED
            BY <3>1
    <2> QED
        BY <2>1 DEF Resolves
<1>3. \E h : Resolves(h, zone, t, MAX_CNAME_DEPTH)
    BY <1>0, ResolvesExist
<1>4. Table(R)
    <2>1. \E h : Table(h)
        BY <1>2, <1>3
    <2> HIDE DEF Table
    <2> QED
        BY <2>1
<1>5. resolve(zone, n, t) = R[MAX_CNAME_DEPTH][n]
    BY DEF resolve
<1> HIDE DEF Table, R
<1>6. Resolves(R, zone, t, MAX_CNAME_DEPTH)
    BY <1>2, <1>4
<1>7. MAX_CNAME_DEPTH \in 0..MAX_CNAME_DEPTH
    BY <1>0
<1> QED
    BY <1>0, <1>1, <1>5, <1>6, <1>7, ChaseIsWalk

-----------------------------------------------------------------------------
(* The answers. *)

\* Every name on a walk is a name of the zone.
LEMMA WalkInZone ==
    ASSUME BuildInv, Served, NEW n \in ZoneNames, NEW t
    PROVE  \A i \in 0..MAX_CNAME_DEPTH : Path(n, t)[i] \in ZoneNames
<1> DEFINE w == Path(n, t)
<1>0. MAX_CNAME_DEPTH \in Nat
    BY DEF MAX_CNAME_DEPTH
<1>1. Walks(w, n, t, MAX_CNAME_DEPTH)
    BY LookupIsMeant
<1> HIDE DEF w
<1>2. \A i \in 0..MAX_CNAME_DEPTH : w[i] = IF i = 0 THEN n ELSE Stride(w[i - 1], t)
    BY <1>1 DEF Walks
<1>3. \A m \in ZoneNames : Stride(m, t) \in ZoneNames
    <2>1. ASSUME NEW m \in ZoneNames, FollowedAt(m, t) = {} PROVE Stride(m, t) = m
        BY <2>1 DEF Stride
    <2>2. ASSUME NEW m \in ZoneNames, FollowedAt(m, t) # {} PROVE Stride(m, t) \in ZoneNames
        BY <2>2, StepAtAlias
    <2> QED
        BY <2>1, <2>2
<1> DEFINE S == {i \in Nat : i <= MAX_CNAME_DEPTH => w[i] \in ZoneNames}
<1>4. 0 \in S
    BY <1>0, <1>2
<1>5. ASSUME NEW i \in Nat, i \in S PROVE i + 1 \in S
    <2>1. CASE i + 1 <= MAX_CNAME_DEPTH
        <3>1. i + 1 \in 0..MAX_CNAME_DEPTH /\ i + 1 # 0 /\ (i + 1) - 1 = i /\ i <= MAX_CNAME_DEPTH
            BY <1>0, <2>1
        <3>2. w[i + 1] = Stride(w[i], t)
            BY <1>2, <3>1
        <3>3. w[i] \in ZoneNames
            BY <1>5, <3>1
        <3>4. w[i + 1] \in ZoneNames
            BY <1>3, <3>2, <3>3
        <3> QED
            BY <3>4
    <2> QED
        BY <2>1
<1> HIDE DEF S
<1>6. \A i \in Nat : i \in S
    BY <1>4, <1>5, NatSetInduction
<1>7. \A i \in 0..MAX_CNAME_DEPTH : i \in Nat /\ i <= MAX_CNAME_DEPTH
    BY <1>0
<1>8. \A i \in 0..MAX_CNAME_DEPTH : w[i] \in ZoneNames
    BY <1>6, <1>7 DEF S
<1> QED
    BY <1>8 DEF w

\* All the aliases on the walk from a name.
Aliases(n, t) == AliasesOn(Path(n, t), MAX_CNAME_DEPTH, t)

LEMMA ExpectedIs ==
    ASSUME NEW n, NEW t
    PROVE  /\ Returned(n, t).answers = Aliases(n, t) \cup DataAt(PathEnd(n, t), t)
           /\ Returned(n, t).kind =
                IF CutsAbove(PathEnd(n, t)) # {} THEN "Referral"
                ELSE IF Returned(n, t).answers # {} THEN "Records"
                ELSE IF InTree(SourceOf(PathEnd(n, t))) THEN "NoData" ELSE "NxDomain"
<1> DEFINE w == Path(n, t)
           f == w[MAX_CNAME_DEPTH]
           a == UNION {FollowedAt(m, t) : m \in {w[i] : i \in 0..MAX_CNAME_DEPTH}}
           d == IF CutsAbove(f) = {} THEN Declared(SourceOf(f), t, f) ELSE {}
           k == IF CutsAbove(f) # {} THEN "Referral"
                ELSE IF a \cup d # {} THEN "Records"
                ELSE IF InTree(SourceOf(f)) THEN "NoData" ELSE "NxDomain"
<1>1. Returned(n, t) = [kind |-> k, answers |-> a \cup d]
    BY DEF Returned
<1>2. a = Aliases(n, t) /\ d = DataAt(f, t) /\ f = PathEnd(n, t)
    BY DEF Aliases, AliasesOn, DataAt, PathEnd
<1> HIDE DEF a, d, w, f
<1>3. Returned(n, t).answers = a \cup d /\ Returned(n, t).kind = k
    <2> HIDE DEF k
    <2> QED
        BY <1>1
<1> QED
    BY <1>2, <1>3

\* The lookup returns what is expected; a referral is the one assembled for
\* the deepest delegation above the end of the walk.
LEMMA LookupIsExpected ==
    ASSUME BuildInv, Served, NEW n \in ZoneNames, NEW t
    PROVE  /\ lookup(zone, n, t).kind = Returned(n, t).kind
           /\ lookup(zone, n, t).answers \in Seq(Rrs(t))
           /\ ToSet(lookup(zone, n, t).answers) = Returned(n, t).answers
           /\ CutsAbove(PathEnd(n, t)) # {} =>
                 /\ lookup(zone, n, t).kind = "Referral"
                 /\ lookup(zone, n, t) = ReferralAt(zone, CutAt(PathEnd(n, t)), lookup(zone, n, t).answers)
<1> DEFINE r == resolve(zone, n, t)
           a == lookup(zone, n, t)
           f == PathEnd(n, t)
           all == Aliases(n, t) \cup DataAt(f, t)
<1>1. /\ r.out \in Seq(Rrs(t)) /\ ToSet(r.out) = all
      /\ r.kind = IF CutsAbove(f) # {} THEN "Referral"
                  ELSE IF all # {} THEN "Found"
                  ELSE IF InTree(SourceOf(f)) THEN "NoData" ELSE "NxDomain"
      /\ CutsAbove(f) # {} => r.cut = CutAt(f)
    BY LookupIsMeant DEF Meant, Aliases, PathEnd
<1>2. a = AsAnswer(zone, r)
    BY DEF lookup
<1>3. /\ Returned(n, t).answers = all
      /\ Returned(n, t).kind = IF CutsAbove(f) # {} THEN "Referral"
                ELSE IF all # {} THEN "Records"
                ELSE IF InTree(SourceOf(f)) THEN "NoData" ELSE "NxDomain"
    BY ExpectedIs
<1> HIDE DEF r, a, f, all
<1>4. CASE r.kind = "Found"
    <2>1. a = [kind |-> "Records", answers |-> r.out]
        BY <1>2, <1>4 DEF AsAnswer
    <2>2. CutsAbove(f) = {} /\ all # {}
        BY <1>1, <1>4
    <2>3. a.kind = "Records" /\ a.answers = r.out
        BY <2>1
    <2> QED
        BY <1>1, <1>3, <2>2, <2>3 DEF a, f
<1>5. CASE r.kind = "Referral"
    <2>1. a = ReferralAt(zone, r.cut, r.out)
        BY <1>2, <1>5 DEF AsAnswer
    <2>2. a.kind = "Referral" /\ a.answers = r.out
        BY <2>1 DEF ReferralAt
    <2>3. CutsAbove(f) # {} /\ r.cut = CutAt(f)
        BY <1>1, <1>5
    <2> QED
        BY <1>1, <1>3, <2>1, <2>2, <2>3 DEF a, f
<1>6. CASE r.kind \in {"NoData", "NxDomain"}
    <2>1. a = [kind |-> r.kind, answers |-> <<>>]
        BY <1>2, <1>6 DEF AsAnswer
    <2>2. CutsAbove(f) = {} /\ all = {}
        BY <1>1, <1>6
    <2>3. a.kind = r.kind /\ a.answers = <<>>
        BY <2>1
    <2>4. <<>> \in Seq(Rrs(t)) /\ ToSet(<<>>) = {}
        BY DEF ToSet
    <2>5. Returned(n, t).kind = r.kind
        BY <1>1, <1>3, <2>2
    <2>6. a.kind = Returned(n, t).kind /\ a.answers \in Seq(Rrs(t)) /\ ToSet(a.answers) = Returned(n, t).answers
        BY <1>3, <2>2, <2>3, <2>4, <2>5
    <2> QED
        BY <2>2, <2>6 DEF a, f
<1> QED
    BY <1>1, <1>4, <1>5, <1>6

\* A query either stays where it is or starts with the alias there.
LEMMA StaysOrLeaves ==
    ASSUME BuildInv, Served, NEW n \in ZoneNames, NEW t
    PROVE  /\ PathEnd(n, t) \in ZoneNames
           /\ FollowedAt(n, t) \subseteq Aliases(n, t)
           /\ FollowedAt(n, t) = {} => PathEnd(n, t) = n /\ Aliases(n, t) = {}
           /\ FollowedAt(n, t) # {} => CutsAbove(n) = {} /\ n \in DOMAIN Tree
<1>0. MAX_CNAME_DEPTH \in Nat
    BY DEF MAX_CNAME_DEPTH
<1>1. Walks(Path(n, t), n, t, MAX_CNAME_DEPTH)
    BY LookupIsMeant
<1>2. MAX_CNAME_DEPTH \in 0..MAX_CNAME_DEPTH /\ 0 \in 0..MAX_CNAME_DEPTH
    BY <1>0
<1>3. PathEnd(n, t) \in ZoneNames
    BY <1>2, WalkInZone DEF PathEnd
<1>4. Path(n, t)[0] = n
    BY <1>1, <1>2 DEF Walks
<1>5. FollowedAt(n, t) \subseteq Aliases(n, t)
    BY <1>2, <1>4 DEF Aliases, AliasesOn
<1>6. ASSUME FollowedAt(n, t) = {} PROVE PathEnd(n, t) = n /\ Aliases(n, t) = {}
    <2>1. Stride(n, t) = n
        BY <1>6 DEF Stride
    <2> QED
        BY <1>0, <1>1, <1>6, <2>1, WalkStays DEF PathEnd, Aliases
<1>7. ASSUME FollowedAt(n, t) # {} PROVE CutsAbove(n) = {} /\ n \in DOMAIN Tree
    <2>1. CutsAbove(n) = {} /\ Declared(n, "CNAME", n) # {}
        BY <1>7 DEF FollowedAt
    <2> QED
        BY <2>1, NothingDeclared
<1> QED
    BY <1>3, <1>5, <1>6, <1>7

\* At one name the reference and the code agree, unless a wildcard gives the
\* alias: then the code stays, and finds nothing else there.
LEMMA PartingAt ==
    ASSUME BuildInv, Served, NEW m \in ZoneNames, NEW t
    PROVE  /\ ~ByWildcard(m, t) => FollowedAt(m, t) = AliasAt(m, t) /\ Stride(m, t) = Hop(m, t)
           /\ ByWildcard(m, t) =>
                 /\ FollowedAt(m, t) = {} /\ Stride(m, t) = m
                 /\ CutsAbove(m) = {} /\ DataAt(m, t) = {} /\ InTree(SourceOf(m))
<1>1. FollowedAt(m, t) = AliasAt(m, t) => Stride(m, t) = Hop(m, t)
    BY DEF Stride, Hop
<1>2. FollowedAt(m, t) = {} => Stride(m, t) = m
    BY DEF Stride
<1>3. CASE t \in {"CNAME", "ANY"} \/ CutsAbove(m) # {}
    BY <1>1, <1>3 DEF FollowedAt, AliasAt, ByWildcard
<1>4. CASE t \notin {"CNAME", "ANY"} /\ CutsAbove(m) = {}
    <2>1. AliasAt(m, t) = Declared(SourceOf(m), "CNAME", m)
        BY <1>4 DEF AliasAt
    <2>2. FollowedAt(m, t) = IF IsWildcard(m) THEN {} ELSE Declared(m, "CNAME", m)
        BY <1>4 DEF FollowedAt
    <2>3. ASSUME Declared(SourceOf(m), "CNAME", m) # {}
          PROVE  DataAt(m, t) = {} /\ InTree(SourceOf(m))
        <3>1. SourceOf(m) \in DOMAIN Tree
            BY <2>3, NothingDeclared
        <3>2. Declared(SourceOf(m), "CNAME", SourceOf(m)) # {}
            BY <2>3, DeclaredForAny
        <3>3. Declared(SourceOf(m), t, m) = {}
            BY <1>4, <3>1, <3>2, CnameIsAlone
        <3> QED
            BY <3>1, <3>3, TreeShape DEF DataAt
    <2>4. CASE m \in DOMAIN Tree
        <3>1. SourceOf(m) = m
            BY <2>4, TreeShape DEF SourceOf
        <3> QED
            BY <1>1, <1>2, <1>4, <2>1, <2>2, <2>3, <3>1 DEF ByWildcard
    <2>5. CASE m \notin DOMAIN Tree
        <3>1. FollowedAt(m, t) = {}
            BY <2>2, <2>5, NothingDeclared
        <3>2. IsWildcard(SourceOf(m))
            <4> DEFINE e == EncloserOf(zone, m)
            <4>1. SourceOf(m) = Append(e, "*") /\ e \in DOMAIN Tree
                BY <2>5, EncloserFacts DEF wildcard_node
            <4>2. e \in Seq(DOMAIN Rank)
                BY <4>1, TreeShape DEF ZoneNames
            <4> HIDE DEF e
            <4>3. Append(e, "*") # <<>> /\ Append(e, "*")[Len(Append(e, "*"))] = "*"
                BY <4>2
            <4> QED
                BY <4>1, <4>3 DEF IsWildcard, Apex, Last
        <3> QED
            BY <1>1, <1>2, <1>4, <2>1, <2>3, <3>1, <3>2 DEF ByWildcard
    <2> QED
        BY <2>4, <2>5
<1> QED
    BY <1>3, <1>4

\* The reference's walk is a walk that follows every alias.
LEMMA WalkIs ==
    ASSUME NEW n, NEW t
    PROVE  \A i \in 0..MAX_CNAME_DEPTH : Walk(n, t)[i] = IF i = 0 THEN n ELSE Hop(Walk(n, t)[i - 1], t)
<1>0. MAX_CNAME_DEPTH \in Nat
    BY DEF MAX_CNAME_DEPTH
<1> DEFINE Follows(h) == h = [i \in 0..MAX_CNAME_DEPTH |-> IF i = 0 THEN n ELSE Hop(h[i - 1], t)]
<1>1. \E h : Strolls(h, n, t, MAX_CNAME_DEPTH, TRUE)
    BY <1>0, StrollsExist
<1>2. \E h : Follows(h)
    BY <1>1 DEF Strolls, Onward
<1>3. Walk(n, t) = CHOOSE h : Follows(h)
    BY DEF Walk
<1> HIDE DEF Follows
<1>4. Follows(Walk(n, t))
    BY <1>2, <1>3
<1> QED
    BY <1>4 DEF Follows

\* The code's path is the reference's walk up to the first alias of a
\* wildcard, and stays there.
LEMMA Parting ==
    ASSUME BuildInv, Served, NEW n \in ZoneNames, NEW t
    PROVE  \A i \in 0..MAX_CNAME_DEPTH :
              \/ i \in Before(n, t) /\ Path(n, t)[i] = Walk(n, t)[i]
              \/ \E k \in 0..i : ByWildcard(Walk(n, t)[k], t) /\ Path(n, t)[i] = Walk(n, t)[k]
<1> DEFINE p == Path(n, t)
           w == Walk(n, t)
           Clear(i) == \A j \in 0..i : ~ByWildcard(w[j], t)
           Right(i) == \/ Clear(i) /\ p[i] = w[i]
                       \/ \E k \in 0..i : ByWildcard(w[k], t) /\ p[i] = w[k]
           S == {i \in Nat : i <= MAX_CNAME_DEPTH => Right(i)}
<1>0. MAX_CNAME_DEPTH \in Nat
    BY DEF MAX_CNAME_DEPTH
<1>1. \A i \in 0..MAX_CNAME_DEPTH : p[i] = IF i = 0 THEN n ELSE Stride(p[i - 1], t)
    BY LookupIsMeant DEF Walks
<1>2. \A i \in 0..MAX_CNAME_DEPTH : w[i] = IF i = 0 THEN n ELSE Hop(w[i - 1], t)
    BY WalkIs
<1>3. \A i \in 0..MAX_CNAME_DEPTH : p[i] \in ZoneNames
    BY WalkInZone
<1>4. \A i \in 0..MAX_CNAME_DEPTH : i \in Before(n, t) <=> Clear(i)
    BY DEF Before
<1> HIDE DEF p, w
<1>5. 0 \in S
    <2>1. 0 \in 0..MAX_CNAME_DEPTH /\ 0..0 = {0}
        BY <1>0
    <2>2. p[0] = n /\ w[0] = n
        BY <1>1, <1>2, <2>1
    <2> QED
        BY <2>1, <2>2
<1>6. ASSUME NEW i \in Nat, i \in S PROVE i + 1 \in S
    <2> SUFFICES ASSUME i + 1 <= MAX_CNAME_DEPTH PROVE Right(i + 1)
        OBVIOUS
    <2>1. /\ i \in 0..MAX_CNAME_DEPTH /\ i + 1 \in 0..MAX_CNAME_DEPTH /\ i + 1 # 0
          /\ (i + 1) - 1 = i /\ i \in 0..i /\ 0..(i + 1) = (0..i) \cup {i + 1}
        BY <1>0
    <2>2. p[i + 1] = Stride(p[i], t) /\ w[i + 1] = Hop(w[i], t) /\ p[i] \in ZoneNames
        BY <1>1, <1>2, <1>3, <2>1
    <2>3. Right(i)
        BY <1>6, <2>1
    <2>4. CASE Clear(i) /\ p[i] = w[i]
        <3>1. ~ByWildcard(p[i], t)
            BY <2>1, <2>4
        <3>2. p[i + 1] = w[i + 1]
            BY <2>2, <2>4, <3>1, PartingAt
        <3> QED
            BY <2>1, <2>4, <3>2
    <2>5. CASE \E k \in 0..i : ByWildcard(w[k], t) /\ p[i] = w[k]
        <3>1. PICK k \in 0..i : ByWildcard(w[k], t) /\ p[i] = w[k]
            BY <2>5
        <3>2. p[i + 1] = w[k]
            BY <2>2, <3>1, PartingAt
        <3> QED
            BY <2>1, <3>1, <3>2
    <2> QED
        BY <2>3, <2>4, <2>5
<1> HIDE DEF S
<1>7. \A i \in Nat : i \in S
    BY <1>5, <1>6, NatSetInduction
<1>8. \A i \in 0..MAX_CNAME_DEPTH : Right(i)
    BY <1>7 DEF S
<1> QED
    BY <1>4, <1>8 DEF p, w

LEMMA LookupAgreesHolds == BuildInv => LookupAgrees
<1> SUFFICES ASSUME BuildInv, Served, NEW n \in QueryNames, NEW t \in QueryTypes
             PROVE  LET got == lookup(zone, n, t)
                        expected == Expected(n, t)
                        walk == Walk(n, t)
                        before == Before(n, t)
                        aliases == UNION {AliasAt(walk[i], t) : i \in before}
                    IN IF before = 0..MAX_CNAME_DEPTH
                       THEN got.kind = expected.kind /\ ToSet(got.answers) = expected.answers
                       ELSE /\ got.kind = IF aliases = {} THEN "NoData" ELSE "Records"
                            /\ ToSet(got.answers) = aliases
    BY DEF LookupAgrees
<1> DEFINE p == Path(n, t)
           w == Walk(n, t)
           Met == UNION {AliasAt(w[i], t) : i \in Before(n, t)}
<1>0. MAX_CNAME_DEPTH \in Nat /\ MAX_CNAME_DEPTH \in 0..MAX_CNAME_DEPTH
    BY DEF MAX_CNAME_DEPTH
<1>1. n \in ZoneNames
    BY QuestionsAssumption
<1>2. /\ lookup(zone, n, t).kind = Returned(n, t).kind
      /\ ToSet(lookup(zone, n, t).answers) = Returned(n, t).answers
    BY <1>1, LookupIsExpected
<1>3. \A i \in 0..MAX_CNAME_DEPTH : p[i] \in ZoneNames
    BY <1>1, WalkInZone
<1>4. \A i \in 0..MAX_CNAME_DEPTH :
         \/ i \in Before(n, t) /\ p[i] = w[i]
         \/ \E k \in 0..i : ByWildcard(w[k], t) /\ p[i] = w[k]
    BY <1>1, Parting
<1>5. \A i : i \in Before(n, t) <=>
                 i \in 0..MAX_CNAME_DEPTH /\ \A j \in 0..i : ~ByWildcard(w[j], t)
    BY DEF Before
<1> HIDE DEF p, w
<1>6. ASSUME NEW i \in Before(n, t)
      PROVE  /\ i \in 0..MAX_CNAME_DEPTH /\ p[i] = w[i] /\ ~ByWildcard(p[i], t)
             /\ FollowedAt(p[i], t) = AliasAt(w[i], t)
    <2>1. i \in 0..MAX_CNAME_DEPTH /\ i \in 0..i /\ \A j \in 0..i : ~ByWildcard(w[j], t)
        BY <1>0, <1>5
    <2>2. p[i] = w[i] /\ ~ByWildcard(w[i], t)
        BY <1>4, <2>1
    <2> QED
        BY <1>3, <2>1, <2>2, PartingAt
<1>7. ASSUME NEW i \in 0..MAX_CNAME_DEPTH, i \notin Before(n, t)
      PROVE  ByWildcard(p[i], t) /\ FollowedAt(p[i], t) = {}
    <2>1. PICK k \in 0..i : ByWildcard(w[k], t) /\ p[i] = w[k]
        BY <1>4, <1>7
    <2> QED
        BY <1>3, <2>1, PartingAt
<1>8. CASE Before(n, t) = 0..MAX_CNAME_DEPTH
    <2>1. \A i \in 0..MAX_CNAME_DEPTH : p[i] = w[i] /\ FollowedAt(p[i], t) = AliasAt(w[i], t)
        BY <1>6, <1>8
    <2>2. UNION {FollowedAt(m, t) : m \in {p[i] : i \in 0..MAX_CNAME_DEPTH}}
          = UNION {AliasAt(m, t) : m \in {w[i] : i \in 0..MAX_CNAME_DEPTH}}
        BY <2>1
    <2>3. p[MAX_CNAME_DEPTH] = w[MAX_CNAME_DEPTH]
        BY <1>0, <2>1
    <2>4. Returned(n, t) = Expected(n, t)
        BY <2>2, <2>3 DEF Returned, Expected, p, w
    <2> QED
        BY <1>2, <1>8, <2>4
<1>9. CASE Before(n, t) # 0..MAX_CNAME_DEPTH
    <2>1. MAX_CNAME_DEPTH \notin Before(n, t)
        <3>1. SUFFICES ASSUME MAX_CNAME_DEPTH \in Before(n, t) PROVE FALSE
            OBVIOUS
        <3>2. \A j \in 0..MAX_CNAME_DEPTH : ~ByWildcard(w[j], t)
            BY <1>5, <3>1
        <3>3. ASSUME NEW i \in 0..MAX_CNAME_DEPTH PROVE i \in Before(n, t)
            <4>1. \A j \in 0..i : j \in 0..MAX_CNAME_DEPTH
                BY <1>0
            <4> QED
                BY <1>5, <3>2, <4>1
        <3>4. \A i \in Before(n, t) : i \in 0..MAX_CNAME_DEPTH
            BY <1>5
        <3> QED
            BY <1>9, <3>3, <3>4
    <2>2. ByWildcard(PathEnd(n, t), t) /\ PathEnd(n, t) \in ZoneNames
        BY <1>0, <1>3, <1>7, <2>1 DEF PathEnd, p
    <2>3. /\ CutsAbove(PathEnd(n, t)) = {} /\ DataAt(PathEnd(n, t), t) = {}
          /\ InTree(SourceOf(PathEnd(n, t)))
        BY <2>2, PartingAt
    <2>4. Aliases(n, t) = Met
        <3>1. Aliases(n, t) = UNION {FollowedAt(p[i], t) : i \in 0..MAX_CNAME_DEPTH}
            BY DEF Aliases, AliasesOn, p
        <3>2. ASSUME NEW i \in 0..MAX_CNAME_DEPTH, NEW x \in FollowedAt(p[i], t) PROVE x \in Met
            BY <1>6, <1>7, <3>2
        <3>3. ASSUME NEW i \in Before(n, t), NEW x \in AliasAt(w[i], t)
              PROVE  x \in Aliases(n, t)
            BY <1>6, <3>1, <3>3
        <3> QED
            BY <3>1, <3>2, <3>3
    <2> HIDE DEF Met
    <2>5. Returned(n, t).answers = Met
          /\ Returned(n, t).kind = IF Met = {} THEN "NoData" ELSE "Records"
        BY <2>3, <2>4, ExpectedIs
    <2> QED
        BY <1>2, <1>9, <2>5 DEF Met, w
<1> QED
    BY <1>8, <1>9

\* Is a name denied?  The type does not come into it.
Denied(n) == CutsAbove(n) = {} /\ ~InTree(n) /\ ~InTree(SourceOf(n))

LEMMA DeniedForAll ==
    ASSUME BuildInv, Served, NEW n \in ZoneNames, NEW t
    PROVE  lookup(zone, n, t).kind = "NxDomain" <=> Denied(n)
<1>1. DOMAIN Tree = {m \in ZoneNames : InTree(m)}
    BY TreeShape
<1>2. /\ Returned(n, t).answers = Aliases(n, t) \cup DataAt(PathEnd(n, t), t)
      /\ Returned(n, t).kind =
                IF CutsAbove(PathEnd(n, t)) # {} THEN "Referral"
                ELSE IF Returned(n, t).answers # {} THEN "Records"
                ELSE IF InTree(SourceOf(PathEnd(n, t))) THEN "NoData" ELSE "NxDomain"
      /\ lookup(zone, n, t).kind = Returned(n, t).kind
    BY ExpectedIs, LookupIsExpected
<1>3. CASE FollowedAt(n, t) # {}
    <2>1. Returned(n, t).answers # {} /\ InTree(n)
        BY <1>1, <1>2, <1>3, StaysOrLeaves
    <2> QED
        BY <1>2, <2>1 DEF Denied
<1>4. CASE FollowedAt(n, t) = {}
    <2>1. PathEnd(n, t) = n /\ Aliases(n, t) = {}
        BY <1>4, StaysOrLeaves
    <2>2. ~InTree(SourceOf(n)) => Declared(SourceOf(n), t, n) = {}
        BY <1>1, NothingDeclared
    <2>3. InTree(n) => InTree(SourceOf(n))
        BY DEF SourceOf
    <2> QED
        BY <1>2, <2>1, <2>2, <2>3 DEF Denied, DataAt
<1> QED
    BY <1>3, <1>4

LEMMA DenialIgnoresTypeHolds == BuildInv => DenialIgnoresType
<1> SUFFICES ASSUME BuildInv, Served, NEW n \in QueryNames
             PROVE  Cardinality({lookup(zone, n, t).kind = "NxDomain" : t \in QueryTypes}) = 1
    BY DEF DenialIgnoresType
<1>1. n \in ZoneNames /\ QueryTypes # {}
    BY QuestionsAssumption
<1>2. \A t \in QueryTypes : (lookup(zone, n, t).kind = "NxDomain") = Denied(n)
    <2>1. \A t \in QueryTypes : lookup(zone, n, t).kind = "NxDomain" <=> Denied(n)
        BY <1>1, DeniedForAll
    <2>2. Denied(n) \in BOOLEAN
        BY DEF Denied
    <2> QED
        BY <2>1, <2>2
<1>3. {lookup(zone, n, t).kind = "NxDomain" : t \in QueryTypes} = {Denied(n)}
    BY <1>1, <1>2
<1> QED
    BY <1>3, FS_Singleton

\* At or below a delegation every type gets the one referral.
LEMMA ReferredAt ==
    ASSUME BuildInv, Served, NEW n \in ZoneNames, CutsAbove(n) # {}, NEW t
    PROVE  lookup(zone, n, t) = ReferralAt(zone, CutAt(n), <<>>)
<1> DEFINE a == lookup(zone, n, t)
<1>1. FollowedAt(n, t) = {}
    BY DEF FollowedAt
<1>2. PathEnd(n, t) = n /\ Aliases(n, t) = {}
    BY <1>1, StaysOrLeaves
<1>3. Returned(n, t).answers = {}
    BY <1>2, ExpectedIs DEF DataAt
<1>4. /\ a.answers \in Seq(Rrs(t)) /\ ToSet(a.answers) = {}
      /\ a = ReferralAt(zone, CutAt(n), a.answers)
    BY <1>2, <1>3, LookupIsExpected
<1> HIDE DEF a
<1>5. a.answers = <<>>
    BY <1>4, EmptyHoldsNothing
<1> QED
    BY <1>4, <1>5 DEF a

\* An answer is empty exactly when nothing is expected in it, and a referral
\* is empty exactly when the query is for a delegated name.
LEMMA EmptyAnswers ==
    ASSUME BuildInv, Served, NEW n \in ZoneNames, NEW t
    PROVE  LET a == lookup(zone, n, t) IN
           /\ a.answers = <<>> <=> ToSet(a.answers) = {}
           /\ a.kind \in {"Records", "Referral", "NoData", "NxDomain"}
           /\ a.kind = "Records" => a.answers # <<>>
           /\ a.kind # "Referral" => CutsAbove(n) = {}
           /\ a.kind = "Referral" => (a.answers = <<>> <=> CutsAbove(n) # {})
<1> DEFINE a == lookup(zone, n, t)
<1>1. /\ a.kind = Returned(n, t).kind /\ a.answers \in Seq(Rrs(t))
      /\ ToSet(a.answers) = Returned(n, t).answers
    BY LookupIsExpected
<1>2. /\ Returned(n, t).answers = Aliases(n, t) \cup DataAt(PathEnd(n, t), t)
      /\ Returned(n, t).kind =
                IF CutsAbove(PathEnd(n, t)) # {} THEN "Referral"
                ELSE IF Returned(n, t).answers # {} THEN "Records"
                ELSE IF InTree(SourceOf(PathEnd(n, t))) THEN "NoData" ELSE "NxDomain"
    BY ExpectedIs
<1>3. /\ FollowedAt(n, t) \subseteq Aliases(n, t)
      /\ FollowedAt(n, t) = {} => PathEnd(n, t) = n /\ Aliases(n, t) = {}
      /\ FollowedAt(n, t) # {} => CutsAbove(n) = {}
    BY StaysOrLeaves
<1> HIDE DEF a
<1>4. a.answers = <<>> <=> ToSet(a.answers) = {}
    BY <1>1, EmptyHoldsNothing
<1>5. a.kind = "Records" => a.answers # <<>>
    BY <1>1, <1>2, <1>4
<1>6. a.kind # "Referral" => CutsAbove(n) = {}
    BY <1>1, <1>2, <1>3
<1>7. a.kind = "Referral" => (a.answers = <<>> <=> CutsAbove(n) # {})
    <2>1. CASE FollowedAt(n, t) # {}
        BY <1>1, <1>2, <1>3, <1>4, <2>1
    <2>2. CASE FollowedAt(n, t) = {}
        BY <1>1, <1>2, <1>3, <1>4, <2>2 DEF DataAt
    <2> QED
        BY <2>1, <2>2
<1>8. a.kind \in {"Records", "Referral", "NoData", "NxDomain"}
    BY <1>1, <1>2
<1> QED
    BY <1>4, <1>5, <1>6, <1>7, <1>8 DEF a

\* What the handler makes of the lookup.
LEMMA RespondedIs ==
    ASSUME NEW n \in ZoneNames, NEW t
    PROVE  Responded(n, t) = IF t = "ANY" THEN ResolveAny(zone, n) ELSE FromZone(zone, n, t)
<1> DEFINE served == [zone |-> zone, builtins |-> FALSE]
<1>1. contains(n)
    BY NamesAssumption DEF contains
<1>2. served.zone = zone /\ ~served.builtins
    OBVIOUS
<1>3. BuiltinFor(served, n) = {}
    BY <1>2 DEF BuiltinFor
<1>4. Responded(n, t) = resolve_query(served, n, t, [rtype |-> "A", data |-> Text], 0)
    BY DEF Responded
<1> HIDE DEF served
<1> QED
    BY <1>1, <1>2, <1>3, <1>4 DEF resolve_query

LEMMA NegativeIs ==
    ASSUME NEW code, NEW built
    PROVE  LET r == negative(code, built) IN
           r.code = code /\ r.authoritative = TRUE /\ r.answers = <<>> /\ r.authority = {built.soa}
BY DEF negative, Resolved

LEMMA FoundIs ==
    ASSUME NEW answers
    PROVE  found(answers).answers = answers /\ found(answers).authoritative = TRUE
BY DEF found, Resolved

LEMMA ReferralIs ==
    ASSUME NEW a
    PROVE  LET r == referral(a) IN
           /\ r.code = "NoError" /\ r.answers = a.answers /\ r.authority = a.authority
           /\ a.kind = "Referral" => (r.authoritative <=> a.answers # <<>>)
BY DEF referral, Resolved, is_authoritative

LEMMA NegativeCarriesSoaHolds == BuildInv => NegativeCarriesSoa
<1> SUFFICES ASSUME BuildInv, Served, NEW n \in QueryNames, NEW t \in QueryTypes,
                    Responded(n, t).answers = <<>>
             PROVE  Responded(n, t).authority =
                       IF CutsAbove(n) # {} /\ Responded(n, t).code = "NoError"
                       THEN lookup(zone, n, "A").authority ELSE {zone.soa}
    BY DEF NegativeCarriesSoa
<1> DEFINE r == Responded(n, t)
<1>1. n \in ZoneNames
    BY QuestionsAssumption
<1>2. r = IF t = "ANY" THEN ResolveAny(zone, n) ELSE FromZone(zone, n, t)
    BY <1>1, RespondedIs
<1> HIDE DEF r
<1>4. ASSUME NEW x, r = referral(lookup(zone, n, x)), lookup(zone, n, x).kind = "Referral", r.answers = <<>>
      PROVE  CutsAbove(n) # {} /\ r.code = "NoError" /\ r.authority = lookup(zone, n, "A").authority
    <2>1. r.code = "NoError" /\ lookup(zone, n, x).answers = <<>> /\ r.authority = lookup(zone, n, x).authority
        BY <1>4, ReferralIs
    <2>2. CutsAbove(n) # {}
        BY <1>1, <1>4, <2>1, EmptyAnswers
    <2>3. lookup(zone, n, x) = lookup(zone, n, "A")
        BY <1>1, <2>2, ReferredAt
    <2> QED
        BY <2>1, <2>2, <2>3
<1>5. CASE t = "ANY"
    <2> DEFINE a == lookup(zone, n, "CNAME")
    <2>1. CASE ~exists(zone, n)
        <3>1. r = negative("NXDomain", zone)
            BY <1>2, <1>5, <2>1 DEF ResolveAny
        <3>2. r.code = "NXDomain" /\ r.authority = {zone.soa}
            BY <3>1, NegativeIs
        <3> QED
            BY <3>2 DEF r
    <2>2. CASE exists(zone, n)
        <3>1. r = AliasOrHinfo(n, a)
            BY <1>2, <1>5, <2>2 DEF ResolveAny
        <3>2. r.answers = <<>>
            BY DEF r
        <3>3. a.kind = "Records" => a.answers # <<>>
            BY <1>1, EmptyAnswers
        <3> HIDE DEF a
        <3>4. a.kind = "Referral"
            <4>1. CASE a.kind = "Records"
                BY <3>1, <3>2, <3>3, <4>1, FoundIs DEF AliasOrHinfo
            <4>2. CASE a.kind \notin {"Records", "Referral"}
                <5>1. r = found(<<Rr(n, "HINFO", Hinfo)>>)
                    BY <3>1, <4>2 DEF AliasOrHinfo
                <5>2. r.answers = <<Rr(n, "HINFO", Hinfo)>>
                    BY <5>1, FoundIs
                <5> QED
                    BY <3>2, <5>2
            <4> QED
                BY <4>1, <4>2
        <3>5. r = referral(a)
            BY <3>1, <3>4 DEF AliasOrHinfo
        <3> QED
            BY <1>4, <3>2, <3>4, <3>5 DEF a, r
    <2> QED
        BY <2>1, <2>2
<1>6. CASE t # "ANY"
    <2> DEFINE a == lookup(zone, n, t)
    <2>0. r.answers = <<>>
        BY DEF r
    <2>1. ~(t = "SOA" /\ n = Apex)
        <3>1. SUFFICES ASSUME t = "SOA" /\ n = Apex PROVE FALSE
            OBVIOUS
        <3>2. r = found(<<zone.soa>>)
            BY <1>2, <1>6, <3>1 DEF FromZone
        <3>3. r.answers = <<zone.soa>>
            BY <3>2, FoundIs
        <3>4. <<zone.soa>> # <<>>
            OBVIOUS
        <3> HIDE DEF r
        <3> QED
            BY <2>0, <3>3, <3>4
    <2>2. r = AsResolved(zone, a)
        BY <1>2, <1>6, <2>1 DEF FromZone
    <2>3. /\ a.kind \in {"Records", "Referral", "NoData", "NxDomain"}
          /\ a.kind = "Records" => a.answers # <<>>
          /\ a.kind # "Referral" => CutsAbove(n) = {}
        BY <1>1, EmptyAnswers
    <2> HIDE DEF a
    <2>4. CASE a.kind = "Records"
        <3>1. r = found(a.answers)
            BY <2>2, <2>4 DEF AsResolved
        <3>2. r.answers = a.answers
            BY <3>1, FoundIs
        <3> QED
            BY <2>0, <2>3, <2>4, <3>2
    <2>5. CASE a.kind = "Referral"
        <3>1. r = referral(a)
            BY <2>2, <2>5 DEF AsResolved
        <3> QED
            BY <1>4, <2>0, <2>5, <3>1 DEF a, r
    <2>6. CASE a.kind \in {"NoData", "NxDomain"}
        <3>1. \E code : r = negative(code, zone)
            BY <2>2, <2>6 DEF AsResolved
        <3>2. PICK code : r = negative(code, zone)
            BY <3>1
        <3>3. r.authority = {zone.soa}
            BY <3>2, NegativeIs
        <3>4. CutsAbove(n) = {}
            BY <2>3, <2>6
        <3> QED
            BY <3>3, <3>4 DEF r
    <2> QED
        BY <2>3, <2>4, <2>5, <2>6
<1> QED
    BY <1>5, <1>6

\* In every zone that is served, every lookup returns what RFC 1034 section
\* 4.3.2 and RFC 4592 derive from the blocks of the file, whatever the file:
\* the node tree, the cut pass over the canonical order, the occlusion, the
\* bisection for the closest encloser and the chase of up to eight aliases lose
\* and invent nothing, except that the alias of a wildcard is not substituted
\* and ends the answer (zone.rs:1032-1044); a denial does not depend on the
\* type, and a negative response carries the SOA (zone.rs resolve, handler.rs
\* negative).
THEOREM LookupsMatchTheRFCs == BuildSpec => []LookupMatchesRFC
<1>1. BuildInv => LookupMatchesRFC
    BY LookupAgreesHolds, DenialIgnoresTypeHolds, NegativeCarriesSoaHolds DEF LookupMatchesRFC
<1> QED
    BY <1>1, BuilderKeepsBooks, PTL

-----------------------------------------------------------------------------
(* Delegations. *)

\* The SOA of a zone is the apex's.
LEMMA SoaOwner ==
    ASSUME BuildInv, Served
    PROVE  zone.soa.owner = Apex
<1> DEFINE mine == [owner |-> Apex, rtype |-> "SOA", ttl |-> 0, data |-> Soa]
           out == emit(Tree[Apex], "SOA", Apex)
<1>1. zone.soa = IF soa THEN mine ELSE out[1]
    <2>1. zone = Finish(scratch, soa, counted)
        BY DEF BuildInv
    <2> QED
        BY <2>1 DEF Finish, Tree
<1>2. CASE soa
    BY <1>1, <1>2
<1>3. CASE ~soa
    <2>1. Apex \in DOMAIN Tree
        BY TreeShape
    <2>2. /\ IsRuns(Tree[Apex], Runs, AnyValue)
          /\ ToSet(out) = Declared(Apex, "SOA", Apex)
          /\ NodeRecords(Tree[Apex], "SOA", Apex) = Declared(Apex, "SOA", Apex)
          /\ Has(Tree[Apex], "SOA") <=> Declared(Apex, "SOA", Apex) # {}
        BY <2>1, NodeDeclares
    <2>3. out \in Seq(Declared(Apex, "SOA", Apex))
        BY <2>2, Emitted
    <2>4. Len(Values(Tree[Apex], "SOA")) = 1
        <3>1. check_invariants(Tree, soa)
            BY ServedFacts
        <3> QED
            BY <1>3, <3>1 DEF check_invariants
    <2>5. ToSet(Values(Tree[Apex], "SOA")) # {}
        <3> DEFINE v == Values(Tree[Apex], "SOA")
        <3>1. v \in Seq(AnyValue)
            BY <2>2, ValuesHeld
        <3> HIDE DEF v
        <3>2. v # <<>>
            BY <2>4 DEF v
        <3> QED
            BY <3>1, <3>2, EmptyHoldsNothing DEF v
    <2>6. Has(Tree[Apex], "SOA")
        <3>1. {x \in ToSet(Tree[Apex]) : x.rtype = "SOA"} # {}
            BY <2>2, <2>5, ValuesHeld
        <3> QED
            BY <3>1 DEF Has, ToSet
    <2> HIDE DEF out
    <2>7. out # <<>>
        BY <2>2, <2>3, <2>6, EmptyHoldsNothing
    <2>8. out[1] \in Declared(Apex, "SOA", Apex)
        <3>1. Len(out) \in Nat \ {0} /\ 1 \in 1..Len(out)
            BY <2>3, <2>7, EmptySeq, LenProperties
        <3> QED
            BY <2>3, <3>1, ElementOfSeq
    <2>9. \A x \in Declared(Apex, "SOA", Apex) : x.owner = Apex
        BY DEF Declared
    <2> QED
        BY <1>1, <1>3, <2>8, <2>9
<1> QED
    BY <1>2, <1>3

\* Records carry the owner and the type they were asked for.
LEMMA DeclaredFor ==
    ASSUME NEW s, NEW t, NEW o, NEW x \in Declared(s, t, o)
    PROVE  x.owner = o /\ x.rtype = t
BY DEF Declared

\* The owners of an answer are not delegated.
LEMMA OwnersAreOurs ==
    ASSUME NEW n, NEW t, NEW x \in Returned(n, t).answers
    PROVE  CutsAbove(x.owner) = {}
<1>1. x \in Aliases(n, t) \/ x \in DataAt(PathEnd(n, t), t)
    BY ExpectedIs
<1>2. CASE x \in Aliases(n, t)
    <2>1. PICK i \in 0..MAX_CNAME_DEPTH : x \in FollowedAt(Path(n, t)[i], t)
        BY <1>2 DEF Aliases, AliasesOn
    <2> DEFINE m == Path(n, t)[i]
    <2>2. CutsAbove(m) = {} /\ x \in Declared(m, "CNAME", m)
        BY <2>1 DEF FollowedAt
    <2> HIDE DEF m
    <2> QED
        BY <2>2, DeclaredFor
<1>3. CASE x \in DataAt(PathEnd(n, t), t)
    <2> DEFINE m == PathEnd(n, t)
    <2>1. CutsAbove(m) = {} /\ x \in Declared(SourceOf(m), t, m)
        BY <1>3 DEF DataAt
    <2> HIDE DEF m
    <2> QED
        BY <2>1, DeclaredFor
<1> QED
    BY <1>1, <1>2, <1>3

LEMMA GlueIsNeverAnAnswerHolds == BuildInv => GlueIsNeverAnAnswer
<1> SUFFICES ASSUME BuildInv, Served, NEW n \in QueryNames, NEW t \in QueryTypes \ {"ANY"}
             PROVE  /\ \A x \in ToSet(Responded(n, t).answers) : CutsAbove(x.owner) = {}
                    /\ Responded(n, t).authoritative <=> CutsAbove(n) = {}
    BY DEF GlueIsNeverAnAnswer
<1> DEFINE r == Responded(n, t)
           a == lookup(zone, n, t)
<1>1. n \in ZoneNames
    BY QuestionsAssumption
<1>2. r = FromZone(zone, n, t)
    BY <1>1, RespondedIs
<1>3. CutsAbove(Apex) = {}
    <2>1. Apex \in ZoneNames
        BY DEF Apex, ZoneNames
    <2>2. \A m \in Prefixes(Apex) : m = Apex
        <3>1. \A m \in ZoneNames : IsPrefix(m, Apex) => Len(m) <= Len(Apex)
            BY <2>1, PrefixMeans
        <3>2. Len(Apex) = 0
            BY DEF Apex
        <3>3. \A m \in ZoneNames : IsPrefix(m, Apex) => Len(m) = Len(Apex)
            BY <3>1, <3>2, NameFacts
        <3>4. \A m \in ZoneNames : IsPrefix(m, Apex) => m = Apex
            BY <2>1, <3>3, PrefixOrder
        <3> QED
            BY <2>1, <3>4, PrefixesAre
    <2> QED
        BY <2>2 DEF CutsAbove
<1> HIDE DEF r, a
<1>4. CASE t = "SOA" /\ n = Apex
    <2>1. r = found(<<zone.soa>>)
        BY <1>2, <1>4 DEF FromZone
    <2>2. r.answers = <<zone.soa>> /\ r.authoritative = TRUE
        BY <2>1, FoundIs
    <2>3. ToSet(r.answers) = {zone.soa}
        BY <2>2 DEF ToSet
    <2>4. zone.soa.owner = Apex
        BY SoaOwner
    <2> QED
        BY <1>3, <1>4, <2>2, <2>3, <2>4 DEF r
<1>5. CASE ~(t = "SOA" /\ n = Apex)
    <2>1. r = AsResolved(zone, a)
        BY <1>2, <1>5 DEF FromZone, a
    <2>2. /\ a.kind \in {"Records", "Referral", "NoData", "NxDomain"}
          /\ a.kind # "Referral" => CutsAbove(n) = {}
          /\ a.kind = "Referral" => (a.answers = <<>> <=> CutsAbove(n) # {})
        BY <1>1, EmptyAnswers DEF a
    <2>3. \A x \in ToSet(a.answers) : CutsAbove(x.owner) = {}
        <3>1. ToSet(a.answers) = Returned(n, t).answers
            BY <1>1, LookupIsExpected DEF a
        <3> QED
            BY <3>1, OwnersAreOurs
    <2>4. CASE a.kind = "Records"
        <3>1. r = found(a.answers)
            BY <2>1, <2>4 DEF AsResolved
        <3>2. r.answers = a.answers /\ r.authoritative = TRUE /\ CutsAbove(n) = {}
            BY <2>2, <2>4, <3>1, FoundIs
        <3> QED
            BY <2>3, <3>2 DEF r
    <2>5. CASE a.kind = "Referral"
        <3>1. r = referral(a)
            BY <2>1, <2>5 DEF AsResolved
        <3>2. r.answers = a.answers /\ (r.authoritative <=> a.answers # <<>>)
            BY <2>5, <3>1, ReferralIs
        <3>3. r.authoritative <=> CutsAbove(n) = {}
            BY <2>2, <2>5, <3>2
        <3> QED
            BY <2>3, <3>2, <3>3 DEF r
    <2>6. CASE a.kind \in {"NoData", "NxDomain"}
        <3>1. \E code : r = negative(code, zone)
            BY <2>1, <2>6 DEF AsResolved
        <3>2. PICK code : r = negative(code, zone)
            BY <3>1
        <3>3. r.answers = <<>> /\ r.authoritative = TRUE
            BY <3>2, NegativeIs
        <3>4. ToSet(r.answers) = {}
            BY <3>3 DEF ToSet
        <3>5. CutsAbove(n) = {}
            BY <2>2, <2>6
        <3> QED
            BY <3>3, <3>4, <3>5 DEF r
    <2> QED
        BY <2>2, <2>4, <2>5, <2>6
<1> QED
    BY <1>4, <1>5

\* What a delegated node keeps of a type is all of it or nothing.
KeptTypes(n) ==
    (IF n = Cut[n] THEN {"NS"} ELSE {})
    \cup (IF n \in ns_targets(Tree[Cut[n]]) THEN {"A", "AAAA"} ELSE {})

LEMMA KeptOf ==
    ASSUME BuildInv, Served, NEW n \in DOMAIN Tree, Cut[n] # NoCut
    PROVE  /\ zone.nodes[n] = Retain(Tree[n], KeptTypes(n))
           /\ IsRuns(zone.nodes[n], Runs, AnyValue)
           /\ ToSet(zone.nodes[n]) = {r \in ToSet(Tree[n]) : r.rtype \in KeptTypes(n)}
           /\ \A t, o : ToSet(emit(zone.nodes[n], t, o)) =
                           IF t \in KeptTypes(n) THEN Declared(n, t, o) ELSE {}
           /\ \A t \in KeptTypes(n) : ToSet(Values(zone.nodes[n], t)) = ToSet(Values(Tree[n], t))
<1> DEFINE kept == zone.nodes[n]
           runs == Tree[n]
<1>1. kept = Retain(runs, KeptTypes(n))
    BY ServedFacts DEF apply_cut, KeptTypes
<1>2. IsRuns(runs, Runs, AnyValue)
    BY NodeDeclares
<1>3. \A t, o : NodeRecords(runs, t, o) = Declared(n, t, o)
    BY NodeDeclares
<1> HIDE DEF kept, runs
<1>4. kept \in Seq(Runs) /\ ToSet(kept) = {r \in ToSet(runs) : r.rtype \in KeptTypes(n)}
    <2>1. runs \in Seq(Runs)
        BY <1>2 DEF IsRuns
    <2> QED
        BY <1>1, <2>1, Retained
<1>5. IsRuns(kept, Runs, AnyValue)
    BY <1>2, <1>4 DEF IsRuns
<1>6. ASSUME NEW t PROVE {r \in ToSet(kept) : r.rtype = t} =
                            IF t \in KeptTypes(n) THEN {r \in ToSet(runs) : r.rtype = t} ELSE {}
    BY <1>4
<1>7. ASSUME NEW t, NEW o
      PROVE  ToSet(emit(kept, t, o)) = IF t \in KeptTypes(n) THEN Declared(n, t, o) ELSE {}
    <2>1. ToSet(emit(kept, t, o)) = NodeRecords(kept, t, o)
        BY <1>5, Emitted
    <2>2. CASE t \in KeptTypes(n)
        <3>1. NodeRecords(kept, t, o) = NodeRecords(runs, t, o)
            BY <1>6, <2>2 DEF NodeRecords
        <3> QED
            BY <1>3, <2>1, <2>2, <3>1
    <2>3. CASE t \notin KeptTypes(n)
        <3>1. NodeRecords(kept, t, o) = {}
            BY <1>6, <2>3 DEF NodeRecords
        <3> QED
            BY <2>1, <2>3, <3>1
    <2> QED
        BY <2>2, <2>3
<1>8. ASSUME NEW t \in KeptTypes(n) PROVE ToSet(Values(kept, t)) = ToSet(Values(runs, t))
    <2>1. ToSet(Values(kept, t)) = UNION {ToSet(r.rdata) : r \in {x \in ToSet(kept) : x.rtype = t}}
        BY <1>5, ValuesHeld
    <2>2. ToSet(Values(runs, t)) = UNION {ToSet(r.rdata) : r \in {x \in ToSet(runs) : x.rtype = t}}
        BY <1>2, ValuesHeld
    <2> QED
        BY <1>6, <2>1, <2>2
<1> QED
    BY <1>1, <1>4, <1>5, <1>7, <1>8 DEF kept, runs

\* The records a node of the arena still holds.
LEMMA SentFrom ==
    ASSUME BuildInv, Served, NEW n \in DOMAIN Tree, NEW t, NEW o
    PROVE  ToSet(emit(zone.nodes[n], t, o)) =
              IF Cut[n] = NoCut \/ t \in KeptTypes(n) THEN Declared(n, t, o) ELSE {}
<1>1. CASE Cut[n] = NoCut
    <2>1. zone.nodes[n] = Tree[n]
        BY <1>1, ServedFacts
    <2> QED
        BY <1>1, <2>1, NodeDeclares
<1>2. CASE Cut[n] # NoCut
    BY <1>2, KeptOf
<1> QED
    BY <1>1, <1>2

\* Addresses are those of the name, as far as the arena still holds them.
LEMMA AddressesAre ==
    ASSUME BuildInv, Served, NEW target, NEW x \in Addresses(zone.nodes, target)
    PROVE  /\ target \in DOMAIN Tree /\ x.owner = target /\ x.rtype \in {"A", "AAAA"}
           /\ Cut[target] = NoCut \/ x.rtype \in KeptTypes(target)
<1>1. DOMAIN zone.nodes = DOMAIN Tree
    BY ServedFacts
<1>2. /\ target \in DOMAIN Tree
      /\ \/ x \in ToSet(emit(zone.nodes[target], "A", target))
         \/ x \in ToSet(emit(zone.nodes[target], "AAAA", target))
    BY <1>1 DEF Addresses
<1>3. ASSUME NEW t \in {"A", "AAAA"}, x \in ToSet(emit(zone.nodes[target], t, target))
      PROVE  x.owner = target /\ x.rtype = t /\ (Cut[target] = NoCut \/ t \in KeptTypes(target))
    <2>1. x \in Declared(target, t, target) /\ (Cut[target] = NoCut \/ t \in KeptTypes(target))
        BY <1>2, <1>3, SentFrom
    <2> QED
        BY <2>1, DeclaredFor
<1> QED
    BY <1>2, <1>3

\* The servers a delegation names.
LEMMA ServersAre ==
    ASSUME BuildInv, NEW c \in DOMAIN Tree, NEW v
    PROVE  v \in ns_targets(Tree[c]) <=> \E x \in Declared(c, "NS", c) : x.data = v
<1>1. IsRuns(Tree[c], Runs, AnyValue) /\ NodeRecords(Tree[c], "NS", c) = Declared(c, "NS", c)
    BY NodeDeclares
<1>2. ns_targets(Tree[c]) = UNION {ToSet(r.rdata) : r \in {x \in ToSet(Tree[c]) : x.rtype = "NS"}}
    BY <1>1, ValuesHeld DEF ns_targets
<1>3. ASSUME v \in ns_targets(Tree[c]) PROVE \E x \in Declared(c, "NS", c) : x.data = v
    <2>1. PICK r \in {x \in ToSet(Tree[c]) : x.rtype = "NS"} : v \in ToSet(r.rdata)
        BY <1>2, <1>3
    <2>2. RecordOf(c, "NS", r.ttl, v) \in RunRecords(r, "NS", c)
        BY <2>1 DEF RunRecords, RecordOf
    <2>3. RecordOf(c, "NS", r.ttl, v) \in Declared(c, "NS", c)
        BY <1>1, <2>1, <2>2 DEF NodeRecords
    <2>4. RecordOf(c, "NS", r.ttl, v).data = v
        BY DEF RecordOf
    <2> QED
        BY <2>3, <2>4
<1>4. ASSUME NEW x \in Declared(c, "NS", c), x.data = v PROVE v \in ns_targets(Tree[c])
    <2>1. PICK r \in {y \in ToSet(Tree[c]) : y.rtype = "NS"} : x \in RunRecords(r, "NS", c)
        BY <1>1 DEF NodeRecords
    <2>2. v \in ToSet(r.rdata)
        BY <1>4, <2>1 DEF RunRecords
    <2> QED
        BY <1>2, <2>1, <2>2
<1> QED
    BY <1>3, <1>4

\* A referral holds the NS RRset of its delegation, and the addresses its
\* servers have in the arena.
LEMMA ReferralFacts ==
    ASSUME BuildInv, Served
    PROVE  /\ DOMAIN zone.referrals = {c \in DOMAIN Tree : Cut[c] = c}
           /\ \A c \in DOMAIN zone.referrals :
                 /\ Cut[c] # NoCut
                 /\ zone.referrals[c].authority = Declared(c, "NS", c)
                 /\ ns_targets(zone.nodes[c]) = ns_targets(Tree[c])
                 /\ zone.referrals[c].additional =
                       UNION {Addresses(zone.nodes, v) : v \in ns_targets(Tree[c])}
<1>1. DOMAIN zone.nodes = DOMAIN Tree /\ zone.referrals = build_referrals(zone.nodes, Cut)
    BY ServedFacts
<1>2. /\ DOMAIN zone.referrals = {c \in DOMAIN Tree : Cut[c] = c}
      /\ \A c \in DOMAIN zone.referrals :
            zone.referrals[c] = [authority |-> ToSet(emit(zone.nodes[c], "NS", c)),
                                 additional |-> UNION {Addresses(zone.nodes, v) : v \in ns_targets(zone.nodes[c])}]
    BY <1>1 DEF build_referrals
<1>3. ASSUME NEW c \in DOMAIN zone.referrals
      PROVE  /\ Cut[c] # NoCut
             /\ zone.referrals[c].authority = Declared(c, "NS", c)
             /\ ns_targets(zone.nodes[c]) = ns_targets(Tree[c])
             /\ zone.referrals[c].additional =
                   UNION {Addresses(zone.nodes, v) : v \in ns_targets(Tree[c])}
    <2>1. c \in DOMAIN Tree /\ Cut[c] = c
        BY <1>2
    <2>2. c \in ZoneNames
        BY <2>1, TreeShape
    <2>3. Cut[c] # NoCut
        BY <2>1, <2>2, NamesAssumption
    <2>4. "NS" \in KeptTypes(c)
        BY <2>1 DEF KeptTypes
    <2>5. ToSet(emit(zone.nodes[c], "NS", c)) = Declared(c, "NS", c)
        BY <2>1, <2>4, SentFrom
    <2>6. ns_targets(zone.nodes[c]) = ns_targets(Tree[c])
        BY <2>1, <2>3, <2>4, KeptOf DEF ns_targets
    <2>7. zone.referrals[c] = [authority |-> ToSet(emit(zone.nodes[c], "NS", c)),
                               additional |-> UNION {Addresses(zone.nodes, v) : v \in ns_targets(zone.nodes[c])}]
        BY <1>2
    <2>8. zone.referrals[c].authority = ToSet(emit(zone.nodes[c], "NS", c))
        BY <2>7
    <2>9. zone.referrals[c].additional = UNION {Addresses(zone.nodes, v) : v \in ns_targets(zone.nodes[c])}
        BY <2>7
    <2> QED
        BY <2>3, <2>5, <2>6, <2>8, <2>9
<1> QED
    BY <1>2, <1>3

LEMMA ReferralsAreUsableHolds == BuildInv => ReferralsAreUsable
<1> SUFFICES ASSUME BuildInv, Served, NEW n \in QueryNames, NEW t \in QueryTypes,
                    lookup(zone, n, t).kind = "Referral"
             PROVE  /\ lookup(zone, n, t).authority # {}
                    /\ \A x \in lookup(zone, n, t).authority :
                          x.rtype = "NS" /\ x.owner \in CutsAbove(Final(n, t))
                    /\ \A x \in lookup(zone, n, t).additional :
                          /\ x.rtype \in {"A", "AAAA"}
                          /\ \E ns \in lookup(zone, n, t).authority : ns.data = x.owner
    BY DEF ReferralsAreUsable
<1> DEFINE a == lookup(zone, n, t)
           f == PathEnd(n, t)
           c == CutAt(f)
<1>1. n \in ZoneNames
    BY QuestionsAssumption
<1>2. f \in ZoneNames
    BY <1>1, StaysOrLeaves
<1>3. CutsAbove(f) # {}
    BY <1>1, LookupIsExpected, ExpectedIs
<1>12. f = Final(n, t)
    <2>1. MAX_CNAME_DEPTH \in 0..MAX_CNAME_DEPTH
        BY DEF MAX_CNAME_DEPTH
    <2>2. ASSUME NEW k, ByWildcard(Walk(n, t)[k], t), f = Walk(n, t)[k] PROVE FALSE
        BY <1>2, <1>3, <2>2, PartingAt
    <2> QED
        BY <1>1, <2>1, <2>2, Parting DEF PathEnd, Final
<1>4. c \in CutsAbove(f) /\ c \in DOMAIN Tree /\ Cut[c] = c
    BY <1>2, <1>3, StepAtCut
<1>5. a = ReferralAt(zone, c, a.answers)
    BY <1>1, <1>3, LookupIsExpected
<1>6. Declared(c, "NS", c) # {}
    BY <1>2, <1>4, CutsAboveMeans
<1> HIDE DEF a, f, c
<1>7. a.authority = zone.referrals[c].authority /\ a.additional = zone.referrals[c].additional
    BY <1>5 DEF ReferralAt
<1>8. /\ a.authority = Declared(c, "NS", c)
      /\ a.additional = UNION {Addresses(zone.nodes, v) : v \in ns_targets(Tree[c])}
    BY <1>4, <1>7, ReferralFacts
<1>9. \A x \in a.authority : x.rtype = "NS" /\ x.owner \in CutsAbove(f)
    BY <1>4, <1>8, DeclaredFor
<1>10. ASSUME NEW x \in a.additional
       PROVE  x.rtype \in {"A", "AAAA"} /\ \E ns \in a.authority : ns.data = x.owner
    <2>1. PICK v \in ns_targets(Tree[c]) : x \in Addresses(zone.nodes, v)
        BY <1>8
    <2>2. x.owner = v /\ x.rtype \in {"A", "AAAA"}
        BY <2>1, AddressesAre
    <2>3. \E ns \in Declared(c, "NS", c) : ns.data = v
        BY <1>4, <2>1, ServersAre
    <2> QED
        BY <1>8, <2>2, <2>3
<1>11. a.authority # {}
    BY <1>6, <1>8
<1> QED
    BY <1>9, <1>10, <1>11, <1>12 DEF a

\* No zone answers from at or below a delegation, whatever the nesting and
\* whichever alias led there; AA comes off exactly for names that are
\* delegated; and a referral names the servers of a delegation above the end of
\* the walk, with addresses of those servers and no others (zone.rs:972-981,
\* 690-710).
THEOREM DelegationsHonoured == BuildSpec => []DelegationsAreHonoured
<1>1. BuildInv => DelegationsAreHonoured
    BY GlueIsNeverAnAnswerHolds, ReferralsAreUsableHolds DEF DelegationsAreHonoured
<1> QED
    BY <1>1, BuilderKeepsBooks, PTL

-----------------------------------------------------------------------------
(* RRsets. *)

\* The records of one owner and type have one TTL.
LEMMA OneTtl ==
    ASSUME BuildInv, Served, NEW s, NEW t, NEW o, NEW x \in Declared(s, t, o), NEW y \in Declared(s, t, o)
    PROVE  x.ttl = y.ttl
<1>1. s \in DOMAIN Tree
    BY NothingDeclared
<1> DEFINE runs == Tree[s]
<1>2. NodeRecords(runs, t, o) = Declared(s, t, o)
    BY <1>1, NodeDeclares
<1>3. \A i, j \in DOMAIN runs : runs[i].rtype = runs[j].rtype => i = j
    BY <1>1, CheckedNode
<1> HIDE DEF runs
<1>4. PICK p \in {r \in ToSet(runs) : r.rtype = t} : x \in RunRecords(p, t, o)
    BY <1>2 DEF NodeRecords
<1>5. PICK q \in {r \in ToSet(runs) : r.rtype = t} : y \in RunRecords(q, t, o)
    BY <1>2 DEF NodeRecords
<1>6. p = q
    <2>1. PICK i \in DOMAIN runs : p = runs[i]
        BY <1>4 DEF ToSet
    <2>2. PICK j \in DOMAIN runs : q = runs[j]
        BY <1>5 DEF ToSet
    <2> QED
        BY <1>3, <1>4, <1>5, <2>1, <2>2
<1>7. x.ttl = p.ttl
    BY <1>4 DEF RunRecords
<1>8. y.ttl = q.ttl
    BY <1>5 DEF RunRecords
<1> QED
    BY <1>6, <1>7, <1>8

\* A record is in an answer with all that is declared beside it.
LEMMA AnsweredWhole ==
    ASSUME BuildInv, Served, NEW n \in ZoneNames, NEW t, NEW x \in Returned(n, t).answers
    PROVE  /\ x \in Declared(SourceOf(x.owner), x.rtype, x.owner)
           /\ Declared(SourceOf(x.owner), x.rtype, x.owner) \subseteq Returned(n, t).answers
<1>0. Returned(n, t).answers = Aliases(n, t) \cup DataAt(PathEnd(n, t), t)
    BY ExpectedIs
<1>1. CASE x \in Aliases(n, t)
    <2>1. PICK i \in 0..MAX_CNAME_DEPTH : x \in FollowedAt(Path(n, t)[i], t)
        BY <1>1 DEF Aliases, AliasesOn
    <2> DEFINE m == Path(n, t)[i]
    <2>2. FollowedAt(m, t) = Declared(m, "CNAME", m)
        BY <2>1 DEF FollowedAt
    <2>3. FollowedAt(m, t) \subseteq Aliases(n, t)
        BY DEF Aliases, AliasesOn
    <2> HIDE DEF m
    <2>4. x.owner = m /\ x.rtype = "CNAME"
        BY <2>1, <2>2, DeclaredFor DEF m
    <2>5. m \in DOMAIN Tree
        BY <2>1, <2>2, NothingDeclared DEF m
    <2>6. SourceOf(m) = m
        BY <2>5, TreeShape DEF SourceOf
    <2> QED
        BY <1>0, <2>1, <2>2, <2>3, <2>4, <2>6 DEF m
<1>2. CASE x \in DataAt(PathEnd(n, t), t)
    <2> DEFINE m == PathEnd(n, t)
    <2>1. x \in Declared(SourceOf(m), t, m) /\ DataAt(m, t) = Declared(SourceOf(m), t, m)
        BY <1>2 DEF DataAt
    <2>2. x.owner = m /\ x.rtype = t
        BY <2>1, DeclaredFor
    <2> HIDE DEF m
    <2> QED
        BY <1>0, <2>1, <2>2 DEF m
<1> QED
    BY <1>0, <1>1, <1>2

LEMMA RRsetsAreAtomicHolds == BuildInv => RRsetsAreAtomic
<1> SUFFICES ASSUME BuildInv, Served, NEW n \in QueryNames, NEW t \in QueryTypes \ {"ANY"},
                    NEW x \in ToSet(lookup(zone, n, t).answers)
             PROVE  /\ \A y \in ToSet(lookup(zone, n, t).answers) :
                          y.owner = x.owner /\ y.rtype = x.rtype => y.ttl = x.ttl
                    /\ Declared(SourceOf(x.owner), x.rtype, x.owner)
                          \subseteq ToSet(lookup(zone, n, t).answers)
    BY DEF RRsetsAreAtomic
<1>1. n \in ZoneNames
    BY QuestionsAssumption
<1>2. ToSet(lookup(zone, n, t).answers) = Returned(n, t).answers
    BY <1>1, LookupIsExpected
<1>3. Declared(SourceOf(x.owner), x.rtype, x.owner) \subseteq Returned(n, t).answers
    BY <1>1, <1>2, AnsweredWhole
<1>4. ASSUME NEW y \in Returned(n, t).answers, y.owner = x.owner, y.rtype = x.rtype
      PROVE  y.ttl = x.ttl
    <2>1. x \in Declared(SourceOf(x.owner), x.rtype, x.owner)
        BY <1>1, <1>2, AnsweredWhole
    <2>2. y \in Declared(SourceOf(y.owner), y.rtype, y.owner)
        BY <1>1, <1>4, AnsweredWhole
    <2>3. y \in Declared(SourceOf(x.owner), x.rtype, x.owner)
        BY <1>4, <2>2
    <2> QED
        BY <2>1, <2>3, OneTtl
<1> QED
    BY <1>2, <1>3, <1>4

\* An RRset is answered whole and with one TTL, in however many blocks the file
\* declares it (zone.rs:1552-1586).
THEOREM RRsetsAnsweredWhole == BuildSpec => []RRsetsAreAtomic
<1> QED
    BY RRsetsAreAtomicHolds, BuilderKeepsBooks, PTL

-----------------------------------------------------------------------------
(* Nothing is dropped without a word. *)

\* Everything that travels in a referral.
Referred == UNION {zone.referrals[c].authority \cup zone.referrals[c].additional :
                      c \in DOMAIN zone.referrals}

\* Is a type of a node still in the arena?
Kept(n, t) == Cut[n] = NoCut \/ t \in KeptTypes(n)

LEMMA OccludedIs ==
    ASSUME BuildInv, Served, NEW n \in DOMAIN Tree, NEW t, Declared(n, t, n) # {}
    PROVE  <<n, t>> \in zone.occluded <=> ~Kept(n, t)
<1>1. DOMAIN zone.nodes = DOMAIN Tree
    BY ServedFacts
<1>2. zone.occluded = UNION {{<<m, run.rtype>> : run \in ToSet(Tree[m]) \ ToSet(zone.nodes[m])} :
                                m \in DOMAIN Tree}
    <2>1. zone = Finish(scratch, soa, counted)
        BY DEF BuildInv
    <2>2. zone.nodes = [m \in DOMAIN Tree |-> apply_cut(Tree, Cut[m], m)]
        BY <2>1 DEF Finish, Tree, Cut
    <2>3. zone.occluded = UNION {{<<m, run.rtype>> :
                  run \in ToSet(Tree[m]) \ ToSet([k \in DOMAIN Tree |-> apply_cut(Tree, Cut[k], k)][m])} :
                                m \in DOMAIN Tree}
        BY <2>1 DEF Finish, Tree, Cut
    <2> QED
        BY <2>2, <2>3
<1>3. <<n, t>> \in zone.occluded <=> \E run \in ToSet(Tree[n]) \ ToSet(zone.nodes[n]) : run.rtype = t
    <2>1. ASSUME <<n, t>> \in zone.occluded
          PROVE  \E run \in ToSet(Tree[n]) \ ToSet(zone.nodes[n]) : run.rtype = t
        <3>1. PICK m \in DOMAIN Tree :
                 <<n, t>> \in {<<m, run.rtype>> : run \in ToSet(Tree[m]) \ ToSet(zone.nodes[m])}
            BY <1>2, <2>1
        <3> QED
            BY <3>1
    <2>2. ASSUME NEW run \in ToSet(Tree[n]) \ ToSet(zone.nodes[n]), run.rtype = t
          PROVE  <<n, t>> \in zone.occluded
        BY <1>2, <2>2
    <2> QED
        BY <2>1, <2>2
<1>4. \E run \in ToSet(Tree[n]) : run.rtype = t
    BY NodeDeclares DEF Has, ToSet
<1>5. CASE Cut[n] = NoCut
    <2>1. zone.nodes[n] = Tree[n]
        BY <1>5, ServedFacts
    <2> QED
        BY <1>3, <1>5, <2>1 DEF Kept
<1>6. CASE Cut[n] # NoCut
    <2>1. ToSet(zone.nodes[n]) = {r \in ToSet(Tree[n]) : r.rtype \in KeptTypes(n)}
        BY <1>6, KeptOf
    <2> QED
        BY <1>3, <1>4, <1>6, <2>1 DEF Kept
<1> QED
    BY <1>5, <1>6

\* What a delegated node keeps travels in a referral, and what it loses does not.
LEMMA ReferredIs ==
    ASSUME BuildInv, Served, NEW n \in DOMAIN Tree, Cut[n] # NoCut, NEW t
    PROVE  /\ t \in KeptTypes(n) => Declared(n, t, n) \subseteq Referred
           /\ t \notin KeptTypes(n) => \A x \in Declared(n, t, n) : x \notin Referred
<1> DEFINE c == Cut[n]
<1>1. DOMAIN zone.nodes = DOMAIN Tree
    BY ServedFacts
<1>2. c \in DOMAIN Tree /\ Cut[c] = c
    BY CutIsAbove
<1>3. c \in DOMAIN zone.referrals
    BY <1>2, ReferralFacts
<1>4. n \in ZoneNames /\ contains(n)
    BY TreeShape, NamesAssumption DEF contains
<1>5. KeptTypes(n) = (IF n = c THEN {"NS"} ELSE {})
                     \cup (IF n \in ns_targets(Tree[c]) THEN {"A", "AAAA"} ELSE {})
    BY DEF KeptTypes
<1>6. /\ zone.referrals[c].authority = Declared(c, "NS", c)
      /\ zone.referrals[c].additional = UNION {Addresses(zone.nodes, v) : v \in ns_targets(Tree[c])}
    BY <1>3, ReferralFacts
<1> HIDE DEF c
<1>7. ASSUME t \in KeptTypes(n) PROVE Declared(n, t, n) \subseteq Referred
    <2>1. CASE n = c /\ t = "NS"
        BY <1>3, <1>6, <2>1 DEF Referred
    <2>2. CASE n \in ns_targets(Tree[c]) /\ t \in {"A", "AAAA"}
        <3>1. ToSet(emit(zone.nodes[n], t, n)) = Declared(n, t, n)
            BY <1>7, SentFrom
        <3>2. Declared(n, t, n) \subseteq Addresses(zone.nodes, n)
            BY <1>1, <1>4, <2>2, <3>1 DEF Addresses
        <3>3. Addresses(zone.nodes, n) \subseteq zone.referrals[c].additional
            BY <1>6, <2>2
        <3>4. zone.referrals[c].additional \subseteq Referred
            BY <1>3 DEF Referred
        <3> QED
            BY <3>2, <3>3, <3>4
    <2> QED
        BY <1>5, <1>7, <2>1, <2>2
<1>8. ASSUME NEW x \in Declared(n, t, n), x \in Referred PROVE t \in KeptTypes(n)
    <2>1. PICK d \in DOMAIN zone.referrals :
             x \in zone.referrals[d].authority \/ x \in zone.referrals[d].additional
        BY <1>8 DEF Referred
    <2>2. /\ d \in DOMAIN Tree /\ Cut[d] = d
          /\ zone.referrals[d].authority = Declared(d, "NS", d)
          /\ zone.referrals[d].additional = UNION {Addresses(zone.nodes, v) : v \in ns_targets(Tree[d])}
        BY <2>1, ReferralFacts
    <2>3. x.owner = n /\ x.rtype = t
        BY <1>8, DeclaredFor
    <2>4. CASE x \in zone.referrals[d].authority
        <3>1. x.owner = d /\ x.rtype = "NS"
            BY <2>2, <2>4, DeclaredFor
        <3> QED
            BY <1>5, <2>2, <2>3, <3>1 DEF c
    <2>5. CASE x \in zone.referrals[d].additional
        <3>1. PICK v \in ns_targets(Tree[d]) : x \in Addresses(zone.nodes, v)
            BY <2>2, <2>5
        <3>2. x.owner = v /\ (Cut[v] = NoCut \/ x.rtype \in KeptTypes(v))
            BY <3>1, AddressesAre
        <3> QED
            BY <2>3, <3>2
    <2> QED
        BY <2>1, <2>4, <2>5
<1> QED
    BY <1>7, <1>8

\* The names that a wildcard without a name of its own stands for are too
\* long for a query.
LEMMA TooLongForAQuery ==
    ASSUME BuildInv, NEW s \in read \ accepted, NEW n \in QueryNames
    PROVE  IsWildcard(s.owner) /\ (IsStrictPrefix(Front(s.owner), n) => Len(n) > MAX_LABELS)
<1>1. s \in Blocks /\ ~Malformed(s) /\ Unrepresentable(s)
    BY DEF BuildInv
<1>2. IsWildcard(s.owner) /\ Len(s.owner) > MAX_LABELS
    BY <1>1 DEF Unrepresentable
<1>3. s.owner \in ZoneNames /\ s.owner # Apex /\ n \in ZoneNames
    <2>1. s.owner # Outside
        BY <1>1 DEF Malformed, contains
    <2> QED
        BY <1>1, <1>2, <2>1, BlockFacts, QuestionsAssumption DEF IsWildcard
<1>4. /\ Front(s.owner) \in ZoneNames /\ Len(Front(s.owner)) = Len(s.owner) - 1
      /\ Len(s.owner) \in Nat /\ Len(n) \in Nat /\ MAX_LABELS \in Nat
    BY <1>3, Parent, NameFacts, NamesAssumption
<1>5. ASSUME IsStrictPrefix(Front(s.owner), n) PROVE Len(Front(s.owner)) < Len(n)
    BY <1>3, <1>4, <1>5, PrefixMeans, PrefixOrder DEF IsStrictPrefix
<1> QED
    BY <1>2, <1>4, <1>5

LEMMA NothingSilentlyDroppedHolds == BuildInv => NothingSilentlyDropped
<1> SUFFICES ASSUME BuildInv, Served PROVE NothingSilentlyDropped
    BY DEF NothingSilentlyDropped
<1> DEFINE Reached(s) ==
              \/ Declared(s.owner, s.rtype, s.owner) \subseteq ToSet(lookup(zone, s.owner, s.rtype).answers)
              \/ Declared(s.owner, s.rtype, s.owner) \subseteq Referred
<1>1. ASSUME NEW s \in accepted PROVE ~Reached(s) <=> <<s.owner, s.rtype>> \in zone.occluded
    <2> DEFINE n == s.owner
               t == s.rtype
               a == lookup(zone, n, t)
               rrs == Declared(n, t, n)
    <2>1. n \in ZoneNames /\ s \in Blocks /\ s.values # <<>>
        BY OwnerFacts
    <2>2. rrs # {}
        <3>1. s.values \in Seq(ToSet(s.values))
            BY <2>1, BlockFacts
        <3>2. ToSet(s.values) # {}
            BY <2>1, <3>1, EmptyHoldsNothing
        <3>3. PICK v \in ToSet(s.values) : TRUE
            BY <3>2
        <3>4. s \in {x \in accepted : x.owner = n /\ x.rtype = t}
            OBVIOUS
        <3>5. RecordOf(n, t, s.ttl, v) \in
                 {[owner |-> n, rtype |-> t, ttl |-> s.ttl, data |-> u] : u \in ToSet(s.values)}
            BY <3>3 DEF RecordOf
        <3> HIDE DEF n, t
        <3>6. RecordOf(n, t, s.ttl, v) \in Declared(n, t, n)
            BY <3>4, <3>5 DEF Declared
        <3> QED
            BY <3>6
    <2>3. n \in DOMAIN Tree
        BY <2>2, NothingDeclared
    <2>4. InTree(n) /\ SourceOf(n) = n
        BY <2>3, TreeShape DEF SourceOf
    <2>5. <<n, t>> \in zone.occluded <=> ~Kept(n, t)
        BY <2>2, <2>3, OccludedIs
    <2>6. ToSet(a.answers) = Returned(n, t).answers
        BY <2>1, LookupIsExpected
    <2> HIDE DEF n, t, a, rrs
    <2>7. CASE Cut[n] = NoCut
        <3>1. CutsAbove(n) = {}
            <4>1. Cut[n] \notin CutsAbove(n)
                BY <2>1, <2>7, CutsAboveMeans, NamesAssumption
            <4> QED
                BY <2>3, <4>1, CutIsAbove
        <3>2. FollowedAt(n, t) = {}
            <4>1. SUFFICES ASSUME FollowedAt(n, t) # {} PROVE FALSE
                OBVIOUS
            <4>2. Declared(SourceOf(n), t, n) = {}
                BY <2>1, <4>1, StepAtAlias
            <4> QED
                BY <2>2, <2>4, <4>2 DEF rrs
        <3>3. PathEnd(n, t) = n
            BY <2>1, <3>2, StaysOrLeaves
        <3>4. rrs \subseteq Returned(n, t).answers
            BY <2>4, <3>1, <3>3, ExpectedIs DEF DataAt, rrs
        <3> QED
            BY <2>5, <2>6, <2>7, <3>4 DEF Kept, n, t, a, rrs
    <2>8. CASE Cut[n] # NoCut
        <3>1. CutsAbove(n) # {}
            BY <2>3, <2>8, CutIsAbove
        <3>2. FollowedAt(n, t) = {}
            BY <3>1 DEF FollowedAt
        <3>3. PathEnd(n, t) = n /\ Aliases(n, t) = {}
            BY <2>1, <3>2, StaysOrLeaves
        <3>4. Returned(n, t).answers = {}
            BY <3>1, <3>3, ExpectedIs DEF DataAt
        <3>5. ~(rrs \subseteq ToSet(a.answers))
            BY <2>2, <2>6, <3>4
        <3>6. rrs \subseteq Referred <=> t \in KeptTypes(n)
            BY <2>2, <2>3, <2>8, ReferredIs DEF rrs
        <3> QED
            BY <2>5, <2>8, <3>5, <3>6 DEF Kept, n, t, a, rrs
    <2> QED
        BY <2>7, <2>8
<1>2. ASSUME check(zone) PROVE zone.occluded = {} /\ zone.missing_glue = {}
    BY <1>2 DEF check, diagnostics
<1>3. zone.missing_glue = MissingGlue(zone.nodes, Cut)
    <2>1. zone = Finish(scratch, soa, counted)
        BY DEF BuildInv
    <2>2. zone.nodes = [m \in DOMAIN Tree |-> apply_cut(Tree, Cut[m], m)]
        BY <2>1 DEF Finish, Tree, Cut
    <2>3. zone.missing_glue = MissingGlue([m \in DOMAIN Tree |-> apply_cut(Tree, Cut[m], m)], Cut)
        BY <2>1 DEF Finish, Tree, Cut
    <2> QED
        BY <2>2, <2>3
<1>4. ASSUME check(zone), NEW c \in DOMAIN zone.referrals, NEW x \in zone.referrals[c].authority,
             contains(x.data), IsPrefix(c, x.data)
      PROVE  \E g \in zone.referrals[c].additional : g.owner = x.data
    <2>1. /\ c \in DOMAIN Tree /\ Cut[c] = c
          /\ zone.referrals[c].authority = Declared(c, "NS", c)
          /\ ns_targets(zone.nodes[c]) = ns_targets(Tree[c])
          /\ zone.referrals[c].additional = UNION {Addresses(zone.nodes, v) : v \in ns_targets(Tree[c])}
        BY ReferralFacts
    <2>2. x.data \in ns_targets(Tree[c])
        BY <1>4, <2>1, ServersAre
    <2>3. Addresses(zone.nodes, x.data) # {}
        <3>1. SUFFICES ASSUME Addresses(zone.nodes, x.data) = {} PROVE FALSE
            OBVIOUS
        <3>2. c \in DOMAIN zone.nodes
            BY <2>1, ServedFacts
        <3>3. <<c, x.data>> \in MissingGlue(zone.nodes, Cut)
            BY <1>4, <2>1, <2>2, <3>1, <3>2 DEF MissingGlue
        <3> QED
            BY <1>2, <1>3, <1>4, <3>3
    <2>4. PICK g \in Addresses(zone.nodes, x.data) : TRUE
        BY <2>3
    <2>5. g.owner = x.data /\ g \in zone.referrals[c].additional
        BY <2>1, <2>2, <2>4, AddressesAre
    <2> QED
        BY <2>5
<1>5. ASSUME check(zone), NEW s \in accepted PROVE Reached(s)
    BY <1>1, <1>2, <1>5
<1>6. ASSUME NEW s \in read \ accepted, NEW n \in QueryNames
      PROVE  IsWildcard(s.owner) /\ (IsStrictPrefix(Front(s.owner), n) => Len(n) > MAX_LABELS)
    BY <1>6, TooLongForAQuery
<1> QED
    BY <1>1, <1>4, <1>5, <1>6 DEF NothingSilentlyDropped, Referred

\* No record of a file disappears without a word: it is answered at its owner,
\* travels in a referral, or is reported as occluded; and a zone that passes
\* `vega check' has none of the last and an address for every server inside its
\* own delegation (zone.rs:674-680, commands/zone.rs report_findings).  The
\* blocks that are neither stored nor reported are wildcards, and match no name
\* that a query can carry (zone.rs:1530-1546).
THEOREM NothingDropped == BuildSpec => []NothingSilentlyDropped
<1> QED
    BY NothingSilentlyDroppedHolds, BuilderKeepsBooks, PTL

\* Every variable of the builder keeps its type, and a served zone has a cut for
\* each of its nodes and a referral for each cut (zone.rs build_referrals).
THEOREM BuilderTypes == BuildSpec => []BuildTypeOK
<1>1. ASSUME BuildInv PROVE counted \in Nat
    <2>1. counted = ValueCount(scratch) + dropped /\ dropped \in Nat
        BY <1>1 DEF BuildInv
    <2>2. IsFiniteSet(DOMAIN scratch)
        <3> DEFINE f == [s \in accepted |-> s.owner]
        <3>1. DOMAIN f = accepted /\ DOMAIN scratch = {f[s] : s \in DOMAIN f} /\ IsFiniteSet(accepted)
            BY <1>1 DEF BuildInv
        <3> HIDE DEF f
        <3> QED
            BY <3>1, FiniteRange
    <2>3. ValueCount(scratch) \in Nat
        BY <1>1, <2>2, StoredFinite DEF BuildInv
    <2> QED
        BY <2>1, <2>3
<1>2. ASSUME BuildInv, Served PROVE zone.record_count \in Nat
    <2>1. zone.record_count = ValueCount(zone.nodes) + dropped
        BY <1>2, CountIsServed DEF CountIsWhatIsServed
    <2>2. DOMAIN zone.nodes = DOMAIN Tree /\ IsFiniteSet(DOMAIN Tree)
        BY <1>2, ServedFacts, TreeShape
    <2>3. \A n \in DOMAIN Tree : zone.nodes[n] = apply_cut(Tree, Cut[n], n)
        BY <1>2, ServedFacts
    <2>4. \A n \in DOMAIN Tree : zone.nodes[n] \in Seq(Runs)
        BY <1>2, <2>3, TreeHolds, KeptRuns
    <2>5. ValueCount(zone.nodes) \in Nat
        BY <2>2, <2>4, StoredFinite
    <2> QED
        BY <1>2, <2>1, <2>5 DEF BuildInv
<1>3. ASSUME BuildInv, Served
      PROVE  /\ DOMAIN zone.cut = DOMAIN zone.nodes
             /\ \A n \in DOMAIN zone.nodes : zone.cut[n] \in DOMAIN zone.referrals \cup {NoCut}
    <2>1. DOMAIN zone.nodes = DOMAIN Tree /\ zone.cut = Cut
        BY <1>3, ServedFacts
    <2>2. DOMAIN Cut = DOMAIN Tree
        BY <1>3, TreeIsTree, LayoutCuts DEF Cut
    <2>3. DOMAIN zone.referrals = {c \in DOMAIN Tree : Cut[c] = c}
        BY <1>3, ReferralFacts
    <2>4. \A n \in DOMAIN Tree : Cut[n] = NoCut \/ (Cut[n] \in DOMAIN Tree /\ Cut[Cut[n]] = Cut[n])
        BY <1>3, CutIsAbove
    <2> QED
        BY <2>1, <2>2, <2>3, <2>4
<1>4. BuildInv => BuildTypeOK
    BY <1>1, <1>2, <1>3 DEF BuildTypeOK, BuildInv
<1> QED
    BY <1>4, BuilderKeepsBooks, PTL

-----------------------------------------------------------------------------
(* The arenas. *)

\* Every run has a type the arena can sort by.
LEMMA RunTypes ==
    ASSUME NEW r \in Runs
    PROVE  r.rtype \in DOMAIN TypeCode /\ TypeCode[r.rtype] \in Nat
<1>1. r.rtype \in {b.rtype : b \in Blocks}
    BY DEF Runs
<1>2. r.rtype \in DOMAIN TypeCode
    BY <1>1, BlocksAssumption
<1> QED
    BY <1>2, TypesAssumption

\* Sorting lists the runs of a node once each, by ascending type.
LEMMA SortEnumerates ==
    ASSUME NEW runs \in Seq(Runs)
    PROVE  /\ SortRuns(runs) \in Seq(Runs) /\ Len(SortRuns(runs)) = Len(runs)
           /\ ToSet(SortRuns(runs)) = ToSet(runs)
           /\ \A j, k \in 1..Len(runs) : j < k =>
                 TypeCode[SortRuns(runs)[j].rtype] <= TypeCode[SortRuns(runs)[k].rtype]
           /\ (\A i, j \in DOMAIN runs : runs[i].rtype = runs[j].rtype => i = j) =>
                 \A j, k \in 1..Len(runs) :
                     SortRuns(runs)[j].rtype = SortRuns(runs)[k].rtype => j = k
<1> DEFINE N == Len(runs)
           I == 1..N
           T(i) == TypeCode[runs[i].rtype]
           C(i) == Cardinality(Sooner(runs, i))
           r == [i \in I |-> C(i)]
           Pick(k) == CHOOSE i \in I : C(i) = k - 1
           Less(j, i) == T(j) < T(i) \/ (T(j) = T(i) /\ j < i)
           s == SortRuns(runs)
<1>1. N \in Nat /\ DOMAIN runs = I /\ \A i \in I : runs[i] \in Runs
    BY LenProperties, ElementOfSeq
<1>2. s = [k \in I |-> runs[Pick(k)]]
    BY <1>1 DEF SortRuns
<1>3. \A i \in I : T(i) \in Nat
    BY <1>1, RunTypes
<1>4. ASSUME NEW i \in I, NEW j \in I PROVE j \in Sooner(runs, i) <=> Less(j, i)
    <2>1. T(j) = T(i) <=> runs[j].rtype = runs[i].rtype
        BY <1>1, RunTypes, TypesAssumption
    <2> QED
        BY <1>1, <2>1 DEF Sooner
<1>5. \A i \in I : Sooner(runs, i) \in SUBSET I
    BY <1>1 DEF Sooner
<1>6. IsFiniteSet(I) /\ Cardinality(I) = N
    <2> HIDE DEF N
    <2> QED
        BY <1>1, FS_Interval
<1> HIDE DEF s, N
<1>7. \A i, j, k \in I : Less(i, j) /\ Less(j, k) => Less(i, k)
    <2>1. I \subseteq Nat
        BY <1>1
    <2> HIDE DEF I, T
    <2> QED
        BY <1>3, <2>1
<1>8. \A i, j \in I : i # j => Less(i, j) \/ Less(j, i)
    <2>1. I \subseteq Nat
        BY <1>1
    <2> HIDE DEF I, T
    <2> QED
        BY <1>3, <2>1
<1>9. \A i \in I : ~Less(i, i)
    <2>1. I \subseteq Nat
        BY <1>1
    <2> HIDE DEF I, T
    <2> QED
        BY <1>3, <2>1
<1>10. \A j, i \in I : Less(j, i) => T(j) <= T(i)
    <2> HIDE DEF I, T
    <2> QED
        BY <1>3
<1> HIDE DEF I, T, Less
<1>11. ASSUME NEW i \in I PROVE IsFiniteSet(Sooner(runs, i)) /\ C(i) \in Nat /\ C(i) < N
    <2> DEFINE A == Sooner(runs, i)
    <2>1. A \in SUBSET I /\ i \notin A
        BY <1>4, <1>5, <1>9
    <2> HIDE DEF A
    <2>2. IsFiniteSet(A) /\ Cardinality(A) <= Cardinality(I) /\ (Cardinality(I) = Cardinality(A) => I = A)
        BY <1>6, <2>1, FS_Subset
    <2>3. Cardinality(A) \in Nat
        BY <2>2, FS_CardinalityType
    <2>4. Cardinality(A) # N
        BY <1>6, <2>1, <2>2
    <2>5. Cardinality(A) < N
        BY <1>1, <1>6, <2>2, <2>3, <2>4
    <2> QED
        BY <2>2, <2>3, <2>5 DEF A
<1>12. ASSUME NEW i \in I, NEW j \in I, Less(i, j) PROVE C(i) < C(j)
    <2> DEFINE A == Sooner(runs, i)
               B == Sooner(runs, j)
    <2>1. A \in SUBSET B
        <3>1. \A k \in I : k \in A => k \in B
            BY <1>4, <1>7, <1>12
        <3> QED
            BY <1>5, <3>1
    <2>2. i \in B /\ i \notin A
        BY <1>4, <1>9, <1>12
    <2>3. IsFiniteSet(B) /\ Cardinality(A) \in Nat /\ Cardinality(B) \in Nat
        BY <1>11
    <2> HIDE DEF A, B
    <2>4. Cardinality(A) <= Cardinality(B) /\ (Cardinality(B) = Cardinality(A) => B = A)
        BY <2>1, <2>3, FS_Subset
    <2>5. Cardinality(A) < Cardinality(B)
        BY <2>2, <2>3, <2>4
    <2> QED
        BY <2>5 DEF A, B
<1> HIDE DEF C
<1>13. \A i, j \in I : C(i) = C(j) => i = j
    <2>1. ASSUME NEW i \in I, NEW j \in I, i # j PROVE C(i) # C(j)
        <3>1. C(i) \in Nat /\ C(j) \in Nat
            BY <1>11
        <3>2. C(i) < C(j) \/ C(j) < C(i)
            BY <1>8, <1>12, <2>1
        <3> QED
            BY <3>1, <3>2
    <2> QED
        BY <2>1
<1>14. \A i \in I : C(i) \in 0..(N - 1)
    BY <1>1, <1>11
<1>15. r \in Injection(I, 0..(N - 1))
    BY <1>13, <1>14 DEF Injection, IsInjective
<1>16. IsFiniteSet(0..(N - 1)) /\ Cardinality(0..(N - 1)) = N
    BY <1>1, FS_Interval
<1>17. Cardinality(I) = Cardinality(0..(N - 1)) <=> r \in Surjection(I, 0..(N - 1))
    <2> HIDE DEF r
    <2> QED
        BY <1>6, <1>15, <1>16, FS_Injection
<1>18. \A k \in 0..(N - 1) : \E i \in I : C(i) = k
    BY <1>6, <1>16, <1>17 DEF Surjection
<1>19. ASSUME NEW k \in I PROVE Pick(k) \in I /\ C(Pick(k)) = k - 1
    <2>1. k - 1 \in 0..(N - 1)
        BY <1>1 DEF I
    <2>2. \E i \in I : C(i) = k - 1
        BY <1>18, <2>1
    <2> QED
        BY <2>2
<1> HIDE DEF Pick
<1>20. \A k \in I : s[k] = runs[Pick(k)] /\ s[k] \in Runs
    BY <1>1, <1>2, <1>19
<1>21. s \in Seq(Runs) /\ Len(s) = N /\ DOMAIN s = I
    <2>1. DOMAIN s = I /\ s \in [I -> Runs]
        BY <1>2, <1>20
    <2>2. s \in Seq(Runs)
        BY <1>1, <2>1, SeqDef DEF I
    <2>3. Len(s) = N
        BY <1>1, <2>1, <2>2, LenProperties DEF I
    <2> QED
        BY <2>1, <2>2, <2>3
<1>22. ToSet(s) = ToSet(runs)
    <2>1. ASSUME NEW i \in I PROVE \E k \in I : s[k] = runs[i]
        <3> DEFINE k == C(i) + 1
        <3>1. k \in I /\ k - 1 = C(i)
            BY <1>1, <1>14 DEF I
        <3>2. Pick(k) = i
            BY <1>13, <1>19, <3>1
        <3> HIDE DEF k
        <3> QED
            BY <1>20, <3>1, <3>2
    <2>2. ToSet(s) = {s[k] : k \in I} /\ ToSet(runs) = {runs[i] : i \in I}
        BY <1>1, <1>21 DEF ToSet
    <2> QED
        BY <1>19, <1>20, <2>1, <2>2
<1>23. ASSUME NEW j \in I, NEW k \in I, j < k PROVE TypeCode[s[j].rtype] <= TypeCode[s[k].rtype]
    <2>1. Pick(j) \in I /\ Pick(k) \in I /\ C(Pick(j)) = j - 1 /\ C(Pick(k)) = k - 1
        BY <1>19
    <2>2. C(Pick(j)) < C(Pick(k)) /\ j \in Nat /\ k \in Nat
        BY <1>1, <1>23, <2>1 DEF I
    <2>3. Less(Pick(j), Pick(k))
        <3>1. ~(C(Pick(k)) < C(Pick(j))) /\ Pick(j) # Pick(k)
            BY <1>11, <2>1, <2>2
        <3> QED
            BY <1>8, <1>12, <2>1, <3>1
    <2>4. T(Pick(j)) <= T(Pick(k))
        BY <1>10, <2>1, <2>3
    <2> QED
        BY <1>20, <2>4 DEF T
<1>24. ASSUME \A i, j \in DOMAIN runs : runs[i].rtype = runs[j].rtype => i = j,
              NEW j \in I, NEW k \in I, s[j].rtype = s[k].rtype
       PROVE  j = k
    <2>1. Pick(j) \in I /\ Pick(k) \in I /\ C(Pick(j)) = j - 1 /\ C(Pick(k)) = k - 1
        BY <1>19
    <2>2. Pick(j) = Pick(k)
        BY <1>1, <1>20, <1>24, <2>1
    <2>3. j - 1 = k - 1 /\ j \in Nat /\ k \in Nat
        BY <1>1, <2>1, <2>2 DEF I
    <2> QED
        BY <2>3
<1> QED
    BY <1>21, <1>22, <1>23, <1>24 DEF s, I, N


\* What an arena is made of, and what it still is after it has grown.
Rrset == [rtype : DOMAIN TypeCode, ttl : {b.ttl : b \in Blocks}, rdata : Nat \X Nat]
IsArena(a) == a.rrsets \in Seq(Rrset) /\ a.rdata \in Seq(AnyValue)
Grown(a, b) ==
    /\ Len(a.rrsets) <= Len(b.rrsets) /\ \A i \in 1..Len(a.rrsets) : b.rrsets[i] = a.rrsets[i]
    /\ Len(a.rdata) <= Len(b.rdata) /\ \A i \in 1..Len(a.rdata) : b.rdata[i] = a.rdata[i]

\* An RRset of the arena reads as the run it was made from.
Reads(a, x, run) ==
    /\ x.rtype = run.rtype /\ x.ttl = run.ttl
    /\ x.rdata[1] \in Nat /\ x.rdata[2] \in Nat
    /\ x.rdata[2] = x.rdata[1] + Len(run.rdata) /\ x.rdata[2] <= Len(a.rdata)
    /\ \A i \in 1..Len(run.rdata) : a.rdata[x.rdata[1] + i] = run.rdata[i]

LEMMA ArenaFacts ==
    ASSUME NEW a, IsArena(a)
    PROVE  /\ Len(a.rrsets) \in Nat /\ DOMAIN a.rrsets = 1..Len(a.rrsets)
           /\ Len(a.rdata) \in Nat /\ DOMAIN a.rdata = 1..Len(a.rdata)
BY LenProperties DEF IsArena

LEMMA GrownTwice ==
    ASSUME NEW a, NEW b, NEW c, IsArena(a), IsArena(b), IsArena(c), Grown(a, b), Grown(b, c)
    PROVE  Grown(a, c)
<1>1. /\ Len(a.rrsets) \in Nat /\ Len(b.rrsets) \in Nat /\ Len(c.rrsets) \in Nat
      /\ Len(a.rdata) \in Nat /\ Len(b.rdata) \in Nat /\ Len(c.rdata) \in Nat
    BY ArenaFacts
<1> QED
    BY <1>1 DEF Grown

LEMMA GrownReads ==
    ASSUME NEW a, NEW b, IsArena(a), IsArena(b), Grown(a, b), NEW x, NEW run \in Runs, Reads(a, x, run)
    PROVE  Reads(b, x, run)
<1>1. Len(a.rdata) \in Nat /\ Len(b.rdata) \in Nat
    BY ArenaFacts
<1>2. Len(run.rdata) \in Nat
    BY RunFacts
<1>3. /\ x.rtype = run.rtype /\ x.ttl = run.ttl
      /\ x.rdata[1] \in Nat /\ x.rdata[2] \in Nat
      /\ x.rdata[2] = x.rdata[1] + Len(run.rdata) /\ x.rdata[2] <= Len(a.rdata)
    BY DEF Reads
<1>4. \A i \in 1..Len(run.rdata) : x.rdata[1] + i \in 1..Len(a.rdata)
    <2> DEFINE p == x.rdata[1]
               m == Len(run.rdata)
               l == Len(a.rdata)
    <2>1. p \in Nat /\ m \in Nat /\ l \in Nat /\ p + m <= l
        BY <1>1, <1>2, <1>3
    <2> HIDE DEF p, m, l
    <2>2. \A i \in 1..m : p + i \in 1..l
        BY <2>1
    <2> QED
        BY <2>2 DEF p, m, l
<1>5. Len(a.rdata) <= Len(b.rdata) /\ \A i \in 1..Len(a.rdata) : b.rdata[i] = a.rdata[i]
    BY DEF Grown
<1>6. \A i \in 1..Len(run.rdata) : b.rdata[x.rdata[1] + i] = run.rdata[i]
    BY <1>4, <1>5 DEF Reads
<1>7. x.rdata[2] <= Len(b.rdata)
    BY <1>1, <1>3, <1>5
<1> QED
    BY <1>3, <1>6, <1>7 DEF Reads

\* Placing a run appends one RRset, and it reads as the run.
LEMMA RunIsPlaced ==
    ASSUME NEW a, IsArena(a), NEW run \in Runs
    PROVE  /\ IsArena(PlaceRun(a, run)) /\ Grown(a, PlaceRun(a, run))
           /\ PlaceRun(a, run).nodes = a.nodes
           /\ Len(PlaceRun(a, run).rrsets) = Len(a.rrsets) + 1
           /\ Reads(PlaceRun(a, run), PlaceRun(a, run).rrsets[Len(a.rrsets) + 1], run)
<1> DEFINE b == PlaceRun(a, run)
           m == Len(a.rdata)
           x == [rtype |-> run.rtype, ttl |-> run.ttl, rdata |-> <<m, m + Len(run.rdata)>>]
<1>1. b.nodes = a.nodes /\ b.rrsets = Append(a.rrsets, x) /\ b.rdata = a.rdata \o run.rdata
    BY DEF PlaceRun
<1>2. m \in Nat /\ Len(a.rrsets) \in Nat /\ a.rrsets \in Seq(Rrset) /\ a.rdata \in Seq(AnyValue)
    BY ArenaFacts DEF IsArena
<1>3. run.rdata \in Seq(AnyValue) /\ Len(run.rdata) \in Nat
    BY RunFacts DEF AnyValue
<1>4. /\ x.rtype = run.rtype /\ x.ttl = run.ttl
      /\ x.rdata[1] = m /\ x.rdata[2] = m + Len(run.rdata)
    OBVIOUS
<1> HIDE DEF m
<1>5. x \in Rrset
    <2>1. run.rtype \in DOMAIN TypeCode /\ run.ttl \in {y.ttl : y \in Blocks}
        BY RunTypes DEF Runs
    <2>2. <<m, m + Len(run.rdata)>> \in Nat \X Nat
        <3>1. m \in Nat /\ m + Len(run.rdata) \in Nat
            BY <1>2, <1>3
        <3> QED
            BY <3>1
    <2> QED
        BY <2>1, <2>2 DEF Rrset
<1> HIDE DEF b, x
<1>6. /\ b.rrsets \in Seq(Rrset) /\ Len(b.rrsets) = Len(a.rrsets) + 1
      /\ \A i \in 1..Len(a.rrsets) : b.rrsets[i] = a.rrsets[i]
      /\ b.rrsets[Len(a.rrsets) + 1] = x
    BY <1>1, <1>2, <1>5, AppendProperties
<1>7. /\ b.rdata \in Seq(AnyValue) /\ Len(b.rdata) = m + Len(run.rdata)
      /\ \A i \in 1..m : b.rdata[i] = a.rdata[i]
      /\ \A i \in 1..Len(run.rdata) : b.rdata[m + i] = run.rdata[i]
    <2> DEFINE u == a.rdata
               v == run.rdata
    <2>1. u \in Seq(AnyValue) /\ v \in Seq(AnyValue) /\ Len(u) \in Nat /\ Len(v) \in Nat
        BY <1>2, <1>3 DEF m
    <2> HIDE DEF u, v
    <2>2. /\ u \o v \in Seq(AnyValue) /\ Len(u \o v) = Len(u) + Len(v)
          /\ \A i \in 1..(Len(u) + Len(v)) : (u \o v)[i] = IF i <= Len(u) THEN u[i] ELSE v[i - Len(u)]
        BY <2>1, ConcatProperties
    <2>3. \A i \in 1..Len(u) : i \in 1..(Len(u) + Len(v)) /\ i <= Len(u)
        BY <2>1
    <2>4. \A i \in 1..Len(v) : /\ Len(u) + i \in 1..(Len(u) + Len(v)) /\ ~(Len(u) + i <= Len(u))
                               /\ (Len(u) + i) - Len(u) = i
        BY <2>1
    <2>5. (\A i \in 1..Len(u) : (u \o v)[i] = u[i]) /\ \A i \in 1..Len(v) : (u \o v)[Len(u) + i] = v[i]
        BY <2>2, <2>3, <2>4
    <2> QED
        BY <1>1, <2>2, <2>5 DEF u, v, m
<1>8. IsArena(b)
    BY <1>6, <1>7 DEF IsArena
<1>9. Grown(a, b)
    <2>1. Len(a.rrsets) <= Len(b.rrsets)
        BY <1>2, <1>6
    <2>2. m <= Len(b.rdata)
        BY <1>2, <1>3, <1>7
    <2> QED
        BY <1>6, <1>7, <2>1, <2>2 DEF Grown, m
<1>10. Reads(b, x, run)
    <2>1. x.rdata[2] = x.rdata[1] + Len(run.rdata) /\ x.rdata[2] <= Len(b.rdata)
        BY <1>2, <1>3, <1>4, <1>7
    <2>2. x.rdata[1] \in Nat /\ x.rdata[2] \in Nat
        BY <1>2, <1>3, <1>4
    <2>3. \A i \in 1..Len(run.rdata) : b.rdata[x.rdata[1] + i] = run.rdata[i]
        BY <1>4, <1>7
    <2> QED
        BY <1>4, <2>1, <2>2, <2>3 DEF Reads
<1> QED
    BY <1>1, <1>6, <1>8, <1>9, <1>10 DEF b

\* The table of the arenas after each of the first n runs.
RunsLaid(h, arena, runs, n) ==
    h = [i \in 0..n |-> IF i = 0 THEN arena
                       ELSE PlaceRun(h[i - 1], runs[i])]

LEMMA RunsLaidExist == ASSUME NEW arena, NEW runs PROVE \A n \in Nat : \E h : RunsLaid(h, arena, runs, n)
<1> DEFINE Base == arena
           Following(x, i) == PlaceRun(x, runs[i])
           S == {n \in Nat : \E h : RunsLaid(h, arena, runs, n)}
<1>1. 0 \in S
    <2> DEFINE h == [i \in 0..0 |-> Base]
    <2>1. \A i \in 0..0 : i = 0
        OBVIOUS
    <2>2. h = [i \in 0..0 |-> IF i = 0 THEN Base ELSE Following(h[i - 1], i)]
        <3> HIDE DEF Base, Following
        <3> QED
            BY <2>1
    <2>3. RunsLaid(h, arena, runs, 0)
        BY <2>2 DEF RunsLaid
    <2> QED
        BY <2>3
<1>2. ASSUME NEW n \in Nat, n \in S PROVE n + 1 \in S
    <2>1. PICK f : RunsLaid(f, arena, runs, n)
        BY <1>2
    <2>2. \A i \in 0..n : f[i] = IF i = 0 THEN Base ELSE Following(f[i - 1], i)
        BY <2>1 DEF RunsLaid
    <2> DEFINE h == [i \in 0..(n + 1) |-> IF i = n + 1 THEN Following(f[n], n + 1) ELSE f[i]]
               g == [i \in 0..(n + 1) |-> IF i = 0 THEN Base ELSE Following(h[i - 1], i)]
    <2>3. h = g
        <3> HIDE DEF Base, Following
        <3>1. \A i \in 0..n : h[i] = f[i]
            OBVIOUS
        <3>2. h[n + 1] = Following(f[n], n + 1) /\ DOMAIN h = 0..(n + 1) /\ h = [i \in DOMAIN h |-> h[i]]
            OBVIOUS
        <3>3. DOMAIN g = 0..(n + 1)
              /\ \A i \in 0..(n + 1) : g[i] = IF i = 0 THEN Base ELSE Following(h[i - 1], i)
            OBVIOUS
        <3> HIDE DEF h, g
        <3>4. ASSUME NEW i \in 0..(n + 1) PROVE h[i] = g[i]
            <4>1. CASE i = n + 1
                <5>1. i # 0 /\ i - 1 = n /\ n \in 0..n
                    BY <4>1
                <5>2. g[i] = Following(f[n], i)
                    BY <3>1, <3>3, <5>1
                <5> QED
                    BY <3>2, <4>1, <5>2
            <4>2. CASE i # n + 1
                <5>1. i \in 0..n /\ (i # 0 => i - 1 \in 0..n)
                    BY <4>2
                <5> QED
                    BY <2>2, <3>1, <3>3, <5>1
            <4> QED
                BY <4>1, <4>2
        <3>5. g = [i \in DOMAIN g |-> g[i]]
            BY DEF g
        <3> QED
            BY <3>2, <3>3, <3>4, <3>5
    <2> HIDE DEF h
    <2>4. RunsLaid(h, arena, runs, n + 1)
        BY <2>3 DEF RunsLaid
    <2> QED
        BY <2>4
<1> HIDE DEF S
<1>3. \A n \in Nat : n \in S
    BY <1>1, <1>2, NatSetInduction
<1> QED
    BY <1>3 DEF S

LEMMA RunsArePlaced ==
    ASSUME NEW a, IsArena(a), NEW runs \in Seq(Runs)
    PROVE  /\ IsArena(PlaceRuns(a, runs)) /\ Grown(a, PlaceRuns(a, runs))
           /\ PlaceRuns(a, runs).nodes = a.nodes
           /\ Len(PlaceRuns(a, runs).rrsets) = Len(a.rrsets) + Len(runs)
           /\ \A j \in 1..Len(runs) :
                 Reads(PlaceRuns(a, runs), PlaceRuns(a, runs).rrsets[Len(a.rrsets) + j], runs[j])
<1> DEFINE N == Len(runs)
           m == Len(a.rrsets)
           laid == CHOOSE h : RunsLaid(h, a, runs, N)
<1>1. N \in Nat /\ DOMAIN runs = 1..N /\ \A j \in 1..N : runs[j] \in Runs
    BY LenProperties, ElementOfSeq
<1>2. PlaceRuns(a, runs) = laid[N]
    BY DEF PlaceRuns, RunsLaid
<1>3. RunsLaid(laid, a, runs, N)
    <2>1. \E h : RunsLaid(h, a, runs, N)
        BY <1>1, RunsLaidExist
    <2> QED
        BY <2>1
<1>4. m \in Nat
    BY ArenaFacts
<1> HIDE DEF laid, N, m
<1>5. \A i \in 0..N : laid[i] = IF i = 0 THEN a ELSE PlaceRun(laid[i - 1], runs[i])
    BY <1>3 DEF RunsLaid
<1> DEFINE Right(b, k) ==
              /\ IsArena(b) /\ Grown(a, b) /\ b.nodes = a.nodes /\ Len(b.rrsets) = m + k
              /\ \A j \in 1..k : Reads(b, b.rrsets[m + j], runs[j])
           S == {k \in Nat : k <= N => Right(laid[k], k)}
<1>6. 0 \in S
    <2>1. laid[0] = a
        BY <1>1, <1>5
    <2>2. Grown(a, a)
        BY ArenaFacts DEF Grown
    <2>3. Right(a, 0)
        BY <1>4, <2>2 DEF m
    <2> QED
        BY <2>1, <2>3
<1>7. ASSUME NEW k \in Nat, k \in S PROVE k + 1 \in S
    <2>1. SUFFICES ASSUME k + 1 <= N PROVE Right(laid[k + 1], k + 1)
        OBVIOUS
    <2> DEFINE b == laid[k]
               c == laid[k + 1]
    <2>2. k + 1 \in 0..N /\ k + 1 # 0 /\ (k + 1) - 1 = k /\ k <= N /\ k + 1 \in 1..N
        BY <1>1, <2>1
    <2>3. c = PlaceRun(b, runs[k + 1])
        BY <1>5, <2>2
    <2>4. Right(b, k)
        BY <1>7, <2>2
    <2>5. runs[k + 1] \in Runs
        BY <1>1, <2>2
    <2> HIDE DEF b, c
    <2>6. /\ IsArena(c) /\ Grown(b, c) /\ c.nodes = b.nodes /\ Len(c.rrsets) = Len(b.rrsets) + 1
          /\ Reads(c, c.rrsets[Len(b.rrsets) + 1], runs[k + 1])
        BY <2>3, <2>4, <2>5, RunIsPlaced
    <2>7. Grown(a, c)
        BY <2>4, <2>6, GrownTwice
    <2>8. Len(c.rrsets) = m + (k + 1) /\ Len(b.rrsets) + 1 = m + (k + 1)
        BY <1>4, <2>4, <2>6
    <2>9. ASSUME NEW j \in 1..(k + 1) PROVE Reads(c, c.rrsets[m + j], runs[j])
        <3>1. CASE j = k + 1
            BY <2>6, <2>8, <3>1
        <3>2. CASE j # k + 1
            <4>1. j \in 1..k /\ j \in 1..N
                BY <1>1, <2>1, <3>2
            <4>2. Reads(b, b.rrsets[m + j], runs[j]) /\ runs[j] \in Runs
                BY <1>1, <2>4, <4>1
            <4>3. Reads(c, b.rrsets[m + j], runs[j])
                BY <2>4, <2>6, <4>2, GrownReads
            <4>4. m + j \in 1..Len(b.rrsets)
                BY <1>4, <2>4, <4>1
            <4>5. c.rrsets[m + j] = b.rrsets[m + j]
                BY <2>6, <4>4 DEF Grown
            <4> QED
                BY <4>3, <4>5
        <3> QED
            BY <3>1, <3>2
    <2>10. Right(c, k + 1)
        BY <2>4, <2>6, <2>7, <2>8, <2>9
    <2> QED
        BY <2>10 DEF c
<1> HIDE DEF S
<1>8. \A k \in Nat : k \in S
    BY <1>6, <1>7, NatSetInduction
<1>9. Right(laid[N], N)
    <2>1. N \in S /\ N <= N
        BY <1>1, <1>8
    <2> QED
        BY <2>1 DEF S
<1> QED
    BY <1>2, <1>9 DEF N, m


\* The table of the arenas after each of the first n nodes.
NodesLaid(h, built, order, n) ==
    h = [i \in 0..n |-> IF i = 0 THEN [nodes |-> <<>>, rrsets |-> <<>>, rdata |-> <<>>]
                       ELSE Place(built, order, h[i - 1], order[i])]

LEMMA NodesLaidExist == ASSUME NEW built, NEW order PROVE \A n \in Nat : \E h : NodesLaid(h, built, order, n)
<1> DEFINE Base == [nodes |-> <<>>, rrsets |-> <<>>, rdata |-> <<>>]
           Following(x, i) == Place(built, order, x, order[i])
           S == {n \in Nat : \E h : NodesLaid(h, built, order, n)}
<1>1. 0 \in S
    <2> DEFINE h == [i \in 0..0 |-> Base]
    <2>1. \A i \in 0..0 : i = 0
        OBVIOUS
    <2>2. h = [i \in 0..0 |-> IF i = 0 THEN Base ELSE Following(h[i - 1], i)]
        <3> HIDE DEF Base, Following
        <3> QED
            BY <2>1
    <2>3. NodesLaid(h, built, order, 0)
        BY <2>2 DEF NodesLaid
    <2> QED
        BY <2>3
<1>2. ASSUME NEW n \in Nat, n \in S PROVE n + 1 \in S
    <2>1. PICK f : NodesLaid(f, built, order, n)
        BY <1>2
    <2>2. \A i \in 0..n : f[i] = IF i = 0 THEN Base ELSE Following(f[i - 1], i)
        BY <2>1 DEF NodesLaid
    <2> DEFINE h == [i \in 0..(n + 1) |-> IF i = n + 1 THEN Following(f[n], n + 1) ELSE f[i]]
               g == [i \in 0..(n + 1) |-> IF i = 0 THEN Base ELSE Following(h[i - 1], i)]
    <2>3. h = g
        <3> HIDE DEF Base, Following
        <3>1. \A i \in 0..n : h[i] = f[i]
            OBVIOUS
        <3>2. h[n + 1] = Following(f[n], n + 1) /\ DOMAIN h = 0..(n + 1) /\ h = [i \in DOMAIN h |-> h[i]]
            OBVIOUS
        <3>3. DOMAIN g = 0..(n + 1)
              /\ \A i \in 0..(n + 1) : g[i] = IF i = 0 THEN Base ELSE Following(h[i - 1], i)
            OBVIOUS
        <3> HIDE DEF h, g
        <3>4. ASSUME NEW i \in 0..(n + 1) PROVE h[i] = g[i]
            <4>1. CASE i = n + 1
                <5>1. i # 0 /\ i - 1 = n /\ n \in 0..n
                    BY <4>1
                <5>2. g[i] = Following(f[n], i)
                    BY <3>1, <3>3, <5>1
                <5> QED
                    BY <3>2, <4>1, <5>2
            <4>2. CASE i # n + 1
                <5>1. i \in 0..n /\ (i # 0 => i - 1 \in 0..n)
                    BY <4>2
                <5> QED
                    BY <2>2, <3>1, <3>3, <5>1
            <4> QED
                BY <4>1, <4>2
        <3>5. g = [i \in DOMAIN g |-> g[i]]
            BY DEF g
        <3> QED
            BY <3>2, <3>3, <3>4, <3>5
    <2> HIDE DEF h
    <2>4. NodesLaid(h, built, order, n + 1)
        BY <2>3 DEF NodesLaid
    <2> QED
        BY <2>4
<1> HIDE DEF S
<1>3. \A n \in Nat : n \in S
    BY <1>1, <1>2, NatSetInduction
<1> QED
    BY <1>3 DEF S

\* A node of the arena: the entry for a name, and the runs its RRsets read as.
NodeOf(built, order, n, p, q) ==
    [name |-> n, rrsets |-> <<p, q>>, cut |-> CutIndex(built, order, n), flags |-> Flags(built, n)]
NodesOf(built, order) ==
    {NodeOf(built, order, order[i], p, q) : i \in DOMAIN order, p \in Nat, q \in Nat}

HoldsRuns(a, node, runs) ==
    /\ node.rrsets[1] \in Nat /\ node.rrsets[2] = node.rrsets[1] + Len(runs)
    /\ node.rrsets[2] <= Len(a.rrsets)
    /\ \A j \in 1..Len(runs) : Reads(a, a.rrsets[node.rrsets[1] + j], runs[j])

\* The first k nodes are laid out.
LaidTo(a, built, order, k) ==
    /\ IsArena(a) /\ a.nodes \in Seq(NodesOf(built, order)) /\ Len(a.nodes) = k
    /\ \A i \in 1..k :
          /\ a.nodes[i].name = order[i]
          /\ a.nodes[i].cut = CutIndex(built, order, order[i])
          /\ a.nodes[i].flags = Flags(built, order[i])
          /\ HoldsRuns(a, a.nodes[i], SortRuns(built.nodes[order[i]]))

LEMMA GrownHolds ==
    ASSUME NEW a, NEW b, IsArena(a), IsArena(b), Grown(a, b), NEW node, NEW runs \in Seq(Runs),
           HoldsRuns(a, node, runs)
    PROVE  HoldsRuns(b, node, runs)
<1>1. Len(a.rrsets) \in Nat /\ Len(b.rrsets) \in Nat
    BY ArenaFacts
<1>2. Len(runs) \in Nat /\ \A j \in 1..Len(runs) : runs[j] \in Runs
    BY LenProperties, ElementOfSeq
<1>3. /\ node.rrsets[1] \in Nat /\ node.rrsets[2] = node.rrsets[1] + Len(runs)
      /\ node.rrsets[2] <= Len(a.rrsets)
    BY DEF HoldsRuns
<1>4. Len(a.rrsets) <= Len(b.rrsets) /\ \A i \in 1..Len(a.rrsets) : b.rrsets[i] = a.rrsets[i]
    BY DEF Grown
<1>5. node.rrsets[2] <= Len(b.rrsets)
    BY <1>1, <1>2, <1>3, <1>4
<1>6. ASSUME NEW j \in 1..Len(runs) PROVE Reads(b, b.rrsets[node.rrsets[1] + j], runs[j])
    <2>1. node.rrsets[1] + j \in 1..Len(a.rrsets)
        BY <1>1, <1>2, <1>3
    <2>2. Reads(a, a.rrsets[node.rrsets[1] + j], runs[j])
        BY DEF HoldsRuns
    <2>3. Reads(b, a.rrsets[node.rrsets[1] + j], runs[j])
        BY <1>2, <2>2, GrownReads
    <2> QED
        BY <1>4, <2>1, <2>3
<1> QED
    BY <1>3, <1>5, <1>6 DEF HoldsRuns

LEMMA NodeIsPlaced ==
    ASSUME NEW built, NEW order, NEW k \in Nat, k + 1 \in DOMAIN order, NEW a, LaidTo(a, built, order, k),
           \A i \in 1..(k + 1) : SortRuns(built.nodes[order[i]]) \in Seq(Runs)
    PROVE  LaidTo(Place(built, order, a, order[k + 1]), built, order, k + 1)
<1> DEFINE n == order[k + 1]
           runs == SortRuns(built.nodes[n])
           l == PlaceRuns(a, runs)
           p == Len(a.rrsets)
           q == Len(l.rrsets)
           node == NodeOf(built, order, n, p, q)
           b == Place(built, order, a, n)
<1>1. b.nodes = Append(a.nodes, node) /\ b.rrsets = l.rrsets /\ b.rdata = l.rdata
    BY DEF Place, NodeOf
<1>2. IsArena(a) /\ a.nodes \in Seq(NodesOf(built, order)) /\ Len(a.nodes) = k
    BY DEF LaidTo
<1>3. runs \in Seq(Runs)
    <2>1. k + 1 \in 1..(k + 1)
        OBVIOUS
    <2> QED
        BY <2>1
<1>4. Len(runs) \in Nat
    BY <1>3, LenProperties
<1>5. p \in Nat
    BY <1>2, ArenaFacts
<1>6. node.name = n /\ node.rrsets[1] = p /\ node.rrsets[2] = q
      /\ node.cut = CutIndex(built, order, n) /\ node.flags = Flags(built, n)
    BY DEF NodeOf
<1> HIDE DEF l, b, runs
<1>7. /\ IsArena(l) /\ Grown(a, l) /\ q = p + Len(runs)
      /\ \A j \in 1..Len(runs) : Reads(l, l.rrsets[p + j], runs[j])
    BY <1>2, <1>3, RunsArePlaced DEF l
<1>8. IsArena(b) /\ Grown(a, b) /\ Grown(l, b)
    <2>1. IsArena(b) /\ Grown(a, b)
        BY <1>1, <1>7 DEF IsArena, Grown
    <2>2. Grown(l, b)
        BY <1>1, <1>7, ArenaFacts DEF Grown
    <2> QED
        BY <2>1, <2>2
<1>9. q \in Nat
    BY <1>4, <1>5, <1>7
<1>10. node \in NodesOf(built, order)
    <2> DEFINE i == k + 1
    <2>1. i \in DOMAIN order /\ p \in Nat /\ q \in Nat /\ n = order[i]
        BY <1>5, <1>9
    <2> HIDE DEF i, p, q, n
    <2> QED
        BY <2>1 DEF NodesOf
<1> HIDE DEF node
<1>11. /\ b.nodes \in Seq(NodesOf(built, order)) /\ Len(b.nodes) = k + 1
       /\ \A i \in 1..k : b.nodes[i] = a.nodes[i]
       /\ b.nodes[k + 1] = node
    BY <1>1, <1>2, <1>10, AppendProperties
<1>12. HoldsRuns(b, node, runs)
    <2>1. HoldsRuns(l, node, runs)
        <3>1. node.rrsets[2] = node.rrsets[1] + Len(runs) /\ node.rrsets[1] \in Nat
            BY <1>5, <1>6, <1>7
        <3>2. node.rrsets[2] <= Len(l.rrsets)
            BY <1>6, <1>9
        <3>3. \A j \in 1..Len(runs) : Reads(l, l.rrsets[node.rrsets[1] + j], runs[j])
            BY <1>6, <1>7
        <3> QED
            BY <3>1, <3>2, <3>3 DEF HoldsRuns
    <2> QED
        BY <1>3, <1>7, <1>8, <2>1, GrownHolds
<1>13. ASSUME NEW i \in 1..(k + 1)
       PROVE  /\ b.nodes[i].name = order[i]
              /\ b.nodes[i].cut = CutIndex(built, order, order[i])
              /\ b.nodes[i].flags = Flags(built, order[i])
              /\ HoldsRuns(b, b.nodes[i], SortRuns(built.nodes[order[i]]))
    <2>1. CASE i = k + 1
        BY <1>6, <1>11, <1>12, <2>1 DEF runs
    <2>2. CASE i # k + 1
        <3>1. i \in 1..k
            BY <2>2
        <3>2. /\ a.nodes[i].name = order[i]
              /\ a.nodes[i].cut = CutIndex(built, order, order[i])
              /\ a.nodes[i].flags = Flags(built, order[i])
              /\ HoldsRuns(a, a.nodes[i], SortRuns(built.nodes[order[i]]))
            BY <3>1 DEF LaidTo
        <3>3. SortRuns(built.nodes[order[i]]) \in Seq(Runs)
            OBVIOUS
        <3>4. HoldsRuns(b, a.nodes[i], SortRuns(built.nodes[order[i]]))
            BY <1>2, <1>8, <3>2, <3>3, GrownHolds
        <3>5. b.nodes[i] = a.nodes[i]
            BY <1>11, <3>1
        <3> QED
            BY <3>2, <3>4, <3>5
    <2> QED
        BY <2>1, <2>2
<1>14. LaidTo(b, built, order, k + 1)
    BY <1>8, <1>11, <1>13 DEF LaidTo
<1> QED
    BY <1>14 DEF b

\* The loop lays out every node of the order.
LEMMA AllLaidOut ==
    ASSUME NEW built, NEW names, IsTree(names), DOMAIN built.nodes = names,
           \A n \in names : built.nodes[n] \in Seq(Runs)
    PROVE  LaidTo(LayOut(built), built, CanonicalOrder(names), Len(CanonicalOrder(names)))
<1> DEFINE order == CanonicalOrder(names)
           N == Len(order)
           laid == CHOOSE h : NodesLaid(h, built, order, N)
           S == {k \in Nat : k <= N => LaidTo(laid[k], built, order, k)}
<1>1. N \in Nat /\ DOMAIN order = 1..N /\ \A i \in 1..N : order[i] \in names
    BY OrderEnumerates DEF IsTree
<1>2. LayOut(built) = laid[N]
    BY DEF LayOut, NodesLaid
<1>3. NodesLaid(laid, built, order, N)
    <2>1. \E h : NodesLaid(h, built, order, N)
        BY <1>1, NodesLaidExist
    <2> QED
        BY <2>1
<1> HIDE DEF laid, N, order
<1>4. \A i \in 0..N : laid[i] = IF i = 0 THEN [nodes |-> <<>>, rrsets |-> <<>>, rdata |-> <<>>]
                                ELSE Place(built, order, laid[i - 1], order[i])
    BY <1>3 DEF NodesLaid
<1>5. \A i \in 1..N : SortRuns(built.nodes[order[i]]) \in Seq(Runs)
    BY <1>1, SortEnumerates
<1>6. 0 \in S
    <2> DEFINE a == [nodes |-> <<>>, rrsets |-> <<>>, rdata |-> <<>>]
    <2>1. laid[0] = a
        BY <1>1, <1>4
    <2>2. a.nodes = <<>> /\ a.rrsets = <<>> /\ a.rdata = <<>>
        OBVIOUS
    <2> HIDE DEF a
    <2>3. <<>> \in Seq(NodesOf(built, order)) /\ <<>> \in Seq(Rrset) /\ <<>> \in Seq(AnyValue) /\ Len(<<>>) = 0
        OBVIOUS
    <2>4. IsArena(a)
        BY <2>2, <2>3 DEF IsArena
    <2>5. LaidTo(a, built, order, 0)
        BY <2>2, <2>3, <2>4 DEF LaidTo
    <2> QED
        BY <2>1, <2>5
<1>7. ASSUME NEW k \in Nat, k \in S PROVE k + 1 \in S
    <2>1. SUFFICES ASSUME k + 1 <= N PROVE LaidTo(laid[k + 1], built, order, k + 1)
        OBVIOUS
    <2>2. k + 1 \in 0..N /\ k + 1 # 0 /\ (k + 1) - 1 = k /\ k <= N /\ k + 1 \in 1..N
        BY <1>1, <2>1
    <2>3. laid[k + 1] = Place(built, order, laid[k], order[k + 1])
        BY <1>4, <2>2
    <2>4. LaidTo(laid[k], built, order, k)
        BY <1>7, <2>2
    <2>5. \A i \in 1..(k + 1) : i \in 1..N
        BY <1>1, <2>1
    <2>6. \A i \in 1..(k + 1) : SortRuns(built.nodes[order[i]]) \in Seq(Runs)
        BY <1>5, <2>5
    <2>7. k + 1 \in DOMAIN order
        BY <1>1, <2>2
    <2>8. LaidTo(Place(built, order, laid[k], order[k + 1]), built, order, k + 1)
        BY <2>4, <2>6, <2>7, NodeIsPlaced
    <2> QED
        BY <2>3, <2>8
<1> HIDE DEF S
<1>8. \A k \in Nat : k \in S
    BY <1>6, <1>7, NatSetInduction
<1>9. LaidTo(laid[N], built, order, N)
    <2>1. N \in S /\ N <= N
        BY <1>1, <1>8
    <2> QED
        BY <2>1 DEF S
<1> QED
    BY <1>2, <1>9 DEF N, order


\* The table of n passes of the binary search.
Halves(h, all, below, n) ==
    h = [i \in 0..n |-> IF i = 0 THEN <<0, Len(all)>>
                       ELSE Halve(all, below, h[i - 1])]

LEMMA HalvesExist == ASSUME NEW all, NEW below PROVE \A n \in Nat : \E h : Halves(h, all, below, n)
<1> DEFINE Base == <<0, Len(all)>>
           Following(x, i) == Halve(all, below, x)
           S == {n \in Nat : \E h : Halves(h, all, below, n)}
<1>1. 0 \in S
    <2> DEFINE h == [i \in 0..0 |-> Base]
    <2>1. \A i \in 0..0 : i = 0
        OBVIOUS
    <2>2. h = [i \in 0..0 |-> IF i = 0 THEN Base ELSE Following(h[i - 1], i)]
        <3> HIDE DEF Base, Following
        <3> QED
            BY <2>1
    <2>3. Halves(h, all, below, 0)
        BY <2>2 DEF Halves
    <2> QED
        BY <2>3
<1>2. ASSUME NEW n \in Nat, n \in S PROVE n + 1 \in S
    <2>1. PICK f : Halves(f, all, below, n)
        BY <1>2
    <2>2. \A i \in 0..n : f[i] = IF i = 0 THEN Base ELSE Following(f[i - 1], i)
        BY <2>1 DEF Halves
    <2> DEFINE h == [i \in 0..(n + 1) |-> IF i = n + 1 THEN Following(f[n], n + 1) ELSE f[i]]
               g == [i \in 0..(n + 1) |-> IF i = 0 THEN Base ELSE Following(h[i - 1], i)]
    <2>3. h = g
        <3> HIDE DEF Base, Following
        <3>1. \A i \in 0..n : h[i] = f[i]
            OBVIOUS
        <3>2. h[n + 1] = Following(f[n], n + 1) /\ DOMAIN h = 0..(n + 1) /\ h = [i \in DOMAIN h |-> h[i]]
            OBVIOUS
        <3>3. DOMAIN g = 0..(n + 1)
              /\ \A i \in 0..(n + 1) : g[i] = IF i = 0 THEN Base ELSE Following(h[i - 1], i)
            OBVIOUS
        <3> HIDE DEF h, g
        <3>4. ASSUME NEW i \in 0..(n + 1) PROVE h[i] = g[i]
            <4>1. CASE i = n + 1
                <5>1. i # 0 /\ i - 1 = n /\ n \in 0..n
                    BY <4>1
                <5>2. g[i] = Following(f[n], i)
                    BY <3>1, <3>3, <5>1
                <5> QED
                    BY <3>2, <4>1, <5>2
            <4>2. CASE i # n + 1
                <5>1. i \in 0..n /\ (i # 0 => i - 1 \in 0..n)
                    BY <4>2
                <5> QED
                    BY <2>2, <3>1, <3>3, <5>1
            <4> QED
                BY <4>1, <4>2
        <3>5. g = [i \in DOMAIN g |-> g[i]]
            BY DEF g
        <3> QED
            BY <3>2, <3>3, <3>4, <3>5
    <2> HIDE DEF h
    <2>4. Halves(h, all, below, n + 1)
        BY <2>3 DEF Halves
    <2> QED
        BY <2>4
<1> HIDE DEF S
<1>3. \A n \in Nat : n \in S
    BY <1>1, <1>2, NatSetInduction
<1> QED
    BY <1>3 DEF S

\* One pass keeps the partition point in the window and shrinks it.
LEMMA HalveKeeps ==
    ASSUME NEW all, NEW below, NEW top \in Nat,
           NEW low \in Nat, NEW high \in Nat, low <= high, high <= top,
           \A i, j \in 1..top : i <= j /\ all[j].rtype \in below => all[i].rtype \in below,
           \A j \in 1..low : all[j].rtype \in below,
           \A j \in (high + 1)..top : all[j].rtype \notin below
    PROVE  \E a, b \in Nat :
              /\ Halve(all, below, <<low, high>>) = <<a, b>> /\ a <= b /\ b <= top
              /\ \A j \in 1..a : all[j].rtype \in below
              /\ \A j \in (b + 1)..top : all[j].rtype \notin below
              /\ low < high => b - a < high - low
<1> DEFINE mid == (low + high) \div 2
<1>1. CASE low >= high
    <2>1. Halve(all, below, <<low, high>>) = <<low, high>>
        BY <1>1 DEF Halve
    <2> QED
        BY <1>1, <2>1
<1>2. CASE low < high
    <2>1. mid \in Nat /\ low <= mid /\ mid < high
        BY <1>2
    <2>2. Halve(all, below, <<low, high>>) =
              IF all[mid + 1].rtype \in below THEN <<mid + 1, high>> ELSE <<low, mid>>
        BY <1>2 DEF Halve
    <2> HIDE DEF mid
    <2>3. CASE all[mid + 1].rtype \in below
        <3>1. Halve(all, below, <<low, high>>) = <<mid + 1, high>>
            BY <2>2, <2>3
        <3>2. mid + 1 \in Nat /\ mid + 1 <= high /\ high - (mid + 1) < high - low
            BY <2>1
        <3>3. ASSUME NEW j \in 1..(mid + 1) PROVE all[j].rtype \in below
            <4>1. j \in 1..top /\ mid + 1 \in 1..top /\ j <= mid + 1
                BY <2>1
            <4> QED
                BY <2>3, <4>1
        <3> QED
            BY <3>1, <3>2, <3>3
    <2>4. CASE all[mid + 1].rtype \notin below
        <3>1. Halve(all, below, <<low, high>>) = <<low, mid>>
            BY <2>2, <2>4
        <3>2. low <= mid /\ mid <= top /\ mid - low < high - low
            BY <2>1
        <3>3. ASSUME NEW j \in (mid + 1)..top PROVE all[j].rtype \notin below
            <4>1. j \in 1..top /\ mid + 1 \in 1..top /\ mid + 1 <= j
                BY <2>1
            <4> QED
                BY <2>4, <4>1
        <3> QED
            BY <2>1, <3>1, <3>2, <3>3
    <2> QED
        BY <2>3, <2>4
<1> QED
    BY <1>1, <1>2

\* The search ends between the types below and the others, when they lie so.
LEMMA PartitionFinds ==
    ASSUME NEW all, NEW below, Len(all) \in Nat,
           \A i, j \in 1..Len(all) : i <= j /\ all[j].rtype \in below => all[i].rtype \in below
    PROVE  LET d == partition_point(all, below) IN
           /\ d \in 0..Len(all)
           /\ \A j \in 1..d : all[j].rtype \in below
           /\ \A j \in (d + 1)..Len(all) : all[j].rtype \notin below
<1> DEFINE N == Len(all)
           w == CHOOSE h : Halves(h, all, below, N)
<1>1. partition_point(all, below) = w[N][1]
    BY DEF partition_point, Halves
<1>2. Halves(w, all, below, N)
    <2>1. \E h : Halves(h, all, below, N)
        BY HalvesExist
    <2> QED
        BY <2>1
<1> HIDE DEF w
<1>3. /\ w[0] = <<0, N>>
      /\ \A i \in 1..N : w[i] = Halve(all, below, w[i - 1])
    <2>1. \A i \in 0..N : w[i] = IF i = 0 THEN <<0, N>> ELSE Halve(all, below, w[i - 1])
        BY <1>2 DEF Halves
    <2>2. 0 \in 0..N /\ \A i \in 1..N : i \in 0..N /\ i # 0
        OBVIOUS
    <2> HIDE DEF N
    <2> QED
        BY <2>1, <2>2
<1>10. N \in Nat
    OBVIOUS
<1> DEFINE Good(i, a, b) ==
               /\ w[i] = <<a, b>> /\ a <= b /\ b <= N
               /\ \A j \in 1..a : all[j].rtype \in below
               /\ \A j \in (b + 1)..N : all[j].rtype \notin below
               /\ b - a <= N - i \/ a = b
           S == {i \in Nat : i <= N => \E a, b \in Nat : Good(i, a, b)}
<1>11. \A i, j \in 1..N : i <= j /\ all[j].rtype \in below => all[i].rtype \in below
    OBVIOUS
<1> HIDE DEF N
<1>4. 0 \in S
    <2>1. Good(0, 0, N)
        BY <1>3, <1>10
    <2> HIDE DEF Good
    <2> QED
        BY <1>10, <2>1
<1>5. ASSUME NEW i \in Nat, i \in S PROVE i + 1 \in S
    <2>1. ASSUME i + 1 <= N PROVE \E a, b \in Nat : Good(i + 1, a, b)
        <3>1. i <= N /\ i + 1 \in 1..N /\ (i + 1) - 1 = i
            BY <1>10, <2>1
        <3>2. PICK a \in Nat, b \in Nat : Good(i, a, b)
            BY <1>5, <3>1
        <3>3. w[i + 1] = Halve(all, below, <<a, b>>)
            BY <1>3, <3>1, <3>2
        <3>4. PICK c \in Nat, d \in Nat :
              /\ Halve(all, below, <<a, b>>) = <<c, d>> /\ c <= d /\ d <= N
              /\ \A j \in 1..c : all[j].rtype \in below
              /\ \A j \in (d + 1)..N : all[j].rtype \notin below
              /\ a < b => d - c < b - a
            <4>1. /\ a <= b /\ b <= N
                  /\ \A j \in 1..a : all[j].rtype \in below
                  /\ \A j \in (b + 1)..N : all[j].rtype \notin below
                BY <3>2
            <4> HIDE DEF Good, S
            <4> QED
                BY <1>10, <1>11, <4>1, HalveKeeps
        <3>6. d - c <= N - (i + 1) \/ c = d
            <4>1. CASE a < b
                <5>1. d - c < b - a /\ b - a <= N - i
                    BY <3>2, <3>4, <4>1
                <5> QED
                    BY <1>10, <5>1
            <4>2. CASE ~(a < b)
                <5>1. a = b
                    BY <3>2, <4>2
                <5>2. Halve(all, below, <<a, b>>) = <<a, b>>
                    BY <5>1 DEF Halve
                <5>3. c = a /\ d = b
                    BY <3>4, <5>2
                <5> QED
                    BY <5>1, <5>3
            <4> QED
                BY <4>1, <4>2
        <3>7. Good(i + 1, c, d)
            BY <3>3, <3>4, <3>6
        <3> HIDE DEF Good
        <3> QED
            BY <3>7
    <2> HIDE DEF Good
    <2> QED
        BY <2>1
<1> HIDE DEF S
<1>6. \A i \in Nat : i \in S
    BY <1>4, <1>5, NatSetInduction
<1>7. PICK a \in Nat, b \in Nat : Good(N, a, b)
    <2>1. N \in S
        BY <1>6, <1>10
    <2> HIDE DEF Good
    <2> QED
        BY <1>10, <2>1 DEF S
<1>8. a = b /\ w[N][1] = a
    BY <1>7, <1>10
<1> QED
    BY <1>1, <1>7, <1>8 DEF N

\* The steps of FlattenSeq.
LEMMA FlattenSteps ==
    ASSUME NEW seqs, Len(seqs) \in Nat \ {0}
    PROVE  \E f : /\ FlattenSeq(seqs) = f[Len(seqs)] /\ f[1] = seqs[1]
                  /\ \A i \in 1..Len(seqs) : i # 1 => f[i] = f[i - 1] \o seqs[i]
<1> DEFINE N == Len(seqs)
           f == CHOOSE h : Flattens(h, seqs, N)
<1>1. FlattenSeq(seqs) = f[N]
    BY DEF FlattenSeq, Flattens
<1>2. Flattens(f, seqs, N)
    BY Flattened
<1> HIDE DEF f
<1>3. \A i \in 1..N : f[i] = IF i = 1 THEN seqs[i] ELSE f[i - 1] \o seqs[i]
    BY <1>2 DEF Flattens
<1>4. 1 \in 1..N
    OBVIOUS
<1>5. f[1] = seqs[1] /\ \A i \in 1..N : i # 1 => f[i] = f[i - 1] \o seqs[i]
    BY <1>3, <1>4
<1> QED
    BY <1>1, <1>5

\* Of sequences that are empty but for one, that one is left.
LEMMA FlattenOne ==
    ASSUME NEW S, NEW seqs \in Seq(Seq(S)), NEW k \in 1..Len(seqs),
           \A i \in 1..Len(seqs) : i # k => seqs[i] = <<>>
    PROVE  FlattenSeq(seqs) = seqs[k]
<1> DEFINE N == Len(seqs)
<1>1. N \in Nat \ {0} /\ \A i \in 1..N : seqs[i] \in Seq(S)
    BY LenProperties, ElementOfSeq
<1>2. PICK f : /\ FlattenSeq(seqs) = f[N] /\ f[1] = seqs[1]
               /\ \A i \in 1..N : i # 1 => f[i] = f[i - 1] \o seqs[i]
    BY <1>1, FlattenSteps
<1>3. \A i \in 1..N : i # k => seqs[i] = <<>>
    OBVIOUS
<1>4. k \in 1..N
    OBVIOUS
<1> HIDE DEF N
<1> DEFINE Right(n) == f[n] = IF k <= n THEN seqs[k] ELSE <<>>
           T == {n \in Nat : n + 1 <= N => Right(n + 1)}
<1>5. 0 \in T
    <2>1. 1 \in 1..N
        BY <1>1
    <2>2. CASE k = 1
        BY <1>2, <2>2
    <2>3. CASE k # 1
        <3>1. ~(k <= 1) /\ seqs[1] = <<>>
            BY <1>3, <1>4, <2>1, <2>3
        <3> QED
            BY <1>2, <3>1
    <2> QED
        BY <2>2, <2>3
<1>6. ASSUME NEW n \in Nat, n \in T PROVE n + 1 \in T
    <2>1. SUFFICES ASSUME (n + 1) + 1 <= N PROVE Right((n + 1) + 1)
        OBVIOUS
    <2> DEFINE m == n + 1
               l == (n + 1) + 1
    <2>2. m \in Nat /\ l = m + 1 /\ l \in 1..N /\ l # 1 /\ l - 1 = m /\ n + 1 <= N
        BY <1>1, <2>1
    <2>3. f[m] = IF k <= m THEN seqs[k] ELSE <<>>
        BY <1>6, <2>2
    <2> HIDE DEF m, l
    <2>4. f[l] = f[m] \o seqs[l]
        BY <1>2, <2>2
    <2>5. seqs[k] \o <<>> = seqs[k] /\ <<>> \o seqs[k] = seqs[k] /\ <<>> \o <<>> = <<>>
        <3>1. seqs[k] \in Seq(S) /\ <<>> \in Seq(S)
            BY <1>1, <1>4
        <3> QED
            BY <3>1, ConcatEmptySeq
    <2>6. CASE k = l
        <3>1. ~(k <= m) /\ k <= l
            BY <1>4, <2>2, <2>6
        <3> QED
            BY <2>3, <2>4, <2>5, <2>6, <3>1 DEF l
    <2>7. CASE k # l
        <3>1. (k <= l) <=> (k <= m)
            BY <1>4, <2>2, <2>7
        <3>2. seqs[l] = <<>>
            BY <1>3, <2>2, <2>7
        <3>3. f[l] = IF k <= l THEN seqs[k] ELSE <<>>
            BY <2>3, <2>4, <2>5, <3>1, <3>2
        <3> QED
            BY <3>3 DEF l
    <2> QED
        BY <2>6, <2>7
<1> HIDE DEF T
<1>7. \A n \in Nat : n \in T
    BY <1>5, <1>6, NatSetInduction
<1>8. N - 1 \in T /\ (N - 1) + 1 = N /\ k <= N
    BY <1>1, <1>4, <1>7
<1>9. Right(N)
    BY <1>1, <1>8 DEF T
<1> QED
    BY <1>2, <1>8, <1>9

\* No two runs of one type.
OneRunPerType(runs) == \A i, j \in DOMAIN runs : runs[i].rtype = runs[j].rtype => i = j

\* Retaining runs does not add one of a type that is there.
LEMMA RetainOncePerType ==
    ASSUME NEW S, NEW runs \in Seq(S), OneRunPerType(runs), NEW types
    PROVE  OneRunPerType(Retain(runs, types))
<1> DEFINE N == Len(runs)
           seqs == [i \in DOMAIN runs |-> IF runs[i].rtype \in types THEN <<runs[i]>> ELSE <<>>]
<1>1. N \in Nat /\ DOMAIN runs = 1..N /\ \A i \in 1..N : runs[i] \in S
    BY LenProperties, ElementOfSeq
<1>2. Retain(runs, types) = FlattenSeq(seqs)
    BY DEF Retain
<1>3. \A i \in 1..N : /\ runs[i].rtype \in types => seqs[i] = <<runs[i]>>
                      /\ runs[i].rtype \notin types => seqs[i] = <<>>
    BY <1>1
<1>4. \A i \in 1..N : seqs[i] \in Seq(S)
    <2>1. \A i \in 1..N : <<runs[i]>> \in Seq(S)
        BY <1>1
    <2>2. <<>> \in Seq(S)
        BY EmptySeq
    <2> HIDE DEF seqs
    <2> QED
        BY <1>3, <2>1, <2>2
<1>5. seqs \in Seq(Seq(S)) /\ Len(seqs) = N /\ DOMAIN seqs = 1..N
    <2>1. seqs \in [1..N -> Seq(S)]
        <3>1. DOMAIN seqs = 1..N /\ seqs = [i \in 1..N |-> seqs[i]]
            BY <1>1
        <3> HIDE DEF seqs
        <3> QED
            BY <1>4, <3>1
    <2> HIDE DEF seqs, N
    <2>2. seqs \in Seq(Seq(S))
        BY <1>1, <2>1, SeqDef
    <2>3. Len(seqs) = N
        BY <1>1, <2>1, <2>2, LenProperties
    <2> QED
        BY <2>1, <2>2, <2>3
<1>6. \A i, j \in 1..N : runs[i].rtype = runs[j].rtype => i = j
    BY <1>1 DEF OneRunPerType
<1> HIDE DEF seqs, N
<1>7. CASE N = 0
    <2>1. FlattenSeq(seqs) = seqs
        BY <1>5, <1>7 DEF FlattenSeq
    <2>2. DOMAIN seqs = {}
        BY <1>5, <1>7
    <2> QED
        BY <1>2, <2>1, <2>2 DEF OneRunPerType
<1>8. CASE N # 0
    <2>1. PICK f : /\ FlattenSeq(seqs) = f[N] /\ f[1] = seqs[1]
                   /\ \A i \in 1..N : i # 1 => f[i] = f[i - 1] \o seqs[i]
        <3>1. Len(seqs) \in Nat \ {0}
            BY <1>1, <1>5, <1>8
        <3> QED
            BY <1>5, <3>1, FlattenSteps
    <2> DEFINE Right(n) == /\ f[n] \in Seq(S)
                           /\ \A j \in DOMAIN f[n] : \E i \in 1..n : f[n][j] = runs[i]
                           /\ OneRunPerType(f[n])
               T == {n \in Nat : n + 1 <= N => Right(n + 1)}
    <2>2. 0 \in T
        <3>1. 1 \in 1..N
            BY <1>1, <1>8
        <3>2. CASE runs[1].rtype \in types
            <4>1. f[1] = <<runs[1]>>
                BY <1>3, <2>1, <3>1, <3>2
            <4>2. <<runs[1]>> \in Seq(S) /\ DOMAIN <<runs[1]>> = {1} /\ <<runs[1]>>[1] = runs[1]
                BY <1>1, <3>1
            <4>3. Right(1)
                BY <4>1, <4>2 DEF OneRunPerType
            <4> QED
                BY <4>3
        <3>3. CASE runs[1].rtype \notin types
            <4>1. f[1] = <<>>
                BY <1>3, <2>1, <3>1, <3>3
            <4>2. <<>> \in Seq(S) /\ DOMAIN <<>> = {}
                BY EmptySeq
            <4>3. Right(1)
                BY <4>1, <4>2 DEF OneRunPerType
            <4> QED
                BY <4>3
        <3> QED
            BY <3>2, <3>3
    <2>3. ASSUME NEW n \in Nat, n \in T PROVE n + 1 \in T
        <3>1. SUFFICES ASSUME (n + 1) + 1 <= N PROVE Right((n + 1) + 1)
            OBVIOUS
        <3> DEFINE m == n + 1
                   l == (n + 1) + 1
                   u == f[m]
        <3>2. m \in Nat /\ l = m + 1 /\ l \in 1..N /\ l # 1 /\ l - 1 = m /\ n + 1 <= N
            BY <1>1, <3>1
        <3>3. /\ u \in Seq(S) /\ OneRunPerType(u)
              /\ \A j \in DOMAIN u : \E i \in 1..m : u[j] = runs[i]
            BY <2>3, <3>2
        <3>4. f[l] = f[m] \o seqs[l]
            <4> HIDE DEF m, l
            <4> QED
                BY <2>1, <3>2
        <3>5. \A i \in 1..m : i \in 1..l /\ i \in 1..N /\ i # l
            BY <1>1, <3>2
        <3> HIDE DEF m, l, u
        <3>6. CASE runs[l].rtype \notin types
            <4>1. f[l] = u
                <5>1. seqs[l] = <<>>
                    BY <1>3, <3>2, <3>6
                <5> QED
                    BY <3>3, <3>4, <5>1, ConcatEmptySeq DEF u
            <4>2. Right(l)
                BY <3>3, <3>5, <4>1
            <4> QED
                BY <4>2 DEF l
        <3>7. CASE runs[l].rtype \in types
            <4> DEFINE v == Append(u, runs[l])
            <4>1. f[l] = v
                <5>1. seqs[l] = <<runs[l]>>
                    BY <1>3, <3>2, <3>7
                <5>2. runs[l] \in S
                    BY <1>1, <3>2
                <5> QED
                    BY <3>3, <3>4, <5>1, <5>2, AppendIsConcat DEF u
            <4>2. /\ v \in Seq(S) /\ Len(v) = Len(u) + 1 /\ v[Len(u) + 1] = runs[l]
                  /\ \A i \in 1..Len(u) : v[i] = u[i]
                BY <1>1, <3>2, <3>3, AppendProperties
            <4>3. Len(u) \in Nat /\ DOMAIN u = 1..Len(u)
                BY <3>3, LenProperties
            <4>4. DOMAIN v = 1..(Len(u) + 1)
                BY <4>2, LenProperties
            <4> HIDE DEF v
            <4>5. \A j \in DOMAIN v : j # Len(u) + 1 => j \in 1..Len(u)
                BY <4>3, <4>4
            <4>6. l \in 1..l
                BY <3>2
            <4>7. \A j \in DOMAIN v : \E i \in 1..l : v[j] = runs[i]
                BY <3>3, <3>5, <4>2, <4>3, <4>5, <4>6
            <4>8. \A j \in 1..Len(u) : u[j].rtype # runs[l].rtype
                BY <1>6, <3>2, <3>3, <3>5, <4>3
            <4>9. ASSUME NEW i \in DOMAIN v, NEW j \in DOMAIN v, v[i].rtype = v[j].rtype PROVE i = j
                <5>1. CASE i \in 1..Len(u) /\ j \in 1..Len(u)
                    BY <3>3, <4>2, <4>3, <4>9, <5>1 DEF OneRunPerType
                <5>2. CASE i = Len(u) + 1 /\ j \in 1..Len(u)
                    BY <4>2, <4>8, <4>9, <5>2
                <5>3. CASE j = Len(u) + 1 /\ i \in 1..Len(u)
                    BY <4>2, <4>8, <4>9, <5>3
                <5> QED
                    BY <4>5, <5>1, <5>2, <5>3
            <4>10. OneRunPerType(v)
                BY <4>9 DEF OneRunPerType
            <4>11. Right(l)
                BY <4>1, <4>2, <4>7, <4>10
            <4> QED
                BY <4>11 DEF l
        <3> QED
            BY <3>6, <3>7
    <2> HIDE DEF T
    <2>4. \A n \in Nat : n \in T
        BY <2>2, <2>3, NatSetInduction
    <2>5. N - 1 \in Nat /\ (N - 1) + 1 = N
        BY <1>1, <1>8
    <2>6. Right(N)
        <3>1. N - 1 \in T /\ N <= N
            BY <1>1, <2>4, <2>5
        <3> HIDE DEF Right
        <3> QED
            BY <2>5, <3>1 DEF T
    <2> QED
        BY <1>2, <2>1, <2>6
<1> QED
    BY <1>7, <1>8

LEMMA AsSeq ==
    ASSUME NEW S, NEW n \in Nat, NEW f \in [1..n -> S]
    PROVE  f \in Seq(S) /\ Len(f) = n
<1>1. f \in Seq(S)
    BY SeqDef
<1>2. DOMAIN f = 1..Len(f) /\ Len(f) \in Nat
    BY <1>1, LenProperties
<1> QED
    BY <1>1, <1>2

LEMMA FlattenSingle ==
    ASSUME NEW S, NEW seqs \in [1..1 -> Seq(S)]
    PROVE  FlattenSeq(seqs) = seqs[1]
<1>1. ASSUME NEW n \in Nat, n = 1 PROVE seqs \in Seq(Seq(S)) /\ Len(seqs) = n
    <2>1. seqs \in [1..n -> Seq(S)]
        BY <1>1
    <2> QED
        BY <2>1, AsSeq
<1>2. seqs \in Seq(Seq(S)) /\ Len(seqs) = 1
    BY <1>1
<1>3. 1 \in 1..Len(seqs) /\ \A i \in 1..Len(seqs) : i = 1
    BY <1>2
<1> QED
    BY <1>2, <1>3, FlattenOne

\* The records of one run.
RecordsOf(run, owner) ==
    [i \in DOMAIN run.rdata |->
        [owner |-> owner, rtype |-> run.rtype, ttl |-> run.ttl, data |-> run.rdata[i]]]

LEMMA RecordsOfRun ==
    ASSUME NEW run \in Runs, NEW owner
    PROVE  RecordsOf(run, owner) \in Seq(RunRecords(run, run.rtype, owner))
<1> DEFINE R(i) == [owner |-> owner, rtype |-> run.rtype, ttl |-> run.ttl, data |-> run.rdata[i]]
           S == RunRecords(run, run.rtype, owner)
<1>1. Len(run.rdata) \in Nat /\ DOMAIN run.rdata = 1..Len(run.rdata)
    BY RunFacts
<1>2. \A i \in 1..Len(run.rdata) : R(i) \in S
    BY <1>1 DEF RunRecords, ToSet
<1>3. RecordsOf(run, owner) = [i \in 1..Len(run.rdata) |-> R(i)]
    BY <1>1 DEF RecordsOf
<1> HIDE DEF R, S
<1>4. RecordsOf(run, owner) \in [1..Len(run.rdata) -> S]
    BY <1>2, <1>3
<1> QED
    BY <1>1, <1>4, SeqDef DEF S

\* The RRset of a type is the one run that has it, and emit yields its records.
LEMMA OneRunEmitted ==
    ASSUME NEW runs \in Seq(Runs), OneRunPerType(runs), NEW k \in DOMAIN runs, NEW owner
    PROVE  emit(runs, runs[k].rtype, owner) = RecordsOf(runs[k], owner)
<1> DEFINE N == Len(runs)
           t == runs[k].rtype
           r == runs[k]
           all == RunsOf(runs, t)
           seqs == [i \in DOMAIN runs |-> IF runs[i].rtype \in {t} THEN <<runs[i]>> ELSE <<>>]
<1>1. N \in Nat /\ DOMAIN runs = 1..N /\ \A i \in 1..N : runs[i] \in Runs
    BY LenProperties, ElementOfSeq
<1>2. all = FlattenSeq(seqs)
    BY DEF RunsOf, Retain
<1>3. /\ seqs[k] = <<r>>
      /\ \A i \in 1..N : i # k => seqs[i] = <<>>
    BY <1>1 DEF OneRunPerType
<1>4. \A i \in 1..N : seqs[i] \in Seq(Runs)
    <2>1. <<r>> \in Seq(Runs) /\ <<>> \in Seq(Runs)
        BY <1>1
    <2> HIDE DEF seqs
    <2> QED
        BY <1>3, <2>1
<1>5. seqs \in Seq(Seq(Runs)) /\ Len(seqs) = N
    <2>1. DOMAIN seqs = 1..N /\ seqs = [i \in 1..N |-> seqs[i]]
        BY <1>1
    <2> HIDE DEF seqs, N
    <2>2. seqs \in [1..N -> Seq(Runs)]
        BY <1>4, <2>1
    <2>3. seqs \in Seq(Seq(Runs))
        BY <1>1, <2>2, SeqDef
    <2>4. Len(seqs) = N
        BY <1>1, <2>1, <2>3, LenProperties
    <2> QED
        BY <2>3, <2>4
<1>6. all = <<r>>
    <2>1. k \in 1..N
        BY <1>1
    <2> HIDE DEF seqs, N, all, r
    <2>2. FlattenSeq(seqs) = seqs[k]
        BY <1>3, <1>5, <2>1, FlattenOne
    <2> QED
        BY <1>2, <1>3, <2>2
<1>7. DOMAIN all = 1..1 /\ all[1] = r
    BY <1>6
<1> DEFINE Recs(x) == [i \in DOMAIN x.rdata |->
                              [owner |-> owner, rtype |-> t, ttl |-> x.ttl, data |-> x.rdata[i]]]
           recs == [i \in DOMAIN all |-> Recs(all[i])]
<1>8. emit(runs, t, owner) = FlattenSeq(recs)
    BY DEF emit
<1>9. Recs(r) = RecordsOf(r, owner)
    BY DEF RecordsOf
<1> HIDE DEF all, Recs
<1>10. recs = [i \in 1..1 |-> Recs(r)]
    <2>1. \A i \in 1..1 : all[i] = r
        BY <1>7
    <2> QED
        BY <1>7, <2>1
<1>11. Recs(r) \in Seq(RunRecords(r, r.rtype, owner))
    BY <1>1, <1>9, RecordsOfRun
<1> HIDE DEF recs
<1>12. recs \in [1..1 -> Seq(RunRecords(r, r.rtype, owner))] /\ recs[1] = Recs(r)
    <2> HIDE DEF r
    <2> QED
        BY <1>10, <1>11
<1>13. FlattenSeq(recs) = recs[1]
    BY <1>12, FlattenSingle
<1> QED
    BY <1>8, <1>9, <1>12, <1>13

\* A type no run has is a type without records.
LEMMA NoneEmitted ==
    ASSUME NEW runs \in Seq(Runs), NEW t, ~Has(runs, t), NEW owner
    PROVE  emit(runs, t, owner) = <<>>
<1> DEFINE N == NodeRecords(runs, t, owner)
<1>1. IsRuns(runs, Runs, AnyValue)
    BY RunFacts DEF IsRuns, AnyValue
<1>2. emit(runs, t, owner) \in Seq(N) /\ ToSet(emit(runs, t, owner)) = N
    BY <1>1, Emitted
<1>3. N = {}
    <2>1. {x \in ToSet(runs) : x.rtype = t} = {}
        BY DEF Has, ToSet
    <2> QED
        BY <2>1 DEF NodeRecords
<1> QED
    BY <1>2, <1>3, EmptyHoldsNothing

\* The range of an RRset is the rdata of the run it was made from.
LEMMA RangeOfRun ==
    ASSUME NEW a, IsArena(a), NEW run \in Runs, NEW x, Reads(a, x, run)
    PROVE  span(a.rdata, x.rdata) = run.rdata
<1> DEFINE p == x.rdata[1]
           q == x.rdata[2]
           n == Len(run.rdata)
           s == SubSeq(a.rdata, p + 1, q)
<1>1. /\ p \in Nat /\ q \in Nat /\ q = p + n /\ q <= Len(a.rdata)
      /\ \A i \in 1..n : a.rdata[p + i] = run.rdata[i]
    BY DEF Reads
<1>2. n \in Nat /\ run.rdata \in Seq(AnyValue)
    BY RunFacts DEF AnyValue
<1>3. Len(a.rdata) \in Nat /\ a.rdata \in Seq(AnyValue)
    BY ArenaFacts DEF IsArena
<1>4. span(a.rdata, x.rdata) = s
    BY DEF span
<1> HIDE DEF p, q, n
<1>5. \A i \in (p + 1)..q : a.rdata[i] \in AnyValue
    <2>1. \A i \in (p + 1)..q : i \in 1..Len(a.rdata)
        BY <1>1, <1>3
    <2> QED
        BY <1>3, <2>1, ElementOfSeq
<1>6. p + 1 \in Int /\ q \in Int
    BY <1>1
<1>7. /\ s \in Seq(AnyValue)
      /\ Len(s) = IF p + 1 <= q THEN q - (p + 1) + 1 ELSE 0
      /\ \A i \in 1..(q - (p + 1) + 1) : s[i] = a.rdata[(p + 1) + i - 1]
    BY <1>5, <1>6, SubSeqProperties
<1>8. q - (p + 1) + 1 = n /\ \A i \in 1..n : (p + 1) + i - 1 = p + i
    BY <1>1, <1>2
<1>9. Len(s) = n
    BY <1>1, <1>2, <1>7
<1>10. \A i \in 1..n : s[i] = run.rdata[i]
    BY <1>1, <1>7, <1>8
<1> HIDE DEF s
<1> QED
    BY <1>2, <1>4, <1>7, <1>9, <1>10, SeqEqual DEF n

\* So is what the query path reads of one RRset.
LEMMA RrsetRead ==
    ASSUME NEW a, IsArena(a), NEW run \in Runs, NEW x, Reads(a, x, run), NEW owner
    PROVE  EmitRun(a, <<x>>, owner) = RecordsOf(run, owner)
<1> DEFINE Of(rrset) ==
               LET values == span(a.rdata, rrset.rdata) IN
               [i \in DOMAIN values |->
                   [owner |-> owner, rtype |-> rrset.rtype, ttl |-> rrset.ttl, data |-> values[i]]]
           seqs == [i \in DOMAIN <<x>> |-> Of(<<x>>[i])]
<1>1. EmitRun(a, <<x>>, owner) = FlattenSeq(seqs)
    BY DEF EmitRun
<1>2. x.rtype = run.rtype /\ x.ttl = run.ttl
    BY DEF Reads
<1>3. span(a.rdata, x.rdata) = run.rdata
    BY RangeOfRun
<1>4. Of(x) = RecordsOf(run, owner)
    BY <1>2, <1>3 DEF RecordsOf
<1> HIDE DEF Of
<1>5. seqs = [i \in 1..1 |-> Of(x)]
    <2>1. DOMAIN <<x>> = 1..1 /\ \A i \in 1..1 : <<x>>[i] = x
        OBVIOUS
    <2> QED
        BY <2>1
<1>6. Of(x) \in Seq(RunRecords(run, run.rtype, owner))
    BY <1>4, RecordsOfRun
<1> HIDE DEF seqs
<1>7. seqs \in [1..1 -> Seq(RunRecords(run, run.rtype, owner))] /\ seqs[1] = Of(x)
    BY <1>5, <1>6
<1>8. FlattenSeq(seqs) = seqs[1]
    BY <1>7, FlattenSingle
<1> QED
    BY <1>1, <1>4, <1>7, <1>8

LEMMA NothingRead ==
    ASSUME NEW a, NEW owner
    PROVE  EmitRun(a, <<>>, owner) = <<>>
<1> DEFINE Of(rrset) ==
               LET values == span(a.rdata, rrset.rdata) IN
               [i \in DOMAIN values |->
                   [owner |-> owner, rtype |-> rrset.rtype, ttl |-> rrset.ttl, data |-> values[i]]]
           seqs == [i \in DOMAIN <<>> |-> Of(<<>>[i])]
<1>1. EmitRun(a, <<>>, owner) = FlattenSeq(seqs)
    BY DEF EmitRun
<1> HIDE DEF Of
<1>2. seqs = <<>>
    OBVIOUS
<1>3. Len(<<>>) = 0
    OBVIOUS
<1> QED
    BY <1>1, <1>2, <1>3 DEF FlattenSeq

\* The range of a node is the RRsets its runs were made into.
LEMMA RangeOfNode ==
    ASSUME NEW a, IsArena(a), NEW node, NEW runs \in Seq(Runs), HoldsRuns(a, node, runs)
    PROVE  /\ span(a.rrsets, node.rrsets) \in Seq(Rrset)
           /\ Len(span(a.rrsets, node.rrsets)) = Len(runs)
           /\ \A j \in 1..Len(runs) : Reads(a, span(a.rrsets, node.rrsets)[j], runs[j])
<1> DEFINE p == node.rrsets[1]
           q == node.rrsets[2]
           n == Len(runs)
           s == SubSeq(a.rrsets, p + 1, q)
<1>1. /\ p \in Nat /\ q = p + n /\ q <= Len(a.rrsets)
      /\ \A j \in 1..n : Reads(a, a.rrsets[p + j], runs[j])
    BY DEF HoldsRuns
<1>2. n \in Nat
    BY LenProperties
<1>3. Len(a.rrsets) \in Nat /\ a.rrsets \in Seq(Rrset)
    BY ArenaFacts DEF IsArena
<1>4. span(a.rrsets, node.rrsets) = s
    BY DEF span
<1> HIDE DEF p, q, n
<1>5. \A i \in (p + 1)..q : a.rrsets[i] \in Rrset
    <2>1. \A i \in (p + 1)..q : i \in 1..Len(a.rrsets)
        BY <1>1, <1>2, <1>3
    <2> QED
        BY <1>3, <2>1, ElementOfSeq
<1>6. p + 1 \in Int /\ q \in Int
    BY <1>1, <1>2
<1>7. /\ s \in Seq(Rrset)
      /\ Len(s) = IF p + 1 <= q THEN q - (p + 1) + 1 ELSE 0
      /\ \A i \in 1..(q - (p + 1) + 1) : s[i] = a.rrsets[(p + 1) + i - 1]
    BY <1>5, <1>6, SubSeqProperties
<1>8. q - (p + 1) + 1 = n /\ \A i \in 1..n : (p + 1) + i - 1 = p + i
    BY <1>1, <1>2
<1>9. Len(s) = n
    BY <1>1, <1>2, <1>7
<1>10. \A i \in 1..n : s[i] = a.rrsets[p + i]
    BY <1>7, <1>8
<1> HIDE DEF s
<1> QED
    BY <1>1, <1>4, <1>7, <1>9, <1>10 DEF n

\* Between the two partition points is the one RRset of the type, if there is one.
LEMMA TypeFound ==
    ASSUME NEW all \in Seq(Rrset), NEW t \in DOMAIN TypeCode,
           \A j, k \in 1..Len(all) : j < k => TypeCode[all[j].rtype] <= TypeCode[all[k].rtype],
           \A j, k \in 1..Len(all) : all[j].rtype = all[k].rtype => j = k
    PROVE  LET slice == span(all, <<partition_point(all, {u \in DOMAIN TypeCode : TypeCode[u] < TypeCode[t]}),
                                    partition_point(all, {u \in DOMAIN TypeCode : TypeCode[u] <= TypeCode[t]})>>)
           IN /\ \A j \in 1..Len(all) : all[j].rtype = t => slice = <<all[j]>>
              /\ (\A j \in 1..Len(all) : all[j].rtype # t) => slice = <<>>
<1> DEFINE N == Len(all)
           Lower == {u \in DOMAIN TypeCode : TypeCode[u] < TypeCode[t]}
           UpTo == {u \in DOMAIN TypeCode : TypeCode[u] <= TypeCode[t]}
           p == partition_point(all, Lower)
           q == partition_point(all, UpTo)
           s == SubSeq(all, p + 1, q)
<1>1. /\ N \in Nat /\ \A j \in 1..N : all[j] \in Rrset
      /\ \A j \in 1..N : all[j].rtype \in DOMAIN TypeCode
    <2>1. N \in Nat /\ \A j \in 1..N : all[j] \in Rrset
        BY LenProperties, ElementOfSeq
    <2> QED
        BY <2>1 DEF Rrset
<1>2. TypeCode[t] \in Nat /\ \A j \in 1..N : TypeCode[all[j].rtype] \in Nat
    BY <1>1, TypesAssumption
<1>3. \A j, k \in 1..N : j <= k => TypeCode[all[j].rtype] <= TypeCode[all[k].rtype]
    <2>1. \A j, k \in 1..N : j <= k => j = k \/ j < k
        BY <1>1
    <2>2. \A j \in 1..N : TypeCode[all[j].rtype] <= TypeCode[all[j].rtype]
        BY <1>2
    <2> QED
        BY <2>1, <2>2
<1>4. /\ p \in 0..N /\ \A j \in 1..p : all[j].rtype \in Lower
      /\ \A j \in (p + 1)..N : all[j].rtype \notin Lower
    <2>1. \A i, j \in 1..N : i <= j /\ all[j].rtype \in Lower => all[i].rtype \in Lower
        <3>1. ASSUME NEW i \in 1..N, NEW j \in 1..N, i <= j, TypeCode[all[j].rtype] < TypeCode[t]
              PROVE  TypeCode[all[i].rtype] < TypeCode[t]
            <4>1. TypeCode[all[i].rtype] <= TypeCode[all[j].rtype]
                BY <1>3, <3>1
            <4> QED
                BY <1>2, <3>1, <4>1
        <3> QED
            BY <1>1, <3>1
    <2> HIDE DEF Lower
    <2> QED
        BY <1>1, <2>1, PartitionFinds
<1>5. /\ q \in 0..N /\ \A j \in 1..q : all[j].rtype \in UpTo
      /\ \A j \in (q + 1)..N : all[j].rtype \notin UpTo
    <2>1. \A i, j \in 1..N : i <= j /\ all[j].rtype \in UpTo => all[i].rtype \in UpTo
        <3>1. ASSUME NEW i \in 1..N, NEW j \in 1..N, i <= j, TypeCode[all[j].rtype] <= TypeCode[t]
              PROVE  TypeCode[all[i].rtype] <= TypeCode[t]
            <4>1. TypeCode[all[i].rtype] <= TypeCode[all[j].rtype]
                BY <1>3, <3>1
            <4> QED
                BY <1>2, <3>1, <4>1
        <3> QED
            BY <1>1, <3>1
    <2> HIDE DEF UpTo
    <2> QED
        BY <1>1, <2>1, PartitionFinds
<1>6. span(all, <<p, q>>) = s
    BY DEF span
<1>13. \A j, k \in 1..N : all[j].rtype = all[k].rtype => j = k
    OBVIOUS
<1> HIDE DEF p, q, N
<1>7. ASSUME NEW j \in 1..N PROVE p < j /\ j <= q <=> all[j].rtype = t
    <2>1. all[j].rtype \in DOMAIN TypeCode /\ TypeCode[all[j].rtype] \in Nat /\ TypeCode[t] \in Nat
        BY <1>1, <1>2
    <2>2. p < j <=> ~(TypeCode[all[j].rtype] < TypeCode[t])
        <3>1. CASE p < j
            <4>1. j \in (p + 1)..N
                BY <1>1, <1>4, <3>1
            <4> QED
                BY <1>4, <2>1, <3>1, <4>1
        <3>2. CASE ~(p < j)
            <4>1. j \in 1..p
                BY <1>1, <1>4, <3>2
            <4> QED
                BY <1>4, <3>2, <4>1
        <3> QED
            BY <3>1, <3>2
    <2>3. j <= q <=> TypeCode[all[j].rtype] <= TypeCode[t]
        <3>1. CASE j <= q
            <4>1. j \in 1..q
                BY <1>1, <1>5, <3>1
            <4> QED
                BY <1>5, <3>1, <4>1
        <3>2. CASE ~(j <= q)
            <4>1. j \in (q + 1)..N
                BY <1>1, <1>5, <3>2
            <4> QED
                BY <1>5, <2>1, <3>2, <4>1
        <3> QED
            BY <3>1, <3>2
    <2>4. p < j /\ j <= q <=> TypeCode[all[j].rtype] = TypeCode[t]
        BY <2>1, <2>2, <2>3
    <2> QED
        BY <2>1, <2>4, TypesAssumption
<1>8. ASSUME NEW j \in 1..N, all[j].rtype = t PROVE s = <<all[j]>>
    <2>1. p < j /\ j <= q
        BY <1>7, <1>8
    <2>2. \A k \in 1..N : p < k /\ k <= q => k = j
        BY <1>7, <1>8, <1>13
    <2>3. p + 1 = j
        <3>1. p + 1 \in 1..N /\ p < p + 1 /\ p + 1 <= q
            BY <1>1, <1>4, <1>5, <2>1
        <3> QED
            BY <2>2, <3>1
    <2>4. q = j
        <3>1. q \in 1..N /\ p < q /\ q <= q
            BY <1>1, <1>4, <1>5, <2>1
        <3> QED
            BY <2>2, <3>1
    <2>5. s = SubSeq(all, j, j)
        BY <2>3, <2>4
    <2>6. \A i \in j..j : all[i] \in Rrset
        BY <1>1
    <2>7. j \in Int
        BY <1>1
    <2> HIDE DEF s
    <2>8. /\ SubSeq(all, j, j) \in Seq(Rrset)
          /\ Len(SubSeq(all, j, j)) = IF j <= j THEN j - j + 1 ELSE 0
          /\ \A i \in 1..(j - j + 1) : SubSeq(all, j, j)[i] = all[j + i - 1]
        BY <2>6, <2>7, SubSeqProperties
    <2>9. j <= j /\ j - j + 1 = 1 /\ j + 1 - 1 = j
        BY <2>7
    <2>10. s \in Seq(Rrset) /\ Len(s) = 1 /\ s[1] = all[j]
        BY <2>5, <2>8, <2>9
    <2> QED
        BY <2>10
<1>9. ASSUME \A j \in 1..N : all[j].rtype # t PROVE s = <<>>
    <2>1. \A j \in 1..N : ~(p < j /\ j <= q)
        BY <1>7, <1>9
    <2>2. q < p + 1
        <3>1. CASE q < p + 1
            BY <3>1
        <3>2. CASE ~(q < p + 1)
            <4>1. q \in 1..N /\ p < q /\ q <= q
                BY <1>1, <1>4, <1>5, <3>2
            <4> QED
                BY <2>1, <4>1
        <3> QED
            BY <3>1, <3>2
    <2>3. p + 1 \in Int /\ q \in Int
        BY <1>4, <1>5
    <2> QED
        BY <2>2, <2>3, SubSeqEmpty
<1> HIDE DEF s
<1> QED
    BY <1>6, <1>8, <1>9 DEF p, q, N

\* The binary search over a node's RRsets answers with the records of the type.
LEMMA SearchFindsType ==
    ASSUME NEW a, IsArena(a), NEW node, NEW runs \in Seq(Runs), OneRunPerType(runs),
           HoldsRuns(a, node, SortRuns(runs)), NEW t \in DOMAIN TypeCode, NEW owner
    PROVE  EmitRun(a, rrsets_of(a, node, t), owner) = emit(runs, t, owner)
<1> DEFINE N == Len(runs)
           s == SortRuns(runs)
           all == span(a.rrsets, node.rrsets)
           slice == rrsets_of(a, node, t)
<1>1. N \in Nat /\ DOMAIN runs = 1..N /\ \A i \in 1..N : runs[i] \in Runs
    BY LenProperties, ElementOfSeq
<1>2. /\ s \in Seq(Runs) /\ Len(s) = N /\ ToSet(s) = ToSet(runs)
      /\ \A j, k \in 1..N : j < k => TypeCode[s[j].rtype] <= TypeCode[s[k].rtype]
      /\ \A j, k \in 1..N : s[j].rtype = s[k].rtype => j = k
    BY SortEnumerates DEF OneRunPerType
<1>3. DOMAIN s = 1..N /\ \A j \in 1..N : s[j] \in Runs
    BY <1>2, LenProperties, ElementOfSeq
<1> HIDE DEF s
<1>4. all \in Seq(Rrset) /\ Len(all) = N /\ \A j \in 1..N : Reads(a, all[j], s[j])
    BY <1>2, RangeOfNode DEF s
<1>5. \A j \in 1..N : all[j].rtype = s[j].rtype
    BY <1>4 DEF Reads
<1>6. slice = span(all, <<partition_point(all, {u \in DOMAIN TypeCode : TypeCode[u] < TypeCode[t]}),
                          partition_point(all, {u \in DOMAIN TypeCode : TypeCode[u] <= TypeCode[t]})>>)
    BY DEF rrsets_of
<1> HIDE DEF all, slice, N
<1>7. /\ \A j \in 1..N : all[j].rtype = t => slice = <<all[j]>>
      /\ (\A j \in 1..N : all[j].rtype # t) => slice = <<>>
    <2>1. \A j, k \in 1..Len(all) : j < k => TypeCode[all[j].rtype] <= TypeCode[all[k].rtype]
        BY <1>2, <1>4, <1>5
    <2>2. \A j, k \in 1..Len(all) : all[j].rtype = all[k].rtype => j = k
        BY <1>2, <1>4, <1>5
    <2>3. /\ \A j \in 1..Len(all) : all[j].rtype = t => slice = <<all[j]>>
          /\ (\A j \in 1..Len(all) : all[j].rtype # t) => slice = <<>>
        BY <1>4, <1>6, <2>1, <2>2, TypeFound
    <2> QED
        BY <1>4, <2>3
<1>10. (\A k \in 1..N : \E j \in 1..N : s[j] = runs[k]) /\ \A j \in 1..N : \E k \in 1..N : s[j] = runs[k]
    <2>1. ToSet(s) = {s[j] : j \in 1..N} /\ ToSet(runs) = {runs[j] : j \in 1..N}
        BY <1>1, <1>3 DEF ToSet
    <2>2. ToSet(s) = ToSet(runs)
        BY <1>2
    <2>3. \A k \in 1..N : runs[k] \in {s[j] : j \in 1..N}
        BY <2>1, <2>2
    <2>4. \A k \in 1..N : s[k] \in {runs[j] : j \in 1..N}
        BY <2>1, <2>2
    <2> QED
        BY <2>3, <2>4
<1>8. CASE Has(runs, t)
    <2>1. PICK k \in DOMAIN runs : runs[k].rtype = t
        BY <1>8 DEF Has
    <2>2. PICK j \in 1..N : s[j] = runs[k]
        BY <1>1, <1>10, <2>1
    <2>3. slice = <<all[j]>>
        BY <1>5, <1>7, <2>1, <2>2
    <2>4. EmitRun(a, <<all[j]>>, owner) = RecordsOf(s[j], owner)
        BY <1>3, <1>4, RrsetRead
    <2>5. emit(runs, t, owner) = RecordsOf(runs[k], owner)
        BY <2>1, OneRunEmitted
    <2> QED
        BY <2>2, <2>3, <2>4, <2>5 DEF slice
<1>9. CASE ~Has(runs, t)
    <2>1. \A j \in 1..N : s[j].rtype # t
        <3>1. \A k \in 1..N : runs[k].rtype # t
            BY <1>1, <1>9 DEF Has
        <3>2. ASSUME NEW j \in 1..N PROVE s[j].rtype # t
            <4>1. PICK k \in 1..N : s[j] = runs[k]
                BY <1>10
            <4> QED
                BY <3>1, <4>1
        <3> QED
            BY <3>2
    <2>2. slice = <<>>
        BY <1>5, <1>7, <2>1
    <2>3. emit(runs, t, owner) = <<>>
        BY <1>9, NoneEmitted
    <2> QED
        BY <2>2, <2>3, NothingRead DEF slice
<1> QED
    BY <1>8, <1>9
\* A node of a zone keeps the shape its runs had in the file.
LEMMA NodeRuns ==
    ASSUME BuildInv, Served, NEW n \in DOMAIN Tree
    PROVE  /\ zone.nodes[n] \in Seq(Runs) /\ OneRunPerType(zone.nodes[n])
           /\ \A r \in ToSet(zone.nodes[n]) : r.rdata # <<>>
<1>1. /\ Tree[n] \in Seq(Runs) /\ OneRunPerType(Tree[n])
      /\ \A r \in ToSet(Tree[n]) : r.rdata # <<>>
    BY TreeHolds, CheckedNode DEF OneRunPerType
<1>2. CASE Cut[n] = NoCut
    BY <1>1, <1>2, ServedFacts
<1>3. CASE Cut[n] # NoCut
    <2>1. /\ zone.nodes[n] = Retain(Tree[n], KeptTypes(n))
          /\ IsRuns(zone.nodes[n], Runs, AnyValue)
          /\ ToSet(zone.nodes[n]) = {r \in ToSet(Tree[n]) : r.rtype \in KeptTypes(n)}
        BY <1>3, KeptOf
    <2>2. OneRunPerType(Retain(Tree[n], KeptTypes(n)))
        BY <1>1, RetainOncePerType
    <2> QED
        BY <1>1, <2>1, <2>2 DEF IsRuns
<1> QED
    BY <1>2, <1>3

\* The position of a name in the order, which lists it once.
LEMMA IndexFound ==
    ASSUME NEW names \in SUBSET ZoneNames, IsFiniteSet(names), NEW n \in names
    PROVE  LET order == CanonicalOrder(names) IN
           /\ IndexOf(order, n) \in 1..Len(order) /\ order[IndexOf(order, n)] = n
           /\ \A i \in 1..Len(order) : order[i] = n => i = IndexOf(order, n)
<1> DEFINE order == CanonicalOrder(names)
           N == Len(order)
           k == IndexOf(order, n)
<1>1. /\ N \in Nat /\ DOMAIN order = 1..N
      /\ \A i \in 1..N : order[i] \in names
      /\ \E i \in 1..N : order[i] = n
      /\ \A i, j \in 1..N : i < j <=> Precedes(order[i], order[j])
    BY OrderEnumerates
<1> HIDE DEF order, N
<1>2. k \in 1..N /\ order[k] = n
    BY <1>1 DEF IndexOf
<1> HIDE DEF k
<1>3. ASSUME NEW i \in 1..N, order[i] = n PROVE i = k
    <2>1. ~Precedes(n, n)
        BY PrecedesIrreflexive
    <2>2. ~(i < k) /\ ~(k < i)
        BY <1>1, <1>2, <1>3, <2>1
    <2> QED
        BY <1>1, <1>2, <2>2
<1> QED
    BY <1>2, <1>3 DEF k, N, order

\* A node's flags and its cut say the same, the cut is an ancestor, and there
\* is a referral for it.
LEMMA CutsAgree ==
    ASSUME BuildInv, Served, NEW i \in 1..Len(CanonicalOrder(DOMAIN Tree))
    PROVE  LET order == CanonicalOrder(DOMAIN Tree)
               n == order[i]
               cut == CutIndex(zone, order, n)
           IN /\ "DELEGATION" \in Flags(zone, n) <=> cut = i
              /\ "GLUE" \in Flags(zone, n) <=> cut \notin {NONE, i}
              /\ cut = i => n \in DOMAIN zone.referrals
              /\ cut # NONE => cut \in 1..Len(order) /\ IsPrefix(order[cut], n)
<1> DEFINE names == DOMAIN Tree
           order == CanonicalOrder(names)
           n == order[i]
           c == Cut[n]
           cut == CutIndex(zone, order, n)
           k == IndexOf(order, c)
<1>1. IsTree(names) /\ names \in SUBSET ZoneNames /\ IsFiniteSet(names)
    BY TreeIsTree DEF IsTree
<1>2. Len(order) \in Nat /\ n \in names /\ n \in ZoneNames
    BY <1>1, OrderEnumerates
<1>3. zone.cut = Cut
    BY ServedFacts
<1>4. n # NoCut
    BY <1>2, NamesAssumption
<1>5. cut = IF c = NoCut THEN 0 ELSE k
    BY <1>3 DEF CutIndex, NONE
<1>6. /\ "DELEGATION" \in Flags(zone, n) <=> c = n
      /\ "GLUE" \in Flags(zone, n) <=> c \notin {NoCut, n}
    <2> DEFINE F == Flags(zone, n)
               P(flag) == CASE flag = "DELEGATION" -> zone.cut[n] = n
                            [] flag = "GLUE" -> zone.cut[n] \notin {NoCut, n}
                            [] flag = "WILDCARD" -> IsWildcard(n)
                            [] flag = "HAS_CNAME" -> Has(zone.nodes[n], "CNAME")
    <2>1. \A f : f \in F <=> f \in {"DELEGATION", "GLUE", "WILDCARD", "HAS_CNAME"} /\ P(f)
        BY DEF Flags
    <2>2. P("DELEGATION") <=> zone.cut[n] = n
        OBVIOUS
    <2>3. P("GLUE") <=> zone.cut[n] \notin {NoCut, n}
        OBVIOUS
    <2> HIDE DEF P
    <2> QED
        BY <1>3, <2>1, <2>2, <2>3
<1>7. i \in 1..Len(order) /\ i # 0
    BY <1>2
<1>8. c \in ZoneNames => c # NoCut
    BY NamesAssumption
<1> HIDE DEF names, order
<1>9. CASE c = NoCut
    <2>1. cut = 0 /\ c # n
        BY <1>4, <1>5, <1>9
    <2> QED
        BY <1>6, <1>7, <1>9, <2>1 DEF NONE, names, order
<1>10. CASE c # NoCut
    <2>1. c \in CutsAbove(n) /\ c \in names
        BY <1>2, <1>10, CutIsAbove DEF names
    <2>2. c \in ZoneNames /\ IsPrefix(c, n)
        BY <1>2, <2>1, CutsAboveMeans
    <2>3. /\ k \in 1..Len(order) /\ order[k] = c
          /\ \A j \in 1..Len(order) : order[j] = c => j = k
        BY <1>1, <2>1, IndexFound DEF order
    <2>4. cut = k /\ k # 0
        BY <1>2, <1>5, <1>10, <2>3
    <2>5. cut = i <=> c = n
        BY <1>7, <2>3, <2>4
    <2>6. c = n => n \in DOMAIN zone.referrals
        BY <1>2, ReferralFacts DEF names
    <2> HIDE DEF n, c, cut, k
    <2>7. /\ "DELEGATION" \in Flags(zone, n) <=> cut = i
          /\ "GLUE" \in Flags(zone, n) <=> cut \notin {0, i}
          /\ cut = i => n \in DOMAIN zone.referrals
          /\ cut # 0 => cut \in 1..Len(order) /\ IsPrefix(order[cut], n)
        BY <1>6, <1>10, <2>2, <2>3, <2>4, <2>5, <2>6
    <2> QED
        BY <2>7 DEF NONE, n, cut, names, order
<1> QED
    BY <1>9, <1>10

\* What debug_assert_invariants asks of a zone that is served holds.
LEMMA AssertionsHold ==
    ASSUME BuildInv, Served
    PROVE  debug_assert_invariants(zone, LayOut(zone))
<1> DEFINE names == DOMAIN Tree
           order == CanonicalOrder(names)
           N == Len(order)
           a == LayOut(zone)
           nodes == a.nodes
           Sorted(i) == SortRuns(zone.nodes[order[i]])
           Held(i) == span(a.rrsets, nodes[i].rrsets)
<1>1. IsTree(names) /\ names \in SUBSET ZoneNames /\ IsFiniteSet(names)
    BY TreeIsTree DEF IsTree
<1>2. DOMAIN zone.nodes = names /\ OnTree(zone, names)
    BY ServedFacts
<1>3. \A n \in names : /\ zone.nodes[n] \in Seq(Runs) /\ OneRunPerType(zone.nodes[n])
                       /\ \A r \in ToSet(zone.nodes[n]) : r.rdata # <<>>
    BY NodeRuns
<1>4. LaidTo(a, zone, order, N)
    BY <1>1, <1>2, <1>3, AllLaidOut
<1>5. /\ N \in Nat /\ DOMAIN order = 1..N
      /\ \A i \in 1..N : order[i] \in names
      /\ \A n \in names : \E i \in 1..N : order[i] = n
      /\ \A i, j \in 1..N : i < j <=> Precedes(order[i], order[j])
    BY <1>1, OrderEnumerates
<1>6. N \in Nat \ {0} /\ order[1] = Apex
    BY <1>1, OrderOfTree
<1>7. \A i \in 1..N : LET cut == CutIndex(zone, order, order[i]) IN
          /\ "DELEGATION" \in Flags(zone, order[i]) <=> cut = i
          /\ "GLUE" \in Flags(zone, order[i]) <=> cut \notin {NONE, i}
          /\ cut = i => order[i] \in DOMAIN zone.referrals
          /\ cut # NONE => cut \in 1..N /\ IsPrefix(order[cut], order[i])
    BY CutsAgree
<1>8. \A n \in names : Len(n) <= zone.max_depth
    BY <1>2, DepthHeld
<1>9. /\ IsArena(a) /\ nodes \in Seq(NodesOf(zone, order)) /\ Len(nodes) = N
      /\ \A i \in 1..N :
            /\ nodes[i].name = order[i]
            /\ nodes[i].cut = CutIndex(zone, order, order[i])
            /\ nodes[i].flags = Flags(zone, order[i])
            /\ HoldsRuns(a, nodes[i], Sorted(i))
    BY <1>4 DEF LaidTo
<1>10. DOMAIN nodes = 1..N
    BY <1>9, LenProperties
<1>11. \A n \in names : n = Apex \/ Front(n) \in names
    <2>1. ASSUME NEW n \in names, n # Apex PROVE Front(n) \in names
        <3>1. n \in ZoneNames
            BY <1>1
        <3>2. Front(n) \in ZoneNames /\ IsPrefix(Front(n), n)
            BY <2>1, <3>1, Parent
        <3> QED
            BY <1>1, <3>2 DEF IsTree
    <2> QED
        BY <2>1
<1> HIDE DEF order, N, a, names
<1>12. {nodes[i].name : i \in DOMAIN nodes} = names
    <2>1. \A i \in 1..N : nodes[i].name \in names
        BY <1>5, <1>9
    <2>2. \A n \in names : \E i \in 1..N : nodes[i].name = n
        BY <1>5, <1>9
    <2> HIDE DEF nodes
    <2> QED
        BY <1>10, <2>1, <2>2
<1>13. nodes[1].name = Apex
    BY <1>6, <1>9
<1>14. \A i \in 1..(N - 1) : Precedes(nodes[i].name, nodes[i + 1].name)
    <2>1. \A i \in 1..(N - 1) : i \in 1..N /\ i + 1 \in 1..N /\ i < i + 1
        BY <1>5
    <2> HIDE DEF nodes
    <2> QED
        BY <1>5, <1>9, <2>1
<1>15. ASSUME NEW i \in 1..N
       PROVE  /\ nodes[i].rrsets[1] <= nodes[i].rrsets[2] /\ nodes[i].rrsets[2] <= Len(a.rrsets)
              /\ \A j \in 1..(Len(Held(i)) - 1) :
                    TypeCode[Held(i)[j].rtype] <= TypeCode[Held(i)[j + 1].rtype]
              /\ \A j \in DOMAIN Held(i) :
                    /\ Held(i)[j].rdata[1] <= Held(i)[j].rdata[2]
                    /\ Held(i)[j].rdata[2] <= Len(a.rdata)
                    /\ span(a.rdata, Held(i)[j].rdata) # <<>>
    <2> DEFINE raw == zone.nodes[order[i]]
               s == Sorted(i)
               all == Held(i)
               n == Len(raw)
    <2>1. raw \in Seq(Runs) /\ \A r \in ToSet(raw) : r.rdata # <<>>
        BY <1>3, <1>5
    <2> HIDE DEF raw
    <2>2. /\ s \in Seq(Runs) /\ Len(s) = n /\ ToSet(s) = ToSet(raw)
          /\ \A j, k \in 1..n : j < k => TypeCode[s[j].rtype] <= TypeCode[s[k].rtype]
        BY <2>1, SortEnumerates DEF raw
    <2>3. HoldsRuns(a, nodes[i], s)
        BY <1>9
    <2>4. n \in Nat /\ \A j \in 1..n : s[j] \in Runs /\ s[j] \in ToSet(raw)
        <3>1. n \in Nat /\ DOMAIN s = 1..n /\ \A j \in 1..n : s[j] \in Runs
            BY <2>1, <2>2, LenProperties, ElementOfSeq
        <3>2. \A j \in 1..n : s[j] \in ToSet(s)
            BY <3>1 DEF ToSet
        <3> QED
            BY <2>2, <3>1, <3>2
    <2> HIDE DEF s, nodes, n
    <2>5. /\ all \in Seq(Rrset) /\ Len(all) = n /\ DOMAIN all = 1..n
          /\ \A j \in 1..n : Reads(a, all[j], s[j])
        <3>1. all \in Seq(Rrset) /\ Len(all) = Len(s) /\ \A j \in 1..Len(s) : Reads(a, all[j], s[j])
            BY <1>9, <2>2, <2>3, RangeOfNode
        <3> HIDE DEF all
        <3> QED
            BY <2>2, <3>1, LenProperties
    <2>6. nodes[i].rrsets[1] <= nodes[i].rrsets[2] /\ nodes[i].rrsets[2] <= Len(a.rrsets)
        <3>1. /\ nodes[i].rrsets[1] \in Nat /\ nodes[i].rrsets[2] = nodes[i].rrsets[1] + n
              /\ nodes[i].rrsets[2] <= Len(a.rrsets)
            BY <2>2, <2>3 DEF HoldsRuns
        <3> QED
            BY <2>4, <3>1
    <2> HIDE DEF all
    <2>7. \A j \in 1..n : all[j].rtype = s[j].rtype
        BY <2>5 DEF Reads
    <2>8. \A j \in 1..(Len(all) - 1) : TypeCode[all[j].rtype] <= TypeCode[all[j + 1].rtype]
        <3>1. \A j \in 1..(n - 1) : j \in 1..n /\ j + 1 \in 1..n /\ j < j + 1
            BY <2>4
        <3> QED
            BY <2>2, <2>5, <2>7, <3>1
    <2>9. ASSUME NEW j \in DOMAIN all
          PROVE  /\ all[j].rdata[1] <= all[j].rdata[2] /\ all[j].rdata[2] <= Len(a.rdata)
                 /\ span(a.rdata, all[j].rdata) # <<>>
        <3>1. j \in 1..n /\ Reads(a, all[j], s[j]) /\ s[j] \in Runs
            BY <2>4, <2>5
        <3>2. span(a.rdata, all[j].rdata) = s[j].rdata
            BY <1>9, <3>1, RangeOfRun
        <3>3. s[j].rdata # <<>>
            BY <2>1, <2>4, <3>1
        <3>4. Len(s[j].rdata) \in Nat
            BY <3>1, RunFacts
        <3>5. /\ all[j].rdata[1] \in Nat /\ all[j].rdata[2] = all[j].rdata[1] + Len(s[j].rdata)
              /\ all[j].rdata[2] <= Len(a.rdata)
            BY <3>1 DEF Reads
        <3>6. all[j].rdata[1] <= all[j].rdata[2]
            BY <3>4, <3>5
        <3> QED
            BY <3>2, <3>3, <3>5, <3>6
    <2> QED
        BY <2>6, <2>8, <2>9 DEF all
<1>16. ASSUME NEW i \in 1..N
       PROVE  /\ Len(nodes[i].name) <= zone.max_depth
              /\ "DELEGATION" \in nodes[i].flags <=> nodes[i].cut = i
              /\ "GLUE" \in nodes[i].flags <=> nodes[i].cut \notin {NONE, i}
              /\ nodes[i].cut = i => nodes[i].name \in DOMAIN zone.referrals
              /\ nodes[i].cut # NONE => IsPrefix(nodes[nodes[i].cut].name, nodes[i].name)
    <2> DEFINE cut == CutIndex(zone, order, order[i])
    <2>1. /\ nodes[i].name = order[i] /\ nodes[i].cut = cut /\ nodes[i].flags = Flags(zone, order[i])
        BY <1>9
    <2>2. /\ "DELEGATION" \in Flags(zone, order[i]) <=> cut = i
          /\ "GLUE" \in Flags(zone, order[i]) <=> cut \notin {NONE, i}
          /\ cut = i => order[i] \in DOMAIN zone.referrals
          /\ cut # NONE => cut \in 1..N /\ IsPrefix(order[cut], order[i])
        BY <1>7
    <2>3. Len(order[i]) <= zone.max_depth
        BY <1>5, <1>8
    <2> HIDE DEF cut, nodes
    <2>4. cut # NONE => nodes[cut].name = order[cut]
        BY <1>9, <2>2
    <2> QED
        BY <2>1, <2>2, <2>3, <2>4
<1>17. Len(nodes) = N
    BY <1>9
<1> HIDE DEF nodes, Held
<1> QED
    BY <1>10, <1>11, <1>12, <1>13, <1>14, <1>15, <1>16, <1>17 DEF debug_assert_invariants, nodes, Held, a

LEMMA ArenasAreSoundHolds == BuildInv => ArenasAreSound
<1> SUFFICES ASSUME BuildInv, Served
             PROVE  /\ debug_assert_invariants(zone, LayOut(zone))
                    /\ \A i \in DOMAIN LayOut(zone).nodes, t \in QueryTypes \ {"ANY"} :
                          EmitRun(LayOut(zone), rrsets_of(LayOut(zone), LayOut(zone).nodes[i], t),
                                  LayOut(zone).nodes[i].name)
                              = emit(zone.nodes[LayOut(zone).nodes[i].name], t, LayOut(zone).nodes[i].name)
    BY DEF ArenasAreSound
<1> DEFINE names == DOMAIN Tree
           order == CanonicalOrder(names)
           N == Len(order)
           a == LayOut(zone)
<1>1. \A n \in names : zone.nodes[n] \in Seq(Runs) /\ OneRunPerType(zone.nodes[n])
    BY NodeRuns
<1>2. LaidTo(a, zone, order, N)
    BY <1>1, TreeIsTree, ServedFacts, AllLaidOut
<1>3. \A i \in 1..N : order[i] \in names
    BY TreeIsTree, OrderEnumerates DEF IsTree
<1> HIDE DEF order, N, a, names
<1>4. IsArena(a) /\ DOMAIN a.nodes = 1..N
    BY <1>2, LenProperties DEF LaidTo
<1>5. ASSUME NEW i \in DOMAIN a.nodes, NEW t \in QueryTypes \ {"ANY"}
      PROVE  EmitRun(a, rrsets_of(a, a.nodes[i], t), a.nodes[i].name)
                 = emit(zone.nodes[a.nodes[i].name], t, a.nodes[i].name)
    <2> DEFINE node == a.nodes[i]
               runs == zone.nodes[node.name]
    <2>1. node.name = order[i] /\ HoldsRuns(a, node, SortRuns(zone.nodes[order[i]])) /\ order[i] \in names
        BY <1>2, <1>3, <1>4 DEF LaidTo
    <2>2. runs \in Seq(Runs) /\ OneRunPerType(runs) /\ HoldsRuns(a, node, SortRuns(runs))
        BY <1>1, <2>1
    <2>3. t \in DOMAIN TypeCode
        BY QuestionsAssumption
    <2> HIDE DEF node, runs
    <2>4. EmitRun(a, rrsets_of(a, node, t), node.name) = emit(runs, t, node.name)
        BY <1>4, <2>2, <2>3, SearchFindsType
    <2> QED
        BY <2>4 DEF node, runs
<1>6. debug_assert_invariants(zone, a)
    BY AssertionsHold DEF a
<1> QED
    BY <1>5, <1>6 DEF a

\* In every zone that is served the arenas keep what debug_assert_invariants
\* asks of them, and the binary search for a type in them returns exactly the
\* records of that type (zone.rs finish, rrsets_of, debug_assert_invariants).
THEOREM ArenasSound == BuildSpec => []ArenasAreSound
<1> QED
    BY ArenasAreSoundHolds, BuilderKeepsBooks, PTL

-----------------------------------------------------------------------------
(* The handler. *)

Places == AtWork \cup {"idle", "count", "done"}

\* What IInv says of one query.
Local(q) == SnapshotInv(q) /\ AdmissionInv(q) /\ ResolvedInv(q) /\ WireInv(q)

\* What OneZonePerResponse says of one query.
OneZone(q) ==
    pc[q] = "send" /\ snap[q] # Nothing =>
        \E a \in seen[q], k \in 1..queries :
            resolved[q] = resolve_query(a, req[q].name, req[q].qtype, req[q].src, k)

-----------------------------------------------------------------------------
(* The operators. *)

\* A nonempty set of gates has a first one: what Verdict's Min relies on.
LEMMA FirstGate ==
    ASSUME NEW S \in SUBSET (1..8), S # {}
    PROVE  Min(S) \in S
<1>1. \E x \in S : \A y \in S : x <= y
  <2>1. CASE 1 \in S
    BY <2>1
  <2>2. CASE 1 \notin S /\ 2 \in S
    BY <2>2
  <2>3. CASE S \cap {1, 2} = {} /\ 3 \in S
    BY <2>3
  <2>4. CASE S \cap {1, 2, 3} = {} /\ 4 \in S
    BY <2>4
  <2>5. CASE S \cap {1, 2, 3, 4} = {} /\ 5 \in S
    BY <2>5
  <2>6. CASE S \cap {1, 2, 3, 4, 5} = {} /\ 6 \in S
    BY <2>6
  <2>7. CASE S \cap {1, 2, 3, 4, 5, 6} = {} /\ 7 \in S
    BY <2>7
  <2>8. CASE S \cap {1, 2, 3, 4, 5, 6, 7} = {}
    <3>1. \A x \in S : x \in 1..8 /\ x \notin {1, 2, 3, 4, 5, 6, 7}
      BY <2>8
    <3>2. \A x \in S : x = 8
      BY <3>1
    <3>3. PICK x \in S : x = 8
      BY <3>2
    <3>4. \A y \in S : x <= y
      BY <3>2, <3>3
    <3> QED
      BY <3>4
  <2> QED
    BY <2>1, <2>2, <2>3, <2>4, <2>5, <2>6, <2>7, <2>8
<1> QED
  BY <1>1 DEF Min

\* The first closed gate answers with one of the handler's own codes, and a
\* request no gate refuses has passed them all (dispatch, handler.rs).
LEMMA Gates ==
    ASSUME NEW r
    PROVE  /\ Verdict(r) \subseteq AnswerCodes
           /\ Verdict(r) = {} => PassesTheGates(r)
<1> DEFINE gates ==
            <<IF r.message_type # "Query" THEN {"FormErr"} ELSE {},
              IF r.op_code # "Query" THEN {"NotImp"} ELSE {},
              IF r.edns = 1 THEN {"BADVERS"} ELSE {},
              IF r.qdcount # 1 THEN {"FormErr"} ELSE {},
              IF r.class # "IN" THEN {"Refused"} ELSE {},
              IF r.qtype \in {"AXFR", "IXFR"} THEN {"Refused"} ELSE {},
              IF r.qtype \in {"OPT", "TSIG", "ZERO"} THEN {"FormErr"} ELSE {},
              IF r.qtype \in {"MAILA", "MAILB"} THEN {"NotImp"} ELSE {}>>
           closed == {i \in DOMAIN gates : gates[i] # {}}
<1>1. Verdict(r) = IF closed = {} THEN {} ELSE gates[Min(closed)]
  BY DEF Verdict
<1>2. DOMAIN gates = 1..8 /\ \A i \in 1..8 : gates[i] \subseteq AnswerCodes
  BY DEF AnswerCodes
<1>3. closed # {} => Min(closed) \in closed
  <2>1. closed \in SUBSET (1..8)
    BY <1>2
  <2> HIDE DEF closed
  <2> QED
    BY <2>1, FirstGate
<1>4. closed = {} => PassesTheGates(r)
  BY <1>2 DEF PassesTheGates
<1> HIDE DEF gates
<1> QED
  BY <1>1, <1>2, <1>3, <1>4

\* An error response has no records (Resolved::error, handler.rs).
LEMMA Errors ==
    ASSUME NEW c
    PROVE  /\ Records(error(c)) = 0
           /\ error(c).code = c
           /\ c \in AnswerCodes => IsResolved(error(c))
<1>1. Cardinality({}) = 0
  BY FS_EmptySet
<1> QED
  BY <1>1 DEF Records, error, Resolved, IsResolved

\* Whatever a query resolves to is a Resolved, and never a SERVFAIL.
LEMMA ResolvesTo ==
    ASSUME NEW a, NEW name, NEW qtype, NEW src, NEW k
    PROVE  IsResolved(resolve_query(a, name, qtype, src, k))
<1>1. ASSUME NEW c \in AnswerCodes, NEW aa, NEW s, NEW au, NEW ad
      PROVE  IsResolved(Resolved(c, aa, s, au, ad))
  BY DEF Resolved, IsResolved
<1>2. "NoError" \in AnswerCodes /\ "NXDomain" \in AnswerCodes /\ "Refused" \in AnswerCodes
  BY DEF AnswerCodes
<1>3. ASSUME NEW z, NEW s
      PROVE  /\ IsResolved(found(s)) /\ IsResolved(refused)
             /\ IsResolved(negative("NoError", z)) /\ IsResolved(negative("NXDomain", z))
             /\ IsResolved(referral(s))
  BY <1>1, <1>2 DEF found, refused, error, negative, referral
<1>4. IsResolved(resolve_builtin(a, name, qtype, src, k))
  BY <1>3 DEF resolve_builtin, txt_builtin
<1>5. IsResolved(ResolveAny(a.zone, name))
  BY <1>3 DEF ResolveAny, AliasOrHinfo
<1>6. IsResolved(FromZone(a.zone, name, qtype))
  BY <1>3 DEF FromZone, AsResolved
<1> QED
  BY <1>3, <1>4, <1>5, <1>6 DEF resolve_query

\* A truncated response keeps its code and has no records left.
LEMMA TruncatedIsEmpty ==
    ASSUME NEW r, IsResolved(r)
    PROVE  Truncated(r).code = r.code /\ Records(Truncated(r)) = 0
<1>1. Cardinality({}) = 0
  BY FS_EmptySet
<1>2. /\ Truncated(r).code = r.code
      /\ Truncated(r).answers = <<>>
      /\ Truncated(r).authority = {} /\ Truncated(r).additional = {}
  BY DEF Truncated, IsResolved
<1> QED
  BY <1>1, <1>2 DEF Records

\* A query that is dropped is not taken for one whose send failed.
LEMMA Outcomes == Unsent # Silence
<1>1. Unsent.outcome = "unsent" /\ Silence.outcome = "silence"
  BY DEF Unsent, Silence
<1> QED
  BY <1>1

\* The clamp is within its bounds whatever is offered.
LEMMA Clamped ==
    ASSUME NEW payload
    PROVE  /\ clamp(payload) \in Nat
           /\ \/ clamp(payload) = MIN_EDNS_PAYLOAD
              \/ /\ payload \in MIN_EDNS_PAYLOAD..MAX_EDNS_PAYLOAD
                 /\ clamp(payload) = payload
              \/ payload > MAX_EDNS_PAYLOAD /\ clamp(payload) = MAX_EDNS_PAYLOAD
BY HandlerAssumption DEF clamp

\* There is room for the empty response.
LEMMA RoomIsNat ==
    ASSUME NEW q
    PROVE  Room(q) \in Nat
BY HandlerAssumption, Clamped DEF Room

\* What the encoder leaves of a response fits and has its code.
LEMMA EncodedIs ==
    ASSUME NEW r, IsResolved(r), NEW room, NEW p \in Encoded(r, room)
    PROVE  Records(p) <= room /\ p.code = r.code
<1>1. p \in Parts(r) /\ Records(p) <= room
  BY DEF Encoded
<1>2. PICK i \in 0..Len(r.answers), n \in SUBSET r.authority, g \in SUBSET r.additional :
        p = Part(r, i, n, g)
  BY <1>1 DEF Parts
<1>3. Part(r, i, n, g).code = r.code
  BY DEF Part, IsResolved
<1> QED
  BY <1>1, <1>2, <1>3

\* The responses that may leave carry what was resolved: all of it, or what
\* there was room for, and say which.
LEMMA Built ==
    ASSUME NEW q, IsResolved(resolved[q]), NEW r \in Responses(q)
    PROVE  /\ r.tc = Over(q) /\ r.body.code = resolved[q].code
           /\ ~Over(q) => r.body = resolved[q]
           /\ Records(r.body) <= Room(q)
           /\ Over(q) /\ Unextended(q) => Records(r.body) = 0
<1>1. PICK body \in IF ~Over(q) THEN {resolved[q]}
                    ELSE IF Unextended(q) THEN {Truncated(resolved[q])}
                    ELSE Encoded(resolved[q], Room(q)) :
        r = Sent(body, Over(q), req[q].edns # Nothing)
  BY DEF Responses
<1>2. r.tc = Over(q) /\ r.body = body
  BY <1>1 DEF Sent
<1>3. CASE ~Over(q)
  BY <1>1, <1>2, <1>3 DEF Over
<1>4. CASE Over(q) /\ Unextended(q)
  <2>1. body = Truncated(resolved[q])
    BY <1>1, <1>4
  <2> QED
    BY <1>2, <1>4, <2>1, TruncatedIsEmpty, RoomIsNat
<1>5. CASE Over(q) /\ ~Unextended(q)
  <2>1. body \in Encoded(resolved[q], Room(q))
    BY <1>1, <1>5
  <2>2. Records(body) <= Room(q) /\ body.code = resolved[q].code
    BY <2>1, EncodedIs
  <2> QED
    BY <1>2, <1>5, <2>2
<1> QED
  BY <1>3, <1>4, <1>5

\* The response hickory sends in their place carries the SERVFAIL.
LEMMA Fallback == ServFail.body = error("ServFail") /\ ~ServFail.tc
BY DEF ServFail, Sent

\* The responses that may leave depend on the request and on what it was
\* resolved to only.
LEMMA SameResponses ==
    ASSUME NEW q, req'[q] = req[q], resolved'[q] = resolved[q]
    PROVE  Responses(q)' = Responses(q)
<1>1. Unextended(q)' = Unextended(q)
  BY DEF Unextended
<1>2. Room(q)' = Room(q)
  BY <1>1 DEF Room, clamp
<1>3. Over(q)' = Over(q)
  BY <1>2 DEF Over, Records
<1> QED
  BY <1>1, <1>2, <1>3 DEF Responses, Truncated, Encoded, Parts, Part, Records, Sent

-----------------------------------------------------------------------------
(* One query's part of the invariant. *)

\* A step that is not the query's own: it may serve another configuration,
\* which the query then has seen, and count another query.
Untouched(q) ==
    /\ pc'[q] = pc[q] /\ req'[q] = req[q] /\ snap'[q] = snap[q]
    /\ resolved'[q] = resolved[q] /\ wire'[q] = wire[q]
    /\ seen[q] \subseteq seen'[q]
    /\ pc[q] \notin {"idle", "done"} => active' \in seen'[q]
    /\ queries' \in Nat /\ queries' >= queries
    /\ q \in denied' <=> q \in denied

LEMMA Elsewhere ==
    ASSUME IInv, NEW q \in Queries, Untouched(q)
    PROVE  Local(q)' /\ OneZone(q)'
<1> USE DEF Untouched
<1>1. Local(q) /\ OneZone(q) /\ queries \in Nat
  BY DEF IInv, Local, OneZonePerResponse, OneZone, TypeOK
<1>2. SnapshotInv(q)'
  BY <1>1 DEF Local, SnapshotInv
<1>3. AdmissionInv(q)'
  BY <1>1 DEF Local, AdmissionInv, PassesTheGates
<1>4. ResolvedInv(q)'
  BY <1>1 DEF Local, ResolvedInv, PassesTheGates, Records, IsResolved, Silence
<1>5. WireInv(q)'
  <2>1. Responses(q)' = Responses(q)
    BY SameResponses
  <2> QED
    BY <1>1, <2>1 DEF Local, WireInv, Unsent, Silence, ServFail, Sent
<1>6. OneZone(q)'
  BY <1>1 DEF OneZone
<1> QED
  BY <1>2, <1>3, <1>4, <1>5, <1>6 DEF Local

\* Every step of one query leaves the others where they are.
LEMMA OthersUntouched ==
    ASSUME IInv, NEW p \in Queries, NEW q \in Queries, q # p, Arrive(p) \/ Step(p)
    PROVE  Untouched(q)
<1> USE DEF IInv, TypeOK, Local, SnapshotInv, Goto, counters, history
<1>1. CASE Arrive(p)
  BY <1>1 DEF Arrive, Untouched
<1>2. CASE Deny(p)
  BY <1>2 DEF Deny, Untouched
<1>3. CASE Admit(p)
  BY <1>3 DEF Admit, Untouched
<1>4. CASE Dispatch(p)
  BY <1>4 DEF Dispatch, Untouched
<1>5. CASE Load(p)
  BY <1>5 DEF Load, Untouched
<1>6. CASE Resolve(p)
  BY <1>6 DEF Resolve, Untouched
<1>7. CASE Send(p)
  BY <1>7 DEF Send, Untouched
<1>8. CASE Observe(p)
  BY <1>8 DEF Observe, Untouched
<1>9. CASE Count(p)
  BY <1>9 DEF Count, Untouched
<1> QED
  BY <1>1, <1>2, <1>3, <1>4, <1>5, <1>6, <1>7, <1>8, <1>9 DEF Step

\* A query's own steps keep its part of the invariant.
LEMMA OwnStep ==
    ASSUME IInv, NEW q \in Queries, Arrive(q) \/ Step(q)
    PROVE  Local(q)' /\ OneZone(q)'
<1>1. TypeOK /\ Local(q) /\ OneZone(q)
  BY DEF IInv, Local, OneZonePerResponse, OneZone
<1>2. Unsent # Silence
  BY Outcomes
<1> USE <1>1, <1>2 DEF TypeOK, Local, Goto, counters, history
<1>3. CASE Arrive(q)
  <2>1. /\ pc'[q] = "limit" /\ pc[q] = "idle" /\ seen'[q] = {active'}
        /\ snap'[q] = snap[q] /\ wire'[q] = wire[q]
        /\ denied' = denied /\ queries' = queries + 1
    BY <1>3 DEF Arrive
  <2>2. q \notin denied /\ wire[q] = Unsent /\ snap[q] = Nothing
    BY <2>1 DEF AdmissionInv, WireInv, SnapshotInv
  <2>3. SnapshotInv(q)' /\ AdmissionInv(q)' /\ OneZone(q)'
    BY <2>1, <2>2 DEF SnapshotInv, AdmissionInv, OneZone
  <2>4. ResolvedInv(q)' /\ WireInv(q)'
    BY <2>1, <2>2 DEF ResolvedInv, WireInv, Unsent
  <2> QED
    BY <2>3, <2>4
<1>4. CASE Deny(q)
  <2>1. /\ pc[q] = "limit" /\ pc'[q] \in {"observe", "send"}
        /\ seen' = seen /\ active' = active /\ snap' = snap /\ queries' = queries
        /\ req' = req /\ denied' = denied \cup {q}
    BY <1>4 DEF Deny
  <2>2. wire[q] = Unsent /\ snap[q] = Nothing
    BY <2>1 DEF WireInv, SnapshotInv
  <2>3. SnapshotInv(q)' /\ AdmissionInv(q)' /\ OneZone(q)'
    BY <2>1, <2>2 DEF SnapshotInv, AdmissionInv, OneZone
  <2>4. CASE req[q].protocol = "Udp"
    <3>1. pc'[q] = "observe" /\ wire'[q] = Silence
      BY <1>4, <2>4 DEF Deny
    <3> QED
      BY <2>1, <2>3, <3>1 DEF ResolvedInv, WireInv, Silence
  <2>5. CASE req[q].protocol # "Udp"
    <3>1. pc'[q] = "send" /\ wire'[q] = wire[q] /\ resolved'[q] = refused
      BY <1>4, <2>5 DEF Deny
    <3>2. IsResolved(refused) /\ Records(refused) = 0
      BY Errors DEF refused, AnswerCodes
    <3> HIDE DEF Local
    <3>3. ResolvedInv(q)'
      BY <2>1, <2>5, <3>1, <3>2 DEF ResolvedInv, IsResolved, Records
    <3>4. WireInv(q)'
      BY <2>2, <3>1 DEF WireInv, Unsent
    <3> QED
      BY <2>3, <3>3, <3>4 DEF Local
  <2> QED
    BY <2>4, <2>5
<1>5. CASE Admit(q)
  <2>1. /\ pc[q] = "limit" /\ pc'[q] = "dispatch"
        /\ UNCHANGED <<active, req, snap, resolved, wire, queries, seen, denied>>
    BY <1>5 DEF Admit
  <2>2. SnapshotInv(q)' /\ AdmissionInv(q)' /\ OneZone(q)'
    BY <2>1 DEF SnapshotInv, AdmissionInv, OneZone
  <2>3. ResolvedInv(q)' /\ WireInv(q)'
    BY <2>1 DEF ResolvedInv, WireInv, Unsent, Silence
  <2> QED
    BY <2>2, <2>3
<1>6. CASE Dispatch(q)
  <2>1. /\ pc[q] = "dispatch" /\ pc'[q] \in {"load", "send"}
        /\ UNCHANGED <<active, req, snap, wire, queries, seen, denied>>
        /\ pc'[q] = "load" => Verdict(req[q]) = {}
        /\ pc'[q] = "send" => \E code \in Verdict(req[q]) : resolved'[q] = error(code)
    BY <1>6 DEF Dispatch
  <2>2. q \notin denied /\ wire[q] = Unsent /\ snap[q] = Nothing
    BY <2>1 DEF AdmissionInv, WireInv, SnapshotInv
  <2>3. pc'[q] = "load" => PassesTheGates(req[q])
    BY <2>1, Gates
  <2>4. pc'[q] = "send" => IsResolved(resolved'[q]) /\ Records(resolved'[q]) = 0
    BY <2>1, Gates, Errors
  <2>5. SnapshotInv(q)' /\ AdmissionInv(q)' /\ OneZone(q)'
    BY <2>1, <2>2, <2>3 DEF SnapshotInv, AdmissionInv, OneZone, PassesTheGates
  <2>6. ResolvedInv(q)' /\ WireInv(q)'
    BY <2>1, <2>2, <2>4 DEF ResolvedInv, WireInv, Unsent, IsResolved, Records
  <2> QED
    BY <2>5, <2>6
<1>7. CASE Load(q)
  <2>1. /\ pc[q] = "load" /\ pc'[q] = "resolve" /\ snap'[q] = active
        /\ UNCHANGED <<active, req, resolved, wire, queries, seen, denied>>
    BY <1>7 DEF Load
  <2>2. SnapshotInv(q)' /\ AdmissionInv(q)' /\ OneZone(q)'
    BY <2>1 DEF SnapshotInv, AdmissionInv, OneZone, PassesTheGates
  <2>3. ResolvedInv(q)' /\ WireInv(q)'
    BY <2>1 DEF ResolvedInv, WireInv, Unsent, Silence
  <2> QED
    BY <2>2, <2>3
<1>8. CASE Resolve(q)
  <2>1. /\ pc[q] = "resolve" /\ pc'[q] = "send"
        /\ UNCHANGED <<active, req, snap, wire, queries, seen, denied>>
        /\ resolved'[q] = resolve_query(snap[q], req[q].name, req[q].qtype,
                                        req[q].src, queries)
    BY <1>8 DEF Resolve
  <2>2. /\ q \notin denied /\ wire[q] = Unsent /\ PassesTheGates(req[q])
        /\ snap[q] \in seen[q] /\ queries \in 1..queries
    BY <2>1 DEF AdmissionInv, WireInv, SnapshotInv
  <2>3. IsResolved(resolved'[q])
    BY <2>1, ResolvesTo
  <2>4. SnapshotInv(q)' /\ AdmissionInv(q)' /\ OneZone(q)'
    BY <2>1, <2>2 DEF SnapshotInv, AdmissionInv, OneZone
  <2>5. ResolvedInv(q)' /\ WireInv(q)'
    BY <2>1, <2>2, <2>3 DEF ResolvedInv, WireInv, Unsent, IsResolved, PassesTheGates
  <2> QED
    BY <2>4, <2>5
<1>9. CASE Send(q)
  <2>1. /\ pc[q] = "send" /\ pc'[q] = "observe"
        /\ UNCHANGED <<active, req, snap, resolved, queries, seen, denied>>
        /\ \/ wire'[q] \in Responses(q) \/ wire'[q] = ServFail
           \/ wire'[q] = wire[q]
    BY <1>9 DEF Send
  <2>2. wire[q] = Unsent /\ Responses(q)' = Responses(q)
    BY <2>1, SameResponses DEF WireInv
  <2>3. q \in denied => req[q].protocol # "Udp"
    BY <2>2 DEF ResolvedInv
  <2>4. SnapshotInv(q)' /\ AdmissionInv(q)' /\ OneZone(q)'
    BY <2>1 DEF SnapshotInv, AdmissionInv, OneZone
  <2>5. ResolvedInv(q)'
    BY <2>1, <2>2, <2>3 DEF ResolvedInv, IsResolved, Records, PassesTheGates
  <2>6. WireInv(q)'
    BY <2>1, <2>2 DEF WireInv, Unsent, ServFail, Sent
  <2> QED
    BY <2>4, <2>5, <2>6
<1>10. CASE Observe(q) \/ Count(q)
  <2>1. /\ pc[q] \in {"observe", "count"} /\ pc'[q] \in {"count", "done"}
        /\ pc'[q] = "count" => wire[q] # Silence
        /\ UNCHANGED <<active, req, snap, resolved, wire, queries, seen, denied>>
    BY <1>10 DEF Observe, Count
  <2>2. Responses(q)' = Responses(q)
    BY <2>1, SameResponses
  <2>3. SnapshotInv(q)' /\ AdmissionInv(q)' /\ OneZone(q)'
    BY <2>1 DEF SnapshotInv, AdmissionInv, OneZone
  <2>4. ResolvedInv(q)'
    BY <2>1 DEF ResolvedInv, IsResolved, Records, PassesTheGates, Silence
  <2>5. WireInv(q)'
    BY <2>1, <2>2 DEF WireInv, Unsent, Silence, ServFail, Sent
  <2> QED
    BY <2>3, <2>4, <2>5
<1> QED
  BY <1>3, <1>4, <1>5, <1>6, <1>7, <1>8, <1>9, <1>10 DEF Step

-----------------------------------------------------------------------------
(* The counters. *)

\* Any set of queries is finite and has a cardinality.
LEMMA FiniteQueries ==
    ASSUME NEW S \in SUBSET Queries
    PROVE  IsFiniteSet(S) /\ Cardinality(S) \in Nat
BY HandlerAssumption, FS_Subset, FS_CardinalityType

\* One query more, or one less, in a set of queries.
LEMMA OneMoreOrLess ==
    ASSUME NEW S \in SUBSET Queries, NEW q \in Queries
    PROVE  /\ q \notin S => Cardinality(S \cup {q}) = Cardinality(S) + 1
           /\ q \in S => Cardinality(S \ {q}) = Cardinality(S) - 1
BY FiniteQueries, FS_AddElement, FS_RemoveElement

\* in_flight is what is being worked on: it grows on arrival, and shrinks
\* with the latency, which is observed on every path.
LEMMA InFlightStep ==
    ASSUME IInv, NEW q \in Queries, Arrive(q) \/ Step(q)
    PROVE  InFlightAddsUp'
<1> DEFINE W == At(AtWork)
<1>1. W \in SUBSET Queries /\ queries - latencies = Cardinality(W)
      /\ queries \in Nat /\ latencies \in Nat
  BY DEF IInv, TypeOK, InFlightAddsUp, At
<1> USE DEF IInv, TypeOK, Goto, counters
<1>2. CASE Arrive(q)
  <2>1. W' = W \cup {q} /\ q \notin W
    BY <1>2 DEF Arrive, At, AtWork
  <2>2. Cardinality(W') = Cardinality(W) + 1
    BY <1>1, <2>1, OneMoreOrLess
  <2>3. queries' = queries + 1 /\ latencies' = latencies
    BY <1>2 DEF Arrive
  <2> QED
    BY <1>1, <2>2, <2>3, FiniteQueries DEF InFlightAddsUp
<1>3. CASE Observe(q)
  <2>1. W' = W \ {q} /\ q \in W
    BY <1>3 DEF Observe, At, AtWork
  <2>2. Cardinality(W') = Cardinality(W) - 1
    BY <1>1, <2>1, OneMoreOrLess
  <2>3. queries' = queries /\ latencies' = latencies + 1
    BY <1>3 DEF Observe
  <2> QED
    BY <1>1, <2>2, <2>3, FiniteQueries DEF InFlightAddsUp
<1>4. CASE Deny(q) \/ Admit(q) \/ Dispatch(q) \/ Load(q) \/ Resolve(q) \/ Send(q) \/ Count(q)
  <2>1. W' = W
    BY <1>4 DEF Deny, Admit, Dispatch, Load, Resolve, Send, Count, At, AtWork
  <2>2. queries' = queries /\ latencies' = latencies
    BY <1>4 DEF Deny, Admit, Dispatch, Load, Resolve, Send, Count
  <2> QED
    BY <1>1, <2>1, <2>2 DEF InFlightAddsUp
<1> QED
  BY <1>2, <1>3, <1>4 DEF Step

\* Each finished query that was answered is in one response counter.
LEMMA ResponsesStep ==
    ASSUME IInv, NEW q \in Queries, Arrive(q) \/ Step(q)
    PROVE  ResponsesAddUp'
<1> SUFFICES ASSUME NEW c \in Codes
             PROVE  responses'[c] = Cardinality(Answered(c)')
  BY DEF ResponsesAddUp
<1>1. /\ Answered(c) \in SUBSET Queries /\ responses[c] = Cardinality(Answered(c))
      /\ responses[c] \in Nat
  BY DEF IInv, TypeOK, ResponsesAddUp, Answered, At
<1> USE DEF IInv, TypeOK, Goto, counters
<1>2. CASE Count(q)
  <2>1. pc[q] = "count" /\ pc' = [pc EXCEPT ![q] = "done"] /\ wire' = wire
        /\ responses' = [responses EXCEPT ![WireCode(q)] = @ + 1]
    BY <1>2 DEF Count
  <2>2. wire[q] # Silence
    BY <2>1 DEF WireInv
  <2>3. CASE WireCode(q) = c
    <3>1. Answered(c)' = Answered(c) \cup {q} /\ q \notin Answered(c)
      BY <2>1, <2>2, <2>3 DEF Answered, At, WireCode, Unsent, Silence
    <3>2. responses'[c] = responses[c] + 1
      BY <2>1, <2>3
    <3> QED
      BY <1>1, <3>1, <3>2, OneMoreOrLess
  <2>4. CASE WireCode(q) # c
    <3>1. Answered(c)' = Answered(c)
      BY <2>1, <2>4 DEF Answered, At, WireCode, Unsent, Silence
    <3>2. responses'[c] = responses[c]
      BY <2>1, <2>4
    <3> QED
      BY <1>1, <3>1, <3>2
  <2> QED
    BY <2>3, <2>4
<1>3. CASE Observe(q)
  <2>1. pc[q] = "observe" /\ wire' = wire /\ responses' = responses
        /\ pc' = [pc EXCEPT ![q] = IF wire[q] = Silence THEN "done" ELSE "count"]
    BY <1>3 DEF Observe
  <2>2. Answered(c)' = Answered(c)
    BY <2>1 DEF Answered, At, WireCode, Unsent, Silence
  <2> QED
    BY <1>1, <2>1, <2>2
<1>4. CASE Arrive(q) \/ Deny(q) \/ Admit(q) \/ Dispatch(q) \/ Load(q) \/ Resolve(q) \/ Send(q)
  <2>1. /\ pc[q] # "done" /\ pc'[q] # "done" /\ responses' = responses
        /\ \A p \in Queries \ {q} : pc'[p] = pc[p] /\ wire'[p] = wire[p]
    BY <1>4 DEF Arrive, Deny, Admit, Dispatch, Load, Resolve, Send
  <2>2. Answered(c)' = Answered(c)
    BY <2>1 DEF Answered, At, WireCode, Unsent, Silence
  <2> QED
    BY <1>1, <2>1, <2>2
<1> QED
  BY <1>2, <1>3, <1>4 DEF Step

\* The limiter is asked once per query, so a denial is counted once.
LEMMA DenialsStep ==
    ASSUME IInv, NEW q \in Queries, Arrive(q) \/ Step(q)
    PROVE  DenialsAddUp'
<1>1. CASE Deny(q)
  <2>1. q \notin denied /\ denied \in SUBSET Queries /\ rate_limited \in Nat
    BY <1>1 DEF Deny, IInv, TypeOK, AdmissionInv
  <2>2. denied' = denied \cup {q} /\ rate_limited' = rate_limited + 1
    BY <1>1 DEF Deny
  <2>3. Cardinality(denied') = Cardinality(denied) + 1
    BY <2>1, <2>2, OneMoreOrLess
  <2> QED
    BY <2>1, <2>2, <2>3 DEF IInv, DenialsAddUp
<1>2. CASE ~Deny(q)
  BY <1>2 DEF Step, Arrive, Admit, Dispatch, Load, Resolve, Send, Observe, Count,
              IInv, DenialsAddUp, counters, history
<1> QED
  BY <1>1, <1>2

-----------------------------------------------------------------------------
(* The invariant. *)

LEMMA TypeStep ==
    ASSUME TypeOK, Next
    PROVE  TypeOK'
<1> USE DEF TypeOK, Goto, counters, history
<1>1. CASE replace_zone
  BY <1>1 DEF replace_zone
<1>2. ASSUME NEW q \in Queries, Arrive(q) \/ Step(q)
      PROVE  TypeOK'
  <2>1. pc' \in [Queries -> Places] /\ denied' \subseteq Queries
    BY <1>2 DEF Step, Arrive, Deny, Admit, Dispatch, Load, Resolve, Send, Observe,
                Count, Places, AtWork
  <2>2. /\ DOMAIN req' = Queries /\ DOMAIN snap' = Queries
        /\ DOMAIN resolved' = Queries /\ DOMAIN wire' = Queries /\ DOMAIN seen' = Queries
    BY <1>2 DEF Step, Arrive, Deny, Admit, Dispatch, Load, Resolve, Send, Observe, Count
  <2>3. /\ queries' \in Nat /\ rate_limited' \in Nat
        /\ latencies' \in Nat /\ send_errors' \in Nat
    BY <1>2 DEF Step, Arrive, Deny, Admit, Dispatch, Load, Resolve, Send, Observe, Count
  <2>4. responses' \in [Codes -> Nat]
    <3>1. CASE Count(q)
      <4>1. responses' = [responses EXCEPT ![WireCode(q)] = responses[WireCode(q)] + 1]
        BY <3>1 DEF Count
      <4>2. CASE WireCode(q) \in Codes
        BY <4>1, <4>2
      <4>3. CASE WireCode(q) \notin Codes
        BY <4>1, <4>3
      <4> QED
        BY <4>2, <4>3
    <3>2. CASE ~Count(q)
      BY <1>2, <3>2 DEF Step, Arrive, Deny, Admit, Dispatch, Load, Resolve, Send, Observe
    <3> QED
      BY <3>1, <3>2
  <2> QED
    BY <2>1, <2>2, <2>3, <2>4 DEF Places
<1> QED
  BY <1>1, <1>2 DEF Next

LEMMA InitIInv == Init => IInv
<1> SUFFICES ASSUME Init PROVE IInv
  OBVIOUS
<1> USE DEF Init
<1>1. TypeOK
  BY DEF TypeOK, AtWork
<1>2. ASSUME NEW q \in Queries
      PROVE  SnapshotInv(q) /\ AdmissionInv(q) /\ ResolvedInv(q) /\ WireInv(q)
  BY DEF SnapshotInv, AdmissionInv, ResolvedInv, WireInv
<1>3. OneZonePerResponse
  BY DEF OneZonePerResponse
<1>4. InFlightAddsUp /\ ResponsesAddUp /\ DenialsAddUp
  <2>1. Cardinality({}) = 0
    BY FS_EmptySet
  <2>2. At(AtWork) = {} /\ At({"done"}) = {}
    BY DEF At, AtWork
  <2>3. \A c \in Codes : Answered(c) = {}
    BY <2>2 DEF Answered
  <2> QED
    BY <2>1, <2>2, <2>3 DEF InFlightAddsUp, ResponsesAddUp, DenialsAddUp
<1> QED
  BY <1>1, <1>2, <1>3, <1>4 DEF IInv

LEMMA NextIInv == IInv /\ [Next]_vars => IInv'
<1> SUFFICES ASSUME IInv, [Next]_vars PROVE IInv'
  OBVIOUS
<1>1. ASSUME NEW q \in Queries, Arrive(q) \/ Step(q)
      PROVE  IInv'
  <2>1. ASSUME NEW p \in Queries
        PROVE  Local(p)' /\ OneZone(p)'
    BY <1>1, OthersUntouched, Elsewhere, OwnStep
  <2>2. TypeOK'
    BY <1>1, TypeStep DEF Next, IInv
  <2>3. InFlightAddsUp' /\ ResponsesAddUp' /\ DenialsAddUp'
    BY <1>1, InFlightStep, ResponsesStep, DenialsStep
  <2> QED
    BY <2>1, <2>2, <2>3 DEF IInv, Local, OneZone, OneZonePerResponse
<1>2. CASE replace_zone
  <2>1. ASSUME NEW p \in Queries
        PROVE  Untouched(p)
    BY <1>2 DEF replace_zone, Untouched, IInv, TypeOK, counters
  <2>2. ASSUME NEW p \in Queries
        PROVE  Local(p)' /\ OneZone(p)'
    BY <2>1, Elsewhere
  <2>3. TypeOK'
    BY <1>2, TypeStep DEF Next, IInv
  <2>4. InFlightAddsUp' /\ ResponsesAddUp' /\ DenialsAddUp'
    BY <1>2 DEF replace_zone, counters, IInv, InFlightAddsUp, ResponsesAddUp,
                DenialsAddUp, Answered, WireCode, At, Unsent, Silence
  <2> QED
    BY <2>2, <2>3, <2>4 DEF IInv, Local, OneZone, OneZonePerResponse
<1>3. CASE UNCHANGED vars
  <2>1. ASSUME NEW p \in Queries
        PROVE  Local(p)' /\ OneZone(p)'
    <3>1. Untouched(p)
      BY <1>3 DEF vars, counters, history, Untouched, IInv, TypeOK, SnapshotInv
    <3> QED
      BY <3>1, Elsewhere
  <2>2. TypeOK'
    BY <1>3 DEF vars, counters, history, IInv, TypeOK
  <2>3. InFlightAddsUp' /\ ResponsesAddUp' /\ DenialsAddUp'
    BY <1>3 DEF vars, counters, history, IInv, InFlightAddsUp, ResponsesAddUp,
                DenialsAddUp, Answered, WireCode, At, Unsent, Silence
  <2> QED
    BY <2>1, <2>2, <2>3 DEF IInv, Local, OneZone, OneZonePerResponse
<1> QED
  BY <1>1, <1>2, <1>3 DEF Next

\* The inductive invariant holds in every reachable state of the handler.
THEOREM Invariance == Spec => []IInv
BY InitIInv, NextIInv, PTL DEF Spec

-----------------------------------------------------------------------------
(* What it is for. *)

\* What was sent, in terms of what was resolved.
LEMMA OnTheWire ==
    ASSUME IInv, NEW q \in Queries, wire[q] # Unsent, wire[q] # Silence
    PROVE  \/ wire[q] = ServFail
           \/ /\ wire[q] \in Responses(q) /\ IsResolved(resolved[q])
              /\ Records(resolved[q]) = 0 \/ (q \notin denied /\ PassesTheGates(req[q]))
<1>1. pc[q] \in {"observe", "count", "done"}
  BY DEF IInv, TypeOK, AtWork, WireInv
<1>2. wire[q] \in Responses(q) \/ wire[q] = ServFail
  BY DEF IInv, WireInv
<1> QED
  BY <1>1, <1>2 DEF IInv, ResolvedInv

\* Every variable of the handler keeps its type.
THEOREM Typing == Spec => []TypeOK
<1>1. IInv => TypeOK
  BY DEF IInv
<1> QED
  BY Invariance, <1>1, PTL

\* The zone, the built-ins and the SOA of a response come from one load of
\* the ArcSwap, whatever reloads fall between arrival and send
\* (DnsHandler::resolve, handler.rs:262-266).
THEOREM OneZonePerResponseHolds == Spec => []OneZonePerResponse
<1>1. IInv => OneZonePerResponse
  BY DEF IInv
<1> QED
  BY Invariance, <1>1, PTL

\* Refused by the limiter or by a gate of dispatch, a query gets no records,
\* and one the limiter turned down over UDP no packet (handler.rs:394-399).
THEOREM NoRecordsForTheRefusedHolds == Spec => []NoRecordsForTheRefused
<1>1. IInv => NoRecordsForTheRefused
  <2> SUFFICES ASSUME IInv, NEW q \in Queries, wire[q] # Unsent, wire[q] # Silence
               PROVE  /\ q \in denied => req[q].protocol # "Udp"
                      /\ Records(wire[q].body) > 0 =>
                            q \notin denied /\ PassesTheGates(req[q])
    BY DEF NoRecordsForTheRefused, PassesTheGates
  <2>1. q \in denied => req[q].protocol # "Udp"
    BY DEF IInv, ResolvedInv
  <2>2. CASE wire[q] = ServFail
    <3>1. wire[q].body = error("ServFail")
      BY <2>2, Fallback
    <3>2. Records(wire[q].body) = 0
      BY <3>1, Errors
    <3> QED
      BY <2>1, <3>2
  <2>3. CASE wire[q] # ServFail
    <3>1. /\ wire[q] \in Responses(q) /\ IsResolved(resolved[q])
          /\ Records(resolved[q]) = 0 \/ (q \notin denied /\ PassesTheGates(req[q]))
      BY <2>3, OnTheWire
    <3>2. CASE Records(resolved[q]) = 0
      <4>1. ~Over(q)
        BY <3>2, RoomIsNat DEF Over
      <4>2. Records(wire[q].body) = 0
        BY <3>1, <3>2, <4>1, Built
      <4> QED
        BY <2>1, <4>2
    <3>3. CASE q \notin denied /\ PassesTheGates(req[q])
      BY <3>3
    <3> QED
      BY <3>1, <3>2, <3>3
  <2> QED
    BY <2>2, <2>3
<1> QED
  BY Invariance, <1>1, PTL

\* Every response fits the transport and the payload its client offered,
\* within the server's own limits, and is whole or has the TC bit: emptied by
\* the handler without EDNS, cut by the encoder otherwise (handler.rs:505-533).
THEOREM WholeOrTruncatedHolds == Spec => []WholeOrTruncated
<1>1. IInv => WholeOrTruncated
  <2> SUFFICES ASSUME IInv, NEW q \in Queries, wire[q] # Unsent, wire[q] # Silence
               PROVE  LET body == wire[q].body
                          offer == req[q].max_payload
                          Within(limit) == Records(body) <= limit
                      IN /\ Unextended(q) => Within(MAX_UDP_NO_EDNS)
                         /\ req[q].protocol = "Udp" /\ req[q].edns # Nothing =>
                               \/ Within(MIN_EDNS_PAYLOAD)
                               \/ offer \in MIN_EDNS_PAYLOAD..MAX_EDNS_PAYLOAD /\ Within(offer)
                               \/ offer > MAX_EDNS_PAYLOAD /\ Within(MAX_EDNS_PAYLOAD)
                         /\ IF wire[q].tc
                            THEN /\ body.code = resolved[q].code
                                 /\ ~(Records(resolved[q]) <= Room(q))
                                 /\ Unextended(q) => Records(body) = 0
                            ELSE body \in {resolved[q], error("ServFail")}
    BY DEF WholeOrTruncated
  <2>1. CASE wire[q] = ServFail
    <3>1. wire[q].body = error("ServFail") /\ ~wire[q].tc
      BY <2>1, Fallback
    <3>2. Records(wire[q].body) = 0 /\ 0 <= MAX_UDP_NO_EDNS /\ 0 <= MIN_EDNS_PAYLOAD
          /\ 0 <= MAX_EDNS_PAYLOAD
      BY <3>1, Errors, HandlerAssumption
    <3> QED
      BY <3>1, <3>2
  <2>2. CASE wire[q] # ServFail
    <3>1. wire[q] \in Responses(q) /\ IsResolved(resolved[q])
      BY <2>2, OnTheWire
    <3>2. /\ wire[q].tc = Over(q) /\ wire[q].body.code = resolved[q].code
          /\ ~Over(q) => wire[q].body = resolved[q]
          /\ Records(wire[q].body) <= Room(q)
          /\ Over(q) /\ Unextended(q) => Records(wire[q].body) = 0
      BY <3>1, Built
    <3>3. Unextended(q) => Records(wire[q].body) <= MAX_UDP_NO_EDNS
      BY <3>2 DEF Room
    <3>4. ASSUME req[q].protocol = "Udp", req[q].edns # Nothing
          PROVE  \/ Records(wire[q].body) <= MIN_EDNS_PAYLOAD
                 \/ /\ req[q].max_payload \in MIN_EDNS_PAYLOAD..MAX_EDNS_PAYLOAD
                    /\ Records(wire[q].body) <= req[q].max_payload
                 \/ /\ req[q].max_payload > MAX_EDNS_PAYLOAD
                    /\ Records(wire[q].body) <= MAX_EDNS_PAYLOAD
      BY <3>2, <3>4, Clamped DEF Room, Unextended
    <3> QED
      BY <3>2, <3>3, <3>4 DEF Over
  <2> QED
    BY <2>1, <2>2
<1> QED
  BY Invariance, <1>1, PTL

\* The metrics add up at every moment: in flight, by response code, denials,
\* and every failure in the servfail series (handler.rs:556-558,
\* Metrics::in_flight).
THEOREM CountersAddUpHolds == Spec => []CountersAddUp
<1>1. ASSUME IInv, NEW q \in Queries, pc[q] = "done", wire[q] # Silence
      PROVE  (wire[q] = Unsent \/ wire[q].body.code # resolved[q].code)
                <=> WireCode(q) = "ServFail"
  <2>1. IsResolved(resolved[q])
    BY <1>1 DEF IInv, ResolvedInv
  <2>2. resolved[q].code # "ServFail"
    BY <2>1 DEF IsResolved, AnswerCodes
  <2>3. CASE wire[q] = Unsent
    BY <2>3 DEF WireCode
  <2>4. CASE wire[q] # Unsent /\ wire[q] = ServFail
    <3>1. wire[q].body.code = "ServFail"
      BY <2>4, Fallback, Errors
    <3> QED
      BY <2>2, <2>4, <3>1 DEF WireCode
  <2>5. CASE wire[q] # Unsent /\ wire[q] # ServFail
    <3>1. wire[q] \in Responses(q)
      BY <1>1, <2>5, OnTheWire
    <3>2. wire[q].body.code = resolved[q].code
      BY <2>1, <3>1, Built
    <3> QED
      BY <2>2, <2>5, <3>2 DEF WireCode
  <2> QED
    BY <2>3, <2>4, <2>5
<1>2. IInv => FailuresAreVisible
  <2> SUFFICES ASSUME IInv PROVE FailuresAreVisible
    OBVIOUS
  <2>1. {q \in At({"done"}) :
            wire[q] # Silence /\ (wire[q] = Unsent \/ wire[q].body.code # resolved[q].code)}
        = Answered("ServFail")
    BY <1>1 DEF Answered, At
  <2>2. responses["ServFail"] = Cardinality(Answered("ServFail"))
    BY DEF IInv, ResponsesAddUp, Codes
  <2> QED
    BY <2>1, <2>2 DEF FailuresAreVisible
<1>3. IInv => CountersAddUp
  BY <1>2 DEF IInv, CountersAddUp
<1> QED
  BY Invariance, <1>3, PTL
=============================================================================
