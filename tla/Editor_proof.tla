---------------------------- MODULE Editor_proof ----------------------------
(***************************************************************************)
(* The editor's file handling, for any number of processes, temporary      *)
(* names, commands and power failures: temporary files are private, the    *)
(* file is always complete, and its serial never goes back by a command    *)
(* that nobody overlapped.                                                 *)
(***************************************************************************)
EXTENDS Editor, WellFoundedInduction, TLAPS

-----------------------------------------------------------------------------
(* Induction over sequences. *)

\* Induction over the natural numbers, from the well-foundedness of their
\* order: a set that holds 0 and the successor of each of its members holds
\* them all.
LEMMA NatSetInduction ==
    ASSUME NEW S, 0 \in S, \A n \in Nat : n \in S => n + 1 \in S
    PROVE  \A n \in Nat : n \in S
<1> DEFINE T == Nat \ S
<1> SUFFICES ASSUME T # {} PROVE FALSE
    OBVIOUS
<1>1. PICK x \in T : \A y \in T : ~(<<y, x>> \in OpToRel(<, Nat))
    BY WFMin, NatLessThanWellFounded
<1>2. x \in Nat /\ x # 0
    OBVIOUS
<1>3. x - 1 \in Nat /\ (x - 1) + 1 = x /\ <<x - 1, x>> \in OpToRel(<, Nat)
    BY <1>2 DEF OpToRel
<1>4. x - 1 \in S
    BY <1>1, <1>3
<1>5. x \in S
    BY <1>3, <1>4
<1> QED
    BY <1>5

\* A function on 0 .. N that begins with `base' and goes on with `step'.
Recurs(f, N, V, base, step) ==
    /\ f \in [0 .. N -> V]
    /\ f[0] = base /\ \A i \in 1 .. N : f[i] = step[<<f[i - 1], i>>]

\* There is one.
LEMMA Recursion ==
    ASSUME NEW N \in Nat, NEW V, NEW base \in V, NEW step \in [V \X (1 .. N) -> V]
    PROVE  \E f : Recurs(f, N, V, base, step)
<1> DEFINE Upto(n, f) == f[0] = base /\ \A i \in 1 .. n : f[i] = step[<<f[i - 1], i>>]
           S == {n \in Nat : n <= N => \E f \in [0 .. n -> V] : Upto(n, f)}
<1>1. 0 \in S
    <2> DEFINE f == [i \in 0 .. 0 |-> base]
    <2>1. f \in [0 .. 0 -> V] /\ Upto(0, f)
        OBVIOUS
    <2> QED
        BY <2>1
<1>2. ASSUME NEW n \in Nat, n \in S PROVE n + 1 \in S
    <2> SUFFICES ASSUME n + 1 <= N
                 PROVE  \E f \in [0 .. n + 1 -> V] : Upto(n + 1, f)
        OBVIOUS
    <2>1. PICK f \in [0 .. n -> V] : Upto(n, f)
        BY <1>2
    <2> DEFINE g == [i \in 0 .. n + 1 |-> IF i = n + 1 THEN step[<<f[n], n + 1>>] ELSE f[i]]
    <2>2. step[<<f[n], n + 1>>] \in V
        OBVIOUS
    <2>3. g \in [0 .. n + 1 -> V]
        BY <2>2
    <2>4. g[0] = base
        BY <2>1
    <2>5. ASSUME NEW i \in 1 .. n + 1 PROVE g[i] = step[<<g[i - 1], i>>]
        <3>1. CASE i = n + 1
            <4>1. g[n] = f[n] /\ i - 1 = n
                BY <3>1
            <4>2. g[n + 1] = step[<<f[n], n + 1>>]
                OBVIOUS
            <4> QED
                BY <3>1, <4>1, <4>2
        <3>2. CASE i \in 1 .. n
            <4>1. g[i - 1] = f[i - 1] /\ g[i] = f[i]
                BY <3>2
            <4> QED
                BY <2>1, <3>2, <4>1
        <3> QED
            BY <3>1, <3>2
    <2> HIDE DEF g
    <2> QED
        BY <2>3, <2>4, <2>5
<1> HIDE DEF S
<1>3. N \in S
    BY <1>1, <1>2, NatSetInduction
<1> QED
    BY <1>3 DEF S, Recurs

\* What is left of a sequence: the same elements in the same order, less
\* those of the set.
LEMMA WithoutIs ==
    ASSUME NEW s, AreValues(s), NEW S
    PROVE  /\ AreValues(Without(s, S))
           /\ ToSet(Without(s, S)) = ToSet(s) \ S
           /\ ToSet(s) \cap S = {} => Without(s, S) = s
<1> DEFINE N == Len(s)
           T == ToSet(s)
           V == Seq(T)
           Grow(v, i) == IF s[i] \in S THEN v ELSE Append(v, s[i])
           IsIt(g) == g = [i \in 0 .. N |-> IF i = 0 THEN <<>> ELSE Grow(g[i - 1], i)]
           kept == CHOOSE g : IsIt(g)
           step == [p \in V \X (1 .. N) |-> Grow(p[1], p[2])]
<1>1. N \in Nat /\ s \in Seq(T) /\ \A i \in 1 .. N : s[i] \in T
    BY DEF AreValues
<1>2. <<>> \in V /\ \A v \in V, i \in 1 .. N : Grow(v, i) \in V
    BY <1>1
<1>3. Without(s, S) = kept[N]
    BY DEF Without
<1> HIDE DEF N, V, Grow
<1>4. /\ step \in [V \X (1 .. N) -> V]
      /\ \A v \in V, i \in 1 .. N : step[<<v, i>>] = Grow(v, i)
    BY <1>2
<1> HIDE DEF step
<1>5. PICK f : Recurs(f, N, V, <<>>, step)
    BY <1>1, <1>2, <1>4, Recursion, Zenon
<1>6. \A i \in 1 .. N : f[i] = Grow(f[i - 1], i)
    <2>1. ASSUME NEW i \in 1 .. N PROVE f[i - 1] \in V
        BY <1>1, <1>5 DEF Recurs
    <2> QED
        BY <1>4, <1>5, <2>1 DEF Recurs
<1>7. IsIt(f)
    BY <1>1, <1>5, <1>6 DEF Recurs
<1>8. IsIt(kept)
    BY <1>7
<1> HIDE DEF kept
<1>9. kept[0] = <<>> /\ \A i \in 1 .. N : kept[i] = Grow(kept[i - 1], i)
    BY <1>1, <1>8
<1>10. kept[0] = <<>> /\ \A i \in 1 .. N :
           kept[i] = IF s[i] \in S THEN kept[i - 1] ELSE Append(kept[i - 1], s[i])
    BY <1>9 DEF Grow
<1> DEFINE Upto(n) ==
               /\ kept[n] \in Seq(T)
               /\ ToSet(kept[n]) = {s[j] : j \in 1 .. n} \ S
               /\ T \cap S = {} => Len(kept[n]) = n /\ \A j \in 1 .. n : kept[n][j] = s[j]
           P == {n \in Nat : n <= N => Upto(n)}
<1>11. 0 \in P
    <2>1. ToSet(kept[0]) = {}
        BY <1>10 DEF ToSet
    <2>2. <<>> \in Seq(T) /\ Len(<<>>) = 0 /\ 1 .. 0 = {}
        OBVIOUS
    <2> QED
        BY <1>10, <2>1, <2>2
<1>12. ASSUME NEW n \in Nat, n \in P, n + 1 <= N PROVE Upto(n + 1)
    <2>1. /\ n + 1 \in 1 .. N /\ n <= N /\ Upto(n)
          /\ kept[n + 1] = IF s[n + 1] \in S THEN kept[n] ELSE Append(kept[n], s[n + 1])
        BY <1>1, <1>10, <1>12
    <2>2. s[n + 1] \in T
        BY <1>1, <2>1
    <2>3. {s[j] : j \in 1 .. n + 1} = {s[j] : j \in 1 .. n} \cup {s[n + 1]}
        <3>1. 1 .. n + 1 = (1 .. n) \cup {n + 1}
            OBVIOUS
        <3> QED
            BY <3>1
    <2>4. CASE s[n + 1] \in S
        BY <2>1, <2>2, <2>3, <2>4
    <2>5. CASE s[n + 1] \notin S
        <3> DEFINE k == kept[n]
                   x == s[n + 1]
        <3>1. k \in Seq(T) /\ kept[n + 1] = Append(k, x)
            BY <2>1, <2>5
        <3> HIDE DEF k, x
        <3>2. /\ Append(k, x) \in Seq(T) /\ Len(Append(k, x)) = Len(k) + 1
              /\ \A j \in 1 .. Len(k) : Append(k, x)[j] = k[j]
              /\ Append(k, x)[Len(k) + 1] = x
            BY <2>2, <3>1 DEF x
        <3>3. ToSet(Append(k, x)) = ToSet(k) \cup {x}
            <4>1. /\ DOMAIN Append(k, x) = 1 .. Len(k) + 1 /\ DOMAIN k = 1 .. Len(k)
                  /\ Len(k) \in Nat
                BY <3>1, <3>2
            <4> QED
                BY <3>2, <4>1 DEF ToSet
        <3>4. ToSet(kept[n + 1]) = {s[j] : j \in 1 .. n + 1} \ S
            BY <2>1, <2>3, <2>5, <3>1, <3>3 DEF k, x
        <3>5. ASSUME T \cap S = {}
              PROVE  Len(kept[n + 1]) = n + 1 /\ \A j \in 1 .. n + 1 : kept[n + 1][j] = s[j]
            BY <2>1, <3>1, <3>2, <3>5 DEF k, x
        <3> QED
            BY <3>1, <3>2, <3>4, <3>5
    <2> QED
        BY <2>4, <2>5
<1> HIDE DEF Upto
<1>13. \A n \in Nat : n \in P => n + 1 \in P
    BY <1>12
<1> HIDE DEF P
<1>14. N \in P
    BY <1>1, <1>11, <1>13, NatSetInduction
<1>15. Upto(N)
    BY <1>1, <1>14 DEF P
<1> USE DEF Upto
<1>16. T = {s[j] : j \in 1 .. N}
    BY <1>1 DEF ToSet, N
<1>17. AreValues(kept[N])
    <2> DEFINE k == kept[N]
    <2>1. k \in Seq(T)
        BY <1>15
    <2> HIDE DEF k, Upto
    <2>2. Len(k) \in Nat /\ DOMAIN k = 1 .. Len(k) /\ k = [i \in 1 .. Len(k) |-> k[i]]
        BY ONLY <2>1
    <2>3. \A i \in 1 .. Len(k) : k[i] \in ToSet(k)
        BY ONLY <2>2 DEF ToSet
    <2>4. k \in Seq(ToSet(k))
        BY ONLY <2>2, <2>3
    <2> QED
        BY ONLY <2>4 DEF AreValues, k
<1>18. T \cap S = {} => kept[N] = s
    BY <1>1, <1>15 DEF N
<1> HIDE DEF T
<1> QED
    BY <1>3, <1>15, <1>16, <1>17, <1>18 DEF T

-----------------------------------------------------------------------------
(* What an edit does to the records. *)

\* A set of numbers has a least one.
LEMMA Least ==
    ASSUME NEW I, I # {}, I \subseteq Nat
    PROVE  Min(I) \in I /\ \A y \in I : Min(I) <= y
<1>1. PICK x \in I : \A y \in I : ~(<<y, x>> \in OpToRel(<, Nat))
    BY WFMin, NatLessThanWellFounded
<1>2. \A y \in I : y \in Nat /\ x \in Nat /\ (y < x => <<y, x>> \in OpToRel(<, Nat))
    BY DEF OpToRel
<1>3. \A y \in I : ~(y < x) /\ x \in Nat /\ y \in Nat
    BY <1>1, <1>2, Zenon
<1>4. \A y \in I : x <= y
    BY <1>3
<1> QED
    BY <1>1, <1>4 DEF Min

\* The first table of a record set, if it has one.
LEMMA FirstIs ==
    ASSUME NEW d, AreTables(d.records), NEW c
    PROVE  LET n == First(d, c)
               N == Len(d.records)
           IN \/ n = 0 /\ \A i \in 1 .. N : ~matches(d.records[i], c)
              \/ n \in 1 .. N /\ matches(d.records[n], c)
<1> DEFINE N == Len(d.records)
           I == {i \in 1 .. N : matches(d.records[i], c)}
<1>1. First(d, c) = IF I # {} THEN Min(I) ELSE 0
    BY DEF First, SelectInSeq
<1>2. N \in Nat /\ I \subseteq Nat
    BY DEF AreTables
<1>3. I # {} => Min(I) \in I
    <2> HIDE DEF I
    <2> QED
        BY <1>2, Least
<1> HIDE DEF N
<1> QED
    BY <1>1, <1>2, <1>3 DEF N

\* Documents with tables of the same names and types in the same places have
\* the first of a record set in the same place.
LEMMA SameFirst ==
    ASSUME NEW d, NEW f, NEW c, Len(f.records) = Len(d.records),
           \A i \in 1 .. Len(d.records) : matches(f.records[i], c) <=> matches(d.records[i], c)
    PROVE  First(f, c) = First(d, c)
<1> DEFINE I(g) == {i \in 1 .. Len(g.records) : matches(g.records[i], c)}
<1>1. \A g : First(g, c) = IF I(g) # {} THEN Min(I(g)) ELSE 0
    BY DEF First, SelectInSeq
<1>2. I(f) = I(d)
    OBVIOUS
<1> HIDE DEF I
<1> QED
    BY <1>1, <1>2

\* The edits look at the records only.
LEMMA OnlyRecords ==
    ASSUME NEW d, NEW f, f.records = d.records, NEW c
    PROVE  /\ add(f, c).change = add(d, c).change
           /\ remove(f, c).change = remove(d, c).change
           /\ Held(f, c) = Held(d, c)
<1>1. First(f, c) = First(d, c)
    BY DEF First
<1> QED
    BY <1>1 DEF add, AddTo, Edit, remove, Held

\* A table added to, with the name and type it had.
Grown(t, c) ==
    LET rettl == c.ttl # Unset /\ t.ttl # c.ttl IN
    [t EXCEPT !.values = IF c.replace THEN c.values ELSE t.values \o Missing(t, c),
              !.ttl = IF c.replace \/ rettl THEN c.ttl ELSE t.ttl]

\* The table that `record add' makes where there is none.
Fresh(c) == [name |-> normalise_name(c.name), rtype |-> c.rtype, ttl |-> c.ttl, values |-> c.values]

\* What ConfigEditor::add does to the records.
LEMMA AddIs ==
    ASSUME NEW d, DOMAIN d = {"serial", "records"}, NEW c
    PROVE  LET n == First(d, c)
               edit == add(d, c)
           IN \/ edit.change = "Unchanged" /\ edit.doc = d
              \/ n = 0 /\ edit.doc.records = Append(d.records, Fresh(c))
              \/ n # 0 /\ edit.doc.records = [d.records EXCEPT ![n] = Grown(d.records[n], c)]
BY DEF add, AddTo, Edit, Grown, Fresh

\* A sequence with one element replaced, and with one more.
LEMMA Replaced ==
    ASSUME NEW r, r \in Seq(ToSet(r)), NEW n \in 1 .. Len(r), NEW x
    PROVE  LET q == [r EXCEPT ![n] = x] IN
           /\ q \in Seq(ToSet(q)) /\ Len(q) = Len(r)
           /\ q[n] = x /\ \A i \in 1 .. Len(r) : i # n => q[i] = r[i]
           /\ ToSet(q) \subseteq ToSet(r) \cup {x}
<1> DEFINE q == [r EXCEPT ![n] = x]
           T == ToSet(r) \cup {x}
<1>1. Len(r) \in Nat /\ DOMAIN r = 1 .. Len(r) /\ \A i \in 1 .. Len(r) : r[i] \in ToSet(r)
    OBVIOUS
<1>2. q \in [1 .. Len(r) -> T]
    BY <1>1
<1>3. q \in Seq(T) /\ Len(q) = Len(r)
    BY <1>1, <1>2
<1>4. q \in Seq(ToSet(q))
    <2>1. \A i \in 1 .. Len(r) : q[i] \in ToSet(q)
        BY <1>2 DEF ToSet
    <2> HIDE DEF q
    <2> QED
        BY <1>1, <1>2, <1>3, <2>1
<1> QED
    BY <1>1, <1>2, <1>3, <1>4 DEF ToSet

LEMMA Appended ==
    ASSUME NEW r, r \in Seq(ToSet(r)), NEW x
    PROVE  LET q == Append(r, x) IN
           /\ q \in Seq(ToSet(q)) /\ Len(q) = Len(r) + 1
           /\ q[Len(r) + 1] = x /\ \A i \in 1 .. Len(r) : q[i] = r[i]
           /\ ToSet(q) = ToSet(r) \cup {x}
<1> DEFINE q == Append(r, x)
           T == ToSet(r) \cup {x}
<1>1. /\ q \in Seq(T) /\ Len(q) = Len(r) + 1 /\ Len(r) \in Nat
      /\ q[Len(r) + 1] = x /\ \A i \in 1 .. Len(r) : q[i] = r[i]
    OBVIOUS
<1>2. DOMAIN r = 1 .. Len(r) /\ DOMAIN q = 1 .. Len(r) + 1
    BY <1>1
<1>3. ToSet(q) = T
    <2> HIDE DEF q
    <2> QED
        BY <1>1, <1>2 DEF ToSet
<1> QED
    BY <1>1, <1>3

\* One sequence after another.
LEMMA Joined ==
    ASSUME NEW r, AreValues(r), NEW s, AreValues(s)
    PROVE  AreValues(r \o s) /\ ToSet(r \o s) = ToSet(r) \cup ToSet(s)
<1> DEFINE T == ToSet(r) \cup ToSet(s)
           q == r \o s
<1>1. r \in Seq(T) /\ s \in Seq(T)
    BY DEF AreValues
<1>2. /\ Len(r) \in Nat /\ Len(s) \in Nat
      /\ DOMAIN r = 1 .. Len(r) /\ DOMAIN s = 1 .. Len(s)
    BY <1>1
<1> HIDE DEF T
<1>3. /\ q \in Seq(T) /\ Len(q) = Len(r) + Len(s)
      /\ \A i \in 1 .. Len(r) : q[i] = r[i]
      /\ \A i \in 1 .. Len(s) : q[Len(r) + i] = s[i]
    BY <1>1
<1>4. DOMAIN q = 1 .. Len(r) + Len(s)
    BY <1>3
<1> HIDE DEF q
<1>5. ToSet(q) = T
    <2>2. \A i \in 1 .. Len(r) + Len(s) : q[i] \in T
        BY <1>3, <1>4
    <2>3. \A i \in 1 .. Len(r) : i \in DOMAIN q
        BY <1>2, <1>4
    <2>4. \A i \in 1 .. Len(s) : Len(r) + i \in DOMAIN q
        BY <1>2, <1>4
    <2>5. ToSet(r) \subseteq ToSet(q)
        BY <1>2, <1>3, <2>3 DEF ToSet
    <2>6. ToSet(s) \subseteq ToSet(q)
        BY <1>2, <1>3, <2>4 DEF ToSet
    <2>7. ToSet(q) \subseteq T
        BY <1>4, <2>2 DEF ToSet
    <2> QED
        BY <2>5, <2>6, <2>7 DEF T
<1> QED
    BY <1>3, <1>5 DEF AreValues, T, q

\* A sequence without elements.
LEMMA Nothing ==
    ASSUME NEW s, AreValues(s), ToSet(s) = {} PROVE s = <<>>
BY DEF AreValues

\* There is nothing left to add to the table.
Settled(t, c) ==
    IF c.replace THEN t.values = c.values /\ t.ttl = c.ttl
    ELSE Missing(t, c) = <<>> /\ ~(c.ttl # Unset /\ t.ttl # c.ttl)

\* What a command that names values gives.
IsEdit(c) == c.name \in DOMAIN TrimmedName /\ AreValues(c.values)

\* A table that has been added to has all the values and is settled.
LEMMA GrownIs ==
    ASSUME NEW t, IsTable(t), NEW c, IsEdit(c)
    PROVE  LET g == Grown(t, c) IN
           /\ IsTable(g) /\ g.name = t.name /\ g.rtype = t.rtype
           /\ ToSet(c.values) \subseteq ToSet(g.values)
           /\ ToSet(g.values) \subseteq ToSet(t.values) \cup ToSet(c.values)
           /\ ~c.replace => ToSet(t.values) \subseteq ToSet(g.values)
           /\ Settled(g, c)
<1> DEFINE g == Grown(t, c)
           m == Missing(t, c)
<1>1. AreValues(m) /\ ToSet(m) = ToSet(c.values) \ ToSet(t.values)
    BY WithoutIs DEF IsEdit, Missing
<1>2. AreValues(t.values \o m) /\ ToSet(t.values \o m) = ToSet(t.values) \cup ToSet(m)
    BY <1>1, Joined DEF IsTable
<1>3. /\ DOMAIN g = DOMAIN t /\ g.name = t.name /\ g.rtype = t.rtype
      /\ g.values = IF c.replace THEN c.values ELSE t.values \o m
      /\ g.ttl = IF c.replace \/ (c.ttl # Unset /\ t.ttl # c.ttl) THEN c.ttl ELSE t.ttl
    BY DEF Grown, IsTable
<1> HIDE DEF g, m
<1>4. AreValues(g.values) /\ ToSet(c.values) \subseteq ToSet(g.values)
    BY <1>1, <1>2, <1>3 DEF IsEdit
<1>5. Missing(g, c) = <<>>
    <2>1. AreValues(Missing(g, c)) /\ ToSet(Missing(g, c)) = {}
        BY <1>4, WithoutIs DEF IsEdit, Missing
    <2> QED
        BY <2>1, Nothing
<1>6. IsTable(g)
    BY <1>3, <1>4 DEF IsTable
<1>7. Settled(g, c)
    BY <1>3, <1>5 DEF Settled
<1> QED
    BY <1>1, <1>2, <1>3, <1>4, <1>6, <1>7 DEF g

\* So is one that has just been made.
LEMMA FreshIs ==
    ASSUME NEW c, IsEdit(c)
    PROVE  LET g == Fresh(c) IN
           /\ IsTable(g) /\ matches(g, c) /\ g.values = c.values
           /\ Settled(g, c)
<1>1. Missing(Fresh(c), c) = <<>>
    <2>1. Fresh(c).values = c.values
        BY DEF Fresh
    <2>2. AreValues(Missing(Fresh(c), c)) /\ ToSet(Missing(Fresh(c), c)) = {}
        BY <2>1, WithoutIs DEF IsEdit, Missing
    <2> QED
        BY <2>2, Nothing
<1>2. /\ normalise_name(c.name) \in DOMAIN TrimmedName
      /\ normalise_name(normalise_name(c.name)) = normalise_name(c.name)
    BY NamesAssumption DEF IsEdit, normalise_name
<1>3. IsTable(Fresh(c)) /\ matches(Fresh(c), c)
    BY <1>2 DEF IsEdit, IsTable, Fresh, matches
<1> QED
    BY <1>1, <1>3 DEF Settled, Fresh

\* ConfigEditor::add leaves tables, in which the command's record set has all
\* the values and is settled: adding again changes nothing.  What another
\* record set or an earlier addition has stays, unless the values are
\* replaced.
LEMMA AddTwice ==
    ASSUME NEW d, DOMAIN d = {"serial", "records"}, AreTables(d.records),
           NEW c, IsEdit(c)
    PROVE  LET f == add(d, c).doc IN
           /\ AreTables(f.records)
           /\ add(f, c).change = "Unchanged"
<1> DEFINE f == add(d, c).doc
           n == First(d, c)
           N == Len(d.records)
<1>0. /\ d.records \in Seq(ToSet(d.records)) /\ N \in Nat
      /\ \A t \in ToSet(d.records) : IsTable(t)
      /\ \A i \in 1 .. N : d.records[i] \in ToSet(d.records)
    BY DEF AreTables, ToSet
<1>1. ASSUME NEW g, First(g, c) # 0, Settled(g.records[First(g, c)], c)
      PROVE  add(g, c).change = "Unchanged"
    BY <1>1 DEF add, AddTo, Settled, Edit
<1>2. CASE add(d, c).change = "Unchanged" /\ f = d
    BY <1>2
<1>3. CASE n = 0 /\ f.records = Append(d.records, Fresh(c))
    <2> DEFINE q == Append(d.records, Fresh(c))
    <2>1. /\ q \in Seq(ToSet(q)) /\ Len(q) = N + 1
          /\ q[N + 1] = Fresh(c) /\ \A i \in 1 .. N : q[i] = d.records[i]
          /\ ToSet(q) = ToSet(d.records) \cup {Fresh(c)}
        BY <1>0, Appended
    <2>2. AreTables(f.records)
        BY <1>0, <1>3, <2>1, FreshIs DEF AreTables
    <2>3. \A i \in 1 .. N : ~matches(d.records[i], c)
        BY <1>3, FirstIs
    <2> HIDE DEF q, f, n
    <2>4. f.records = q
        BY <1>3 DEF q
    <2>5. First(f, c) = N + 1
        <3>1. \/ First(f, c) = 0 /\ \A i \in 1 .. N + 1 : ~matches(q[i], c)
              \/ First(f, c) \in 1 .. N + 1 /\ matches(q[First(f, c)], c)
            BY <2>1, <2>2, <2>4, FirstIs
        <3>2. N + 1 \in 1 .. N + 1 /\ matches(q[N + 1], c)
            BY <1>0, <2>1, FreshIs
        <3>3. \A i \in 1 .. N : ~matches(q[i], c)
            BY <2>1, <2>3
        <3> QED
            BY <1>0, <3>1, <3>2, <3>3
    <2> QED
        BY <1>0, <1>1, <2>1, <2>2, <2>4, <2>5, FreshIs DEF f
<1>4. CASE n # 0 /\ f.records = [d.records EXCEPT ![n] = Grown(d.records[n], c)]
    <2> DEFINE g == Grown(d.records[n], c)
               q == [d.records EXCEPT ![n] = g]
    <2>1. n \in 1 .. N
        BY <1>4, FirstIs
    <2>2. /\ q \in Seq(ToSet(q)) /\ Len(q) = N
          /\ q[n] = g /\ \A i \in 1 .. N : i # n => q[i] = d.records[i]
          /\ ToSet(q) \subseteq ToSet(d.records) \cup {g}
        <3> HIDE DEF n, g
        <3> QED
            BY <1>0, <2>1, Replaced
    <2>3. /\ IsTable(g) /\ g.name = d.records[n].name /\ g.rtype = d.records[n].rtype
          /\ Settled(g, c)
        BY <1>0, <2>1, GrownIs
    <2> HIDE DEF q, f, n, g
    <2>4. f.records = q
        BY <1>4 DEF q, g
    <2>5. AreTables(f.records)
        BY <1>0, <2>2, <2>3, <2>4 DEF AreTables
    <2>6. \A i \in 1 .. N : matches(q[i], c) <=> matches(d.records[i], c)
        BY <2>1, <2>2, <2>3 DEF matches
    <2>7. First(f, c) = n
        BY <2>2, <2>4, <2>6, SameFirst DEF n
    <2> QED
        BY <1>0, <1>1, <2>1, <2>2, <2>3, <2>4, <2>5, <2>7 DEF f
<1> QED
    BY <1>2, <1>3, <1>4, AddIs

\* When `record add' has nothing to change, the record set has every value.
LEMMA UnchangedShows ==
    ASSUME NEW d, AreTables(d.records), NEW c, IsEdit(c), add(d, c).change = "Unchanged"
    PROVE  ToSet(c.values) \subseteq Held(d, c)
<1> DEFINE n == First(d, c)
           t == d.records[n]
<1>1. n # 0 /\ Settled(t, c)
    BY DEF add, AddTo, Settled, Edit
<1>2. n \in 1 .. Len(d.records) /\ matches(t, c)
    BY <1>1, FirstIs
<1> HIDE DEF n
<1>3. t \in ToSet(d.records) /\ IsTable(t)
    BY <1>2 DEF AreTables, ToSet
<1>4. ToSet(c.values) \subseteq ToSet(t.values)
    <2>1. CASE c.replace
        BY <1>1, <2>1 DEF Settled
    <2>2. CASE ~c.replace
        <3>1. ToSet(<<>>) = {}
            BY DEF ToSet
        <3>2. ToSet(Missing(t, c)) = ToSet(c.values) \ ToSet(t.values)
            BY WithoutIs DEF IsEdit, Missing
        <3> QED
            BY <1>1, <2>2, <3>1, <3>2 DEF Settled
    <2> QED
        BY <2>1, <2>2
<1> HIDE DEF t
<1>5. matches(t, c)
    BY <1>2 DEF t
<1> QED
    BY <1>3, <1>4, <1>5 DEF Held

\* Where each table of the document goes when something is added to it.
LEMMA AddMoves ==
    ASSUME NEW d, DOMAIN d = {"serial", "records"}, AreTables(d.records),
           NEW c, IsEdit(c)
    PROVE  LET f == add(d, c).doc IN
           /\ \A t \in ToSet(d.records) :
                 t \in ToSet(f.records) \/ (matches(t, c) /\ Grown(t, c) \in ToSet(f.records))
           /\ \A u \in ToSet(f.records) :
                 \/ u \in ToSet(d.records) \/ u = Fresh(c)
                 \/ \E t \in ToSet(d.records) : matches(t, c) /\ u = Grown(t, c)
<1> DEFINE f == add(d, c).doc
           n == First(d, c)
           r == d.records
           N == Len(r)
<1>0. /\ r \in Seq(ToSet(r)) /\ N \in Nat
      /\ ToSet(r) = {r[i] : i \in 1 .. N}
    BY DEF AreTables, ToSet
<1>1. CASE add(d, c).change = "Unchanged" /\ f = d
    BY <1>1
<1>2. CASE n = 0 /\ f.records = Append(r, Fresh(c))
    <2> DEFINE x == Fresh(c)
    <2> HIDE DEF r, x, f
    <2>1. ToSet(Append(r, x)) = ToSet(r) \cup {x}
        BY ONLY <1>0, Appended, Zenon
    <2>2. ToSet(f.records) = ToSet(r) \cup {x}
        BY <1>2, <2>1 DEF x
    <2> QED
        BY ONLY <2>2 DEF r, x, f
<1>3. CASE n # 0 /\ f.records = [r EXCEPT ![n] = Grown(r[n], c)]
    <2> DEFINE g == Grown(r[n], c)
               q == [r EXCEPT ![n] = g]
    <2>1. n \in 1 .. N /\ matches(r[n], c)
        BY <1>3, FirstIs
    <2>2. /\ q \in Seq(ToSet(q)) /\ Len(q) = N
          /\ q[n] = g /\ \A i \in 1 .. N : i # n => q[i] = r[i]
        <3> HIDE DEF n, g, r
        <3> QED
            BY ONLY <1>0, <2>1, Replaced
    <2> HIDE DEF q, f, n, r
    <2>3. ToSet(f.records) = {q[i] : i \in 1 .. N}
        BY <1>3, <2>2 DEF q, ToSet
    <2>4. \A i \in 1 .. N : i # n => q[i] = r[i]
        BY <2>2
    <2>5. r[n] \in ToSet(r) /\ q[n] = g
        BY <1>0, <2>1, <2>2
    <2> HIDE DEF g
    <2>6. ASSUME NEW t \in ToSet(r)
          PROVE  t \in ToSet(f.records) \/ (matches(t, c) /\ Grown(t, c) \in ToSet(f.records))
        <3>1. PICK i \in 1 .. N : t = r[i]
            BY <1>0
        <3> QED
            BY <2>1, <2>3, <2>4, <2>5, <3>1 DEF g
    <2>7. ASSUME NEW u \in ToSet(f.records)
          PROVE  u \in ToSet(r) \/ \E t \in ToSet(r) : matches(t, c) /\ u = Grown(t, c)
        <3>1. PICK i \in 1 .. N : u = q[i]
            BY <2>3
        <3> QED
            BY <1>0, <2>1, <2>4, <2>5, <3>1 DEF g
    <2> QED
        BY ONLY <2>6, <2>7 DEF r, f
<1> QED
    BY <1>1, <1>2, <1>3, AddIs

\* An addition leaves what an earlier one gave, unless it replaces values of
\* the same record set by others.
LEMMA AddKeeps ==
    ASSUME NEW d, DOMAIN d = {"serial", "records"}, AreTables(d.records),
           NEW c, IsEdit(c), NEW x, ~Drops(c, x), ToSet(x.values) \subseteq Held(d, x)
    PROVE  ToSet(x.values) \subseteq Held(add(d, c).doc, x)
<1> DEFINE f == add(d, c).doc
<1>1. SUFFICES ASSUME NEW v \in ToSet(x.values) PROVE v \in Held(f, x)
    OBVIOUS
<1>2. PICK t \in ToSet(d.records) : matches(t, x) /\ v \in ToSet(t.values)
    BY DEF Held
<1>3. t \in ToSet(f.records) \/ (matches(t, c) /\ Grown(t, c) \in ToSet(f.records))
    BY <1>2, AddMoves
<1> HIDE DEF f
<1>4. CASE t \in ToSet(f.records)
    BY <1>2, <1>4 DEF Held
<1>5. CASE matches(t, c) /\ Grown(t, c) \in ToSet(f.records)
    <2> DEFINE g == Grown(t, c)
    <2>1. /\ g.name = t.name /\ g.rtype = t.rtype
          /\ ToSet(c.values) \subseteq ToSet(g.values)
          /\ ~c.replace => ToSet(t.values) \subseteq ToSet(g.values)
        BY <1>2, GrownIs DEF AreTables
    <2>2. g \in ToSet(f.records)
        BY <1>5
    <2> HIDE DEF g
    <2>3. matches(g, x)
        BY <1>2, <2>1 DEF matches
    <2>4. v \in ToSet(g.values)
        <3>1. CASE c.replace
            <4>1. ToSet(x.values) \subseteq ToSet(c.values)
                BY <1>2, <1>5, <3>1 DEF Drops, matches
            <4> QED
                BY <2>1, <4>1
        <3> QED
            BY <1>2, <2>1, <3>1
    <2> QED
        BY <2>2, <2>3, <2>4 DEF Held
<1> QED
    BY <1>3, <1>4, <1>5

\* What a deletion has taken does not come back with an addition that does
\* not name it.
LEMMA AddLeavesGone ==
    ASSUME NEW d, DOMAIN d = {"serial", "records"}, AreTables(d.records),
           NEW c, IsEdit(c), NEW x, IsEdit(x), ~Common(x, c),
           \A t \in ToSet(d.records) : ~Cut(t, x)
    PROVE  \A u \in ToSet(add(d, c).doc.records) : ~Cut(u, x)
<1> DEFINE f == add(d, c).doc
<1>1. SUFFICES ASSUME NEW u \in ToSet(f.records), Hit(u, x), u \notin ToSet(d.records)
               PROVE  ~Cut(u, x)
    BY DEF Cut
<1>2. u = Fresh(c) \/ \E t \in ToSet(d.records) : matches(t, c) /\ u = Grown(t, c)
    BY <1>1, AddMoves
<1> HIDE DEF f
<1>3. SUFFICES /\ AreValues(u.values) /\ matches(u, c)
               /\ x.values # <<>> => ToSet(u.values) \cap ToSet(x.values)
                                        \subseteq ToSet(c.values)
    <2>1. x.values # <<>> /\ ToSet(x.values) \cap ToSet(c.values) = {}
        BY <1>1, <1>3 DEF Common, matches, Hit
    <2>2. Without(u.values, ToSet(x.values)) = u.values
        BY <1>3, <2>1, WithoutIs
    <2> QED
        BY <2>1, <2>2 DEF Cut, Kept
<1>4. CASE u = Fresh(c)
    BY <1>4, FreshIs DEF IsTable
<1>5. ASSUME NEW t \in ToSet(d.records), matches(t, c), u = Grown(t, c)
      PROVE  /\ AreValues(u.values) /\ matches(u, c)
             /\ x.values # <<>> => ToSet(u.values) \cap ToSet(x.values)
                                      \subseteq ToSet(c.values)
    <2>1. IsTable(t)
        BY DEF AreTables
    <2>2. /\ IsTable(u) /\ u.name = t.name /\ u.rtype = t.rtype
          /\ ToSet(u.values) \subseteq ToSet(t.values) \cup ToSet(c.values)
        BY <1>5, <2>1, GrownIs
    <2>3. Hit(t, x) /\ matches(u, c)
        BY <1>1, <1>5, <2>2 DEF Hit, matches
    <2>4. x.values # <<>> => Kept(t, x) = t.values
        BY <2>3 DEF Cut
    <2>5. ToSet(Kept(t, x)) = ToSet(t.values) \ ToSet(x.values)
        BY <2>1, WithoutIs DEF IsTable, Kept
    <2> QED
        BY <2>2, <2>3, <2>4, <2>5 DEF IsTable
<1> QED
    BY <1>2, <1>4, <1>5

\* A table that has lost the values has none of them left to lose, and what
\* another deletion would not find in it before it would not find now.
LEMMA RestIs ==
    ASSUME NEW t, IsTable(t), NEW c, IsEdit(c), ~Emptied(t, c)
    PROVE  LET u == IF Cut(t, c) THEN [t EXCEPT !.values = Kept(t, c)] ELSE t IN
           /\ IsTable(u) /\ ~Cut(u, c)
           /\ \A x : IsEdit(x) /\ ~Cut(t, x) => ~Cut(u, x)
<1>1. CASE ~Cut(t, c)
    BY <1>1
<1>2. CASE Cut(t, c)
    <2> DEFINE k == Kept(t, c)
               u == [t EXCEPT !.values = k]
    <2>1. AreValues(k) /\ ToSet(k) = ToSet(t.values) \ ToSet(c.values)
        BY WithoutIs DEF IsTable, Kept
    <2>2. c.values # <<>>
        BY <1>2 DEF Emptied
    <2> HIDE DEF k
    <2>3. u.name = t.name /\ u.rtype = t.rtype /\ u.values = k /\ IsTable(u)
        BY <2>1 DEF IsTable
    <2> HIDE DEF u
    <2>4. Kept(u, c) = u.values
        BY <2>1, <2>3, WithoutIs DEF Kept
    <2>5. ~Cut(u, c)
        BY <2>2, <2>4 DEF Cut
    <2>6. ASSUME NEW x, IsEdit(x), ~Cut(t, x) PROVE ~Cut(u, x)
        <3>1. Hit(u, x) <=> Hit(t, x)
            BY <2>3 DEF Hit
        <3>2. CASE ~Hit(t, x)
            BY <3>1, <3>2 DEF Cut
        <3>3. CASE Hit(t, x)
            <4>1. x.values # <<>> /\ Kept(t, x) = t.values
                BY <2>6, <3>3 DEF Cut
            <4>2. ToSet(Kept(t, x)) = ToSet(t.values) \ ToSet(x.values)
                BY WithoutIs DEF IsTable, Kept
            <4>3. ToSet(k) \cap ToSet(x.values) = {}
                BY <2>1, <4>1, <4>2
            <4>4. Kept(u, x) = u.values
                BY <2>1, <2>3, <4>3, WithoutIs DEF Kept
            <4> QED
                BY <4>1, <4>4 DEF Cut
        <3> QED
            BY <3>2, <3>3
    <2> QED
        BY <1>2, <2>3, <2>5, <2>6 DEF u, k
<1> QED
    BY <1>1, <1>2

\* ConfigEditor::remove leaves tables in which there is nothing left to
\* remove: removing again changes nothing.  What another deletion would not
\* have found before it does not find now.
LEMMA RemoveTwice ==
    ASSUME NEW d, DOMAIN d = {"serial", "records"}, AreTables(d.records),
           NEW c, IsEdit(c)
    PROVE  LET f == remove(d, c).doc IN
           /\ AreTables(f.records)
           /\ remove(f, c).change = "Unchanged"
           /\ \A x : IsEdit(x) /\ remove(d, x).change = "Unchanged" =>
                        remove(f, x).change = "Unchanged"
<1>1. \A g, x : remove(g, x).change = "Unchanged" <=> \A t \in ToSet(g.records) : ~Cut(t, x)
    BY DEF remove, Edit
<1>2. CASE \A t \in ToSet(d.records) : ~Cut(t, c)
    <2>1. remove(d, c).doc = d
        BY <1>2 DEF remove, Edit
    <2> QED
        BY <1>1, <1>2, <2>1
<1>3. CASE \E t \in ToSet(d.records) : Cut(t, c)
    <2> DEFINE gone == {t \in ToSet(d.records) : Emptied(t, c)}
               left == Without(d.records, gone)
               Rest(t) == IF Cut(t, c) THEN [t EXCEPT !.values = Kept(t, c)] ELSE t
               r == [i \in DOMAIN left |-> Rest(left[i])]
               f == remove(d, c).doc
    <2>1. f.records = r
        BY <1>3 DEF remove, Edit
    <2>2. left \in Seq(ToSet(left)) /\ ToSet(left) = ToSet(d.records) \ gone
        BY WithoutIs DEF AreTables, AreValues
    <2>3. \A t \in ToSet(left) : t \in ToSet(d.records) /\ IsTable(t) /\ ~Emptied(t, c)
        BY <2>2 DEF AreTables
    <2>4. \A t \in ToSet(left) :
              /\ IsTable(Rest(t)) /\ ~Cut(Rest(t), c)
              /\ \A x : IsEdit(x) /\ ~Cut(t, x) => ~Cut(Rest(t), x)
        BY <2>3, RestIs
    <2> HIDE DEF left, Rest, gone, f
    <2>5. Len(left) \in Nat /\ DOMAIN left = 1 .. Len(left)
        BY <2>2
    <2>6. \A i \in DOMAIN left : left[i] \in ToSet(left)
        BY DEF ToSet
    <2>7. ToSet(r) = {Rest(left[i]) : i \in DOMAIN left}
        BY DEF ToSet
    <2>8. r \in Seq(ToSet(r))
        <3>1. r \in [1 .. Len(left) -> ToSet(r)]
            BY <2>5, <2>7
        <3> HIDE DEF r
        <3> QED
            BY <2>5, <3>1
    <2>9. AreTables(r)
        BY <2>4, <2>6, <2>7, <2>8 DEF AreTables
    <2> HIDE DEF r
    <2>10. \A u \in ToSet(r) : \E t \in ToSet(left) : u = Rest(t)
        BY <2>6, <2>7
    <2>11. \A u \in ToSet(r) : ~Cut(u, c)
        BY <2>4, <2>10
    <2>12. ASSUME NEW x, IsEdit(x), \A t \in ToSet(d.records) : ~Cut(t, x)
           PROVE  \A u \in ToSet(r) : ~Cut(u, x)
        BY <2>3, <2>4, <2>10, <2>12
    <2> QED
        BY <1>1, <2>1, <2>9, <2>11, <2>12 DEF f
<1> QED
    BY <1>2, <1>3

\* A deletion leaves what an addition gave, unless it names a value of it.
LEMMA RemoveKeeps ==
    ASSUME NEW d, DOMAIN d = {"serial", "records"}, AreTables(d.records),
           NEW c, IsEdit(c), NEW x, ~Common(c, x), ToSet(x.values) \subseteq Held(d, x)
    PROVE  ToSet(x.values) \subseteq Held(remove(d, c).doc, x)
<1> DEFINE gone == {t \in ToSet(d.records) : Emptied(t, c)}
           left == Without(d.records, gone)
           Rest(t) == IF Cut(t, c) THEN [t EXCEPT !.values = Kept(t, c)] ELSE t
           f == remove(d, c).doc
<1>1. CASE \A t \in ToSet(d.records) : ~Cut(t, c)
    BY <1>1 DEF remove, Edit
<1>2. CASE \E t \in ToSet(d.records) : Cut(t, c)
    <2>1. f.records = [i \in DOMAIN left |-> Rest(left[i])]
        BY <1>2 DEF remove, Edit
    <2>2. ToSet(left) = ToSet(d.records) \ gone
        BY WithoutIs DEF AreTables, AreValues
    <2>3. ToSet(f.records) = {Rest(t) : t \in ToSet(left)}
        <3> HIDE DEF left, Rest, f
        <3> QED
            BY <2>1 DEF ToSet
    <2>4. SUFFICES ASSUME NEW v \in ToSet(x.values) PROVE v \in Held(f, x)
        OBVIOUS
    <2>5. PICK t \in ToSet(d.records) : matches(t, x) /\ v \in ToSet(t.values)
        BY DEF Held
    <2>6. IsTable(t) /\ (Hit(t, c) => c.values # <<>> /\ v \notin ToSet(c.values))
        BY <2>5 DEF AreTables, Hit, matches, Common
    <2>7. ToSet(Kept(t, c)) = ToSet(t.values) \ ToSet(c.values)
        BY <2>6, WithoutIs DEF IsTable, Kept
    <2>8. Hit(t, c) => v \in ToSet(Kept(t, c))
        BY <2>5, <2>6, <2>7
    <2>9. t \in ToSet(left)
        <3>1. ToSet(<<>>) = {}
            BY DEF ToSet
        <3>2. ~Emptied(t, c)
            BY <2>6, <2>8, <3>1 DEF Emptied, Cut
        <3> QED
            BY <2>2, <2>5, <3>2
    <2> DEFINE u == Rest(t)
    <2>10. /\ u.name = t.name /\ u.rtype = t.rtype /\ v \in ToSet(u.values)
        BY <2>5, <2>6, <2>8 DEF Cut, IsTable
    <2>11. u \in ToSet(f.records)
        BY <2>3, <2>9
    <2> HIDE DEF u, f
    <2> QED
        BY <2>5, <2>10, <2>11 DEF Held, matches
<1> QED
    BY <1>1, <1>2

-----------------------------------------------------------------------------
(* Documents and serials. *)

\* A file that holds a document holds neither nothing nor part of one.
LEMMA Contents ==
    /\ Empty # Torn
    /\ \A d : Whole(d) # Empty /\ Whole(d) # Torn /\ Whole(d).doc = d
BY DEF Empty, Torn, Whole

\* The arithmetic of the date stays within the integers.
LEMMA YmdInt == ASSUME NEW day \in Nat PROVE ymd_from_unix_days(day) \in Int
BY DEF ymd_from_unix_days

\* next_serial never goes back, whatever day the clock shows.
LEMMA NextSerial ==
    ASSUME NEW previous \in Int \cup {Unset}, NEW today \in Int
    PROVE  /\ next_serial(previous, today) \in Int
           /\ previous # Unset => next_serial(previous, today) >= previous
BY DEF next_serial

\* zone bump-serial makes a document with no older serial and the records it
\* had.
LEMMA BumpSerial ==
    ASSUME NEW d, IsDocument(d), NEW today \in Int
    PROVE  /\ IsDocument(bump_serial(d, today))
           /\ bump_serial(d, today).records = d.records
           /\ bump_serial(d, today).serial \in Int
           /\ d.serial # Unset => bump_serial(d, today).serial >= d.serial
BY NextSerial DEF IsDocument, bump_serial

\* The edit under a command, before maybe_bump.
Edited(d, c) == IF c.op = "add" THEN add(d, c) ELSE remove(d, c)

\* record add and record delete make a document with the serial it had, in
\* which the same edit has nothing to change.
LEMMA EditedIs ==
    ASSUME NEW d, IsDocument(d), NEW c, IsEdit(c)
    PROVE  LET f == Edited(d, c).doc IN
           /\ IsDocument(f) /\ f.serial = d.serial
           /\ Edited(f, c).change = "Unchanged"
<1> DEFINE f == Edited(d, c).doc
<1>1. AreTables(f.records) /\ Edited(f, c).change = "Unchanged"
    BY AddTwice, RemoveTwice DEF IsDocument, Edited
<1>2. DOMAIN f = DOMAIN d /\ f.serial = d.serial
    <2>1. DOMAIN add(d, c).doc = DOMAIN d /\ add(d, c).doc.serial = d.serial
        <3>1. \A i : LET g == AddTo(d, i, c).doc IN DOMAIN g = DOMAIN d /\ g.serial = d.serial
            BY DEF AddTo, Edit, IsDocument
        <3> QED
            BY <3>1 DEF add, Edit, IsDocument
    <2>2. DOMAIN remove(d, c).doc = DOMAIN d /\ remove(d, c).doc.serial = d.serial
        BY DEF remove, Edit, IsDocument
    <2> QED
        BY <2>1, <2>2 DEF Edited
<1> QED
    BY <1>1, <1>2 DEF IsDocument

\* The commands that edit the file.
IsEditing(c) == c \in Commands /\ c.op \in {"add", "delete", "bump-serial"}

\* Whatever a command makes of a document has the records of its edit and no
\* older serial.
LEMMA OutcomeIs ==
    ASSUME NEW d, IsDocument(d), NEW c, IsEditing(c), NEW today \in Int
    PROVE  LET f == Outcome(d, c, today).doc IN
           /\ IsDocument(f)
           /\ d.serial # Unset => f.serial \in Int /\ f.serial >= d.serial
           /\ f.records = IF c.op = "bump-serial" THEN d.records ELSE Edited(d, c).doc.records
<1>1. CASE c.op = "bump-serial"
    BY <1>1, BumpSerial DEF Outcome
<1>2. CASE c.op \in {"add", "delete"}
    <2> DEFINE edit == Edited(d, c)
    <2>1. IsDocument(edit.doc) /\ edit.doc.serial = d.serial
        BY <1>2, EditedIs, CommandAssumption DEF IsEdit, IsEditing
    <2>2. Outcome(d, c, today).doc \in {edit.doc, bump_serial(edit.doc, today)}
        BY <1>2 DEF Outcome, maybe_bump, Edit, Edited
    <2> HIDE DEF edit
    <2>3. CASE Outcome(d, c, today).doc = edit.doc
        BY <1>2, <2>1, <2>3 DEF IsDocument, edit
    <2>4. CASE Outcome(d, c, today).doc = bump_serial(edit.doc, today)
        BY <1>2, <2>1, <2>4, BumpSerial DEF edit
    <2> QED
        BY <2>2, <2>3, <2>4
<1> QED
    BY <1>1, <1>2 DEF IsEditing

\* A command that is run again saves nothing.
LEMMA RunAgain ==
    ASSUME NEW d, IsDocument(d), NEW c, IsEditing(c), c.op # "bump-serial",
           NEW today \in Int, NEW later
    PROVE  ~Outcome(Outcome(d, c, today).doc, c, later).saves
<1> DEFINE f == Outcome(d, c, today).doc
<1>1. IsEdit(c)
    BY CommandAssumption DEF IsEdit, IsEditing
<1>2. Edited(Edited(d, c).doc, c).change = "Unchanged"
    BY <1>1, EditedIs
<1>3. f.records = Edited(d, c).doc.records
    BY OutcomeIs
<1>4. \A g : Outcome(g, c, later).saves <=> Edited(g, c).change # "Unchanged"
    BY DEF Outcome, maybe_bump, Edit, Edited
<1> HIDE DEF f
<1>5. Edited(f, c).change = "Unchanged"
    BY <1>2, <1>3, OnlyRecords DEF Edited
<1> QED
    BY <1>4, <1>5 DEF f

\* Its effect is there to be seen.
LEMMA Applied ==
    ASSUME NEW d, IsDocument(d), NEW c, IsEditing(c), NEW today \in Int
    PROVE  Effective(c, Outcome(d, c, today).doc)
<1> DEFINE f == Outcome(d, c, today).doc
<1>1. CASE c.op = "add"
    <2>1. IsEdit(c)
        BY <1>1, CommandAssumption DEF IsEdit, IsEditing
    <2>2. AreTables(f.records)
        BY OutcomeIs DEF IsDocument
    <2>3. ~Outcome(f, c, today).saves
        BY <1>1, RunAgain
    <2> HIDE DEF f
    <2>4. add(f, c).change = "Unchanged"
        BY <1>1, <2>3 DEF Outcome, maybe_bump, Edit
    <2>5. ToSet(c.values) \subseteq Held(f, c)
        BY <2>1, <2>2, <2>4, UnchangedShows
    <2> QED
        BY <1>1, <2>5 DEF Effective, f
<1>2. CASE c.op = "delete"
    <2>1. ~Outcome(f, c, 0).saves
        BY <1>2, RunAgain
    <2> QED
        BY <1>2, <2>1 DEF Effective
<1>3. CASE c.op = "bump-serial"
    BY <1>3 DEF Effective
<1> QED
    BY <1>1, <1>2, <1>3 DEF IsEditing

\* It stays there through a later command, unless that one undoes it.
LEMMA StillThere ==
    ASSUME NEW d, IsDocument(d), NEW c, IsEditing(c), NEW today \in Int,
           NEW x \in Commands, Effective(x, d), ~Undoes(c, x)
    PROVE  Effective(x, Outcome(d, c, today).doc)
<1> DEFINE f == Outcome(d, c, today).doc
<1>0. /\ f.records = IF c.op = "bump-serial" THEN d.records ELSE Edited(d, c).doc.records
      /\ DOMAIN d = {"serial", "records"} /\ AreTables(d.records)
      /\ c.op \in {"add", "delete"} => IsEdit(c)
      /\ x.op \in {"add", "delete"} => IsEdit(x)
    BY OutcomeIs, CommandAssumption DEF IsDocument, IsEdit, IsEditing
<1> HIDE DEF f
<1>1. CASE x.op = "add"
    <2>1. ToSet(x.values) \subseteq Held(d, x)
        BY <1>1 DEF Effective
    <2>2. ToSet(x.values) \subseteq Held(f, x)
        <3>1. CASE c.op = "bump-serial"
            BY <1>0, <2>1, <3>1, OnlyRecords
        <3>2. CASE c.op = "add"
            <4>1. ToSet(x.values) \subseteq Held(add(d, c).doc, x)
                BY <1>0, <1>1, <2>1, <3>2, AddKeeps DEF Undoes
            <4>2. f.records = add(d, c).doc.records
                BY <1>0, <3>2 DEF Edited
            <4> QED
                BY <4>1, <4>2, OnlyRecords
        <3>3. CASE c.op = "delete"
            <4>1. ToSet(x.values) \subseteq Held(remove(d, c).doc, x)
                BY <1>0, <1>1, <2>1, <3>3, RemoveKeeps DEF Undoes
            <4>2. f.records = remove(d, c).doc.records
                BY <1>0, <3>3 DEF Edited
            <4> QED
                BY <4>1, <4>2, OnlyRecords
        <3> QED
            BY <3>1, <3>2, <3>3 DEF IsEditing
    <2> QED
        BY <1>1, <2>2 DEF Effective, f
<1>2. CASE x.op = "delete"
    <2>1. \A g : Effective(x, g) <=> remove(g, x).change = "Unchanged"
        BY <1>2 DEF Effective, Outcome, maybe_bump, Edit
    <2>2. CASE c.op = "bump-serial"
        BY <1>0, <2>1, <2>2, OnlyRecords DEF f
    <2>3. CASE c.op = "delete"
        <3>1. remove(remove(d, c).doc, x).change = "Unchanged"
            BY <1>0, <1>2, <2>1, <2>3, RemoveTwice
        <3>2. f.records = remove(d, c).doc.records
            BY <1>0, <2>3 DEF Edited
        <3> QED
            BY <2>1, <3>1, <3>2, OnlyRecords DEF f
    <2>4. CASE c.op = "add"
        <3>1. \A g : remove(g, x).change = "Unchanged" <=> \A t \in ToSet(g.records) : ~Cut(t, x)
            BY DEF remove, Edit
        <3>2. \A t \in ToSet(add(d, c).doc.records) : ~Cut(t, x)
            BY <1>0, <1>2, <2>1, <2>4, <3>1, AddLeavesGone DEF Undoes
        <3>3. f.records = add(d, c).doc.records
            BY <1>0, <2>4 DEF Edited
        <3> QED
            BY <2>1, <3>1, <3>2, <3>3 DEF f
    <2> QED
        BY <2>2, <2>3, <2>4 DEF IsEditing
<1>3. CASE x.op \notin {"add", "delete"}
    BY <1>3 DEF Effective
<1> QED
    BY <1>1, <1>2, <1>3

-----------------------------------------------------------------------------
(* What a step of one process can change. *)

\* A step of one process.
Process(e) == Step(e) \/ Kill(e)

\* A process changes what is its own, the temporary name it tries and the
\* file's name.
LEMMA OnlyItsOwn ==
    ASSUME TypeOK, NEW e \in Editors, Process(e)
    PROVE  /\ \A f \in Editors \ {e} :
                 /\ pc'[f] = pc[f] /\ doc'[f] = doc[f] /\ attempt'[f] = attempt[f]
                 /\ result'[f] = result[f] /\ readAfter'[f] = readAfter[f]
           /\ \A i \in Inodes \ {e} :
                 content'[i] = content[i] /\ mode'[i] = mode[i] /\ synced'[i] = synced[i]
<1> USE DEF TypeOK, FilesOK, ProcessOK, HistoryOK, Goto, Quit, report, Fails, Render, files, process, history, Inodes
<1>1. CASE InitCommand(e)
    BY <1>1 DEF InitCommand
<1>2. CASE ReadCommand(e)
    BY <1>2 DEF ReadCommand
<1>3. CASE EditCommand(e)
    BY <1>3 DEF EditCommand
<1>4. CASE CreateTemp(e)
    BY <1>4 DEF CreateTemp
<1>5. CASE preserve_mode(e)
    BY <1>5 DEF preserve_mode
<1>6. CASE WriteAll(e)
    BY <1>6 DEF WriteAll
<1>7. CASE SyncAll(e)
    BY <1>7 DEF SyncAll
<1>8. CASE Rename(e)
    BY <1>8 DEF Rename
<1>9. CASE CleanUp(e)
    BY <1>9 DEF CleanUp
<1>10. CASE sync_dir(e)
    BY <1>10 DEF sync_dir
<1>11. CASE Kill(e)
    BY <1>11 DEF Kill
<1> QED
    BY <1>1, <1>2, <1>3, <1>4, <1>5, <1>6, <1>7, <1>8, <1>9, <1>10, <1>11
    DEF Process, Step

\* Every step of a process keeps the types.
LEMMA StepType ==
    ASSUME TypeOK, NEW e \in Editors, Process(e)
    PROVE  TypeOK'
<1> USE DEF Process, Step, InitCommand, ReadCommand, EditCommand, CreateTemp,
        preserve_mode, WriteAll, SyncAll, Rename, CleanUp, sync_dir, Kill, Goto, Quit,
        report, Fails, Render, files, process, history
<1>1. FilesOK'
    <2>1. (target \in Inodes \cup {None} /\ ondisk \in Inodes \cup {None})'
        BY DEF TypeOK, FilesOK, Inodes
    <2>2. (temps \in [Attempts -> Editors \cup {None}])'
        <3>1. temps' \in {temps, [temps EXCEPT ![attempt[e]] = e],
                          [temps EXCEPT ![attempt[e]] = None]}
            OBVIOUS
        <3> QED
            BY ONLY <3>1, TypeOK, e \in Editors DEF TypeOK, FilesOK, ProcessOK
    <2>3. (content = [i \in Inodes |-> content[i]])'
        <3>1. content' \in {content, [content EXCEPT ![e] = Torn],
                            [content EXCEPT ![e] = Whole(doc[e])]}
            OBVIOUS
        <3> QED
            BY ONLY <3>1, TypeOK, e \in Editors DEF TypeOK, FilesOK, Inodes
    <2>4. (synced \in [Inodes -> BOOLEAN])'
        BY DEF TypeOK, FilesOK
    <2>5. (mode \in [Inodes -> {"0640", "umask"}])'
        <3>1. \/ mode' \in {mode, [mode EXCEPT ![e] = mode[e]]}
              \/ target # None /\ mode' = [mode EXCEPT ![e] = mode[target]]
            OBVIOUS
        <3> QED
            BY ONLY <3>1, TypeOK, e \in Editors DEF TypeOK, FilesOK, Inodes
    <2> QED
        BY ONLY <2>1, <2>2, <2>3, <2>4, <2>5 DEF FilesOK
<1>2. ProcessOK'
    <2>1. (pc \in [Editors -> Pcs])'
        BY DEF TypeOK, ProcessOK, Pcs
    <2>2. (doc = [f \in Editors |-> doc[f]])'
        BY DEF TypeOK, ProcessOK
    <2>3. (attempt \in [Editors -> Attempts])'
        <3>1. \/ attempt' = attempt
              \/ /\ attempt[e] < TEMP_NAME_ATTEMPTS - 1
                 /\ attempt' = [attempt EXCEPT ![e] = attempt[e] + 1]
            OBVIOUS
        <3>2. attempt[e] \in Attempts
            BY ONLY TypeOK, e \in Editors DEF TypeOK, ProcessOK
        <3>3. attempt[e] < TEMP_NAME_ATTEMPTS - 1 => attempt[e] + 1 \in Attempts
            BY ONLY <3>2, EditorAssumption DEF Attempts
        <3> QED
            BY ONLY <3>1, <3>3, TypeOK, e \in Editors DEF TypeOK, ProcessOK
    <2>4. (result \in [Editors -> Results])'
        BY DEF TypeOK, ProcessOK, Results
    <2>5. (cmd \in [Editors -> Commands])'
        BY DEF TypeOK, ProcessOK
    <2> QED
        BY ONLY <2>1, <2>2, <2>3, <2>4, <2>5 DEF ProcessOK
<1>3. HistoryOK'
    <2>1. /\ losses' = losses
          /\ log' \in {log, Append(log, e)}
          /\ readAfter' \in {readAfter, [readAfter EXCEPT ![e] = Len(log)]}
          /\ blind' \in {blind, blind \cup {e}}
        OBVIOUS
    <2>2. Len(log) \in Nat /\ Append(log, e) \in Seq(Editors)
        BY ONLY TypeOK, e \in Editors DEF TypeOK, HistoryOK
    <2> QED
        BY ONLY <2>1, <2>2, TypeOK, e \in Editors DEF TypeOK, HistoryOK
<1> QED
    BY ONLY <1>1, <1>2, <1>3 DEF TypeOK

-----------------------------------------------------------------------------
(* The parts of the invariant. *)

\* A step takes or frees a temporary name only if it is free or the process's
\* own, so nobody's file is written or renamed by another.
LEMMA StepTemps ==
    ASSUME TypeOK, TempInv, NEW e \in Editors, Process(e)
    PROVE  TempInv'
<1> USE DEF Goto, files, process, history, report
<1>0. /\ pc \in [Editors -> Pcs]
      /\ temps \in [Attempts -> Editors \cup {None}]
      /\ attempt \in [Editors -> Attempts]
      /\ result = [f \in Editors |-> result[f]]
      /\ None \notin Editors
    BY EditorAssumption DEF TypeOK, FilesOK, ProcessOK
<1>1. \A f \in Editors \ {e} :
          pc'[f] = pc[f] /\ attempt'[f] = attempt[f] /\ result'[f] = result[f]
    BY OnlyItsOwn
<1>2. \A a \in Attempts :
          \/ temps'[a] = temps[a]
          \/ a = attempt[e] /\ temps[a] \in {e, None} /\ temps'[a] \in {e, None}
    <2>1. CASE temps' = temps
        BY <2>1
    <2>2. CASE CreateTemp(e)
        BY <1>0, <2>2 DEF CreateTemp, Quit
    <2>3. CASE Rename(e) \/ CleanUp(e)
        BY <1>0, <2>3 DEF Rename, Fails, CleanUp, TempInv, TempIsOurs
    <2> QED
        BY <2>1, <2>2, <2>3 DEF Process, Step, InitCommand, ReadCommand, EditCommand,
            preserve_mode, WriteAll, SyncAll, sync_dir, Kill, Quit, Render, Fails
<1>3. ASSUME NEW f \in Editors \ {e}, pc'[f] \in Holding
      PROVE  temps'[attempt'[f]] = f
    BY <1>0, <1>1, <1>2, <1>3 DEF TempInv, TempIsOurs, Holding
<1>4. ASSUME pc'[e] \in Holding
      PROVE  temps'[attempt'[e]] = e
    <2>1. CASE CreateTemp(e)
        BY <1>0, <1>4, <2>1 DEF CreateTemp, Quit, Holding
    <2>2. CASE /\ temps' = temps /\ attempt' = attempt
               /\ pc[e] \in Holding
        BY <2>2 DEF TempInv, TempIsOurs, Holding
    <2>3. CASE pc'[e] \notin Holding
        BY <1>4, <2>3
    <2> QED
        BY <1>0, <2>1, <2>2, <2>3 DEF Process, Step, InitCommand, ReadCommand, EditCommand,
            preserve_mode, WriteAll, SyncAll, Rename, CleanUp, sync_dir, Kill, Quit,
            Render, Fails, Holding
<1>5. ASSUME NEW a \in Attempts, temps'[a] # None, temps'[a] # e
      PROVE  AccountedFor(a)'
    <2>1. temps'[a] = temps[a] /\ temps[a] \in Editors \ {e}
        BY <1>0, <1>2, <1>5
    <2>2. AccountedFor(a)
        BY DEF TempInv
    <2> QED
        BY <1>1, <1>5, <2>1, <2>2 DEF AccountedFor
<1>6. ASSUME NEW a \in Attempts, temps'[a] = e
      PROVE  AccountedFor(a)'
    <2>0. temps[a] = e => AccountedFor(a)
        BY DEF TempInv
    <2>1. CASE CreateTemp(e)
        <3>1. pc[e] = "create" /\ temps[a] # e
            BY <1>0, <1>6, <2>0, <2>1 DEF CreateTemp, Quit, AccountedFor, Holding
        <3>2. temps' = [temps EXCEPT ![attempt[e]] = e] /\ pc'[e] = "mode" /\ attempt' = attempt
            BY <1>0, <1>6, <2>1, <3>1 DEF CreateTemp, Quit
        <3> QED
            BY <1>0, <1>6, <3>1, <3>2 DEF AccountedFor, Holding
    <2>2. CASE Rename(e)
        <3>1. temps[a] = e /\ a = attempt[e]
            BY <1>0, <1>2, <1>6, <2>0, <2>2 DEF Rename, Fails, AccountedFor, Holding
        <3>2. Fails(e, "rename")
            BY <1>0, <1>6, <2>2, <3>1 DEF Rename
        <3> QED
            BY <1>0, <1>6, <3>1, <3>2 DEF Fails, AccountedFor, Holding
    <2>3. CASE CleanUp(e)
        <3>1. temps[a] = e /\ a = attempt[e]
            BY <1>0, <1>2, <1>6, <2>0, <2>3 DEF CleanUp, AccountedFor, Holding
        <3>2. pc'[e] = "done" /\ result'[e] = "failed, not removed"
            BY <1>0, <1>6, <2>3, <3>1 DEF CleanUp
        <3> QED
            BY <1>6, <3>2 DEF AccountedFor
    <2>4. CASE InitCommand(e) \/ ReadCommand(e) \/ EditCommand(e)
        BY <1>0, <1>6, <2>0, <2>4 DEF InitCommand, ReadCommand, EditCommand, Quit, Render, AccountedFor, Holding
    <2>5. CASE preserve_mode(e) \/ WriteAll(e) \/ SyncAll(e)
        BY <1>0, <1>6, <2>0, <2>5 DEF preserve_mode, WriteAll, SyncAll, Fails, AccountedFor, Holding
    <2>6. CASE sync_dir(e) \/ Kill(e)
        BY <1>0, <1>6, <2>0, <2>6 DEF sync_dir, Kill, AccountedFor, Holding
    <2> QED
        BY <2>1, <2>2, <2>3, <2>4, <2>5, <2>6 DEF Process, Step
<1>7. TempIsOurs'
    BY <1>3, <1>4 DEF TempIsOurs, Holding
<1>8. \A a \in Attempts : AccountedFor(a)'
    BY <1>5, <1>6 DEF AccountedFor
<1> QED
    BY ONLY <1>7, <1>8 DEF TempInv

\* The contents of a file change under the hands of its process only, and
\* are durable before the rename.
LEMMA StepContent ==
    ASSUME TypeOK, ContentInv, NEW e \in Editors, Process(e)
    PROVE  ContentInv'
<1> USE DEF Goto, files, process, history, report
<1>0. /\ pc \in [Editors -> Pcs]
      /\ content = [i \in Inodes |-> content[i]]
      /\ synced \in [Inodes -> BOOLEAN]
      /\ doc = [f \in Editors |-> doc[f]]
      /\ e \in Inodes /\ Original \in Inodes \ {e}
    BY EditorAssumption DEF TypeOK, FilesOK, ProcessOK, Inodes
<1>1. /\ \A f \in Editors \ {e} : pc'[f] = pc[f] /\ doc'[f] = doc[f]
      /\ \A i \in Inodes \ {e} : content'[i] = content[i] /\ synced'[i] = synced[i]
    BY OnlyItsOwn
<1>2. content'[Original] # Torn /\ synced'[Original]
    BY <1>0, <1>1 DEF ContentInv
<1>3. ASSUME NEW f \in Editors \ {e} PROVE ContentOf(f)'
    BY <1>1 DEF ContentInv, ContentOf, Inodes
<1>4. ContentOf(e)'
    <2>0. ContentOf(e)
        BY DEF ContentInv
    <2>1. CASE InitCommand(e) \/ ReadCommand(e) \/ EditCommand(e)
        <3>1. /\ pc[e] = "new" /\ pc'[e] \in {"create", "done"}
              /\ content' = content /\ synced' = synced
            BY <1>0, <2>1 DEF InitCommand, ReadCommand, EditCommand, Quit, Render
        <3> QED
            BY <2>0, <3>1 DEF ContentOf
    <2>2. CASE CreateTemp(e)
        BY <1>0, <2>0, <2>2 DEF CreateTemp, Quit, ContentOf
    <2>3. CASE preserve_mode(e)
        BY <1>0, <2>0, <2>3 DEF preserve_mode, Fails, ContentOf
    <2>4. CASE WriteAll(e)
        <3>1. /\ pc[e] = "write" /\ synced' = synced /\ doc' = doc
              /\ \/ content'[e] = Torn /\ pc'[e] = "cleanup"
                 \/ content'[e] = Whole(doc[e]) /\ pc'[e] = "sync"
            BY <1>0, <2>4, Contents DEF WriteAll
        <3> QED
            BY <2>0, <3>1, Contents DEF ContentOf
    <2>5. CASE SyncAll(e)
        BY <1>0, <2>0, <2>5 DEF SyncAll, Fails, ContentOf
    <2>6. CASE Rename(e)
        BY <1>0, <2>0, <2>6 DEF Rename, Fails, ContentOf
    <2>7. CASE CleanUp(e) \/ sync_dir(e) \/ Kill(e)
        BY <1>0, <2>0, <2>7 DEF CleanUp, sync_dir, Kill, ContentOf
    <2> QED
        BY <2>1, <2>2, <2>3, <2>4, <2>5, <2>6, <2>7 DEF Process, Step
<1> QED
    BY <1>2, <1>3, <1>4 DEF ContentInv

\* The histories only grow, and a process that renames is in the log.
LEMMA HistoryGrows ==
    ASSUME TypeOK, NEW e \in Editors, Process(e)
    PROVE  /\ ToSet(log) \subseteq ToSet(log') /\ blind \subseteq blind'
           /\ \A f \in Editors : Unmasked(f) => Unmasked(f)'
           /\ target' = target \/ (target' = e /\ e \in ToSet(log'))
<1>1. \/ log' = log /\ target' = target
      \/ log' = Append(log, e) /\ target' = e
    BY DEF Process, Step, InitCommand, ReadCommand, EditCommand, CreateTemp, preserve_mode,
        WriteAll, SyncAll, Rename, CleanUp, sync_dir, Kill, Quit, Render, Fails, files,
        process, history
<1>2. ToSet(Append(log, e)) = ToSet(log) \cup {e}
    <2>1. log \in Seq(Editors)
        BY DEF TypeOK, HistoryOK
    <2>2. Len(log) \in Nat /\ DOMAIN log = 1 .. Len(log)
          /\ log = [i \in 1 .. Len(log) |-> log[i]]
        BY <2>1
    <2>3. log \in Seq(ToSet(log))
        BY <2>2 DEF ToSet
    <2> QED
        BY <2>3, Appended, Zenon
<1>3. blind \subseteq blind'
    BY DEF Process, Step, InitCommand, ReadCommand, EditCommand, CreateTemp, preserve_mode,
        WriteAll, SyncAll, Rename, CleanUp, sync_dir, Kill, Quit, Render, Fails, files,
        process, history
<1>4. ToSet(log) \subseteq ToSet(log')
    BY <1>1, <1>2
<1> QED
    BY <1>1, <1>2, <1>3, <1>4 DEF Unmasked

\* Only a file that has been synced gets the file's name.
LEMMA StepNames ==
    ASSUME TypeOK, ContentInv, NameInv(target), NameInv(ondisk),
           NEW e \in Editors, Process(e)
    PROVE  NameInv(target)' /\ NameInv(ondisk)'
<1> USE DEF Goto, files, process, history, report
<1>0. /\ pc \in [Editors -> Pcs]
      /\ e \in Inodes /\ Original \in Inodes \ {e} /\ None \notin Inodes
      /\ ContentOf(e)
    BY EditorAssumption DEF TypeOK, FilesOK, ProcessOK, Inodes, ContentInv
<1>1. /\ \A f \in Editors \ {e} : pc'[f] = pc[f]
      /\ \A i \in Inodes \ {e} : content'[i] = content[i] /\ synced'[i] = synced[i]
      /\ \A f \in ToSet(log) : f \in ToSet(log')
    BY OnlyItsOwn, HistoryGrows
<1>2. ASSUME NEW i, NameInv(i) PROVE (NameInv(i))'
    <2>1. CASE i = e
        <3>1. synced[e] /\ pc[e] \in {"syncDir", "done", "dead"} /\ e \in ToSet(log)
            BY <1>2, <2>1 DEF NameInv
        <3>2. synced' = synced /\ pc'[e] \in {"syncDir", "done", "dead"}
            BY <1>0, <3>1 DEF Process, Step, InitCommand, ReadCommand, EditCommand,
                CreateTemp, preserve_mode, WriteAll, SyncAll, Rename, CleanUp,
                sync_dir, Kill, Quit, Render, Fails
        <3> QED
            BY <1>0, <1>1, <2>1, <3>1, <3>2 DEF NameInv, Inodes
    <2>2. CASE i # e
        BY <1>0, <1>1, <1>2, <2>2 DEF NameInv, Inodes
    <2> QED
        BY <2>1, <2>2
<1>3. target' = target \/ (target' = e /\ synced'[e] /\ pc'[e] = "syncDir")
    <2>1. CASE Rename(e)
        BY <1>0, <2>1 DEF Rename, Fails, ContentOf
    <2> QED
        BY <2>1 DEF Process, Step, InitCommand, ReadCommand, EditCommand,
            CreateTemp, preserve_mode, WriteAll, SyncAll, CleanUp, sync_dir, Kill,
            Quit, Render, Fails
<1>4. ondisk' \in {ondisk, target}
    BY DEF Process, Step, InitCommand, ReadCommand, EditCommand, CreateTemp,
        preserve_mode, WriteAll, SyncAll, Rename, CleanUp, sync_dir, Kill, Quit,
        Render, Fails
<1>5. (NameInv(target))'
    BY <1>0, <1>2, <1>3, HistoryGrows DEF NameInv, Inodes
<1>6. (NameInv(ondisk))'
    BY <1>2, <1>4 DEF NameInv
<1> QED
    BY <1>5, <1>6

\* Before a process writes it has the mode of the file it will replace, and
\* that file has the original's.
LEMMA StepMode ==
    ASSUME TypeOK, ContentInv, NameInv(target), ModeInv, NEW e \in Editors, Process(e)
    PROVE  ModeInv'
<1> USE DEF Goto, files, process, history, report
<1>0. /\ pc \in [Editors -> Pcs]
      /\ content = [i \in Inodes |-> content[i]]
      /\ mode \in [Inodes -> {"0640", "umask"}]
      /\ target \in Inodes \cup {None}
      /\ e \in Inodes /\ Original \in Inodes \ {e}
      /\ ContentOf(e)
    BY EditorAssumption DEF TypeOK, FilesOK, ProcessOK, Inodes, ContentInv
<1>1. /\ \A f \in Editors \ {e} : pc'[f] = pc[f]
      /\ \A i \in Inodes \ {e} : content'[i] = content[i] /\ mode'[i] = mode[i]
      /\ \A f \in Editors : Unmasked(f) => Unmasked(f)'
    BY OnlyItsOwn, HistoryGrows
<1>2. SUFFICES ASSUME content[Original] # Empty PROVE \A f \in Editors : ModeOf(f)'
    BY <1>0, <1>1 DEF ModeInv
<1>3. \A f \in Editors : ModeOf(f)
    BY <1>2 DEF ModeInv
<1>4. ASSUME NEW f \in Editors \ {e} PROVE ModeOf(f)'
    BY <1>0, <1>1, <1>3 DEF ModeOf, Inodes
<1>5. ModeOf(e)'
    <2>1. CASE preserve_mode(e)
        <3>1. target # None /\ (mode[target] = mode[Original] \/ Unmasked(e))
            <4>1. CASE target \in Editors
                <5>1. mode[target] = mode[Original] \/ Unmasked(target)
                    BY <1>2, <1>3, <4>1, Contents DEF NameInv, ContentInv, ContentOf, ModeOf
                <5>2. target \in ToSet(log)
                    BY <4>1 DEF NameInv
                <5> QED
                    BY <4>1, <5>1, <5>2, EditorAssumption DEF Unmasked
            <4> QED
                BY <1>0, <1>2, <4>1 DEF NameInv, Inodes
        <3>2. CASE Fails(e, "mode")
            BY <1>0, <3>2 DEF Fails, ContentOf, ModeOf
        <3>3. CASE mode'[e] = mode[target]
            BY <1>0, <1>1, <3>1, <3>3 DEF ModeOf
        <3>4. CASE e \in blind'
            BY <3>4 DEF ModeOf, Unmasked
        <3> QED
            BY <1>0, <2>1, <3>1, <3>2, <3>3, <3>4 DEF preserve_mode
    <2>2. CASE WriteAll(e)
        BY <1>0, <1>1, <1>3, <2>2 DEF WriteAll, ModeOf
    <2>3. CASE InitCommand(e) \/ ReadCommand(e) \/ EditCommand(e)
        BY <1>0, <1>1, <1>3, <2>3 DEF InitCommand, ReadCommand, EditCommand, Quit, Render, ModeOf
    <2>4. CASE CreateTemp(e)
        BY <1>0, <1>1, <1>3, <2>4 DEF CreateTemp, Quit, ModeOf
    <2>5. CASE SyncAll(e) \/ Rename(e)
        BY <1>0, <1>1, <1>3, <2>5 DEF SyncAll, Rename, Fails, ModeOf
    <2>6. CASE CleanUp(e) \/ sync_dir(e) \/ Kill(e)
        BY <1>0, <1>1, <1>3, <2>6 DEF CleanUp, sync_dir, Kill, ModeOf
    <2> QED
        BY <2>1, <2>2, <2>3, <2>4, <2>5, <2>6 DEF Process, Step
<1> QED
    BY <1>4, <1>5

\* What is read is a document, and what is rendered from it no older.
LEMMA RenderIsNoOlder ==
    ASSUME TypeOK, ContentInv, NameInv(target), SerialInv, NEW e \in Editors, NEW d,
           \/ target = None /\ d = Starter
           \/ /\ Readable /\ cmd[e].op \in {"add", "delete", "bump-serial"}
              /\ \E day \in Days :
                    d = Outcome(content[target].doc, cmd[e], ymd_from_unix_days(day)).doc
    PROVE  IsDocument(d) /\ (target # None => NoOlder(d, content[target].doc))
<1>1. CASE target = None /\ d = Starter
    <2>1. d.serial \in Nat \cup {Unset} => d.serial \in Int \cup {Unset}
        OBVIOUS
    <2> QED
        BY <1>1, <2>1, DocumentAssumption DEF IsDocument
<1>2. CASE /\ Readable /\ cmd[e].op \in {"add", "delete", "bump-serial"}
           /\ \E day \in Days :
                 d = Outcome(content[target].doc, cmd[e], ymd_from_unix_days(day)).doc
    <2>1. PICK day \in Days :
              d = Outcome(content[target].doc, cmd[e], ymd_from_unix_days(day)).doc
        BY <1>2
    <2>2. ymd_from_unix_days(day) \in Int
        BY YmdInt, EditorAssumption
    <2>3. target \in Inodes /\ content[target] \notin {Empty, Torn}
        BY <1>2, Contents DEF Readable, TypeOK, FilesOK, NameInv, ContentInv,
            ContentOf, Inodes
    <2>4. IsDocument(content[target].doc)
        BY <2>3 DEF SerialInv
    <2>5. IsEditing(cmd[e])
        BY <1>2 DEF IsEditing, TypeOK, ProcessOK
    <2> QED
        BY <2>1, <2>2, <2>4, <2>5, OutcomeIs DEF NoOlder
<1> QED
    BY <1>1, <1>2

\* A replacement in between is seen in the log, and only a replacement
\* changes the file.
LEMMA StepSerial ==
    ASSUME TypeOK, ContentInv, NameInv(target), SerialInv, NEW e \in Editors, Process(e)
    PROVE  SerialInv'
<1> USE DEF Goto, files, process, history, report
<1>0. /\ pc \in [Editors -> Pcs]
      /\ content = [i \in Inodes |-> content[i]]
      /\ doc = [f \in Editors |-> doc[f]]
      /\ target \in Inodes \cup {None}
      /\ e \in Inodes /\ Original \in Inodes \ {e} /\ None \notin Inodes
      /\ readAfter \in [Editors -> Nat] /\ log \in Seq(Editors) /\ Len(log) \in Nat
      /\ ContentOf(e) /\ SerialOf(e)
    <2>1. readAfter \in [Editors -> Nat] /\ log \in Seq(Editors) /\ Len(log) \in Nat
        BY DEF TypeOK, HistoryOK
    <2>2. ContentOf(e) /\ SerialOf(e)
        BY DEF ContentInv, SerialInv
    <2> QED
        BY <2>1, <2>2, EditorAssumption DEF TypeOK, FilesOK, ProcessOK, Inodes
<1>1. /\ \A f \in Editors \ {e} :
            pc'[f] = pc[f] /\ doc'[f] = doc[f] /\ readAfter'[f] = readAfter[f]
      /\ \A i \in Inodes \ {e} : content'[i] = content[i]
    BY OnlyItsOwn
<1>2. \/ log' = log /\ target' = target
      \/ log' = Append(log, e) /\ pc'[e] = "syncDir" /\ readAfter' = readAfter
    <2>1. CASE Rename(e)
        BY <1>0, <2>1 DEF Rename, Fails
    <2> QED
        BY <2>1 DEF Process, Step, InitCommand, ReadCommand, EditCommand, CreateTemp,
            preserve_mode, WriteAll, SyncAll, CleanUp, sync_dir, Kill, Quit, Render,
            Fails
<1>3. /\ Len(log') \in Nat /\ Len(log) <= Len(log')
      /\ Len(log') = Len(log) => log' = log
    <2>1. Append(log, e) \in Seq(Editors) /\ Len(Append(log, e)) = Len(log) + 1
        BY <1>0
    <2> QED
        BY <1>0, <1>2, <2>1
<1>4. \/ content' = content
      \/ pc[e] = "write" /\ content' = [content EXCEPT ![e] = Torn]
      \/ pc[e] = "write" /\ content' = [content EXCEPT ![e] = Whole(doc[e])]
    BY DEF Process, Step, InitCommand, ReadCommand, EditCommand, CreateTemp,
        preserve_mode, WriteAll, SyncAll, Rename, CleanUp, sync_dir, Kill, Quit,
        Render, Fails
<1>5. target # None => content'[target] = content[target]
    BY <1>0, <1>1, <1>4 DEF NameInv, Inodes
<1>6. ASSUME NEW i \in Inodes, content'[i] \notin {Empty, Torn}
      PROVE  IsDocument(content'[i].doc)
    <2>1. CASE content'[i] = content[i]
        BY <1>6, <2>1 DEF SerialInv
    <2>2. CASE pc[e] = "write" /\ content'[i] = Whole(doc[e])
        BY <1>0, <2>2, Contents DEF SerialOf, Editing
    <2> QED
        BY <1>0, <1>1, <1>4, <1>6, <2>1, <2>2
<1>7. ASSUME NEW f \in Editors \ {e} PROVE SerialOf(f)'
    <2>1. SerialOf(f) /\ readAfter[f] \in Nat
        BY <1>0 DEF SerialInv
    <2>2. CASE log' = log /\ target' = target
        BY <1>1, <1>5, <2>1, <2>2 DEF SerialOf
    <2>3. CASE log' # log
        BY <1>0, <1>1, <1>3, <2>1, <2>3 DEF SerialOf
    <2> QED
        BY <1>2, <1>3, <2>2, <2>3
<1>8. SerialOf(e)'
    <2>1. ASSUME NEW d, Render(e, d), InitCommand(e) \/ EditCommand(e),
                 IsDocument(d), target # None => NoOlder(d, content[target].doc)
          PROVE  SerialOf(e)'
        <3>1. /\ doc'[e] = d /\ pc'[e] = "create" /\ readAfter'[e] = Len(log)
              /\ log' = log /\ target' = target /\ content' = content
            BY <1>0, <2>1 DEF Render
        <3> QED
            BY <1>0, <2>1, <3>1 DEF SerialOf
    <2>2. CASE pc'[e] \notin Editing /\ readAfter'[e] = readAfter[e]
        BY <1>0, <1>3, <2>2 DEF SerialOf
    <2>3. CASE /\ pc[e] \in Editing /\ doc'[e] = doc[e] /\ log' = log
               /\ target' = target /\ readAfter'[e] = readAfter[e]
        BY <1>0, <1>5, <2>3 DEF SerialOf
    <2>4. CASE InitCommand(e)
        <3>1. CASE target = None /\ Render(e, Starter)
            BY <2>1, <2>4, <3>1, RenderIsNoOlder
        <3>2. CASE Quit(e, "new", "exists")
            BY <1>0, <2>2, <3>2 DEF Quit, Editing
        <3> QED
            BY <2>4, <3>1, <3>2 DEF InitCommand
    <2>5. CASE EditCommand(e)
        <3>0. cmd[e].op \in {"add", "delete", "bump-serial"}
            BY <2>5 DEF EditCommand
        <3>1. ASSUME NEW day \in Days, Readable,
                     Render(e, Outcome(content[target].doc, cmd[e],
                                       ymd_from_unix_days(day)).doc)
              PROVE  SerialOf(e)'
            BY <2>1, <2>5, <3>0, <3>1, RenderIsNoOlder
        <3>2. CASE pc[e] = "new" /\ pc'[e] = "done" /\ readAfter' = readAfter
            BY <2>2, <3>2 DEF Editing
        <3> QED
            BY <1>0, <2>5, <3>1, <3>2 DEF EditCommand, Quit
    <2>6. CASE CreateTemp(e) \/ preserve_mode(e) \/ SyncAll(e)
        BY <1>0, <2>2, <2>3, <2>6 DEF CreateTemp, preserve_mode, SyncAll, Quit, Fails,
            Editing
    <2>7. CASE WriteAll(e)
        BY <1>0, <2>2, <2>3, <2>7 DEF WriteAll, Editing
    <2>8. CASE ReadCommand(e) \/ Rename(e) \/ CleanUp(e) \/ sync_dir(e) \/ Kill(e)
        BY <1>0, <2>2, <2>8 DEF ReadCommand, Rename, CleanUp, sync_dir, Kill, Quit,
            Fails, Editing
    <2> QED
        BY <2>4, <2>5, <2>6, <2>7, <2>8 DEF Process, Step
<1> QED
    BY <1>6, <1>7, <1>8 DEF SerialInv

-----------------------------------------------------------------------------
(* Effects. *)

\* A place is that of the process, or 0.
LEMMA Places ==
    ASSUME NEW s \in Seq(Editors), NEW e
    PROVE  PlaceIn(s, e) \in 0 .. Len(s)
<1> DEFINE I == {i \in 1 .. Len(s) : s[i] = e}
<1>1. PlaceIn(s, e) = IF I # {} THEN Min(I) ELSE 0
    BY DEF PlaceIn, SelectInSeq
<1>2. I \subseteq Nat /\ Len(s) \in Nat /\ I \subseteq 0 .. Len(s)
    OBVIOUS
<1> HIDE DEF I
<1>3. I # {} => Min(I) \in I
    BY <1>2, Least
<1>4. CASE I # {}
    BY <1>1, <1>2, <1>3, <1>4
<1>5. CASE I = {}
    BY <1>1, <1>2, <1>5
<1> QED
    BY <1>4, <1>5

\* A replacement by a process that has made none comes last.
LEMMA NextPlace ==
    ASSUME NEW s \in Seq(Editors), NEW e \in Editors, e \notin ToSet(s)
    PROVE  /\ PlaceIn(Append(s, e), e) = Len(s) + 1
           /\ \A f : f # e => PlaceIn(Append(s, e), f) = PlaceIn(s, f)
<1> DEFINE q == Append(s, e)
           I(r, f) == {i \in 1 .. Len(r) : r[i] = f}
<1>1. \A r, f : PlaceIn(r, f) = IF I(r, f) # {} THEN Min(I(r, f)) ELSE 0
    BY DEF PlaceIn, SelectInSeq
<1>2. /\ Len(s) \in Nat /\ Len(q) = Len(s) + 1 /\ q[Len(s) + 1] = e
      /\ \A i \in 1 .. Len(s) : q[i] = s[i] /\ s[i] # e
    BY DEF ToSet
<1> HIDE DEF q
<1>3. I(q, e) = {Len(s) + 1}
    BY <1>2
<1>4. Min({Len(s) + 1}) = Len(s) + 1
    <2>1. {Len(s) + 1} # {} /\ {Len(s) + 1} \subseteq Nat
        BY <1>2
    <2> QED
        BY <2>1, Least
<1>5. \A f : f # e => I(q, f) = I(s, f)
    BY <1>2
<1> HIDE DEF I
<1> QED
    BY <1>1, <1>3, <1>4, <1>5 DEF q

\* A step that renders and renames nothing, and leaves the file's name with a
\* file it had, in memory or on disk.
LEMMA QuietKeeps ==
    ASSUME TypeOK, EffectInv,
           UNCHANGED <<cmd, doc, log, readAfter>>,
           target' \in {target, ondisk}, ondisk' \in {ondisk, target},
           target # None => content'[target] = content[target],
           ondisk # None => content'[ondisk] = content[ondisk],
           \A e \in Editors :
               /\ Lasting(e)' => Lasting(e) /\ (target' = target \/ result[e] = "saved")
               /\ result'[e] = "saved" =>
                     /\ pc'[e] = "done"
                     /\ result[e] = "saved" \/ (Lasting(e) /\ ondisk' = target)
               /\ pc'[e] \in Editing => pc[e] \in Editing
               /\ PastRename(e) => PastRename(e)'
    PROVE  EffectInv'
<1>1. \A e \in Editors : Undone(e)' <=> Undone(e)
    BY DEF Undone, Place
<1>2. ASSUME NEW e \in Editors, NEW i \in {target, ondisk}, LastsIn(i, e)
      PROVE  i # None /\ (Effective(cmd[e], content'[i].doc) \/ Undone(e)')
    BY <1>1, <1>2 DEF LastsIn
<1>3. ASSUME NEW e \in Editors, Lasting(e)' PROVE LastsIn(target, e)'
    <2>1. LastsIn(target, e) /\ (result[e] = "saved" => LastsIn(ondisk, e))
        BY <1>3 DEF EffectInv
    <2>2. target' = target \/ (target' = ondisk /\ result[e] = "saved")
        BY <1>3
    <2> QED
        BY <1>2, <2>1, <2>2 DEF LastsIn
<1>4. ASSUME NEW e \in Editors, result'[e] = "saved" PROVE LastsIn(ondisk, e)'
    <2>1. CASE result[e] = "saved"
        <3>1. LastsIn(target, e) /\ LastsIn(ondisk, e)
            BY <2>1 DEF EffectInv, Lasting
        <3> QED
            BY <1>2, <3>1 DEF LastsIn
    <2>2. CASE Lasting(e) /\ ondisk' = target
        BY <1>2, <2>2 DEF EffectInv, LastsIn
    <2> QED
        BY <1>4, <2>1, <2>2
<1>5. ASSUME NEW e \in Editors, pc'[e] \in Editing
      PROVE  Effective(cmd[e], doc[e])' /\ \A f \in Editors : BuildsOn(f, e)'
    <2>1. Effective(cmd[e], doc[e]) /\ \A f \in Editors : BuildsOn(f, e)
        BY <1>5 DEF EffectInv
    <2>2. Effective(cmd[e], doc[e])'
        BY <2>1
    <2>3. ASSUME NEW f \in Editors PROVE BuildsOn(f, e)'
        BY <1>1, <2>1 DEF BuildsOn, Place
    <2> QED
        BY <2>2, <2>3
<1>6. ASSUME NEW e \in Editors, e \in ToSet(log') PROVE PastRename(e)'
    BY <1>6 DEF EffectInv
<1> QED
    BY <1>3, <1>4, <1>5, <1>6 DEF EffectInv

\* The read and the edit: what was there to be seen is still seen, or undone
\* by the command itself.
LEMMA RenderEffect ==
    ASSUME TypeOK, ContentInv, NameInv(target), SerialInv, EffectInv,
           NEW e \in Editors, NEW d, Render(e, d),
           \/ target = None /\ d = Starter /\ cmd[e].op = "init"
           \/ /\ Readable /\ cmd[e].op \in {"add", "delete", "bump-serial"}
              /\ \E day \in Days :
                    d = Outcome(content[target].doc, cmd[e], ymd_from_unix_days(day)).doc
    PROVE  EffectInv'
<1> USE DEF files
<1>0. /\ pc \in [Editors -> Pcs] /\ cmd \in [Editors -> Commands]
      /\ doc = [f \in Editors |-> doc[f]] /\ readAfter \in [Editors -> Nat]
      /\ log \in Seq(Editors)
    BY DEF TypeOK, ProcessOK, HistoryOK
<1>1. /\ pc[e] = "new" /\ pc'[e] = "create" /\ doc'[e] = d /\ readAfter'[e] = Len(log)
      /\ \A f \in Editors \ {e} :
            pc'[f] = pc[f] /\ doc'[f] = doc[f] /\ readAfter'[f] = readAfter[f]
      /\ UNCHANGED <<files, cmd, result, log>>
    BY <1>0 DEF Render, Goto
<1>2. e \notin ToSet(log) /\ ~Lasting(e) /\ ~Lasting(e)'
    BY <1>1 DEF EffectInv, PastRename, Lasting
<1>3. ASSUME NEW f \in Editors, Undone(f) PROVE Undone(f)'
    <2>1. \A i \in DOMAIN log : log[i] \in Editors \ {e}
        BY <1>0, <1>2 DEF ToSet
    <2> QED
        BY <1>1, <1>3, <2>1 DEF Undone, Place
<1>4. ASSUME NEW f \in Editors, Lasting(f)' PROVE Lasting(f) /\ f # e
    BY <1>1, <1>2, <1>4 DEF Lasting
<1>5. ASSUME NEW f \in Editors, NEW i, LastsIn(i, f) PROVE LastsIn(i, f)'
    BY <1>1, <1>3, <1>5 DEF LastsIn
<1>6. Effective(cmd[e], d) /\
      \A f \in Editors : Lasting(f) =>
          Effective(cmd[f], d) \/ Undone(f) \/ Undoes(cmd[e], cmd[f])
    <2>1. CASE target = None /\ d = Starter /\ cmd[e].op = "init"
        <3>1. Effective(cmd[e], d)
            BY <2>1 DEF Effective
        <3>2. \A f \in Editors : ~Lasting(f)
            BY <2>1 DEF EffectInv, LastsIn
        <3> QED
            BY <3>1, <3>2
    <2>2. ASSUME NEW day \in Days, Readable, cmd[e].op \in {"add", "delete", "bump-serial"},
                 d = Outcome(content[target].doc, cmd[e], ymd_from_unix_days(day)).doc
          PROVE  <1>6!:
        <3>1. ymd_from_unix_days(day) \in Int
            BY YmdInt, EditorAssumption
        <3>2. target \in Inodes /\ content[target] \notin {Empty, Torn}
            BY <2>2, Contents DEF Readable, TypeOK, FilesOK, NameInv, ContentInv,
                ContentOf, Inodes
        <3>3. IsDocument(content[target].doc)
            BY <3>2 DEF SerialInv
        <3>4. IsEditing(cmd[e]) /\ \A f \in Editors : cmd[f] \in Commands
            BY <1>0, <2>2 DEF IsEditing
        <3>5. Effective(cmd[e], d)
            BY <2>2, <3>1, <3>3, <3>4, Applied
        <3>6. ASSUME NEW f \in Editors, Lasting(f), ~Undone(f), ~Undoes(cmd[e], cmd[f])
              PROVE  Effective(cmd[f], d)
            <4>1. Effective(cmd[f], content[target].doc)
                BY <3>6 DEF EffectInv, LastsIn
            <4> QED
                BY <2>2, <3>1, <3>3, <3>4, <3>6, <4>1, StillThere
        <3> QED
            BY <3>5, <3>6
    <2> QED
        BY <2>1, <2>2
<1>7. ASSUME NEW f \in Editors, NEW g \in Editors, pc'[g] \in Editing PROVE BuildsOn(f, g)'
    <2>1. CASE g = e
        BY <1>1, <1>3, <1>4, <1>6, <2>1 DEF BuildsOn
    <2>2. CASE g # e
        <3>1. BuildsOn(f, g)
            BY <1>1, <1>7, <2>2 DEF EffectInv
        <3> QED
            BY <1>1, <1>3, <1>4, <2>2, <3>1 DEF BuildsOn, Place
    <2> QED
        BY <2>1, <2>2
<1>8. ASSUME NEW f \in Editors, pc'[f] \in Editing PROVE Effective(cmd[f], doc[f])'
    BY <1>1, <1>6, <1>8 DEF EffectInv
<1>9. ASSUME NEW f \in Editors
      PROVE  /\ f \in ToSet(log') => PastRename(f)'
             /\ result'[f] = "saved" => pc'[f] = "done"
             /\ Lasting(f)' => LastsIn(target, f)'
             /\ result'[f] = "saved" => LastsIn(ondisk, f)'
    <2>1. CASE f = e
        BY <1>1, <1>2, <2>1 DEF Lasting
    <2>2. CASE f # e
        <3>1. target' = target /\ ondisk' = ondisk
            BY <1>1
        <3>2. Lasting(f)' => LastsIn(target, f)'
            BY <1>4, <1>5, <3>1 DEF EffectInv, LastsIn
        <3>3. result'[f] = "saved" => LastsIn(ondisk, f)'
            BY <1>1, <1>5, <3>1 DEF EffectInv, LastsIn
        <3> QED
            BY <1>1, <2>2, <3>2, <3>3 DEF EffectInv, PastRename
    <2> QED
        BY <2>1, <2>2
<1> QED
    BY <1>7, <1>8, <1>9 DEF EffectInv

\* The rename: what the new file does not show was undone by its command, or
\* came after its read.
LEMMA RenameEffect ==
    ASSUME TypeOK, ContentInv, SerialInv, EffectInv, NEW e \in Editors,
           Rename(e), log' # log
    PROVE  EffectInv'
<1> USE DEF process, Fails, files, history
<1>0. /\ pc \in [Editors -> Pcs] /\ readAfter \in [Editors -> Nat]
      /\ log \in Seq(Editors) /\ Len(log) \in Nat
    BY DEF TypeOK, ProcessOK, HistoryOK
<1>1. /\ pc[e] = "rename" /\ pc'[e] = "syncDir" /\ target' = e /\ log' = Append(log, e)
      /\ \A f \in Editors \ {e} : pc'[f] = pc[f]
      /\ UNCHANGED <<ondisk, content, cmd, doc, result, readAfter>>
    BY <1>0 DEF Rename, Goto
<1>2. e \notin ToSet(log) /\ result[e] # "saved" /\ pc[e] \in Editing
    BY <1>1 DEF EffectInv, PastRename, Editing
<1>3. content[e] = Whole(doc[e])
    BY <1>1 DEF ContentInv, ContentOf
<1>4. /\ \A f \in Editors : Place(f) \in 0 .. Len(log)
      /\ Place(e)' = Len(log) + 1
      /\ \A f \in Editors \ {e} : Place(f)' = Place(f)
    BY <1>0, <1>1, <1>2, Places, NextPlace DEF Place
<1>5. /\ DOMAIN log = 1 .. Len(log) /\ DOMAIN log' = 1 .. Len(log) + 1
      /\ log'[Len(log) + 1] = e /\ \A i \in DOMAIN log : log'[i] = log[i]
    BY <1>0, <1>1
<1>6. ASSUME NEW f \in Editors \ {e}, Undone(f) PROVE Undone(f)'
    <2>1. PICK i \in DOMAIN log :
              i > Place(f) /\ (readAfter[log[i]] < Place(f) \/ Undoes(cmd[log[i]], cmd[f]))
        BY <1>6 DEF Undone
    <2>2. i \in DOMAIN log' /\ log'[i] = log[i]
        BY <1>0, <1>5
    <2> QED
        BY <1>1, <1>4, <2>1, <2>2 DEF Undone
<1>7. ASSUME NEW f \in Editors \ {e},
             readAfter[e] < Place(f) \/ Undoes(cmd[e], cmd[f])
      PROVE  Undone(f)'
    <2>1. Len(log) + 1 \in DOMAIN log' /\ Len(log) + 1 > Place(f)
        BY <1>0, <1>4, <1>5
    <2> QED
        BY <1>1, <1>4, <1>5, <1>7, <2>1 DEF Undone
<1>8. ASSUME NEW f \in Editors, Lasting(f)' PROVE LastsIn(target, f)'
    <2>1. e # None /\ content'[e].doc = doc[e]
        BY <1>1, <1>3, Contents, EditorAssumption
    <2>2. CASE f = e
        <3>1. Effective(cmd[e], doc[e])
            BY <1>2 DEF EffectInv
        <3> QED
            BY <1>1, <2>1, <2>2, <3>1 DEF LastsIn
    <2>3. CASE f # e
        <3>1. Lasting(f) /\ BuildsOn(f, e)
            BY <1>1, <1>2, <1>8, <2>3 DEF Lasting, EffectInv
        <3>2. \/ Effective(cmd[f], doc[e]) \/ Undone(f)
              \/ readAfter[e] < Place(f) \/ Undoes(cmd[e], cmd[f])
            BY <1>0, <1>4, <3>1 DEF BuildsOn
        <3>3. Effective(cmd[f], doc[e]) \/ Undone(f)'
            BY <1>6, <1>7, <2>3, <3>2
        <3> QED
            BY <1>1, <2>1, <3>3 DEF LastsIn
    <2> QED
        BY <2>2, <2>3
<1>9. ASSUME NEW f \in Editors, result'[f] = "saved" PROVE LastsIn(ondisk, f)'
    <2>1. f # e /\ LastsIn(ondisk, f)
        BY <1>1, <1>2, <1>9 DEF EffectInv
    <2> QED
        BY <1>1, <1>6, <2>1 DEF LastsIn
<1>10. ASSUME NEW f \in Editors, pc'[f] \in Editing
       PROVE  Effective(cmd[f], doc[f])' /\ \A g \in Editors : BuildsOn(g, f)'
    <2>1. f # e /\ pc[f] \in Editing
        BY <1>1, <1>10 DEF Editing
    <2>2. Effective(cmd[f], doc[f]) /\ \A g \in Editors : BuildsOn(g, f)
        BY <2>1 DEF EffectInv
    <2>3. readAfter[f] <= Len(log) /\ readAfter[f] \in Nat
        BY <1>0 DEF SerialInv, SerialOf
    <2>4. ASSUME NEW g \in Editors PROVE BuildsOn(g, f)'
        <3>1. CASE g = e
            <4>1. ~(Place(e)' <= readAfter'[f])
                BY <1>0, <1>1, <1>4, <2>3
            <4> QED
                BY <3>1, <4>1 DEF BuildsOn
        <3>2. CASE g # e
            <4>1. Lasting(g)' => Lasting(g)
                BY <1>1, <3>2 DEF Lasting
            <4> QED
                BY <1>1, <1>4, <1>6, <2>2, <3>2, <4>1 DEF BuildsOn
        <3> QED
            BY <3>1, <3>2
    <2> QED
        BY <1>1, <2>2, <2>4
<1>11. ASSUME NEW f \in Editors
       PROVE  /\ f \in ToSet(log') => PastRename(f)'
              /\ result'[f] = "saved" => pc'[f] = "done"
    <2>1. ToSet(log') = ToSet(log) \cup {e}
        BY <1>0, <1>5 DEF ToSet
    <2> QED
        BY <1>1, <1>2, <2>1 DEF EffectInv, PastRename
<1> QED
    BY <1>8, <1>9, <1>10, <1>11 DEF EffectInv

\* The steps of a process keep what its edits and those of others have done.
LEMMA StepEffect ==
    ASSUME TypeOK, ContentInv, NameInv(target), NameInv(ondisk), SerialInv, EffectInv,
           NEW e \in Editors, Process(e)
    PROVE  EffectInv'
<1> USE DEF Goto, files, process, history, report
<1>0. /\ pc \in [Editors -> Pcs] /\ result \in [Editors -> Results]
      /\ content = [i \in Inodes |-> content[i]]
      /\ e \in Inodes /\ None \notin Inodes
    BY EditorAssumption DEF TypeOK, FilesOK, ProcessOK, Inodes
<1>1. /\ \A f \in Editors \ {e} : pc'[f] = pc[f] /\ result'[f] = result[f]
      /\ \A i \in Inodes \ {e} : content'[i] = content[i]
    BY OnlyItsOwn
<1>2. pc[e] = "write" \/ content' = content
    BY DEF Process, Step, InitCommand, ReadCommand, EditCommand, CreateTemp,
        preserve_mode, WriteAll, SyncAll, Rename, CleanUp, sync_dir, Kill, Quit,
        Render, Fails
<1>3. ASSUME NEW i \in {target, ondisk}, i # None PROVE content'[i] = content[i]
    <2>1. i \in Inodes /\ (i = e => pc[e] # "write")
        BY <1>3 DEF TypeOK, FilesOK, NameInv
    <2> QED
        BY <1>1, <1>2, <2>1
<1>4. \A f \in Editors : result[f] = "saved" => pc[f] = "done"
    BY DEF EffectInv
<1>5. ASSUME UNCHANGED <<cmd, doc, log, readAfter, target>>,
             ondisk' \in {ondisk, target},
             Lasting(e)' => Lasting(e),
             result'[e] = "saved" =>
                 pc'[e] = "done" /\ (result[e] = "saved" \/ (Lasting(e) /\ ondisk' = target)),
             pc'[e] \in Editing => pc[e] \in Editing,
             PastRename(e) => PastRename(e)'
      PROVE  EffectInv'
    <2>1. \A f \in Editors \ {e} :
              /\ Lasting(f)' => Lasting(f)
              /\ result'[f] = "saved" => pc'[f] = "done" /\ result[f] = "saved"
              /\ pc'[f] \in Editing => pc[f] \in Editing
              /\ PastRename(f) => PastRename(f)'
        BY <1>1, <1>4 DEF Lasting, PastRename
    <2>2. \A f \in Editors :
               /\ Lasting(f)' => Lasting(f) /\ (target' = target \/ result[f] = "saved")
               /\ result'[f] = "saved" =>
                     /\ pc'[f] = "done"
                     /\ result[f] = "saved" \/ (Lasting(f) /\ ondisk' = target)
               /\ pc'[f] \in Editing => pc[f] \in Editing
               /\ PastRename(f) => PastRename(f)'
        BY <1>5, <2>1
    <2> QED
        BY <1>3, <1>5, <2>2, QuietKeeps
<1>6. CASE InitCommand(e)
    <2>1. CASE target = None /\ Render(e, Starter)
        BY <1>6, <2>1, RenderEffect DEF InitCommand
    <2>2. CASE Quit(e, "new", "exists")
        BY <1>0, <1>5, <2>2 DEF Quit, Lasting, Editing, PastRename
    <2> QED
        BY <1>6, <2>1, <2>2 DEF InitCommand
<1>7. CASE EditCommand(e)
    <2>1. cmd[e].op \in {"add", "delete", "bump-serial"}
        BY <1>7 DEF EditCommand
    <2>2. ASSUME NEW day \in Days, Readable,
                 Render(e, Outcome(content[target].doc, cmd[e],
                                   ymd_from_unix_days(day)).doc)
          PROVE  EffectInv'
        BY <2>1, <2>2, RenderEffect
    <2>3. CASE Quit(e, "new", "failed") \/ Quit(e, "new", "unchanged")
        BY <1>0, <1>5, <2>3 DEF Quit, Lasting, Editing, PastRename
    <2> QED
        BY <1>7, <2>2, <2>3 DEF EditCommand
<1>8. CASE ReadCommand(e)
    BY <1>0, <1>5, <1>8 DEF ReadCommand, Quit, Lasting, Editing, PastRename
<1>9. CASE CreateTemp(e)
    BY <1>0, <1>5, <1>9, <1>4 DEF CreateTemp, Quit, Lasting, Editing, PastRename
<1>10. CASE preserve_mode(e)
    BY <1>0, <1>5, <1>10, <1>4 DEF preserve_mode, Fails, Lasting, Editing, PastRename
<1>11. CASE WriteAll(e)
    BY <1>0, <1>5, <1>11, <1>4 DEF WriteAll, Lasting, Editing, PastRename
<1>12. CASE SyncAll(e)
    BY <1>0, <1>5, <1>12, <1>4 DEF SyncAll, Fails, Lasting, Editing, PastRename
<1>13. CASE Rename(e)
    <2>1. CASE log' # log
        BY <1>13, <2>1, RenameEffect
    <2>2. CASE Fails(e, "rename")
        BY <1>0, <1>5, <2>2, <1>4 DEF Fails, Lasting, Editing, PastRename
    <2>3. log' = Append(log, e) => log' # log
        <3>1. log \in Seq(Editors)
            BY DEF TypeOK, HistoryOK
        <3>2. Len(Append(log, e)) = Len(log) + 1 /\ Len(log) \in Nat
            BY <3>1
        <3> QED
            BY <3>2
    <2> QED
        BY <1>13, <2>1, <2>2, <2>3 DEF Rename
<1>14. CASE CleanUp(e)
    BY <1>0, <1>5, <1>14, <1>4 DEF CleanUp, Lasting, Editing, PastRename
<1>15. CASE sync_dir(e)
    BY <1>0, <1>5, <1>15, <1>4 DEF sync_dir, Lasting, Editing, PastRename
<1>16. CASE Kill(e)
    BY <1>0, <1>5, <1>16, <1>4 DEF Kill, Lasting, Editing, PastRename
<1> QED
    BY <1>6, <1>7, <1>8, <1>9, <1>10, <1>11, <1>12, <1>13, <1>14, <1>15, <1>16
    DEF Process, Step

-----------------------------------------------------------------------------
(* The environment. *)

\* The directory may be written back at any moment.
LEMMA StepWriteback == ASSUME IInv, Writeback PROVE IInv'
<1> USE DEF IInv, Writeback, files, process, history
<1>1. TypeOK'
    BY DEF TypeOK, FilesOK, ProcessOK, HistoryOK
<1>2. TempInv' /\ ContentInv'
    BY DEF TempInv, TempIsOurs, AccountedFor, ContentInv, ContentOf
<1>3. NameInv(target)' /\ NameInv(ondisk)'
    BY DEF NameInv
<1>4. ModeInv' /\ SerialInv'
    BY DEF ModeInv, ModeOf, Unmasked, SerialInv, SerialOf
<1>5. EffectInv'
    <2>1. \A e \in Editors : result[e] = "saved" => pc[e] = "done"
        BY DEF EffectInv
    <2> QED
        BY <2>1, QuietKeeps DEF Lasting, PastRename
<1> QED
    BY ONLY <1>1, <1>2, <1>3, <1>4, <1>5 DEF IInv

\* A power failure takes every process that was not done, and leaves what was
\* synced.
LEMMA StepPowerLoss == ASSUME IInv, PowerLoss PROVE IInv'
<1> USE DEF PowerLoss, process, history
<1>0. /\ pc \in [Editors -> Pcs]
      /\ temps \in [Attempts -> Editors \cup {None}]
      /\ synced \in [Inodes -> BOOLEAN]
      /\ Original \in Inodes
    BY DEF IInv, TypeOK, FilesOK, ProcessOK, Inodes
<1>1. \A e \in Editors :
          \/ pc'[e] = pc[e] /\ pc[e] \in {"new", "done"}
          \/ pc'[e] = "dead" /\ pc[e] \notin {"new", "done"}
    OBVIOUS
<1>2. \A i \in Inodes :
          /\ content'[i] \in {content[i], Torn}
          /\ synced[i] \/ content[i] = Empty => content'[i] = content[i]
          /\ content[i] # Empty /\ ~synced[i] => content'[i] = Torn
    OBVIOUS
<1>3. TypeOK'
    <2>1. FilesOK'
        BY DEF IInv, TypeOK, FilesOK
    <2>2. ProcessOK'
        BY <1>0 DEF IInv, TypeOK, ProcessOK, Pcs
    <2>3. HistoryOK'
        BY DEF IInv, TypeOK, HistoryOK
    <2> QED
        BY ONLY <2>1, <2>2, <2>3 DEF TypeOK
<1>4. TempInv'
    <2>1. TempIsOurs'
        BY <1>1 DEF TempIsOurs
    <2>2. ASSUME NEW a \in Attempts PROVE AccountedFor(a)'
        BY <1>0, <1>1 DEF IInv, TempInv, AccountedFor, Holding
    <2> QED
        BY ONLY <2>1, <2>2 DEF TempInv
<1>5. ContentInv'
    <2>1. content'[Original] # Torn /\ synced'[Original]
        BY <1>0, <1>2 DEF IInv, ContentInv
    <2>2. ASSUME NEW e \in Editors PROVE ContentOf(e)'
        BY <1>1, <1>2 DEF IInv, ContentInv, ContentOf, Inodes
    <2> QED
        BY ONLY <2>1, <2>2 DEF ContentInv
<1>6. ASSUME NEW i, NameInv(i) PROVE (NameInv(i))'
    BY <1>0, <1>1, <1>2, <1>6 DEF IInv, ContentInv, NameInv
<1>7. NameInv(target)' /\ NameInv(ondisk)'
    <2>1. target' = ondisk /\ ondisk' = ondisk /\ NameInv(ondisk)
        BY DEF IInv
    <2> QED
        BY <1>6, <2>1 DEF NameInv
<1>8. ModeInv'
    <2>1. content'[Original] = content[Original]
        BY <1>0, <1>2 DEF IInv, ContentInv
    <2>2. ASSUME NEW e \in Editors, ModeOf(e) PROVE ModeOf(e)'
        BY <1>1, <1>2, <2>2 DEF ModeOf, Unmasked, Inodes
    <2> QED
        BY <2>1, <2>2 DEF IInv, ModeInv
<1>9. SerialInv'
    BY <1>1, <1>2 DEF IInv, SerialInv, SerialOf, Editing
<1>10. EffectInv'
    <2>1. \A e \in Editors : result[e] = "saved" => pc[e] = "done"
        BY DEF IInv, EffectInv
    <2>2. ASSUME NEW i \in {target, ondisk}, i # None PROVE content'[i] = content[i]
        <3>1. i \in Inodes /\ NameInv(i)
            BY <2>2 DEF IInv, TypeOK, FilesOK
        <3>2. synced[i]
            BY <2>2, <3>1 DEF IInv, NameInv, ContentInv, Inodes
        <3> QED
            BY <1>2, <3>1, <3>2
    <2>3. \A e \in Editors :
              /\ Lasting(e)' => result[e] = "saved"
              /\ result'[e] = "saved" => pc'[e] = "done" /\ result[e] = "saved"
              /\ pc'[e] \notin Editing
              /\ PastRename(e) => PastRename(e)'
        BY <1>1, <2>1 DEF Lasting, PastRename, Editing
    <2>4. TypeOK /\ EffectInv
        BY DEF IInv
    <2>5. \A e \in Editors : result[e] = "saved" => Lasting(e)
        BY DEF Lasting
    <2> QED
        BY <2>2, <2>3, <2>4, <2>5, QuietKeeps
<1> QED
    BY ONLY <1>3, <1>4, <1>5, <1>7, <1>8, <1>9, <1>10 DEF IInv

-----------------------------------------------------------------------------
(* The theorems. *)

\* The invariant holds at the start.
LEMMA InitIInv == Init => IInv
<1> SUFFICES ASSUME Init PROVE IInv
    OBVIOUS
<1>0. Original \in Inodes /\ Original \notin Editors /\ None \notin Inodes
    BY EditorAssumption DEF Inodes
<1>1. TypeOK
    <2>1. FilesOK
        BY DEF Init, FilesOK, Inodes
    <2>2. ProcessOK
        <3>1. 0 \in Attempts
            BY EditorAssumption DEF Attempts
        <3> QED
            BY <3>1 DEF Init, ProcessOK, Pcs, Results
    <2>3. HistoryOK
        BY DEF Init, HistoryOK
    <2> QED
        BY ONLY <2>1, <2>2, <2>3 DEF TypeOK
<1>2. TempInv
    BY DEF Init, TempInv, TempIsOurs, AccountedFor
<1>3. \A e \in Editors : content[e] = Empty /\ ~synced[e] /\ e \in Inodes
    BY <1>0 DEF Init, Inodes
<1>4. /\ synced[Original]
      /\ \/ target = None /\ content[Original] = Empty
         \/ target = Original /\ \E d \in Documents : content[Original] = Whole(d)
    BY <1>0 DEF Init
<1>5. ContentInv
    BY <1>3, <1>4, Contents DEF Init, ContentInv, ContentOf
<1>6. NameInv(target) /\ NameInv(ondisk)
    BY <1>0, <1>4, Contents DEF Init, NameInv, Inodes
<1>7. ModeInv
    BY <1>3 DEF Init, ModeInv, ModeOf
<1>8. SerialInv
    <2>1. \A d \in Documents : IsDocument(d)
        <3>1. \A x : x \in Nat \cup {Unset} => x \in Int \cup {Unset}
            OBVIOUS
        <3> QED
            BY <3>1, DocumentAssumption DEF IsDocument
    <2>2. ASSUME NEW i \in Inodes, content[i] \notin {Empty, Torn}
          PROVE  IsDocument(content[i].doc)
        BY <1>3, <1>4, <2>1, <2>2, Contents DEF Inodes
    <2>3. \A e \in Editors : SerialOf(e)
        BY DEF Init, SerialOf, Editing
    <2> QED
        BY ONLY <2>2, <2>3 DEF SerialInv
<1>9. EffectInv
    <2>1. ToSet(<<>>) = {}
        BY DEF ToSet
    <2> QED
        BY <2>1 DEF Init, EffectInv, Lasting, Editing
<1> QED
    BY ONLY <1>1, <1>2, <1>5, <1>6, <1>7, <1>8, <1>9 DEF IInv

\* The invariant is inductive.
THEOREM Invariance == Spec => []IInv
<1>1. IInv /\ [Next]_vars => IInv'
    <2> SUFFICES ASSUME IInv, [Next]_vars PROVE IInv'
        OBVIOUS
    <2>1. ASSUME NEW e \in Editors, Process(e) PROVE IInv'
        BY <2>1, StepType, StepTemps, StepContent, StepNames, StepMode, StepSerial,
            StepEffect
        DEF IInv
    <2>2. CASE UNCHANGED vars
        <3> USE <2>2 DEF vars, files, process, history
        <3>1. TypeOK'
            BY DEF IInv, TypeOK, FilesOK, ProcessOK, HistoryOK
        <3>2. TempInv' /\ ContentInv'
            BY DEF IInv, TempInv, TempIsOurs, AccountedFor, ContentInv, ContentOf
        <3>3. NameInv(target)' /\ NameInv(ondisk)'
            BY DEF IInv, NameInv
        <3>4. ModeInv' /\ SerialInv'
            BY DEF IInv, ModeInv, ModeOf, Unmasked, SerialInv, SerialOf
        <3>5. EffectInv'
            <4>1. \A f \in Editors : result[f] = "saved" => pc[f] = "done"
                BY DEF IInv, EffectInv
            <4> QED
                BY <4>1, QuietKeeps DEF IInv, Lasting, PastRename
        <3> QED
            BY ONLY <3>1, <3>2, <3>3, <3>4, <3>5 DEF IInv
    <2> QED
        BY <2>1, <2>2, StepWriteback, StepPowerLoss DEF Next, Process
<1> QED
    BY <1>1, InitIInv, PTL DEF Spec

\* Every variable keeps its type.
THEOREM Typing == Spec => []TypeOK
BY Invariance, PTL DEF IInv

\* Temporary files are private while in use, carry the mode of the file they
\* replace unless a stat has failed (editor.rs:528-530), and are gone
\* afterwards (editor.rs:402-413, 438-439).
THEOREM TempsAccountedForHolds == Spec => []TempsAccountedFor
<1>1. IInv => TempsAccountedFor
    <2> SUFFICES ASSUME IInv PROVE TempsAccountedFor
        OBVIOUS
    <2>1. TempIsOurs
        BY DEF IInv, TempInv
    <2>2. ModeIsTheTargets
        BY DEF IInv, ModeInv, ModeOf, ModeIsTheTargets
    <2>3. NoTempLeftBehind
        BY DEF IInv, TypeOK, FilesOK, TempInv, AccountedFor, Holding, NoTempLeftBehind
    <2> QED
        BY <2>1, <2>2, <2>3 DEF TempsAccountedFor
<1> QED
    BY <1>1, Invariance, PTL

\* Whoever reads the file reads one complete document (editor.rs:5-7, 423-424).
THEOREM AlwaysCompleteHolds == Spec => []AlwaysComplete
<1>1. IInv => AlwaysComplete
    BY Contents, EditorAssumption DEF IInv, TypeOK, FilesOK, Inodes, NameInv,
        ContentInv, ContentOf, AlwaysComplete
<1> QED
    BY <1>1, Invariance, PTL

\* A command that nobody overlapped never takes the serial back
\* (commands/mod.rs:57).
THEOREM SerialNeverGoesBackHolds == Spec => SerialNeverGoesBack
<1> DEFINE NotOlder ==
        \A e \in Editors :
            /\ target' = e /\ target \notin {e, None}
            /\ log' # log /\ readAfter[e] = Len(log)
            /\ content[target].doc.serial # Unset
            => content[e].doc.serial >= content[target].doc.serial
<1>1. IInv /\ [Next]_vars => [NotOlder]_vars
    <2> SUFFICES ASSUME IInv, Next, NEW e \in Editors,
                        target' = e, target \notin {e, None}, log' # log,
                        readAfter[e] = Len(log), content[target].doc.serial # Unset
                 PROVE  content[e].doc.serial >= content[target].doc.serial
        OBVIOUS
    <2>1. pc[e] = "rename"
        <3>1. PICK f \in Editors : Rename(f)
            BY DEF Next, Step, InitCommand, ReadCommand, EditCommand, CreateTemp,
                preserve_mode, WriteAll, SyncAll, CleanUp, sync_dir, Kill, Quit, Render,
                Fails, Writeback, PowerLoss, files, process, history
        <3> QED
            BY <3>1 DEF Rename, Goto, Fails, files, process, history
    <2>2. content[e] = Whole(doc[e])
        BY <2>1 DEF IInv, ContentInv, ContentOf
    <2>3. NoOlder(doc[e], content[target].doc)
        BY <2>1 DEF IInv, SerialInv, SerialOf, Editing
    <2> QED
        BY <2>2, <2>3, Contents DEF NoOlder
<1> QED
    BY <1>1, Invariance, PTL DEF Spec, SerialNeverGoesBack

\* "Idempotent apply: safe to run on every deploy" (README.md:215): whatever
\* the file has become, an add or a delete that has been applied changes
\* nothing when it is run again (editor.rs:194-322).
THEOREM EditsAreIdempotentHolds == Spec => EditsAreIdempotent
<1> DEFINE Once == \A d \in Shown : AppliesOnce(d)
           Renewed == target' # target => \A d \in Shown' : AppliesOnce(d)
<1>1. IInv => Once
    <2> SUFFICES ASSUME IInv, target # None, NEW c \in Commands, c.op \in {"add", "delete"},
                        NEW day \in Days, NEW later
                 PROVE  ~Outcome(Outcome(content[target].doc, c, ymd_from_unix_days(day)).doc,
                                 c, later).saves
        BY DEF AppliesOnce, Shown
    <2>1. ymd_from_unix_days(day) \in Int
        BY YmdInt, EditorAssumption
    <2>2. target \in Inodes /\ content[target] \notin {Empty, Torn}
        BY Contents DEF IInv, TypeOK, FilesOK, NameInv, ContentInv, ContentOf, Inodes
    <2>3. IsDocument(content[target].doc)
        BY <2>2 DEF IInv, SerialInv
    <2> QED
        BY <2>1, <2>3, RunAgain DEF IsEditing
<1>2. Once' => Renewed
    OBVIOUS
<1>3. Spec => Once /\ [][Renewed]_vars
    <2> HIDE DEF Once, Renewed
    <2> QED
        BY <1>1, <1>2, Invariance, PTL
<1> QED
    BY <1>3 DEF EditsAreIdempotent

\* Only a command that names a value of it, of the same name and type, or one
\* made from a read that predates it takes a saved edit out of the file;
\* commands on other record sets and power failures do not (editor.rs:415-424).
THEOREM OnlyOverlapsLoseEditsHolds == Spec => []OnlyOverlapsLoseEdits
<1>1. IInv => OnlyOverlapsLoseEdits
    BY DEF IInv, EffectInv, Lasting, LastsIn, OnlyOverlapsLoseEdits
<1> QED
    BY <1>1, Invariance, PTL
=============================================================================
