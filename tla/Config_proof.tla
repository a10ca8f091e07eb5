---------------------------- MODULE Config_proof ----------------------------
(***************************************************************************)
(* Proofs about how a process comes by its configuration (Config.tla), for *)
(* any search path, files, invocations, defaults and changes made by other *)
(* programs meanwhile.                                                     *)
(***************************************************************************)
EXTENDS Config, FiniteSetTheorems, WellFoundedInduction, TLAPS

-----------------------------------------------------------------------------
(* Tiers. *)

\* The limits are natural numbers.
LEMMA Limits == MaxU32 \in Nat /\ MaxDrain \in Nat /\ MaxChanges \in Nat
BY LimitsAssumption

\* The least number of a set.
LEMMA Least ==
    ASSUME NEW S \in SUBSET Int, NEW n \in S, \A m \in S : n <= m
    PROVE  Min(S) = n
<1>1. Min(S) \in S /\ \A m \in S : Min(S) <= m
    BY DEF Min
<1>2. n \in Int /\ Min(S) \in Int /\ Min(S) <= n /\ n <= Min(S)
    BY <1>1
<1> QED
    BY <1>2

\* The five tiers, one by one.
LEMMA TheTiers ==
    /\ Tiers[1] = call.args
    /\ Tiers[2] = call.env
    /\ Tiers[3] = [k \in DOMAIN call.legacy \cap RENAMED_ENV |-> call.legacy[k]]
    /\ Tiers[4] = file
    /\ Tiers[5] = Defaults
BY DEF Tiers

\* The first tier that states a key is the one that counts.
LEMMA FirstStated ==
    ASSUME NEW k, NEW n \in 1 .. 5, States(Tiers[n], k),
           \A m \in 1 .. n - 1 : ~States(Tiers[m], k)
    PROVE  Effective(k) = Tiers[n][k]
<1> DEFINE S == {i \in 1 .. 5 : States(Tiers[i], k)}
<1>1. S \in SUBSET Int /\ n \in S
    OBVIOUS
<1>2. \A m \in S : n <= m
    OBVIOUS
<1>3. Min(S) = n
    BY <1>1, <1>2, Least
<1> QED
    BY <1>3 DEF Effective

\* Option::or and default, over the command line with its environment and
\* the file, come to the first tier that states a key (config.rs, merge).
LEMMA Scalars ==
    ASSUME NEW k, k \notin {"udp", "tcp"}, cli = Given
    PROVE  /\ Stated(k) <=> k \in DOMAIN cli \cup DOMAIN file
           /\ Stated(k) \/ k \in DOMAIN Defaults => Or(cli, file, k) = Effective(k)
           /\ StatedToAll(k) <=> k \in DOMAIN cli
           /\ StatedToAll(k) => cli[k] = Effective(k)
<1> DEFINE old == DOMAIN call.legacy \cap RENAMED_ENV
<1>1. /\ DOMAIN cli = DOMAIN call.args \cup DOMAIN call.env \cup old
      /\ k \in DOMAIN call.args => cli[k] = call.args[k]
      /\ k \notin DOMAIN call.args /\ k \in DOMAIN call.env => cli[k] = call.env[k]
      /\ k \notin DOMAIN call.args \cup DOMAIN call.env /\ k \in old => cli[k] = call.legacy[k]
    BY DEF Given, promoted
<1>2. /\ States(Tiers[1], k) <=> k \in DOMAIN call.args
      /\ States(Tiers[2], k) <=> k \in DOMAIN call.env
      /\ States(Tiers[3], k) <=> k \in old
      /\ States(Tiers[4], k) <=> k \in DOMAIN file
      /\ States(Tiers[5], k) <=> k \in DOMAIN Defaults
    BY TheTiers DEF States
<1>3. k \in old => Tiers[3][k] = call.legacy[k]
    BY TheTiers
<1>4. Stated(k) <=> k \in DOMAIN cli \cup DOMAIN file
    BY <1>1, <1>2 DEF Stated
<1>10. StatedToAll(k) <=> k \in DOMAIN cli
    BY <1>1, <1>2 DEF StatedToAll
<1>5. CASE k \in DOMAIN call.args
    BY <1>1, <1>2, <1>4, <1>10, <1>5, FirstStated, TheTiers DEF Or
<1>6. CASE k \notin DOMAIN call.args /\ k \in DOMAIN call.env
    BY <1>1, <1>2, <1>4, <1>10, <1>6, FirstStated, TheTiers DEF Or
<1>7. CASE k \notin DOMAIN call.args \cup DOMAIN call.env /\ k \in old
    BY <1>1, <1>2, <1>3, <1>4, <1>10, <1>7, FirstStated DEF Or
<1>8. CASE k \notin DOMAIN cli /\ k \in DOMAIN file
    BY <1>1, <1>2, <1>4, <1>10, <1>8, FirstStated, TheTiers DEF Or
<1>9. CASE k \notin DOMAIN cli \cup DOMAIN file
    BY <1>1, <1>2, <1>4, <1>10, <1>9, FirstStated, TheTiers DEF Or
<1> QED
    BY <1>1, <1>4, <1>5, <1>6, <1>7, <1>8, <1>9, <1>10

\* pick_addrs does the same for the listeners, where an empty list in the
\* file states nothing.
LEMMA Listeners ==
    ASSUME NEW k \in {"udp", "tcp"}, call \in Invocations, cli = Given
    PROVE  LET picked == pick_addrs(Addrs(cli, k), Addrs(file, k)) IN
           IF Stated(k) THEN picked = Effective(k) /\ picked # <<>> ELSE picked = <<>>
<1> DEFINE old == DOMAIN call.legacy \cap RENAMED_ENV
<1>1. /\ DOMAIN cli = DOMAIN call.args \cup DOMAIN call.env \cup old
      /\ k \in DOMAIN call.args => cli[k] = call.args[k]
      /\ k \notin DOMAIN call.args /\ k \in DOMAIN call.env => cli[k] = call.env[k]
      /\ k \notin DOMAIN call.args \cup DOMAIN call.env /\ k \in old => cli[k] = call.legacy[k]
    BY DEF Given, promoted
<1>2. /\ k \in DOMAIN call.args => call.args[k] # <<>>
      /\ k \in DOMAIN call.env => call.env[k] # <<>>
      /\ k \in DOMAIN call.legacy => call.legacy[k] # <<>>
    BY TiersAssumption
<1>3. k \in old => Tiers[3][k] = call.legacy[k]
    BY TheTiers
<1>4. /\ States(Tiers[1], k) <=> k \in DOMAIN call.args
      /\ States(Tiers[2], k) <=> k \in DOMAIN call.env
      /\ States(Tiers[3], k) <=> k \in old
      /\ States(Tiers[4], k) <=> k \in DOMAIN file /\ file[k] # <<>>
    BY <1>2, TheTiers DEF States
<1>5. Stated(k) <=> k \in DOMAIN cli \/ (k \in DOMAIN file /\ file[k] # <<>>)
    BY <1>1, <1>4 DEF Stated
<1>6. CASE k \in DOMAIN call.args
    BY <1>1, <1>2, <1>4, <1>5, <1>6, FirstStated, TheTiers DEF pick_addrs, Addrs
<1>7. CASE k \notin DOMAIN call.args /\ k \in DOMAIN call.env
    BY <1>1, <1>2, <1>4, <1>5, <1>7, FirstStated, TheTiers DEF pick_addrs, Addrs
<1>8. CASE k \notin DOMAIN call.args \cup DOMAIN call.env /\ k \in old
    BY <1>1, <1>2, <1>3, <1>4, <1>5, <1>8, FirstStated DEF pick_addrs, Addrs
<1>9. CASE k \notin DOMAIN cli /\ k \in DOMAIN file /\ file[k] # <<>>
    BY <1>1, <1>4, <1>5, <1>9, FirstStated, TheTiers DEF pick_addrs, Addrs
<1>10. CASE k \notin DOMAIN cli /\ ~(k \in DOMAIN file /\ file[k] # <<>>)
    BY <1>5, <1>10 DEF pick_addrs, Addrs
<1> QED
    BY <1>1, <1>6, <1>7, <1>8, <1>9, <1>10
-----------------------------------------------------------------------------
(* The merge. *)

\* reject_duplicates compares the size of the set with the length of the
\* list: it refuses exactly the lists that name an address twice.
LEMMA Duplicates ==
    ASSUME NEW s, s \in Seq(ToSet(s))
    PROVE  reject_duplicates(s) <=> ~\A i, j \in DOMAIN s : s[i] = s[j] => i = j
<1> DEFINE S == 1 .. Len(s)
           T == ToSet(s)
<1>1. Len(s) \in Nat /\ DOMAIN s = S /\ s \in [S -> T]
    OBVIOUS
<1>2. IsFiniteSet(S) /\ Cardinality(S) = Len(s)
    BY <1>1, FS_Interval
<1>3. s \in Surjection(S, T)
    BY <1>1 DEF Surjection, ToSet
<1>4. /\ IsFiniteSet(T) /\ Cardinality(T) <= Cardinality(S)
      /\ Cardinality(T) = Cardinality(S) <=> s \in Injection(S, T)
    BY <1>2, <1>3, FS_Surjection
<1>5. Cardinality(T) \in Nat
    BY <1>4, FS_CardinalityType
<1>6. s \in Injection(S, T) <=> \A i, j \in DOMAIN s : s[i] = s[j] => i = j
    BY <1>1 DEF Injection, IsInjective
<1>7. reject_duplicates(s) <=> Cardinality(T) # Cardinality(S)
    BY <1>1, <1>2, <1>4, <1>5 DEF reject_duplicates
<1> QED
    BY <1>4, <1>6, <1>7

\* The command line and its environment are a tier like any other.
LEMMA GivenIsTier ==
    ASSUME call \in Invocations
    PROVE  IsTier(Given)
<1>1. IsTier(call.args) /\ IsTier(call.env) /\ IsTier(call.legacy)
    BY TiersAssumption
<1>2. \A k \in DOMAIN Given :
         \/ k \in DOMAIN call.args /\ Given[k] = call.args[k]
         \/ k \in DOMAIN call.env /\ Given[k] = call.env[k]
         \/ k \in DOMAIN call.legacy /\ Given[k] = call.legacy[k]
    BY DEF Given, promoted
<1> HIDE DEF Given
<1> QED
    BY <1>1, <1>2 DEF IsTier

\* A merged number keeps its type.
LEMMA Merged ==
    ASSUME NEW over, NEW under, IsTier(over), IsTier(under)
    PROVE  /\ Or(over, under, "timeout") \in Nat
           /\ Or(over, under, "drain") \in Int
           /\ Or(over, under, "qps") \in 0 .. MaxU32
           /\ "burst" \in DOMAIN over \cup DOMAIN under =>
                 Or(over, under, "burst") \in 0 .. MaxU32
BY TiersAssumption DEF IsTier, Or, Plain

\* A pair is not the empty list.
LEMMA Pair == \A a, b : <<a, b>> # <<>>
OBVIOUS
\* No list of the merge is refused but one somebody stated.
LEMMA MergedListeners ==
    ASSUME call \in Invocations, cli = Given, IsTier(file)
    PROVE  LET c == merge(cli, file).config IN
           /\ c.udp # <<>> \/ c.tcp # <<>>
           /\ c.udp \in Seq(ToSet(c.udp)) /\ c.tcp \in Seq(ToSet(c.tcp))
           /\ c.tcp = IF Stated("tcp") THEN Effective("tcp") ELSE <<>>
           /\ c.udp = IF Stated("udp") THEN Effective("udp")
                      ELSE IF Stated("tcp") THEN <<>> ELSE Defaults["udp"]
           /\ \A k \in {"udp", "tcp"} :
                 /\ Stated(k) => c[k] = Effective(k)
                 /\ reject_duplicates(c[k]) <=>
                       Stated(k) /\ ~\A i, j \in DOMAIN Effective(k) :
                                        Effective(k)[i] = Effective(k)[j] => i = j
<1> DEFINE c == merge(cli, file).config
           picked(k) == pick_addrs(Addrs(cli, k), Addrs(file, k))
           distinct(s) == \A i, j \in DOMAIN s : s[i] = s[j] => i = j
<1>1. /\ c.tcp = picked("tcp") /\ c["tcp"] = c.tcp /\ c["udp"] = c.udp
      /\ c.udp = IF picked("udp") = <<>> /\ picked("tcp") = <<>> THEN Defaults["udp"]
                 ELSE picked("udp")
    BY DEF merge, Udp
<1>2. ASSUME NEW k \in {"udp", "tcp"}
      PROVE  IF Stated(k) THEN picked(k) = Effective(k) /\ picked(k) # <<>>
             ELSE picked(k) = <<>>
    BY Listeners
<1>3. IsTier(cli)
    BY GivenIsTier
<1>4. /\ <<>> \in Seq(ToSet(<<>>))
      /\ distinct(<<>>)
    BY DEF ToSet
<1>5. ASSUME NEW k \in {"udp", "tcp"}
      PROVE  picked(k) \in Seq(ToSet(picked(k)))
    <2>1. ASSUME NEW t, IsTier(t)
          PROVE  Addrs(t, k) \in Seq(ToSet(Addrs(t, k)))
        BY <1>4, <2>1 DEF IsTier, Addrs
    <2> QED
        BY <1>3, <2>1 DEF pick_addrs
<1>6. /\ Defaults["udp"] \in Seq(ToSet(Defaults["udp"])) /\ Defaults["udp"] # <<>>
      /\ distinct(Defaults["udp"])
    <2> DEFINE d == Defaults["udp"]
    <2>1. d \in Seq(ToSet(d)) /\ Len(d) = 1
        BY TiersAssumption DEF IsTier
    <2> HIDE DEF d
    <2>2. DOMAIN d = {1} /\ d # <<>>
        BY <2>1
    <2> QED
        BY <2>1, <2>2 DEF d
<1> HIDE DEF c, picked
<1>7. c.udp # <<>> \/ c.tcp # <<>>
    BY <1>1, <1>6
<1>8. c.udp \in Seq(ToSet(c.udp)) /\ c.tcp \in Seq(ToSet(c.tcp))
    BY <1>1, <1>5, <1>6
<1>9. reject_duplicates(c.udp) <=> ~distinct(c.udp)
    BY <1>8, Duplicates
<1>10. reject_duplicates(c.tcp) <=> ~distinct(c.tcp)
    BY <1>8, Duplicates
<1>11. /\ Stated("udp") => c.udp = Effective("udp")
       /\ Stated("tcp") => c.tcp = Effective("tcp")
    BY <1>1, <1>2
<1>14. /\ c.tcp = IF Stated("tcp") THEN Effective("tcp") ELSE <<>>
       /\ c.udp = IF Stated("udp") THEN Effective("udp")
                  ELSE IF Stated("tcp") THEN <<>> ELSE Defaults["udp"]
    BY <1>1, <1>2
<1>12. /\ ~Stated("udp") => distinct(c.udp)
       /\ ~Stated("tcp") => distinct(c.tcp)
    <2>1. ~Stated("udp") => c.udp = Defaults["udp"] \/ c.udp = <<>>
        BY <1>1, <1>2
    <2>2. ~Stated("tcp") => c.tcp = <<>>
        BY <1>1, <1>2
    <2> HIDE DEF distinct
    <2> QED
        BY <1>4, <1>6, <2>1, <2>2
<1>13. ASSUME NEW k \in {"udp", "tcp"}
       PROVE  /\ Stated(k) => c[k] = Effective(k)
              /\ reject_duplicates(c[k]) <=> Stated(k) /\ ~distinct(Effective(k))
    <2> HIDE DEF distinct
    <2> QED
        BY <1>1, <1>9, <1>10, <1>11, <1>12
<1> QED
    BY <1>7, <1>8, <1>13, <1>14 DEF c

\* The limiter the merge asks for, and when its numbers are refused.
LEMMA MergedRate ==
    ASSUME call \in Invocations, cli = Given, IsTier(file)
    PROVE  LET r == merge(cli, file).config.rate_limit IN
           /\ r # <<>> <=> Effective("qps") > 0
           /\ r = IF Effective("qps") = 0 THEN <<>>
                  ELSE <<Effective("qps"), IF Stated("burst") THEN Effective("burst")
                                           ELSE saturating_double(Effective("qps"))>>
           /\ r # <<>> /\ r[2] = 0 <=>
                 Effective("qps") > 0 /\ Stated("burst") /\ ~(Effective("burst") > 0)
<1> DEFINE r == merge(cli, file).config.rate_limit
           qps == Or(cli, file, "qps")
           burst == IF "burst" \in DOMAIN cli \cup DOMAIN file
                    THEN Or(cli, file, "burst")
                    ELSE saturating_double(qps)
<1>1. r = IF qps = 0 THEN <<>> ELSE <<qps, burst>>
    BY DEF merge, rate_limit
<1>2. IsTier(cli)
    BY GivenIsTier
<1>3. qps \in 0 .. MaxU32 /\ burst \in 0 .. MaxU32
    BY <1>2, Merged, Limits DEF saturating_double
<1>4. qps = Effective("qps")
    BY Scalars, TiersAssumption
<1>5. /\ Stated("burst") <=> "burst" \in DOMAIN cli \cup DOMAIN file
      /\ Stated("burst") => burst = Effective("burst")
    BY Scalars
<1>6. ~Stated("burst") /\ qps > 0 => burst > 0
    BY <1>3, <1>5, Limits DEF saturating_double
<1>9. r = IF Effective("qps") = 0 THEN <<>>
          ELSE <<Effective("qps"), IF Stated("burst") THEN Effective("burst")
                                   ELSE saturating_double(Effective("qps"))>>
    <2>1. burst = IF Stated("burst") THEN Effective("burst")
                  ELSE saturating_double(Effective("qps"))
        BY <1>4, <1>5
    <2> HIDE DEF r, qps, burst
    <2> QED
        BY <1>1, <1>4, <2>1
<1> HIDE DEF r, qps, burst
<1> DEFINE limits ==
             /\ r # <<>> <=> Effective("qps") > 0
             /\ r # <<>> /\ r[2] = 0 <=>
                   Effective("qps") > 0 /\ Stated("burst") /\ ~(Effective("burst") > 0)
<1>7. CASE qps = 0
    <2>1. r = <<>> /\ Effective("qps") = 0
        BY <1>1, <1>4, <1>7
    <2>2. limits
        BY <2>1
    <2> QED
        BY <1>9, <2>2 DEF r
<1>8. CASE qps > 0
    <2>1. r = <<qps, burst>> /\ r # <<>> /\ r[1] = qps /\ r[2] = burst
        BY <1>1, <1>3, <1>8, Pair
    <2>2. limits
        BY <1>3, <1>4, <1>5, <1>6, <1>8, <2>1, Limits
    <2> QED
        BY <1>9, <2>2 DEF r
<1> QED
    BY <1>3, <1>7, <1>8, Limits
\* A merge is refused if and only if a value that counts is out of range:
\* what is shadowed is never looked at (config.rs, merge).
LEMMA Refusals ==
    ASSUME call \in Invocations, cli = Given, IsTier(file)
    PROVE  merge(cli, file).invalid <=> ~Valid
<1> DEFINE c == merge(cli, file).config
           distinct(s) == \A i, j \in DOMAIN s : s[i] = s[j] => i = j
<1>1. merge(cli, file).invalid <=>
         \/ reject_duplicates(c.udp) \/ reject_duplicates(c.tcp)
         \/ c.origin = "" \/ c.ttl = 0 \/ c.timeout = 0 \/ c.drain = -1
         \/ c.rate_limit # <<>> /\ c.rate_limit[2] = 0
    BY DEF merge
<1>2. /\ c["udp"] = c.udp /\ c["tcp"] = c.tcp
      /\ c.origin = Or(cli, file, "origin") /\ c.timeout = Or(cli, file, "timeout")
      /\ c.ttl = IF "ttl" \in DOMAIN file THEN file["ttl"] ELSE Defaults["ttl"]
      /\ c.drain = shutdown_drain(cli, file)
    BY DEF merge
<1>3. /\ reject_duplicates(c.udp) <=> Stated("udp") /\ ~distinct(Effective("udp"))
      /\ reject_duplicates(c.tcp) <=> Stated("tcp") /\ ~distinct(Effective("tcp"))
    BY <1>2, MergedListeners
<1>4. c.origin = Effective("origin") /\ c.timeout = Effective("timeout")
    BY <1>2, Scalars, TiersAssumption DEF Plain
<1>5. IsTier(cli)
    BY GivenIsTier
<1>6. c.timeout = 0 <=> ~(Effective("timeout") > 0)
    BY <1>2, <1>4, <1>5, Merged
<1>7. c.ttl = 0 <=> "ttl" \in DOMAIN file /\ ~(file["ttl"] > 0)
    BY <1>2, TiersAssumption DEF IsTier
<1>8. c.drain = -1 <=> Effective("drain") \notin 0 .. MaxDrain
    <2>1. Or(cli, file, "drain") = Effective("drain")
        BY Scalars, TiersAssumption DEF Plain
    <2> QED
        BY <1>2, <1>5, <2>1, Merged, Limits DEF shutdown_drain
<1>9. c.rate_limit # <<>> /\ c.rate_limit[2] = 0 <=>
         Effective("qps") > 0 /\ Stated("burst") /\ ~(Effective("burst") > 0)
    BY MergedRate
<1>10. Valid <=>
          /\ Stated("udp") => distinct(Effective("udp"))
          /\ Stated("tcp") => distinct(Effective("tcp"))
          /\ Effective("origin") # "" /\ Effective("timeout") > 0
          /\ "ttl" \in DOMAIN file => file["ttl"] > 0
          /\ Effective("drain") \in 0 .. MaxDrain
          /\ Effective("qps") > 0 /\ Stated("burst") => Effective("burst") > 0
    BY DEF Valid
<1> HIDE DEF c, distinct
<1> QED
    BY <1>1, <1>3, <1>4, <1>6, <1>7, <1>8, <1>9, <1>10

-----------------------------------------------------------------------------
(* Induction, and where a parse stopped. *)

\* Induction over the natural numbers, from the well-foundedness of their
\* order: a set that holds 0 and the successor of each of its members holds
\* them all.
LEMMA NatSetInduction ==
    ASSUME NEW S, 0 \in S, \A n \in Nat : n \in S => n + 1 \in S
    PROVE  \A n \in Nat : n \in S
<1> DEFINE T == Nat \ S
<1> SUFFICES ASSUME T # {} PROVE FALSE
    OBVIOUS
<1>1. PICK x \in T : \A y \in T : ~(<<y, x>> \in OpToRel(<, Nat))
    BY WFMin, NatLessThanWellFounded
<1>2. x \in Nat /\ x # 0
    OBVIOUS
<1>3. x - 1 \in Nat /\ (x - 1) + 1 = x /\ <<x - 1, x>> \in OpToRel(<, Nat)
    BY <1>2 DEF OpToRel
<1>4. x - 1 \in S
    BY <1>1, <1>3
<1>5. x \in S
    BY <1>3, <1>4
<1> QED
    BY <1>5

\* A function on 0 .. N that begins with `base' and goes on with `step'.
Recurs(f, N, V, base, step) ==
    /\ f \in [0 .. N -> V]
    /\ f[0] = base /\ \A i \in 1 .. N : f[i] = step[<<f[i - 1], i>>]

\* There is one.
LEMMA Recursion ==
    ASSUME NEW N \in Nat, NEW V, NEW base \in V, NEW step \in [V \X (1 .. N) -> V]
    PROVE  \E f : Recurs(f, N, V, base, step)
<1> DEFINE Upto(n, f) == f[0] = base /\ \A i \in 1 .. n : f[i] = step[<<f[i - 1], i>>]
           S == {n \in Nat : n <= N => \E f \in [0 .. n -> V] : Upto(n, f)}
<1>1. 0 \in S
    <2> DEFINE f == [i \in 0 .. 0 |-> base]
    <2>1. f \in [0 .. 0 -> V] /\ Upto(0, f)
        OBVIOUS
    <2> QED
        BY <2>1
<1>2. ASSUME NEW n \in Nat, n \in S PROVE n + 1 \in S
    <2> SUFFICES ASSUME n + 1 <= N
                 PROVE  \E f \in [0 .. n + 1 -> V] : Upto(n + 1, f)
        OBVIOUS
    <2>1. PICK f \in [0 .. n -> V] : Upto(n, f)
        BY <1>2
    <2> DEFINE g == [i \in 0 .. n + 1 |-> IF i = n + 1 THEN step[<<f[n], n + 1>>] ELSE f[i]]
    <2>2. step[<<f[n], n + 1>>] \in V
        OBVIOUS
    <2>3. g \in [0 .. n + 1 -> V]
        BY <2>2
    <2>4. g[0] = base
        BY <2>1
    <2>5. ASSUME NEW i \in 1 .. n + 1 PROVE g[i] = step[<<g[i - 1], i>>]
        <3>1. CASE i = n + 1
            <4>1. g[n] = f[n] /\ i - 1 = n
                BY <3>1
            <4>2. g[n + 1] = step[<<f[n], n + 1>>]
                OBVIOUS
            <4> QED
                BY <3>1, <4>1, <4>2
        <3>2. CASE i \in 1 .. n
            <4>1. g[i - 1] = f[i - 1] /\ g[i] = f[i]
                BY <3>2
            <4> QED
                BY <2>1, <3>2, <4>1
        <3> QED
            BY <3>1, <3>2
    <2> HIDE DEF g
    <2> QED
        BY <2>3, <2>4, <2>5
<1> HIDE DEF S
<1>3. N \in S
    BY <1>1, <1>2, NatSetInduction
<1> QED
    BY <1>3 DEF S, Recurs

\* A set of numbers with a bound has a greatest one.
LEMMA Greatest ==
    ASSUME NEW N \in Nat, NEW T \in SUBSET (0 .. N), T # {}
    PROVE  Max(T) \in T /\ \A y \in T : y <= Max(T)
<1> DEFINE HasMax(U) == \E x \in U : \A y \in U : x >= y
           S == {n \in Nat : \A U \in SUBSET (0 .. n) : U # {} => HasMax(U)}
<1>1. 0 \in S
    <2>1. ASSUME NEW U \in SUBSET (0 .. 0), U # {} PROVE HasMax(U)
        <3>1. \A y \in U : y \in 0 .. 0
            OBVIOUS
        <3>2. \A y \in U : y = 0
            BY <3>1
        <3>3. PICK x \in U : TRUE
            BY <2>1
        <3> QED
            BY <3>2, <3>3
    <2> QED
        BY <2>1
<1>2. ASSUME NEW n \in Nat, n \in S PROVE n + 1 \in S
    <2>1. ASSUME NEW U \in SUBSET (0 .. n + 1), U # {} PROVE HasMax(U)
        <3>1. CASE n + 1 \in U
            BY <3>1
        <3>2. CASE n + 1 \notin U
            <4>1. U \in SUBSET (0 .. n)
                BY <3>2
            <4> QED
                BY <1>2, <2>1, <4>1
        <3> QED
            BY <3>1, <3>2
    <2> QED
        BY <2>1
<1> HIDE DEF S
<1>3. N \in S
    BY <1>1, <1>2, NatSetInduction
<1>4. HasMax(T)
    BY <1>3 DEF S
<1>5. Max(T) \in T /\ \A y \in T : Max(T) >= y
    BY <1>4 DEF Max
<1> QED
    BY <1>5

\* The widths of the characters add up to the offsets.
LEMMA Offsets ==
    ASSUME NEW X, NEW text \in Seq(X)
    PROVE  /\ Offset(text, 0) = 0
           /\ \A k \in 1 .. Len(text) : Offset(text, k) = Offset(text, k - 1) + width(text[k])
           /\ \A k \in 0 .. Len(text) : Offset(text, k) \in Nat
<1> DEFINE N == Len(text)
           IsIt(g) == g = [i \in 0 .. N |-> IF i = 0 THEN 0 ELSE g[i - 1] + width(text[i])]
           bytes == CHOOSE g : IsIt(g)
           step == [p \in Nat \X (1 .. N) |-> p[1] + width(text[p[2]])]
<1>1. N \in Nat /\ \A ch : width(ch) \in Nat
    BY DEF width
<1>2. step \in [Nat \X (1 .. N) -> Nat]
    BY <1>1
<1>3. \A v \in Nat, i \in 1 .. N : step[<<v, i>>] = v + width(text[i])
    OBVIOUS
<1> HIDE DEF step, N
<1>4. PICK f : Recurs(f, N, Nat, 0, step)
    <2>1. N \in Nat /\ 0 \in Nat
        BY <1>1
    <2> QED
        BY <1>2, <2>1, Recursion, Zenon
<1>5. \A i \in 1 .. N : f[i] = f[i - 1] + width(text[i])
    <2>1. ASSUME NEW i \in 1 .. N PROVE f[i - 1] \in Nat
        BY <1>1, <1>4 DEF Recurs
    <2> QED
        BY <1>3, <1>4, <2>1 DEF Recurs
<1>6. IsIt(f)
    BY <1>1, <1>4, <1>5 DEF Recurs
<1>7. IsIt(bytes)
    BY <1>6
<1>8. \A k : Offset(text, k) = bytes[k]
    BY DEF Offset, N
<1> HIDE DEF bytes
<1>9. bytes[0] = 0 /\ \A k \in 1 .. N : bytes[k] = bytes[k - 1] + width(text[k])
    BY <1>1, <1>7
<1>10. ASSUME NEW k \in 0 .. N PROVE bytes[k] \in Nat
    <2> DEFINE S == {n \in Nat : n <= N => bytes[n] \in Nat}
    <2>1. 0 \in S
        BY <1>9
    <2>2. ASSUME NEW n \in Nat, n \in S PROVE n + 1 \in S
        <3>1. n + 1 <= N => bytes[n + 1] = bytes[n] + width(text[n + 1])
            BY <1>1, <1>9
        <3> QED
            BY <1>1, <2>2, <3>1
    <2> HIDE DEF S
    <2>3. k \in Nat
        BY <1>1
    <2>4. k \in S
        BY <2>1, <2>2, <2>3, NatSetInduction
    <2> QED
        BY <1>1, <2>4 DEF S
<1> QED
    BY <1>1, <1>8, <1>9, <1>10 DEF N

\* The newlines among the first k characters, and the last of them.
Newlines(text, k) == {j \in 1 .. k : text[j] = "n"}
LineStart(text, k) == IF Newlines(text, k) = {} THEN 0 ELSE Max(Newlines(text, k))

\* Walking the text comes to the same place as counting its newlines.
LEMMA WalkCounts ==
    ASSUME NEW X, NEW text \in Seq(X), NEW k \in 0 .. Len(text)
    PROVE  Walk(text, k) = [line |-> Cardinality(Newlines(text, k)) + 1,
                            column |-> k - LineStart(text, k) + 1]
<1> DEFINE N == Len(text)
           V == [line : Nat, column : Nat]
           After(v, i) == IF text[i] = "n" THEN [line |-> v.line + 1, column |-> 1]
                          ELSE [v EXCEPT !.column = @ + 1]
           start == [line |-> 1, column |-> 1]
           IsIt(g) == g = [i \in 0 .. N |-> IF i = 0 THEN start ELSE After(g[i - 1], i)]
           at == CHOOSE g : IsIt(g)
           step == [p \in V \X (1 .. N) |-> After(p[1], p[2])]
<1>1. N \in Nat /\ start \in V
    OBVIOUS
<1>2. \A v \in V, i \in 1 .. N : After(v, i) \in V
    OBVIOUS
<1> HIDE DEF V, After
<1>3. step \in [V \X (1 .. N) -> V]
    BY <1>2
<1>4. \A v \in V, i \in 1 .. N : step[<<v, i>>] = After(v, i)
    OBVIOUS
<1> HIDE DEF step, N, start
<1>5. PICK f : Recurs(f, N, V, start, step)
    BY <1>1, <1>3, Recursion, Zenon
<1>6. \A i \in 1 .. N : f[i] = After(f[i - 1], i)
    <2>1. ASSUME NEW i \in 1 .. N PROVE f[i - 1] \in V
        BY <1>1, <1>5 DEF Recurs
    <2> QED
        BY <1>4, <1>5, <2>1 DEF Recurs
<1>7. IsIt(f)
    BY <1>1, <1>5, <1>6 DEF Recurs
<1>8. IsIt(at)
    BY <1>7
<1>9. \A j : Walk(text, j) = at[j]
    BY DEF Walk, After, N, start
<1> HIDE DEF at
<1>10. at[0] = start /\ \A i \in 1 .. N : at[i] = After(at[i - 1], i)
    BY <1>1, <1>8
<1> DEFINE Counted(n) == [line |-> Cardinality(Newlines(text, n)) + 1,
                          column |-> n - LineStart(text, n) + 1]
           S == {n \in Nat : n <= N => at[n] = Counted(n)}
<1>11. 0 \in S
    <2>1. Newlines(text, 0) = {}
        BY DEF Newlines
    <2>2. Cardinality(Newlines(text, 0)) = 0 /\ LineStart(text, 0) = 0
        BY <2>1, FS_EmptySet DEF LineStart
    <2> QED
        BY <1>10, <2>2 DEF start
<1>12. ASSUME NEW n \in Nat, n \in S PROVE n + 1 \in S
    <2> SUFFICES ASSUME n + 1 <= N PROVE at[n + 1] = Counted(n + 1)
        OBVIOUS
    <2>1. at[n] = Counted(n)
        BY <1>1, <1>12
    <2>2. at[n + 1] = After(Counted(n), n + 1)
        BY <1>1, <1>10, <2>1
    <2> DEFINE new == Newlines(text, n + 1)
               old == Newlines(text, n)
    <2>3. IsFiniteSet(old) /\ Cardinality(old) \in Nat
        <3>1. IsFiniteSet(1 .. n)
            BY FS_Interval
        <3> QED
            BY <3>1, FS_Subset, FS_CardinalityType DEF Newlines
    <2>4. LineStart(text, n) \in Nat
        <3>1. old \in SUBSET (0 .. n)
            BY DEF Newlines
        <3>2. old # {} => Max(old) \in old
            BY <3>1, Greatest, Zenon
        <3> QED
            BY <3>1, <3>2 DEF LineStart
    <2>5. CASE text[n + 1] = "n"
        <3>1. new = old \cup {n + 1} /\ n + 1 \notin old
            BY <2>5 DEF Newlines
        <3>2. Cardinality(new) = Cardinality(old) + 1
            BY <2>3, <3>1, FS_AddElement
        <3>3. Max(new) = n + 1
            <4>1. new \in SUBSET (0 .. n + 1) /\ n + 1 \in new
                BY <3>1 DEF Newlines
            <4>2. n + 1 \in Nat
                OBVIOUS
            <4>3. Max(new) \in new /\ n + 1 <= Max(new)
                BY <4>1, <4>2, Greatest, Zenon
            <4> QED
                BY <4>1, <4>3
        <3>4. LineStart(text, n + 1) = n + 1
            BY <3>1, <3>3 DEF LineStart
        <3> QED
            BY <2>2, <2>3, <2>5, <3>2, <3>4 DEF After
    <2>6. CASE text[n + 1] # "n"
        <3>1. new = old
            BY <2>6 DEF Newlines
        <3>2. LineStart(text, n + 1) = LineStart(text, n)
            BY <3>1 DEF LineStart
        <3> QED
            BY <2>2, <2>3, <2>4, <2>6, <3>1, <3>2 DEF After
    <2> QED
        BY <2>5, <2>6
<1> HIDE DEF S
<1>13. k \in S
    BY <1>1, <1>11, <1>12, NatSetInduction
<1> QED
    BY <1>1, <1>9, <1>13 DEF S, N

\* `position' is the place of the character that holds the offset, or of the
\* end of the text for an offset past it.
LEMMA Positions ==
    ASSUME NEW X, NEW text \in Seq(X), NEW offset \in Nat
    PROVE  \E k \in 0 .. Len(text) :
              /\ position(text, offset) = Walk(text, k)
              /\ Offset(text, k) <= offset
              /\ k < Len(text) => offset < Offset(text, k + 1)
<1> DEFINE S == {k \in 0 .. Len(text) : Offset(text, k) <= offset}
           head == Max(S)
<1>1. Len(text) \in Nat /\ S \in SUBSET (0 .. Len(text)) /\ 0 \in S
    BY Offsets
<1>2. head \in S /\ \A y \in S : y <= head
    BY <1>1, Greatest
<1> HIDE DEF head
<1>3. head \in 0 .. Len(text) /\ Offset(text, head) <= offset
    BY <1>2
<1>4. head < Len(text) => offset < Offset(text, head + 1)
    <2>1. ASSUME head < Len(text), ~(offset < Offset(text, head + 1)) PROVE FALSE
        <3>1. head + 1 \in 0 .. Len(text) /\ Offset(text, head + 1) \in Nat
            BY <1>1, <1>3, <2>1, Offsets
        <3>2. head + 1 \in S
            BY <2>1, <3>1
        <3> QED
            BY <1>2, <1>3, <3>2
    <2> QED
        BY <2>1
<1>5. position(text, offset) = Walk(text, head)
    <2> DEFINE nl == Newlines(text, head)
    <2>1. position(text, offset) =
             [line |-> Cardinality({k \in nl : k <= LineStart(text, head)}) + 1,
              column |-> head - LineStart(text, head) + 1]
        BY DEF position, head, Newlines, LineStart
    <2>2. {k \in nl : k <= LineStart(text, head)} = nl
        <3>1. nl \in SUBSET (0 .. head) /\ head \in Nat
            BY <1>1, <1>3 DEF Newlines
        <3>2. CASE nl = {}
            BY <3>2
        <3>3. CASE nl # {}
            BY <3>1, <3>3, Greatest DEF LineStart
        <3> QED
            BY <3>2, <3>3
    <2> QED
        BY <1>3, <2>1, <2>2, WalkCounts
<1> QED
    BY <1>3, <1>4, <1>5

-----------------------------------------------------------------------------
(* The invariant. *)

\* A process that has just been started satisfies it.
LEMMA InitIInv == Init => IInv
<1> SUFFICES ASSUME Init PROVE IInv
    OBVIOUS
<1>1. TiersInv
    BY DEF Init, TiersInv, IsTier
<1>2. DiskInv
    BY PathsAssumption DEF Init, DiskInv
<1>3. SearchInv
    BY PathsAssumption DEF Init, SearchInv
<1>4. OutcomeInv
    BY DEF Init, OutcomeInv
<1> QED
    BY <1>1, <1>2, <1>3, <1>4 DEF IInv

\* Every step preserves it.
LEMMA NextIInv == IInv /\ [Next]_vars => IInv'
<1> SUFFICES ASSUME IInv, [Next]_vars PROVE IInv'
    OBVIOUS
<1> USE DEF IInv
<1>1. CASE migrate_legacy_env
    <2>1. TiersInv'
        BY <1>1 DEF migrate_legacy_env, others, TiersInv
    <2>2. DiskInv'
        BY <1>1 DEF migrate_legacy_env, others, DiskInv
    <2>3. SearchInv'
        BY <1>1 DEF migrate_legacy_env, others, SearchInv
    <2>4. OutcomeInv'
        BY <1>1 DEF migrate_legacy_env, others, OutcomeInv
    <2> QED
        BY <2>1, <2>2, <2>3, <2>4
<1>2. CASE Parse
    <2>1. TiersInv'
        BY <1>2 DEF Parse, others, TiersInv, Given
    <2>2. DiskInv'
        BY <1>2 DEF Parse, others, DiskInv
    <2>3. SearchInv'
        BY <1>2 DEF Parse, others, SearchInv
    <2>4. OutcomeInv'
        BY <1>2 DEF Parse, others, OutcomeInv
    <2> QED
        BY <2>1, <2>2, <2>3, <2>4
<1>3. CASE config_path
    <2>1. TiersInv'
        BY <1>3 DEF config_path, others, TiersInv, Given
    <2>2. DiskInv'
        BY <1>3 DEF config_path, others, DiskInv
    <2>3. SearchInv'
        <3>1. Len(SearchPath) \in Nat /\ DOMAIN SearchPath = 1 .. Len(SearchPath)
            BY PathsAssumption
        <3>2. \A i \in 1 .. Len(SearchPath) : SearchPath[i] # Unset
            BY <3>1, PathsAssumption DEF ToSet
        <3>3. ASSUME next <= Len(SearchPath), files[SearchPath[next]] = Absent,
                     next' = next + 1, UNCHANGED <<path, pc>>
              PROVE  SearchInv'
            BY <1>3, <3>1, <3>3 DEF config_path, others, SearchInv, DiskInv
        <3>4. ASSUME next <= Len(SearchPath), path' = SearchPath[next], pc' = "read",
                     UNCHANGED next
              PROVE  SearchInv'
            BY <1>3, <3>1, <3>2, <3>4 DEF config_path, others, SearchInv
        <3>5. ASSUME next > Len(SearchPath), pc' = "merge", UNCHANGED <<next, path>>
              PROVE  SearchInv'
            BY <1>3, <3>1, <3>5 DEF config_path, others, SearchInv
        <3> QED
            BY <1>3, <3>3, <3>4, <3>5 DEF config_path
    <2>4. OutcomeInv'
        BY <1>3 DEF config_path, others, OutcomeInv
    <2> QED
        BY <2>1, <2>2, <2>3, <2>4
<1>4. CASE read_file
    <2>1. path \in DOMAIN files
        <3>1. Len(SearchPath) \in Nat /\ DOMAIN SearchPath = 1 .. Len(SearchPath)
            BY PathsAssumption
        <3> QED
            BY <1>4, <3>1 DEF read_file, SearchInv, DiskInv, ToSet
    <2>2. TiersInv'
        BY <1>4, <2>1 DEF read_file, Fail, others, TiersInv, DiskInv, IsContent, Given
    <2>3. DiskInv'
        BY <1>4 DEF read_file, others, DiskInv
    <2>4. SearchInv'
        BY <1>4 DEF read_file, Fail, others, SearchInv
    <2>5. OutcomeInv'
        <3>1. \A content : ParseError(content).stage = "parse"
            BY DEF ParseError
        <3> QED
            BY <1>4, <2>1, <3>1 DEF read_file, Fail, others, OutcomeInv
    <2> QED
        BY <2>2, <2>3, <2>4, <2>5
<1>5. CASE resolve
    <2>1. TiersInv'
        BY <1>5 DEF resolve, Fail, others, TiersInv, Given
    <2>2. DiskInv'
        BY <1>5 DEF resolve, others, DiskInv
    <2>3. SearchInv'
        BY <1>5 DEF resolve, Fail, others, SearchInv
    <2>4. OutcomeInv'
        BY <1>5 DEF resolve, Fail, others, OutcomeInv
    <2> QED
        BY <2>1, <2>2, <2>3, <2>4
<1>6. CASE Change
    <2>1. TiersInv'
        BY <1>6 DEF Change, process, TiersInv, Given
    <2>2. DiskInv'
        BY <1>6, PathsAssumption DEF Change, process, DiskInv, IsContent, Absent
    <2>3. SearchInv'
        BY <1>6 DEF Change, process, SearchInv
    <2>4. OutcomeInv'
        BY <1>6 DEF Change, process, OutcomeInv
    <2> QED
        BY <2>1, <2>2, <2>3, <2>4
<1>7. CASE UNCHANGED vars
    BY <1>7 DEF vars, process, TiersInv, DiskInv, SearchInv, OutcomeInv, Given
<1> QED
    BY <1>1, <1>2, <1>3, <1>4, <1>5, <1>6, <1>7 DEF Next

\* At every stage a process holds what its call and the files it has looked at
\* determine, whatever other programs do to the files meanwhile.
THEOREM Invariance == Spec => []IInv
BY InitIInv, NextIInv, PTL DEF Spec
-----------------------------------------------------------------------------
(* What it gives. *)

\* The command line beats the environment, the new name of a variable beats
\* the old one, the environment beats the file and the file the defaults, key
\* by key; a start is refused for the values that count and for no other
\* (config.rs:4, main.rs:100-114).
THEOREM EffectiveWinsHolds == Spec => []EffectiveWins
<1>1. ASSUME IInv PROVE EffectiveWins
    <2>1. call \in Invocations /\ IsTier(file)
        BY <1>1 DEF IInv, TiersInv
    <2>2. ASSUME pc = "running"
          PROVE  /\ Valid
                 /\ \A k \in Plain \ {"builtins"} : config[k] = Effective(k)
                 /\ config.builtins =
                       IF StatedToAll("no_builtins") /\ Effective("no_builtins")
                       THEN FALSE ELSE Effective("builtins")
                 /\ config.tcp = IF Stated("tcp") THEN Effective("tcp") ELSE <<>>
                 /\ config.udp = IF Stated("udp") THEN Effective("udp")
                                 ELSE IF Stated("tcp") THEN <<>> ELSE Defaults["udp"]
                 /\ config.rate_limit =
                       IF Effective("qps") = 0 THEN <<>>
                       ELSE <<Effective("qps"),
                              IF Stated("burst") THEN Effective("burst")
                              ELSE saturating_double(Effective("qps"))>>
        <3>1. /\ cli = Given /\ ~merge(cli, file).invalid
              /\ config = merge(cli, file).config
            BY <1>1, <2>2 DEF IInv, TiersInv, OutcomeInv
        <3>2. Valid
            BY <2>1, <3>1, Refusals
        <3>3. \A k \in Plain : Or(cli, file, k) = Effective(k)
            BY <3>1, Scalars, TiersAssumption DEF Plain
        <3>10. DOMAIN cli \cap {"ttl", "builtins"} = {}
            <4>1. \A t \in {call.args, call.env, call.legacy} :
                     DOMAIN t \cap {"ttl", "builtins"} = {}
                BY <2>1, TiersAssumption
            <4>2. DOMAIN cli \subseteq DOMAIN call.args \cup DOMAIN call.env \cup DOMAIN call.legacy
                BY <3>1 DEF Given, promoted
            <4> QED
                BY <4>1, <4>2
        <3>11. ASSUME NEW k \in Plain \ {"builtins", "drain"}
               PROVE  config[k] = Effective(k)
            <4>1. /\ config["origin"] = Or(cli, file, "origin")
                  /\ config["timeout"] = Or(cli, file, "timeout")
                  /\ config["admin"] = Or(cli, file, "admin")
                  /\ config["log_format"] = Or(cli, file, "log_format")
                  /\ config["log_level"] = Or(cli, file, "log_level")
                  /\ config["admin_token"] = Or(cli, file, "admin_token")
                BY <3>1 DEF merge
            <4>2. config["ttl"] = Or(cli, file, "ttl")
                <5>1. config["ttl"] = IF "ttl" \in DOMAIN file THEN file["ttl"]
                                      ELSE Defaults["ttl"]
                    BY <3>1 DEF merge
                <5> QED
                    BY <3>10, <5>1 DEF Or
            <4> QED
                BY <3>3, <4>1, <4>2 DEF Plain
        <3>12. config.builtins =
                  IF StatedToAll("no_builtins") /\ Effective("no_builtins")
                  THEN FALSE ELSE Effective("builtins")
            <4>1. config.builtins = Builtins(cli, file)
                BY <3>1 DEF merge
            <4>2. Or(<<>>, file, "builtins") = Effective("builtins")
                BY <3>3, <3>10 DEF Or, Plain
            <4>3. /\ StatedToAll("no_builtins") <=> "no_builtins" \in DOMAIN cli
                  /\ StatedToAll("no_builtins") => cli["no_builtins"] = Effective("no_builtins")
                BY <3>1, Scalars
            <4> QED
                BY <4>1, <4>2, <4>3 DEF Builtins
        <3>4. config["drain"] = Effective("drain")
            <4>1. config["drain"] = shutdown_drain(cli, file) /\ config["drain"] # -1
                BY <3>1 DEF merge
            <4>2. Or(cli, file, "drain") = Effective("drain")
                BY <3>3 DEF Plain
            <4> QED
                BY <4>1, <4>2 DEF shutdown_drain
        <3>5. /\ config.tcp = IF Stated("tcp") THEN Effective("tcp") ELSE <<>>
              /\ config.udp = IF Stated("udp") THEN Effective("udp")
                              ELSE IF Stated("tcp") THEN <<>> ELSE Defaults["udp"]
            BY <2>1, <3>1, MergedListeners
        <3>7. config.rate_limit =
                 IF Effective("qps") = 0 THEN <<>>
                 ELSE <<Effective("qps"), IF Stated("burst") THEN Effective("burst")
                                          ELSE saturating_double(Effective("qps"))>>
            BY <2>1, <3>1, MergedRate
        <3>8. \A k \in Plain \ {"builtins"} : config[k] = Effective(k)
            BY <3>4, <3>11
        <3> QED
            BY <3>2, <3>5, <3>7, <3>8, <3>12
    <2>3. ASSUME error.stage = "validate" PROVE ~Valid
        <3>1. pc = "failed" /\ merge(cli, file).invalid
            BY <1>1, <2>3 DEF IInv, OutcomeInv
        <3>2. cli = Given
            BY <1>1, <3>1 DEF IInv, TiersInv
        <3> QED
            BY <2>1, <3>1, <3>2, Refusals
    <2> QED
        BY <2>2, <2>3 DEF EffectiveWins
<1> QED
    BY <1>1, Invariance, PTL

\* A process goes without a file only if no path has kept one throughout, and
\* never passes over a path that has (Cli::config_path, cli.rs:57-65).
THEOREM FileIsFoundHolds == Spec => []FileIsFound
<1>1. ASSUME IInv, call.config = Unset, pc \in {"read", "merge", "running", "failed"}
      PROVE  LET kept == {i \in DOMAIN SearchPath : SearchPath[i] \in existed}
                 chosen == {i \in DOMAIN SearchPath : SearchPath[i] = path}
             IN (path = Unset => kept = {}) /\ \A i \in chosen, k \in kept : i <= k
    <2>1. Len(SearchPath) \in Nat /\ DOMAIN SearchPath = 1 .. Len(SearchPath)
        BY PathsAssumption
    <2>2. \A i \in 1 .. Len(SearchPath) : SearchPath[i] # Unset
        BY <2>1, PathsAssumption DEF ToSet
    <2>3. /\ next \in 1 .. Len(SearchPath) + 1
          /\ \A i \in 1 .. next - 1 : SearchPath[i] \notin existed
          /\ path = IF next <= Len(SearchPath) THEN SearchPath[next] ELSE Unset
        BY <1>1 DEF IInv, SearchInv
    <2>4. ASSUME NEW k \in DOMAIN SearchPath, SearchPath[k] \in existed
          PROVE  path # Unset /\ next <= k
        BY <2>1, <2>2, <2>3, <2>4
    <2>5. ASSUME NEW i \in DOMAIN SearchPath, SearchPath[i] = path
          PROVE  i = next
        BY <2>1, <2>2, <2>3, <2>5, PathsAssumption
    <2> QED
        BY <2>4, <2>5
<1>2. IInv => FileIsFound
    BY <1>1 DEF FileIsFound
<1> QED
    BY <1>2, Invariance, PTL

\* Clients started like the server knock where it listens, on the transport
\* they use (main.rs, query_target and admin_addr; dnsclient.rs, query).
THEOREM ClientsFindTheServerHolds == Spec => []ClientsFindTheServer
<1>1. ASSUME IInv, pc = "running"
      PROVE  LET target == query_target(config)
                 heard(force_tcp) ==
                    \E a \in ToSet(Asked(config, force_tcp)) :
                       a = target \/ (a.ip \in Wildcard /\ a.port = target.port
                                      /\ target.ip = "127.0.0.1")
             IN /\ target.ip \notin Wildcard
                /\ config.udp # <<>> => heard(FALSE)
                /\ ToSet(config.udp) \subseteq ToSet(config.tcp) => heard(TRUE)
                /\ StatedToAll("admin") /\ config.admin.ip \notin Wildcard =>
                      admin_addr(cli) = config.admin
    <2> DEFINE list == IF config.udp # <<>> THEN config.udp ELSE config.tcp
               addr == list[1]
               target == query_target(config)
               heard(force_tcp) ==
                  \E a \in ToSet(Asked(config, force_tcp)) :
                     a = target \/ (a.ip \in Wildcard /\ a.port = target.port
                                    /\ target.ip = "127.0.0.1")
    <2>1. /\ call \in Invocations /\ IsTier(file) /\ cli = Given
          /\ config = merge(cli, file).config
        BY <1>1 DEF IInv, TiersInv, OutcomeInv
    <2>2. list # <<>> /\ list \in Seq(ToSet(list))
        BY <2>1, MergedListeners
    <2>3. target = IF addr.ip \in Wildcard THEN [ip |-> "127.0.0.1", port |-> addr.port]
                   ELSE addr
        BY DEF query_target
    <2>4. target.ip \notin Wildcard
        BY <2>3 DEF Wildcard
    <2>5. \/ addr = target
          \/ addr.ip \in Wildcard /\ addr.port = target.port /\ target.ip = "127.0.0.1"
        BY <2>3
    <2>6. addr \in ToSet(list)
        <3> HIDE DEF list
        <3>1. 1 \in DOMAIN list
            BY <2>2
        <3> QED
            BY <3>1 DEF ToSet
    <2>8. config.udp # <<>> => addr \in ToSet(Asked(config, FALSE))
        BY <2>6 DEF Asked
    <2>9. ToSet(config.udp) \subseteq ToSet(config.tcp) => addr \in ToSet(Asked(config, TRUE))
        BY <2>6 DEF Asked
    <2> HIDE DEF addr, target
    <2>10. /\ config.udp # <<>> => heard(FALSE)
           /\ ToSet(config.udp) \subseteq ToSet(config.tcp) => heard(TRUE)
        BY <2>5, <2>8, <2>9
    <2>7. StatedToAll("admin") => admin_addr(cli) = config.admin
        <3>1. config.admin = Or(cli, file, "admin")
            BY <2>1 DEF merge
        <3> QED
            BY <2>1, <3>1, Scalars DEF admin_addr, Or
    <2> QED
        BY <2>4, <2>7, <2>10 DEF target
<1>2. IInv => ClientsFindTheServer
    BY <1>1 DEF ClientsFindTheServer
<1> QED
    BY <1>2, Invariance, PTL

\* A parse error names the character the parser stopped at in lines and
\* columns an editor counts the same way, for every text, whatever the widths
\* of its characters, and the end of the text for a span past it
\* (tomlparse.rs, position).
THEOREM PositionIsExactHolds == Spec => []PositionIsExact
<1>1. ASSUME IInv PROVE PositionIsExact
    <2> DEFINE c == files[path]
    <2> SUFFICES ASSUME error.stage = "parse", "at" \in DOMAIN error
                 PROVE  \E k \in 0 .. Len(c.text) :
                           /\ error.at = Walk(c.text, k)
                           /\ Offset(c.text, k) <= c.span
                           /\ k < Len(c.text) => c.span < Offset(c.text, k + 1)
        BY DEF PositionIsExact
    <2>1. path \in DOMAIN files /\ c.is = "broken" /\ error = ParseError(c)
        BY <1>1 DEF IInv, OutcomeInv
    <2>2. c.span # Unset /\ error.at = position(c.text, c.span)
        BY <2>1 DEF ParseError
    <2>3. c.text \in Seq(ToSet(c.text)) /\ c.span \in Nat
        BY <1>1, <2>1, <2>2 DEF IInv, DiskInv, IsContent
    <2> HIDE DEF c
    <2> QED
        BY <2>2, <2>3, Positions
<1> QED
    BY <1>1, Invariance, PTL
=============================================================================
