------------------------- MODULE RateLimiter_proof -------------------------
(***************************************************************************)
(* The admission bound of the rate limiter, for every capacity, refill,    *)
(* modulus, number of tasks and number of laps of the clock.               *)
(***************************************************************************)
EXTENDS RateLimiter, TLAPS

-----------------------------------------------------------------------------
(* Arithmetic. *)

\* Multiplication is monotone; stated once so that no other leaf is nonlinear.
LEMMA TimesMonotone ==
    ASSUME NEW k \in Nat, NEW a \in Nat, NEW b \in Nat, a <= b
    PROVE  k * a <= k * b
OBVIOUS

\* Multiplication distributes over addition.
LEMMA TimesPlus ==
    ASSUME NEW k \in Nat, NEW a \in Nat, NEW b \in Nat
    PROVE  k * (a + b) = k * a + k * b
OBVIOUS

\* Products of naturals are natural.
LEMMA TimesNat ==
    ASSUME NEW k \in Nat, NEW a \in Nat
    PROVE  k * a \in Nat
OBVIOUS

\* The constants, one by one.
LEMMA Constants ==
    /\ Milli \in Nat /\ Milli > 0 /\ Capacity \in Nat /\ Refill \in Nat
    /\ Wrap \in Nat /\ Guard \in Nat /\ Stale \in Nat /\ Guard > 0 /\ Stale > 0
    /\ Wrap = Guard + Guard /\ Stale < Guard /\ Milli <= Capacity
    /\ Capacity <= Refill * Guard
BY RateAssumption

\* A clock reading is a natural number of milliseconds.
LEMMA TimeNat ==
    ASSUME NEW c \in Clocks
    PROVE  Time(c) \in Nat /\ c.ms \in Nat /\ c.ms < Wrap /\ c.laps * Wrap \in Nat
BY Constants, TimesNat DEF Time, Clocks

\* A later lap is at least one modulus later.
LEMMA LapStep ==
    ASSUME NEW a \in Nat, NEW b \in Nat, a < b
    PROVE  a * Wrap + Wrap <= b * Wrap
<1>1. PICK d \in Nat : b = a + 1 + d
    BY b - a - 1 \in Nat
<1>2. b * Wrap = a * Wrap + Wrap + d * Wrap
    BY <1>1, Constants
<1> QED
    BY <1>2, Constants, TimesNat

\* What a forward reading shows is at most the time that really passed:
\* a wrap loses time and never invents any.
LEMMA ForwardElapsed ==
    ASSUME NEW c \in Clocks, NEW s \in Clocks, Time(c) <= Time(s)
    PROVE  /\ wrapping_sub(s.ms, c.ms) \in Nat
           /\ wrapping_sub(s.ms, c.ms) <= Time(s) - Time(c)
<1>1. c.laps \in Nat /\ s.laps \in Nat
    BY DEF Clocks
<1>2. CASE c.laps = s.laps
    BY <1>2, TimeNat, Constants DEF Time, wrapping_sub
<1>3. CASE c.laps < s.laps
    <2>1. c.laps * Wrap + Wrap <= s.laps * Wrap
        BY <1>1, <1>3, LapStep
    <2> QED
        BY <2>1, TimeNat, Constants DEF Time, wrapping_sub
<1>4. CASE s.laps < c.laps
    <2>1. s.laps * Wrap + Wrap <= c.laps * Wrap
        BY <1>1, <1>4, LapStep
    <2> QED
        BY <2>1, TimeNat, Constants DEF Time, wrapping_sub
<1> QED
    BY <1>1, <1>2, <1>3, <1>4

\* A reading that went back by less than Stale is recognised as one.
LEMMA BackwardElapsed ==
    ASSUME NEW c \in Clocks, NEW s \in Clocks,
           Time(s) < Time(c), Time(c) - Time(s) < Stale
    PROVE  band(s.ms, c.ms) = "backwards"
<1>1. c.laps \in Nat /\ s.laps \in Nat
    BY DEF Clocks
<1>2. wrapping_sub(s.ms, c.ms) = Wrap - (Time(c) - Time(s))
    <2>1. CASE c.laps = s.laps
        BY <2>1, TimeNat, Constants DEF Time, wrapping_sub
    <2>2. CASE c.laps < s.laps
        <3>1. c.laps * Wrap + Wrap <= s.laps * Wrap
            BY <1>1, <2>2, LapStep
        <3> QED
            BY <3>1, TimeNat, Constants DEF Time, wrapping_sub
    <2>3. CASE s.laps + 1 = c.laps
        <3>1. c.laps * Wrap = s.laps * Wrap + Wrap
            BY <1>1, <2>3, Constants
        <3> QED
            BY <3>1, TimeNat, Constants DEF Time, wrapping_sub
    <2>4. CASE s.laps + 1 < c.laps
        <3>1. (s.laps + 1) * Wrap + Wrap <= c.laps * Wrap
            BY <1>1, <2>4, LapStep
        <3>2. (s.laps + 1) * Wrap = s.laps * Wrap + Wrap
            BY <1>1, Constants
        <3> QED
            BY <3>1, <3>2, TimeNat, Constants DEF Time
    <2> QED
        BY <1>1, <2>1, <2>2, <2>3, <2>4
<1> QED
    BY <1>2, TimeNat, Constants DEF band
-----------------------------------------------------------------------------
(* The admission step. *)

\* Settling a word within the capacity leaves it within the capacity.
LEMMA SettleBounded ==
    ASSUME NEW d \in 0..Capacity, NEW l \in 0..(Wrap - 1),
           NEW m \in 0..(Wrap - 1)
    PROVE  settle(<<d, l>>, m) \in 0..Capacity
<1>1. wrapping_sub(m, l) \in Nat
    BY Constants DEF wrapping_sub
<1>2. wrapping_sub(m, l) * Refill \in Nat
    BY <1>1, Constants, TimesNat
<1> QED
    BY <1>2, Constants DEF settle, saturating_sub, band

\* The heart of the bound: what an admission charges, less what it credits,
\* is covered by the refill between the two stamps.
LEMMA ChargeCovered ==
    ASSUME NEW d \in 0..Capacity, NEW c \in Clocks, NEW s \in Clocks,
           Time(c) - Time(s) < Stale
    PROVE  IF stamps(<<d, c.ms>>, s.ms)
           THEN /\ Time(c) <= Time(s)
                /\ d <= settle(<<d, c.ms>>, s.ms) + Refill * (Time(s) - Time(c))
           ELSE settle(<<d, c.ms>>, s.ms) = d
<1> DEFINE e == wrapping_sub(s.ms, c.ms)
<1>1. CASE ~stamps(<<d, c.ms>>, s.ms)
    BY <1>1 DEF stamps, settle
<1>2. CASE stamps(<<d, c.ms>>, s.ms)
    <2>1. Time(c) <= Time(s)
        BY <1>2, BackwardElapsed, TimeNat DEF stamps
    <2>2. e \in Nat /\ e <= Time(s) - Time(c) /\ Time(s) - Time(c) \in Nat
        BY <2>1, ForwardElapsed, TimeNat
    <2>3. Refill * e <= Refill * (Time(s) - Time(c))
        BY <2>2, TimesMonotone, Constants
    <2>4. e * Refill = Refill * e /\ Refill * e \in Nat
        BY <2>2, Constants, TimesNat
    <2>5. Refill * (Time(s) - Time(c)) \in Nat
        BY <2>2, Constants, TimesNat
    <2>6. CASE e < Guard
        <3>1. settle(<<d, c.ms>>, s.ms) = saturating_sub(d, e * Refill)
            BY <2>6 DEF settle, band
        <3> QED
            BY <1>2, <2>1, <2>3, <2>4, <2>5, <3>1, Constants DEF saturating_sub
    <2>7. CASE e >= Guard
        <3>1. settle(<<d, c.ms>>, s.ms) = 0
            BY <1>2, <2>2, <2>7, Constants DEF settle, band, stamps
        <3>2. Refill * Guard <= Refill * e
            BY <2>2, <2>7, TimesMonotone, Constants
        <3>3. Refill * Guard \in Nat
            BY Constants, TimesNat
        <3>4. d <= Refill * (Time(s) - Time(c))
            BY <2>3, <2>4, <2>5, <3>2, <3>3, Constants
        <3> QED
            BY <1>2, <2>1, <3>1, <3>4, <2>5
    <2> QED
        BY <2>2, <2>6, <2>7, Constants
<1> QED
    BY <1>1, <1>2

-----------------------------------------------------------------------------
(* The invariant. *)

\* A limiter fresh from RateLimiter::new satisfies the invariant: every slot is
\* full and no admission has been charged.
LEMMA InitIInv == Init => IInv
<1> SUFFICES ASSUME Init PROVE IInv
    OBVIOUS
<1>1. Epoch \in Clocks /\ Time(Epoch) = 0
    BY Constants DEF Epoch, Clocks, Time
<1>2. clock = Epoch
    BY DEF Init, clock, Epoch
<1>3. TypeOK
    BY <1>1, <1>2, Constants DEF Init, TypeOK
<1>4. InstantsOrdered
    BY <1>1, <1>2 DEF Init, InstantsOrdered, Epoch
<1>5. BoundAtStamp
    BY <1>1, Constants DEF Init, BoundAtStamp
<1> QED
    BY <1>3, <1>4, <1>5 DEF IInv

\* Only Admit touches the slot, the stamp or the window.
LEMMA AdmitIInv ==
    ASSUME IInv, NEW t \in Tasks, Admit(t)
    PROVE  IInv'
<1> DEFINE s == sample[t]
           d == deficit
           w == <<deficit, stamp.ms>>
<1>1. /\ d \in 0..Capacity /\ stamp \in Clocks /\ s \in Clocks
      /\ opened \in Clocks /\ admitted \in Nat /\ clock \in Clocks
    BY DEF IInv, TypeOK
<1>2. observed[t] = w
    BY DEF Admit, slot, IInv, InstantsOrdered
<1>3. clock' = clock
    BY DEF Admit, clock
<1>4. /\ Time(opened) <= Time(stamp) /\ Time(stamp) <= Time(clock)
      /\ Time(s) <= Time(clock) /\ Time(clock) - Time(s) < Stale
    BY DEF Admit, IInv, InstantsOrdered
<1>5. /\ Time(opened) \in Nat /\ Time(stamp) \in Nat /\ Time(s) \in Nat
      /\ Time(clock) \in Nat /\ s.ms \in 0..(Wrap - 1)
      /\ stamp.ms \in 0..(Wrap - 1)
    BY <1>1, TimeNat, Constants DEF Clocks
<1>6. Time(stamp) - Time(s) < Stale
    BY <1>4, <1>5, Constants
<1>7. settle(w, s.ms) \in 0..Capacity
    BY <1>1, <1>5, SettleBounded
<1>8. /\ deficit' = settle(w, s.ms) + Milli
      /\ deficit' \in 0..Capacity
    BY <1>2, <1>7, Constants DEF Admit, charged
<1>9. BoundAtStamp
    BY DEF IInv
<1>10. Milli * (admitted + 1) = Milli * admitted + Milli /\ Milli * admitted \in Nat
    BY <1>1, Constants, TimesNat
<1>11. Refill * (Time(stamp) - Time(opened)) \in Nat
    <2>1. Time(stamp) - Time(opened) \in Nat
        BY <1>4, <1>5
    <2> QED
        BY <2>1, Constants, TimesNat
<1>12. /\ pc' \in [Tasks -> {"idle", "load", "try"}]
       /\ sample' \in [Tasks -> Clocks]
       /\ observed' \in [Tasks -> (0..Capacity) \X (0..(Wrap - 1))]
       /\ tries' \in [Tasks -> Nat]
    BY Constants DEF Admit, Return, IInv, TypeOK, Epoch, Clocks
<1>13. \A u \in Tasks : pc'[u] # "idle" => pc[u] # "idle" /\ sample'[u] = sample[u]
    BY DEF Admit, Return, IInv, TypeOK
<1>14. \A u \in Tasks : pc'[u] # "idle" =>
            Time(sample'[u]) <= Time(clock) /\ Time(clock) - Time(sample'[u]) < Stale
    BY <1>13 DEF IInv, InstantsOrdered
<1>15. CASE ~stamps(w, s.ms)
    <2>1. /\ last' = last /\ stamp' = stamp /\ opened' = opened
          /\ admitted' = admitted + 1
        BY <1>2, <1>15 DEF Admit
    <2>2. settle(w, s.ms) = d
        BY <1>1, <1>6, <1>15, ChargeCovered
    <2>3. TypeOK'
        BY <1>1, <1>3, <1>8, <1>12, <2>1 DEF IInv, TypeOK
    <2>4. InstantsOrdered'
        BY <1>3, <1>14, <2>1 DEF IInv, InstantsOrdered, Time
    <2>5. BoundAtStamp'
        BY <1>1, <1>8, <1>9, <1>10, <1>11, <2>1, <2>2, Constants DEF BoundAtStamp, Time
    <2> QED
        BY <2>3, <2>4, <2>5 DEF IInv
<1>16. CASE stamps(w, s.ms)
    <2>1. last' = s.ms /\ stamp' = s
        BY <1>2, <1>16 DEF Admit
    <2>2. \/ opened' = s /\ admitted' = 1
          \/ opened' = opened /\ admitted' = admitted + 1
        BY <1>2, <1>16 DEF Admit
    <2>3. /\ Time(stamp) <= Time(s)
          /\ d <= settle(w, s.ms) + Refill * (Time(s) - Time(stamp))
        BY <1>1, <1>6, <1>16, ChargeCovered
    <2>4. TypeOK'
        BY <1>1, <1>3, <1>5, <1>8, <1>12, <2>1, <2>2 DEF TypeOK
    <2>5. InstantsOrdered'
        BY <1>3, <1>4, <1>5, <1>14, <2>1, <2>2, <2>3 DEF InstantsOrdered, Time
    <2>6. BoundAtStamp'
        <3>1. CASE opened' = s /\ admitted' = 1
            <4>1. Time(stamp') - Time(opened') = 0
                BY <1>5, <2>1, <3>1
            <4>2. Refill * 0 = 0 /\ Milli * 1 = Milli
                BY Constants
            <4> QED
                BY <1>7, <1>8, <3>1, <4>1, <4>2, Constants DEF BoundAtStamp, Time
        <3>2. CASE opened' = opened /\ admitted' = admitted + 1
            <4>1. /\ Time(s) - Time(stamp) \in Nat
                  /\ Time(stamp) - Time(opened) \in Nat
                BY <1>4, <1>5, <2>3
            <4>2. Time(s) - Time(opened)
                    = (Time(s) - Time(stamp)) + (Time(stamp) - Time(opened))
                BY <1>5
            <4>3. Refill * (Time(s) - Time(opened))
                    = Refill * (Time(s) - Time(stamp))
                        + Refill * (Time(stamp) - Time(opened))
                BY <4>1, <4>2, TimesPlus, Constants
            <4>4. Refill * (Time(s) - Time(stamp)) \in Nat
                BY <4>1, Constants, TimesNat
            <4>5. Milli * (admitted + 1)
                    <= settle(w, s.ms) + Milli + Refill * (Time(s) - Time(opened))
                BY <1>1, <1>7, <1>9, <1>10, <1>11, <2>3, <4>3, <4>4, Constants
                   DEF BoundAtStamp
            <4> QED
                BY <1>8, <2>1, <3>2, <4>5 DEF BoundAtStamp, Time
        <3> QED
            BY <2>2, <3>1, <3>2
    <2> QED
        BY <2>4, <2>5, <2>6 DEF IInv
<1> QED
    BY <1>15, <1>16

\* A step that leaves the slot, the stamp, the window and the clock alone.
LEMMA QuietIInv ==
    ASSUME IInv, NEW t \in Tasks, Sample(t) \/ Load(t) \/ Refuse(t) \/ Contend(t)
    PROVE  IInv'
<1>1. UNCHANGED <<laps, ms, deficit, last, stamp, opened, admitted>>
    BY DEF Sample, Load, Refuse, Contend
<1>2. clock' = clock /\ clock \in Clocks /\ Time(clock) \in Nat
    BY <1>1, TimeNat DEF clock, IInv, TypeOK
<1>3. TypeOK'
    <2>1. Epoch \in Clocks
        BY Constants DEF Epoch, Clocks
    <2>2. slot \in (0..Capacity) \X (0..(Wrap - 1))
        BY DEF slot, IInv, TypeOK
    <2>3. <<0, 0>> \in (0..Capacity) \X (0..(Wrap - 1))
        BY Constants
    <2>4. /\ pc' \in [Tasks -> {"idle", "load", "try"}]
          /\ tries' \in [Tasks -> Nat]
        BY DEF IInv, TypeOK, Sample, Load, Refuse, Contend, Return
    <2>5. sample' \in [Tasks -> Clocks]
        BY <1>2, <2>1 DEF IInv, TypeOK, Sample, Load, Refuse, Contend, Return
    <2>6. observed' \in [Tasks -> (0..Capacity) \X (0..(Wrap - 1))]
        <3>1. \/ observed' = observed
              \/ observed' = [observed EXCEPT ![t] = slot]
              \/ observed' = [observed EXCEPT ![t] = <<0, 0>>]
            BY DEF Sample, Load, Refuse, Contend, Return
        <3> QED
            BY <2>2, <2>3, <3>1 DEF IInv, TypeOK
    <2> QED
        BY <1>1, <1>2, <2>4, <2>5, <2>6 DEF IInv, TypeOK
<1>4. \A u \in Tasks : pc'[u] # "idle" =>
         \/ pc[u] # "idle" /\ sample'[u] = sample[u]
         \/ sample'[u] = clock
    BY DEF Sample, Load, Refuse, Contend, Return, IInv, TypeOK
<1>5. InstantsOrdered'
    <2>1. Time(stamp') = Time(stamp) /\ Time(opened') = Time(opened)
        BY <1>1 DEF Time
    <2>2. \A u \in Tasks : pc'[u] # "idle" =>
            Time(sample'[u]) <= Time(clock) /\ Time(clock) - Time(sample'[u]) < Stale
        BY <1>2, <1>4, Constants DEF IInv, InstantsOrdered
    <2> QED
        BY <1>1, <1>2, <2>1, <2>2 DEF IInv, InstantsOrdered, Time
<1>6. BoundAtStamp'
    BY <1>1 DEF IInv, BoundAtStamp, Time
<1> QED
    BY <1>3, <1>5, <1>6 DEF IInv

\* The clock only moves forward, and not past the patience of a sample in use.
LEMMA TickIInv ==
    ASSUME IInv, Tick
    PROVE  IInv'
<1>1. clock \in Clocks /\ clock.laps = laps /\ clock.ms = ms
    BY DEF IInv, TypeOK, clock
<1>2. clock' \in Clocks /\ Time(clock') = Time(clock) + 1
    <2>1. laps \in Nat /\ ms \in 0..(Wrap - 1)
        BY <1>1 DEF Clocks
    <2>2. CASE ms + 1 < Wrap /\ ms' = ms + 1 /\ laps' = laps
        BY <2>1, <2>2, Constants, TimesNat DEF clock, Clocks, Time
    <2>3. CASE ms + 1 = Wrap /\ ms' = 0 /\ laps' = laps + 1
        <3>1. (laps + 1) * Wrap = laps * Wrap + Wrap
            BY <2>1, Constants
        <3> QED
            BY <2>1, <2>3, <3>1, Constants, TimesNat DEF clock, Clocks, Time
    <2> QED
        BY <2>2, <2>3 DEF Tick
<1>3. UNCHANGED <<deficit, last, pc, sample, observed, tries, stamp, opened, admitted>>
    BY DEF Tick
<1>4. TypeOK'
    BY <1>2, <1>3 DEF IInv, TypeOK
<1>5. InstantsOrdered'
    <2>1. Time(clock) \in Nat /\ Time(stamp) \in Nat
        BY <1>1, TimeNat DEF IInv, TypeOK
    <2>2. \A u \in Tasks : Time(sample[u]) \in Nat
        BY TimeNat DEF IInv, TypeOK
    <2>3. Time(stamp') = Time(stamp) /\ Time(opened') = Time(opened)
        BY <1>3 DEF Time
    <2>4. \A u \in Tasks : pc[u] # "idle" =>
            Time(clock) + 1 - Time(sample[u]) < Stale
        BY DEF Tick
    <2> QED
        BY <1>2, <1>3, <2>1, <2>2, <2>3, <2>4 DEF IInv, InstantsOrdered, Time
<1>6. BoundAtStamp'
    BY <1>3 DEF IInv, BoundAtStamp, Time
<1> QED
    BY <1>4, <1>5, <1>6 DEF IInv

\* Every step of the limiter preserves the invariant, whichever task takes it.
LEMMA NextIInv == IInv /\ [Next]_vars => IInv'
<1> SUFFICES ASSUME IInv, [Next]_vars PROVE IInv'
    OBVIOUS
<1>1. CASE Tick
    BY <1>1, TickIInv
<1>2. ASSUME NEW t \in Tasks, Sample(t) \/ Load(t) \/ Refuse(t) \/ Contend(t)
      PROVE  IInv'
    BY <1>2, QuietIInv
<1>3. ASSUME NEW t \in Tasks, Admit(t)
      PROVE  IInv'
    BY <1>3, AdmitIInv
<1>4. CASE UNCHANGED vars
    BY <1>4 DEF vars, IInv, TypeOK, InstantsOrdered, BoundAtStamp, clock, Time
<1> QED
    BY <1>1, <1>2, <1>3, <1>4 DEF Next

\* The invariant gives the bound at every instant, not only at the stamp.
LEMMA IInvBound == IInv => AdmissionBound
<1> SUFFICES ASSUME IInv PROVE AdmissionBound
    OBVIOUS
<1>1. /\ Time(clock) \in Nat /\ Time(stamp) \in Nat /\ Time(opened) \in Nat
      /\ Time(opened) <= Time(stamp) /\ Time(stamp) <= Time(clock)
    BY TimeNat DEF IInv, TypeOK, InstantsOrdered
<1>2. Time(stamp) - Time(opened) \in Nat /\ Time(clock) - Time(opened) \in Nat
    BY <1>1
<1>3. Refill * (Time(stamp) - Time(opened)) <= Refill * (Time(clock) - Time(opened))
    BY <1>1, <1>2, TimesMonotone, Constants
<1>4. /\ Refill * (Time(stamp) - Time(opened)) \in Nat
      /\ Refill * (Time(clock) - Time(opened)) \in Nat
      /\ Milli * admitted \in Nat
    BY <1>2, Constants, TimesNat DEF IInv, TypeOK
<1> QED
    BY <1>3, <1>4, Constants DEF IInv, TypeOK, BoundAtStamp, AdmissionBound

-----------------------------------------------------------------------------

\* The slot word always fits its fields, for every rate: the deficit never
\* exceeds the capacity and no store loses bits.
THEOREM TypeCorrect == Spec => []TypeOK
<1>1. IInv => TypeOK
    BY DEF IInv
<1> QED
    BY <1>1, InitIInv, NextIInv, PTL DEF Spec

\* The rate limit holds for every qps, burst, number of tasks, schedule,
\* clock modulus and window that starts at the epoch or at a stamping
\* admission.
THEOREM RateLimited == Spec => []AdmissionBound
BY InitIInv, NextIInv, IInvBound, PTL DEF Spec

\* No task drags a slot's stamp back, whatever clock reading it holds.
THEOREM StampMonotone == Spec => StampNeverGoesBack
<1>1. ASSUME IInv, [Next]_vars
      PROVE  [Time(stamp') >= Time(stamp)]_vars
    <2>1. Time(stamp) \in Nat
        BY <1>1, TimeNat DEF IInv, TypeOK
    <2>2. ASSUME NEW t \in Tasks, Admit(t)
          PROVE  Time(stamp') >= Time(stamp)
        <3> DEFINE w == <<deficit, stamp.ms>>
        <3>1. observed[t] = w
            BY <1>1, <2>2 DEF Admit, slot, IInv, InstantsOrdered
        <3>2. /\ Time(stamp) <= Time(clock) /\ Time(clock) - Time(sample[t]) < Stale
              /\ deficit \in 0..Capacity /\ stamp \in Clocks
              /\ sample[t] \in Clocks /\ clock \in Clocks
            BY <1>1, <2>2 DEF Admit, IInv, InstantsOrdered, TypeOK
        <3>3. Time(stamp) - Time(sample[t]) < Stale
            BY <3>2, TimeNat, Constants
        <3>4. CASE stamps(w, sample[t].ms)
            <4>1. stamp' = sample[t]
                BY <2>2, <3>1, <3>4 DEF Admit
            <4>2. Time(stamp) <= Time(sample[t])
                BY <3>2, <3>3, <3>4, ChargeCovered
            <4> QED
                BY <4>1, <4>2, <2>1, <3>2, TimeNat
        <3>5. CASE ~stamps(w, sample[t].ms)
            <4>1. stamp' = stamp
                BY <2>2, <3>1, <3>5 DEF Admit
            <4> QED
                BY <4>1, <2>1 DEF Time
        <3> QED
            BY <3>4, <3>5
    <2>3. ASSUME stamp' = stamp
          PROVE  Time(stamp') >= Time(stamp)
        BY <2>1, <2>3 DEF Time
    <2> QED
        BY <1>1, <2>2, <2>3 DEF Next, Tick, Sample, Load, Refuse, Contend
<1> QED
    BY <1>1, InitIInv, NextIInv, PTL DEF Spec, StampNeverGoesBack
-----------------------------------------------------------------------------
(* No slot starves. *)

\* A reading less than two moduli ahead wraps at most once.
LEMMA Wraps ==
    ASSUME NEW x \in 0..(2 * Wrap - 1)
    PROVE  x % Wrap = IF x < Wrap THEN x ELSE x - Wrap
BY Constants

\* How long one query takes to refill: it covers the query, and the bound on
\* the capacity keeps it within the ordinary band.
LEMMA RefillTime ==
    LET c == (Milli + Refill - 1) \div Refill IN
    c \in Nat /\ Milli <= c * Refill /\ c <= Guard
<1> DEFINE c == (Milli + Refill - 1) \div Refill
<1>1. Refill > 0 /\ Milli + Refill - 1 \in Nat
    BY RateAssumption
<1>2. c \in Nat /\ c * Refill <= Milli + Refill - 1 /\ Milli + Refill - 1 < c * Refill + Refill
    BY <1>1, Constants
<1>3. c * Refill \in Nat
    BY <1>2, Constants, TimesNat
<1>4. Milli <= c * Refill
    BY <1>1, <1>2, <1>3, Constants
<1>5. ASSUME Guard < c PROVE FALSE
    <2>1. Refill * (Guard + 1) <= Refill * c
        BY <1>2, <1>5, TimesMonotone, Constants
    <2>2. Refill * (Guard + 1) = Refill * Guard + Refill /\ Refill * c = c * Refill
        BY <1>2, Constants
    <2>3. Refill * Guard \in Nat
        BY Constants, TimesNat
    <2> QED
        BY <1>1, <1>2, <1>3, <2>1, <2>2, <2>3, Constants
<1> QED
    BY <1>2, <1>4, <1>5, Constants

\* In the long-idle band a word owes nothing, so a query is admitted.
LEMMA IdleAdmits ==
    ASSUME NEW d \in 0..Capacity, NEW l \in 0..(Wrap - 1), NEW m \in 0..(Wrap - 1),
           wrapping_sub(m, l) >= Guard, wrapping_sub(m, l) < Wrap - Stale
    PROVE  charged(<<d, l>>, m) <= Capacity
<1>1. wrapping_sub(m, l) \in Nat
    BY Constants DEF wrapping_sub
<1>2. band(m, l) = "long_idle"
    BY <1>1, Constants DEF band
<1> QED
    BY <1>2, Constants DEF charged, settle

\* In the ordinary band a word admits once one query has been refilled.
LEMMA RefillAdmits ==
    ASSUME NEW d \in 0..Capacity, NEW l \in 0..(Wrap - 1), NEW m \in 0..(Wrap - 1),
           NEW c \in Nat, Milli <= c * Refill,
           c <= wrapping_sub(m, l), wrapping_sub(m, l) < Guard
    PROVE  charged(<<d, l>>, m) <= Capacity
<1> DEFINE e == wrapping_sub(m, l)
<1>1. e \in Nat
    BY Constants DEF wrapping_sub
<1>2. Refill * c <= Refill * e /\ Refill * c = c * Refill /\ Refill * e = e * Refill
    BY <1>1, TimesMonotone, Constants
<1>3. e * Refill \in Nat /\ c * Refill \in Nat
    BY <1>1, Constants, TimesNat
<1>4. settle(<<d, l>>, m) = saturating_sub(d, e * Refill)
    BY DEF settle, band
<1> QED
    BY <1>2, <1>3, <1>4, Constants DEF charged, saturating_sub

\* Whatever the slot holds and wherever in the wrap a client starts to ask,
\* it is admitted after the stale band and the refill of one query at most.
\* It takes a long-idle band that is not empty, Stale < Guard: were the
\* backwards band to begin where the ordinary one ends, a slot in debt could
\* be refused all the way round.
THEOREM NeverStarvedHolds == Spec => []NeverStarved
<1>1. ASSUME TypeOK, NEW start \in 0..(Wrap - 1)
      PROVE  \E wait \in 0..(Stale + (Milli + Refill - 1) \div Refill) :
                charged(slot, (start + wait) % Wrap) <= Capacity
    <2> DEFINE c == (Milli + Refill - 1) \div Refill
               e == wrapping_sub(start, last)
               at(k) == (start + k) % Wrap
    <2>1. c \in Nat /\ Milli <= c * Refill /\ c <= Guard
        BY RefillTime
    <2> HIDE DEF c
    <2>2. deficit \in 0..Capacity /\ last \in 0..(Wrap - 1)
        BY <1>1 DEF TypeOK
    <2>3. e \in 0..(Wrap - 1)
        BY <2>2, Constants DEF wrapping_sub
    <2>4. ASSUME NEW w \in 0..(Stale + c)
          PROVE  /\ at(w) \in 0..(Wrap - 1)
                 /\ wrapping_sub(at(w), last) = IF e + w < Wrap THEN e + w ELSE e + w - Wrap
        <3>1. start + w \in 0..(2 * Wrap - 1)
            BY <2>1, Constants
        <3>2. at(w) = IF start + w < Wrap THEN start + w ELSE start + w - Wrap
            <4> DEFINE x == start + w
            <4>1. x \in 0..(2 * Wrap - 1)
                BY <3>1
            <4> HIDE DEF x
            <4>2. x % Wrap = IF x < Wrap THEN x ELSE x - Wrap
                BY <4>1, Wraps
            <4> QED
                BY <2>1, <3>1, <4>1, <4>2, Constants DEF x
        <3> QED
            BY <2>1, <2>2, <3>1, <3>2, Constants DEF wrapping_sub
    <2> HIDE DEF e, at
    <2> SUFFICES \E w \in 0..(Stale + c) : charged(<<deficit, last>>, at(w)) <= Capacity
        BY DEF c, at, slot
    <2>5. CASE Guard <= e /\ e < Wrap - Stale
        <3>1. 0 \in 0..(Stale + c) /\ wrapping_sub(at(0), last) = e
            BY <2>1, <2>3, <2>4, Constants
        <3> QED
            BY <2>2, <2>4, <2>5, <3>1, IdleAdmits
    <2>6. CASE Wrap - Stale <= e
        <3> DEFINE w == Wrap - e + c
        <3>1. w \in 0..(Stale + c) /\ e + w = Wrap + c
            BY <2>1, <2>3, <2>6, Constants
        <3>2. wrapping_sub(at(w), last) = c /\ at(w) \in 0..(Wrap - 1)
            BY <2>1, <2>3, <2>4, <3>1, Constants
        <3>3. CASE c < Guard
            BY <2>1, <2>2, <3>1, <3>2, <3>3, RefillAdmits
        <3>4. CASE c = Guard
            BY <2>2, <3>1, <3>2, <3>4, IdleAdmits, Constants
        <3> QED
            BY <2>1, <3>3, <3>4, Constants
    <2>7. CASE e + c < Guard
        <3>1. c \in 0..(Stale + c) /\ e + c < Wrap
            BY <2>1, <2>3, <2>7, Constants
        <3>2. wrapping_sub(at(c), last) = e + c /\ at(c) \in 0..(Wrap - 1)
            BY <2>4, <3>1
        <3> QED
            BY <2>1, <2>2, <2>3, <2>7, <3>1, <3>2, RefillAdmits, Constants
    <2>8. CASE e < Guard /\ Guard <= e + c
        <3> DEFINE w == Guard - e
        <3>1. w \in 0..(Stale + c) /\ e + w = Guard /\ Guard < Wrap
            BY <2>1, <2>3, <2>8, Constants
        <3>2. wrapping_sub(at(w), last) = Guard /\ at(w) \in 0..(Wrap - 1)
            BY <2>4, <3>1
        <3> QED
            BY <2>2, <3>1, <3>2, IdleAdmits, Constants
    <2> QED
        BY <2>1, <2>3, <2>5, <2>6, <2>7, <2>8, Constants
<1>2. TypeOK => NeverStarved
    BY <1>1 DEF NeverStarved
<1> QED
    BY <1>2, TypeCorrect, PTL
=============================================================================
