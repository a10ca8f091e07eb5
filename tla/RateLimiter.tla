---------------------------- MODULE RateLimiter ----------------------------
(***************************************************************************)
(* One slot of the lock-free token-bucket table of src/ratelimit.rs and    *)
(* the query tasks whose source prefix hashes to it (slots are             *)
(* independent of one another).                                            *)
(*                                                                         *)
(* A slot is one word: a deficit in milli-tokens and a millisecond stamp   *)
(* that wraps at 2^32.  The model keeps the wrap: the clock is a pair of   *)
(* laps and milliseconds, a slot holds the milliseconds only, and the laps *)
(* of its stamp are kept beside it as history.                             *)
(*                                                                         *)
(* The one thing assumed of scheduling is what STALE_MAX_MS assumes: a     *)
(* task is not suspended for Stale milliseconds between reading the clock  *)
(* and its last compare-exchange.                                          *)
(***************************************************************************)
EXTENDS Integers

CONSTANTS
    Tasks,         \* query tasks that share the slot
    Milli,         \* MILLI: what one query costs
    Capacity,      \* capacity_milli
    Refill,        \* refill_per_ms
    Wrap,          \* 2^32: the stamp's modulus
    Guard,         \* WRAP_GUARD_MS: 2^31
    Stale,         \* STALE_MAX_MS
    CasAttempts,   \* CAS_ATTEMPTS
    MaxLaps        \* bound on the laps of the clock

ASSUME RateAssumption ==
    /\ {Milli, Capacity, Refill, Wrap, Guard, Stale, CasAttempts} \subseteq Nat \ {0}
    /\ MaxLaps \in Nat
    /\ Milli <= Capacity
    /\ Capacity <= Refill * Guard
    /\ Stale < Guard
    /\ Wrap = 2 * Guard

VARIABLES
    laps, ms,      \* the clock: Instant::now() - epoch
    deficit, last, \* the slot word
    pc,            \* [Tasks -> {"idle", "load", "try"}]
    sample,        \* [Tasks -> the clock as check_at was given it]
    observed,      \* [Tasks -> the slot word last seen]
    tries,         \* [Tasks -> failed compare-exchanges]
    stamp,         \* history: the slot's stamp with its laps
    opened,        \* history: when the window being counted began
    admitted       \* history: queries admitted in that window

slot == <<deficit, last>>
clock == [laps |-> laps, ms |-> ms]
vars == <<laps, ms, deficit, last, pc, sample, observed, tries, stamp, opened,
          admitted>>

\* Unwrapped milliseconds.
Time(c) == c.laps * Wrap + c.ms

Epoch == [laps |-> 0, ms |-> 0]

\* A zeroed slot is a full bucket.
Init ==
    /\ laps = 0 /\ ms = 0
    /\ deficit = 0 /\ last = 0
    /\ pc = [t \in Tasks |-> "idle"]
    /\ sample = [t \in Tasks |-> Epoch]
    /\ observed = [t \in Tasks |-> <<0, 0>>]
    /\ tries = [t \in Tasks |-> 0]
    /\ stamp = Epoch /\ opened = Epoch
    /\ admitted = 0

-----------------------------------------------------------------------------
(* The arithmetic. *)

\* u32::wrapping_sub.
wrapping_sub(a, b) == IF a >= b THEN a - b ELSE Wrap + a - b

\* u64::saturating_sub.
saturating_sub(a, b) == IF a >= b THEN a - b ELSE 0

\* Mutant of band: no backwards reading.
BandWithoutBackwards(now_ms, last_ms) ==
    IF wrapping_sub(now_ms, last_ms) < Guard THEN "ordinary" ELSE "long_idle"

\* Mutant of band: every long gap is read as a backwards reading.
BandCannotTell(now_ms, last_ms) ==
    IF wrapping_sub(now_ms, last_ms) < Guard THEN "ordinary" ELSE "backwards"

\* The three bands of the wrap window.
band(now_ms, last_ms) ==
    LET elapsed == wrapping_sub(now_ms, last_ms) IN
    IF elapsed < Guard THEN "ordinary"
    ELSE IF elapsed >= Wrap - Stale THEN "backwards"
    ELSE "long_idle"

\* The deficit of a word brought up to now_ms...
settle(word, now_ms) ==
    CASE band(now_ms, word[2]) = "ordinary" ->
            saturating_sub(word[1], wrapping_sub(now_ms, word[2]) * Refill)
      [] band(now_ms, word[2]) = "backwards" -> word[1]
      [] band(now_ms, word[2]) = "long_idle" -> 0

\* ... and the stamp a store carries: a backwards reading keeps the slot's.
stamps(word, now_ms) == band(now_ms, word[2]) # "backwards"

charged(word, now_ms) == settle(word, now_ms) + Milli

-----------------------------------------------------------------------------
(* check_at, one step per access to the slot. *)

\* check reads the clock.
Sample(t) ==
    /\ pc[t] = "idle"
    /\ pc' = [pc EXCEPT ![t] = "load"]
    /\ sample' = [sample EXCEPT ![t] = clock]
    /\ UNCHANGED <<laps, ms, deficit, last, observed, tries, stamp, opened,
                   admitted>>

Load(t) ==
    /\ pc[t] = "load"
    /\ pc' = [pc EXCEPT ![t] = "try"]
    /\ observed' = [observed EXCEPT ![t] = slot]
    /\ tries' = [tries EXCEPT ![t] = 0]
    /\ UNCHANGED <<laps, ms, deficit, last, sample, stamp, opened, admitted>>

\* check_at returns, and its locals with it.
Return(t) ==
    /\ pc' = [pc EXCEPT ![t] = "idle"]
    /\ sample' = [sample EXCEPT ![t] = Epoch]
    /\ observed' = [observed EXCEPT ![t] = <<0, 0>>]
    /\ tries' = [tries EXCEPT ![t] = 0]

\* Not enough tokens: refused, with no store.
Refuse(t) ==
    /\ pc[t] = "try"
    /\ charged(observed[t], sample[t].ms) > Capacity
    /\ Return(t)
    /\ UNCHANGED <<laps, ms, deficit, last, stamp, opened, admitted>>

\* The compare-exchange succeeds: admitted.  A store that stamps the slot may
\* also be where an observer starts to count.
Admit(t) ==
    /\ pc[t] = "try"
    /\ charged(observed[t], sample[t].ms) <= Capacity
    /\ slot = observed[t]
    /\ deficit' = charged(observed[t], sample[t].ms)
    /\ IF stamps(observed[t], sample[t].ms)
       THEN /\ last' = sample[t].ms
            /\ stamp' = sample[t]
            /\ \/ opened' = sample[t] /\ admitted' = 1
               \/ opened' = opened /\ admitted' = admitted + 1
       ELSE /\ admitted' = admitted + 1
            /\ UNCHANGED <<last, stamp, opened>>
    /\ Return(t)
    /\ UNCHANGED <<laps, ms>>

\* It fails, because the slot has changed or spuriously (the weak form may):
\* try again with the word now there, at most CAS_ATTEMPTS times, then refuse.
Contend(t) ==
    /\ pc[t] = "try"
    /\ charged(observed[t], sample[t].ms) <= Capacity
    /\ \/ /\ tries[t] + 1 < CasAttempts
          /\ observed' = [observed EXCEPT ![t] = slot]
          /\ tries' = [tries EXCEPT ![t] = @ + 1]
          /\ UNCHANGED <<pc, sample>>
       \/ tries[t] + 1 >= CasAttempts /\ Return(t)
    /\ UNCHANGED <<laps, ms, deficit, last, stamp, opened, admitted>>

\* A millisecond passes, unless it would make a sample in use stale.
Tick ==
    /\ \A t \in Tasks :
          pc[t] # "idle" => Time(clock) + 1 - Time(sample[t]) < Stale
    /\ \/ ms + 1 < Wrap /\ ms' = ms + 1 /\ laps' = laps
       \/ ms + 1 = Wrap /\ laps < MaxLaps /\ ms' = 0 /\ laps' = laps + 1
    /\ UNCHANGED <<deficit, last, pc, sample, observed, tries, stamp, opened,
                   admitted>>

Next ==
    \/ Tick
    \/ \E t \in Tasks : Sample(t) \/ Load(t) \/ Refuse(t) \/ Admit(t) \/ Contend(t)

Spec == Init /\ [][Next]_vars

-----------------------------------------------------------------------------
(* Properties. *)

Clocks == [laps : Nat, ms : 0..(Wrap - 1)]

\* Every variable keeps its type; the deficit never outgrows the capacity,
\* so it fits its 30 bits and pack loses nothing (ratelimit.rs:93-97).
TypeOK ==
    /\ clock \in Clocks
    /\ deficit \in 0..Capacity
    /\ last \in 0..(Wrap - 1)
    /\ pc \in [Tasks -> {"idle", "load", "try"}]
    /\ sample \in [Tasks -> Clocks]
    /\ observed \in [Tasks -> (0..Capacity) \X (0..(Wrap - 1))]
    /\ tries \in [Tasks -> Nat]
    /\ stamp \in Clocks
    /\ opened \in Clocks
    /\ admitted \in Nat

\* The rate limit itself: over any window that starts at the epoch or at an
\* admission that stamped the slot, the tasks sharing a slot are admitted at
\* most `burst' queries plus what `qps' refills in it, whatever races,
\* spurious failures, stale samples and wraps of the clock occur.
AdmissionBound ==
    Milli * admitted <= Capacity + Refill * (Time(clock) - Time(opened))

\* A task that holds an old clock reading never drags a slot's stamp back
\* ("the last-writer-wins hazard", ratelimit.rs:375-380).
StampNeverGoesBack == [][Time(stamp') >= Time(stamp)]_vars

\* However long a slot has been left alone, and wherever in the wrap a client
\* starts to ask, it is admitted after at most the stale band and the refill
\* of one token: no reachable word denies for days (ratelimit.rs:132-136).
NeverStarved ==
    \A start \in 0..(Wrap - 1) :
        \E wait \in 0..(Stale + (Milli + Refill - 1) \div Refill) :
            charged(slot, (start + wait) % Wrap) <= Capacity
-----------------------------------------------------------------------------
(***************************************************************************)
(* What makes AdmissionBound inductive: the same bound at the slot's own   *)
(* stamp with the deficit in the place of the capacity, and the order of   *)
(* the instants it speaks of.                                              *)
(***************************************************************************)
InstantsOrdered ==
    /\ last = stamp.ms
    /\ Time(opened) <= Time(stamp)
    /\ Time(stamp) <= Time(clock)
    /\ \A t \in Tasks :
          pc[t] # "idle" =>
              /\ Time(sample[t]) <= Time(clock)
              /\ Time(clock) - Time(sample[t]) < Stale

BoundAtStamp ==
    Milli * admitted <= deficit + Refill * (Time(stamp) - Time(opened))

\* The inductive invariant behind AdmissionBound: every milli-token handed
\* out in the window is still owed by the slot or was refilled since.
IInv == TypeOK /\ InstantsOrdered /\ BoundAtStamp
=============================================================================
