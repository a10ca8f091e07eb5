--------------------------- MODULE Shutdown_proof ---------------------------
(***************************************************************************)
(* The order of a shutdown, when its sockets go and what its exit code     *)
(* says, for every window, budget, cap, poll and grace, every number of    *)
(* queries and of signals.  The inductive invariant ties everything to the *)
(* program counter of the main task; each of its parts has a lemma.        *)
(***************************************************************************)
EXTENDS Shutdown, FiniteSetTheorems, TLAPS

\* The steps of everything but the main task and its clock.
Elsewhere ==
    \/ \E c \in {"term", "int"} : Deliver(c)
    \/ Bump \/ AdminFails \/ AbortBump
    \/ \E q \in Queries : QueryEnters(q) \/ QueryLeaves(q)
    \/ ListenersDie \/ AdminCloses \/ ReloadStarts \/ ReloadReturns

\* The steps in which the main task only moves on to its next phase.
Proceeds ==
    \/ BecomeReady \/ FirstSignal \/ CancelDrainStart \/ EnterDraining
    \/ OpenWindow \/ WindowEnds \/ LoadTotal \/ LoadLatency \/ Poll \/ CancelDns
    \/ Joined

\* The steps after which nothing is left to wait for but the blocking pool.
Returns == BailOut \/ CancelAdmin \/ AdminWaitEnds \/ HardDeadline

\* The steps that move neither the main task nor its state.
Outside == ProcessExits \/ Wedge \/ Watchdog

\* Every step is of one of these kinds.
LEMMA StepKinds ==
    Next <=> Elsewhere \/ Proceeds \/ Returns \/ Outside \/ Tick
BY DEF Next, Main, Elsewhere, Proceeds, Returns, Outside

-----------------------------------------------------------------------------
(* Types. *)

\* The initial state has its types.
LEMMA InitType == Init => TypeOK
<1> SUFFICES ASSUME Init PROVE TypeOK
    OBVIOUS
<1>1. Numbers
    BY DEF Init, Numbers
<1>2. Flags
    BY DEF Init, Flags
<1>3. States
    BY DEF Init, States, Pcs, Causes, Starting, Closing
<1> QED
    BY <1>1, <1>2, <1>3 DEF Init, TypeOK

\* Every step keeps the types.  That the process ends with a code of its own
\* rests on the phase invariant: there is one by the time it returns.
LEMMA StepType == ASSUME TypeOK, PhaseInv, Next PROVE TypeOK'
<1> USE DEF TypeOK, signalVars, tokens, waits, counters, ends, history, MainAt
<1>1. CASE Elsewhere
    <2> USE <1>1 DEF Deliver, Bump, AdminFails, AbortBump, QueryEnters, QueryLeaves,
            ListenersDie, AdminCloses, ReloadStarts, ReloadReturns
    <2>1. Numbers'
        BY DEF Elsewhere, Numbers
    <2>2. Flags'
        <3> USE DEF Flags
        <3>1. ASSUME NEW c \in {"term", "int"}, Deliver(c)
              PROVE  Flags'
            BY ONLY <3>1, TypeOK
        <3>2. CASE Bump \/ AdminFails \/ AbortBump
            BY ONLY <3>2, TypeOK
        <3>3. ASSUME NEW q \in Queries, QueryEnters(q) \/ QueryLeaves(q)
              PROVE  Flags'
            BY ONLY <3>3, TypeOK
        <3>4. CASE ListenersDie
            BY ONLY <3>4, TypeOK
        <3>5. CASE AdminCloses
            BY ONLY <3>5, TypeOK
        <3>6. CASE ReloadStarts
            BY ONLY <3>6, TypeOK
        <3>7. CASE ReloadReturns
            BY ONLY <3>7, TypeOK
        <3> HIDE DEF Deliver, Bump, AdminFails, AbortBump, QueryEnters, QueryLeaves,
                ListenersDie, AdminCloses, ReloadStarts, ReloadReturns, Flags
        <3> QED
            BY ONLY <1>1, <3>1, <3>2, <3>3, <3>4, <3>5, <3>6, <3>7 DEF Elsewhere
    <2>3. States'
        BY DEF Elsewhere, States, Pcs, Causes, Starting, Closing, SetCause
    <2>4. query' \in [Queries -> {"idle", "inflight", "done", "killed"}]
        BY DEF Elsewhere
    <2> QED
        BY ONLY <2>1, <2>2, <2>3, <2>4 DEF TypeOK
<1>2. CASE Proceeds
    <2> USE <1>2 DEF BecomeReady, FirstSignal, CancelDrainStart, EnterDraining,
            OpenWindow, WindowEnds, LoadTotal, LoadLatency, Poll, CancelDns, Joined
    <2>1. Numbers'
        BY TimingAssumption DEF Proceeds, Numbers, drain_window, in_flight
    <2>2. Flags'
        <3> USE DEF Flags
        <3>1. CASE BecomeReady \/ FirstSignal \/ EnterDraining \/ OpenWindow
            BY ONLY <3>1, TypeOK
        <3>2. CASE CancelDrainStart
            BY ONLY <3>2, TypeOK
        <3>3. CASE WindowEnds
            BY ONLY <3>3, TypeOK
        <3>4. CASE LoadTotal \/ LoadLatency \/ Joined
            BY ONLY <3>4, TypeOK
        <3>5. CASE Poll
            BY ONLY <3>5, TypeOK
        <3>6. CASE CancelDns
            BY ONLY <3>6, TypeOK
        <3> QED
            BY <3>1, <3>2, <3>3, <3>4, <3>5, <3>6, Zenon DEF Proceeds
    <2>3. States'
        BY DEF Proceeds, States, Pcs, Causes, Starting, Closing, enter, Serving, Draining,
            Stopping
    <2>4. query' \in [Queries -> {"idle", "inflight", "done", "killed"}]
        BY DEF Proceeds
    <2> QED
        BY ONLY <2>1, <2>2, <2>3, <2>4 DEF TypeOK
<1>3. CASE Returns
    <2> USE <1>3 DEF Returns, BailOut, CancelAdmin, AdminWaitEnds,
            HardDeadline
    <2>1. Numbers'
        BY TimingAssumption DEF Numbers
    <2>2. Flags'
        BY DEF Flags
    <2>3. States'
        BY DEF States, Pcs, Causes, Starting, Closing
    <2>4. query' \in [Queries -> {"idle", "inflight", "done", "killed"}]
        OBVIOUS
    <2> QED
        BY ONLY <2>1, <2>2, <2>3, <2>4 DEF TypeOK
<1>4. CASE Outside
    <2> USE <1>4 DEF Outside, ProcessExits, Wedge, Watchdog
    <2>1. Numbers'
        BY DEF Numbers
    <2>2. Flags'
        BY DEF Flags
    <2>3. States'
        BY DEF States, Pcs, Causes, Starting, Closing, PhaseInv
    <2>4. query' \in [Queries -> {"idle", "inflight", "done", "killed"}]
        OBVIOUS
    <2> QED
        BY ONLY <2>1, <2>2, <2>3, <2>4 DEF TypeOK
<1>5. CASE Tick
    <2> USE <1>5 DEF Tick
    <2>1. Numbers'
        BY DEF Numbers
    <2>2. Flags'
        BY DEF Flags
    <2>3. States'
        BY DEF States, Pcs, Causes, Starting, Closing
    <2>4. query' \in [Queries -> {"idle", "inflight", "done", "killed"}]
        OBVIOUS
    <2> QED
        BY ONLY <2>1, <2>2, <2>3, <2>4 DEF TypeOK
<1> QED
    BY <1>1, <1>2, <1>3, <1>4, <1>5, StepKinds

-----------------------------------------------------------------------------
(* The parts of the invariant. *)

\* The deadline never strikes while the main task sleeps on a timer of its
\* own: QUIESCE_CAP is shorter than STOP_BUDGET.
LEMMA DeadlineStrikesLate ==
    ASSUME TypeOK, PhaseInv, TokenInv, TimerInv, QuiesceInv, HardDeadline
    PROVE  \/ pc = "joining"
           \/ /\ pc = "adminWait"
              /\ joinedAt - dnsAt > StopBudget - QuiesceCap - AdminBudget
<1> USE TimingAssumption
    DEF HardDeadline, Awaiting, Ready, Expired, deadline, TypeOK, Numbers, TimerInv
<1>1. pc # "draining"
    OBVIOUS
<1>2. pc # "polling"
    BY DEF QuiesceInv, Quiescing
<1>3. ASSUME pc = "adminWait"
      PROVE  joinedAt - dnsAt > StopBudget - QuiesceCap - AdminBudget
    <2>1. dns /\ dnsAt <= window + QuiesceCap
        BY <1>3 DEF PhaseInv, TokenInv, QuiesceInv, Closing
    <2>2. now < joinedAt + AdminBudget
        BY <1>3
    <2> QED
        BY <2>1, <2>2
<1> QED
    BY <1>1, <1>2, <1>3

\* The phase follows the program counter.
LEMMA StepPhase ==
    ASSUME TypeOK, PhaseInv, TokenInv, TimerInv, QuiesceInv, Next
    PROVE  PhaseInv'
<1> USE DEF PhaseInv, Quiescing, Starting, Serving, Draining, Stopping, Closing,
        signalVars, tokens, waits, counters, ends, history, enter, MainAt
<1>1. CASE Elsewhere
    BY <1>1 DEF Elsewhere, Deliver, Bump, AdminFails, AbortBump, QueryEnters,
        QueryLeaves, ListenersDie, AdminCloses, ReloadStarts, ReloadReturns
<1>2. CASE Proceeds
    BY <1>2 DEF Proceeds, BecomeReady, FirstSignal, CancelDrainStart,
        EnterDraining, OpenWindow, WindowEnds, LoadTotal, LoadLatency, Poll,
        CancelDns, Joined
<1>3. CASE BailOut
    BY <1>3 DEF BailOut
<1>4. CASE CancelAdmin
    BY <1>4 DEF CancelAdmin
<1>5. CASE AdminWaitEnds
    BY <1>5 DEF AdminWaitEnds
<1>6. CASE HardDeadline
    BY <1>6, DeadlineStrikesLate DEF HardDeadline
<1>7. CASE Outside \/ Tick
    BY <1>7 DEF Outside, ProcessExits, Wedge, Watchdog, Tick
<1> QED
    BY <1>1, <1>2, <1>3, <1>4, <1>5, <1>6, <1>7, StepKinds DEF Returns

\* The tokens follow the phase.
LEMMA StepTokens ==
    ASSUME TypeOK, PhaseInv, TokenInv, TimerInv, QuiesceInv, Next
    PROVE  TokenInv'
<1> USE DEF TypeOK, Flags, States, PhaseInv, TokenInv, Quiescing, Starting, Serving, Draining,
        Stopping, Closing, signalVars, tokens, waits, counters, ends, history,
        enter, MainAt
<1>1. CASE Elsewhere
    BY <1>1 DEF Elsewhere, Deliver, Bump, AdminFails, AbortBump, QueryEnters,
        QueryLeaves, ListenersDie, AdminCloses, ReloadStarts, ReloadReturns
<1>2. CASE Proceeds
    BY <1>2 DEF Proceeds, BecomeReady, FirstSignal, CancelDrainStart,
        EnterDraining, OpenWindow, WindowEnds, LoadTotal, LoadLatency, Poll,
        CancelDns, Joined
<1>3. CASE BailOut
    BY <1>3 DEF BailOut
<1>4. CASE CancelAdmin
    BY <1>4 DEF CancelAdmin
<1>5. CASE AdminWaitEnds
    BY <1>5 DEF AdminWaitEnds
<1>6. CASE HardDeadline
    BY <1>6, DeadlineStrikesLate DEF HardDeadline
<1>7. CASE Outside \/ Tick
    BY <1>7 DEF Outside, ProcessExits, Wedge, Watchdog, Tick
<1> QED
    BY <1>1, <1>2, <1>3, <1>4, <1>5, <1>6, <1>7, StepKinds DEF Returns

\* Both tasks record a cause before they count; the main task reads it after.
LEMMA StepSignals ==
    ASSUME TypeOK, PhaseInv, SignalInv, Next
    PROVE  SignalInv'
<1> USE DEF TypeOK, Numbers, States, Pcs, Causes, SignalInv, Shutting, signalVars,
        tokens, waits, counters, ends, history, MainAt
<1>1. CASE Elsewhere
    BY <1>1 DEF Elsewhere, Deliver, SetCause, Bump, AdminFails, AbortBump,
        QueryEnters, QueryLeaves, ListenersDie, AdminCloses, ReloadStarts,
        ReloadReturns
<1>2. CASE FirstSignal
    BY <1>2 DEF FirstSignal, FirstCause
<1>3. CASE Proceeds /\ ~FirstSignal
    BY <1>3 DEF Proceeds, BecomeReady, CancelDrainStart, EnterDraining,
        OpenWindow, WindowEnds, LoadTotal, LoadLatency, Poll, CancelDns, Joined
<1>4. CASE Returns
    BY <1>4 DEF PhaseInv, Returns, BailOut, CancelAdmin, AdminWaitEnds,
        HardDeadline, Awaiting
<1>5. CASE Outside \/ Tick
    BY <1>5 DEF Outside, ProcessExits, Wedge, Watchdog, Tick
<1> QED
    BY <1>1, <1>2, <1>3, <1>4, <1>5, StepKinds

\* No timer of the main task is overslept while the runtime polls it.
LEMMA StepTimers ==
    ASSUME TypeOK, PhaseInv, SignalInv, TimerInv, QuiesceInv, Next
    PROVE  TimerInv'
<1> USE TimingAssumption
    DEF TypeOK, Numbers, Flags, States, Pcs, TimerInv, Quiescing, Shutting,
        deadline, signalVars, tokens, waits, counters, ends, history, MainAt
<1>1. CASE Elsewhere
    BY <1>1 DEF Elsewhere, Deliver, Bump, AdminFails, AbortBump, QueryEnters,
        QueryLeaves, ListenersDie, AdminCloses, ReloadStarts, ReloadReturns
<1>2. CASE BecomeReady \/ CancelDrainStart \/ EnterDraining
    BY <1>2 DEF PhaseInv, BecomeReady, CancelDrainStart, EnterDraining
<1>3. CASE FirstSignal
    BY <1>3 DEF FirstSignal, drain_window
<1>4. CASE OpenWindow
    BY <1>4 DEF PhaseInv, SignalInv, OpenWindow
<1>5. CASE WindowEnds
    BY <1>5 DEF WindowEnds
<1>6. CASE LoadLatency
    BY <1>6 DEF PhaseInv, SignalInv, LoadLatency, QuiesceReturns
<1>7. CASE LoadTotal \/ Poll \/ CancelDns
    BY <1>7 DEF LoadTotal, Poll, CancelDns
<1>8. CASE Joined
    BY <1>8 DEF Joined
<1>9. CASE CancelAdmin
    BY <1>9 DEF CancelAdmin
<1>10. CASE BailOut \/ AdminWaitEnds \/ HardDeadline
    BY <1>10 DEF BailOut, AdminWaitEnds, HardDeadline
<1>11. CASE Outside
    BY <1>11 DEF Outside, ProcessExits, Wedge, Watchdog
<1>12. CASE Tick
    BY <1>12 DEF PhaseInv, Tick, Idle, Awaiting, Ready, Expired
<1> QED
    BY <1>1, <1>2, <1>3, <1>4, <1>5, <1>6, <1>7, <1>8, <1>9, <1>10, <1>11,
       <1>12, StepKinds DEF Proceeds, Returns

\* Quiesce ends within its cap, and early only for a reason.
LEMMA StepQuiesce ==
    ASSUME TypeOK, PhaseInv, TokenInv, SignalInv, TimerInv, QuiesceInv, Next
    PROVE  QuiesceInv'
<1> USE TimingAssumption
    DEF TypeOK, Numbers, Flags, States, Pcs, QuiesceInv, Quiescing,
        signalVars, tokens, waits, counters, ends, history, MainAt
<1>1. CASE Elsewhere
    BY <1>1 DEF Elsewhere, Deliver, Bump, AdminFails, AbortBump, QueryEnters,
        QueryLeaves, ListenersDie, AdminCloses, ReloadStarts, ReloadReturns
<1>2. CASE BecomeReady \/ FirstSignal \/ CancelDrainStart \/ EnterDraining
    BY <1>2 DEF TokenInv, PhaseInv, BecomeReady, FirstSignal, CancelDrainStart,
        EnterDraining, Starting, Serving, Draining, Stopping, Closing
<1>3. CASE OpenWindow \/ LoadTotal
    BY <1>3 DEF OpenWindow, LoadTotal
<1>4. CASE WindowEnds
    <2>1. ~dns /\ (cap' <= window' + QuiesceCap \/ wedged)
        BY <1>4 DEF WindowEnds, TimerInv, TokenInv, PhaseInv, Draining, Closing,
            Stopping
    <2> QED
        BY <1>4, <2>1 DEF WindowEnds, Expired, SignalledAgain, TimerInv
<1>5. CASE LoadLatency
    BY <1>5 DEF LoadLatency, QuiesceReturns, TimerInv, TokenInv, PhaseInv,
        Stopping, Closing
<1>6. CASE Poll
    BY <1>6 DEF Poll, SignalledAgain, TimerInv
<1>7. CASE CancelDns
    BY <1>7 DEF CancelDns, TimerInv
<1>8. CASE Joined
    BY <1>8 DEF Joined
<1>9. CASE Returns
    BY <1>9 DEF Returns, BailOut, CancelAdmin, AdminWaitEnds, HardDeadline
<1>10. CASE Outside
    BY <1>10 DEF Outside, ProcessExits, Wedge, Watchdog
<1>11. CASE Tick
    BY <1>11 DEF Tick, Idle, Awaiting
<1> QED
    BY <1>1, <1>2, <1>3, <1>4, <1>5, <1>6, <1>7, <1>8, <1>9, <1>10, <1>11,
       StepKinds DEF Proceeds

\* A set of queries has one more or one less with a query put in or taken out.
LEMMA OneQuery ==
    ASSUME NEW S \in SUBSET Queries, NEW q \in Queries
    PROVE  /\ Cardinality(S) \in Nat
           /\ q \notin S => Cardinality(S \cup {q}) = Cardinality(S) + 1
           /\ q \in S => Cardinality(S \ {q}) = Cardinality(S) - 1
BY TimingAssumption, FS_Subset, FS_CardinalityType, FS_AddElement, FS_RemoveElement

\* The counters follow the queries, and the sample follows the counters.
LEMMA StepCounts ==
    ASSUME TypeOK, PhaseInv, TokenInv, CountInv, Next
    PROVE  CountInv'
<1> USE DEF TypeOK, Numbers, signalVars, tokens, waits, counters, ends, history, MainAt
<1>1. CASE \E q \in Queries : QueryEnters(q)
    <2>1. PICK q \in Queries : QueryEnters(q)
        BY <1>1
    <2>2. q \notin Unanswered /\ Unanswered' = Unanswered \cup {q}
        BY <2>1 DEF QueryEnters, Unanswered
    <2>3. Cardinality(Unanswered') = Cardinality(Unanswered) + 1 /\ Cardinality(Unanswered) \in Nat
        BY <2>2, OneQuery DEF Unanswered
    <2> QED
        BY <2>1, <2>3 DEF QueryEnters, CountInv
<1>2. CASE \E q \in Queries : QueryLeaves(q)
    <2>1. PICK q \in Queries : QueryLeaves(q)
        BY <1>2
    <2>2. q \in Unanswered /\ Unanswered' = Unanswered \ {q}
        BY <2>1 DEF QueryLeaves, Unanswered
    <2>3. Cardinality(Unanswered') = Cardinality(Unanswered) - 1 /\ Cardinality(Unanswered) \in Nat
        BY <2>2, OneQuery DEF Unanswered
    <2> QED
        BY <2>1, <2>3 DEF QueryLeaves, CountInv
<1>3. CASE LoadTotal
    <2>1. Unanswered' = Unanswered /\ ~dns
        BY <1>3 DEF LoadTotal, Unanswered, PhaseInv, TokenInv, Quiescing, Stopping, Closing
    <2> QED
        BY <1>3, <2>1 DEF LoadTotal, CountInv
<1>4. CASE LoadLatency
    <2>1. Unanswered' = Unanswered /\ ~dns
        BY <1>4 DEF LoadLatency, Unanswered, PhaseInv, TokenInv, Quiescing, Stopping, Closing
    <2> QED
        BY <1>4, <2>1 DEF LoadLatency, CountInv, in_flight
<1>5. CASE Joined
    <2>1. Unanswered' = Unanswered
        BY <1>5 DEF Joined, Unanswered
    <2> QED
        BY <1>5, <2>1 DEF Joined, CountInv
<1>6. CASE CancelDns
    <2>1. Unanswered' = Unanswered
        BY <1>6 DEF CancelDns, Unanswered
    <2> QED
        BY <1>6, <2>1 DEF CancelDns, CountInv
<1>7. CASE /\ UNCHANGED <<query, queries_total, latency_count, sample, abandoned, dns>>
           /\ pc' # "cancelDns" \/ pc' = pc
    <2>1. Unanswered' = Unanswered
        BY <1>7 DEF Unanswered
    <2> QED
        BY <1>7, <2>1 DEF CountInv
<1>8. CASE Elsewhere
    BY <1>1, <1>2, <1>7, <1>8 DEF Elsewhere, Deliver, Bump, AdminFails, AbortBump,
        ListenersDie, AdminCloses, ReloadStarts, ReloadReturns
<1>9. CASE Proceeds
    BY <1>3, <1>4, <1>5, <1>6, <1>7, <1>9 DEF Proceeds, BecomeReady, FirstSignal,
        CancelDrainStart, EnterDraining, OpenWindow, WindowEnds, Poll
<1>10. CASE Returns \/ Outside \/ Tick
    BY <1>7, <1>10 DEF Returns, BailOut, CancelAdmin, AdminWaitEnds, HardDeadline,
        Outside, ProcessExits, Wedge, Watchdog, Tick
<1> QED
    BY <1>8, <1>9, <1>10, StepKinds

\* The exit code has the reason it stands for.
LEMMA StepExit ==
    ASSUME TypeOK, PhaseInv, TokenInv, SignalInv, TimerInv, QuiesceInv, ExitInv,
           Next
    PROVE  ExitInv'
<1> USE TimingAssumption
    DEF TypeOK, Numbers, Flags, States, Pcs, ExitInv, InFlight, Up, Shutting,
        deadline, watchdogAt, signalVars, tokens, waits, counters, ends,
        history, MainAt
<1>1. CASE \E q \in Queries : QueryEnters(q) \/ QueryLeaves(q)
    BY <1>1 DEF QueryEnters, QueryLeaves, TokenInv
<1>2. CASE ReloadStarts \/ ReloadReturns
    BY <1>2 DEF ReloadStarts, ReloadReturns
<1>3. CASE \/ \E c \in {"term", "int"} : Deliver(c)
           \/ Bump \/ AdminFails \/ AbortBump \/ ListenersDie \/ AdminCloses
    BY <1>3 DEF Deliver, Bump, AdminFails, AbortBump, ListenersDie, AdminCloses
<1>4. CASE Proceeds
    BY <1>4 DEF Proceeds, BecomeReady, FirstSignal, CancelDrainStart,
        EnterDraining, OpenWindow, WindowEnds, LoadTotal, LoadLatency, Poll,
        CancelDns, Joined, enter, PhaseInv, Serving, Draining, Stopping, Closing
<1>5. CASE BailOut
    BY <1>5 DEF BailOut
<1>6. CASE CancelAdmin \/ AdminWaitEnds
    BY <1>6 DEF CancelAdmin, AdminWaitEnds, PhaseInv, TimerInv
<1>7. CASE HardDeadline
    BY <1>7, DeadlineStrikesLate DEF HardDeadline, PhaseInv, TokenInv
<1>8. CASE ProcessExits
    BY <1>8 DEF ProcessExits, PhaseInv
<1>9. CASE Wedge
    BY <1>9 DEF Wedge
<1>10. CASE Watchdog
    BY <1>10 DEF Watchdog, PhaseInv, TimerInv
<1>11. CASE Tick
    BY <1>11 DEF Tick, Idle, PhaseInv
<1> QED
    BY <1>1, <1>2, <1>3, <1>4, <1>5, <1>6, <1>7, <1>8, <1>9, <1>10, <1>11,
       StepKinds DEF Elsewhere, Returns, Outside

-----------------------------------------------------------------------------
(* The theorems. *)

\* The invariant is inductive.
THEOREM Invariance == Spec => []IInv
<1>1. Init => IInv
    <2> SUFFICES ASSUME Init PROVE IInv
        OBVIOUS
    <2>1. TypeOK
        BY InitType
    <2>2. PhaseInv /\ TokenInv
        BY DEF Init, PhaseInv, TokenInv, Quiescing, Starting, Draining, Closing
    <2>3. SignalInv /\ TimerInv /\ QuiesceInv
        BY DEF Init, SignalInv, TimerInv, QuiesceInv, Shutting, Quiescing
    <2>4. ExitInv
        BY DEF Init, ExitInv, InFlight, Starting, Closing
    <2>5. CountInv
        <3>1. Unanswered = {}
            BY DEF Init, Unanswered
        <3> QED
            BY <3>1, FS_EmptySet DEF Init, CountInv
    <2> QED
        BY <2>1, <2>2, <2>3, <2>4, <2>5 DEF IInv
<1>2. IInv /\ [Next]_vars => IInv'
    <2>1. ASSUME IInv, Next PROVE IInv'
        BY <2>1, StepType, StepPhase, StepTokens, StepSignals, StepTimers,
           StepQuiesce, StepCounts, StepExit DEF IInv
    <2>2. ASSUME IInv, UNCHANGED vars PROVE IInv'
        BY <2>2
        DEF vars, signalVars, tokens, waits, counters, ends, history, IInv,
            TypeOK, Numbers, Flags, States, PhaseInv, TokenInv, SignalInv,
            TimerInv, QuiesceInv, CountInv, Unanswered, ExitInv, Shutting, InFlight, deadline,
            watchdogAt
    <2> QED
        BY <2>1, <2>2
<1> QED
    BY <1>1, <1>2, PTL DEF Spec

\* Every variable keeps its type.
THEOREM Typing == Spec => []TypeOK
BY Invariance, PTL DEF IInv

\* /reload is closed before /readyz says 503, /readyz has said 503 before a
\* DNS socket goes, and the admin listener outlives DNS (main.rs:394-408).
THEOREM CancelledInOrderHolds == Spec => []CancelledInOrder
<1>1. IInv => CancelledInOrder
    BY DEF IInv, PhaseInv, TokenInv, CancelledInOrder, Serving, Draining,
        Stopping, Closing, TypeOK, States, Starting
<1> QED
    BY <1>1, Invariance, PTL

\* The DNS sockets stay for the window of the signal that was sent, and for
\* QUIESCE_CAP after it at most (main.rs:510-520, 676-697); and the queries that
\* go with them are known but for those that came in last (metrics.rs:173-178).
THEOREM SocketsGoOnTimeHolds == Spec => []SocketsGoOnTime
<1>1. IInv => SocketsGoOnTime
    <2> SUFFICES ASSUME IInv PROVE SocketsGoOnTime
        OBVIOUS
    <2> USE TimingAssumption DEF IInv, TypeOK, Numbers
    <2>1. CauseKnownWhenSeen
        BY DEF SignalInv, CauseKnownWhenSeen
    <2>2. dns => Shutting
        BY DEF PhaseInv, TokenInv, Shutting, Starting, Serving, Closing
    <2>3. WindowHonoured
        BY <2>1, <2>2
        DEF QuiesceInv, WindowHonoured, CauseKnownWhenSeen, drain_window
    <2>4. QuiesceBounded
        BY DEF QuiesceInv, QuiesceBounded
    <2>5. MissesOnlyNewcomers
        <3>1. Cardinality(Unanswered) \in Nat
            BY FS_Subset, FS_CardinalityType DEF Unanswered
        <3> QED
            BY <3>1 DEF CountInv, MissesOnlyNewcomers
    <2> QED
        BY <2>1, <2>3, <2>4, <2>5 DEF SocketsGoOnTime
<1> QED
    BY <1>1, Invariance, PTL

\* 0 only after every phase, 1 only when the listeners died by themselves, 3
\* only for something that was really stuck (main.rs:71-75, 645-656).
THEOREM ExitCodeTruthfulHolds == Spec => []ExitCodeTruthful
<1>1. IInv => ExitCodeTruthful
    BY DEF IInv, PhaseInv, TokenInv, ExitInv, ExitCodeTruthful,
        OverrunOnlyIfStuck, Serving, Draining, Closing
<1> QED
    BY <1>1, Invariance, PTL
=============================================================================
