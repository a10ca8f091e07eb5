------------------------------ MODULE Shutdown ------------------------------
(***************************************************************************)
(* The life of a `vega serve' process: main::serve and Shutdown::run, with *)
(* the signal counter (src/shutdown.rs), the lifecycle phase               *)
(* (src/lifecycle.rs) and the in-flight estimate (src/metrics.rs) they     *)
(* share with the signal task, the admin task, the query tasks and the     *)
(* blocking pool.                                                          *)
(*                                                                         *)
(* Time.  `now' counts ticks from the instant the first signal is seen;    *)
(* nothing is timed before it.  The main task is prompt: a tick does not   *)
(* pass while it has something to do or a timer of its own is due, unless  *)
(* the runtime is wedged, which may happen at any moment of the shutdown.  *)
(* What the main task waits for (hickory's block_until_done, the admin     *)
(* server's graceful close, a blocking reload) may take any time at all.   *)
(***************************************************************************)
EXTENDS Naturals, FiniteSets

CONSTANTS
    Queries,       \* DNS requests arriving during the process's life
    Window,        \* server.shutdown_drain
    StopBudget,    \* STOP_BUDGET
    QuiesceCap,    \* QUIESCE_CAP
    QuiescePoll,   \* QUIESCE_POLL
    AdminBudget,   \* ADMIN_CLOSE_BUDGET
    Grace,         \* WATCHDOG_GRACE
    MaxSignals     \* bound on the signals sent

ASSUME TimingAssumption ==
    /\ {Window, StopBudget, QuiesceCap, AdminBudget, MaxSignals} \subseteq Nat
    /\ {QuiescePoll, Grace} \subseteq Nat \ {0}
    /\ QuiesceCap + AdminBudget < StopBudget
    /\ IsFiniteSet(Queries)

\* Phase, as the ranks the AtomicU8 holds.
Starting == 0
Serving == 1
Draining == 2
Stopping == 3
Closing == 4

Causes == {"term", "int", "abort"}

VARIABLES
    now,            \* ticks since the first signal was seen
    phase,          \* Lifecycle.phase
    count,          \* Signals.count
    cause,          \* Signals.cause, a OnceLock
    listener,       \* the signal task: "recv", or "bump" between its two writes
    sent,           \* signals sent so far
    drain_start,    \* the three cancellation tokens
    dns,
    admin,
    pc,             \* where the main task is
    window,         \* the drain window this shutdown uses
    baseline,       \* the count `again' started from
    wake,           \* the timer the main task sleeps on
    cap,            \* when quiesce gives up
    hurried,        \* quiesce was told to hurry
    sample,         \* queries_total as read by the in_flight in progress
    abandoned,      \* what quiesce returned
    queries_total, latency_count,
    query,          \* [Queries -> "idle", "inflight", "done" or "killed"]
    sockets,        \* have the DNS listeners not died by themselves?
    adminTask,      \* "none", "running", "failing", "failed", "closed", "aborted"
    blocking,       \* a reload hook is running on the blocking pool
    wedged,         \* the runtime no longer polls the main task
    code,           \* the ExitCode main returned, or "none"
    exit,           \* the code the process ended with, or "running"
    dnsAt,          \* history: when the DNS token was cancelled
    joinedAt,       \* history: when block_until_done returned
    reloadAt        \* history: when the last reload hook returned

signalVars == <<count, cause, listener, sent>>
tokens == <<drain_start, dns, admin>>
waits == <<window, baseline, wake, cap, hurried>>
counters == <<queries_total, latency_count>>
ends == <<code, exit>>
history == <<dnsAt, joinedAt, reloadAt>>

vars == <<now, phase, signalVars, tokens, pc, waits, sample, abandoned,
          counters, query, sockets, adminTask, blocking, wedged, ends, history>>

Init ==
    /\ now = 0
    /\ phase = Starting
    /\ count = 0 /\ cause = "none" /\ listener = "recv" /\ sent = 0
    /\ drain_start = FALSE /\ dns = FALSE /\ admin = FALSE
    /\ pc = "starting"
    /\ window = 0 /\ baseline = 0 /\ wake = 0 /\ cap = 0 /\ hurried = FALSE
    /\ sample = 0 /\ abandoned = 0
    /\ queries_total = 0 /\ latency_count = 0
    /\ query = [q \in Queries |-> "idle"]
    /\ sockets = TRUE
    /\ adminTask \in {"none", "running"}
    /\ blocking = FALSE
    /\ wedged = FALSE
    /\ code = "none" /\ exit = "running"
    /\ dnsAt = 0 /\ joinedAt = 0 /\ reloadAt = 0

Up == exit = "running"

-----------------------------------------------------------------------------
(* src/shutdown.rs: signals. *)

\* OnceLock::set: only the first write takes.
SetCause(c) == cause' = IF cause = "none" THEN c ELSE cause

\* The signal task receives SIGTERM or SIGINT: `deliver' records the cause...
Deliver(c) ==
    /\ Up /\ listener = "recv" /\ sent < MaxSignals
    /\ SetCause(c)
    /\ listener' = "bump"
    /\ sent' = sent + 1
    /\ UNCHANGED <<now, phase, count, tokens, pc, waits, sample, abandoned,
                   counters, query, sockets, adminTask, blocking, wedged,
                   ends, history>>

\* ... and then publishes the signal.
Bump ==
    /\ Up /\ listener = "bump"
    /\ count' = count + 1
    /\ listener' = "recv"
    /\ UNCHANGED <<now, phase, cause, sent, tokens, pc, waits, sample,
                   abandoned, counters, query, sockets, adminTask, blocking,
                   wedged, ends, history>>

\* The admin server fails in mid-life: `abort' records the cause...
AdminFails ==
    /\ Up /\ adminTask = "running" /\ ~admin
    /\ SetCause("abort")
    /\ adminTask' = "failing"
    /\ UNCHANGED <<now, phase, count, listener, sent, tokens, pc, waits, sample,
                   abandoned, counters, query, sockets, blocking, wedged, ends,
                   history>>

\* ... and bumps the same counter.
AbortBump ==
    /\ Up /\ adminTask = "failing"
    /\ count' = count + 1
    /\ adminTask' = "failed"
    /\ UNCHANGED <<now, phase, cause, listener, sent, tokens, pc, waits, sample,
                   abandoned, counters, query, sockets, blocking, wedged, ends,
                   history>>

drain_window(c) == IF c = "term" THEN Window ELSE 0

\* `first' falls back to SIGTERM if no cause has been recorded.
FirstCause == IF cause = "none" THEN "term" ELSE cause

-----------------------------------------------------------------------------
(* Queries, the admin server, the blocking pool: the rest of the process. *)

\* handle_request starts: Metrics::query.
QueryEnters(q) ==
    /\ Up /\ sockets /\ ~dns
    /\ query[q] = "idle"
    /\ query' = [query EXCEPT ![q] = "inflight"]
    /\ queries_total' = queries_total + 1
    /\ UNCHANGED <<now, phase, signalVars, tokens, pc, waits, sample, abandoned,
                   latency_count, sockets, adminTask, blocking, wedged, ends,
                   history>>

\* The response is sent and observe_latency counts it.
QueryLeaves(q) ==
    /\ Up /\ query[q] = "inflight"
    /\ query' = [query EXCEPT ![q] = "done"]
    /\ latency_count' = latency_count + 1
    /\ UNCHANGED <<now, phase, signalVars, tokens, pc, waits, sample, abandoned,
                   queries_total, sockets, adminTask, blocking, wedged, ends,
                   history>>

\* The listeners die by themselves (a socket error inside hickory).
ListenersDie ==
    /\ Up /\ sockets /\ ~dns
    /\ sockets' = FALSE
    /\ UNCHANGED <<now, phase, signalVars, tokens, pc, waits, sample, abandoned,
                   counters, query, adminTask, blocking, wedged, ends, history>>

\* axum's graceful shutdown finishes: every connection is done.
AdminCloses ==
    /\ Up /\ adminTask = "running" /\ admin
    /\ adminTask' = "closed"
    /\ UNCHANGED <<now, phase, signalVars, tokens, pc, waits, sample, abandoned,
                   counters, query, sockets, blocking, wedged, ends, history>>

\* A /reload passes the handler's drain gate and its hook starts...
ReloadStarts ==
    /\ Up /\ adminTask = "running" /\ phase < Draining /\ ~blocking
    /\ blocking' = TRUE
    /\ UNCHANGED <<now, phase, signalVars, tokens, pc, waits, sample, abandoned,
                   counters, query, sockets, adminTask, wedged, ends, history>>

\* ... and returns, if it ever does (the file may be a FIFO with no writer).
ReloadReturns ==
    /\ Up /\ blocking
    /\ blocking' = FALSE
    /\ reloadAt' = now
    /\ UNCHANGED <<now, phase, signalVars, tokens, pc, waits, sample, abandoned,
                   counters, query, sockets, adminTask, wedged, ends, dnsAt,
                   joinedAt>>

-----------------------------------------------------------------------------
(* The main task. *)

MainAt(from) == Up /\ ~wedged /\ pc = from

\* Lifecycle::enter: refuses to go backwards.
enter(p) == phase' = IF phase >= p THEN phase ELSE p

\* Everything is bound: the process reports ready.
BecomeReady ==
    /\ MainAt("starting")
    /\ enter(Serving)
    /\ pc' = "serving"
    /\ UNCHANGED <<now, signalVars, tokens, waits, sample, abandoned, counters,
                   query, sockets, adminTask, blocking, wedged, ends, history>>

\* The select in `serve' sees the listeners gone and bails out.
BailOut ==
    /\ MainAt("serving") /\ ~sockets
    /\ admin' = TRUE
    /\ code' = "1"
    /\ pc' = "returned"
    /\ UNCHANGED <<now, phase, signalVars, drain_start, dns, waits, sample,
                   abandoned, counters, query, sockets, adminTask, blocking,
                   wedged, exit, history>>

\* ... or it sees the first signal: the window is chosen, the deadline and
\* the watchdog are armed (both are fixed offsets from now = 0).
FirstSignal ==
    /\ MainAt("serving") /\ count # 0
    /\ window' = drain_window(FirstCause)
    /\ pc' = "armed"
    /\ UNCHANGED <<now, phase, signalVars, tokens, baseline, wake, cap, hurried,
                   sample, abandoned, counters, query, sockets, adminTask,
                   blocking, wedged, ends, history>>

deadline == window + StopBudget
watchdogAt == deadline + Grace

\* Mutant of CancelDrainStart: the 503 goes out before /reload is closed.
AnnounceFirst ==
    /\ MainAt("armed")
    /\ enter(Draining)
    /\ pc' = "announce"
    /\ UNCHANGED <<now, signalVars, tokens, waits, sample, abandoned, counters,
                   query, sockets, adminTask, blocking, wedged, ends, history>>

\* Shutdown::run: /reload fails closed from here on...
CancelDrainStart ==
    /\ MainAt("armed")
    /\ drain_start' = TRUE
    /\ pc' = "announce"
    /\ UNCHANGED <<now, phase, signalVars, dns, admin, waits, sample, abandoned,
                   counters, query, sockets, adminTask, blocking, wedged, ends,
                   history>>

\* ... and /readyz answers 503.
EnterDraining ==
    /\ MainAt("announce")
    /\ enter(Draining)
    /\ pc' = "openWindow"
    /\ UNCHANGED <<now, signalVars, tokens, waits, sample, abandoned, counters,
                   query, sockets, adminTask, blocking, wedged, ends, history>>

\* Mutant of OpenWindow: the first signal is counted again.
OpenWindowFromZero ==
    /\ MainAt("openWindow")
    /\ baseline' = 0
    /\ wake' = now + window
    /\ pc' = "draining"
    /\ UNCHANGED <<now, phase, signalVars, tokens, window, cap, hurried, sample,
                   abandoned, counters, query, sockets, adminTask, blocking,
                   wedged, ends, history>>

\* The select over sleep(window) and again() is first polled.
OpenWindow ==
    /\ MainAt("openWindow")
    /\ baseline' = count
    /\ wake' = now + window
    /\ pc' = "draining"
    /\ UNCHANGED <<now, phase, signalVars, tokens, window, cap, hurried, sample,
                   abandoned, counters, query, sockets, adminTask, blocking,
                   wedged, ends, history>>

Expired == now >= wake
SignalledAgain == count > baseline

WindowEnds ==
    /\ MainAt("draining")
    /\ Expired \/ SignalledAgain
    /\ enter(Stopping)
    /\ cap' = now + QuiesceCap
    /\ pc' = "loadTotal"
    /\ UNCHANGED <<now, signalVars, tokens, window, baseline, wake, hurried,
                   sample, abandoned, counters, query, sockets, adminTask,
                   blocking, wedged, ends, history>>

InFlight == {q \in Queries : query[q] = "inflight"}

\* Metrics::in_flight is two loads: the total first...
LoadTotal ==
    /\ MainAt("loadTotal")
    /\ sample' = queries_total
    /\ pc' = "loadLatency"
    /\ UNCHANGED <<now, phase, signalVars, tokens, waits, abandoned, counters,
                   query, sockets, adminTask, blocking, wedged, ends, dnsAt,
                   joinedAt, reloadAt>>

\* ... then the count, subtracted with saturation.
in_flight ==
    IF sample > latency_count THEN sample - latency_count ELSE 0

QuiesceReturns == in_flight = 0 \/ now >= cap \/ hurried

\* The body of quiesce's loop after the sample.
LoadLatency ==
    /\ MainAt("loadLatency")
    /\ \/ /\ QuiesceReturns
          /\ abandoned' = in_flight
          /\ pc' = "cancelDns"
          /\ UNCHANGED <<baseline, wake>>
       \/ /\ ~QuiesceReturns
          /\ baseline' = count
          /\ wake' = IF now + QuiescePoll < cap THEN now + QuiescePoll ELSE cap
          /\ pc' = "polling"
          /\ UNCHANGED abandoned
    /\ UNCHANGED <<now, phase, signalVars, tokens, window, cap, hurried, sample,
                   counters, query, sockets, adminTask, blocking, wedged, ends,
                   history>>

\* The poll timer fires, or a further signal makes quiesce sample once more
\* and return whatever it finds.
Poll ==
    /\ MainAt("polling")
    /\ Expired \/ SignalledAgain
    /\ hurried' \in {h \in BOOLEAN : (h => SignalledAgain) /\ (~h => Expired)}
    /\ pc' = "loadTotal"
    /\ UNCHANGED <<now, phase, signalVars, tokens, window, baseline, wake, cap,
                   sample, abandoned, counters, query, sockets, adminTask,
                   blocking, wedged, ends, history>>

\* The DNS sockets go.
CancelDns ==
    /\ MainAt("cancelDns")
    /\ dns' = TRUE
    /\ dnsAt' = now
    /\ pc' = "joining"
    /\ UNCHANGED <<now, phase, signalVars, drain_start, admin, waits, sample,
                   abandoned, counters, query, sockets, adminTask, blocking,
                   wedged, ends, joinedAt, reloadAt>>

\* block_until_done returns, whether or not with an error; the tasks still
\* running have been aborted with the JoinSet.
Joined ==
    /\ MainAt("joining")
    /\ query' = [q \in Queries |->
                    IF query[q] = "inflight" THEN "killed" ELSE query[q]]
    /\ enter(Closing)
    /\ joinedAt' = now
    /\ pc' = "closing"
    /\ UNCHANGED <<now, signalVars, tokens, waits, sample, abandoned, counters,
                   sockets, adminTask, blocking, wedged, ends, dnsAt,
                   reloadAt>>

\* Mutant of CancelAdmin: the admin task is waited for without its budget.
CancelAdminUnbounded ==
    /\ MainAt("closing")
    /\ admin' = TRUE
    /\ pc' = "adminWait" /\ wake' = now + StopBudget
    /\ UNCHANGED <<now, phase, signalVars, drain_start, dns, window, baseline,
                   cap, hurried, sample, abandoned, counters, query, sockets,
                   adminTask, blocking, wedged, ends, history>>

\* The admin token goes last; without an admin task there is nothing to wait
\* for.
CancelAdmin ==
    /\ MainAt("closing")
    /\ admin' = TRUE
    /\ \/ /\ adminTask = "none"
          /\ pc' = "returned" /\ code' = "0" /\ UNCHANGED wake
       \/ /\ adminTask # "none"
          /\ pc' = "adminWait" /\ wake' = now + AdminBudget /\ UNCHANGED code
    /\ UNCHANGED <<now, phase, signalVars, drain_start, dns, window, baseline,
                   cap, hurried, sample, abandoned, counters, query, sockets,
                   adminTask, blocking, wedged, exit, history>>

\* The admin task ends, or its budget does and it is aborted.
AdminWaitEnds ==
    /\ MainAt("adminWait")
    /\ \/ adminTask \in {"closed", "failed"} /\ UNCHANGED adminTask
       \/ /\ adminTask \in {"running", "failing"} /\ Expired
          /\ adminTask' = "aborted"
    /\ pc' = "returned" /\ code' = "0"
    /\ UNCHANGED <<now, phase, signalVars, tokens, waits, sample, abandoned,
                   counters, query, sockets, blocking, wedged, exit, history>>

Awaiting == {"draining", "polling", "joining", "adminWait"}

\* Can the sequence itself go on from the await it is at?
Ready ==
    \/ pc \in {"draining", "polling"} /\ (Expired \/ SignalledAgain)
    \/ pc = "adminWait" /\ (Expired \/ adminTask \in {"closed", "failed"})

\* timeout_at polls the sequence first and drops it, at one of its awaits,
\* if it is not ready by the deadline.
HardDeadline ==
    /\ Up /\ ~wedged /\ pc \in Awaiting
    /\ now >= deadline /\ ~Ready
    /\ pc' = "returned" /\ code' = "3"
    /\ UNCHANGED <<now, phase, signalVars, tokens, waits, sample, abandoned,
                   counters, query, sockets, adminTask, blocking, wedged, exit,
                   history>>

\* `run' returns: Runtime::drop first waits for the blocking pool.
ProcessExits ==
    /\ MainAt("returned") /\ ~blocking
    /\ exit' = code
    /\ UNCHANGED <<now, phase, signalVars, tokens, pc, waits, sample, abandoned,
                   counters, query, sockets, adminTask, blocking, wedged, code,
                   history>>

Shutting == pc \notin {"starting", "serving"} /\ code # "1"

\* The runtime stops polling the main task.
Wedge ==
    /\ Up /\ Shutting /\ ~wedged
    /\ wedged' = TRUE
    /\ UNCHANGED <<now, phase, signalVars, tokens, pc, waits, sample, abandoned,
                   counters, query, sockets, adminTask, blocking, ends, history>>

\* Mutant of Watchdog: a timer of the runtime instead of an OS thread.
WatchdogOnRuntime ==
    /\ Up /\ Shutting /\ now >= watchdogAt /\ ~wedged
    /\ exit' = "3"
    /\ UNCHANGED <<now, phase, signalVars, tokens, pc, waits, sample, abandoned,
                   counters, query, sockets, adminTask, blocking, wedged, code,
                   history>>

\* The OS-thread watchdog.
Watchdog ==
    /\ Up /\ Shutting /\ now >= watchdogAt
    /\ exit' = "3"
    /\ UNCHANGED <<now, phase, signalVars, tokens, pc, waits, sample, abandoned,
                   counters, query, sockets, adminTask, blocking, wedged, code,
                   history>>

\* May a tick pass?  Not while the main task has something to do.
Idle ==
    \/ wedged
    \/ pc \in Awaiting /\ ~Ready /\ now < deadline
    \/ pc = "returned" /\ blocking

Tick ==
    /\ Up /\ Shutting /\ Idle /\ now < watchdogAt
    /\ now' = now + 1
    /\ UNCHANGED <<phase, signalVars, tokens, pc, waits, sample, abandoned,
                   counters, query, sockets, adminTask, blocking, wedged, ends,
                   history>>

Main ==
    \/ BecomeReady \/ BailOut \/ FirstSignal \/ CancelDrainStart
    \/ EnterDraining \/ OpenWindow \/ WindowEnds \/ LoadTotal \/ LoadLatency
    \/ Poll \/ CancelDns \/ Joined \/ CancelAdmin \/ AdminWaitEnds
    \/ HardDeadline \/ ProcessExits

Next ==
    \/ \E c \in {"term", "int"} : Deliver(c)
    \/ Bump \/ AdminFails \/ AbortBump
    \/ \E q \in Queries : QueryEnters(q) \/ QueryLeaves(q)
    \/ ListenersDie \/ AdminCloses \/ ReloadStarts \/ ReloadReturns
    \/ Main \/ Wedge \/ Watchdog \/ Tick

Spec == Init /\ [][Next]_vars

\* The main task's steps other than hickory's join, which may hang.
PromptMain ==
    \/ BecomeReady \/ BailOut \/ FirstSignal \/ CancelDrainStart
    \/ EnterDraining \/ OpenWindow \/ WindowEnds \/ LoadTotal \/ LoadLatency
    \/ Poll \/ CancelDns \/ CancelAdmin \/ AdminWaitEnds \/ HardDeadline
    \/ ProcessExits

\* The runtime polls a ready main task and a ready signal task, the clock
\* runs and the watchdog thread is scheduled.  Nothing obliges queries,
\* admin connections, hickory's join or a reload to end.
FairSpec ==
    /\ Spec
    /\ WF_vars(PromptMain) /\ WF_vars(Tick) /\ WF_vars(Watchdog)
    /\ WF_vars(Bump) /\ WF_vars(AbortBump)
-----------------------------------------------------------------------------
(* Properties. *)

Pcs ==
    {"starting", "serving", "armed", "announce", "openWindow", "draining",
     "loadTotal", "loadLatency", "polling", "cancelDns", "joining", "closing",
     "adminWait", "returned"}

Numbers ==
    {now, count, sent, window, baseline, wake, cap, sample, abandoned,
     queries_total, latency_count, dnsAt, joinedAt, reloadAt} \subseteq Nat

Flags ==
    /\ drain_start \in BOOLEAN /\ dns \in BOOLEAN /\ admin \in BOOLEAN
    /\ hurried \in BOOLEAN /\ sockets \in BOOLEAN /\ blocking \in BOOLEAN
    /\ wedged \in BOOLEAN

States ==
    /\ phase \in Starting..Closing
    /\ cause \in Causes \cup {"none"}
    /\ listener \in {"recv", "bump"}
    /\ pc \in Pcs
    /\ adminTask \in {"none", "running", "failing", "failed", "closed", "aborted"}
    /\ code \in {"none", "0", "1", "3"}
    /\ exit \in {"running", "0", "1", "3"}

\* Every variable keeps its type.
TypeOK ==
    /\ Numbers /\ Flags /\ States
    /\ query \in [Queries -> {"idle", "inflight", "done", "killed"}]

\* A signal that can be seen has a cause that can be read, whichever of the
\* signal task and the admin task wins the OnceLock and whichever bumps
\* first; so the window is the one of the recorded cause, never the fallback
\* (shutdown.rs:73-75, 149-150).
CauseKnownWhenSeen ==
    /\ count > 0 => cause # "none"
    /\ Shutting => window = drain_window(cause)

\* The three tokens fire in their order, each with its phase: /reload is
\* closed before /readyz says 503, /readyz has said 503 before a DNS socket
\* goes, and the admin listener outlives DNS, except when the listeners died
\* by themselves (main.rs:394-408).
CancelledInOrder ==
    /\ phase >= Draining => drain_start
    /\ dns => drain_start /\ phase >= Stopping
    /\ admin /\ code # "1" => dns /\ phase = Closing
    /\ code = "1" => ~drain_start /\ ~dns

\* After a SIGTERM the DNS sockets stay for the whole window unless a second
\* signal was sent or the admin server died: nothing else shortens the drain
\* (README.md:504-516).  That an admin failure does, against what
\* features/shutdown.feature says, is AdminDeathKeepsTheWindow below.
WindowHonoured ==
    dns /\ cause = "term" /\ dnsAt < Window => count > 1

\* Quiescing is bounded, and ends early only for a reason: the sockets go at
\* most QUIESCE_CAP after the window, and with requests reported in flight
\* only when the cap had elapsed or a further signal said to hurry.
QuiesceBounded ==
    /\ dns => dnsAt <= window + QuiesceCap
    /\ dns /\ abandoned > 0 => dnsAt = cap \/ count > 1

\* The queries the process leaves unanswered.
Unanswered == {q \in Queries : query[q] \in {"inflight", "killed"}}

\* in_flight is two loads that are not one (metrics.rs:173-178), and what they
\* miss is confined to queries that come in after the first of them: without a
\* newcomer, every query the cancellation cuts off was in the number quiesce
\* returned, however many started and ended before.
MissesOnlyNewcomers ==
    dns /\ queries_total = sample => Cardinality(Unanswered) <= abandoned

\* When the DNS sockets go: the parts above, from the signal that is read to
\* the end of quiesce.
SocketsGoOnTime ==
    CauseKnownWhenSeen /\ WindowHonoured /\ QuiesceBounded /\ MissesOnlyNewcomers

\* A client that never finishes, be it a DNS query or an admin connection,
\* cannot turn a shutdown into an overrun: main returns 3 only if hickory's
\* join itself used up the slack that STOP_BUDGET leaves (VEGA-079,
\* main.rs:645-656), and the watchdog fires only when the runtime wedged, when
\* main returned 3, or for a reload that kept the blocking pool busy until
\* then.
OverrunOnlyIfStuck ==
    /\ code = "3" =>
          \/ phase = Stopping /\ dns
          \/ joinedAt - dnsAt > StopBudget - QuiesceCap - AdminBudget
    /\ exit = "3" =>
          code = "3" \/ wedged \/ blocking \/ reloadAt >= watchdogAt

\* Once a shutdown has begun the process ends, whatever hangs.
ShutdownEnds == pc = "armed" ~> ~Up

\* "listeners dying on their own is still a failure rather than a silent hang"
\* (main.rs:500-501), with the one exception the code leaves: no watchdog is
\* armed on that path, so a reload hook stuck on the blocking pool keeps the
\* process alive.
ListenerDeathEnds ==
    <>[](~blocking) => ((pc = "serving" /\ ~sockets) ~> ~Up)

\* The process ends, by the way of a shutdown or of a failure.
ProcessEnds == ShutdownEnds /\ ListenerDeathEnds

\* The exit code tells the operator the truth: 0 only after every phase,
\* 1 only when the listeners died by themselves (main.rs:71-75), 3 only for
\* something that was really stuck.
ExitCodeTruthful ==
    /\ OverrunOnlyIfStuck
    /\ exit = "0" => phase = Closing /\ dns /\ admin /\ InFlight = {}
    /\ exit = "1" => ~sockets /\ phase < Draining

-----------------------------------------------------------------------------
(* The inductive invariant: where the main task is, against everything else. *)

\* The steps of quiesce, up to the cancellation of the DNS token.
Quiescing == {"loadTotal", "loadLatency", "polling", "cancelDns"}

\* The phase is a function of the program counter, and of the exit code once
\* there is one.
PhaseInv ==
    /\ pc = "starting" => phase = Starting
    /\ pc \in {"serving", "armed", "announce"} => phase = Serving
    /\ pc \in {"openWindow", "draining"} => phase = Draining
    /\ pc \in Quiescing \cup {"joining"} => phase = Stopping
    /\ pc \in {"closing", "adminWait"} => phase = Closing
    /\ code = "none" <=> pc # "returned"
    /\ code = "1" => phase = Serving /\ ~sockets
    /\ code = "0" => phase = Closing
    /\ code = "3" => phase \in {Stopping, Closing}

\* The tokens follow the phase.
TokenInv ==
    /\ drain_start <=> (phase >= Draining \/ pc = "announce")
    /\ dns <=> (phase = Closing \/ pc = "joining" \/ (code = "3" /\ phase = Stopping))
    /\ pc \notin {"adminWait", "returned"} => ~admin
    /\ pc = "adminWait" \/ code \in {"0", "1"} => admin
    /\ code = "3" /\ admin => phase = Closing

\* A signal that is on its way has a cause already, and the shutdown's window
\* is that cause's.
SignalInv ==
    /\ count > 0 \/ listener = "bump" \/ adminTask \in {"failing", "failed"} =>
          cause # "none"
    /\ Shutting => count > 0 /\ window = drain_window(cause)

\* The timers of the main task, which a wedged runtime does not keep.
TimerInv ==
    /\ pc \in {"starting", "serving"} => now = 0 /\ ~wedged
    /\ ~wedged /\ pc \in {"armed", "announce", "openWindow"} => now = 0
    /\ pc = "draining" => wake >= window /\ baseline > 0
    /\ ~wedged /\ pc = "draining" => wake = window /\ now <= wake
    /\ ~wedged /\ pc \in Quiescing => now <= cap
    /\ ~wedged /\ pc = "polling" => now <= wake /\ wake <= cap
    /\ pc = "polling" => baseline > 0
    /\ ~wedged /\ pc = "closing" => joinedAt = now
    /\ pc = "adminWait" => wake = joinedAt + AdminBudget
    /\ ~wedged /\ Shutting /\ pc # "returned" => now <= deadline

\* What brought the main task to the end of quiesce.
QuiesceInv ==
    /\ pc \in Quiescing => now >= window \/ count > 1
    /\ pc \in Quiescing \/ dns => cap <= window + QuiesceCap
    /\ hurried => count > 1
    /\ ~wedged /\ pc = "cancelDns" /\ abandoned > 0 => now = cap \/ count > 1
    /\ dns => dnsAt <= cap /\ (dnsAt >= window \/ count > 1)
    /\ dns /\ abandoned > 0 => dnsAt = cap \/ count > 1

\* The two counters differ by the queries that are on their way, and the sample
\* of the total is never ahead of it.
CountInv ==
    /\ queries_total = Cardinality(Unanswered) + latency_count
    /\ sample <= queries_total
    /\ (pc = "cancelDns" \/ dns) /\ queries_total = sample =>
          queries_total <= abandoned + latency_count

\* Why the process ended, or is about to, with the code it has.
ExitInv ==
    /\ phase = Closing => InFlight = {}
    /\ code = "3" =>
          \/ phase = Stopping /\ dns
          \/ joinedAt - dnsAt > StopBudget - QuiesceCap - AdminBudget
    /\ code = "0" /\ ~wedged => blocking \/ now <= deadline \/ reloadAt = now
    /\ exit \in {"0", "1"} => code = exit
    /\ exit = "3" => code = "3" \/ wedged \/ blocking \/ reloadAt >= watchdogAt

IInv ==
    /\ TypeOK /\ PhaseInv /\ TokenInv /\ SignalInv /\ TimerInv /\ QuiesceInv
    /\ CountInv /\ ExitInv

-----------------------------------------------------------------------------
(* A statement of the source that the code does not keep. *)

\* "An admin server that dies mid-drain does not shorten the drain ... the DNS
\* listeners keep answering until the drain window elapses"
\* (features/shutdown.feature:341-349): after one SIGTERM and no other signal
\* the DNS sockets do not go before the window is over.
AdminDeathKeepsTheWindow ==
    dns /\ cause = "term" /\ sent = 1 => dnsAt >= Window
=============================================================================
