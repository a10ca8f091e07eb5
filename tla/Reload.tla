------------------------------- MODULE Reload -------------------------------
(***************************************************************************)
(* POST /reload: src/reload.rs and the /reload handler of src/admin.rs.    *)
(*                                                                         *)
(* Each request is one admin task plus the blocking-pool thread that runs  *)
(* the hook, so any number of them interleave with one another, with edits *)
(* of the configuration file and with the start of a shutdown.  A request  *)
(* takes one step per access to shared state:                              *)
(*                                                                         *)
(*   lifecycle    `phase', read by the handler (is_draining)               *)
(*   drain token  `draining', read twice by the hook (steps 0 and 8)       *)
(*   Mutex        `lock', try_lock; it guards `running'                    *)
(*   file         `file', read once (Config::resolve)                      *)
(*   ArcSwap      `active', one store (step 9)                             *)
(*   gauge        `gauge', one store (step 10)                             *)
(*   counter      `reloads', one fetch_add, after the lock is released     *)
(***************************************************************************)
EXTENDS Naturals, FiniteSets, Sequences

CONSTANTS
    Requests,      \* POST /reload calls
    Unauthorised,  \* the calls that may_mutate refuses
    Files,         \* the contents the configuration file may have
    Boot,          \* the contents the process booted from
    Origins,       \* spellings of zone.origin
    Canonical,     \* [Origins -> canonical names, or Unparseable]
    Unparseable,
    LoneKeys,      \* fixed settings that merge by themselves: admin_token, ...
    Settings,      \* values of a fixed setting, the rates among them
    Unset,         \* "the flag / the key is absent"
    Cli,           \* [FixedKeys -> Settings \cup {Unset}]: the frozen invocation
    Defaults,      \* the same, for the built-in values
    MaxU32,        \* u32::MAX
    MaxEdits,      \* bound on the edits of the file
    Nothing        \* no request, no configuration

\* The settings fixed for the life of the process.
FixedKeys == LoneKeys \cup {"udp", "tcp", "qps", "burst"}

(***************************************************************************)
(* A file as Config::resolve and Zone::from_config tell it apart: the      *)
(* first stage that fails, if any, the outcome of the build, and the       *)
(* values it carries.                                                      *)
(***************************************************************************)
Contents ==
    [fault : {"none", "read", "parse", "validate"},
     build : {"ok", "error", "panic"},
     origin : Origins,
     records : Nat,
     builtins : BOOLEAN,
     zone : Nat,
     stated : [FixedKeys -> Settings \cup {Unset}]]

Servable(c) ==
    /\ c.fault = "none"
    /\ c.build = "ok"
    /\ Canonical[c.origin] # Unparseable

SameOrigin(c, d) == Canonical[c.origin] = Canonical[d.origin]

saturating_double(qps) == IF qps \in Nat /\ 2 * qps <= MaxU32 THEN 2 * qps ELSE MaxU32

ASSUME FilesAssumption ==
    /\ Files \subseteq Contents
    /\ Boot \in Files
    /\ Servable(Boot)
    /\ Nothing \notin Files
    /\ Nothing \notin Requests
    /\ IsFiniteSet(Requests)
    /\ MaxEdits \in Nat

\* No listener but the default UDP one, and no limiter, unless something says
\* so; the rates are among the settings.
ASSUME SettingsAssumption ==
    /\ Unset \notin Settings
    /\ {Cli, Defaults} \subseteq [FixedKeys -> Settings \cup {Unset}]
    /\ MaxU32 \in Nat /\ 0..MaxU32 \subseteq Settings
    /\ Defaults["tcp"] = Unset /\ Defaults["qps"] = 0

\* CLI over file: what the two say of each key.
Asked(c) == [k \in FixedKeys |-> IF Cli[k] # Unset THEN Cli[k] ELSE c.stated[k]]

\* Config::merge for the fixed keys.  The default UDP listener is for a server
\* without listeners; a limiter without a rate is no limiter, with a burst of
\* none, and its burst is twice its rate by default.
Effective(c) ==
    LET asked == Asked(c) IN
    [k \in FixedKeys |->
        IF k = "burst" /\ asked["qps"] \in {Unset, 0} THEN 0
        ELSE IF asked[k] # Unset THEN asked[k]
        ELSE IF k = "burst" THEN saturating_double(asked["qps"])
        ELSE IF k = "udp" /\ asked["tcp"] # Unset THEN Unset
        ELSE Defaults[k]]

\* The settings the file asks for and this process cannot apply.
drift(fixed, c) ==
    {k \in FixedKeys :
        \/ c.stated[k] # Unset /\ c.stated[k] # fixed[k]
        \/ Effective(c)[k] # fixed[k]}

VARIABLES
    hook,       \* AdminState.reload: is there a file to reload from?
    file,       \* contents of the configuration file
    phase,      \* "serving" or "draining" (Draining or later)
    draining,   \* the drain-start token has been cancelled
    lock,       \* the request holding ReloadContext.state, or Nothing
    poisoned,   \* the Mutex was poisoned by a panicking hook
    running,    \* Running: the configuration the process is running
    active,     \* DnsHandler.active: the zone and the built-ins served
    gauge,      \* vega_zone_records
    reloads,    \* AdminState.reloads
    pc,         \* where each request is
    fresh,      \* the configuration each request has resolved
    result,     \* the code (or "ok") each request has to answer
    answer,     \* the body of a 200: [reloads, records, origin, ignored]
    version,    \* history: how many times the file has been edited
    madeAt,     \* history: the version on disk when each request was made
    readAt,     \* history: the version each request has read
    installed,  \* history: the requests that replaced the zone, in order
    late        \* history: those that did so after the drain had started

vars == <<hook, file, phase, draining, lock, poisoned, running, active,
          gauge, reloads, pc, fresh, result, answer, version, madeAt, readAt,
          installed, late>>

served == <<running, active, gauge>>
history == <<version, madeAt, readAt, installed, late>>

ErrorCodes ==
    {"not_configured", "forbidden", "shutting_down", "reload_in_progress",
     "config_read_failed", "config_parse_failed", "config_invalid",
     "origin_changed", "zone_build_failed", "internal"}

\* What replace_zone stores: the zone and the built-ins, as one value.
Active(c) ==
    [zone |-> c.zone, origin |-> c.origin, records |-> c.records,
     builtins |-> c.builtins]

\* Running: the reloadable half and the fixed half of the configuration.
RunningFrom(c) ==
    [origin |-> c.origin, zone |-> c.zone, records |-> c.records,
     builtins |-> c.builtins, fixed |-> Effective(c)]

Init ==
    /\ hook \in BOOLEAN
    /\ file = Boot
    /\ phase = "serving"
    /\ draining = FALSE
    /\ lock = Nothing
    /\ poisoned = FALSE
    /\ running = RunningFrom(Boot)
    /\ active = Active(Boot)
    /\ gauge = Boot.records
    /\ reloads = 0
    /\ pc = [r \in Requests |-> "new"]
    /\ fresh = [r \in Requests |-> Nothing]
    /\ result = [r \in Requests |-> "none"]
    /\ answer = [r \in Requests |-> Nothing]
    /\ version = 0
    /\ madeAt = [r \in Requests |-> 0]
    /\ readAt = [r \in Requests |-> 0]
    /\ installed = <<>>
    /\ late = {}

-----------------------------------------------------------------------------
(* The environment. *)

\* Anything that replaces the file: an operator, `vega record add', a
\* configuration manager.
EditFile ==
    /\ version < MaxEdits
    /\ file' \in Files \ {file}
    /\ version' = version + 1
    /\ UNCHANGED <<hook, phase, draining, lock, poisoned, served, reloads, pc,
                   fresh, result, answer, madeAt, readAt, installed, late>>

\* Shutdown::run cancels the token first...
CancelDrainToken ==
    /\ ~draining
    /\ draining' = TRUE
    /\ UNCHANGED <<hook, file, phase, lock, poisoned, served, reloads, pc,
                   fresh, result, answer, history>>

\* ... and publishes the phase next.
EnterDraining ==
    /\ draining /\ phase = "serving"
    /\ phase' = "draining"
    /\ UNCHANGED <<hook, file, draining, lock, poisoned, served, reloads, pc,
                   fresh, result, answer, history>>

-----------------------------------------------------------------------------
(* Steps of a request. *)

Goto(r, from, to) ==
    /\ pc[r] = from
    /\ pc' = [pc EXCEPT ![r] = to]

\* A refusal the handler or the hook returns without holding the lock.
Refuse(r, from, code) ==
    /\ Goto(r, from, "answered")
    /\ result' = [result EXCEPT ![r] = code]
    /\ UNCHANGED <<hook, file, phase, draining, lock, poisoned, served, reloads,
                   fresh, answer, history>>

\* A refusal under the lock: the guard drops as the hook returns, and the
\* handler renders the error.
RefuseAndUnlock(r, from, code) ==
    /\ Goto(r, from, "answered")
    /\ result' = [result EXCEPT ![r] = code]
    /\ lock' = Nothing
    /\ UNCHANGED <<hook, file, phase, draining, poisoned, served, reloads, fresh,
                   answer, history>>

Arrive(r) ==
    /\ Goto(r, "new", "gate")
    /\ madeAt' = [madeAt EXCEPT ![r] = version]
    /\ UNCHANGED <<hook, file, phase, draining, lock, poisoned, served, reloads,
                   fresh, result, answer, version, readAt, installed, late>>

\* The handler's gates in their order: no hook, draining, authorisation.
Gate(r) ==
    \/ ~hook /\ Refuse(r, "gate", "not_configured")
    \/ hook /\ phase = "draining" /\ Refuse(r, "gate", "shutting_down")
    \/ /\ hook /\ phase # "draining" /\ r \in Unauthorised
       /\ Refuse(r, "gate", "forbidden")
    \/ /\ hook /\ phase # "draining" /\ r \notin Unauthorised
       /\ Goto(r, "gate", "drainCheck")
       /\ UNCHANGED <<hook, file, phase, draining, lock, poisoned, served, reloads,
                      fresh, result, answer, history>>

\* Step 0.
DrainCheck(r) ==
    \/ draining /\ Refuse(r, "drainCheck", "shutting_down")
    \/ /\ ~draining
       /\ Goto(r, "drainCheck", "tryLock")
       /\ UNCHANGED <<hook, file, phase, draining, lock, poisoned, served, reloads,
                      fresh, result, answer, history>>

\* Mutant of TryLock: a second reload is let in.
TryLockIgnored(r) ==
    /\ Goto(r, "tryLock", "resolve")
    /\ lock' = r
    /\ UNCHANGED <<hook, file, phase, draining, poisoned, served, reloads, fresh,
                   result, answer, history>>

\* Step 1.  A poisoned Mutex is recovered, not refused.
TryLock(r) ==
    \/ lock # Nothing /\ Refuse(r, "tryLock", "reload_in_progress")
    \/ /\ lock = Nothing
       /\ Goto(r, "tryLock", "resolve")
       /\ lock' = r
       /\ UNCHANGED <<hook, file, phase, draining, poisoned, served, reloads, fresh,
                      result, answer, history>>

\* Steps 2-4: read, parse, merge.
Resolve(r) ==
    \/ file.fault = "read" /\ RefuseAndUnlock(r, "resolve", "config_read_failed")
    \/ file.fault = "parse" /\ RefuseAndUnlock(r, "resolve", "config_parse_failed")
    \/ file.fault = "validate" /\ RefuseAndUnlock(r, "resolve", "config_invalid")
    \/ /\ file.fault = "none"
       /\ Goto(r, "resolve", "originGate")
       /\ fresh' = [fresh EXCEPT ![r] = file]
       /\ readAt' = [readAt EXCEPT ![r] = version]
       /\ UNCHANGED <<hook, file, phase, draining, lock, poisoned, served, reloads,
                      result, answer, version, madeAt, installed, late>>

\* Step 5, on canonical names.
OriginGate(r) ==
    LET requested == Canonical[fresh[r].origin] IN
    /\ pc[r] = "originGate"
    /\ \/ requested = Unparseable
          /\ RefuseAndUnlock(r, "originGate", "config_invalid")
       \/ /\ requested # Unparseable /\ requested # Canonical[running.origin]
          /\ RefuseAndUnlock(r, "originGate", "origin_changed")
       \/ /\ requested # Unparseable /\ requested = Canonical[running.origin]
          /\ Goto(r, "originGate", "build")
          /\ UNCHANGED <<hook, file, phase, draining, lock, poisoned, served,
                         reloads, fresh, result, answer, history>>

\* Mutant of BuildZone: nobody answers for a hook that panicked.
BuildPanicUnanswered(r) ==
    /\ pc[r] = "build"
    /\ \/ fresh[r].build = "error"
          /\ RefuseAndUnlock(r, "build", "zone_build_failed")
       \/ /\ fresh[r].build = "ok"
          /\ Goto(r, "build", "recheck")
          /\ UNCHANGED <<hook, file, phase, draining, lock, poisoned, served,
                         reloads, fresh, result, answer, history>>

\* Step 6.  A panic unwinds through the guard (debug builds): the Mutex is
\* released poisoned and the handler answers `internal'.
BuildZone(r) ==
    /\ pc[r] = "build"
    /\ \/ fresh[r].build = "error"
          /\ RefuseAndUnlock(r, "build", "zone_build_failed")
       \/ /\ fresh[r].build = "panic"
          /\ Goto(r, "build", "answered")
          /\ result' = [result EXCEPT ![r] = "internal"]
          /\ lock' = Nothing
          /\ poisoned' = TRUE
          /\ UNCHANGED <<hook, file, phase, draining, served, reloads, fresh,
                         answer, history>>
       \/ /\ fresh[r].build = "ok"
          /\ Goto(r, "build", "recheck")
          /\ UNCHANGED <<hook, file, phase, draining, lock, poisoned, served,
                         reloads, fresh, result, answer, history>>

\* Mutant of Recheck: the drain is not checked again.
RecheckDropped(r) ==
    /\ Goto(r, "recheck", "swap")
    /\ UNCHANGED <<hook, file, phase, draining, lock, poisoned, served, reloads,
                   fresh, result, answer, history>>

\* Step 8.
Recheck(r) ==
    \/ draining /\ RefuseAndUnlock(r, "recheck", "shutting_down")
    \/ /\ ~draining
       /\ Goto(r, "recheck", "swap")
       /\ UNCHANGED <<hook, file, phase, draining, lock, poisoned, served, reloads,
                      fresh, result, answer, history>>

\* Step 9: the linearisation point.
Swap(r) ==
    /\ Goto(r, "swap", "setGauge")
    /\ active' = Active(fresh[r])
    /\ installed' = Append(installed, r)
    /\ late' = IF draining THEN late \cup {r} ELSE late
    /\ UNCHANGED <<hook, file, phase, draining, lock, poisoned, running, gauge,
                   reloads, fresh, result, answer, version, madeAt, readAt>>

\* Step 10.
SetGauge(r) ==
    /\ Goto(r, "setGauge", "finish")
    /\ gauge' = fresh[r].records
    /\ UNCHANGED <<hook, file, phase, draining, lock, poisoned, running, active,
                   reloads, fresh, result, answer, history>>

\* Mutant of apply_reloadable: the built-ins flag is forgotten.
ApplyWithoutBuiltins(run, c) ==
    [run EXCEPT !.zone = c.zone, !.records = c.records]

\* Mutant of apply_reloadable: the fixed half moves as well.
ApplyEverything(run, c) == RunningFrom(c)

\* Running::apply_reloadable: the origin and the fixed half stay.
apply_reloadable(run, c) ==
    [run EXCEPT !.zone = c.zone, !.records = c.records,
                !.builtins = c.builtins]

\* Steps 11-12 and the return, which drops the guard.
Finish(r) ==
    /\ Goto(r, "finish", "count")
    /\ answer' = [answer EXCEPT ![r] =
                    [origin |-> fresh[r].origin, records |-> fresh[r].records,
                     ignored |-> drift(running.fixed, fresh[r]), reloads |-> 0]]
    /\ running' = apply_reloadable(running, fresh[r])
    /\ lock' = Nothing
    /\ UNCHANGED <<hook, file, phase, draining, poisoned, active, gauge, reloads,
                   fresh, result, history>>

\* Back on the admin task: one fetch_add, then the 200.
Count(r) ==
    /\ Goto(r, "count", "answered")
    /\ reloads' = reloads + 1
    /\ result' = [result EXCEPT ![r] = "ok"]
    /\ answer' = [answer EXCEPT ![r].reloads = reloads + 1]
    /\ UNCHANGED <<hook, file, phase, draining, lock, poisoned, served, fresh, history>>

Step(r) ==
    \/ Gate(r) \/ DrainCheck(r) \/ TryLock(r) \/ Resolve(r) \/ OriginGate(r)
    \/ BuildZone(r) \/ Recheck(r) \/ Swap(r) \/ SetGauge(r) \/ Finish(r)
    \/ Count(r)

Next ==
    \/ EditFile \/ CancelDrainToken \/ EnterDraining
    \/ \E r \in Requests : Arrive(r) \/ Step(r)

Spec == Init /\ [][Next]_vars

\* The blocking pool runs every hook and the runtime polls every handler;
\* nothing obliges a client to call, a file to change or a drain to start.
FairSpec == Spec /\ \A r \in Requests : WF_vars(Step(r))
-----------------------------------------------------------------------------
(* Properties. *)

RunningConfig ==
    [origin : Origins, zone : Nat, records : Nat, builtins : BOOLEAN,
     fixed : [FixedKeys -> Settings \cup {Unset}]]

ActiveZone ==
    [zone : Nat, origin : Origins, records : Nat, builtins : BOOLEAN]

Answers ==
    [origin : Origins, records : Nat, ignored : SUBSET FixedKeys,
     reloads : Nat]

\* Every variable keeps its type.
TypeOK ==
    /\ hook \in BOOLEAN
    /\ file \in Files
    /\ phase \in {"serving", "draining"}
    /\ draining \in BOOLEAN
    /\ lock \in Requests \cup {Nothing}
    /\ poisoned \in BOOLEAN
    /\ running \in RunningConfig
    /\ active \in ActiveZone
    /\ gauge \in Nat
    /\ reloads \in Nat
    /\ pc \in [Requests -> {"new", "gate", "drainCheck", "tryLock", "resolve",
                            "originGate", "build", "recheck", "swap",
                            "setGauge", "finish", "count", "answered"}]
    /\ fresh \in [Requests -> Files \cup {Nothing}]
    /\ result \in [Requests -> ErrorCodes \cup {"none", "ok"}]
    /\ answer \in [Requests -> Answers \cup {Nothing}]
    /\ version \in Nat
    /\ madeAt \in [Requests -> Nat]
    /\ readAt \in [Requests -> Nat]
    /\ installed \in Seq(Requests)
    /\ late \subseteq Requests

\* Whenever no reload holds the lock, what is answered (zone and built-ins),
\* what /metrics reports and what the process believes it is running are the
\* same configuration, whatever requests were refused, raced or panicked on
\* the way (the atomicity comment above reload, reload.rs:184-190).  Even
\* while one does, a scrape never sees the record count of a zone that has
\* not been served (reload.rs:291-292).
ServedIsRunning ==
    /\ lock = Nothing =>
          /\ gauge = active.records
          /\ running.zone = active.zone
          /\ running.records = active.records
          /\ running.builtins = active.builtins
    /\ gauge \in {Boot.records}
                 \cup {fresh[installed[i]].records : i \in DOMAIN installed}

\* The zone served is that of the last request that installed one, and no
\* refused request installed anything: "a refused reload has touched nothing
\* shared" (reload.rs:187).  Nor is it counted: the counter VEGA-049 alerts on
\* is the number of 200 responses, each of which carries a number of its own
\* (admin.rs:530-533).
RefusedTouchesNothing ==
    /\ reloads = Cardinality({r \in Requests : result[r] = "ok"})
    /\ \A r, s \in Requests :
          r # s /\ result[r] = "ok" /\ result[s] = "ok"
              => answer[r].reloads # answer[s].reloads
    /\ \A i \in DOMAIN installed :
          /\ result[installed[i]] \notin ErrorCodes
          /\ fresh[installed[i]] # Nothing
    /\ active = IF installed = <<>> THEN Active(Boot)
                ELSE Active(fresh[installed[Len(installed)]])

\* No sequence of reloads, cosmetic respellings included, moves the process
\* to another zone or to a file that does not build (the origin gate,
\* reload.rs:236-266).
OriginNeverMoves ==
    /\ Canonical[active.origin] = Canonical[Boot.origin]
    /\ \A i \in DOMAIN installed : Servable(fresh[installed[i]])

\* A reload that succeeds has read the file no earlier than the request was
\* made, and a later installation never reads an older file than an earlier
\* one: "edit, then reload" cannot be undone by a slower reload.
NeverOlderThanServed ==
    /\ \A i \in DOMAIN installed : madeAt[installed[i]] <= readAt[installed[i]]
    /\ \A i, j \in DOMAIN installed :
          i < j => readAt[installed[i]] <= readAt[installed[j]]

\* However many reloads have run, a 200 reports exactly the drift from the
\* settings the process booted with ("so drift stays truthful on every later
\* reload", reload.rs:299-300).
DriftIsAgainstBoot ==
    \A r \in Requests :
        answer[r] # Nothing =>
            answer[r].ignored = drift(Effective(Boot), fresh[r])

\* A key that the file states as the process has it is not reported as ignored
\* (reload.rs:344-345), with one exception that the code makes and the comment
\* does not: the burst of a limiter that the file switches on or off, which is
\* reported together with its rate.
HonouredIsNotIgnored ==
    \A r \in Requests : \A k \in FixedKeys :
        /\ answer[r] # Nothing
        /\ fresh[r].stated[k] # Unset /\ fresh[r].stated[k] = Effective(Boot)[k]
        /\ k \in answer[r].ignored
        => k = "burst" /\ "qps" \in answer[r].ignored

\* What is fixed at boot stays fixed, and a 200 says so truthfully: the parts
\* above, for every sequence of reloads.
FixedHalfNeverMoves ==
    OriginNeverMoves /\ DriftIsAgainstBoot /\ HonouredIsNotIgnored

\* "A reload fails closed once it fires, so a zone is never installed into a
\* process that is going away" (reload.rs:107-108): the code keeps it up to
\* the gap between the second drain check and the store.  The lock leaves
\* room for one installation after the drain has started, never for two.
AtMostOneLateInstall == \A r, s \in late : r = s

\* Every request is answered: try_lock never waits, and every path out of
\* the locked section releases the lock, a panic included.
EveryRequestAnswered ==
    \A r \in Requests : pc[r] = "gate" ~> pc[r] = "answered"

-----------------------------------------------------------------------------
(***************************************************************************)
(* What makes the properties above inductive: who holds the lock, what a   *)
(* request knows of the configuration it has resolved at each of its       *)
(* positions, and how far an installation has got.                         *)
(***************************************************************************)
Checking == {"originGate", "build", "recheck", "swap"}
Locked == Checking \cup {"resolve", "setGauge", "finish"}
Installing == {"setGauge", "finish", "count"}

\* The Mutex: a request is in the locked section exactly while it is the one
\* that holds the lock.
LockOwner == \A r \in Requests : pc[r] \in Locked <=> lock = r

\* The stages behind a request, in the words of the file it resolved.
Resolved(r) ==
    /\ fresh[r] \in Files
    /\ fresh[r].fault = "none"
    /\ madeAt[r] <= readAt[r]

SameZone(r) ==
    /\ Canonical[fresh[r].origin] # Unparseable
    /\ SameOrigin(fresh[r], Boot)

Built(r) == Resolved(r) /\ SameZone(r) /\ fresh[r].build = "ok"

StagesPassed ==
    \A r \in Requests :
        /\ pc[r] \in Checking => Resolved(r)
        /\ pc[r] \in {"build", "recheck", "swap"} => SameZone(r)
        /\ pc[r] \in {"recheck", "swap"} => Built(r)
        /\ madeAt[r] <= version /\ readAt[r] <= version

\* What has been answered, and when.
AnswersInOrder ==
    \A r \in Requests :
        /\ pc[r] # "answered" => result[r] = "none"
        /\ pc[r] \notin {"count", "answered"} => answer[r] = Nothing
        /\ pc[r] = "count" =>
              /\ answer[r] \in Answers
              /\ answer[r].ignored = drift(Effective(Boot), fresh[r])
        /\ result[r] = "ok" => answer[r] \in Answers /\ answer[r].reloads \in 1..reloads

FixedHalf == running.origin = Boot.origin /\ running.fixed = Effective(Boot)

\* An installation is under way or was answered with a 200, and what it
\* installed had passed every stage.
InstalledInFull ==
    \A i \in DOMAIN installed :
        LET r == installed[i] IN
        /\ Built(r)
        /\ pc[r] \in Installing \/ (pc[r] = "answered" /\ result[r] = "ok")

LastInstalled(r) == installed # <<>> /\ installed[Len(installed)] = r

\* Which of the three writes are still to come.
WritesInOrder ==
    /\ (\A r \in Requests : pc[r] \notin {"setGauge", "finish"}) =>
          /\ running.zone = active.zone
          /\ running.records = active.records
          /\ running.builtins = active.builtins
    /\ (\A r \in Requests : pc[r] # "setGauge") => gauge = active.records
    /\ \A r \in Requests : pc[r] \in {"setGauge", "finish"} => LastInstalled(r)

\* A request that has resolved holds the newest file anyone has installed.
NewestIsLast ==
    \A r \in Requests, i \in DOMAIN installed :
        pc[r] \in Checking => readAt[installed[i]] <= readAt[r]

\* Once the drain has started, at most one request is past its last check or
\* has installed since.
LastThroughTheGate ==
    /\ ~draining => late = {}
    /\ \A r, s \in Requests :
          /\ r \in late \/ (draining /\ pc[r] = "swap")
          /\ s \in late \/ (draining /\ pc[s] = "swap")
          => r = s

\* The inductive invariant.
IInv ==
    /\ TypeOK /\ LockOwner /\ StagesPassed /\ AnswersInOrder /\ FixedHalf
    /\ InstalledInFull /\ WritesInOrder /\ NewestIsLast /\ LastThroughTheGate
    /\ ServedIsRunning /\ RefusedTouchesNothing /\ NeverOlderThanServed
    /\ DriftIsAgainstBoot

-----------------------------------------------------------------------------
(***************************************************************************)
(* Reload implements LiveZone: a request has "looked" once it holds a      *)
(* resolved configuration, and its installation happens at the swap.       *)
(***************************************************************************)
Stage(r) ==
    IF pc[r] = "new" THEN "new"
    ELSE IF pc[r] \in {"setGauge", "finish", "count"} \/ result[r] = "ok"
    THEN "installed"
    ELSE IF pc[r] = "answered" THEN "refused"
    ELSE IF pc[r] \in {"originGate", "build", "recheck", "swap"} THEN "looked"
    ELSE "open"

\* The configuration the served zone was built from.
ServedContents ==
    IF installed = <<>> THEN Boot ELSE fresh[installed[Len(installed)]]

Promise ==
    INSTANCE LiveZone WITH
        served <- ServedContents,
        stage <- [r \in Requests |-> Stage(r)],
        saw <- fresh

\* Every behaviour of the hook and the handler is a behaviour of LiveZone.
KeepsPromise == Promise!ASpec
=============================================================================
