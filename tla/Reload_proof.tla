---------------------------- MODULE Reload_proof ----------------------------
(***************************************************************************)
(* Proofs about POST /reload for any number of requests and edits, any     *)
(* files and any fixed settings.  The eleven steps of a request fall into  *)
(* eight kinds by what they write; IInv is shown to survive each kind.     *)
(***************************************************************************)
EXTENDS Reload, FiniteSetTheorems, TLAPS

-----------------------------------------------------------------------------
(* The kinds of steps. *)

Moves ==
    {<<"gate", "drainCheck">>, <<"drainCheck", "tryLock">>,
     <<"originGate", "build">>, <<"build", "recheck">>, <<"recheck", "swap">>}

\* What a step that is not about to install leaves alone.
Quiet == <<hook, file, phase, draining, served, reloads, answer, history>>

\* A check is passed: nothing is written.
Pass(r, from, to) ==
    /\ <<from, to>> \in Moves
    /\ Goto(r, from, to)
    /\ to = "build" => SameZone(r)
    /\ to = "recheck" => fresh[r].build = "ok"
    /\ to = "swap" => ~draining
    /\ UNCHANGED <<Quiet, lock, poisoned, fresh, result>>

Take(r) ==
    /\ lock = Nothing
    /\ Goto(r, "tryLock", "resolve")
    /\ lock' = r
    /\ UNCHANGED <<Quiet, poisoned, fresh, result>>

\* The request is refused, and the lock released if it was held.
Reject(r, from, code) ==
    /\ from \in {"gate", "drainCheck", "tryLock", "resolve", "originGate",
                 "build", "recheck"}
    /\ code \in ErrorCodes
    /\ Goto(r, from, "answered")
    /\ result' = [result EXCEPT ![r] = code]
    /\ lock' = IF lock = r THEN Nothing ELSE lock
    /\ poisoned' \in BOOLEAN
    /\ UNCHANGED <<Quiet, fresh>>

Read(r) ==
    /\ file.fault = "none"
    /\ Goto(r, "resolve", "originGate")
    /\ fresh' = [fresh EXCEPT ![r] = file]
    /\ readAt' = [readAt EXCEPT ![r] = version]
    /\ UNCHANGED <<hook, file, phase, draining, lock, poisoned, served, reloads,
                   result, answer, version, madeAt, installed, late>>

-----------------------------------------------------------------------------
\* The gates and the checks, as the kinds above.
LEMMA StepKinds ==
    ASSUME IInv, NEW r \in Requests, Step(r)
    PROVE  \/ \E from, to : Pass(r, from, to)
           \/ \E from, code : Reject(r, from, code)
           \/ Take(r) \/ Read(r) \/ Swap(r) \/ SetGauge(r) \/ Finish(r) \/ Count(r)
<1>1. /\ pc[r] \in Locked <=> lock = r
      /\ poisoned \in BOOLEAN
  BY DEF IInv, LockOwner, TypeOK
<1>2. ASSUME NEW from, NEW code, Refuse(r, from, code),
             from \in {"gate", "drainCheck", "tryLock"}, code \in ErrorCodes
      PROVE  Reject(r, from, code)
  BY <1>1, <1>2 DEF Refuse, Reject, Goto, Quiet, Locked, Checking
<1>3. ASSUME NEW from, NEW code, RefuseAndUnlock(r, from, code),
             from \in {"resolve", "originGate", "build", "recheck"}, code \in ErrorCodes
      PROVE  Reject(r, from, code)
  BY <1>1, <1>3 DEF RefuseAndUnlock, Reject, Goto, Quiet, Locked, Checking
<1>4. Gate(r) => \/ Pass(r, "gate", "drainCheck")
                 \/ Reject(r, "gate", "not_configured")
                 \/ Reject(r, "gate", "shutting_down")
                 \/ Reject(r, "gate", "forbidden")
  BY <1>2 DEF Gate, Pass, Moves, Quiet, ErrorCodes
<1>5. DrainCheck(r) => \/ Pass(r, "drainCheck", "tryLock")
                       \/ Reject(r, "drainCheck", "shutting_down")
  BY <1>2 DEF DrainCheck, Pass, Moves, Quiet, ErrorCodes
<1>6. TryLock(r) => Take(r) \/ Reject(r, "tryLock", "reload_in_progress")
  BY <1>2 DEF TryLock, Take, Quiet, ErrorCodes
<1>7. Resolve(r) => \/ Read(r)
                    \/ Reject(r, "resolve", "config_read_failed")
                    \/ Reject(r, "resolve", "config_parse_failed")
                    \/ Reject(r, "resolve", "config_invalid")
  BY <1>3 DEF Resolve, Read, ErrorCodes
<1>8. OriginGate(r) => \/ Pass(r, "originGate", "build")
                       \/ Reject(r, "originGate", "config_invalid")
                       \/ Reject(r, "originGate", "origin_changed")
  <2>1. running.origin = Boot.origin
    BY DEF IInv, FixedHalf
  <2> QED BY <1>3, <2>1 DEF OriginGate, Pass, Moves, Quiet, ErrorCodes, SameZone, SameOrigin
<1>9. BuildZone(r) => \/ Pass(r, "build", "recheck")
                      \/ Reject(r, "build", "zone_build_failed")
                      \/ Reject(r, "build", "internal")
  <2>1. CASE fresh[r].build = "panic" /\ Goto(r, "build", "answered")
             /\ result' = [result EXCEPT ![r] = "internal"] /\ lock' = Nothing /\ poisoned' = TRUE
             /\ UNCHANGED <<hook, file, phase, draining, served, reloads, fresh, answer, history>>
    BY <1>1, <2>1 DEF Reject, Goto, Quiet, Locked, Checking, ErrorCodes
  <2> QED BY <1>3, <2>1 DEF BuildZone, Pass, Moves, Quiet, ErrorCodes
<1>10. Recheck(r) => \/ Pass(r, "recheck", "swap")
                     \/ Reject(r, "recheck", "shutting_down")
  BY <1>3 DEF Recheck, Pass, Moves, Quiet, ErrorCodes
<1> QED
  BY <1>4, <1>5, <1>6, <1>7, <1>8, <1>9, <1>10 DEF Step

-----------------------------------------------------------------------------
(* Facts the cases share. *)

\* The files have the fields the steps read.
LEMMA FileFields ==
    ASSUME NEW c \in Files
    PROVE  /\ c.origin \in Origins /\ c.records \in Nat /\ c.zone \in Nat
           /\ c.builtins \in BOOLEAN
           /\ c.stated \in [FixedKeys -> Settings \cup {Unset}]
           /\ Active(c) \in ActiveZone
           /\ RunningFrom(c) \in RunningConfig
           /\ Effective(c) \in [FixedKeys -> Settings \cup {Unset}]
<1>1. c \in Contents
  BY FilesAssumption
<1>2. Effective(c) \in [FixedKeys -> Settings \cup {Unset}]
  <2>1. Asked(c) \in [FixedKeys -> Settings \cup {Unset}]
    BY <1>1, SettingsAssumption DEF Contents, Asked
  <2>2. 0 \in Settings /\ \A q : saturating_double(q) \in Settings
    BY SettingsAssumption DEF saturating_double
  <2> QED BY <2>1, <2>2, SettingsAssumption DEF Effective
<1> QED
  BY <1>1, <1>2 DEF Contents, Active, ActiveZone, RunningFrom, RunningConfig

\* A limiter is off exactly when its effective rate is zero.
LEMMA LimiterOff ==
    ASSUME NEW c
    PROVE  Effective(c)["qps"] = 0 <=> Asked(c)["qps"] \in {Unset, 0}
<1>1. "qps" \in FixedKeys /\ "qps" # "burst" /\ "qps" # "udp"
  BY DEF FixedKeys
<1>2. Effective(c)["qps"] = IF Asked(c)["qps"] # Unset THEN Asked(c)["qps"] ELSE 0
  BY <1>1, SettingsAssumption DEF Effective
<1> QED BY <1>2, SettingsAssumption

\* A key that one file states as another has it merges to the same value with
\* both, but for the burst of a limiter that one of them has and the other has
\* not.
LEMMA HonouredKey ==
    ASSUME NEW c, NEW d, NEW k \in FixedKeys,
           c.stated[k] # Unset, c.stated[k] = Effective(d)[k],
           Effective(c)[k] # Effective(d)[k]
    PROVE  k = "burst" /\ Effective(c)["qps"] # Effective(d)["qps"]
<1>1. /\ Asked(c)[k] = IF Cli[k] # Unset THEN Cli[k] ELSE c.stated[k]
      /\ Cli[k] # Unset => Asked(d)[k] = Cli[k]
  BY DEF Asked
<1>2. Asked(c)[k] # Unset
  BY <1>1
<1>3. CASE k # "burst"
  <2>1. Effective(c)[k] = Asked(c)[k]
    BY <1>2, <1>3 DEF Effective
  <2>2. Cli[k] # Unset => Effective(d)[k] = Cli[k]
    BY <1>1, <1>3 DEF Effective
  <2> QED BY <1>1, <2>1, <2>2
<1>4. CASE k = "burst" /\ Effective(c)["qps"] = Effective(d)["qps"]
  <2>1. Asked(c)["qps"] \in {Unset, 0} <=> Asked(d)["qps"] \in {Unset, 0}
    BY <1>4, LimiterOff
  <2>2. CASE Asked(c)["qps"] \in {Unset, 0}
    <3>1. Effective(c)[k] = 0 /\ Effective(d)[k] = 0
      BY <1>4, <2>1, <2>2 DEF Effective
    <3> QED BY <3>1
  <2>3. CASE Asked(c)["qps"] \notin {Unset, 0}
    <3>1. Effective(c)[k] = Asked(c)[k]
      BY <1>2, <2>3 DEF Effective
    <3>2. Cli[k] # Unset => Effective(d)[k] = Cli[k]
      BY <1>1, <2>1, <2>3 DEF Effective
    <3> QED BY <1>1, <3>1, <3>2
  <2> QED BY <2>2, <2>3
<1> QED BY <1>3, <1>4

\* A request between its swap and its return has passed every stage.
LEMMA InstallingIsBuilt ==
    ASSUME IInv, NEW r \in Requests, pc[r] \in {"setGauge", "finish"}
    PROVE  Built(r) /\ active = Active(fresh[r]) /\ LastInstalled(r)
<1>1. LastInstalled(r)
  BY DEF IInv, WritesInOrder
<1>2. installed \in Seq(Requests)
  BY DEF IInv, TypeOK
<1>3. Len(installed) \in DOMAIN installed
  BY <1>1, <1>2 DEF LastInstalled
<1> QED
  BY <1>1, <1>3 DEF IInv, LastInstalled, InstalledInFull, RefusedTouchesNothing

\* Two requests are never in the locked section together.
LEMMA LockExcludes ==
    ASSUME IInv, NEW r \in Requests, NEW s \in Requests,
           pc[r] \in Locked, pc[s] \in Locked
    PROVE  r = s
  BY DEF IInv, LockOwner

-----------------------------------------------------------------------------
\* The process boots with one configuration served, running and reported.
LEMMA InitIInv == Init => IInv
<1> SUFFICES ASSUME Init PROVE IInv
  OBVIOUS
<1> USE DEF Init
<1>1. Boot \in Files /\ Nothing \notin Requests /\ IsFiniteSet(Requests)
  BY FilesAssumption
<1>2. TypeOK
  <2>1. /\ RunningFrom(Boot) \in RunningConfig /\ Active(Boot) \in ActiveZone
        /\ Boot.records \in Nat
    BY <1>1, FileFields
  <2>2. hook \in BOOLEAN /\ draining \in BOOLEAN /\ poisoned \in BOOLEAN
    BY Zenon
  <2>3. installed \in Seq(Requests)
    OBVIOUS
  <2> QED BY <1>1, <2>1, <2>2, <2>3 DEF TypeOK
<1>3. LockOwner /\ StagesPassed /\ AnswersInOrder
  BY <1>1 DEF LockOwner, StagesPassed, AnswersInOrder, Locked, Checking
<1>4. FixedHalf /\ InstalledInFull /\ NewestIsLast /\ LastThroughTheGate
  BY DEF FixedHalf, RunningFrom, InstalledInFull, NewestIsLast, LastThroughTheGate
<1>5. WritesInOrder /\ ServedIsRunning
  BY DEF WritesInOrder, ServedIsRunning, RunningFrom, Active
<1>6. RefusedTouchesNothing
  <2>1. {r \in Requests : result[r] = "ok"} = {}
    OBVIOUS
  <2>2. reloads = Cardinality({r \in Requests : result[r] = "ok"})
    <3>1. reloads = Cardinality({})
      BY FS_EmptySet
    <3> QED BY <2>1, <3>1, Zenon
  <2>3. /\ \A r, s \in Requests :
              r # s /\ result[r] = "ok" /\ result[s] = "ok"
                  => answer[r].reloads # answer[s].reloads
        /\ DOMAIN installed = {}
        /\ active = Active(Boot)
    OBVIOUS
  <2> HIDE DEF Init
  <2>4. installed = <<>>
    BY DEF Init
  <2> QED BY <2>2, <2>3, <2>4 DEF RefusedTouchesNothing
<1>7. NeverOlderThanServed /\ DriftIsAgainstBoot
  BY DEF NeverOlderThanServed, DriftIsAgainstBoot
<1> QED
  BY <1>2, <1>3, <1>4, <1>5, <1>6, <1>7 DEF IInv

-----------------------------------------------------------------------------
(* Steps that install nothing: Arrive, Pass, Take, Reject and Read. *)

\* What they have in common: one request moves among the positions before
\* the swap, or is refused, and writes no other request's state.
Refrain(r, to) ==
    /\ pc[r] \notin Installing \cup {"swap", "answered"}
    /\ to \notin Installing
    /\ pc' = [pc EXCEPT ![r] = to]
    /\ UNCHANGED <<running, active, gauge, reloads, answer, installed>>
    /\ \A s \in Requests \ {r} :
          fresh'[s] = fresh[s] /\ madeAt'[s] = madeAt[s] /\ readAt'[s] = readAt[s]
    /\ \/ to # "answered" /\ result' = result
       \/ \E code \in ErrorCodes :
             to = "answered" /\ result' = [result EXCEPT ![r] = code]

\* Refraining leaves what is served, counted and recorded alone.
LEMMA RefrainKeeps ==
    ASSUME IInv, NEW r \in Requests, NEW to, Refrain(r, to)
    PROVE  /\ FixedHalf' /\ InstalledInFull' /\ WritesInOrder'
           /\ RefusedTouchesNothing' /\ NeverOlderThanServed' /\ DriftIsAgainstBoot'
           /\ TypeOK' /\ LockOwner' => ServedIsRunning'
<1>1. /\ UNCHANGED <<running, active, gauge, reloads, answer, installed>>
      /\ pc'[r] = to /\ \A s \in Requests : s # r => pc'[s] = pc[s]
      /\ \A s \in Requests : s # r =>
            /\ result'[s] = result[s] /\ fresh'[s] = fresh[s]
            /\ madeAt'[s] = madeAt[s] /\ readAt'[s] = readAt[s]
      /\ to \notin Installing /\ pc[r] \notin Installing \cup {"swap", "answered"}
      /\ result'[r] # "ok"
      /\ result[r] # "ok" /\ answer[r] = Nothing
  <2>1. DOMAIN pc = Requests /\ DOMAIN result = Requests
    BY DEF IInv, TypeOK
  <2>2. result[r] # "ok" /\ answer[r] = Nothing
    BY DEF IInv, AnswersInOrder, Refrain, Installing
  <2>3. /\ pc'[r] = to /\ \A s \in Requests : s # r => pc'[s] = pc[s]
        /\ \A s \in Requests : s # r => result'[s] = result[s]
    BY <2>1 DEF Refrain
  <2>4. result'[r] # "ok"
    BY <2>1, <2>2 DEF Refrain, ErrorCodes
  <2> QED BY <2>2, <2>3, <2>4 DEF Refrain
<1>2. installed \in Seq(Requests)
  BY DEF IInv, TypeOK
<1>3. \A i \in DOMAIN installed :
          /\ installed[i] \in Requests /\ installed[i] # r
          /\ Built(installed[i])
          /\ \/ pc[installed[i]] \in Installing
             \/ pc[installed[i]] = "answered" /\ result[installed[i]] = "ok"
  BY <1>1, <1>2 DEF IInv, InstalledInFull
<1>4. FixedHalf' /\ DriftIsAgainstBoot'
  BY <1>1 DEF IInv, FixedHalf, DriftIsAgainstBoot
<1>5. NeverOlderThanServed'
  BY <1>1, <1>3 DEF IInv, NeverOlderThanServed
<1>6. InstalledInFull'
  BY <1>1, <1>3 DEF InstalledInFull, Built, Resolved, SameZone
<1>7. WritesInOrder'
  BY <1>1 DEF IInv, WritesInOrder, LastInstalled, Installing
<1>8. RefusedTouchesNothing'
  <2>1. {s \in Requests : result'[s] = "ok"} = {s \in Requests : result[s] = "ok"}
    BY <1>1
  <2>2. \A s \in Requests : result'[s] = "ok" => result[s] = "ok"
    BY <1>1
  <2>3. reloads' = Cardinality({s \in Requests : result'[s] = "ok"})
    <3>1. reloads = Cardinality({s \in Requests : result[s] = "ok"})
      BY DEF IInv, RefusedTouchesNothing
    <3> QED BY <1>1, <2>1, <3>1
  <2>4. \A i \in DOMAIN installed :
            /\ result'[installed[i]] \notin ErrorCodes
            /\ fresh'[installed[i]] = fresh[installed[i]]
    BY <1>1, <1>3 DEF IInv, RefusedTouchesNothing
  <2>5. active' = IF installed' = <<>> THEN Active(Boot)
                  ELSE Active(fresh'[installed'[Len(installed')]])
    <3>1. installed # <<>> => Len(installed) \in DOMAIN installed
      BY <1>2
    <3> QED BY <1>1, <2>4, <3>1 DEF IInv, RefusedTouchesNothing
  <2> QED BY <1>1, <2>2, <2>3, <2>4, <2>5 DEF IInv, RefusedTouchesNothing
<1>9. ASSUME TypeOK', LockOwner' PROVE ServedIsRunning'
  <2>1. gauge' \in {Boot.records}
                   \cup {fresh'[installed'[i]].records : i \in DOMAIN installed'}
    BY <1>1, <1>3 DEF IInv, ServedIsRunning
  <2>2. lock' = Nothing => (\A s \in Requests : pc'[s] \notin {"setGauge", "finish"})
    BY <1>9, FilesAssumption DEF LockOwner, Locked
  <2> QED BY <1>7, <2>1, <2>2 DEF ServedIsRunning, WritesInOrder
<1> QED BY <1>4, <1>5, <1>6, <1>7, <1>8, <1>9

\* Passing a check keeps the invariant.
LEMMA PassIInv ==
    ASSUME IInv, NEW r \in Requests, NEW from, NEW to, Pass(r, from, to)
    PROVE  IInv'
<1>1. /\ UNCHANGED <<hook, file, phase, draining, lock, poisoned, running, active,
                     gauge, reloads, fresh, result, answer, version, madeAt, readAt,
                     installed, late>>
      /\ pc[r] = from /\ pc' = [pc EXCEPT ![r] = to]
      /\ <<from, to>> \in Moves
      /\ to = "build" => SameZone(r)
      /\ to = "recheck" => fresh[r].build = "ok"
      /\ to = "swap" => ~draining
  BY DEF Pass, Goto, Quiet, served, history
<1>2. /\ from \in {"gate", "drainCheck", "originGate", "build", "recheck"}
      /\ to \in {"drainCheck", "tryLock", "build", "recheck", "swap"}
      /\ to \in {"build", "recheck", "swap"} <=> from \in {"originGate", "build", "recheck"}
      /\ to = "recheck" => from = "build"
      /\ to = "swap" => from = "recheck"
  BY <1>1 DEF Moves
<1>3. Refrain(r, to)
  BY <1>1, <1>2 DEF Refrain, Installing
<1>4. pc'[r] = to /\ \A s \in Requests : s # r => pc'[s] = pc[s]
  BY <1>1 DEF IInv, TypeOK
<1>5. TypeOK'
  BY <1>1, <1>2 DEF IInv, TypeOK
<1>6. LockOwner'
  BY <1>1, <1>2, <1>4 DEF IInv, LockOwner, Locked, Checking
<1>7. StagesPassed'
  BY <1>1, <1>2, <1>4 DEF IInv, StagesPassed, Checking, Resolved, SameZone, Built
<1>8. AnswersInOrder'
  BY <1>1, <1>2, <1>4 DEF IInv, AnswersInOrder
<1>9. NewestIsLast'
  BY <1>1, <1>2, <1>4 DEF IInv, NewestIsLast, Checking
<1>10. LastThroughTheGate'
  BY <1>1, <1>2, <1>4 DEF IInv, LastThroughTheGate
<1> QED
  BY <1>3, <1>5, <1>6, <1>7, <1>8, <1>9, <1>10, RefrainKeeps DEF IInv

\* Taking the lock keeps the invariant.
LEMMA TakeIInv ==
    ASSUME IInv, NEW r \in Requests, Take(r)
    PROVE  IInv'
<1>1. /\ UNCHANGED <<hook, file, phase, draining, poisoned, running, active, gauge,
                     reloads, fresh, result, answer, version, madeAt, readAt,
                     installed, late>>
      /\ pc[r] = "tryLock" /\ pc' = [pc EXCEPT ![r] = "resolve"]
      /\ lock = Nothing /\ lock' = r
  BY DEF Take, Goto, Quiet, served, history
<1>2. Refrain(r, "resolve")
  BY <1>1 DEF Refrain, Installing
<1>3. pc'[r] = "resolve" /\ \A s \in Requests : s # r => pc'[s] = pc[s]
  BY <1>1 DEF IInv, TypeOK
<1>4. TypeOK'
  BY <1>1 DEF IInv, TypeOK
<1>5. LockOwner'
  BY <1>1, <1>3, FilesAssumption DEF IInv, LockOwner, Locked
<1>6. StagesPassed' /\ AnswersInOrder' /\ NewestIsLast' /\ LastThroughTheGate'
  BY <1>1, <1>3 DEF IInv, StagesPassed, AnswersInOrder, NewestIsLast,
                    LastThroughTheGate, Checking, Resolved, SameZone, Built
<1> QED
  BY <1>2, <1>4, <1>5, <1>6, RefrainKeeps DEF IInv

\* A refusal, with or without the lock, keeps the invariant.
LEMMA RejectIInv ==
    ASSUME IInv, NEW r \in Requests, NEW from, NEW code, Reject(r, from, code)
    PROVE  IInv'
<1>1. /\ UNCHANGED <<hook, file, phase, draining, running, active, gauge,
                     reloads, fresh, answer, version, madeAt, readAt, installed, late>>
      /\ pc[r] = from /\ pc' = [pc EXCEPT ![r] = "answered"]
      /\ code \in ErrorCodes /\ result' = [result EXCEPT ![r] = code]
      /\ lock' = IF lock = r THEN Nothing ELSE lock
      /\ poisoned' \in BOOLEAN
      /\ from \in {"gate", "drainCheck", "tryLock", "resolve", "originGate",
                   "build", "recheck"}
  BY DEF Reject, Goto, Quiet, served, history
<1>2. Refrain(r, "answered")
  BY <1>1 DEF Refrain, Installing
<1>3. /\ pc'[r] = "answered" /\ \A s \in Requests : s # r => pc'[s] = pc[s]
      /\ result'[r] = code /\ \A s \in Requests : s # r => result'[s] = result[s]
  BY <1>1 DEF IInv, TypeOK
<1>4. TypeOK'
  BY <1>1 DEF IInv, TypeOK
<1>5. LockOwner'
  BY <1>1, <1>3, FilesAssumption DEF IInv, LockOwner, Locked, Checking
<1>6. StagesPassed' /\ NewestIsLast' /\ LastThroughTheGate'
  BY <1>1, <1>3 DEF IInv, StagesPassed, NewestIsLast,
                    LastThroughTheGate, Checking, Resolved, SameZone, Built
<1>7. AnswersInOrder'
  BY <1>1, <1>3 DEF IInv, AnswersInOrder, ErrorCodes
<1> QED
  BY <1>2, <1>4, <1>5, <1>6, <1>7, RefrainKeeps DEF IInv

\* A call coming in keeps the invariant.
LEMMA ArriveIInv ==
    ASSUME IInv, NEW r \in Requests, Arrive(r)
    PROVE  IInv'
<1>1. /\ UNCHANGED <<hook, file, phase, draining, lock, poisoned, running, active,
                     gauge, reloads, fresh, result, answer, version, readAt,
                     installed, late>>
      /\ pc[r] = "new" /\ pc' = [pc EXCEPT ![r] = "gate"]
      /\ madeAt' = [madeAt EXCEPT ![r] = version]
  BY DEF Arrive, Goto, served
<1>2. /\ pc'[r] = "gate" /\ \A s \in Requests : s # r => pc'[s] = pc[s]
      /\ madeAt'[r] = version /\ \A s \in Requests : s # r => madeAt'[s] = madeAt[s]
      /\ version \in Nat
  BY <1>1 DEF IInv, TypeOK
<1>3. Refrain(r, "gate")
  BY <1>1, <1>2 DEF Refrain, Installing
<1>4. TypeOK'
  BY <1>1 DEF IInv, TypeOK
<1>5. LockOwner'
  BY <1>1, <1>2 DEF IInv, LockOwner, Locked, Checking
<1>6. StagesPassed'
  BY <1>1, <1>2 DEF IInv, StagesPassed, Checking, Resolved, SameZone, Built
<1>7. AnswersInOrder' /\ NewestIsLast' /\ LastThroughTheGate'
  BY <1>1, <1>2 DEF IInv, AnswersInOrder, NewestIsLast, LastThroughTheGate, Checking
<1> QED
  BY <1>3, <1>4, <1>5, <1>6, <1>7, RefrainKeeps DEF IInv

\* Resolving the file keeps the invariant: what is read now is at least as
\* new as anything installed, and nobody else is past this point.
LEMMA ReadIInv ==
    ASSUME IInv, NEW r \in Requests, Read(r)
    PROVE  IInv'
<1>1. /\ UNCHANGED <<hook, file, phase, draining, lock, poisoned, running, active,
                     gauge, reloads, result, answer, version, madeAt,
                     installed, late>>
      /\ pc[r] = "resolve" /\ pc' = [pc EXCEPT ![r] = "originGate"]
      /\ fresh' = [fresh EXCEPT ![r] = file]
      /\ readAt' = [readAt EXCEPT ![r] = version]
      /\ file.fault = "none"
  BY DEF Read, Goto, served
<1>2. /\ pc'[r] = "originGate" /\ \A s \in Requests : s # r => pc'[s] = pc[s]
      /\ readAt'[r] = version /\ \A s \in Requests : s # r => readAt'[s] = readAt[s]
      /\ fresh'[r] = file /\ \A s \in Requests : s # r => fresh'[s] = fresh[s]
      /\ version \in Nat /\ file \in Files
      /\ installed \in Seq(Requests)
  BY <1>1 DEF IInv, TypeOK
<1>3. Refrain(r, "originGate")
  BY <1>1, <1>2 DEF Refrain, Installing
<1>4. TypeOK'
  BY <1>1 DEF IInv, TypeOK
<1>5. LockOwner'
  BY <1>1, <1>2 DEF IInv, LockOwner, Locked, Checking
<1>6. StagesPassed'
  BY <1>1, <1>2 DEF IInv, StagesPassed, Checking, Resolved, SameZone, Built
<1>7. AnswersInOrder' /\ LastThroughTheGate'
  BY <1>1, <1>2 DEF IInv, AnswersInOrder, LastThroughTheGate
<1>8. NewestIsLast'
  <2>1. \A s \in Requests : pc'[s] \in Checking => s = r
    BY <1>1, <1>2 DEF IInv, LockOwner, Locked, Checking
  <2>2. \A i \in DOMAIN installed : readAt'[installed[i]] <= version
    BY <1>2 DEF IInv, StagesPassed
  <2> QED BY <1>1, <1>2, <2>1, <2>2 DEF NewestIsLast
<1> QED
  BY <1>3, <1>4, <1>5, <1>6, <1>7, <1>8, RefrainKeeps DEF IInv

-----------------------------------------------------------------------------
(* The environment, the installation and the count. *)

\* Edits of the file and the start of the drain keep the invariant: at most
\* one request can be past its last check when the token is cancelled.
LEMMA EnvironmentIInv ==
    ASSUME IInv, EditFile \/ CancelDrainToken \/ EnterDraining
    PROVE  IInv'
<1>1. /\ UNCHANGED <<hook, lock, poisoned, running, active, gauge, reloads, pc,
                     fresh, result, answer, madeAt, readAt, installed, late>>
      /\ file' \in Files /\ phase' \in {"serving", "draining"}
      /\ draining' \in BOOLEAN /\ version' \in Nat /\ version <= version'
      /\ draining' = draining \/ ~draining
  <2>1. /\ file \in Files /\ phase \in {"serving", "draining"} /\ version \in Nat
        /\ draining \in BOOLEAN
    BY DEF IInv, TypeOK
  <2>2. CASE EditFile
    <3>1. draining' = draining /\ draining' \in BOOLEAN
      BY <2>1, <2>2, Zenon DEF EditFile
    <3> QED BY <2>1, <2>2, <3>1 DEF EditFile, served
  <2>3. CASE CancelDrainToken
    <3>1. draining' \in BOOLEAN /\ (draining' = draining \/ ~draining)
      BY <2>3, Zenon DEF CancelDrainToken
    <3>2. UNCHANGED <<hook, file, phase, lock, poisoned, served, reloads, pc,
                      fresh, result, answer, history>>
      BY <2>3, Zenon DEF CancelDrainToken
    <3> QED BY <2>1, <3>1, <3>2 DEF served, history
  <2>4. CASE EnterDraining
    BY <2>1, <2>4 DEF EnterDraining, served, history
  <2> QED BY <2>2, <2>3, <2>4
<1>2. TypeOK'
  BY <1>1 DEF IInv, TypeOK
<1>3. LockOwner' /\ AnswersInOrder' /\ FixedHalf' /\ InstalledInFull' /\ WritesInOrder'
      /\ NewestIsLast' /\ ServedIsRunning' /\ RefusedTouchesNothing'
      /\ NeverOlderThanServed' /\ DriftIsAgainstBoot'
  BY <1>1 DEF IInv, LockOwner, AnswersInOrder, FixedHalf, InstalledInFull,
              WritesInOrder, NewestIsLast, ServedIsRunning, RefusedTouchesNothing,
              NeverOlderThanServed, DriftIsAgainstBoot, LastInstalled, Built,
              Resolved, SameZone
<1>4. StagesPassed'
  BY <1>1 DEF IInv, StagesPassed, TypeOK, Resolved, SameZone, Built
<1>5. LastThroughTheGate'
  BY <1>1, LockExcludes DEF IInv, LastThroughTheGate, Locked, Checking
<1> QED BY <1>2, <1>3, <1>4, <1>5 DEF IInv

\* The swap keeps the invariant: the request it installs holds the lock, has
\* passed every stage and has read the newest file of those installed.
LEMMA SwapIInv ==
    ASSUME IInv, NEW r \in Requests, Swap(r)
    PROVE  IInv'
<1>1. /\ UNCHANGED <<hook, file, phase, draining, lock, poisoned, running, gauge,
                     reloads, fresh, result, answer, version, madeAt, readAt>>
      /\ pc[r] = "swap" /\ pc' = [pc EXCEPT ![r] = "setGauge"]
      /\ active' = Active(fresh[r])
      /\ installed' = Append(installed, r)
      /\ late' = IF draining THEN late \cup {r} ELSE late
  BY DEF Swap, Goto
<1>2. /\ pc'[r] = "setGauge" /\ \A s \in Requests : s # r => pc'[s] = pc[s]
      /\ installed \in Seq(Requests)
  BY <1>1 DEF IInv, TypeOK
<1>3. /\ installed' \in Seq(Requests) /\ Len(installed') = Len(installed) + 1
      /\ DOMAIN installed' = DOMAIN installed \cup {Len(installed) + 1}
      /\ DOMAIN installed = 1 .. Len(installed) /\ Len(installed) \in Nat
      /\ installed'[Len(installed) + 1] = r
      /\ \A i \in DOMAIN installed : installed'[i] = installed[i]
      /\ installed' # <<>>
  BY <1>1, <1>2
<1>4. Built(r) /\ result[r] = "none" /\ lock = r
  BY <1>1 DEF IInv, StagesPassed, AnswersInOrder, LockOwner, Locked, Checking
<1>5. \A i \in DOMAIN installed : installed[i] \in Requests /\ installed[i] # r
  BY <1>1, <1>2 DEF IInv, InstalledInFull, Installing
<1>6. \A s \in Requests : s # r => pc[s] \notin Locked
  BY <1>1, LockExcludes DEF Locked, Checking
<1>7. TypeOK'
  <2>1. Active(fresh[r]) \in ActiveZone
    BY <1>4, FileFields DEF Built, Resolved
  <2> QED BY <1>1, <1>3, <2>1 DEF IInv, TypeOK
<1>8. LockOwner'
  BY <1>1, <1>2 DEF IInv, LockOwner, Locked, Checking
<1>9. StagesPassed' /\ AnswersInOrder' /\ FixedHalf' /\ DriftIsAgainstBoot'
  BY <1>1, <1>2 DEF IInv, StagesPassed, AnswersInOrder, FixedHalf, DriftIsAgainstBoot,
                    Checking, Resolved, SameZone, Built
<1>10. InstalledInFull'
  <2>1. \A i \in DOMAIN installed' : Built(installed'[i])
    BY <1>3, <1>4 DEF IInv, InstalledInFull
  <2>2. \A i \in DOMAIN installed' :
            \/ pc'[installed'[i]] \in Installing
            \/ pc'[installed'[i]] = "answered" /\ result'[installed'[i]] = "ok"
    BY <1>1, <1>2, <1>3, <1>5 DEF IInv, InstalledInFull, Installing
  <2> QED BY <1>1, <2>1, <2>2 DEF InstalledInFull, Built, Resolved, SameZone
<1>11. WritesInOrder'
  BY <1>1, <1>2, <1>3, <1>6 DEF WritesInOrder, LastInstalled, Locked
<1>12. NewestIsLast'
  BY <1>1, <1>2, <1>6 DEF NewestIsLast, Locked, Checking
<1>13. LastThroughTheGate'
  <2>1. CASE draining
    BY <1>1, <1>2, <2>1 DEF IInv, LastThroughTheGate
  <2>2. CASE ~draining
    BY <1>1, <2>2 DEF IInv, LastThroughTheGate
  <2> QED BY <2>1, <2>2
<1>14. ServedIsRunning'
  BY <1>1, <1>3, <1>4, FilesAssumption DEF IInv, ServedIsRunning
<1>15. RefusedTouchesNothing'
  <2>1. \A i \in DOMAIN installed' :
            /\ result'[installed'[i]] \notin ErrorCodes
            /\ fresh'[installed'[i]] # Nothing
    <3>1. result[r] \notin ErrorCodes /\ fresh[r] # Nothing
      BY <1>4, FilesAssumption DEF ErrorCodes, Built, Resolved
    <3> QED BY <1>1, <1>3, <3>1 DEF IInv, RefusedTouchesNothing
  <2>2. active' = Active(fresh'[installed'[Len(installed')]])
    BY <1>1, <1>3
  <2> QED BY <1>1, <1>3, <2>1, <2>2 DEF IInv, RefusedTouchesNothing
<1>16. NeverOlderThanServed'
  <2>1. \A i \in DOMAIN installed : readAt[installed[i]] <= readAt[r]
    BY <1>1 DEF IInv, NewestIsLast, Checking
  <2>2. madeAt[r] <= readAt[r] /\ readAt[r] \in Nat
    BY <1>4 DEF Built, Resolved, IInv, TypeOK
  <2>3. \A i, j \in DOMAIN installed' :
            i < j => i \in DOMAIN installed
    BY <1>3
  <2> QED BY <1>1, <1>3, <2>1, <2>2, <2>3 DEF IInv, NeverOlderThanServed
<1> QED
  BY <1>7, <1>8, <1>9, <1>10, <1>11, <1>12, <1>13, <1>14, <1>15, <1>16 DEF IInv

\* Publishing the record count keeps the invariant.
LEMMA SetGaugeIInv ==
    ASSUME IInv, NEW r \in Requests, SetGauge(r)
    PROVE  IInv'
<1>1. /\ UNCHANGED <<hook, file, phase, draining, lock, poisoned, running, active,
                     reloads, fresh, result, answer, version, madeAt, readAt,
                     installed, late>>
      /\ pc[r] = "setGauge" /\ pc' = [pc EXCEPT ![r] = "finish"]
      /\ gauge' = fresh[r].records
  BY DEF SetGauge, Goto, history
<1>2. /\ pc'[r] = "finish" /\ \A s \in Requests : s # r => pc'[s] = pc[s]
      /\ installed \in Seq(Requests)
  BY <1>1 DEF IInv, TypeOK
<1>3. Built(r) /\ active = Active(fresh[r]) /\ LastInstalled(r)
  BY <1>1, InstallingIsBuilt
<1>4. lock = r
  BY <1>1 DEF IInv, LockOwner, Locked
<1>5. \A s \in Requests : s # r => pc[s] \notin Locked
  BY <1>1, LockExcludes DEF Locked
<1>6. TypeOK'
  <2>1. fresh[r].records \in Nat
    BY <1>3, FileFields DEF Built, Resolved
  <2> QED BY <1>1, <2>1 DEF IInv, TypeOK
<1>7. LockOwner'
  BY <1>1, <1>2 DEF IInv, LockOwner, Locked, Checking
<1>8. StagesPassed' /\ AnswersInOrder' /\ FixedHalf' /\ NewestIsLast'
  BY <1>1, <1>2 DEF IInv, StagesPassed, AnswersInOrder, FixedHalf, NewestIsLast,
                    Checking, Resolved, SameZone, Built
<1>9. LastThroughTheGate' /\ RefusedTouchesNothing' /\ NeverOlderThanServed'
      /\ DriftIsAgainstBoot'
  BY <1>1, <1>2 DEF IInv, LastThroughTheGate, RefusedTouchesNothing,
                    NeverOlderThanServed, DriftIsAgainstBoot
<1>10. InstalledInFull'
  BY <1>1, <1>2 DEF IInv, InstalledInFull, Installing, Built, Resolved, SameZone
<1>11. WritesInOrder'
  BY <1>1, <1>2, <1>3, <1>5 DEF WritesInOrder, LastInstalled, Locked, Active
<1>12. ServedIsRunning'
  <2>1. Len(installed) \in DOMAIN installed /\ installed[Len(installed)] = r
    BY <1>2, <1>3 DEF LastInstalled
  <2> QED BY <1>1, <1>4, <2>1, FilesAssumption DEF ServedIsRunning
<1> QED
  BY <1>6, <1>7, <1>8, <1>9, <1>10, <1>11, <1>12 DEF IInv

\* The return of the hook keeps the invariant: the last of the three writes
\* is made as the lock is released.
LEMMA FinishIInv ==
    ASSUME IInv, NEW r \in Requests, Finish(r)
    PROVE  IInv'
<1> DEFINE body == [origin |-> fresh[r].origin, records |-> fresh[r].records,
                    ignored |-> drift(running.fixed, fresh[r]), reloads |-> 0]
<1>1. /\ UNCHANGED <<hook, file, phase, draining, poisoned, active, gauge,
                     reloads, fresh, result, version, madeAt, readAt,
                     installed, late>>
      /\ pc[r] = "finish" /\ pc' = [pc EXCEPT ![r] = "count"]
      /\ running' = apply_reloadable(running, fresh[r])
      /\ answer' = [answer EXCEPT ![r] = body]
      /\ lock' = Nothing
  BY DEF Finish, Goto, history
<1>2. /\ Built(r) /\ active = Active(fresh[r])
      /\ fresh[r] \in Files /\ running \in RunningConfig
  BY <1>1, InstallingIsBuilt DEF Built, Resolved, IInv, TypeOK
<1>3. body \in Answers
  BY <1>2, FileFields DEF Answers, drift
<1>4. body.ignored = drift(Effective(Boot), fresh[r])
  BY DEF IInv, FixedHalf
<1> HIDE DEF body
<1>5. /\ pc'[r] = "count" /\ \A s \in Requests : s # r => pc'[s] = pc[s]
      /\ answer'[r] = body /\ \A s \in Requests : s # r => answer'[s] = answer[s]
      /\ installed \in Seq(Requests)
  BY <1>1 DEF IInv, TypeOK
<1>6. lock = r /\ \A s \in Requests : s # r => pc[s] \notin Locked
  BY <1>1, LockExcludes DEF IInv, LockOwner, Locked
<1>7. /\ running' \in RunningConfig
      /\ running'.zone = fresh[r].zone /\ running'.records = fresh[r].records
      /\ running'.builtins = fresh[r].builtins
      /\ running'.origin = running.origin /\ running'.fixed = running.fixed
  BY <1>1, <1>2, FileFields DEF RunningConfig, apply_reloadable
<1>8. TypeOK'
  BY <1>1, <1>3, <1>7 DEF IInv, TypeOK
<1>9. LockOwner'
  BY <1>1, <1>5, <1>6, FilesAssumption DEF LockOwner, Locked, Checking
<1>10. StagesPassed' /\ FixedHalf' /\ NewestIsLast' /\ LastThroughTheGate'
       /\ NeverOlderThanServed'
  BY <1>1, <1>5, <1>7 DEF IInv, StagesPassed, FixedHalf, NewestIsLast, LastThroughTheGate,
                    NeverOlderThanServed, Checking, Resolved, SameZone, Built
<1>11. AnswersInOrder'
  BY <1>1, <1>3, <1>4, <1>5 DEF IInv, AnswersInOrder
<1>12. InstalledInFull'
  BY <1>1, <1>5 DEF IInv, InstalledInFull, Installing, Built, Resolved, SameZone
<1>13. WritesInOrder'
  <2>1. gauge = active.records
    BY <1>1, <1>6 DEF IInv, WritesInOrder, Locked
  <2> QED BY <1>1, <1>2, <1>5, <1>6, <1>7, <2>1 DEF WritesInOrder, Locked, Active
<1>14. ServedIsRunning'
  <2>1. \A s \in Requests : pc'[s] \notin {"setGauge", "finish"}
    BY <1>5, <1>6 DEF Locked
  <2> QED BY <1>1, <1>13, <2>1 DEF IInv, WritesInOrder, ServedIsRunning
<1>15. RefusedTouchesNothing'
  <2>1. result[r] # "ok"
    BY <1>1 DEF IInv, AnswersInOrder
  <2> QED BY <1>1, <1>5, <2>1 DEF IInv, RefusedTouchesNothing
<1>16. DriftIsAgainstBoot'
  BY <1>1, <1>4, <1>5 DEF IInv, DriftIsAgainstBoot
<1> QED
  BY <1>8, <1>9, <1>10, <1>11, <1>12, <1>13, <1>14, <1>15, <1>16 DEF IInv

\* The count keeps the invariant: one more request has its 200, with a number
\* none of the others carries.
LEMMA CountIInv ==
    ASSUME IInv, NEW r \in Requests, Count(r)
    PROVE  IInv'
<1>1. /\ UNCHANGED <<hook, file, phase, draining, lock, poisoned, running, active,
                     gauge, fresh, version, madeAt, readAt, installed, late>>
      /\ pc[r] = "count" /\ pc' = [pc EXCEPT ![r] = "answered"]
      /\ reloads' = reloads + 1
      /\ result' = [result EXCEPT ![r] = "ok"]
      /\ answer' = [answer EXCEPT ![r].reloads = reloads + 1]
  BY DEF Count, Goto, served, history
<1>2. /\ answer[r] \in Answers /\ result[r] = "none" /\ reloads \in Nat
      /\ answer \in [Requests -> Answers \cup {Nothing}]
      /\ installed \in Seq(Requests)
  BY <1>1 DEF IInv, AnswersInOrder, TypeOK
<1>3. /\ pc'[r] = "answered" /\ \A s \in Requests : s # r => pc'[s] = pc[s]
      /\ result'[r] = "ok" /\ \A s \in Requests : s # r => result'[s] = result[s]
      /\ \A s \in Requests : s # r => answer'[s] = answer[s]
      /\ answer'[r] = [answer[r] EXCEPT !.reloads = reloads + 1]
  BY <1>1, <1>2 DEF IInv, TypeOK
<1>4. /\ answer'[r] \in Answers /\ answer'[r].reloads = reloads + 1
      /\ answer'[r].ignored = answer[r].ignored
  BY <1>2, <1>3 DEF Answers
<1>5. TypeOK'
  <2>1. answer' \in [Requests -> Answers \cup {Nothing}]
    BY <1>1, <1>2, <1>4
  <2> QED BY <1>1, <1>2, <2>1 DEF IInv, TypeOK
<1>6. LockOwner' /\ StagesPassed' /\ FixedHalf' /\ NewestIsLast' /\ LastThroughTheGate'
      /\ NeverOlderThanServed'
  BY <1>1, <1>3 DEF IInv, LockOwner, StagesPassed, FixedHalf, NewestIsLast,
                    LastThroughTheGate, NeverOlderThanServed, Locked, Checking,
                    Resolved, SameZone, Built
<1>7. AnswersInOrder'
  BY <1>1, <1>2, <1>3, <1>4 DEF IInv, AnswersInOrder
<1>8. InstalledInFull'
  BY <1>1, <1>2, <1>3 DEF IInv, InstalledInFull, Installing, Built, Resolved, SameZone
<1>9. WritesInOrder' /\ ServedIsRunning'
  BY <1>1, <1>3 DEF IInv, WritesInOrder, ServedIsRunning, LastInstalled
<1>10. RefusedTouchesNothing'
  <2> DEFINE counted == {s \in Requests : result[s] = "ok"}
             after == {s \in Requests : result'[s] = "ok"}
  <2>1. after = counted \cup {r} /\ r \notin counted
    BY <1>2, <1>3
  <2>2. IsFiniteSet(counted)
    BY FilesAssumption, FS_Subset
  <2>3. Cardinality(counted \cup {r}) = Cardinality(counted) + 1
    BY <2>1, <2>2, FS_AddElement
  <2>4. reloads = Cardinality(counted)
    BY DEF IInv, RefusedTouchesNothing
  <2>5. reloads' = Cardinality(after)
    BY <1>1, <2>1, <2>3, <2>4
  <2>6. \A s \in Requests : s # r /\ result'[s] = "ok" => answer'[s].reloads \in 1 .. reloads
    BY <1>3 DEF IInv, AnswersInOrder
  <2>7. \A s, u \in Requests :
            s # u /\ result'[s] = "ok" /\ result'[u] = "ok"
                => answer'[s].reloads # answer'[u].reloads
    <3>1. \A s \in Requests : s # r /\ result'[s] = "ok" => answer'[s].reloads # reloads + 1
      BY <1>2, <2>6
    <3>2. \A s, u \in Requests :
              s # u /\ s # r /\ u # r /\ result'[s] = "ok" /\ result'[u] = "ok"
                  => answer'[s].reloads # answer'[u].reloads
      BY <1>3 DEF IInv, RefusedTouchesNothing
    <3> QED BY <1>4, <3>1, <3>2
  <2>8. \A i \in DOMAIN installed : result'[installed[i]] \notin ErrorCodes
    BY <1>1, <1>2, <1>3 DEF IInv, RefusedTouchesNothing, ErrorCodes
  <2> QED BY <1>1, <2>5, <2>7, <2>8 DEF IInv, RefusedTouchesNothing
<1>11. DriftIsAgainstBoot'
  <2>1. answer[r].ignored = drift(Effective(Boot), fresh[r])
    BY <1>1 DEF IInv, AnswersInOrder
  <2> QED BY <1>1, <1>3, <1>4, <2>1 DEF IInv, DriftIsAgainstBoot
<1> QED
  BY <1>5, <1>6, <1>7, <1>8, <1>9, <1>10, <1>11 DEF IInv

-----------------------------------------------------------------------------
\* Every step keeps the invariant.
LEMMA NextIInv == IInv /\ [Next]_vars => IInv'
<1> SUFFICES ASSUME IInv, [Next]_vars PROVE IInv'
  OBVIOUS
<1>1. CASE UNCHANGED vars
  BY <1>1 DEF vars, IInv, TypeOK, LockOwner, StagesPassed, AnswersInOrder, FixedHalf,
              InstalledInFull, WritesInOrder, NewestIsLast, LastThroughTheGate,
              ServedIsRunning, RefusedTouchesNothing, NeverOlderThanServed,
              DriftIsAgainstBoot, LastInstalled, Built, Resolved, SameZone
<1>2. ASSUME NEW r \in Requests, Step(r) PROVE IInv'
  BY <1>2, StepKinds, PassIInv, RejectIInv, TakeIInv, ReadIInv, SwapIInv, SetGaugeIInv,
     FinishIInv, CountIInv
<1> QED
  BY <1>1, <1>2, EnvironmentIInv, ArriveIInv DEF Next

\* IInv is an invariant, and with it the properties that are parts of it.
LEMMA Invariance == Spec => []IInv
  BY InitIInv, NextIInv, PTL DEF Spec

\* Every variable keeps its type, for every set of requests, files and fixed
\* settings.
THEOREM TypeCorrect == Spec => []TypeOK
<1>1. IInv => TypeOK
  BY DEF IInv
<1> QED BY <1>1, Invariance, PTL

\* What is answered, reported and believed agree whenever no reload holds the
\* lock, for any number of racing, refused and panicking reloads.
THEOREM AtomicallyServed == Spec => []ServedIsRunning
<1>1. IInv => ServedIsRunning
  BY DEF IInv
<1> QED BY <1>1, Invariance, PTL

\* A refused reload has installed and counted nothing, and the counter is the
\* number of 200s, however many requests race.
THEOREM RefusalIsClean == Spec => []RefusedTouchesNothing
<1>1. IInv => RefusedTouchesNothing
  BY DEF IInv
<1> QED BY <1>1, Invariance, PTL

\* No reload installs a file older than the one being served, for any number
\* of edits and requests.
THEOREM EditThenReload == Spec => []NeverOlderThanServed
<1>1. IInv => NeverOlderThanServed
  BY DEF IInv
<1> QED BY <1>1, Invariance, PTL

\* However many requests are in flight when the drain starts, at most one of
\* them still installs.
THEOREM OneLateInstall == Spec => []AtMostOneLateInstall
<1>1. IInv => AtMostOneLateInstall
  BY DEF IInv, TypeOK, LastThroughTheGate, AtMostOneLateInstall
<1> QED BY <1>1, Invariance, PTL

\* The origin, the fixed settings and the drift reported against them are
\* those of the boot after any sequence of reloads.
THEOREM FixedAtBoot == Spec => []FixedHalfNeverMoves
<1>1. ASSUME IInv PROVE FixedHalfNeverMoves
  <2>1. \A i \in DOMAIN installed :
            /\ Servable(fresh[installed[i]])
            /\ Canonical[fresh[installed[i]].origin] = Canonical[Boot.origin]
    BY <1>1 DEF IInv, InstalledInFull, Built, Resolved, SameZone, SameOrigin, Servable
  <2>2. installed # <<>> => Len(installed) \in DOMAIN installed
    BY <1>1 DEF IInv, TypeOK
  <2>3. OriginNeverMoves
    BY <1>1, <2>1, <2>2 DEF IInv, RefusedTouchesNothing, OriginNeverMoves, Active
  <2>4. DriftIsAgainstBoot
    BY <1>1 DEF IInv
  <2>5. HonouredIsNotIgnored
    <3>1. ASSUME NEW r \in Requests, NEW k \in FixedKeys, answer[r] # Nothing,
                 fresh[r].stated[k] # Unset, fresh[r].stated[k] = Effective(Boot)[k],
                 k \in answer[r].ignored
          PROVE  k = "burst" /\ "qps" \in answer[r].ignored
      <4>1. answer[r].ignored = drift(Effective(Boot), fresh[r])
        BY <3>1, <2>4 DEF DriftIsAgainstBoot
      <4>2. Effective(fresh[r])[k] # Effective(Boot)[k]
        BY <3>1, <4>1 DEF drift
      <4>3. "qps" \in FixedKeys
        BY DEF FixedKeys
      <4>4. "qps" \notin answer[r].ignored => Effective(fresh[r])["qps"] = Effective(Boot)["qps"]
        BY <4>1, <4>3 DEF drift
      <4> QED BY <3>1, <4>2, <4>4, HonouredKey
    <3> QED BY <3>1 DEF HonouredIsNotIgnored
  <2> QED BY <2>3, <2>4, <2>5 DEF FixedHalfNeverMoves
<1> QED BY <1>1, Invariance, PTL

-----------------------------------------------------------------------------
(* Reload implements LiveZone. *)

\* The value LiveZone's `stage' has in Reload.
Stages == [r \in Requests |-> Stage(r)]

\* A step of one request that moves its stage moves nobody else's.
LEMMA StageMoves ==
    ASSUME IInv, NEW r \in Requests, NEW to,
           pc' = [pc EXCEPT ![r] = to],
           \A s \in Requests \ {r} : result'[s] = result[s]
    PROVE  Stages' = [Stages EXCEPT ![r] = Stage(r)']
<1>1. \A s \in Requests \ {r} : pc'[s] = pc[s]
  BY DEF IInv, TypeOK
<1>2. \A s \in Requests \ {r} : Stage(s)' = Stage(s)
  BY <1>1 DEF Stage
<1> QED BY <1>2 DEF Stages

\* As long as nothing is installed, LiveZone's `served' stays.
LEMMA ServedStays ==
    ASSUME IInv, installed' = installed,
           \A i \in DOMAIN installed : fresh'[installed[i]] = fresh[installed[i]]
    PROVE  ServedContents' = ServedContents
<1>1. installed # <<>> => Len(installed) \in DOMAIN installed
  BY DEF IInv, TypeOK
<1> QED BY <1>1 DEF ServedContents

\* Every step of the hook and the handler is a step LiveZone allows, or one
\* it does not see.
LEMMA NextRefines == IInv /\ [Next]_vars => [Promise!ANext]_(Promise!avars)
<1> SUFFICES ASSUME IInv, [Next]_vars
             PROVE  Promise!ANext \/ UNCHANGED <<file, ServedContents, Stages, fresh>>
  BY DEF Promise!avars, Stages
<1>1. CASE UNCHANGED vars
  <2>1. UNCHANGED <<file, installed, fresh, pc, result>>
    BY <1>1 DEF vars
  <2> QED BY <2>1, ServedStays DEF Stages, Stage
<1>2. CASE EditFile
  <2>1. UNCHANGED <<installed, fresh, pc, result>> /\ file' \in Files
    BY <1>2 DEF EditFile
  <2>2. UNCHANGED <<ServedContents, Stages, fresh>>
    BY <2>1, ServedStays DEF Stages, Stage
  <2> QED BY <2>1, <2>2 DEF Promise!ANext, Promise!AEdit, Stages
<1>3. CASE CancelDrainToken \/ EnterDraining
  <2>1. UNCHANGED <<file, installed, fresh, pc, result>>
    BY <1>3 DEF CancelDrainToken, EnterDraining, history
  <2> QED BY <2>1, ServedStays DEF Stages, Stage
<1>4. ASSUME NEW r \in Requests, Arrive(r)
      PROVE  Promise!ABegin(r)
  <2>1. /\ UNCHANGED <<file, installed, fresh, result>>
        /\ pc[r] = "new" /\ pc' = [pc EXCEPT ![r] = "gate"]
        /\ result[r] = "none" /\ pc'[r] = "gate"
    BY <1>4 DEF Arrive, Goto, IInv, TypeOK, AnswersInOrder
  <2>2. Stage(r) = "new" /\ Stage(r)' = "open"
    BY <2>1 DEF Stage
  <2>3. Stages' = [Stages EXCEPT ![r] = "open"]
    BY <2>1, <2>2, StageMoves
  <2>4. UNCHANGED ServedContents
    BY <2>1, ServedStays
  <2> QED BY <2>1, <2>2, <2>3, <2>4 DEF Promise!ABegin, Stages
<1>5. ASSUME NEW r \in Requests, NEW from, NEW to, Pass(r, from, to)
      PROVE  UNCHANGED <<file, ServedContents, Stages, fresh>>
  <2>1. /\ UNCHANGED <<file, installed, fresh, result>>
        /\ pc[r] = from /\ pc' = [pc EXCEPT ![r] = to] /\ <<from, to>> \in Moves
    BY <1>5 DEF Pass, Goto, Quiet, history
  <2>2. pc'[r] = to /\ result[r] = "none"
    BY <2>1 DEF IInv, TypeOK, AnswersInOrder, Moves
  <2>3. Stage(r)' = Stage(r)
    BY <2>1, <2>2 DEF Stage, Moves
  <2>4. Stages' = [Stages EXCEPT ![r] = Stage(r)]
    BY <2>1, <2>3, StageMoves
  <2>5. UNCHANGED ServedContents
    BY <2>1, ServedStays
  <2> QED BY <2>1, <2>4, <2>5 DEF Stages
<1>6. ASSUME NEW r \in Requests, Take(r)
      PROVE  UNCHANGED <<file, ServedContents, Stages, fresh>>
  <2>1. /\ UNCHANGED <<file, installed, fresh, result>>
        /\ pc[r] = "tryLock" /\ pc' = [pc EXCEPT ![r] = "resolve"]
    BY <1>6 DEF Take, Goto, Quiet, history
  <2>2. pc'[r] = "resolve"
    BY <2>1 DEF IInv, TypeOK
  <2>3. Stage(r)' = Stage(r)
    BY <2>1, <2>2 DEF Stage
  <2>4. Stages' = [Stages EXCEPT ![r] = Stage(r)]
    BY <2>1, <2>3, StageMoves
  <2>5. UNCHANGED ServedContents
    BY <2>1, ServedStays
  <2> QED BY <2>1, <2>4, <2>5 DEF Stages
<1>7. ASSUME NEW r \in Requests, NEW from, NEW code, Reject(r, from, code)
      PROVE  Promise!ARefuse(r)
  <2>1. /\ UNCHANGED <<file, installed, fresh>>
        /\ pc[r] = from /\ pc' = [pc EXCEPT ![r] = "answered"]
        /\ from \in {"gate", "drainCheck", "tryLock", "resolve", "originGate",
                     "build", "recheck"}
        /\ code \in ErrorCodes /\ result' = [result EXCEPT ![r] = code]
    BY <1>7 DEF Reject, Goto, Quiet, history
  <2>2. /\ pc'[r] = "answered" /\ result[r] = "none" /\ result'[r] = code /\ code # "ok"
        /\ \A s \in Requests \ {r} : result'[s] = result[s]
    BY <2>1 DEF IInv, TypeOK, AnswersInOrder, ErrorCodes
  <2>3. Stage(r) \in {"open", "looked"} /\ Stage(r)' = "refused"
    BY <2>1, <2>2 DEF Stage
  <2>4. Stages' = [Stages EXCEPT ![r] = "refused"]
    BY <2>1, <2>2, <2>3, StageMoves
  <2>5. UNCHANGED ServedContents
    BY <2>1, ServedStays
  <2> QED BY <2>1, <2>3, <2>4, <2>5 DEF Promise!ARefuse, Stages
<1>8. ASSUME NEW r \in Requests, Read(r)
      PROVE  Promise!ALook(r)
  <2>1. /\ UNCHANGED <<file, installed, result>>
        /\ pc[r] = "resolve" /\ pc' = [pc EXCEPT ![r] = "originGate"]
        /\ fresh' = [fresh EXCEPT ![r] = file]
    BY <1>8 DEF Read, Goto
  <2>2. /\ pc'[r] = "originGate" /\ result[r] = "none"
        /\ installed \in Seq(Requests)
        /\ \A s \in Requests \ {r} : fresh'[s] = fresh[s]
    BY <2>1 DEF IInv, TypeOK, AnswersInOrder
  <2>3. Stage(r) = "open" /\ Stage(r)' = "looked"
    BY <2>1, <2>2 DEF Stage
  <2>4. Stages' = [Stages EXCEPT ![r] = "looked"]
    BY <2>1, <2>3, StageMoves
  <2>5. UNCHANGED ServedContents
    <3>1. \A i \in DOMAIN installed : installed[i] \in Requests \ {r}
      BY <2>1, <2>2 DEF IInv, InstalledInFull, Installing
    <3> QED BY <2>1, <2>2, <3>1, ServedStays
  <2>6. \A s \in Requests : Stages[s] # "looked"
    <3>1. \A s \in Requests : s # r => pc[s] \notin Locked
      BY <2>1, LockExcludes DEF Locked
    <3> QED BY <2>3, <3>1 DEF Stages, Stage, Locked, Checking
  <2> QED BY <2>1, <2>3, <2>4, <2>5, <2>6 DEF Promise!ALook, Stages
<1>9. ASSUME NEW r \in Requests, Swap(r)
      PROVE  Promise!AInstall(r)
  <2>1. /\ UNCHANGED <<file, fresh, result>>
        /\ pc[r] = "swap" /\ pc' = [pc EXCEPT ![r] = "setGauge"]
        /\ installed' = Append(installed, r)
    BY <1>9 DEF Swap, Goto
  <2>2. /\ pc'[r] = "setGauge" /\ result[r] = "none"
        /\ installed \in Seq(Requests) /\ Built(r)
    BY <2>1 DEF IInv, TypeOK, AnswersInOrder, StagesPassed
  <2>3. Stage(r) = "looked" /\ Stage(r)' = "installed"
    BY <2>1, <2>2 DEF Stage
  <2>4. Stages' = [Stages EXCEPT ![r] = "installed"]
    BY <2>1, <2>3, StageMoves
  <2>5. ServedContents' = fresh[r]
    BY <2>1, <2>2 DEF ServedContents
  <2>6. Servable(fresh[r]) /\ SameOrigin(fresh[r], Boot)
    BY <2>2 DEF Built, Resolved, SameZone, Servable
  <2> QED BY <2>1, <2>3, <2>4, <2>5, <2>6 DEF Promise!AInstall, Stages
<1>10. ASSUME NEW r \in Requests, SetGauge(r) \/ Finish(r) \/ Count(r)
       PROVE  UNCHANGED <<file, ServedContents, Stages, fresh>>
  <2>1. PICK to \in {"finish", "count", "answered"} :
            /\ UNCHANGED <<file, installed, fresh>>
            /\ pc[r] \in Installing /\ pc' = [pc EXCEPT ![r] = to]
            /\ to # "answered" => result' = result
            /\ to = "answered" => result' = [result EXCEPT ![r] = "ok"]
    BY <1>10 DEF SetGauge, Finish, Count, Goto, history, Installing
  <2>2. /\ pc'[r] = to
        /\ \A s \in Requests \ {r} : result'[s] = result[s]
        /\ to = "answered" => result'[r] = "ok"
    BY <2>1 DEF IInv, TypeOK
  <2>3. Stage(r)' = Stage(r)
    BY <2>1, <2>2 DEF Stage, Installing
  <2>4. Stages' = [Stages EXCEPT ![r] = Stage(r)]
    BY <2>1, <2>2, <2>3, StageMoves
  <2>5. UNCHANGED ServedContents
    BY <2>1, ServedStays
  <2> QED BY <2>1, <2>4, <2>5 DEF Stages
<1>11. ASSUME NEW r \in Requests, Step(r)
       PROVE  Promise!ANext \/ UNCHANGED <<file, ServedContents, Stages, fresh>>
  BY <1>5, <1>6, <1>7, <1>8, <1>9, <1>10, <1>11, StepKinds DEF Promise!ANext
<1> QED
  BY <1>1, <1>2, <1>3, <1>4, <1>11 DEF Next, Promise!ANext

\* POST /reload keeps the promise of LiveZone: a request looks once, and
\* installs what it saw in one step or leaves what is served alone.
THEOREM KeepsItsPromise == Spec => KeepsPromise
<1>1. Init => Promise!AInit
  BY FilesAssumption DEF Init, Promise!AInit, ServedContents, Stage
<1> QED
  BY <1>1, Invariance, NextRefines, PTL DEF Spec, KeepsPromise, Promise!ASpec
=============================================================================
