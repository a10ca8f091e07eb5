--------------------------- MODULE Commands_proof ---------------------------
(***************************************************************************)
(* Proofs about the commands and the server they talk to (Commands.tla),   *)
(* for any number of commands, any configurations, any edits and restarts. *)
(***************************************************************************)
EXTENDS Commands, FiniteSetTheorems, TLAPS

-----------------------------------------------------------------------------
(* The operators. *)

\* A script begins in full.
LEMMA Whole ==
    ASSUME NEW k \in Kinds
    PROVE  Script(k) \in Remaining(k) /\ Script(k) # <<>>
BY DEF Kinds, Script, Remaining

\* Which exchange is next, by command, and what is left after it.
LEMMA NextInLine ==
    ASSUME NEW k \in Kinds, NEW t \in Remaining(k), t # <<>>
    PROVE  /\ Tail(t) \in Remaining(k)
           /\ Head(t) \in Http \cup DNS \cup {"edit"}
           /\ Head(t) = "edit" => k = "add" /\ Tail(t) = <<"reload">>
           /\ Head(t) = "reload" <=> t = <<"reload">>
           /\ Head(t) = "reload" => k \in {"reload", "add"} /\ Tail(t) = <<>>
           /\ Head(t) = "udp" => k = "query" /\ <<"tcp">> \in Remaining(k)
           /\ Head(t) \in DNS => k \in {"query", "query_tcp"} /\ Tail(t) = <<>>
           /\ Head(t) # "edit" => Tail(t) = <<>> \/ k = "status"
<1>1. CASE k = "status"
  <2>1. Remaining(k) = {<<"healthz", "readyz", "version", "metrics">>,
                        <<"readyz", "version", "metrics">>,
                        <<"version", "metrics">>, <<"metrics">>, <<>>}
    BY <1>1 DEF Remaining
  <2>2. CASE t = <<"healthz", "readyz", "version", "metrics">>
    <3>1. Head(t) = "healthz" /\ Tail(t) = <<"readyz", "version", "metrics">>
      BY <2>2
    <3> QED
      BY <1>1, <2>1, <2>2, <3>1 DEF Http, DNS
  <2>3. CASE t = <<"readyz", "version", "metrics">>
    <3>1. Head(t) = "readyz" /\ Tail(t) = <<"version", "metrics">>
      BY <2>3
    <3> QED
      BY <1>1, <2>1, <2>3, <3>1 DEF Http, DNS
  <2>4. CASE t = <<"version", "metrics">>
    <3>1. Head(t) = "version" /\ Tail(t) = <<"metrics">>
      BY <2>4
    <3> QED
      BY <1>1, <2>1, <2>4, <3>1 DEF Http, DNS
  <2>5. CASE t = <<"metrics">>
    <3>1. Head(t) = "metrics" /\ Tail(t) = <<>>
      BY <2>5
    <3> QED
      BY <1>1, <2>1, <2>5, <3>1 DEF Http, DNS
  <2> QED
    BY <2>1, <2>2, <2>3, <2>4, <2>5
<1>2. CASE k # "status"
  <2>1. \/ k = "add" /\ t = <<"edit", "reload">>
        \/ k \in {"reload", "add"} /\ t = <<"reload">>
        \/ k = "healthcheck" /\ t = <<"healthz">>
        \/ k = "query" /\ t = <<"udp">>
        \/ k \in {"query", "query_tcp"} /\ t = <<"tcp">>
    BY <1>2 DEF Kinds, Remaining
  <2>2. CASE k = "add" /\ t = <<"edit", "reload">>
    <3>1. Head(t) = "edit" /\ Tail(t) = <<"reload">>
      BY <2>2
    <3> QED
      BY <2>2, <3>1 DEF Http, DNS, Remaining
  <2>3. ASSUME NEW x, t = <<x>>, <<>> \in Remaining(k)
        PROVE  Head(t) = x /\ Tail(t) = <<>> /\ Tail(t) \in Remaining(k)
    BY <2>3
  <2>4. <<>> \in Remaining(k)
    BY DEF Kinds, Remaining
  <2>5. CASE k \in {"reload", "add"} /\ t = <<"reload">>
    BY <2>3, <2>4, <2>5 DEF Http, DNS
  <2>6. CASE k = "healthcheck" /\ t = <<"healthz">>
    BY <2>3, <2>4, <2>6 DEF Http, DNS
  <2>7. CASE k = "query" /\ t = <<"udp">>
    <3>1. <<"tcp">> \in Remaining(k)
      BY <2>7 DEF Remaining
    <3> QED
      BY <2>3, <2>4, <2>7, <3>1 DEF Http, DNS
  <2>8. CASE k \in {"query", "query_tcp"} /\ t = <<"tcp">>
    BY <2>3, <2>4, <2>8 DEF Http, DNS
  <2> QED
    BY <2>1, <2>2, <2>5, <2>6, <2>7, <2>8
<1> QED
  BY <1>1, <1>2

\* The listeners open one after the other: udp, tcp, admin.
LEMMA Opening ==
    /\ Len(Listeners) = 3
    /\ Cardinality({}) = 0 /\ Listeners[1] = "udp"
    /\ Cardinality({"udp"}) = 1 /\ Listeners[2] = "tcp"
    /\ Cardinality(DNS) = 2 /\ Listeners[3] = "admin"
    /\ Cardinality(DNS \cup {"admin"}) = 3
<1>1. IsFiniteSet({}) /\ Cardinality({}) = 0
  BY FS_EmptySet
<1>2. IsFiniteSet({"udp"}) /\ Cardinality({"udp"}) = 1
  BY FS_Singleton
<1>3. DNS = {"udp"} \cup {"tcp"}
  BY DEF DNS
<1>4. IsFiniteSet(DNS) /\ Cardinality(DNS) = 2
  BY <1>2, <1>3, FS_AddElement
<1>5. "admin" \notin DNS
  BY DEF DNS
<1>6. Cardinality(DNS \cup {"admin"}) = 3
  BY <1>4, <1>5, FS_AddElement
<1> QED
  BY <1>1, <1>2, <1>4, <1>6 DEF Listeners

LEMMA NextListener ==
    ASSUME bound \in {{}, {"udp"}, DNS, DNS \cup {"admin"}},
           Cardinality(bound) < Len(Listeners)
    PROVE  bound \cup {Listeners[Cardinality(bound) + 1]}
              \in {{}, {"udp"}, DNS, DNS \cup {"admin"}}
<1>1. CASE bound = {}
  BY <1>1, Opening
<1>2. CASE bound = {"udp"}
  BY <1>2, Opening DEF DNS
<1>3. CASE bound = DNS
  BY <1>3, Opening
<1>4. CASE bound = DNS \cup {"admin"}
  BY <1>4, Opening
<1> QED
  BY <1>1, <1>2, <1>3, <1>4

\* The configuration is what it is: a command's kind and its rights do not
\* change.
LEMMA SetupIsFixed ==
    ASSUME IInv, Next
    PROVE  /\ setup' = setup
           /\ \A c \in Clients : /\ kind(c) \in Kinds /\ kind(c)' = kind(c)
                                 /\ may_mutate(c)' = may_mutate(c)
<1>1. setup' = setup
  <2>1. CASE Process
    BY <2>1 DEF Process, Bind, Spawn, Ready, Signal, Advance, CloseDns, Joined, CloseAdmin, Exit, Restart,
                EditFile, others, clients
  <2>2. ASSUME NEW c \in Clients, Client(c)
        PROVE  setup' = setup
    BY <2>2 DEF Client, Edit, Send, Receive, Cut, Timeout, Learn, others, clients, rest
  <2>3. ASSUME NEW c \in Clients, Serve(c)
        PROVE  setup' = setup
    BY <2>3 DEF Serve, phase_header, Get, ReloadGate, Orphan, Hook, HookReturn, handle_request,
                Lose, others, clients, rest
  <2> QED
    BY <2>1, <2>2, <2>3 DEF Next
<1> QED
  BY <1>1, CommandsAssumption DEF IInv, TypeOK, kind, may_mutate

-----------------------------------------------------------------------------
(* What each kind of step leaves alone. *)

\* Nothing of the command c changes.
Same(c) ==
    /\ todo'[c] = todo[c] /\ waiting'[c] = waiting[c] /\ job'[c] = job[c]
    /\ reply'[c] = reply[c] /\ got'[c] = got[c] /\ exit'[c] = exit[c]
    /\ edited'[c] = edited[c] /\ since'[c] = since[c] /\ floor'[c] = floor[c]
    /\ stage'[c] = stage[c] /\ saw'[c] = saw[c]

LEMMA OthersSame ==
    ASSUME IInv, NEW c \in Clients, NEW d \in Clients, d # c, Client(c) \/ Serve(c)
    PROVE  Same(d)
<1> USE DEF IInv, TypeOK, Same
<1>1. CASE Edit(c)
  BY <1>1 DEF Edit
<1>2. CASE Send(c)
  BY <1>2 DEF Send, Learn, server, zone
<1>3. CASE Receive(c) \/ Cut(c) \/ Timeout(c)
  BY <1>3 DEF Receive, Cut, Timeout, Learn, server, zone
<1>4. CASE phase_header(c) \/ Lose(c) \/ handle_request(c)
  BY <1>4 DEF phase_header, Lose, handle_request, zone, rest, others
<1>5. CASE Get(c)
  BY <1>5 DEF Get, healthz, readyz, version, metrics, Answer, zone, rest, others
<1>6. CASE ReloadGate(c) \/ Orphan(c) \/ HookReturn(c)
  BY <1>6 DEF ReloadGate, Orphan, HookReturn, Answer, Live!ABegin, zone, rest, others
<1>7. CASE Hook(c)
  BY <1>7 DEF Hook, Live!ALook, Live!AInstall, Live!ARefuse, rest, others
<1> QED
  BY <1>1, <1>2, <1>3, <1>4, <1>5, <1>6, <1>7 DEF Client, Serve

\* The steps of a command leave the process and its zone alone.
LEMMA ClientFrame ==
    ASSUME NEW c \in Clients, Client(c)
    PROVE  UNCHANGED <<process, served, stage, saw, reloads>>
BY DEF Client, Edit, Send, Receive, Cut, Timeout, server, zone

\* The steps of the server for a command leave the process and the command
\* alone.
LEMMA ServeFrame ==
    ASSUME NEW c \in Clients, Serve(c)
    PROVE  UNCHANGED <<process, others, seen, floor, file>>
<1>1. CASE Hook(c)
  BY <1>1 DEF Hook, Live!ALook, Live!AInstall, Live!ARefuse, rest
<1>2. CASE ReloadGate(c) \/ Orphan(c)
  BY <1>2 DEF ReloadGate, Orphan, Live!ABegin, rest, zone
<1>3. CASE ~Hook(c) /\ ~ReloadGate(c) /\ ~Orphan(c)
  BY <1>3 DEF Serve, phase_header, Get, HookReturn, handle_request, Lose, rest, zone
<1> QED
  BY <1>1, <1>2, <1>3

\* The steps of the process leave the commands alone, but for what becomes of
\* the server's work for them when it ends, and of floor when it starts again.
LEMMA ProcessFrame ==
    ASSUME Process
    PROVE  /\ UNCHANGED <<others, saw, reply>>
           /\ \/ UNCHANGED <<job, stage>>
              \/ Dies /\ UNCHANGED <<served, file, phase, seen, starts, reloads>>
           /\ \/ UNCHANGED <<floor, seen, served, starts, reloads>>
              \/ Restart
<1> USE DEF clients, others, zone, process
<1>1. CASE Bind \/ Exit
  BY <1>1 DEF Bind, Exit
<1>2. CASE Spawn \/ Ready \/ Signal \/ Advance \/ CloseDns \/ Joined \/ CloseAdmin
  BY <1>2 DEF Spawn, Ready, Signal, Advance, CloseDns, Joined, CloseAdmin
<1>3. CASE Restart
  BY <1>3 DEF Restart
<1>4. CASE EditFile
  BY <1>4 DEF EditFile
<1> QED
  BY <1>1, <1>2, <1>3, <1>4 DEF Process

LEMMA DyingFrame ==
    ASSUME Process, Dies
    PROVE  UNCHANGED <<phase, seen, floor, starts, reloads, served>>
<1>1. CASE Bind \/ Exit
  BY <1>1 DEF Bind, Exit
<1>2. CASE EditFile
  BY <1>2 DEF EditFile, process, clients
<1>3. CASE ~(Bind \/ Exit \/ EditFile)
  BY <1>3 DEF Process, Dies, Spawn, Ready, Signal, Advance, CloseDns, Joined, CloseAdmin, Restart
<1> QED
  BY <1>1, <1>2, <1>3

\* What an exchange that is over leaves behind.
LEMMA Learnt ==
    ASSUME IInv, Next, NEW c \in Clients, NEW a, Learn(c, a),
           todo[c] # <<>>, Head(todo[c]) # "edit"
    PROVE  /\ got'[c] = With(got[c], Head(todo[c]), a)
           /\ ~waiting'[c] /\ since'[c] = 0 /\ floor'[c] = Starting
           /\ edited' = edited /\ DOMAIN got' = Clients
           /\ todo'[c] \in Remaining(kind(c))
           /\ todo'[c] = NextExchanges(c, a)
           /\ todo'[c] = IF Head(todo[c]) = "udp" /\ a.tc THEN <<"tcp">> ELSE Tail(todo[c])
           /\ todo'[c] # <<>> => exit'[c] = "running"
           /\ todo'[c] = <<>> => exit'[c] = IF Verdict(kind(c), got'[c]) THEN "ok" ELSE "fail"
<1> USE DEF IInv, TypeOK
<1>1. kind(c) \in Kinds /\ todo[c] \in Remaining(kind(c))
  BY SetupIsFixed DEF ScriptInv
<1>2. /\ got'[c] = With(got[c], Head(todo[c]), a)
      /\ ~waiting'[c] /\ since'[c] = 0 /\ floor'[c] = Starting
      /\ edited' = edited /\ DOMAIN got' = Clients
      /\ todo'[c] = NextExchanges(c, a)
      /\ exit'[c] = IF NextExchanges(c, a) # <<>> THEN "running"
                    ELSE IF Verdict(kind(c), With(got[c], Head(todo[c]), a))
                         THEN "ok" ELSE "fail"
  BY DEF Learn
<1>3. NextExchanges(c, a) = IF Head(todo[c]) = "udp" /\ a.tc THEN <<"tcp">> ELSE Tail(todo[c])
  BY DEF NextExchanges
<1>4. NextExchanges(c, a) \in Remaining(kind(c))
  BY <1>1, <1>3, NextInLine
<1> QED
  BY <1>2, <1>3, <1>4

-----------------------------------------------------------------------------
(* Types and scripts. *)

LEMMA TypeStep ==
    ASSUME IInv, Next
    PROVE  TypeOK'
<1> USE DEF IInv, TypeOK, Phases, Starting, Serving, Draining, Stopping, Closing
<1>1. CASE Process
  <2>1. setup' \in Setups /\ waiting' \in [Clients -> BOOLEAN]
        /\ exit' \in [Clients -> {"running", "ok", "fail"}]
        /\ edited' \in [Clients -> Nat] /\ since' \in [Clients -> Nat]
        /\ DOMAIN saw' = Clients /\ DOMAIN reply' = Clients
        /\ DOMAIN todo' = Clients /\ DOMAIN got' = Clients
    BY <1>1, ProcessFrame DEF others
  <2>2. stage' \in [Clients -> {"new", "open", "looked", "installed", "refused"}]
        /\ job' \in [Clients -> {"none", "queued", "stamped", "hook", "unheard", "orphan",
                                 "replied", "reset"}]
    <3>1. CASE UNCHANGED <<job, stage>>
      BY <3>1
    <3>2. CASE Dies
      BY <3>2 DEF Dies
    <3> QED
      BY ONLY <1>1, <3>1, <3>2, ProcessFrame
  <2>3. seen' \in Phases /\ floor' \in [Clients -> Phases] /\ served' \in Nat
        /\ starts' \in Nat /\ reloads' \in Nat
    <3>1. CASE Restart
      BY <3>1 DEF Restart
    <3>2. CASE UNCHANGED <<floor, seen, served, starts, reloads>>
      BY <3>2
    <3> QED
      BY <1>1, <3>1, <3>2, ProcessFrame
  <2>4. up' \in BOOLEAN /\ spawned' \in BOOLEAN /\ signalled' \in BOOLEAN
    BY <1>1 DEF Process, Bind, Spawn, Ready, Signal, Advance, CloseDns, Joined, CloseAdmin, Exit, Restart,
                EditFile, Dies, process
  <2>6. phase' \in Phases
    BY <1>1 DEF Process, Bind, Spawn, Ready, Signal, Advance, CloseDns, Joined, CloseAdmin, Exit, Restart,
                EditFile, process
  <2>7. file' \in Nat
    BY <1>1 DEF Process, Bind, Spawn, Ready, Signal, Advance, CloseDns, Joined, CloseAdmin, Exit, Restart,
                EditFile, zone
  <2>5. bound' \subseteq DNS \cup {"admin"}
    <3>1. CASE Bind
      <4>1. bound \in {{}, {"udp"}, DNS, DNS \cup {"admin"}}
            /\ Cardinality(bound) < Len(Listeners)
        BY <3>1 DEF Bind, ListenersInv
      <4>2. bound \cup {Listeners[Cardinality(bound) + 1]}
              \in {{}, {"udp"}, DNS, DNS \cup {"admin"}}
        BY <4>1, NextListener
      <4> QED
        BY <3>1, <4>2 DEF Bind, Dies, DNS
    <3>2. CASE ~Bind
      BY <1>1, <3>2 DEF Process, Spawn, Ready, Signal, Advance, CloseDns, Joined, CloseAdmin, Exit, Restart,
                        EditFile, Dies, process
    <3> QED
      BY <3>1, <3>2
  <2> QED
    BY <2>1, <2>2, <2>3, <2>4, <2>5, <2>6, <2>7
<1>2. ASSUME NEW c \in Clients, Client(c)
      PROVE  TypeOK'
  <2>1. UNCHANGED <<process, served, stage, saw, reloads>>
    BY <1>2, ClientFrame
  <2>2. setup' \in Setups
    BY SetupIsFixed
  <2>3. CASE Edit(c)
    <3>1. file' \in Nat
      BY <2>3 DEF Edit
    <3>2. \/ exit' = exit /\ edited' = [edited EXCEPT ![c] = file']
          \/ exit' = [exit EXCEPT ![c] = "fail"] /\ edited' = edited
      BY <2>3 DEF Edit
    <3>3. exit' \in [Clients -> {"running", "ok", "fail"}] /\ edited' \in [Clients -> Nat]
      BY <3>1, <3>2
    <3>4. DOMAIN todo' = Clients /\ UNCHANGED <<waiting, job, reply, got, since, seen, floor>>
      BY <2>3 DEF Edit
    <3> QED
      BY <2>1, <2>2, <3>1, <3>3, <3>4 DEF process
  <2> DEFINE Ours == /\ exit' \in [Clients -> {"running", "ok", "fail"}]
                     /\ waiting' \in [Clients -> BOOLEAN]
                     /\ since' \in [Clients -> Nat] /\ floor' \in [Clients -> Phases]
                     /\ DOMAIN todo' = Clients /\ DOMAIN got' = Clients
                     /\ DOMAIN reply' = Clients /\ edited' = edited
  <2>4. ASSUME NEW a, Learn(c, a)
        PROVE  Ours
    <3>1. exit' \in [Clients -> {"running", "ok", "fail"}]
      BY <2>4 DEF Learn
    <3>2. waiting' \in [Clients -> BOOLEAN]
      BY <2>4 DEF Learn
    <3> QED
      BY <2>4, <3>1, <3>2 DEF Learn
  <2>5. CASE Send(c)
    <3>1. Ours /\ seen' = seen /\ file' = file
          /\ job' \in [Clients -> {"none", "queued", "stamped", "hook", "unheard", "orphan",
                                   "replied", "reset"}]
      <4>1. seen' = seen /\ file' = file /\ (job' = job \/ job' = [job EXCEPT ![c] = "queued"])
        BY <2>5 DEF Send, server, zone
      <4>2. CASE Learn(c, Failed)
        BY <2>4, <4>1, <4>2
      <4>3. CASE ~Learn(c, Failed)
        <5>1. /\ waiting' = [waiting EXCEPT ![c] = TRUE]
              /\ floor' = [floor EXCEPT ![c] = seen]
              /\ since' = [since EXCEPT ![c] = since'[c]] /\ since'[c] \in {served, 0}
              /\ UNCHANGED <<setup, todo, reply, got, exit, edited, seen>>
          BY <2>5, <4>3 DEF Send
        <5> QED
          BY <4>1, <5>1
      <4> QED
        BY <4>2, <4>3
    <3> QED
      BY <2>1, <2>2, <3>1 DEF process
  <2>6. CASE Receive(c) \/ Cut(c) \/ Timeout(c)
    <3>1. Ours
      BY <2>4, <2>6 DEF Receive, Cut, Timeout
    <3>2. job' \in [Clients -> {"none", "queued", "stamped", "hook", "unheard", "orphan",
                                "replied", "reset"}] /\ file' = file
      BY <2>6 DEF Receive, Cut, Timeout, server, zone
    <3>3. seen' \in Phases
      BY <2>6 DEF Receive, Cut, Timeout, PhaseInv
    <3> QED
      BY <2>1, <2>2, <3>1, <3>2, <3>3 DEF process
  <2> QED
    BY <1>2, <2>3, <2>5, <2>6 DEF Client
<1>3. ASSUME NEW c \in Clients, Serve(c)
      PROVE  TypeOK'
  <2>1. UNCHANGED <<process, others, seen, floor, file>>
    BY <1>3, ServeFrame
  <2>2. CASE phase_header(c) \/ Lose(c) \/ handle_request(c)
    BY <2>1, <2>2 DEF phase_header, Lose, handle_request, process, others, zone
  <2>3. CASE Get(c)
    BY <2>1, <2>3 DEF Get, healthz, readyz, version, metrics, Answer, process, others, zone
  <2>4. CASE ReloadGate(c) \/ Orphan(c) \/ HookReturn(c)
    BY <2>1, <2>4 DEF ReloadGate, Orphan, HookReturn, Answer, Live!ABegin, process, others, zone
  <2>5. CASE Hook(c)
    <3>1. served' \in Nat
      BY <2>5 DEF Hook, Live!ALook, Live!AInstall, Live!ARefuse, EditInv
    <3> QED
      BY <2>1, <2>5, <3>1 DEF Hook, Live!ALook, Live!AInstall, Live!ARefuse, process, others
  <2> QED
    BY <1>3, <2>2, <2>3, <2>4, <2>5 DEF Serve
<1> QED
  BY <1>1, <1>2, <1>3 DEF Next

LEMMA ScriptStep ==
    ASSUME IInv, Next, NEW c \in Clients
    PROVE  ScriptInv(c)'
<1> USE DEF IInv, TypeOK
<1>1. /\ ScriptInv(c) /\ kind(c)' = kind(c) /\ kind(c) \in Kinds
  BY SetupIsFixed
<1>2. CASE Process
  <2>1. UNCHANGED <<todo, waiting, exit>> /\ (UNCHANGED job \/ Dies)
    BY <1>2, ProcessFrame DEF others
  <2>2. CASE Dies
    BY <1>1, <2>1, <2>2 DEF ScriptInv, Dies
  <2>3. CASE ~Dies
    <3>1. job' = job /\ (up => up')
      BY <1>2, <2>1, <2>3 DEF Process, Bind, Spawn, Ready, Signal, Advance, CloseDns, Joined, CloseAdmin,
                              Exit, Restart, EditFile, process
    <3> QED
      BY <1>1, <2>1, <3>1 DEF ScriptInv
  <2> QED
    BY <2>2, <2>3
<1>3. ASSUME NEW d \in Clients, Client(d)
      PROVE  ScriptInv(c)'
  <2>1. up' = up
    BY <1>3, ClientFrame DEF process
  <2>2. CASE d # c
    BY <1>1, <1>3, <2>1, <2>2, OthersSame DEF ScriptInv, Same
  <2>3. CASE Edit(c)
    <3>1. todo[c] # <<>> /\ Head(todo[c]) = "edit"
      BY <1>1, <2>3 DEF Edit, ScriptInv
    <3>2. Tail(todo[c]) \in Remaining(kind(c)) /\ Tail(todo[c]) = <<"reload">>
          /\ <<"reload">> # <<>>
      BY <1>1, <3>1, NextInLine DEF ScriptInv
    <3>3. <<>> \in Remaining(kind(c))
      BY <1>1 DEF Kinds, Remaining
    <3>4. ~waiting[c] /\ waiting' = waiting /\ job' = job
      BY <1>1, <2>3, <3>1 DEF Edit, ScriptInv
    <3>5. \/ todo'[c] = Tail(todo[c]) /\ exit'[c] = "running"
          \/ todo'[c] = <<>> /\ exit'[c] = "fail"
      BY <2>3 DEF Edit
    <3> QED
      BY <1>1, <2>1, <3>1, <3>2, <3>3, <3>4, <3>5 DEF ScriptInv
  <2>4. ASSUME NEW a, Learn(c, a), todo[c] # <<>>, Head(todo[c]) # "edit",
               job'[c] \in {"none", "unheard", "orphan"}
        PROVE  ScriptInv(c)'
    BY <1>1, <2>4, Learnt DEF ScriptInv
  <2>5. CASE Send(c)
    <3>1. todo[c] # <<>> /\ Head(todo[c]) # "edit" /\ job[c] \in {"none", "unheard", "orphan"}
      BY <1>1, <2>5 DEF Send, ScriptInv
    <3>2. CASE Learn(c, Failed) /\ job' = job
      BY <2>4, <3>1, <3>2
    <3>3. CASE ~(Learn(c, Failed) /\ job' = job)
      <4>1. waiting'[c] = TRUE /\ job'[c] = "queued" /\ todo' = todo /\ exit' = exit
        BY <2>5, <3>3 DEF Send
      <4> QED
        BY <1>1, <3>1, <4>1 DEF ScriptInv
    <3> QED
      BY <3>2, <3>3
  <2>6. CASE Receive(c) \/ Cut(c) \/ Timeout(c)
    <3>1. todo[c] # <<>> /\ Head(todo[c]) # "edit"
      BY <1>1, <2>6 DEF Receive, Cut, Timeout, ScriptInv
    <3>2. job'[c] \in {"none", "unheard", "orphan"}
      BY <2>6 DEF Receive, Cut, Timeout
    <3>3. \E a : Learn(c, a)
      BY <2>6 DEF Receive, Cut, Timeout
    <3> QED
      BY <2>4, <3>1, <3>2, <3>3
  <2> QED
    BY <1>3, <2>2, <2>3, <2>5, <2>6 DEF Client
<1>4. ASSUME NEW d \in Clients, Serve(d)
      PROVE  ScriptInv(c)'
  <2>1. up' = up /\ todo' = todo /\ waiting' = waiting /\ exit' = exit
    BY <1>4, ServeFrame DEF process, others
  <2>2. CASE d # c
    BY <1>1, <1>4, <2>1, <2>2, OthersSame DEF ScriptInv, Same
  <2>3. CASE d = c
    <3>1. CASE phase_header(c)
      <4>1. up
        BY <3>1 DEF phase_header, ListenersInv
      <4> QED
        BY <1>1, <2>1, <3>1, <4>1 DEF phase_header, ScriptInv
    <3>2. CASE Get(c) \/ HookReturn(c)
      <4>1. job[c] \in {"stamped", "hook"} /\ job'[c] = "replied"
        BY <3>2 DEF Get, HookReturn, healthz, readyz, version, metrics, Answer
      <4> QED
        BY <1>1, <2>1, <4>1 DEF ScriptInv
    <3>3. CASE ReloadGate(c)
      <4>1. job[c] = "stamped" /\ job'[c] \in {"replied", "hook"} /\ Head(todo[c]) = "reload"
        BY <3>3 DEF ReloadGate, Answer
      <4> QED
        BY <1>1, <2>1, <4>1 DEF ScriptInv
    <3>4. CASE Hook(c) \/ Orphan(c)
      BY <1>1, <2>1, <3>4 DEF Hook, Orphan, ScriptInv
    <3>5. CASE handle_request(c) \/ Lose(c)
      <4>1. job[c] \in {"queued", "replied"} /\ job'[c] \in {"none", "replied", "reset"}
        BY <3>5 DEF handle_request, Lose
      <4> QED
        BY <1>1, <2>1, <4>1 DEF ScriptInv
    <3> QED
      BY <1>4, <2>3, <3>1, <3>2, <3>3, <3>4, <3>5 DEF Serve
  <2> QED
    BY <2>2, <2>3
<1> QED
  BY <1>2, <1>3, <1>4 DEF Next

-----------------------------------------------------------------------------
(* The phases, and what is told of them. *)

LEMMA ListenersStep ==
    ASSUME IInv, Next
    PROVE  ListenersInv'
<1> USE DEF IInv, TypeOK, Phases, Starting, Serving, Draining, Stopping, Closing
<1> DEFINE all == DNS \cup {"admin"}
<1>1. ListenersInv
  OBVIOUS
<1>2. CASE Process
  <2>1. CASE Dies
    <3>1. phase' = phase /\ seen' = seen
      BY <1>2, <2>1, DyingFrame
    <3> QED
      BY <1>1, <2>1, <3>1 DEF Dies, ListenersInv
  <2>2. CASE Bind /\ ~Dies
    <3>1. /\ up /\ phase = Starting /\ Cardinality(bound) < Len(Listeners)
          /\ bound' = bound \cup {Listeners[Cardinality(bound) + 1]}
          /\ UNCHANGED <<up, spawned, phase, seen>>
      BY <2>2 DEF Bind
    <3>2. bound' \in {{}, {"udp"}, DNS, all}
      BY <1>1, <3>1, NextListener DEF ListenersInv
    <3>3. ~spawned
      <4>1. SUFFICES ASSUME spawned PROVE FALSE
        OBVIOUS
      <4>2. bound = all
        BY <1>1, <3>1, <4>1 DEF ListenersInv
      <4> QED
        BY <3>1, <4>2, Opening
    <3> QED
      BY <1>1, <3>1, <3>2, <3>3 DEF ListenersInv
  <2>3. CASE Spawn
    <3>1. /\ up /\ phase = Starting /\ Cardinality(bound) = Len(Listeners)
          /\ UNCHANGED <<up, bound, phase, seen>>
      BY <2>3 DEF Spawn, clients
    <3>2. bound = all
      <4>1. bound \in {{}, {"udp"}, DNS, all}
        BY <1>1, <3>1 DEF ListenersInv
      <4>2. bound # {} /\ bound # {"udp"} /\ bound # DNS
        BY <3>1, Opening
      <4> QED
        BY <4>1, <4>2
    <3> QED
      BY <1>1, <3>1, <3>2 DEF ListenersInv
  <2>4. CASE Ready
    <3>1. /\ up /\ spawned /\ phase = Starting /\ phase' = Serving
          /\ UNCHANGED <<up, bound, spawned, seen>>
      BY <2>4 DEF Ready, clients
    <3>2. DNS \subseteq bound
      BY <1>1, <3>1 DEF ListenersInv
    <3> QED
      BY <1>1, <3>1, <3>2 DEF ListenersInv
  <2>5. CASE Advance
    <3>1. /\ up /\ phase \in 1..2 /\ phase' = phase + 1
          /\ UNCHANGED <<up, bound, spawned, seen>>
      BY <2>5 DEF Advance, clients
    <3> QED
      BY <1>1, <3>1 DEF ListenersInv
  <2>9. CASE CloseDns \/ Joined
    <3>1. /\ up /\ phase = 3 /\ UNCHANGED <<up, spawned, seen>>
          /\ \/ phase' = 3
             \/ phase' = 4 /\ DNS \cap bound' = {}
      BY <2>9 DEF CloseDns, Joined, clients
    <3> QED
      BY <1>1, <3>1 DEF ListenersInv
  <2>6. CASE CloseAdmin
    <3>1. up /\ phase = Closing /\ UNCHANGED <<up, phase, spawned, seen>> /\ bound' \subseteq bound
      BY <2>6 DEF CloseAdmin, clients
    <3> QED
      BY <1>1, <3>1 DEF ListenersInv
  <2>7. CASE Restart
    BY <1>1, <2>7 DEF Restart, ListenersInv
  <2>8. CASE Signal \/ EditFile
    <3>1. UNCHANGED <<up, bound, phase, spawned, seen>>
      BY <2>8 DEF Signal, EditFile, clients, process
    <3> QED
      BY <1>1, <3>1 DEF ListenersInv
  <2> QED
    BY <1>2, <2>1, <2>2, <2>3, <2>4, <2>5, <2>6, <2>7, <2>8, <2>9
       DEF Process, Exit
<1>3. ASSUME NEW c \in Clients, Client(c)
      PROVE  ListenersInv'
  <2>1. UNCHANGED <<up, bound, phase, spawned, starts>>
    BY <1>3, ClientFrame DEF process
  <2>2. seen' <= phase
    <3>1. CASE Receive(c)
      BY <1>1, <3>1 DEF Receive, PhaseInv, ListenersInv
    <3>2. CASE ~Receive(c)
      <4>1. seen' = seen
        BY <1>3, <3>2 DEF Client, Edit, Send, Cut, Timeout
      <4> QED
        BY <1>1, <4>1 DEF ListenersInv
    <3> QED
      BY <3>1, <3>2
  <2> QED
    BY <1>1, <2>1, <2>2 DEF ListenersInv
<1>4. ASSUME NEW c \in Clients, Serve(c)
      PROVE  ListenersInv'
  BY <1>1, <1>4, ServeFrame DEF process, ListenersInv
<1> QED
  BY <1>2, <1>3, <1>4 DEF Next

LEMMA PhaseStep ==
    ASSUME IInv, Next, NEW c \in Clients
    PROVE  PhaseInv(c)'
<1> USE DEF IInv, TypeOK, Phases, Starting, Serving, Draining, Stopping, Closing
<1>1. PhaseInv(c) /\ ScriptInv(c) /\ ListenersInv
  OBVIOUS
<1>2. CASE Process
  <2>1. UNCHANGED <<todo, reply>>
    BY <1>2, ProcessFrame DEF others
  <2>2. CASE Restart
    <3>1. /\ job' = job /\ ~up /\ starts' = starts + 1 /\ seen' = 0 /\ floor'[c] = 0
      BY <2>2 DEF Restart
    <3>2. job[c] \notin {"stamped", "hook"}
      BY <1>1, <3>1 DEF ScriptInv
    <3> QED
      BY <1>1, <2>1, <3>1, <3>2 DEF PhaseInv
  <2>3. CASE Dies
    <3>1. UNCHANGED <<phase, seen, floor, starts>>
      BY <1>2, <2>3, DyingFrame
    <3>2. job'[c] \notin {"stamped", "hook"} /\ (job'[c] = "replied" => job[c] = "replied")
      BY <2>3 DEF Dies
    <3> QED
      BY <1>1, <2>1, <3>1, <3>2 DEF PhaseInv
  <2>4. CASE ~Dies /\ ~Restart
    <3>1. UNCHANGED <<seen, floor, starts, job>>
      BY <1>2, <2>4, ProcessFrame
    <3>2. phase' >= phase
      BY <1>2, <2>4 DEF Process, Bind, Spawn, Ready, Signal, Advance, CloseDns, Joined, CloseAdmin, Exit,
                        EditFile, process
    <3>3. phase' \in Phases
      BY TypeStep
    <3> QED
      BY <1>1, <2>1, <3>1, <3>2, <3>3 DEF PhaseInv
  <2> QED
    BY <2>2, <2>3, <2>4
<1>3. ASSUME NEW d \in Clients, Client(d)
      PROVE  PhaseInv(c)'
  <2>1. UNCHANGED <<up, bound, phase, spawned, starts>>
    BY <1>3, ClientFrame DEF process
  <2>2. seen' >= seen /\ seen' \in Phases
    <3>1. CASE Receive(d)
      BY <3>1, TypeStep DEF Receive, PhaseInv
    <3>2. CASE ~Receive(d)
      BY <1>3, <3>2 DEF Client, Edit, Send, Cut, Timeout
    <3> QED
      BY <3>1, <3>2
  <2>3. CASE d # c
    BY <1>1, <1>3, <2>1, <2>2, <2>3, OthersSame DEF PhaseInv, Same
  <2>4. CASE d = c
    <3>1. job'[c] \notin {"stamped", "hook", "replied"}
      BY <1>1, <1>3, <2>4 DEF Client, Edit, Send, Receive, Cut, Timeout, ScriptInv
    <3>2. floor'[c] \in {0, seen, floor[c]}
      BY <1>3, <2>4 DEF Client, Edit, Send, Receive, Cut, Timeout, Learn
    <3> QED
      BY <1>1, <2>2, <3>1, <3>2 DEF PhaseInv
  <2> QED
    BY <2>3, <2>4
<1>4. ASSUME NEW d \in Clients, Serve(d)
      PROVE  PhaseInv(c)'
  <2>1. UNCHANGED <<up, bound, phase, spawned, starts, seen, floor, todo>>
    BY <1>4, ServeFrame DEF process, others
  <2>2. CASE d # c
    BY <1>1, <1>4, <2>1, <2>2, OthersSame DEF PhaseInv, Same
  <2>3. CASE phase_header(c)
    BY <1>1, <2>1, <2>3 DEF phase_header, PhaseInv
  <2>4. ASSUME NEW ok, Answer(c, ok), up, job[c] \in {"stamped", "hook"},
               Head(todo[c]) = "readyz" /\ ok => phase = Serving
        PROVE  PhaseInv(c)'
    <3>1. /\ job'[c] = "replied" /\ reply'[c].header = reply[c].header
          /\ reply'[c].body = phase /\ reply'[c].open = bound
          /\ reply'[c].from = starts /\ (reply'[c].ok <=> ok)
      BY <2>4 DEF Answer
    <3>2. floor[c] <= phase /\ reply[c].header \in 0..phase
      BY <1>1, <2>4 DEF PhaseInv, ListenersInv
    <3>3. /\ phase \in 1..2 => DNS \subseteq bound
          /\ phase = 4 => DNS \cap bound = {}
      BY <1>1, <2>4 DEF ListenersInv
    <3> QED
      BY <1>1, <2>1, <2>4, <3>1, <3>2, <3>3 DEF PhaseInv
  <2>5. CASE Get(c)
    <3>1. \E ok \in BOOLEAN : Answer(c, ok) /\ (Head(todo[c]) = "readyz" /\ ok => phase = Serving)
      BY <2>5 DEF Get, healthz, readyz, version, metrics
    <3> QED
      BY <2>4, <2>5, <3>1 DEF Get
  <2>6. CASE ReloadGate(c)
    <3>1. CASE Answer(c, FALSE)
      BY <2>4, <2>6, <3>1 DEF ReloadGate
    <3>2. CASE ~Answer(c, FALSE)
      <4>1. job'[c] = "hook" /\ reply' = reply /\ job[c] = "stamped"
        BY <2>6, <3>2 DEF ReloadGate
      <4> QED
        BY <1>1, <2>1, <4>1 DEF PhaseInv
    <3> QED
      BY <3>1, <3>2
  <2>7. CASE HookReturn(c)
    <3>1. Head(todo[c]) # "readyz"
      BY <1>1, <2>7 DEF HookReturn, ScriptInv
    <3> QED
      BY <2>4, <2>7, <3>1 DEF HookReturn
  <2>8. CASE Hook(c) \/ Orphan(c)
    BY <1>1, <2>1, <2>8 DEF Hook, Orphan, PhaseInv
  <2>9. CASE handle_request(c) \/ Lose(c)
    <3>1. /\ Head(todo[c]) \notin Http
          /\ job'[c] \notin {"stamped", "hook"}
      BY <2>9 DEF handle_request, Lose, DNS, Http
    <3> QED
      BY <1>1, <2>1, <3>1 DEF PhaseInv
  <2> QED
    BY <1>4, <2>2, <2>3, <2>5, <2>6, <2>7, <2>8, <2>9 DEF Serve
<1> QED
  BY <1>2, <1>3, <1>4 DEF Next

-----------------------------------------------------------------------------
(* The file, the zone and the hooks. *)

\* The stages of a hook, step by step: only ALook makes one "looked", and
\* while it is, nobody else installs.
LEMMA HookSteps ==
    ASSUME IInv, NEW c \in Clients, Hook(c)
    PROVE  /\ UNCHANGED <<file, reloads, job, reply>> /\ up
           /\ job[c] \in {"hook", "unheard"}
           /\ \/ /\ stage[c] = "open" /\ stage' = [stage EXCEPT ![c] = "looked"]
                 /\ \A d \in Clients : stage[d] # "looked"
                 /\ saw' = [saw EXCEPT ![c] = file] /\ served' = served
              \/ /\ stage[c] = "looked" /\ stage' = [stage EXCEPT ![c] = "installed"]
                 /\ served' = saw[c] /\ saw' = saw
              \/ /\ stage[c] \in {"open", "looked"}
                 /\ stage' = [stage EXCEPT ![c] = "refused"]
                 /\ saw' = saw /\ served' = served
BY DEF Hook, Live!ALook, Live!AInstall, Live!ARefuse, rest, IInv, TypeOK

\* Every other step of the server for a command leaves the zone alone, but
\* that the gate opens a hook, for a command that waits or has given up.
LEMMA ServeZone ==
    ASSUME IInv, NEW c \in Clients, Serve(c), ~Hook(c)
    PROVE  /\ UNCHANGED <<served, saw>>
           /\ \/ stage' = stage
              \/ /\ \/ ReloadGate(c) /\ job[c] = "stamped" /\ Head(todo[c]) = "reload"
                    \/ Orphan(c) /\ job[c] = "orphan"
                 /\ stage[c] = "new" /\ up
                 /\ stage' = [stage EXCEPT ![c] = "open"]
<1>1. CASE ReloadGate(c)
  BY <1>1 DEF ReloadGate, Live!ABegin, zone, IInv, TypeOK
<1>3. CASE Orphan(c)
  BY <1>3 DEF Orphan, Live!ABegin, zone, IInv, TypeOK
<1>2. CASE ~ReloadGate(c) /\ ~Orphan(c)
  BY <1>2 DEF Serve, phase_header, Get, HookReturn, handle_request, Lose, zone
<1> QED
  BY <1>1, <1>2, <1>3

\* The file and what is served only move forward.
LEMMA Forward ==
    ASSUME IInv, Next
    PROVE  /\ file' >= file /\ served' >= served /\ served' <= file'
           /\ \A c \in Clients : stage[c] = "looked" /\ stage'[c] = "looked"
                                    => served' = served /\ saw'[c] = saw[c]
<1> USE DEF IInv, TypeOK
<1>1. CASE Process
  <2>1. saw' = saw
    BY <1>1, ProcessFrame
  <2>2. file' >= file
    BY <1>1 DEF Process, Bind, Spawn, Ready, Signal, Advance, CloseDns, Joined, CloseAdmin, Exit, Restart,
                EditFile, zone
  <2>3. CASE Restart
    BY <2>1, <2>3 DEF Restart, EditInv, ZoneInv
  <2>4. CASE ~Restart
    <3>1. served' = served /\ file' \in Nat
      BY <1>1, <2>4, ProcessFrame, TypeStep
    <3> QED
      BY <2>1, <2>2, <3>1 DEF ZoneInv
  <2> QED
    BY <2>3, <2>4
<1>2. ASSUME NEW c \in Clients, Client(c)
      PROVE  /\ served' = served /\ saw' = saw /\ file' >= file /\ file' \in Nat
  <2>1. served' = served /\ saw' = saw
    BY <1>2, ClientFrame
  <2>2. file' >= file
    BY <1>2 DEF Client, Edit, Send, Receive, Cut, Timeout, server, zone
  <2> QED
    BY <2>1, <2>2, TypeStep
<1>3. ASSUME NEW c \in Clients, Serve(c)
      PROVE  /\ file' = file /\ served' >= served /\ served' <= file'
             /\ \A d \in Clients : stage[d] = "looked" /\ stage'[d] = "looked"
                                    => served' = served /\ saw'[d] = saw[d]
  <2>1. file' = file
    BY <1>3, ServeFrame
  <2>2. CASE Hook(c)
    <3>1. stage[c] = "looked" => saw[c] \in served .. file
      BY DEF EditInv
    <3>2. \A d \in Clients : stage[d] = "looked" /\ stage[c] = "looked" => d = c
      BY DEF ZoneInv
    <3>3. served <= file
      BY DEF ZoneInv
    <3> QED
      BY <2>1, <2>2, <3>1, <3>2, <3>3, HookSteps
  <2>3. CASE ~Hook(c)
    BY <1>3, <2>1, <2>3, ServeZone DEF ZoneInv
  <2> QED
    BY <2>2, <2>3
<1> QED
  BY <1>1, <1>2, <1>3 DEF Next, ZoneInv

LEMMA ZoneStep ==
    ASSUME IInv, Next
    PROVE  ZoneInv'
<1> USE DEF IInv, TypeOK
<1>1. served' <= file'
  BY Forward
<1>2. ASSUME NEW c \in Clients, NEW d \in Clients, stage'[c] = "looked", stage'[d] = "looked"
      PROVE  c = d
  <2>1. CASE Process
    <3>1. CASE UNCHANGED stage
      BY <1>2, <3>1 DEF ZoneInv
    <3>2. CASE Dies
      BY <1>2, <3>2 DEF Dies
    <3> QED
      BY <2>1, <3>1, <3>2, ProcessFrame
  <2>2. ASSUME NEW e \in Clients, Client(e)
        PROVE  c = d
    BY <1>2, <2>2, ClientFrame DEF ZoneInv
  <2>3. ASSUME NEW e \in Clients, Serve(e)
        PROVE  c = d
    <3>1. CASE Hook(e)
      BY <1>2, <3>1, HookSteps DEF ZoneInv
    <3>2. CASE ~Hook(e)
      BY <1>2, <2>3, <3>2, ServeZone DEF ZoneInv
    <3> QED
      BY <3>1, <3>2
  <2> QED
    BY <2>1, <2>2, <2>3 DEF Next
<1> QED
  BY <1>1, <1>2 DEF ZoneInv

LEMMA EditStep ==
    ASSUME IInv, Next, NEW c \in Clients
    PROVE  EditInv(c)'
<1> USE DEF IInv, TypeOK
<1>1. EditInv(c) /\ ScriptInv(c) /\ kind(c) \in Kinds
  BY SetupIsFixed
<1>2. /\ file' \in Nat /\ served' \in Nat
      /\ file' >= file /\ served' >= served
      /\ stage[c] = "looked" /\ stage'[c] = "looked" => served' = served /\ saw'[c] = saw[c]
  BY Forward, TypeStep
<1>3. ASSUME stage'[c] = stage[c] \/ (stage'[c] = "refused" /\ stage[c] # "new"),
             todo'[c] = todo[c], edited'[c] = edited[c],
             stage'[c] \in {"open", "looked"} => up'
      PROVE  EditInv(c)'
  BY <1>1, <1>2, <1>3 DEF EditInv
<1>4. CASE Process
  <2>1. UNCHANGED <<todo, edited>>
    BY <1>4, ProcessFrame DEF others
  <2>2. CASE Dies
    BY <1>3, <2>1, <2>2 DEF Dies
  <2>3. CASE ~Dies
    <3>1. stage' = stage /\ (up => up')
      BY <1>4, <2>3, ProcessFrame DEF Process, Bind, Spawn, Ready, Signal, Advance,
         CloseDns, Joined, CloseAdmin, Exit, Restart, EditFile, process
    <3> QED
      BY <1>1, <1>3, <2>1, <3>1 DEF EditInv
  <2> QED
    BY <2>2, <2>3
<1>5. ASSUME NEW d \in Clients, Client(d)
      PROVE  EditInv(c)'
  <2>1. stage' = stage /\ up' = up /\ saw' = saw
    BY <1>5, ClientFrame DEF process
  <2>2. CASE d # c
    <3>1. todo'[c] = todo[c] /\ edited'[c] = edited[c]
      BY <1>5, <2>2, OthersSame DEF Same
    <3> QED
      BY <1>1, <1>3, <2>1, <3>1 DEF EditInv
  <2>3. CASE Edit(c)
    <3>1. stage[c] = "new"
      <4>1. Head(todo[c]) = "edit" /\ todo[c] # <<>>
        BY <1>1, <2>3 DEF Edit, ScriptInv
      <4>2. Head(<<"reload">>) = "reload"
        OBVIOUS
      <4> QED
        BY <1>1, <4>1, <4>2 DEF EditInv
    <3>2. edited'[c] \in {edited[c], file'}
      BY <2>3 DEF Edit
    <3> QED
      BY <1>1, <1>2, <2>1, <3>1, <3>2 DEF EditInv
  <2>4. CASE d = c /\ ~Edit(c)
    <3>1. edited' = edited
      BY <1>5, <2>4 DEF Client, Send, Receive, Cut, Timeout, Learn
    <3>2. stage[c] # "new" => todo'[c] \in {<<"reload">>, <<>>}
      <4>1. CASE todo'[c] = todo[c]
        BY <1>1, <4>1 DEF EditInv
      <4>2. CASE todo'[c] # todo[c]
        <5>1. todo[c] # <<>> /\ Head(todo[c]) # "edit" /\ \E a : Learn(c, a)
          BY <1>1, <1>5, <2>4, <4>2 DEF Client, Send, Receive, Cut, Timeout, ScriptInv
        <5>2. PICK a : Learn(c, a)
          BY <5>1
        <5>3. SUFFICES ASSUME stage[c] # "new" PROVE todo'[c] = <<>>
          OBVIOUS
        <5>4. Head(todo[c]) = "reload" /\ Tail(todo[c]) = <<>>
          BY <1>1, <5>1, <5>3, NextInLine DEF EditInv, ScriptInv
        <5> QED
          BY <5>1, <5>2, <5>4, Learnt
      <4> QED
        BY <4>1, <4>2
    <3> QED
      BY <1>1, <1>2, <2>1, <3>1, <3>2 DEF EditInv
  <2> QED
    BY <1>5, <2>2, <2>3, <2>4
<1>6. ASSUME NEW d \in Clients, Serve(d)
      PROVE  EditInv(c)'
  <2>1. UNCHANGED <<up, file, todo, edited>>
    BY <1>6, ServeFrame DEF process, others
  <2>2. CASE stage'[c] = stage[c]
    BY <1>1, <1>3, <2>1, <2>2 DEF EditInv
  <2>3. CASE stage'[c] # stage[c]
    <3>1. d = c
      BY <1>6, <2>3, OthersSame DEF Same
    <3>2. CASE Hook(c)
      BY <1>1, <1>2, <2>1, <2>3, <3>2, HookSteps DEF EditInv, ZoneInv
    <3>3. CASE ~Hook(c)
      <4>1. /\ stage'[c] = "open" /\ up
            /\ \/ Head(todo[c]) = "reload" /\ job[c] = "stamped"
               \/ job[c] = "orphan"
        BY <1>6, <2>3, <3>1, <3>3, ServeZone
      <4>2. CASE job[c] = "orphan"
        <5>1. todo[c] = <<>>
          BY <4>2 DEF ReloadInv
        <5> QED
          BY <1>1, <1>2, <2>1, <4>1, <5>1 DEF EditInv
      <4>3. CASE job[c] # "orphan"
        <5>1. todo[c] = <<"reload">>
          BY <1>1, <4>1, <4>3, NextInLine DEF ScriptInv
        <5> QED
          BY <1>1, <1>2, <2>1, <4>1, <5>1 DEF EditInv
      <4> QED
        BY <4>2, <4>3
    <3> QED
      BY <3>2, <3>3
  <2> QED
    BY <2>2, <2>3
<1> QED
  BY <1>4, <1>5, <1>6 DEF Next

-----------------------------------------------------------------------------
(* Queries. *)

LEMMA QueryStep ==
    ASSUME IInv, Next, NEW c \in Clients
    PROVE  QueryInv(c)'
<1> USE DEF IInv, TypeOK
<1>1. /\ QueryInv(c) /\ ScriptInv(c)
      /\ kind(c) \in Kinds /\ kind(c)' = kind(c)
      /\ served \in Nat /\ served' \in Nat /\ served' >= served
  BY SetupIsFixed, Forward, TypeStep
<1>2. \A a : Recent(a, served) => Recent(a, served')
  BY <1>1 DEF Recent
<1>3. ASSUME todo'[c] = todo[c], got'[c] = got[c], exit'[c] = exit[c], reply'[c] = reply[c],
             since'[c] = since[c],
             job'[c] = "replied" => job[c] = "replied" \/ Head(todo[c]) \notin DNS
      PROVE  QueryInv(c)'
  <2>1. since'[c] <= served'
    BY <1>1, <1>3 DEF QueryInv
  <2>2. job'[c] = "replied" /\ Head(todo'[c]) \in DNS =>
          /\ reply'[c].version \in since'[c] .. served'
          /\ reply'[c].tc => Head(todo'[c]) = "udp"
    BY <1>1, <1>3 DEF QueryInv
  <2>3. \A x \in DNS \cap DOMAIN got'[c] : Recent(got'[c][x], served')
    BY <1>1, <1>2, <1>3 DEF QueryInv
  <2>4. exit'[c] = "ok" => Verdict(kind(c), got[c])'
    BY <1>1, <1>3 DEF QueryInv, Verdict, is_success
  <2> QED
    BY <1>1, <1>3, <2>1, <2>2, <2>3, <2>4 DEF QueryInv
<1>4. ASSUME NEW a, Learn(c, a), todo[c] # <<>>, Head(todo[c]) # "edit", job'[c] # "replied",
             Head(todo[c]) \in DNS => Recent(a, served),
             Head(todo[c]) = "tcp" => ~a.tc
      PROVE  QueryInv(c)'
  <2> DEFINE h == Head(todo[c])
  <2>1. /\ got'[c] = With(got[c], h, a) /\ since'[c] = 0
        /\ todo'[c] = IF h = "udp" /\ a.tc THEN <<"tcp">> ELSE Tail(todo[c])
        /\ exit'[c] = "ok" => Verdict(kind(c), got'[c])
    BY <1>4, Learnt
  <2>2. /\ DOMAIN got'[c] = DOMAIN got[c] \cup {h} /\ got'[c][h] = a
        /\ \A y \in DOMAIN got[c] : y # h => got'[c][y] = got[c][y]
    BY <2>1 DEF With
  <2>3. \A x \in DNS \cap DOMAIN got'[c] : Recent(got'[c][x], served')
    BY <1>1, <1>2, <1>4, <2>2 DEF QueryInv
  <2>4. "udp" \in DOMAIN got'[c] /\ got'[c]["udp"].tc =>
           todo'[c] = <<"tcp">> \/ "tcp" \in DOMAIN got'[c]
    <3>1. CASE h = "udp"
      BY <2>1, <2>2, <3>1
    <3>2. CASE h # "udp"
      <4>1. todo[c] = <<"tcp">> => h = "tcp"
        OBVIOUS
      <4> QED
        BY <1>1, <2>2, <3>2, <4>1 DEF QueryInv
    <3> QED
      BY <3>1, <3>2
  <2>5. "tcp" \in DOMAIN got'[c] => ~got'[c]["tcp"].tc
    BY <1>1, <1>4, <2>2 DEF QueryInv
  <2>6. exit'[c] = "ok" => Verdict(kind(c), got[c])'
    BY <1>1, <2>1 DEF Verdict, is_success
  <2> QED
    BY <1>1, <1>4, <2>1, <2>3, <2>4, <2>5, <2>6 DEF QueryInv
<1>5. Recent(Failed, served) /\ ~Failed.tc
  BY <1>1 DEF Recent, Failed
<1>6. CASE Process
  <2>1. UNCHANGED <<todo, got, exit, reply, since>>
    BY <1>6, ProcessFrame DEF others
  <2>2. job'[c] = "replied" => job[c] = "replied"
    BY <1>6, ProcessFrame DEF Dies
  <2> QED
    BY <1>3, <2>1, <2>2
<1>7. ASSUME NEW d \in Clients, Client(d)
      PROVE  QueryInv(c)'
  <2>1. CASE d # c
    BY <1>3, <1>7, <2>1, OthersSame DEF Same
  <2>2. CASE Edit(c)
    <3>1. UNCHANGED <<got, since, reply, job>> /\ exit'[c] # "ok"
      BY <2>2 DEF Edit
    <3>2. Head(todo[c]) = "edit" /\ todo[c] # <<>>
      BY <1>1, <2>2 DEF Edit, ScriptInv
    <3>3. todo[c] # <<"tcp">> /\ job[c] # "replied"
      BY <1>1, <3>2 DEF ScriptInv
    <3>4. \A x \in DNS \cap DOMAIN got'[c] : Recent(got'[c][x], served')
      BY <1>1, <1>2, <3>1 DEF QueryInv
    <3> QED
      BY <1>1, <3>1, <3>3, <3>4 DEF QueryInv
  <2>3. CASE Send(c)
    <3>1. /\ todo[c] # <<>> /\ Head(todo[c]) # "edit"
          /\ job'[c] # "replied"
      BY <1>1, <2>3 DEF Send, ScriptInv
    <3>2. CASE Learn(c, Failed)
      BY <1>4, <1>5, <3>1, <3>2
    <3>3. CASE ~Learn(c, Failed)
      <4>1. UNCHANGED <<got, reply, todo, exit>> /\ since'[c] \in {served, 0}
        BY <2>3, <3>3 DEF Send
      <4>2. \A x \in DNS \cap DOMAIN got'[c] : Recent(got'[c][x], served')
        BY <1>1, <1>2, <4>1 DEF QueryInv
      <4>3. exit'[c] = "ok" => Verdict(kind(c), got[c])'
        BY <1>1, <4>1 DEF QueryInv, Verdict, is_success
      <4> QED
        BY <1>1, <3>1, <4>1, <4>2, <4>3 DEF QueryInv
    <3> QED
      BY <3>2, <3>3
  <2>4. CASE Cut(c) \/ Timeout(c)
    <3>1. todo[c] # <<>> /\ Head(todo[c]) # "edit" /\ job'[c] # "replied" /\ Learn(c, Failed)
      BY <1>1, <2>4 DEF Cut, Timeout, ScriptInv
    <3> QED
      BY <1>4, <1>5, <3>1
  <2>5. CASE Receive(c)
    <3> DEFINE a == [heard |-> TRUE, ok |-> reply[c].ok, tc |-> reply[c].tc,
                     version |-> reply[c].version, since |-> since[c]]
    <3>1. /\ todo[c] # <<>> /\ Head(todo[c]) # "edit" /\ job'[c] # "replied"
          /\ job[c] = "replied" /\ Learn(c, a)
      BY <1>1, <2>5 DEF Receive, ScriptInv
    <3>2. Head(todo[c]) \in DNS => Recent(a, served)
      BY <1>1, <3>1 DEF QueryInv, Recent
    <3>3. Head(todo[c]) = "tcp" => ~a.tc
      BY <1>1, <3>1 DEF QueryInv, DNS
    <3> QED
      BY <1>4, <3>1, <3>2, <3>3
  <2> QED
    BY <1>7, <2>1, <2>2, <2>3, <2>4, <2>5 DEF Client
<1>8. ASSUME NEW d \in Clients, Serve(d)
      PROVE  QueryInv(c)'
  <2>1. UNCHANGED <<todo, got, exit, since>>
    BY <1>8, ServeFrame DEF others
  <2>2. CASE d # c
    BY <1>3, <1>8, <2>2, OthersSame DEF Same
  <2>3. CASE d = c
    <3>0. /\ \A x \in DNS \cap DOMAIN got'[c] : Recent(got'[c][x], served')
          /\ exit'[c] = "ok" => Verdict(kind(c), got[c])'
      BY <1>1, <1>2, <2>1 DEF QueryInv, Recent, Verdict, is_success
    <3>1. ASSUME job'[c] = "replied" => Head(todo[c]) \notin DNS
          PROVE  QueryInv(c)'
      BY <1>1, <2>1, <3>0, <3>1 DEF QueryInv
    <3>2. CASE handle_request(c)
      <4>1. CASE job'[c] # "replied"
        BY <3>1, <4>1
      <4>2. CASE job'[c] = "replied"
        <5>1. /\ reply'[c].version = served /\ served' = served
              /\ reply'[c].tc => Head(todo[c]) = "udp"
          <6>1. served' = served /\ reply' = [reply EXCEPT ![c] =
                           [ok |-> served \notin Missing, version |-> served,
                            tc |-> Head(todo[c]) = "udp" /\ served \in Large]]
            BY <3>2, <4>2 DEF handle_request, zone
          <6>2. reply'[c] = [ok |-> served \notin Missing, version |-> served,
                             tc |-> Head(todo[c]) = "udp" /\ served \in Large]
            BY <6>1
          <6> QED
            BY <6>1, <6>2
        <5> QED
          BY <1>1, <2>1, <3>0, <5>1 DEF QueryInv
      <4> QED
        BY <4>1, <4>2
    <3>3. CASE ReloadGate(c) \/ HookReturn(c) \/ Get(c) \/ phase_header(c)
      <4>1. Head(todo[c]) \in Http
        BY <1>1, <3>3 DEF ReloadGate, HookReturn, Get, phase_header, ScriptInv
      <4> QED
        BY <3>1, <4>1 DEF Http, DNS
    <3>4. CASE Hook(c) \/ Orphan(c) \/ Lose(c)
      <4>1. job'[c] # "replied"
        BY <3>4, HookSteps DEF Orphan, Lose
      <4> QED
        BY <3>1, <4>1
    <3> QED
      BY <1>8, <2>3, <3>2, <3>3, <3>4 DEF Serve
  <2> QED
    BY <2>2, <2>3
<1> QED
  BY <1>6, <1>7, <1>8 DEF Next

-----------------------------------------------------------------------------
(* Reloads and their count. *)

LEMMA ReloadStep ==
    ASSUME IInv, Next, NEW c \in Clients
    PROVE  ReloadInv(c)'
<1> USE DEF IInv, TypeOK
<1>1. /\ ReloadInv(c) /\ ScriptInv(c) /\ EditInv(c)
      /\ kind(c) \in Kinds /\ kind(c)' = kind(c) /\ may_mutate(c)' = may_mutate(c)
      /\ setup' = setup
  BY SetupIsFixed
<1>2. ASSUME todo'[c] = todo[c], got'[c] = got[c], exit'[c] = exit[c], reply'[c] = reply[c],
             job'[c] = "replied" => job[c] = "replied",
             job'[c] = "orphan" => job[c] = "orphan" /\ stage'[c] = stage[c],
             job[c] \in {"hook", "replied", "reset"} => job'[c] \in {"hook", "replied", "reset"},
             \/ stage'[c] = stage[c]
             \/ stage'[c] = "refused" /\ stage[c] \in {"open", "looked"}
      PROVE  ReloadInv(c)'
  BY <1>1, <1>2 DEF ReloadInv
<1>3. stage[c] # "new" /\ todo[c] # <<>> => todo[c] = <<"reload">> /\ Head(todo[c]) = "reload"
  <2>1. Head(<<"reload">>) = "reload"
    OBVIOUS
  <2> QED
    BY <1>1, <2>1 DEF EditInv
<1>4. ASSUME NEW a, Learn(c, a), todo[c] # <<>>, Head(todo[c]) # "edit",
             stage'[c] = stage[c], job'[c] \in {"none", "unheard", "orphan"},
             job'[c] = "orphan" => Head(todo[c]) = "reload" /\ stage[c] = "new" /\ ~a.heard,
             Head(todo[c]) = "reload" =>
                /\ a.ok => a.heard
                /\ a.heard => /\ stage[c] \notin {"open", "looked"}
                              /\ a.ok <=> stage[c] = "installed"
      PROVE  ReloadInv(c)'
  <2> DEFINE h == Head(todo[c])
  <2>1. /\ got'[c] = With(got[c], h, a)
        /\ todo'[c] = IF h = "udp" /\ a.tc THEN <<"tcp">> ELSE Tail(todo[c])
        /\ todo'[c] # <<>> => exit'[c] = "running"
        /\ todo'[c] = <<>> => exit'[c] = IF Verdict(kind(c), got'[c]) THEN "ok" ELSE "fail"
    BY <1>4, Learnt
  <2>2. DOMAIN got'[c] = DOMAIN got[c] \cup {h} /\ got'[c][h] = a
    BY <2>1 DEF With
  <2>3. "reload" \notin DOMAIN got[c]
    BY <1>1, <1>4 DEF ReloadInv
  <2>4. CASE h = "reload"
    <3>1. kind(c) \in {"reload", "add"} /\ todo'[c] = <<>>
      BY <1>1, <1>4, <2>1, <2>4, NextInLine DEF ScriptInv
    <3>2. "reload" \in DOMAIN got'[c] /\ got'[c]["reload"] = a
      BY <2>2, <2>4
    <3>3. exit'[c] = "fail" => ~a.ok
      <4>1. Verdict(kind(c), got'[c]) <=> a.ok
        BY <3>1, <3>2 DEF Verdict, is_success
      <4> QED
        BY <2>1, <3>1, <4>1
    <3> QED
      BY <1>1, <1>4, <2>4, <3>1, <3>2, <3>3 DEF ReloadInv
  <2>5. CASE h # "reload"
    <3>1. "reload" \notin DOMAIN got'[c] /\ stage[c] = "new"
      BY <1>3, <1>4, <2>2, <2>3, <2>5
    <3>2. job'[c] # "orphan"
      BY <1>4, <2>5
    <3> QED
      BY <1>4, <3>1, <3>2 DEF ReloadInv
  <2> QED
    BY <2>4, <2>5
<1>5. Failed.heard = FALSE /\ Failed.ok = FALSE
  BY DEF Failed
<1>6. CASE Process
  <2>1. UNCHANGED <<todo, got, exit, reply>>
    BY <1>6, ProcessFrame DEF others
  <2>2. CASE Dies
    BY <1>2, <2>1, <2>2 DEF Dies
  <2>3. CASE ~Dies
    BY <1>2, <1>6, <2>1, <2>3, ProcessFrame
  <2> QED
    BY <2>2, <2>3
<1>7. ASSUME NEW d \in Clients, Client(d)
      PROVE  ReloadInv(c)'
  <2>1. stage' = stage
    BY <1>7, ClientFrame
  <2>2. CASE d # c
    BY <1>2, <1>7, <2>1, <2>2, OthersSame DEF Same
  <2>3. CASE Edit(c)
    <3>1. UNCHANGED <<got, reply, job>>
      BY <2>3 DEF Edit
    <3>2. Head(todo[c]) = "edit" /\ todo[c] # <<>>
      BY <1>1, <2>3 DEF Edit, ScriptInv
    <3>3. stage[c] = "new" /\ job[c] # "replied" /\ "reload" \notin DOMAIN got[c]
      BY <1>1, <1>3, <3>2 DEF ScriptInv, ReloadInv
    <3> QED
      BY <2>1, <3>1, <3>3 DEF ReloadInv
  <2>4. CASE Send(c)
    <3>1. /\ todo[c] # <<>> /\ Head(todo[c]) # "edit" /\ job[c] \in {"none", "unheard"}
      BY <1>1, <2>4 DEF Send, ScriptInv, ReloadInv
    <3>2. CASE Learn(c, Failed) /\ job' = job
      BY <1>4, <1>5, <2>1, <3>1, <3>2
    <3>3. CASE ~(Learn(c, Failed) /\ job' = job)
      <4>1. UNCHANGED <<got, reply, todo, exit>> /\ job'[c] = "queued"
        BY <2>4, <3>3 DEF Send
      <4>2. stage[c] = "new" /\ "reload" \notin DOMAIN got[c]
        BY <1>1, <3>1 DEF ReloadInv
      <4> QED
        BY <2>1, <4>1, <4>2 DEF ReloadInv
    <3> QED
      BY <3>2, <3>3
  <2>5. CASE Cut(c) \/ Timeout(c)
    <3>1. /\ todo[c] # <<>> /\ Head(todo[c]) # "edit" /\ job'[c] \in {"none", "unheard", "orphan"}
          /\ job'[c] = "orphan" => Head(todo[c]) = "reload" /\ job[c] \in {"queued", "stamped"}
          /\ Learn(c, Failed)
      BY <1>1, <2>5 DEF Cut, Timeout, ScriptInv
    <3>2. job'[c] = "orphan" => stage[c] = "new"
      BY <1>1, <3>1 DEF ReloadInv
    <3> QED
      BY <1>4, <1>5, <2>1, <3>1, <3>2
  <2>6. CASE Receive(c)
    <3> DEFINE a == [heard |-> TRUE, ok |-> reply[c].ok, tc |-> reply[c].tc,
                     version |-> reply[c].version, since |-> since[c]]
    <3>1. /\ todo[c] # <<>> /\ Head(todo[c]) # "edit" /\ job'[c] = "none"
          /\ job[c] = "replied" /\ Learn(c, a)
      BY <1>1, <2>6 DEF Receive, ScriptInv
    <3>2. a.heard /\ a.ok = reply[c].ok
      OBVIOUS
    <3>3. Head(todo[c]) = "reload" =>
             stage[c] \notin {"open", "looked"} /\ (a.ok <=> stage[c] = "installed")
      BY <1>1, <3>1, <3>2 DEF ReloadInv
    <3> HIDE DEF a
    <3> QED
      BY <1>4, <2>1, <3>1, <3>2, <3>3
  <2> QED
    BY <1>7, <2>2, <2>3, <2>4, <2>5, <2>6 DEF Client
<1>8. ASSUME NEW d \in Clients, Serve(d)
      PROVE  ReloadInv(c)'
  <2>1. UNCHANGED <<todo, got, exit>>
    BY <1>8, ServeFrame DEF others
  <2>2. CASE d # c
    BY <1>2, <1>8, <2>2, OthersSame DEF Same
  <2>3. CASE Hook(c)
    <3>1. /\ reply' = reply /\ job' = job /\ job[c] \in {"hook", "unheard"}
          /\ stage[c] \in {"open", "looked"} /\ stage'[c] # "new"
      BY <2>3, HookSteps
    <3> QED
      BY <1>1, <2>1, <3>1 DEF ReloadInv
  <2>4. CASE ReloadGate(c)
    <3>1. /\ job[c] = "stamped" /\ Head(todo[c]) = "reload" /\ ~Hook(c)
      BY <2>4 DEF ReloadGate, Hook
    <3>2. todo[c] # <<>> /\ stage[c] = "new" /\ "reload" \notin DOMAIN got[c]
      BY <1>1, <3>1 DEF ScriptInv, ReloadInv
    <3>3. CASE Answer(c, FALSE)
      <4>1. /\ job'[c] = "replied" /\ reply'[c].ok = FALSE /\ reply'[c].body = phase
        BY <3>3 DEF Answer
      <4>2. stage' = stage
        BY <2>4, <3>3, <4>1 DEF ReloadGate, zone
      <4>3. phase >= Draining \/ ~may_mutate(c) \/ ~setup.configured
        BY <2>4, <3>3, <4>1 DEF ReloadGate, Barred
      <4>4. reply'[c].body < Draining => ~may_mutate(c) \/ ~setup.configured
        BY <4>1, <4>3 DEF Draining, Phases, Starting, Closing
      <4> QED
        BY <1>1, <2>1, <3>2, <4>1, <4>2, <4>4 DEF ReloadInv
    <3>4. CASE ~Answer(c, FALSE)
      <4>1. /\ stage'[c] = "open" /\ may_mutate(c) /\ setup.configured
            /\ job'[c] = "hook" /\ reply' = reply
        BY <2>4, <3>4 DEF ReloadGate, Barred, Live!ABegin
      <4> QED
        BY <1>1, <2>1, <3>2, <4>1 DEF ReloadInv
    <3> QED
      BY <3>3, <3>4
  <2>7. CASE Orphan(c)
    <3>1. /\ job[c] = "orphan" /\ job'[c] \in {"none", "unheard"} /\ reply' = reply
          /\ \/ stage' = stage
             \/ stage'[c] = "open" /\ may_mutate(c) /\ setup.configured
      BY <2>7 DEF Orphan, Barred, Live!ABegin, zone
    <3>2. /\ todo[c] = <<>> /\ "reload" \in DOMAIN got[c] /\ ~got[c]["reload"].heard
      BY <1>1, <3>1 DEF ReloadInv
    <3> QED
      BY <1>1, <2>1, <3>1, <3>2 DEF ReloadInv
  <2>5. CASE HookReturn(c)
    <3>1. /\ job[c] = "hook" /\ stage[c] \in {"installed", "refused"} /\ stage' = stage
          /\ job'[c] = "replied" /\ (reply'[c].ok = (stage[c] = "installed"))
      BY <2>5 DEF HookReturn, Answer, zone
    <3>2. todo[c] # <<>> /\ "reload" \notin DOMAIN got[c]
      BY <1>1, <3>1 DEF ScriptInv, ReloadInv
    <3> QED
      BY <1>1, <2>1, <3>1, <3>2 DEF ReloadInv
  <2>6. CASE Get(c) \/ phase_header(c) \/ handle_request(c) \/ Lose(c)
    <3>1. stage' = stage /\ job[c] \in {"queued", "stamped", "replied"}
      BY <2>6 DEF Get, phase_header, handle_request, Lose, zone
    <3>2. todo[c] # <<>> /\ "reload" \notin DOMAIN got[c]
      BY <1>1, <3>1 DEF ScriptInv, ReloadInv
    <3>3. \/ phase_header(c) /\ job'[c] = "stamped" /\ job[c] = "queued"
          \/ Head(todo[c]) # "reload"
      BY <2>6 DEF Get, healthz, readyz, version, metrics, phase_header, handle_request,
                  Lose, DNS
    <3>4. stage[c] = "new"
      BY <1>1, <1>3, <3>2, <3>3 DEF ReloadInv
    <3>5. job'[c] # "orphan"
      BY <2>6 DEF Get, healthz, readyz, version, metrics, Answer, phase_header,
                  handle_request, Lose
    <3> QED
      BY <1>1, <2>1, <3>1, <3>2, <3>3, <3>4, <3>5 DEF ReloadInv
  <2> QED
    BY <1>8, <2>2, <2>3, <2>4, <2>5, <2>6, <2>7 DEF Serve
<1> QED
  BY <1>6, <1>7, <1>8 DEF Next

\* Sets of commands are finite, and counted one by one.
LEMMA CountingClients ==
    ASSUME NEW S \in SUBSET Clients, NEW T \in SUBSET Clients, NEW c \in Clients
    PROVE  /\ Cardinality(S) \in Nat
           /\ S \subseteq T => Cardinality(S) <= Cardinality(T)
           /\ S \subseteq T \cup {c} => Cardinality(S) <= Cardinality(T) + 1
           /\ c \notin S /\ S \cup {c} \subseteq T => Cardinality(S) + 1 <= Cardinality(T)
<1>1. ASSUME NEW U \in SUBSET Clients, NEW V \in SUBSET U
      PROVE  IsFiniteSet(U) /\ Cardinality(U) \in Nat /\ Cardinality(V) <= Cardinality(U)
  <2>1. IsFiniteSet(U)
    BY CommandsAssumption, FS_Subset
  <2> QED
    BY <2>1, FS_Subset, FS_CardinalityType
<1>2. /\ IsFiniteSet(S) /\ Cardinality(S) \in Nat
      /\ IsFiniteSet(T) /\ Cardinality(T) \in Nat
  BY <1>1
<1>3. S \subseteq T => Cardinality(S) <= Cardinality(T)
  BY <1>1
<1>4. S \subseteq T \cup {c} => Cardinality(S) <= Cardinality(T) + 1
  <2>1. Cardinality(T \cup {c}) = IF c \in T THEN Cardinality(T) ELSE Cardinality(T) + 1
    BY <1>2, FS_AddElement
  <2>2. SUFFICES ASSUME S \subseteq T \cup {c} PROVE Cardinality(S) <= Cardinality(T) + 1
    OBVIOUS
  <2>3. Cardinality(S) <= Cardinality(T \cup {c})
    BY <1>1, <2>2
  <2> QED
    BY <1>2, <2>1, <2>3
<1>5. c \notin S /\ S \cup {c} \subseteq T => Cardinality(S) + 1 <= Cardinality(T)
  <2>1. SUFFICES ASSUME c \notin S, S \cup {c} \subseteq T
                 PROVE  Cardinality(S) + 1 <= Cardinality(T)
    OBVIOUS
  <2>2. Cardinality(S \cup {c}) = Cardinality(S) + 1
    BY <1>2, <2>1, FS_AddElement
  <2>3. Cardinality(S \cup {c}) <= Cardinality(T)
    BY <1>1, <2>1
  <2> QED
    BY <2>2, <2>3
<1> QED
  BY <1>2, <1>3, <1>4, <1>5

LEMMA TallyStep ==
    ASSUME IInv, Next
    PROVE  TallyInv'
<1> USE DEF IInv, TypeOK
<1> DEFINE S == {c \in Clients : stage[c] = "installed" /\ job[c] # "hook"}
           A == {c \in Clients : Acknowledged(c)}
<1>1. /\ reloads \in Nat /\ starts \in Nat
      /\ reloads <= Cardinality(S) /\ (starts = 0 => reloads >= Cardinality(A))
  BY DEF TallyInv
<1>2. S \in SUBSET Clients /\ A \in SUBSET Clients /\ S' \in SUBSET Clients /\ A' \in SUBSET Clients
  OBVIOUS
<1>3. ASSUME reloads' = reloads, starts' = starts, S \subseteq S', A' \subseteq A
      PROVE  TallyInv'
  <2>1. CASE Clients = {}
    <3>1. S' = S /\ A' = A
      BY <2>1
    <3> QED
      BY <1>1, <1>3, <3>1 DEF TallyInv
  <2>2. CASE Clients # {}
    <3>1. PICK e \in Clients : TRUE
      BY <2>2
    <3> HIDE DEF S, A
    <3>2. /\ Cardinality(S) <= Cardinality(S') /\ Cardinality(A') <= Cardinality(A)
          /\ {Cardinality(S), Cardinality(S'), Cardinality(A), Cardinality(A')} \subseteq Nat
      BY <1>2, <1>3, <3>1, CountingClients
    <3>3. reloads' <= Cardinality(S') /\ (starts' = 0 => reloads' >= Cardinality(A'))
      BY <1>1, <1>3, <3>2
    <3> QED
      BY <3>3 DEF TallyInv, S, A
  <2> QED
    BY <2>1, <2>2
<1>4. CASE Process
  <2>1. UNCHANGED <<todo, got, reply>>
    BY <1>4, ProcessFrame DEF others
  <2>2. /\ S \subseteq S'
        /\ \A c \in Clients : job'[c] = "replied" => job[c] = "replied"
    BY <1>4, ProcessFrame DEF Dies
  <2>3. A' \subseteq A
    BY <2>1, <2>2 DEF Acknowledged, is_success
  <2>4. CASE Restart
    <3>1. reloads' = 0 /\ starts' = starts + 1
      BY <2>4 DEF Restart
    <3>2. Cardinality(S') >= 0
      BY <1>2, CommandsAssumption, FS_Subset, FS_CardinalityType
    <3> QED
      BY <1>1, <3>1, <3>2 DEF TallyInv
  <2>5. CASE ~Restart
    BY <1>3, <1>4, <2>2, <2>3, <2>5, ProcessFrame
  <2> QED
    BY <2>4, <2>5
<1>5. ASSUME NEW c \in Clients, Client(c)
      PROVE  TallyInv'
  <2>1. UNCHANGED <<reloads, starts, stage>>
    BY <1>5, ClientFrame DEF process
  <2>2. \A d \in Clients \ {c} : Same(d)
    BY <1>5, OthersSame
  <2>3. job'[c] \notin {"hook", "replied"}
    BY <1>5 DEF Client, Edit, Send, Receive, Cut, Timeout, ScriptInv
  <2>4. S \subseteq S'
    BY <2>1, <2>2, <2>3 DEF Same
  <2>5. "reload" \in DOMAIN got'[c] /\ is_success(got'[c]["reload"]) => Acknowledged(c)
    <3>1. CASE got' = got
      BY <3>1 DEF Acknowledged, is_success
    <3>2. CASE got' # got
      <4>1. \E a : /\ Learn(c, a) /\ todo[c] # <<>> /\ Head(todo[c]) # "edit"
                   /\ a = Failed \/ (job[c] = "replied" /\ a.ok = reply[c].ok)
        BY <1>5, <3>2 DEF Client, Edit, Send, Receive, Cut, Timeout, ScriptInv
      <4>2. PICK a : /\ Learn(c, a) /\ todo[c] # <<>> /\ Head(todo[c]) # "edit"
                     /\ a = Failed \/ (job[c] = "replied" /\ a.ok = reply[c].ok)
        BY <4>1
      <4>3. got'[c] = With(got[c], Head(todo[c]), a)
        BY <4>2, Learnt
      <4>4. CASE Head(todo[c]) = "reload"
        <5>1. got'[c]["reload"] = a
          BY <4>3, <4>4 DEF With
        <5>2. Failed.ok = FALSE
          BY DEF Failed
        <5>3. SUFFICES ASSUME got'[c]["reload"].ok PROVE Acknowledged(c)
          BY DEF is_success
        <5>4. job[c] = "replied" /\ reply[c].ok
          BY <4>2, <5>1, <5>2, <5>3
        <5> QED
          BY <4>4, <5>4 DEF Acknowledged
      <4>5. CASE Head(todo[c]) # "reload"
        BY <4>2, <4>3, <4>5 DEF With, ReloadInv
      <4> QED
        BY <4>4, <4>5
    <3> QED
      BY <3>1, <3>2
  <2>6. A' \subseteq A
    BY <2>2, <2>3, <2>5 DEF Same, Acknowledged, is_success
  <2> QED
    BY <1>3, <2>1, <2>4, <2>6
<1>6. ASSUME NEW c \in Clients, Serve(c)
      PROVE  TallyInv'
  <2>1. UNCHANGED <<starts, todo, got>>
    BY <1>6, ServeFrame DEF process, others
  <2>2. \A d \in Clients \ {c} : Same(d)
    BY <1>6, OthersSame
  <2>3. CASE HookReturn(c) /\ stage[c] = "installed"
    <3>1. /\ job[c] = "hook" /\ job'[c] = "replied" /\ stage' = stage /\ reloads' = reloads + 1
      BY <2>3 DEF HookReturn, Answer, zone
    <3>2. c \notin S /\ S \cup {c} \subseteq S'
      BY <2>2, <2>3, <3>1 DEF Same
    <3>3. A' \subseteq A \cup {c}
      BY <2>1, <2>2 DEF Same, Acknowledged, is_success
    <3> HIDE DEF S, A
    <3>4. /\ Cardinality(S) + 1 <= Cardinality(S') /\ Cardinality(A') <= Cardinality(A) + 1
          /\ {Cardinality(S), Cardinality(S'), Cardinality(A), Cardinality(A')} \subseteq Nat
      BY <1>2, <3>2, <3>3, CountingClients
    <3>5. reloads' <= Cardinality(S') /\ (starts' = 0 => reloads' >= Cardinality(A'))
      BY <1>1, <2>1, <3>1, <3>4
    <3> QED
      BY <3>5 DEF TallyInv, S, A
  <2>4. CASE ~(HookReturn(c) /\ stage[c] = "installed")
    <3>1. reloads' = reloads
      BY <1>6, <2>4 DEF Serve, phase_header, Get, ReloadGate, Orphan, Hook, HookReturn,
                        handle_request, Lose
    <3>2. S \subseteq S'
      <4>1. CASE Hook(c)
        BY <2>2, <4>1, HookSteps DEF Same
      <4>2. CASE ReloadGate(c)
        <5>1. job[c] = "stamped" /\ Head(todo[c]) = "reload"
          BY <4>2 DEF ReloadGate
        <5>2. stage[c] = "new"
          BY <5>1 DEF ScriptInv, ReloadInv
        <5> QED
          BY <2>2, <5>2 DEF Same
      <4>4. CASE Orphan(c)
        <5>1. stage[c] = "new"
          BY <4>4 DEF Orphan, ReloadInv
        <5> QED
          BY <2>2, <5>1 DEF Same
      <4>3. CASE ~Hook(c) /\ ~ReloadGate(c) /\ ~Orphan(c)
        <5>1. stage' = stage /\ job'[c] # "hook"
          BY <1>6, <4>3 DEF Serve, phase_header, Get, HookReturn, handle_request, Lose, zone,
                            healthz, readyz, version, metrics, Answer
        <5> QED
          BY <2>2, <5>1 DEF Same
      <4> QED
        BY <4>1, <4>2, <4>3, <4>4
    <3>3. job'[c] = "replied" /\ Head(todo[c]) = "reload" /\ reply'[c].ok => Acknowledged(c)
      <4>1. CASE ReloadGate(c)
        BY <4>1 DEF ReloadGate, Answer
      <4>2. CASE HookReturn(c)
        <5>1. reply'[c].ok = FALSE
          BY <2>4, <4>2 DEF HookReturn, Answer
        <5> QED
          BY <5>1
      <4>3. CASE Hook(c) \/ Orphan(c)
        BY <4>3, HookSteps DEF Orphan
      <4>4. CASE ~ReloadGate(c) /\ ~HookReturn(c) /\ ~Hook(c) /\ ~Orphan(c)
        BY <1>6, <4>4 DEF Serve, phase_header, Get, handle_request, Lose,
                          healthz, readyz, version, metrics, DNS
      <4> QED
        BY <4>1, <4>2, <4>3, <4>4
    <3>4. A' \subseteq A
      BY <2>1, <2>2, <3>3 DEF Same, Acknowledged, is_success
    <3> QED
      BY <1>3, <2>1, <3>1, <3>2, <3>4
  <2> QED
    BY <2>3, <2>4
<1> QED
  BY <1>4, <1>5, <1>6 DEF Next

-----------------------------------------------------------------------------
(* The invariant. *)

LEMMA InitIInv == Init => IInv
<1> SUFFICES ASSUME Init PROVE IInv
  OBVIOUS
<1> USE DEF Init, Starting
<1>1. /\ \A c \in Clients : kind(c) \in Kinds
      /\ \A c \in Clients : Script(kind(c)) \in Remaining(kind(c)) /\ Script(kind(c)) # <<>>
  BY CommandsAssumption, Whole DEF kind
<1>2. TypeOK
  <2>1. /\ phase \in Phases /\ seen \in Phases /\ floor \in [Clients -> Phases]
        /\ bound \subseteq DNS \cup {"admin"}
    BY DEF Phases, Closing
  <2>2. /\ stage \in [Clients -> {"new", "open", "looked", "installed", "refused"}]
        /\ job \in [Clients -> {"none", "queued", "stamped", "hook", "unheard", "orphan",
                                "replied", "reset"}]
        /\ exit \in [Clients -> {"running", "ok", "fail"}]
    OBVIOUS
  <2>3. waiting \in [Clients -> BOOLEAN]
    OBVIOUS
  <2>4. /\ edited \in [Clients -> Nat] /\ since \in [Clients -> Nat]
        /\ starts \in Nat /\ reloads \in Nat /\ file \in Nat /\ served \in Nat
    OBVIOUS
  <2>5. /\ DOMAIN saw = Clients /\ DOMAIN reply = Clients
        /\ DOMAIN todo = Clients /\ DOMAIN got = Clients /\ setup \in Setups
        /\ up \in BOOLEAN /\ spawned \in BOOLEAN /\ signalled \in BOOLEAN
    OBVIOUS
  <2> QED
    BY <2>1, <2>2, <2>3, <2>4, <2>5 DEF TypeOK
<1>3. ListenersInv /\ ZoneInv
  BY DEF ListenersInv, ZoneInv, Serving
<1>4. TallyInv
  <2> DEFINE S == {c \in Clients : stage[c] = "installed" /\ job[c] # "hook"}
             A == {c \in Clients : Acknowledged(c)}
  <2>1. S = {} /\ A = {} /\ reloads = 0
    BY DEF Acknowledged
  <2>2. Cardinality({}) = 0
    BY FS_EmptySet
  <2> HIDE DEF S, A, Init
  <2>3. reloads <= Cardinality(S) /\ reloads >= Cardinality(A)
    BY <2>1, <2>2
  <2> QED
    BY <2>3 DEF TallyInv, S, A
<1>5. ASSUME NEW c \in Clients
      PROVE  ScriptInv(c) /\ PhaseInv(c) /\ EditInv(c) /\ QueryInv(c) /\ ReloadInv(c)
  <2>1. ScriptInv(c)
    BY <1>1 DEF ScriptInv
  <2>2. PhaseInv(c) /\ EditInv(c)
    BY DEF PhaseInv, EditInv
  <2>3. QueryInv(c) /\ ReloadInv(c)
    BY DEF QueryInv, ReloadInv
  <2> QED
    BY <2>1, <2>2, <2>3
<1> QED
  BY <1>2, <1>3, <1>4, <1>5 DEF IInv

LEMMA NextIInv == IInv /\ [Next]_vars => IInv'
<1> SUFFICES ASSUME IInv, [Next]_vars PROVE IInv'
  OBVIOUS
<1>1. CASE Next
  <2>1. TypeOK' /\ ListenersInv' /\ ZoneInv' /\ TallyInv'
    BY <1>1, TypeStep, ListenersStep, ZoneStep, TallyStep
  <2>2. ASSUME NEW c \in Clients
        PROVE  (ScriptInv(c) /\ PhaseInv(c) /\ EditInv(c) /\ QueryInv(c) /\ ReloadInv(c))'
    BY <1>1, ScriptStep, PhaseStep, EditStep, QueryStep, ReloadStep
  <2> QED
    BY <2>1, <2>2 DEF IInv
<1>2. CASE UNCHANGED vars
  <2> USE <1>2 DEF vars, process, zone, clients
  <2>1. TypeOK' /\ ListenersInv' /\ ZoneInv' /\ TallyInv'
    BY DEF IInv, TypeOK, ListenersInv, ZoneInv, TallyInv, Acknowledged, is_success
  <2>2. ASSUME NEW c \in Clients
        PROVE  (ScriptInv(c) /\ PhaseInv(c) /\ EditInv(c))'
    BY DEF IInv, ScriptInv, PhaseInv, EditInv, kind
  <2>3. ASSUME NEW c \in Clients
        PROVE  QueryInv(c)'
    BY DEF IInv, QueryInv, kind, Verdict, is_success
  <2>4. ASSUME NEW c \in Clients
        PROVE  ReloadInv(c)'
    BY DEF IInv, ReloadInv, kind, may_mutate
  <2> QED
    BY <2>1, <2>2, <2>3, <2>4 DEF IInv
<1> QED
  BY <1>1, <1>2

\* The inductive invariant holds in every reachable state of the commands and
\* the server.
THEOREM Invariance == Spec => []IInv
BY InitIInv, NextIInv, PTL DEF Spec

-----------------------------------------------------------------------------
(* What it is for. *)

\* A `reload' or an `add' that exits 0 was told that its hook had installed.
LEMMA OkIsInstalled ==
    ASSUME IInv, NEW c \in Clients, exit[c] = "ok", kind(c) \in {"reload", "add"}
    PROVE  stage[c] = "installed"
<1>1. Verdict(kind(c), got[c])
  BY DEF IInv, QueryInv
<1>2. "reload" \in DOMAIN got[c] /\ got[c]["reload"].ok
  BY <1>1 DEF Verdict, is_success
<1> QED
  BY <1>2 DEF IInv, ReloadInv

\* A `record add --reload' that exits 0 has put its edit on the air, and what
\* is served never falls behind it again, whatever other commands, restarts
\* and refusals there are (the reload lock, reload.rs:200-212).
THEOREM EditIsServedHolds == Spec => []EditIsServed
<1>1. IInv => EditIsServed
  <2> SUFFICES ASSUME IInv, NEW c \in Clients, exit[c] = "ok", kind(c) = "add"
               PROVE  served >= edited[c]
    BY DEF EditIsServed
  <2>1. stage[c] = "installed"
    BY OkIsInstalled
  <2> QED
    BY <2>1 DEF IInv, TypeOK, EditInv
<1> QED
  BY Invariance, <1>1, PTL

\* A reload refused in words changed nothing, one acknowledged was installed,
\* and AdminState.reloads stays between the two counts (admin.rs, reload).
THEOREM FailureIsHonestHolds == Spec => []FailureIsHonest
<1>1. ASSUME IInv, NEW c \in Clients
      PROVE  /\ exit[c] = "fail" /\ stage[c] = "installed" => ~got[c]["reload"].heard
             /\ exit[c] = "ok" /\ kind(c) = "reload" => stage[c] = "installed"
  <2>1. exit[c] = "fail" => todo[c] = <<>>
    BY <1>1 DEF IInv, ScriptInv
  <2>2. exit[c] = "fail" /\ stage[c] = "installed" => ~got[c]["reload"].heard
    BY <1>1, <2>1 DEF IInv, ReloadInv
  <2> QED
    BY <1>1, <2>2, OkIsInstalled
<1>2. IInv => /\ reloads <= Cardinality({c \in Clients : stage[c] = "installed"})
              /\ starts = 0 =>
                   reloads >= Cardinality({c \in Clients : "reload" \in DOMAIN got[c]
                                                    /\ is_success(got[c]["reload"])})
  <2> SUFFICES ASSUME IInv
               PROVE  /\ reloads <= Cardinality({c \in Clients : stage[c] = "installed"})
                      /\ starts = 0 =>
                           reloads >= Cardinality({c \in Clients : "reload" \in DOMAIN got[c]
                                                    /\ is_success(got[c]["reload"])})
    OBVIOUS
  <2> DEFINE S == {c \in Clients : stage[c] = "installed" /\ job[c] # "hook"}
             T == {c \in Clients : stage[c] = "installed"}
             A == {c \in Clients : Acknowledged(c)}
             B == {c \in Clients : "reload" \in DOMAIN got[c] /\ is_success(got[c]["reload"])}
  <2>1. /\ S \in SUBSET T /\ T \in SUBSET Clients /\ B \in SUBSET A /\ A \in SUBSET Clients
    BY DEF Acknowledged
  <2>2. /\ reloads \in Nat /\ reloads <= Cardinality(S)
        /\ (starts = 0 => reloads >= Cardinality(A))
    BY DEF IInv, TypeOK, TallyInv
  <2> HIDE DEF S, T, A, B
  <2>3. IsFiniteSet(T) /\ IsFiniteSet(A)
    BY <2>1, CommandsAssumption, FS_Subset
  <2>4. IsFiniteSet(S) /\ Cardinality(S) <= Cardinality(T)
        /\ IsFiniteSet(B) /\ Cardinality(B) <= Cardinality(A)
    BY <2>1, <2>3, FS_Subset
  <2>5. /\ Cardinality(S) \in Nat /\ Cardinality(T) \in Nat
        /\ Cardinality(A) \in Nat /\ Cardinality(B) \in Nat
    BY <2>3, <2>4, FS_CardinalityType
  <2>6. reloads <= Cardinality(T) /\ (starts = 0 => reloads >= Cardinality(B))
    BY <2>2, <2>4, <2>5
  <2> QED
    BY <2>6 DEF T, B
<1>3. IInv => FailureIsHonest
  BY <1>1, <1>2 DEF FailureIsHonest
<1> QED
  BY Invariance, <1>3, PTL

\* What one process tells of its phase is true and never goes back: Serving
\* and Draining only while the DNS listeners are open, Closing only when they
\* are closed (phase_header and readyz, admin.rs; main.rs:607-647).
THEOREM AdminTellsTheTruthHolds == Spec => []AdminTellsTheTruth
<1>1. IInv => AdminTellsTheTruth
  <2> SUFFICES ASSUME IInv, NEW c \in Clients,
                      job[c] = "replied", Head(todo[c]) \in Http, reply[c].from = starts
               PROVE  /\ reply[c].body >= floor[c]
                      /\ reply[c].header <= reply[c].body
                      /\ (Head(todo[c]) = "readyz" /\ reply[c].ok) => reply[c].body = Serving
                      /\ reply[c].body \in Serving .. Draining => DNS \subseteq reply[c].open
                      /\ reply[c].body = Closing => DNS \cap reply[c].open = {}
    BY DEF AdminTellsTheTruth
  <2>1. PhaseInv(c) /\ floor[c] \in 0..4 /\ phase \in 0..4
    BY DEF IInv, TypeOK, Phases, Starting, Closing
  <2> QED
    BY <2>1 DEF PhaseInv, Starting
<1> QED
  BY Invariance, <1>1, PTL

\* A `query' that exits 0 reports a whole answer from one zone, served at
\* some moment since its last send (the TCP retry of dnsclient.rs).
THEOREM WholeAnswerHolds == Spec => []WholeAnswer
<1>1. IInv => WholeAnswer
  <2> SUFFICES ASSUME IInv, NEW c \in Clients,
                      exit[c] = "ok", kind(c) \in {"query", "query_tcp"}
               PROVE  LET a == IF "tcp" \in DOMAIN got[c] THEN got[c]["tcp"] ELSE got[c]["udp"]
                      IN  ~a.tc /\ a.since <= a.version /\ a.version <= served
    BY DEF WholeAnswer
  <2>1. QueryInv(c) /\ served \in Nat /\ todo[c] = <<>>
    BY DEF IInv, TypeOK, ScriptInv
  <2>2. Verdict(kind(c), got[c])
    BY <2>1 DEF QueryInv
  <2>3. ASSUME NEW a, Recent(a, served)
        PROVE  a.since <= a.version /\ a.version <= served
    BY <2>1, <2>3 DEF Recent
  <2>4. CASE "tcp" \in DOMAIN got[c]
    <3>1. Recent(got[c]["tcp"], served) /\ ~got[c]["tcp"].tc
      BY <2>1, <2>4 DEF QueryInv, DNS
    <3> QED
      BY <2>3, <2>4, <3>1
  <2>5. CASE "tcp" \notin DOMAIN got[c]
    <3>1. "udp" \in DOMAIN got[c]
      BY <2>2, <2>5 DEF Verdict
    <3>2. Recent(got[c]["udp"], served) /\ ~got[c]["udp"].tc
      BY <2>1, <2>5, <3>1 DEF QueryInv, DNS
    <3> QED
      BY <2>3, <2>5, <3>2
  <2> QED
    BY <2>4, <2>5
<1> QED
  BY Invariance, <1>1, PTL

\* is_local says `here' of an address exactly when it is this machine's,
\* however the address is written (VEGA-016, canonical in admin.rs).
LEMMA LocalIsHere ==
    ASSUME NEW ip \in Peers
    PROVE  is_local(ip) <=> ip.here
<1>1. /\ ip \in [form : {"v4", "v6", "mapped", "compatible"},
                 addr : {"loopback", "other"}, here : BOOLEAN]
      /\ ip.here <=> ip.addr = "loopback" /\ ip.form # "compatible"
  BY DEF Peers
<1>2. CASE ip.form = "mapped"
  <2>1. canonical(ip).form = "v4" /\ canonical(ip).addr = ip.addr
    BY <1>1, <1>2 DEF canonical
  <2> QED
    BY <1>1, <1>2, <2>1 DEF is_local
<1>3. CASE ip.form # "mapped"
  <2>1. canonical(ip) = ip /\ ip.form \in {"v4", "v6", "compatible"}
    BY <1>1, <1>3 DEF canonical
  <2> QED
    BY <1>1, <2>1 DEF is_local
<1> QED
  BY <1>2, <1>3

\* Without a token this machine may reload and nobody else, with one its
\* holders; they are turned away only by a process that drains or that was
\* started without a config file
\* (AdminState::may_mutate and the gates of POST /reload, admin.rs).
THEOREM OnlyTheAllowedReloadHolds == Spec => []OnlyTheAllowedReload
<1>1. IInv => OnlyTheAllowedReload
  <2> SUFFICES ASSUME IInv, NEW c \in Clients
               PROVE  LET allowed == IF setup.token = None
                                     THEN setup.client[c].ip.here
                                     ELSE setup.client[c].given = setup.token
                      IN /\ stage[c] # "new" => allowed /\ setup.configured
                         /\ /\ job[c] = "replied" /\ Head(todo[c]) = "reload"
                            /\ stage[c] = "new" /\ reply[c].body < Draining
                            => ~allowed \/ ~setup.configured
    BY DEF OnlyTheAllowedReload
  <2>1. setup.client[c].ip \in Peers
    BY CommandsAssumption DEF IInv, TypeOK
  <2>2. may_mutate(c) <=> IF setup.token = None
                          THEN setup.client[c].ip.here
                          ELSE setup.client[c].given = setup.token
    BY <2>1, LocalIsHere DEF may_mutate
  <2> QED
    BY <2>2 DEF IInv, ReloadInv
<1> QED
  BY Invariance, <1>1, PTL
=============================================================================
