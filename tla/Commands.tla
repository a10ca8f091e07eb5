------------------------------ MODULE Commands ------------------------------
(***************************************************************************)
(* The commands that talk to a running server (main.rs, commands/,         *)
(* http.rs, dnsclient.rs, healthcheck.rs) together with the process they   *)
(* talk to: its start-up, its listeners and phases (main.rs, lifecycle.rs) *)
(* and its admin endpoints (admin.rs).                                     *)
(*                                                                         *)
(* A command is a process of its own.  It runs its exchanges in order, and *)
(* each of them may be refused, answered, cut off or given up on: the      *)
(* server does not learn that a client has stopped waiting until it tries  *)
(* to answer.  What POST /reload does inside the server is the abstract    *)
(* specification LiveZone, which Reload is proved to implement; contents   *)
(* of the file are numbered in the order they were written.                *)
(***************************************************************************)
EXTENDS Naturals, Sequences, FiniteSets

CONSTANTS
    Clients,     \* one command each
    Setups,      \* configurations: see `setup'
    None,        \* no token
    Broken,      \* the contents that do not resolve or do not build
    Large,       \* the contents whose answer does not fit a datagram
    Missing,     \* the contents without the name that is asked for
    Nothing

Kinds == {"status", "healthcheck", "reload", "add", "query", "query_tcp"}

\* The addresses of peers: `here' says whether it is this machine.  The
\* loopback of either family is, and the IPv4 one as a dual-stack socket
\* shows it; ::127.0.0.1 is another host.
Peers ==
    {ip \in [form : {"v4", "v6", "mapped", "compatible"},
             addr : {"loopback", "other"}, here : BOOLEAN] :
        ip.here <=> ip.addr = "loopback" /\ ip.form # "compatible"}

ASSUME CommandsAssumption ==
    /\ IsFiniteSet(Clients)
    /\ \A s \in Setups : /\ DOMAIN s.client = Clients
                         /\ s.edits \in Nat /\ s.restarts \in Nat
                         /\ s.signals \in BOOLEAN /\ s.configured \in BOOLEAN
                         /\ \A c \in Clients : /\ s.client[c].kind \in Kinds
                                             /\ s.client[c].ip \in Peers
    /\ 0 \notin Broken

\* Phase, as the ranks the AtomicU8 holds.
Starting == 0
Serving == 1
Draining == 2
Stopping == 3
Closing == 4

\* The listeners in the order `serve' binds them.
Listeners == <<"udp", "tcp", "admin">>
DNS == {"udp", "tcp"}

VARIABLES
    up,        \* the server process exists
    phase,     \* Lifecycle.phase
    bound,     \* the listeners that are open
    spawned,   \* the admin task accepts connections
    signalled, \* Signals: a first signal has been delivered
    starts,    \* how often the server was started again
    file, served, stage, saw,  \* LiveZone, over numbers of contents
    reloads,   \* AdminState.reloads
    setup,     \* fixed: admin_token; whether there is a config file to reload
               \* from; of each client the kind of command, the address and the
               \* token; bounds on edits, restarts, signals
    todo,      \* the exchanges it still has to make
    waiting,   \* it waits for the answer to the first of them
    job,       \* where the server is with that exchange
    reply,     \* the answer on its way: what the handler computed
    got,       \* what the command has learnt: [exchange -> answer or Failed]
    exit,      \* "running", "ok" or "fail"
    edited,    \* history: the contents an `add' has written
    since,     \* history: what was served when the exchange began
    seen,      \* history: the latest phase this process has told anybody
    floor      \* history: `seen' when the exchange began

process == <<up, phase, bound, spawned, signalled, starts>>
zone == <<file, served, stage, saw>>
clients == <<setup, todo, waiting, job, reply, got, exit, edited, since,
             seen, floor>>
vars == <<process, zone, reloads, clients>>

Live ==
    INSTANCE LiveZone WITH
        Requests <- Clients,
        Files <- Nat,
        Boot <- 0,
        SameOrigin <- LAMBDA c, d : TRUE,
        Servable <- LAMBDA c : c \notin Broken

-----------------------------------------------------------------------------
(* Who may reload. *)

\* Mutant of canonical: to_ipv4, which also folds the compatible form.
FoldCompatible(ip) ==
    IF ip.form \in {"mapped", "compatible"} THEN [ip EXCEPT !.form = "v4"] ELSE ip

\* to_ipv4_mapped: IPv4-mapped IPv6 is folded to IPv4, no other form is.
canonical(ip) == IF ip.form = "mapped" THEN [ip EXCEPT !.form = "v4"] ELSE ip

\* is_loopback: 127.0.0.0/8 and ::1, and no IPv6 address that embeds one.
is_local(ip) ==
    LET c == canonical(ip) IN c.form \in {"v4", "v6"} /\ c.addr = "loopback"

\* AdminState::may_mutate, on the token that `bearer' extracts.
may_mutate(c) ==
    IF setup.token # None
    THEN setup.client[c].given = setup.token
    ELSE is_local(setup.client[c].ip)

-----------------------------------------------------------------------------
(* The commands as the exchanges they make. *)

Script(k) ==
    CASE k = "status"      -> <<"healthz", "readyz", "version", "metrics">>
      [] k = "healthcheck" -> <<"healthz">>
      [] k = "reload"      -> <<"reload">>
      [] k = "add"         -> <<"edit", "reload">>
      [] k = "query"       -> <<"udp">>
      [] k = "query_tcp"   -> <<"tcp">>

Http == {"healthz", "readyz", "version", "metrics", "reload"}

\* An exchange that ended without an answer.
Failed == [heard |-> FALSE, ok |-> FALSE, tc |-> FALSE, version |-> 0, since |-> 0]

kind(c) == setup.client[c].kind

\* A 2xx, or NOERROR.
is_success(a) == a.ok

\* Mutant of NextExchanges: a truncated answer is taken as it is.
NeverRetry(c, a) == Tail(todo[c])

\* A truncated UDP answer is asked for again over TCP; `status' goes on past
\* errors.
NextExchanges(c, a) ==
    IF Head(todo[c]) = "udp" /\ a.tc
    THEN <<"tcp">> ELSE Tail(todo[c])

\* Mutant of Verdict: `add' reports its edit and not the reload.
EditIsEnough(k, results) == k = "add" \/ \A x \in DOMAIN results : is_success(results[x])

\* What the exit code is made of: the last exchange of every command but
\* `status', which needs health and readiness.
Verdict(k, results) ==
    LET ok(x) == x \in DOMAIN results /\ is_success(results[x]) IN
    CASE k = "status" -> ok("healthz") /\ ok("readyz")
      [] k = "healthcheck" -> ok("healthz")
      [] k \in {"reload", "add"} -> ok("reload")
      [] k \in {"query", "query_tcp"} ->
            IF "tcp" \in DOMAIN results THEN ok("tcp") ELSE ok("udp")

With(f, x, v) == [y \in DOMAIN f \cup {x} |-> IF y = x THEN v ELSE f[y]]

Init ==
    /\ up = TRUE /\ phase = Starting /\ bound = {} /\ spawned = FALSE
    /\ signalled = FALSE /\ starts = 0
    /\ file = 0 /\ served = 0
    /\ stage = [c \in Clients |-> "new"] /\ saw = [c \in Clients |-> Nothing]
    /\ reloads = 0
    /\ setup \in Setups
    /\ todo = [c \in Clients |-> Script(kind(c))]
    /\ waiting = [c \in Clients |-> FALSE]
    /\ job = [c \in Clients |-> "none"]
    /\ reply = [c \in Clients |-> Nothing]
    /\ got = [c \in Clients |-> <<>>]
    /\ exit = [c \in Clients |-> "running"]
    /\ edited = [c \in Clients |-> 0]
    /\ since = [c \in Clients |-> 0]
    /\ seen = Starting /\ floor = [c \in Clients |-> Starting]

-----------------------------------------------------------------------------
(* The process. *)

others == <<setup, todo, waiting, got, exit, edited, since>>

\* Connections are reset and hooks are gone with the process; an answer that
\* has left it may still arrive, and a datagram is simply not answered.
Dies ==
    /\ up' = FALSE /\ bound' = {} /\ spawned' = FALSE
    /\ \E sent \in SUBSET {c \in Clients : job[c] = "replied"} :
          job' = [c \in Clients |->
                    IF job[c] \in {"none", "unheard", "orphan"} THEN "none"
                    ELSE IF c \in sent THEN "replied" ELSE "reset"]
    /\ stage' = [c \in Clients |->
                   IF stage[c] \in {"open", "looked"} THEN "refused" ELSE stage[c]]

\* bind_dns and admin::bind.  A taken address ends the start-up, and with it
\* every listener that had been opened.
Bind ==
    /\ up /\ phase = Starting /\ Cardinality(bound) < Len(Listeners)
    /\ \/ /\ bound' = bound \cup {Listeners[Cardinality(bound) + 1]}
          /\ UNCHANGED <<up, spawned, job, stage>>
       \/ Dies
    /\ UNCHANGED <<phase, signalled, starts, file, served, saw, reloads,
                   others, reply, seen, floor>>

\* The admin task starts before the phase says Serving.
Spawn ==
    /\ up /\ phase = Starting /\ ~spawned
    /\ Cardinality(bound) = Len(Listeners)
    /\ spawned' = TRUE
    /\ UNCHANGED <<up, phase, bound, signalled, starts, zone, reloads, clients>>

\* lifecycle.enter(Phase::Serving).
Ready ==
    /\ up /\ spawned /\ phase = Starting
    /\ phase' = Serving
    /\ UNCHANGED <<up, bound, spawned, signalled, starts, zone, reloads, clients>>

\* A signal that comes during the start-up is kept for `first'.
Signal ==
    /\ up /\ ~signalled /\ setup.signals
    /\ signalled' = TRUE
    /\ UNCHANGED <<up, phase, bound, spawned, starts, zone, reloads, clients>>

\* Mutant of Advance: the signal cancels the accept loops directly.
CancelAtOnce ==
    /\ up /\ signalled /\ phase \in Serving .. Draining
    /\ phase' = phase + 1
    /\ bound' = bound \ DNS
    /\ UNCHANGED <<up, spawned, signalled, starts, zone, reloads, clients>>

\* Shutdown::run as its clients see it: 503 first, for the window, then
\* Stopping.
Advance ==
    /\ up /\ signalled /\ phase \in Serving .. Draining
    /\ phase' = phase + 1
    /\ UNCHANGED <<up, bound, spawned, signalled, starts, zone, reloads, clients>>

\* After the quiesce dns.cancel() closes the sockets, one task after another,
\* while the phase still says Stopping.
CloseDns ==
    /\ up /\ phase = Stopping
    /\ \E l \in bound \cap DNS : bound' = bound \ {l}
    /\ UNCHANGED <<up, phase, spawned, signalled, starts, zone, reloads, clients>>

\* block_until_done has joined them: lifecycle.enter(Phase::Closing).
Joined ==
    /\ up /\ phase = Stopping /\ bound \cap DNS = {}
    /\ phase' = Closing
    /\ UNCHANGED <<up, bound, spawned, signalled, starts, zone, reloads, clients>>

\* The admin server stops accepting last; what it has accepted goes on.
CloseAdmin ==
    /\ up /\ phase = Closing /\ "admin" \in bound
    /\ bound' = bound \ {"admin"}
    /\ UNCHANGED <<up, phase, spawned, signalled, starts, zone, reloads, clients>>

\* The end of the process: clean, overrun or SIGKILL.
Exit ==
    /\ up
    /\ Dies
    /\ UNCHANGED <<phase, signalled, starts, file, served, saw, reloads,
                   others, reply, seen, floor>>

\* The supervisor starts it again; a file that does not load is exit 1.
Restart ==
    /\ ~up /\ starts < setup.restarts /\ (setup.configured => file \notin Broken)
    /\ up' = TRUE /\ phase' = Starting /\ signalled' = FALSE
    /\ starts' = starts + 1
    /\ served' = IF setup.configured THEN file ELSE served
    /\ reloads' = 0
    /\ seen' = Starting /\ floor' = [c \in Clients |-> Starting]
    /\ UNCHANGED <<bound, spawned, file, stage, saw, others, job, reply>>

\* An operator or another program replaces the file.
EditFile ==
    /\ file < setup.edits
    /\ file' = file + 1
    /\ UNCHANGED <<process, served, stage, saw, reloads, clients>>

-----------------------------------------------------------------------------
(* The admin endpoints. *)

rest == <<process, others, seen, floor>>

\* The middleware loads the phase for the header before the handler runs.
phase_header(c) ==
    /\ job[c] = "queued" /\ spawned
    /\ Head(todo[c]) \in Http
    /\ job' = [job EXCEPT ![c] = "stamped"]
    /\ reply' = [reply EXCEPT ![c] = [header |-> phase]]
    /\ UNCHANGED <<zone, reloads, rest>>

\* The answer, with the phase its handler loads and what was true then.
Answer(c, ok) ==
    /\ job' = [job EXCEPT ![c] = "replied"]
    /\ reply' = [reply EXCEPT ![c] =
                   [ok |-> ok, header |-> reply[c].header, body |-> phase,
                    version |-> 0, tc |-> FALSE, open |-> bound, from |-> starts]]

healthz(c) == Head(todo[c]) = "healthz" /\ Answer(c, TRUE)

\* The only traffic gate.
readyz(c) == Head(todo[c]) = "readyz" /\ Answer(c, phase = Serving)

\* /version and /metrics answer 200 in every phase, with the phase in them.
version(c) == Head(todo[c]) = "version" /\ Answer(c, TRUE)

metrics(c) == Head(todo[c]) = "metrics" /\ Answer(c, TRUE)

Get(c) ==
    /\ up /\ job[c] = "stamped"
    /\ healthz(c) \/ readyz(c) \/ version(c) \/ metrics(c)
    /\ UNCHANGED <<zone, reloads, rest>>

\* POST /reload: 501 without a hook, 503 in a drain, 403 for the others...
Barred(c) == ~setup.configured \/ phase >= Draining \/ ~may_mutate(c)

\* ... the gates of the handler, in that order...
ReloadGate(c) ==
    /\ up /\ job[c] = "stamped" /\ Head(todo[c]) = "reload"
    /\ IF Barred(c)
       THEN Answer(c, FALSE) /\ UNCHANGED zone
       ELSE Live!ABegin(c) /\ job' = [job EXCEPT ![c] = "hook"] /\ UNCHANGED reply
    /\ UNCHANGED <<reloads, rest>>

\* A POST that had left its client before the client gave up reaches the
\* handler all the same; nobody hears what becomes of it.
Orphan(c) ==
    /\ up /\ spawned /\ job[c] = "orphan"
    /\ IF Barred(c)
       THEN job' = [job EXCEPT ![c] = "none"] /\ UNCHANGED zone
       ELSE Live!ABegin(c) /\ job' = [job EXCEPT ![c] = "unheard"]
    /\ UNCHANGED <<reply, reloads, rest>>

\* ... and the hook, on the blocking pool: it runs on when nobody waits.
Hook(c) ==
    /\ up /\ job[c] \in {"hook", "unheard"}
    /\ Live!ALook(c) \/ Live!AInstall(c) \/ Live!ARefuse(c)
    /\ UNCHANGED <<reloads, job, reply, rest>>

\* Mutant of HookReturn: what was installed is answered with 500.
ReturnNeverOk(c) ==
    /\ up /\ job[c] = "hook" /\ stage[c] \in {"installed", "refused"}
    /\ Answer(c, FALSE)
    /\ UNCHANGED <<reloads, zone, rest>>

\* The handler is polled again: only a success is counted.
HookReturn(c) ==
    /\ up /\ job[c] = "hook" /\ stage[c] \in {"installed", "refused"}
    /\ Answer(c, stage[c] = "installed")
    /\ reloads' = IF stage[c] = "installed" THEN reloads + 1 ELSE reloads
    /\ UNCHANGED <<zone, rest>>

-----------------------------------------------------------------------------
(* The DNS listeners. *)

\* Every query is answered from the zone served at that moment; over UDP an
\* answer that does not fit is truncated.  A closed port says so.
handle_request(c) ==
    /\ job[c] = "queued" /\ Head(todo[c]) \in DNS
    /\ IF Head(todo[c]) \in bound
       THEN /\ job' = [job EXCEPT ![c] = "replied"]
            /\ reply' = [reply EXCEPT ![c] =
                           [ok |-> served \notin Missing, version |-> served,
                            tc |-> Head(todo[c]) = "udp" /\ served \in Large]]
       ELSE job' = [job EXCEPT ![c] = "reset"] /\ UNCHANGED reply
    /\ UNCHANGED <<zone, reloads, rest>>

\* A datagram is lost on its way there or back.
Lose(c) ==
    /\ job[c] \in {"queued", "replied"} /\ waiting[c] /\ Head(todo[c]) = "udp"
    /\ job' = [job EXCEPT ![c] = "none"]
    /\ UNCHANGED <<zone, reloads, reply, rest>>

-----------------------------------------------------------------------------
(* The clients. *)

server == <<process, zone, reloads>>

\* One exchange is over: what comes next, and the exit code if nothing does.
Learn(c, a) ==
    LET results == With(got[c], Head(todo[c]), a)
        next == NextExchanges(c, a)
    IN /\ got' = [got EXCEPT ![c] = results]
       /\ waiting' = [waiting EXCEPT ![c] = FALSE]
       /\ todo' = [todo EXCEPT ![c] = next]
       /\ exit' = [exit EXCEPT ![c] =
                     IF next # <<>> THEN "running"
                     ELSE IF Verdict(kind(c), results) THEN "ok" ELSE "fail"]
       /\ reply' = [reply EXCEPT ![c] = Nothing]
       /\ since' = [since EXCEPT ![c] = 0]
       /\ floor' = [floor EXCEPT ![c] = Starting]
       /\ UNCHANGED <<setup, edited>>

\* The edit of `record add': the file is replaced, or has the record already,
\* and the reload follows either way; an error ends the command.
Edit(c) ==
    /\ exit[c] = "running" /\ Head(todo[c]) = "edit"
    /\ \/ /\ file' \in {file} \cup {n \in {file + 1} : n <= setup.edits}
          /\ edited' = [edited EXCEPT ![c] = file']
          /\ todo' = [todo EXCEPT ![c] = Tail(@)]
          /\ UNCHANGED exit
       \/ /\ exit' = [exit EXCEPT ![c] = "fail"]
          /\ todo' = [todo EXCEPT ![c] = <<>>]
          /\ UNCHANGED <<file, edited>>
    /\ UNCHANGED <<process, served, stage, saw, reloads, setup, waiting, job,
                   reply, got, since, seen, floor>>

\* Connect and send.  TCP to a closed port fails at once; a datagram does
\* not.
Send(c) ==
    /\ exit[c] = "running" /\ ~waiting[c] /\ Head(todo[c]) # "edit"
    /\ LET port == IF Head(todo[c]) \in Http THEN "admin" ELSE Head(todo[c]) IN
       IF port = "udp" \/ port \in bound
       THEN /\ waiting' = [waiting EXCEPT ![c] = TRUE]
            /\ job' = [job EXCEPT ![c] = "queued"]
            /\ since' = [since EXCEPT ![c] = IF port \in DNS THEN served ELSE 0]
            /\ floor' = [floor EXCEPT ![c] = seen]
            /\ UNCHANGED <<setup, todo, reply, got, exit, edited, seen>>
       ELSE Learn(c, Failed) /\ UNCHANGED <<job, seen>>
    /\ UNCHANGED server

\* The whole answer is read and parsed.
Receive(c) ==
    /\ waiting[c] /\ job[c] = "replied"
    /\ LET r == reply[c] IN
       /\ Learn(c, [heard |-> TRUE, ok |-> r.ok, tc |-> r.tc,
                   version |-> r.version, since |-> since[c]])
       /\ seen' = IF Head(todo[c]) \in Http /\ r.from = starts /\ r.body > seen
                  THEN r.body ELSE seen
    /\ job' = [job EXCEPT ![c] = "none"]
    /\ UNCHANGED server

\* The connection was cut, or the port is closed.
Cut(c) ==
    /\ waiting[c] /\ job[c] = "reset"
    /\ Learn(c, Failed) /\ UNCHANGED seen
    /\ job' = [job EXCEPT ![c] = "none"]
    /\ UNCHANGED server

\* Mutant of Timeout: the client waits as long as it takes.
NoTimeout(c) == FALSE /\ UNCHANGED vars

\* DEFAULT_TIMEOUT passes.  The server drops the handler of a connection
\* that is gone, and with it the count; the hook it has started runs on, and
\* a POST it has not come to yet may still start one.
Timeout(c) ==
    /\ waiting[c]
    /\ Learn(c, Failed) /\ UNCHANGED seen
    /\ job' = [job EXCEPT ![c] =
                  CASE @ = "hook" -> "unheard"
                    [] @ \in {"queued", "stamped"} /\ Head(todo[c]) = "reload" -> "orphan"
                    [] OTHER -> "none"]
    /\ UNCHANGED server

Client(c) == Edit(c) \/ Send(c) \/ Receive(c) \/ Cut(c) \/ Timeout(c)

Serve(c) ==
    \/ phase_header(c) \/ Get(c) \/ ReloadGate(c) \/ Hook(c)
    \/ Orphan(c) \/ HookReturn(c) \/ handle_request(c) \/ Lose(c)

Process ==
    \/ Bind \/ Spawn \/ Ready \/ Signal \/ Advance \/ CloseDns \/ Joined \/ CloseAdmin
    \/ Exit \/ Restart \/ EditFile

Next == Process \/ \E c \in Clients : Client(c) \/ Serve(c)

Spec == Init /\ [][Next]_vars

\* A command is scheduled and its timer runs out; nothing obliges a server to
\* start, to answer or to stop.
FairSpec == Spec /\ \A c \in Clients : WF_vars(Client(c))

-----------------------------------------------------------------------------
(* Properties. *)

\* `record add --reload' that exits 0 has put its edit on the air: what is
\* served is the file as that edit left it or a later one, whatever other
\* edits, reloads, timeouts, drains and restarts went on.  In particular a
\* reload refused because another one is under way does not pass for a
\* success: the other may have read the older file (reload.rs:207).
EditIsServed ==
    \A c \in Clients : exit[c] = "ok" /\ kind(c) = "add" => served >= edited[c]

\* A reload that was refused in words has changed nothing: an installation
\* whose client failed is one whose client stopped waiting or was cut off.
\* AdminState.reloads never runs ahead of the installations, and an answer
\* of 200 is counted before it is sent, unless the process has gone since.
FailureIsHonest ==
    /\ \A c \in Clients :
          /\ exit[c] = "fail" /\ stage[c] = "installed" => ~got[c]["reload"].heard
          /\ exit[c] = "ok" /\ kind(c) = "reload" => stage[c] = "installed"
    /\ reloads <= Cardinality({c \in Clients : stage[c] = "installed"})
    /\ starts = 0 =>
          reloads >= Cardinality({c \in Clients : "reload" \in DOMAIN got[c]
                                                    /\ is_success(got[c]["reload"])})

\* What one process tells about its phase is true and never goes back: an
\* answer is no older than any answer that had arrived when its request was
\* sent, and its header is no later than its body (phase_header runs first).
\* A 200 from /readyz and every "serving" or "draining" were computed while
\* both DNS listeners were open, and every "closing" after both had closed.
\* Nothing follows from "stopping": main.rs:635-645 cancels the sockets and
\* joins their tasks before it enters Closing, where lifecycle.rs:41-42 says
\* of Stopping that they are still bound.
AdminTellsTheTruth ==
    \A c \in Clients :
       job[c] = "replied" /\ Head(todo[c]) \in Http /\ reply[c].from = starts =>
          /\ reply[c].body >= floor[c]
          /\ reply[c].header <= reply[c].body
          /\ (Head(todo[c]) = "readyz" /\ reply[c].ok) => reply[c].body = Serving
          /\ reply[c].body \in Serving .. Draining => DNS \subseteq reply[c].open
          /\ reply[c].body = Closing => DNS \cap reply[c].open = {}

\* `query' that exits 0 reports a whole answer, and one zone: what was being
\* served at some moment between its last send and now.
WholeAnswer ==
    \A c \in Clients :
       exit[c] = "ok" /\ kind(c) \in {"query", "query_tcp"} =>
          LET a == IF "tcp" \in DOMAIN got[c] THEN got[c]["tcp"] ELSE got[c]["udp"] IN
          ~a.tc /\ a.since <= a.version /\ a.version <= served

\* Where no token is configured this machine may reload and no other, however
\* its address is written (VEGA-016); where one is, its holders.  Nobody else
\* gets as far as the hook, and nobody at all in a process started without a
\* config file (501).  Whoever may is turned away at the gate only by such a
\* process and by one that drains.
OnlyTheAllowedReload ==
    \A c \in Clients :
       LET allowed == IF setup.token = None
                      THEN setup.client[c].ip.here
                      ELSE setup.client[c].given = setup.token
       IN /\ stage[c] # "new" => allowed /\ setup.configured
          /\ /\ job[c] = "replied" /\ Head(todo[c]) = "reload" /\ stage[c] = "new"
             /\ reply[c].body < Draining
             => ~allowed \/ ~setup.configured

\* Every command ends, whatever becomes of the server and of its datagrams.
CommandsEnd == \A c \in Clients : <>(exit[c] # "running")

-----------------------------------------------------------------------------
(* The inductive invariant. *)

Phases == Starting .. Closing

TypeOK ==
    /\ up \in BOOLEAN /\ spawned \in BOOLEAN /\ signalled \in BOOLEAN
    /\ phase \in Phases /\ seen \in Phases /\ floor \in [Clients -> Phases]
    /\ bound \subseteq DNS \cup {"admin"}
    /\ starts \in Nat /\ reloads \in Nat /\ file \in Nat /\ served \in Nat
    /\ stage \in [Clients -> {"new", "open", "looked", "installed", "refused"}]
    /\ DOMAIN saw = Clients /\ DOMAIN reply = Clients
    /\ DOMAIN todo = Clients /\ DOMAIN got = Clients
    /\ setup \in Setups
    /\ waiting \in [Clients -> BOOLEAN]
    /\ job \in [Clients -> {"none", "queued", "stamped", "hook", "unheard", "orphan",
                           "replied", "reset"}]
    /\ exit \in [Clients -> {"running", "ok", "fail"}]
    /\ edited \in [Clients -> Nat] /\ since \in [Clients -> Nat]

\* What may be left of the script of a command.
Remaining(k) ==
    CASE k = "status"      -> {<<"healthz", "readyz", "version", "metrics">>,
                               <<"readyz", "version", "metrics">>,
                               <<"version", "metrics">>, <<"metrics">>, <<>>}
      [] k = "healthcheck" -> {<<"healthz">>, <<>>}
      [] k = "reload"      -> {<<"reload">>, <<>>}
      [] k = "add"         -> {<<"edit", "reload">>, <<"reload">>, <<>>}
      [] k = "query"       -> {<<"udp">>, <<"tcp">>, <<>>}
      [] k = "query_tcp"   -> {<<"tcp">>, <<>>}

\* A command runs while something is left of its script, and the server works
\* for it, but for a reload it has given up on, only while it waits.
ScriptInv(c) ==
    /\ todo[c] \in Remaining(kind(c))
    /\ exit[c] = "running" <=> todo[c] # <<>>
    /\ waiting[c] => todo[c] # <<>> /\ Head(todo[c]) # "edit"
    /\ job[c] \notin {"none", "unheard", "orphan"} => waiting[c]
    /\ job[c] \in {"stamped", "hook"} => up /\ Head(todo[c]) \in Http
    /\ job[c] = "hook" => Head(todo[c]) = "reload"

\* The listeners are opened in order, all before the phase says Serving, stay
\* open until it says Stopping, and are closed when it says Closing.
ListenersInv ==
    /\ ~up => bound = {} /\ ~spawned
    /\ phase = Starting => bound \in {{}, {"udp"}, DNS, DNS \cup {"admin"}}
    /\ phase = Starting /\ spawned => bound = DNS \cup {"admin"}
    /\ up /\ phase \in Serving .. Draining => DNS \subseteq bound
    /\ phase = Closing => DNS \cap bound = {}
    /\ seen <= phase

\* An answer of this process says a phase it has reached, and one reached
\* after everything its client's request can have been preceded by.
PhaseInv(c) ==
    /\ floor[c] <= seen
    /\ job[c] \in {"stamped", "hook"} => reply[c].header \in Starting .. phase
    /\ job[c] = "replied" /\ Head(todo[c]) \in Http =>
          /\ reply[c].from \in 0 .. starts
          /\ reply[c].body \in Phases
          /\ reply[c].from = starts =>
                /\ reply[c].body \in floor[c] .. phase
                /\ reply[c].header \in Starting .. reply[c].body
                /\ reply[c].body \in Serving .. Draining => DNS \subseteq reply[c].open
                /\ reply[c].body = Closing => DNS \cap reply[c].open = {}
          /\ Head(todo[c]) = "readyz" /\ reply[c].ok => reply[c].body = Serving

\* One hook at a time has looked at the file and not yet installed it.
ZoneInv ==
    /\ served <= file
    /\ \A c, d \in Clients : stage[c] = "looked" /\ stage[d] = "looked" => c = d

\* What a hook has seen is between what is served and what is there, and no
\* older than its command's own edit; so is what is served once it is in.
EditInv(c) ==
    /\ edited[c] <= file
    /\ stage[c] # "new" => todo[c] \in {<<"reload">>, <<>>}
    /\ stage[c] \in {"open", "looked"} => up
    /\ stage[c] = "looked" => /\ saw[c] \in served .. file
                              /\ edited[c] <= saw[c]
    /\ stage[c] = "installed" => edited[c] <= served

\* An answer from the zone is from between its request and now.
Recent(a, now) == a.since \in 0 .. a.version /\ a.version \in 0 .. now

\* An answer over TCP is whole, and a truncated one is never the last word.
QueryInv(c) ==
    /\ since[c] <= served
    /\ job[c] = "replied" /\ Head(todo[c]) \in DNS =>
          /\ reply[c].version \in since[c] .. served
          /\ reply[c].tc => Head(todo[c]) = "udp"
    /\ \A x \in DNS \cap DOMAIN got[c] : Recent(got[c][x], served)
    /\ "udp" \in DOMAIN got[c] /\ got[c]["udp"].tc =>
          todo[c] = <<"tcp">> \/ "tcp" \in DOMAIN got[c]
    /\ "tcp" \in DOMAIN got[c] => ~got[c]["tcp"].tc
    /\ exit[c] = "ok" => Verdict(kind(c), got[c])

\* Only who may reload gets past the gate; a 200 is sent, and heard, exactly
\* when the hook has installed, and a refusal when it never will.
ReloadInv(c) ==
    /\ stage[c] # "new" => may_mutate(c) /\ setup.configured
    /\ job[c] = "replied" /\ Head(todo[c]) = "reload" =>
          /\ reply[c].ok \in BOOLEAN
          /\ reply[c].ok <=> stage[c] = "installed"
          /\ stage[c] \notin {"open", "looked"}
          /\ stage[c] = "new" /\ reply[c].body < Draining =>
                ~may_mutate(c) \/ ~setup.configured
    /\ "reload" \in DOMAIN got[c] =>
          /\ kind(c) \in {"reload", "add"} /\ todo[c] = <<>>
          /\ got[c]["reload"].ok => got[c]["reload"].heard
          /\ got[c]["reload"].heard =>
                /\ stage[c] \notin {"open", "looked"}
                /\ got[c]["reload"].ok <=> stage[c] = "installed"
          /\ exit[c] = "fail" => ~got[c]["reload"].ok
    /\ stage[c] # "new" /\ todo[c] = <<>> => "reload" \in DOMAIN got[c]
    /\ stage[c] # "new" /\ todo[c] # <<>> => job[c] \in {"hook", "replied", "reset"}
    /\ job[c] = "orphan" =>
          /\ stage[c] = "new" /\ todo[c] = <<>>
          /\ "reload" \in DOMAIN got[c] /\ ~got[c]["reload"].heard

\* A 200 to POST /reload is on its way or has arrived.
Acknowledged(c) ==
    \/ job[c] = "replied" /\ Head(todo[c]) = "reload" /\ reply[c].ok
    \/ "reload" \in DOMAIN got[c] /\ is_success(got[c]["reload"])

\* The installations whose handler has been polled again, or never will be.
TallyInv ==
    /\ reloads <= Cardinality({c \in Clients : stage[c] = "installed" /\ job[c] # "hook"})
    /\ starts = 0 => reloads >= Cardinality({c \in Clients : Acknowledged(c)})

\* The inductive invariant of Spec.
IInv ==
    /\ TypeOK /\ ListenersInv /\ ZoneInv /\ TallyInv
    /\ \A c \in Clients :
          ScriptInv(c) /\ PhaseInv(c) /\ EditInv(c) /\ QueryInv(c) /\ ReloadInv(c)
=============================================================================
