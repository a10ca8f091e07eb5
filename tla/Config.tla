------------------------------- MODULE Config -------------------------------
(***************************************************************************)
(* How a `vega' process comes by its configuration: the renamed            *)
(* environment variables (main.rs), the search for a file (cli.rs), the    *)
(* parse and what it reports (tomlparse.rs), and the merge of command      *)
(* line, environment, file and defaults (config.rs), while other programs  *)
(* write, replace and remove the files it looks for; and the addresses    *)
(* that the client commands then take from the same settings (main.rs).    *)
(*                                                                         *)
(* A tier is a partial function from keys to values: a key that is not     *)
(* stated is not in its domain.  Listener keys hold sequences of addresses *)
(* [ip, port]; the others hold numbers or names.                           *)
(***************************************************************************)
EXTENDS Integers, Sequences, SequencesExt, FiniteSetsExt

CONSTANTS
    Keys,         \* the settings
    RENAMED_ENV,  \* the keys whose variable had another name before
    SearchPath,   \* CONFIG_SEARCH_PATH, first entry first
    Invocations,  \* [args, env, legacy, config]: three tiers and --config
    Disks,        \* what the paths may hold when the process starts
    Contents,     \* what a writer may put there
    MaxChanges,   \* bound on the changes other programs make
    MaxU32,       \* u32::MAX
    MaxDrain,     \* MAX_SHUTDOWN_DRAIN
    Defaults,     \* [keys with a default -> value]
    ClientAdmin,  \* DEFAULT_ADMIN_ADDR
    Unset         \* no --config, no file

\* What a tier may state: lists of addresses, numbers of 32 bits, times, and
\* a drain, which in a file may be negative.
IsTier(t) ==
    /\ DOMAIN t \subseteq Keys
    /\ \A k \in {"udp", "tcp"} : k \in DOMAIN t => t[k] \in Seq(ToSet(t[k]))
    /\ \A k \in {"qps", "burst"} : k \in DOMAIN t => t[k] \in 0 .. MaxU32
    /\ \A k \in {"ttl", "timeout"} : k \in DOMAIN t => t[k] \in Nat
    /\ "drain" \in DOMAIN t => t["drain"] \in Int
    /\ \A k \in {"builtins", "no_builtins"} : k \in DOMAIN t => t[k] \in BOOLEAN

\* The keys whose value is taken from one tier as it is.
Plain ==
    {"origin", "ttl", "builtins", "timeout", "drain", "admin", "log_format",
     "log_level", "admin_token"}

\* A path holds nothing, or a file that cannot be read, that does not parse,
\* or that states a tier.
Absent == [is |-> "absent"]

IsContent(c) ==
    /\ c.is = "good" => IsTier(c.tier)
    /\ c.is = "broken" => /\ c.text \in Seq(ToSet(c.text))
                          /\ c.span = Unset \/ c.span \in Nat

ASSUME LimitsAssumption ==
    /\ RENAMED_ENV \subseteq Keys
    /\ {MaxChanges, MaxU32, MaxDrain} \subseteq Nat

\* No path is listed twice, and each may or may not hold a file.
ASSUME PathsAssumption ==
    /\ SearchPath \in Seq(ToSet(SearchPath)) /\ Unset \notin ToSet(SearchPath)
    /\ \A i, j \in DOMAIN SearchPath : SearchPath[i] = SearchPath[j] => i = j
    /\ \A d \in Disks :
          /\ ToSet(SearchPath) \subseteq DOMAIN d
          /\ \A c \in Invocations : c.config = Unset \/ c.config \in DOMAIN d
          /\ \A p \in DOMAIN d : IsContent(d[p])
    /\ \A c \in Contents : IsContent(c)

\* A listener flag or variable that is given has a value, and neither the
\* default TTL nor `builtins' has one; the defaults are complete and valid.
ASSUME TiersAssumption ==
    /\ \A c \in Invocations : \A t \in {c.args, c.env, c.legacy} :
          /\ IsTier(t) /\ DOMAIN t \cap {"ttl", "builtins"} = {}
          /\ \A k \in {"udp", "tcp"} : k \in DOMAIN t => t[k] # <<>>
    /\ IsTier(Defaults)
    /\ {"udp", "qps"} \cup Plain \subseteq DOMAIN Defaults
    /\ Len(Defaults["udp"]) = 1 /\ Defaults["ttl"] > 0

VARIABLES
    files,    \* the paths and what they hold
    changes,  \* how often that has changed
    call,     \* how the process was started: fixed
    pc,
    next,     \* index into the search path
    env,      \* the environment, once migrated
    cli,      \* GlobalArgs: command line over environment
    path,     \* the file to operate on, or Unset
    file,     \* FileConfig: the tier of the file
    config,   \* the resolved configuration
    error,    \* LoadError.stage, with the position of a parse error
    existed   \* history: the paths that have held a file all along

process == <<pc, next, env, cli, path, file, config, error>>
vars == <<files, changes, call, process, existed>>

-----------------------------------------------------------------------------
(* tomlparse.rs: where a parse stopped.  A text is a sequence of            *)
(* characters: "n" is a newline, and some take more than one byte.          *)

width(ch) == CASE ch = "e" -> 2 [] ch = "u" -> 3 [] ch = "g" -> 4 [] OTHER -> 1

\* The byte offset at which the character after the first k begins.
Offset(text, k) ==
    LET bytes[i \in 0 .. Len(text)] ==
            IF i = 0 THEN 0 ELSE bytes[i - 1] + width(text[i])
    IN bytes[k]

\* Mutant of position: columns count bytes.
PositionInBytes(text, offset) ==
    LET head == Max({k \in 0 .. Len(text) : Offset(text, k) <= offset})
        newlines == {k \in 1 .. head : text[k] = "n"}
        line_start == IF newlines = {} THEN 0 ELSE Max(newlines)
    IN [line |-> Cardinality(newlines) + 1,
        column |-> Offset(text, head) - Offset(text, line_start) + 1]

\* A byte offset as a one-based line and column: clamped to the text, floored
\* to the beginning of a character, columns in characters.
position(text, offset) ==
    LET head == Max({k \in 0 .. Len(text) : Offset(text, k) <= offset})
        newlines == {k \in 1 .. head : text[k] = "n"}
        line_start == IF newlines = {} THEN 0 ELSE Max(newlines)
    IN [line |-> Cardinality({k \in newlines : k <= line_start}) + 1,
        column |-> head - line_start + 1]

\* ParseError: a position, when there is one, and nothing of the text.
ParseError(content) ==
    IF content.span = Unset THEN [stage |-> "parse"]
    ELSE [stage |-> "parse", at |-> position(content.text, content.span)]

-----------------------------------------------------------------------------
(* config.rs: the merge. *)

\* Option::or of the first two tiers, then the default.
Or(over, under, k) ==
    IF k \in DOMAIN over THEN over[k]
    ELSE IF k \in DOMAIN under THEN under[k]
    ELSE Defaults[k]

Addrs(tier, k) == IF k \in DOMAIN tier THEN tier[k] ELSE <<>>

pick_addrs(over, under) == IF over = <<>> THEN under ELSE over

\* A DNS server with no listener is a no-op.
Udp(over, under) ==
    LET udp == pick_addrs(Addrs(over, "udp"), Addrs(under, "udp"))
        tcp == pick_addrs(Addrs(over, "tcp"), Addrs(under, "tcp"))
    IN IF udp = <<>> /\ tcp = <<>> THEN Defaults["udp"] ELSE udp

reject_duplicates(addrs) == Cardinality(ToSet(addrs)) < Len(addrs)

\* The value, or -1 for a refusal.  The command line cannot be negative.
shutdown_drain(over, under) ==
    LET secs == Or(over, under, "drain") IN
    IF secs \in 0 .. MaxDrain THEN secs ELSE -1

saturating_double(n) == IF 2 * n > MaxU32 THEN MaxU32 ELSE 2 * n

\* The limiter, or <<>> for none.  A burst without a rate means nothing.
rate_limit(over, under) ==
    LET qps == Or(over, under, "qps")
        burst == IF "burst" \in DOMAIN over \cup DOMAIN under
                 THEN Or(over, under, "burst") ELSE saturating_double(qps)
    IN IF qps = 0 THEN <<>> ELSE <<qps, burst>>

\* --no-builtins can only switch them off: VEGA_NO_BUILTINS=false leaves the
\* choice to the file.
Builtins(over, under) ==
    IF "no_builtins" \in DOMAIN over /\ over["no_builtins"] THEN FALSE
    ELSE Or(<<>>, under, "builtins")

\* Config::merge: a configuration, or what is wrong with it.
merge(over, under) ==
    LET c == [udp |-> Udp(over, under),
              tcp |-> pick_addrs(Addrs(over, "tcp"), Addrs(under, "tcp")),
              origin |-> Or(over, under, "origin"),
              ttl |-> IF "ttl" \in DOMAIN under THEN under["ttl"] ELSE Defaults["ttl"],
              builtins |-> Builtins(over, under),
              timeout |-> Or(over, under, "timeout"),
              drain |-> shutdown_drain(over, under),
              admin |-> Or(over, under, "admin"),
              rate_limit |-> rate_limit(over, under),
              log_format |-> Or(over, under, "log_format"),
              log_level |-> Or(over, under, "log_level"),
              admin_token |-> Or(over, under, "admin_token")]
    IN [config |-> c,
        invalid |-> \/ reject_duplicates(c.udp) \/ reject_duplicates(c.tcp)
                    \/ c.origin = "" \/ c.ttl = 0 \/ c.timeout = 0 \/ c.drain = -1
                    \/ c.rate_limit # <<>> /\ c.rate_limit[2] = 0]

-----------------------------------------------------------------------------
(* The start of a process. *)

Init ==
    /\ files \in Disks /\ changes = 0
    /\ call \in Invocations
    /\ pc = "migrate" /\ next = 1
    /\ env = call.env
    /\ cli = <<>> /\ path = Unset /\ file = <<>> /\ config = <<>>
    /\ error = [stage |-> "none"]
    /\ existed = {p \in DOMAIN files : files[p] # Absent}

others == <<files, changes, call, existed>>

\* Mutant of promoted: the old name wins.
OldWins(new, old) ==
    [k \in DOMAIN new \cup (DOMAIN old \cap RENAMED_ENV) |->
        IF k \in DOMAIN old \cap RENAMED_ENV THEN old[k] ELSE new[k]]

\* The environment once every old name of RENAMED_ENV is promoted to the new
\* one, unless that is set.
promoted(new, old) ==
    [k \in DOMAIN new \cup (DOMAIN old \cap RENAMED_ENV) |->
        IF k \in DOMAIN new THEN new[k] ELSE old[k]]

migrate_legacy_env ==
    /\ pc = "migrate"
    /\ env' = promoted(env, call.legacy)
    /\ pc' = "parse"
    /\ UNCHANGED <<next, cli, path, file, config, error, others>>

\* Cli::parse: a flag, or else the variable that stands for it.
Parse ==
    /\ pc = "parse"
    /\ cli' = [k \in DOMAIN call.args \cup DOMAIN env |->
                  IF k \in DOMAIN call.args THEN call.args[k] ELSE env[k]]
    /\ IF call.config = Unset
       THEN pc' = "search" /\ UNCHANGED path
       ELSE pc' = "read" /\ path' = call.config
    /\ UNCHANGED <<next, env, file, config, error, others>>

\* Mutant of config_path: it stops at the first half of the list.
NoFallback ==
    /\ pc = "search"
    /\ \/ /\ next <= Len(SearchPath) \div 2 /\ files[SearchPath[next]] # Absent
          /\ path' = SearchPath[next] /\ pc' = "read" /\ UNCHANGED next
       \/ /\ next <= Len(SearchPath) \div 2 /\ files[SearchPath[next]] = Absent
          /\ next' = next + 1 /\ UNCHANGED <<path, pc>>
       \/ /\ next > Len(SearchPath) \div 2
          /\ pc' = "merge" /\ UNCHANGED <<next, path>>
    /\ UNCHANGED <<env, cli, file, config, error, others>>

\* Cli::config_path: one is_file at a time, the first that is there.
config_path ==
    /\ pc = "search"
    /\ \/ /\ next <= Len(SearchPath) /\ files[SearchPath[next]] # Absent
          /\ path' = SearchPath[next] /\ pc' = "read" /\ UNCHANGED next
       \/ /\ next <= Len(SearchPath) /\ files[SearchPath[next]] = Absent
          /\ next' = next + 1 /\ UNCHANGED <<path, pc>>
       \/ /\ next > Len(SearchPath)
          /\ pc' = "merge" /\ UNCHANGED <<next, path>>
    /\ UNCHANGED <<env, cli, file, config, error, others>>

Fail(e) == pc' = "failed" /\ error' = e /\ UNCHANGED <<file, config>>

\* Config::read_file: what is there by now.
read_file ==
    /\ pc = "read"
    /\ LET content == files[path] IN
       \/ content.is \in {"absent", "unreadable"} /\ Fail([stage |-> "read"])
       \/ content.is = "broken" /\ Fail(ParseError(content))
       \/ /\ content.is = "good"
          /\ file' = content.tier
          /\ pc' = "merge"
          /\ UNCHANGED <<config, error>>
    /\ UNCHANGED <<next, env, cli, path, others>>

resolve ==
    /\ pc = "merge"
    /\ LET merged == merge(cli, file) IN
       \/ merged.invalid /\ Fail([stage |-> "validate"])
       \/ ~merged.invalid /\ config' = merged.config /\ pc' = "running"
          /\ UNCHANGED <<file, error>>
    /\ UNCHANGED <<next, env, cli, path, others>>

\* Another program replaces a file by renaming over it, creates one, or
\* removes it.
Change ==
    /\ changes < MaxChanges /\ pc \notin {"running", "failed"}
    /\ \E p \in DOMAIN files, c \in Contents \cup {Absent} :
          /\ c # files[p]
          /\ files' = [files EXCEPT ![p] = c]
          /\ existed' = IF c = Absent THEN existed \ {p} ELSE existed
    /\ changes' = changes + 1
    /\ UNCHANGED <<call, process>>

Next == migrate_legacy_env \/ Parse \/ config_path \/ read_file \/ resolve \/ Change

Spec == Init /\ [][Next]_vars

-----------------------------------------------------------------------------
(* main.rs: where a client looks for the server. *)

Wildcard == {"0.0.0.0", "::"}

\* Where `status', `reload' and `healthcheck' knock: they read no file.
admin_addr(global) == IF "admin" \in DOMAIN global THEN global["admin"] ELSE ClientAdmin

\* Mutant of query_target: a wildcard is taken for a destination.
TargetAsBound(c) == IF c.udp # <<>> THEN c.udp[1] ELSE c.tcp[1]

\* `query' without --server, with the configuration that was loaded: the
\* first UDP listener, or else the first TCP one.
query_target(c) ==
    LET addr == IF c.udp # <<>> THEN c.udp[1] ELSE c.tcp[1] IN
    IF addr.ip \in Wildcard THEN [ip |-> "127.0.0.1", port |-> addr.port] ELSE addr

\* dnsclient::query: the sockets of the server its question can reach, which
\* goes out over UDP unless --tcp says otherwise.
Asked(c, force_tcp) == IF force_tcp THEN c.tcp ELSE c.udp

-----------------------------------------------------------------------------
(* Properties. *)

Tiers ==
    <<call.args, call.env,
      [k \in DOMAIN call.legacy \cap RENAMED_ENV |-> call.legacy[k]], file, Defaults>>

States(tier, k) == k \in DOMAIN tier /\ (k \in {"udp", "tcp"} => tier[k] # <<>>)

\* Somebody other than the defaults states a key.
Stated(k) == \E i \in 1 .. 4 : States(Tiers[i], k)

\* A flag or a variable, and not the file, states a key.
StatedToAll(k) == \E i \in 1 .. 3 : States(Tiers[i], k)

\* The value of a key in the first tier that states it.
Effective(k) == Tiers[Min({i \in 1 .. 5 : States(Tiers[i], k)})][k]

Valid ==
    /\ \A k \in {"udp", "tcp"} :
          Stated(k) =>
             \A i, j \in DOMAIN Effective(k) : Effective(k)[i] = Effective(k)[j] => i = j
    /\ Effective("origin") # "" /\ Effective("timeout") > 0
    /\ ("ttl" \in DOMAIN file => file["ttl"] > 0)
    /\ Effective("drain") \in 0 .. MaxDrain
    /\ Effective("qps") > 0 /\ Stated("burst") => Effective("burst") > 0

\* "CLI flag beats environment variable beats file beats built-in default"
\* (config.rs:4), with the old name of a variable below the new one
\* (main.rs:100), for every key by itself: a process runs with exactly the
\* first value stated, and is refused if and only if one of those values is
\* out of range; what they shadow is never looked at.  Three keys depend on
\* another: a default UDP listener comes only where nobody states any
\* listener (config.rs:477), a burst counts only beside a rate and is twice
\* the rate where nobody states one (config.rs:520-532), and no_builtins
\* switches the built-ins off and never on (config.rs:501).
EffectiveWins ==
    /\ pc = "running" =>
          /\ Valid
          /\ \A k \in Plain \ {"builtins"} : config[k] = Effective(k)
          /\ config.builtins =
                IF StatedToAll("no_builtins") /\ Effective("no_builtins")
                THEN FALSE ELSE Effective("builtins")
          /\ config.tcp = IF Stated("tcp") THEN Effective("tcp") ELSE <<>>
          /\ config.udp = IF Stated("udp") THEN Effective("udp")
                          ELSE IF Stated("tcp") THEN <<>> ELSE Defaults["udp"]
          /\ config.rate_limit =
                IF Effective("qps") = 0 THEN <<>>
                ELSE <<Effective("qps"),
                       IF Stated("burst") THEN Effective("burst")
                       ELSE saturating_double(Effective("qps"))>>
    /\ error.stage = "validate" => ~Valid

\* "An upgrade in place does not start serving built-in defaults against an
\* existing installation" (cli.rs:16): a process goes without a file only if
\* none of the paths has kept one throughout, and never passes over a path
\* that has, whatever is written, replaced and removed meanwhile.
FileIsFound ==
    LET kept == {i \in DOMAIN SearchPath : SearchPath[i] \in existed}
        chosen == {i \in DOMAIN SearchPath : SearchPath[i] = path}
    IN call.config = Unset /\ pc \in {"read", "merge", "running", "failed"} =>
          /\ path = Unset => kept = {}
          /\ \A i \in chosen, k \in kept : i <= k

\* The line and column after the first k characters, one at a time.
Walk(text, k) ==
    LET at[i \in 0 .. Len(text)] ==
            IF i = 0 THEN [line |-> 1, column |-> 1]
            ELSE IF text[i] = "n" THEN [line |-> at[i - 1].line + 1, column |-> 1]
            ELSE [at[i - 1] EXCEPT !.column = @ + 1]
    IN at[k]

\* A parse error names the character the parser stopped at, in lines and
\* columns an editor counts the same way, whatever the widths of the
\* characters before it, and the end of the text for a span past it.
PositionIsExact ==
    error.stage = "parse" /\ "at" \in DOMAIN error =>
       LET c == files[path] IN
       \E k \in 0 .. Len(c.text) :
          /\ error.at = Walk(c.text, k)
          /\ Offset(c.text, k) <= c.span
          /\ k < Len(c.text) => c.span < Offset(c.text, k + 1)

\* Clients started like the server find it.  `query' sends its question to
\* an address, never a wildcard, at which a UDP socket of the server listens
\* if it has any; with --tcp, to one of its TCP sockets if it has no other,
\* and where TCP listens at every UDP address, so it is for --tcp and for
\* the retry of a truncated answer.  The admin commands knock where the
\* server listens, if a flag or a variable says where and it is not a
\* wildcard.  Left out, because the code does not see to it: plain `query' to
\* a server with TCP listeners only, which sends a datagram to a TCP address
\* (main.rs:344, dnsclient.rs:113); admin_listen from the file alone; and a
\* wildcard admin_listen, which is dialled as it stands (main.rs:327), where
\* main.rs:345 says of query's that it is no usable destination.
ClientsFindTheServer ==
    pc = "running" =>
       LET target == query_target(config)
           heard(force_tcp) ==
              \E a \in ToSet(Asked(config, force_tcp)) :
                 a = target \/ (a.ip \in Wildcard /\ a.port = target.port
                                /\ target.ip = "127.0.0.1")
       IN /\ target.ip \notin Wildcard
          /\ config.udp # <<>> => heard(FALSE)
          /\ ToSet(config.udp) \subseteq ToSet(config.tcp) => heard(TRUE)
          /\ StatedToAll("admin") /\ config.admin.ip \notin Wildcard =>
                admin_addr(cli) = config.admin

-----------------------------------------------------------------------------
(***************************************************************************)
(* The inductive invariant behind EffectiveWins, FileIsFound,              *)
(* PositionIsExact and ClientsFindTheServer.                               *)
(***************************************************************************)

\* The command line over the migrated environment, as the call fixes it.
Given ==
    LET e == promoted(call.env, call.legacy) IN
    [k \in DOMAIN call.args \cup DOMAIN e |->
        IF k \in DOMAIN call.args THEN call.args[k] ELSE e[k]]

TiersInv ==
    /\ call \in Invocations
    /\ env = IF pc = "migrate" THEN call.env ELSE promoted(call.env, call.legacy)
    /\ pc \notin {"migrate", "parse"} => cli = Given
    /\ IsTier(file)

DiskInv ==
    /\ ToSet(SearchPath) \subseteq DOMAIN files
    /\ call.config = Unset \/ call.config \in DOMAIN files
    /\ \A p \in DOMAIN files : IsContent(files[p])
    /\ \A p \in existed : p \in DOMAIN files /\ files[p] # Absent

\* Every path passed over has been without a file at some time.
SearchInv ==
    /\ next \in 1 .. Len(SearchPath) + 1
    /\ \A i \in 1 .. next - 1 : SearchPath[i] \notin existed
    /\ pc \in {"migrate", "parse", "search"} => path = Unset
    /\ pc = "search" => call.config = Unset
    /\ pc = "read" => path # Unset
    /\ pc \notin {"migrate", "parse", "search"} =>
          path = IF call.config # Unset THEN call.config
                 ELSE IF next <= Len(SearchPath) THEN SearchPath[next] ELSE Unset

OutcomeInv ==
    /\ pc # "failed" => error.stage = "none"
    /\ pc = "running" => ~merge(cli, file).invalid /\ config = merge(cli, file).config
    /\ error.stage = "validate" => merge(cli, file).invalid
    /\ error.stage = "parse" =>
          /\ path \in DOMAIN files /\ files[path].is = "broken"
          /\ error = ParseError(files[path])

\* What a process holds at each stage is what the call and the files it has
\* looked at determine.
IInv == TiersInv /\ DiskInv /\ SearchInv /\ OutcomeInv
=============================================================================
