# A formal model of Vega

Vega (`src/`) is an authoritative DNS server for one zone, written in Rust on
tokio and hickory-dns. It is configured by one TOML file, can replace its zone
while it runs, limits the rate of each source prefix, shuts down in phases, and
carries its own commands to edit the file. This directory models the parts of it
that are hard to test, checks them with TLC on small instances, and proves every
safety property that the runs check with TLAPS, for every instance.

All paths below are relative to the repository; `reload.rs` stands for
`src/reload.rs` and so on.

## 1. The system

| Component | State it keeps | Operations | What is hard about it | What makes it correct |
|---|---|---|---|---|
| **Live reload** (`reload.rs`, `/reload` in `admin.rs`) | the `Mutex` over `Running`, the `ArcSwap` of the served zone, the record gauge, the success counter | `POST /reload`: gates, try_lock, resolve, origin gate, build, drain re-check, swap, gauge, apply, count | requests run concurrently on the blocking pool, the file changes under them, the build may panic, a drain may start in the middle | what is served, reported and believed is one configuration; a refusal touches nothing; never back to an older file; never another origin; every request is answered |
| **Shutdown, signals, lifecycle** (`main.rs`, `shutdown.rs`, `lifecycle.rs`) | phase, signal count and cause, three cancellation tokens, deadline, watchdog | first/again, run, quiesce, join, admin close, hard deadline, watchdog, bail-out | signals, admin failure, deadlines and stuck tasks in any order; nested time budgets | order of the tokens and phases; the window is kept; the exit code is true; the process ends |
| **Rate limiter** (`ratelimit.rs`) | one 62-bit word per slot: deficit and wrapping stamp | `check_at`: load, settle, compare-exchange | lock-free race with stale clock readings and spurious failures; the stamp wraps every 49.7 days | never more than burst + rate x time, never starved |
| **Zone build and lookup** (`zone.rs`, `canonical.rs`) | arena of nodes, cut table, referrals, occlusion report, record count | `insert_spec`, `finish` (ancestors, invariants, layout, occlusion, referrals), `resolve`, `closest_encloser` | empty non-terminals, wildcards, delegations, glue, aliases in combinations nobody configures in a test | the answer is the one RFC 1034 4.3.2 / RFC 4592 derive from the records, but for the alias of a wildcard |
| **Query handler** (`handler.rs`, `metrics.rs`) | the loaded `Active` of a query, the counters | rate limit, eight gates, built-ins, ANY, zone, the EDNS clamp, truncation, send, observe, count | a reload between two reads; a send that fails, is cut or is replaced; counters read by the shutdown | one configuration per response; counters add up; whole or truncated, and never larger than the client can take |
| **Configuration editor and its commands** (`editor.rs`, `commands/`) | the file, temporary files, the directory entry | open, list/get, add, remove, set_serial, init, atomic write | processes that overlap, die, or lose power between two system calls; every call may fail | the file is always complete; mode kept if it can be read; idempotent; only overlaps and contrary commands lose edits |
| **Admin API, clients, commands that talk to the server** (`admin.rs`, `http.rs`, `dnsclient.rs`, `healthcheck.rs`, `commands/record.rs`, `commands/inspect.rs`) | open connections, the answers collected, the exit code | `/healthz`, `/readyz`, `/version`, `/metrics`, `/reload`; `query`, `status`, `reload`, `healthcheck`, `record add --reload` | a timeout that races a late answer, lost datagrams, a server that drains, dies and restarts between two exchanges, the phase read twice | an exit code, a probe and an answer are true of the server |
| **Configuration** (`config.rs`, `cli.rs`, `main.rs`, `tomlparse.rs`) | flags, environment, files on a search path | promote the legacy environment, find and read the file, merge, validate; derive where the clients look | five tiers per key that shadow each other; files that change under the process; byte offsets in multi-byte text | the first tier that states a key wins, and keys that depend on others follow them; the existing file is found; errors point at the character |
| Metrics (`metrics.rs`) | atomics | increment, `in_flight`, render | two loads that are not one | in `Handler` and `Shutdown` |
| Value parsing (`rdata.rs`) | none | parse | a lexer that aborts on long tokens | a length gate in front of it, in `Rdata` |

How they meet: the handler *loads* what the reload *stores*; the reload reads the
file the editor *replaces*, and the drain token the shutdown *cancels*; the
shutdown reads the two counters the handler *bumps*, and waits for the blocking
pool the reload runs on; the handler asks the rate limiter before anything else. The
commands *edit* the file, ask the admin API to *reload* it, and find both through the
same configuration as the server.

## 2. The modules

| Module | Models | State and steps |
|---|---|---|
| `LiveZone` | the promise of `/reload`, with no mechanism | a request looks once, alone, and installs exactly what it saw or nothing |
| `Reload` | `reload.rs` and the handler of `/reload` | one step per access to shared state (numbered as the comments of `reload` number them): `Gate`, `DrainCheck` (0), `TryLock` (1), `Resolve` (2-4), `OriginGate` (5), `BuildZone` (6), `Recheck` (8), `Swap` (9), `SetGauge` (10), `Finish` (11-12 and the unlock), `Count`. A file is the stage at which it fails and the values it carries; `Effective` resolves the fixed keys as `merge` does, the burst after the rate and the default UDP listener after the others |
| `Shutdown` | `serve` from the bound sockets on, `Shutdown::run`, `quiesce`, `Signals`, `Lifecycle`, the watchdog, `Runtime::drop` | `now` counts ticks from the first signal; a tick passes only while the main task waits (or is wedged), so timers fire when they are due |
| `RateLimiter` | one slot and the tasks hashed to it | `Sample`, `Load`, `Admit`/`Refuse`/`Contend`, `Tick`; the clock is (laps, ms) and the slot holds only ms |
| `Zone` | the pure functions of the build and of the lookup | names are label sequences from the apex down, an ancestor is a prefix |
| `Resolver` | `DnsHandler::resolve`: built-ins, ANY, zone | operators on top of `Zone` |
| `Arena` | the three arrays `finish` fills, `rrsets_of`, `emit` and `debug_assert_invariants` | operators on what `Zone` builds: flat arrays of nodes, RRsets and rdata with half-open ranges, the sort of each node's runs by type, the binary search that reads them back |
| `Rdata` | the gate of `rdata.rs` | which values reach the parser; used by `ZoneBuild` and `Editor` |
| `ZoneBuild` | `Zone::from_config` | `insert_spec` per block, then `finish`; the file is chosen as it is read, and `read` remembers all of it. Holds the RFC reference `Expected` the lookup is compared with |
| `Encloser` | `closest_encloser`, one step per probe | `Floor`, `ProbeCeiling`, `Probe`, `Return` |
| `NameIndex` | `SuffixHashes`, `mix_label`, `build_index`, `probe` and the three lookups through it | octets, letter case and hashes of `HASH_BITS` bits; drives `Encloser`'s search with real probes (`IndexSpec`) |
| `Handler` | `handle_request` and the counters | per query: `Arrive`, `Deny`/`Admit`, `Dispatch`, `Load`, `Resolve`, `Send`, `Observe`, `Count`; `replace_zone` in between. `Send` picks from `Responses`: what was resolved, if there is room for it (`Room`: 512 octets, or the clamped offer), else the emptied response of the handler or one that the encoder cut |
| `Editor` | `ConfigEditor`, `write_atomically`, the editing commands | per process one step per system call; inodes, directory, what is on disk; `Kill`, `Writeback`, `PowerLoss`. `blind` remembers who could not stat the target |
| `Commands` | the admin API and every command that talks to the server | the process binds, spawns, is ready, drains (`Advance`), closes its sockets one by one (`CloseDns`), joins them (`Joined`), exits, restarts; per command: `Edit`, `Send`, the server's steps, `Receive`/`Cut`/`Timeout`, `Learn`; a POST whose client has given up may still start a hook (`Orphan`). A reload is a request of `LiveZone`, the specification that `Reload` implements |
| `Config` | `migrate_legacy_env`, `config_path`, `resolve`, `merge`, `position`, `query_target`, `admin_addr` | promote, find, read, merge, with other writers changing the files in between (`Change`) |
| `Reload_proof`, `Shutdown_proof`, `RateLimiter_proof`, `Editor_proof`, `Commands_proof`, `Config_proof`, `NameIndex_proof` (with `Encloser`), `Serving_proof` (`ZoneBuild` and `Handler`) | - | the theorems of section 5, about the modules they extend |
| `MC*` | - | constants for TLC |

`Zone` is extended by `Resolver`, and that by both `ZoneBuild` (the zone, its arenas
and every query against it) and `Handler` (queries interleaved with replacements).
`NameIndex` extends `Encloser`. `Reload` instantiates `LiveZone` as `Promise` and
checks `KeepsPromise`; `Commands` instantiates the same `LiveZone` as `Live` and takes
its steps as the reloads, so that what the commands are shown to tell their callers
rests on what the hook is shown, and proved, to do.

What is abstracted: the width of the hash (`NameIndex` keeps the arithmetic of
`mix_label` and narrows the word, so that collisions happen), the hash in `Zone`
itself (a probe is membership, which `NameIndex_proof` proves of the index),
letter case outside `NameIndex` (except that the origin has several spellings in
`Reload`), octet sizes (a response is its number of records, and the limits of `handler.rs` and the
payload a client offers are numbers of records), the text and the layout of the TOML document, HTTP and DNS wire
formats, log lines and the Prometheus text. In `Commands` the zone is the number of
the file it was read from.

A definition whose comment begins with "Mutant of" is a plausible wrong version
of the definition it names, used to see that each property can fail. No
specification uses it.

## 3. The runs

| Run | Question | Bounds, and why they are enough |
|---|---|---|
| `reload` | `ServedIsRunning`, `NeverOlderThanServed`, `AtMostOneLateInstall`, `FixedHalfNeverMoves` (the origin, and the drift report), the refinement `KeepsPromise`, and `EveryRequestAnswered` | 3 requests (one holds the lock, one is refused, one is unauthorised or comes after), 1 edit, one content per way to be refused, a respelt origin, a token pinned by the command line, a file that moves the listener from UDP to TCP and switches the limiter off while it states the same burst, `u32::MAX` scaled to 7; the theorems of section 5 lift the bounds |
| `shutdown` | `CancelledInOrder`, `SocketsGoOnTime` (the cause, the window and quiesce), `ExitCodeTruthful`, `ProcessEnds` | window 1, stop budget 3, quiesce cap 1, admin budget 1, grace 1: the inequality the constants of `main.rs` satisfy holds with the least slack, and each budget can be used up; 1 signal and 1 admin failure, whose `abort` is a second count; 2 queries, so that one can start and end between the two loads of `in_flight` while the other runs |
| `rate_limiter` | `AdmissionBound`, `NeverStarved` | the clock wraps at 10 ms and passes the wrap; all three bands of `band` occur; 2 tasks, 2 attempts |
| `zone` | every query against every zone: `LookupMatchesRFC`, `DelegationsAreHonoured`, `NothingSilentlyDropped` (with the verdict of `vega check`), `RRsetsAreAtomic`, `CountIsWhatIsServed`, `ArenasAreSound` | up to 4 blocks out of 13 shapes after the apex NS, and up to 3 of 19 blocks with one for each refusal, and a wildcard at the length limit; 16 query names up to five labels; 5 types |
| `encloser` | `FindsDeepest`, `IndexAnswers`, `SearchesTheTree` | hashes of 6 bits and two seeds, so that names collide; zones with asterisks and mixed case, and chains 9 and 14 deep; every query of up to 4 labels over four labels, and chains up to 15. Depths up to 127, and hashes of any width, are covered by the theorems |
| `handler` | `OneZonePerResponse`, `CountersAddUp`, `NoRecordsForTheRefused`, `WholeOrTruncated` | 2 queries, one over all 21 kinds of input, 1 replacement among three configurations; 1 record fits without EDNS, the clamp is to 1..3 records and the offers are below, inside and above it, a TCP message holds 3 |
| `editor` | `AlwaysComplete`, `TempsAccountedFor` (with the mode), `OnlyOverlapsLoseEdits`, `EditsAreIdempotent`, `SerialNeverGoesBack` | 2 processes, 1 document with a record set split over two tables and another type of the same name, 9 commands, 1 power failure, 2 temporary names, a clock that may go back, every pair of days between a command and its repetition; processes are symmetric |
| `commands` | `EditIsServed`, `FailureIsHonest`, `AdminTellsTheTruth`, `WholeAnswer`, `OnlyTheAllowedReload`, `CommandsEnd` | 2 commands in 7 pairings: two edits that reload, an edit that reloads and a query across a restart, a process without a file to reload, a peer on this machine and one that only looks like it, with and without a token, `status` and `healthcheck` across a shutdown; 3 contents, one of which does not build and one of which is truncated over UDP |
| `config` | `EffectiveWins`, `FileIsFound`, `PositionIsExact`, `ClientsFindTheServer` | 5 command lines, 3 environments, 2 legacy environments, 8 files that state every key between them, 2 search paths, 2 changes behind the process's back, texts with one- to four-byte characters and every span in and past them; `u32::MAX` scaled to 7 |
| `zone_any`, `shutdown_admin`, `editor_replace` | statements of the source that the code does not keep (section 6) | the smallest instance that shows it |

What a property says, and of which lines, is in the comment above it; a property
that is a conjunction names its parts, each with its own comment. Type invariants are
part of the inductive invariants of section 5, or follow from them, and are proved there.

**Deadlock** is not checked: every one of these systems ends (all requests
answered, the process gone, all blocks read, all commands run). That they do not
end too early is what the liveness properties are for.

**Fairness.**
`Reload!FairSpec` has weak fairness of each request's own steps: tokio's blocking
pool runs every hook and the runtime polls every handler; `try_lock` never waits,
so no stronger assumption is needed. Nothing obliges a client to call, a file to
change or a drain to start.
`Shutdown!FairSpec` has weak fairness of the main task's steps, of the second
half of `deliver` and `abort` (no await between the two writes), of the clock,
and of the watchdog, which is an OS thread. There is none for queries, admin
connections, hickory's join or a reload: any of them may hang for ever, and the
runtime may wedge at any moment.
`Commands!FairSpec` has weak fairness of each client's own steps, because every wait of
`http.rs` and of `dnsclient.rs` is under a timeout. There is none for the server, for the network or
for a restart: the commands end whatever becomes of them.

**Environment assumptions.** `RateLimiter`: no task is suspended for
`STALE_MAX_MS` between reading the clock and its last compare-exchange; the code
assumes the same when it reads a far-ahead stamp as a backwards clock.
`Editor`: nobody but the modelled processes writes or chmods the file, and the
file system journals metadata in order (a rename that reached the disk is never
undone by an older one). `Handler`: `send_response` sends the response, sends a
SERVFAIL in its place, or fails; a response over its budget loses the end of its answers and
any part of the other sections, and gets the TC bit (as `tests/integration.rs:602-621`
expects). `Commands`: an answer reaches its client once and
whole, is cut off, or is lost (datagrams only); a restarted process reads the file as
it then is. `Config`: a path may change between `is_file` and the read.

## 4. Results in words

* **Reload.** Whenever nobody holds the lock, the served zone, the built-ins, the
  gauge and `Running` belong to one file, whatever was refused, raced or
  panicked. Installations are ordered like the versions of the file they read.
  Drift is always reported against the boot configuration, key by key as `merge` resolves
  it; a key that the file states as the process has it is reported in one case only, the
  burst of a file that moves the rate too (`HonouredIsNotIgnored`). Two things the code
  leaves open are stated as what they are: a drain that starts between the second
  check and the store lets one installation through, and never two
  (`AtMostOneLateInstall`; the comment at `reload.rs:107` says never); and a
  request refused with `reload_in_progress` may have been made for a newer file
  than the winner read. The second is harmless to a caller: the refusal is a failure
  of its command, and a command that succeeds has its edit served (`EditIsServed`).
* **Shutdown.** `/reload` is closed before `/readyz` says 503, which happens
  before a DNS socket goes, and the admin listener goes last. Slow clients cannot
  turn a shutdown into an overrun: the budgets fit. It ends even if the runtime
  wedges. When the listeners die by themselves no watchdog is armed, so the
  process ends only if no reload hook is stuck (`ListenerDeathEnds` says so).
  `in_flight` is two loads, and a query that starts and ends between them can
  hide one that is running, as its comment admits; without a newcomer after the first
  load nothing is hidden (`MissesOnlyNewcomers`).
* **Rate limiter.** The bound holds across races, stale readings and the wrap.
* **Zone.** Every lookup has the kind and the answers that the RFCs derive, in every
  zone, with one departure: the CNAME of a wildcard is neither substituted nor followed
  (RFC 4592 3.3.3 has it synthesised), so that the answer is NODATA, or the aliases met
  before it. The code does so on purpose and flags it (`zone.rs:1032-1044`); `LookupAgrees`
  compares with the RFC everywhere else and says what is answered there. With a delegation inside a delegation the code refers to the inner one, where
  RFC 1034 stops at the first it meets on the way down; `ReferralsAreUsable` asks only
  that the servers be those of a delegation at or above the name. `vega check` fails exactly on the findings
  a server only warns of. An address that
  serves a *sibling* delegation is occluded unless its own cut names it, and is
  reported as such. A wildcard too long for the wire is counted and not stored.
* **Arenas and index.** Whatever was occluded, the ranges of the three arrays partition
  them and each lookup reads its own node's records. The index answers with the node
  that was asked for even when hashes collide, in any letter case, and an asterisk in
  the question is an ordinary label to the exact probe.
* **Handler.** No response is larger than what its client offered, clamped, or 512 octets
  without EDNS; TC is set exactly when something was left out, and without EDNS everything
  is. BADVERS has no series of its own in the metrics (it falls into
  `other`); the model keeps one counter per code and says nothing of the label.
* **Editor.** At any moment, and after any crash, the file is one complete
  document, with the operator's mode unless a process could not stat the file. An edit
  that was saved stays until a command names the same name, type and value, or one that
  overlapped it replaces the file, as `write_atomically` admits; `init` is no exception, since its check and its
  rename are apart.
* **Commands.** An exit code of 0 is always true. A failure is not always a refusal: a
  client that gives up after its timeout, or whose connection is reset, leaves the hook
  running, and the reload may be installed and counted afterwards; a failure *in words*
  has changed nothing. `/readyz` never says 200 while a DNS listener is closed, and
  whoever may reload is turned away only by a process that drains or has no file.
* **Configuration.** The precedence holds key by key, with the three dependencies that the
  code has (the burst on the rate, the default UDP listener on there being no other, the
  built-ins on a flag that can only switch them off), and a value that is shadowed is
  never validated. `query` reaches a socket of its own transport unless it asks a server
  without UDP over UDP. The file of an installation is found unless it was missing at some
  moment of the search.

Observed while modelling, where no run is meant to show it; the properties state what the
code does:

* `reload.rs:344-345` says that no key is reported which the file states and the process
  already honours; a file with `qps = 0` and the same burst has the burst reported, since
  `reload.rs:426-431` reads it through the limiter that is no longer there;
* a second signal counted before `again()` is first polled is part of its baseline
  (`shutdown.rs:122`) and shortens nothing, though `shutdown.rs:159` logs that it does;
* `lifecycle.rs:41-42` says of Stopping that the DNS listeners are still bound; the sockets
  are cancelled and joined (`main.rs:635-645`) before Closing is entered;
* a wildcard whose name is too long is only logged (`zone.rs:1539-1546`): `vega check`,
  which fails on occluded records, passes over it;
* `handler.rs:633-634` says that the encoder truncates without a TC bit; the test at
  `tests/integration.rs:602-621` expects the bit, and so does the model;
* `editor.rs:409-413` promises the target's mode; a failing `fs::metadata` is ignored
  (`editor.rs:528-530`) and the file gets the umask's;
* a wildcard `admin_listen` is dialled as it stands (`main.rs:327`), where `main.rs:345`
  says of a listener that it is no usable destination;
* the comment of `Lifecycle` speaks of a single load per request; the header and the
  body of `/readyz` and `/version` are two loads, so a response may carry the header of
  one phase and the body of a later one (never of an earlier one, `AdminTellsTheTruth`);
* `zone.rs:122-126` gives the arenas a cap of `u32::MAX - 1` entries because `u32::MAX` is
  the sentinel of `NodeIdx`, and `arena_offset` accepts `u32::MAX`; memory runs out first;
* `record get` ignores a trailing dot of a name (`record.rs:368`) and `record add` and
  `record delete` do not (`editor.rs:561`), so one finds a table that the other misses;
* the commands that talk to the admin API take its address from the flag, the
  environment or the default, never from the file (`main.rs:327`);
* `query` without `--tcp` asks over UDP even when the target is a TCP listener because no
  UDP one is configured (`main.rs:344`, `dnsclient.rs:113`);
* a search path that is renamed from an earlier entry to a later one during the search is
  read in one place, the other or neither;
* a response that is cut off after its status line is a success to `http.rs`, which looks
  at the status.

## 5. What is proved

TLAPS checks these for every value of the constants that satisfies the `ASSUME`s
of the modules.

**`Reload_proof`** - for any finite set of requests, any files and edits, any fixed
settings and any schedule: `TypeCorrect`, `AtomicallyServed`
(`[]ServedIsRunning`), `RefusalIsClean` (`[]RefusedTouchesNothing`: a refused request
installs and counts nothing, and the counter is the number of 200s),
`EditThenReload` (`[]NeverOlderThanServed`), `OneLateInstall`
(`[]AtMostOneLateInstall`), `FixedAtBoot` (`[]FixedHalfNeverMoves`) and the
refinement `KeepsItsPromise` (`Spec => Promise!ASpec`). They rest on
`FilesAssumption` (the boot file is one of the files and is servable; the two
sentinels are neither a file nor a request; requests are finite) and
`SettingsAssumption` (unset is no setting, the rates are among the settings, and by default
there is no TCP listener and no limiter). None of the properties is inductive by itself: `IInv` adds
who owns the Mutex (`LockOwner`), which stages of the file a request at each
position has behind it (`StagesPassed`), which of the three writes - zone, gauge,
running configuration - are still to come (`WritesInOrder`), that a request past
its read holds the newest file of all installed (`NewestIsLast`), and that at most
one request is past its last drain check once the token is cancelled
(`LastThroughTheGate`). The steps of a request fall into eight kinds
(`StepKinds`), and those that install nothing share `RefrainKeeps`.

**`RateLimiter_proof`** - `TypeCorrect`, `RateLimited` (`Spec => []AdmissionBound`)
and `StampMonotone` (`Spec => StampNeverGoesBack`), from `RateAssumption`: one query
costs no more than the capacity, the capacity refills within half a wrap, the stale
band is shorter than that, and the wrap is two guards.
`NeverStarvedHolds` (`Spec => []NeverStarved`) is about a client alone with its slot:
wherever in the wrap it starts to ask, it is admitted after the stale band and the
refill of one token (`IdleAdmits`, `RefillAdmits`). That the stale band is *strictly*
shorter than the guard is needed for it alone: were they equal, a slot in debt would be
read as stale or as refusing all the way round. The code has 60 000 ms against 2^31 ms.
`AdmissionBound` is not inductive: it speaks of the clock, and a compare-exchange
settles the debt at the stamp. The invariant `IInv` adds `BoundAtStamp` (every
milli-token handed out in the window is still owed by the slot or was refilled up
to its *stamp*) and `InstantsOrdered` (opened <= stamp <= clock, and every sample in
use is younger than `Stale`). The heart is `ChargeCovered`: whatever the band, the
deficit that is stored covers the old deficit less what the *unwrapped* time really
refilled. `ForwardElapsed` and `BackwardElapsed` say what a wrapping subtraction
reads when the sample is ahead of the stamp, and behind it by less than `Stale`.

**`NameIndex_proof`** - first the search by itself (`Encloser`, where a probe is
membership): `TypeCorrect`, `FindsTheDeepest` and `AtMostEightProbes`, for every origin,
zone depth and query of up to 127 labels. `IInv` is the comment of the loop ("`low`
exists, `high + 1` does not") together with the table `Slack` of how wide the window may
be after each probe; `SlackHalves` shows that each probe moves one entry down it. Then
the search through the hash table: `IndexSearchesTheTree`, that it makes exactly the steps
of `Encloser`, and `IndexAnswersRight` (`[]IndexAnswers`), whatever the width of the hash, the seed and
the collisions. `NamesAssumption` says that the origin comes first in the arena, that the
arena holds every ancestor of its names down to the origin, that no name is longer than
the wire allows, and that the question has been folded to lower case, as `LowerName` does.
The argument: mixing label by label gives the hash of
every suffix (`MixedAgrees`), a node is filed under the hash of its own folded name
(`FiledUnderItsHash`), and comparing octets while folding is equality of folded names
(`MatchIsEquality`); so a probe is membership (`ProbeIsMembership`), and a collision costs
a comparison and never an answer. `IndexInv` adds that a search began because the name
itself is not there.

**`Shutdown_proof`** - `CancelledInOrderHolds`, `SocketsGoOnTimeHolds` and
`ExitCodeTruthfulHolds`, for all budgets with `QuiesceCap + AdminBudget < StopBudget`
(`TimingAssumption`; in `main.rs` they are 1 s, 1 s and 5 s), any
number of signals and any finite set of queries. A poll interval and a grace of zero are
excluded, as in the code: with a zero grace the watchdog may strike in the tick of the
deadline. The properties speak of tokens and instants, and only the program counter
relates them, so `IInv` says for each position of the main task which phase (`PhaseInv`),
which tokens (`TokenInv`), which cause (`SignalInv`) and which timers (`TimerInv`) go with
it; what brought `quiesce` to its end is carried by `QuiesceInv`, what the two counters
have to do with the queries by `CountInv`, what the exit code is owed to by `ExitInv`. Steps fall into kinds (`StepKinds`), and
`DeadlineStrikesLate` is where the inequality of the budgets is used.

**`Editor_proof`** - for any set of processes, documents, commands and days, any number of
kills and power failures: `TempsAccountedForHolds`, `AlwaysCompleteHolds`,
`SerialNeverGoesBackHolds`, `EditsAreIdempotentHolds` and `OnlyOverlapsLoseEditsHolds`.
`NamesAssumption` is what `trim` and `trim_end_matches` satisfy (trimming twice is
trimming once, and trimming first does not change what the dot is taken off),
`DocumentAssumption` and `CommandAssumption` give documents and commands their shape.
`IInv` ties the content, durability and mode of each process's inode to its program
counter (`ContentInv`, `ModeInv`, which follows who wrote without having seen the mode), says that the name shows, in memory and on disk, only
an inode that was synced and renamed (`NameInv`), and follows every edit (`EffectInv`): a
document that is being written shows its own command's effect and that of every lasting
edit that was there when it was read, so renaming it loses only edits that it undoes or did
not see. That an effect survives another command's edit is a statement about `add` and
`remove` for every document: `AddIs` and `RestIs` say what they return, `AddTwice`,
`RemoveTwice` and `RunAgain` that running them again changes nothing, `AddKeeps`,
`AddLeavesGone`, `RemoveKeeps` and `StillThere` that what a command does not name, by name, type
and value, neither disappears nor comes back.

**`Serving_proof`, the zone** - for any blocks in any order and number, any names and any
questions: `BuilderKeepsBooks` (the inductive invariant `BuildInv`), `BuilderTypes`, and
the six properties of the run `zone`: `LookupsMatchTheRFCs`, `DelegationsHonoured`,
`NothingDropped`, `RRsetsAnsweredWhole`, `RecordCountIsServed` and `ArenasSound`.
`NamesAssumption` of `Zone` says that labels that differ rank differently in the canonical
order and that the two sentinels are not names; `TypesAssumption` that types have different
numbers; `BlocksAssumption` and `QuestionsAssumption` give blocks and questions their
shape. The properties speak of a zone that is served, and the zone only of what the builder
held when `finish` took it; `BuildInv` carries that across the insertions: for each owner
the runs hold the values of the accepted blocks, all of them and no others, the blocks that
were read and not accepted are wildcards without a representable name, and the count is of
both. From there each stage of
the build and of the query has its lemmas, each an induction over the loop it is about:

1. *Tree.* `TreeShape` and `TreeHolds`: `materialise_ancestors` closes the owners under
   ancestors and adds no data. `CountIsServed` follows.
2. *Canonical order.* `Precedes` is a strict total order in which a subtree is contiguous
   (`PrecedesTransitive`, `PrecedesTotal`, `Contiguous`), and the sort enumerates the tree
   in it (`OrderEnumerates`).
3. *Cuts.* Contiguity is why the pass over the sorted nodes needs only a stack of open
   delegations (`VisitStep`, `LayoutCuts`): each node gets the deepest delegation at or
   above it (`CutIsAbove`).
4. *Lookup.* The bisection returns the closest encloser (`BisectFinds`, `EncloserFound`);
   at each name `resolve` does what the declared records say (`StepAtCut`, `StepAtData`,
   `StepAtAlias`); `ChaseIsWalk` matches the bounded chase of aliases, one alias at a time,
   with a walk that stops at the alias of a wildcard (`Path`), and `LookupIsExpected` says
   what that comes to. That walk and the RFC's `Walk` are the same up to the first such alias
   (`WalkIs`, `Parting`), which gives the answer on either side of it.
5. *Delegations.* `KeptOf` says which addresses survive the occlusion, `ReferralFacts`
   what is in a referral; `OccludedIs` and `ReferredIs` that what is served at no name is
   reported. `OneTtl` gives `RRsetsAnsweredWhole`.
6. *Arenas.* The sort of a node's runs keeps each of them (`SortEnumerates`); a run, a node
   and then all nodes are placed where the one before ended (`RunIsPlaced`,
   `NodeIsPlaced`, `AllLaidOut`), so ranges partition the arrays; the binary search returns
   the partition point (`PartitionFinds`) and with it the run of the type asked for
   (`SearchFindsType`); `AssertionsHold` is `debug_assert_invariants`.

**`Serving_proof`, the handler** - for any finite set of queries, any zones, configurations
and replacements: `OneZonePerResponseHolds`, `NoRecordsForTheRefusedHolds`,
`WholeOrTruncatedHolds` and `CountersAddUpHolds`. `IInv` keeps, per query, that what was
loaded was active in the query's time (`SnapshotInv`), which gates lie behind it
(`AdmissionInv`, `ResolvedInv`) and that the wire holds one of the responses that may
leave, a SERVFAIL or nothing (`WireInv`). `HandlerAssumption` asks of the limits only that
the floor of the clamp is not above its ceiling. The counters are cardinalities of sets of queries; `OneMoreOrLess`
says how a set moves when one query does. What the zone answers is not opened here: these
theorems need only `ResolvesTo`, that it is a response, and so hold for any zone.

**`Commands_proof`** - for any finite set of commands, any scripts, shutdowns, restarts and
other writers: `EditIsServedHolds`, `FailureIsHonestHolds`, `AdminTellsTheTruthHolds`,
`WholeAnswerHolds` and `OnlyTheAllowedReloadHolds`. `CommandsAssumption` says that the
scripts are those of the six commands and that the addresses are of the modelled forms. The
heart of `EditIsServed` is `EditInv`: the file a hook has looked at is no older than its
command's own edit and no older than what is served, and nobody else has looked
(`ZoneInv`), so what is served never falls behind an edit that was installed; `ZoneInv`
follows from the steps of `LiveZone`, which `Reload` is proved to implement. `TallyInv`
bounds the counter by the hooks that installed.

**`Config_proof`** - for any command lines, environments, files, defaults and changes
behind the process's back: `EffectiveWinsHolds`, `FileIsFoundHolds`,
`ClientsFindTheServerHolds` and `PositionIsExactHolds`. `LimitsAssumption`,
`PathsAssumption` and `TiersAssumption` are what clap, serde and the constants of
`config.rs` guarantee: the paths of the search differ, a listener key that is given on the
command line or in the environment has an address, the defaults have one UDP listener and
a TTL that is not zero. `SearchInv` is what the search needs: every path it has passed was
without a file at some moment. `Merged` says what `merge` returns key by key.
`PositionIsExact` holds for every text: `WalkCounts` is an induction over its characters.

**Induction over data.** The induction rules of the library take a predicate as a
parameter, which the installed provers cannot instantiate. `NatSetInduction` takes a *set*
of numbers in its place (a set that holds 0 and with every number the next one holds them
all), from `WFMin` and `NatLessThanWellFounded`; `Recursion` derives from it that a
function defined by recursion on its argument exists and satisfies its equation. That is
what `Without` in `Editor` and `position` in `Config` are proved with. The loops of the zone
and of the index are tables, one entry per iteration: a table of any length exists
(`PassesExist`, `NarrowsExist`, `ResolvesExist`, `HalvesExist`, `NodesLaidExist` and the like), and
what the loop keeps is an induction along it. `Editor_proof`, `Config_proof`, `NameIndex_proof`
and `Serving_proof` each state `NatSetInduction`, since their modules cannot be extended
together.

**Only model-checked:** `ProcessEnds`, `CommandsEnd` and `EveryRequestAnswered`, since
liveness under fairness is outside what TLAPS 1.4.5 proves, and the three violations of
section 6, which are counterexamples.

## 6. Where the source says otherwise

* `zone_any` - **ANY and a name below a delegation.** For a name that does not
  exist below a cut, `zone.exists` is false and ANY answers an authoritative
  NXDOMAIN, while every other type is referred. `handler.rs:285` says it gets "the
  same existence determination every other QTYPE gets".
* `shutdown_admin` - **an admin server that dies in the drain.** `Signals::abort` adds to
  the count that `again()` waits for, so the failure ends the window of a SIGTERM at once.
  `features/shutdown.feature:341-349` (marked a gap, since no test can reach it) says that
  "the DNS listeners keep answering until the drain window elapses".
* `editor_replace` - **`record add --replace`.** Only the first table of the name
  and type is rewritten; a file that splits a record set over several tables keeps,
  and serves, the other values. `cli.rs:166` says "Overwrite the existing values".

## 7. Not modelled

Output: `ui.rs`, the tables, colours and JSON layout of the commands, the Prometheus text
and the latency buckets behind `/metrics`, the tracing set-up. Grammars: the presentation
formats of record values (hickory) and TOML itself (toml_edit); the models see whether a
text parses and, for an error, where. HTTP header parsing and DNS encoding, abstracted to
their outcome. The hash that picks a rate limiter slot (slots are independent) and its
occupancy gauge. Signal handlers that cannot be installed. `testutil.rs` and the tests.

## 8. Plan

Done: all components of section 1 are modelled, and every safety property that a run checks
is proved. What could follow:

1. `Handler` over the zones that `ZoneBuild` builds, so that `LookupMatchesRFC` speaks of
   what is on the wire; both are theorems about the same `resolve`, of a zone that is
   arbitrary in one and built in the other.
2. `Reload` over the merge of `Config` in place of its own `Effective`.
3. The liveness properties, with a prover that has fairness and ENABLED.
