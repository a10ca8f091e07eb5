------------------------------- MODULE Editor -------------------------------
(***************************************************************************)
(* The commands that edit the configuration file (src/commands/record.rs,  *)
(* src/commands/zone.rs) and the editor under them (src/editor.rs): any    *)
(* number of processes, each of which reads the file, edits the document,  *)
(* and replaces the file through a temporary one.                          *)
(*                                                                         *)
(* The file system (external) is inodes, each with its contents, its mode  *)
(* and whether it has been synced, and a directory, with what it shows and *)
(* what of it is on disk.  A process may be killed and the power may fail  *)
(* between any two system calls, and every call may fail.                  *)
(***************************************************************************)
EXTENDS Integers, SequencesExt, Rdata

CONSTANTS
    Editors,             \* the processes; each also names the inode it creates
    Original,            \* the inode of the file that was there before
    Commands,            \* what a process may be asked to do
    Documents,           \* the documents the file may start as
    Starter,             \* the document `vega init' writes
    TrimmedName,         \* [names as written -> trimmed and in lower case, @ for none]
    UndottedName,        \* the same without the dots at the end
    Days,                \* the days since the epoch the clock may show
    TEMP_NAME_ATTEMPTS,
    MaxLosses,           \* bound on power failures
    Unset, None

ASSUME EditorAssumption ==
    /\ Original \notin Editors /\ None \notin Editors \cup {Original}
    /\ Days \subseteq Nat
    /\ TEMP_NAME_ATTEMPTS \in Nat \ {0} /\ MaxLosses \in Nat

\* Trimming twice is trimming once, and the dots at the end do not hide from
\* each other what trimming leaves.
ASSUME NamesAssumption ==
    \A n \in DOMAIN TrimmedName :
        /\ TrimmedName[n] \in DOMAIN TrimmedName
        /\ TrimmedName[TrimmedName[n]] = TrimmedName[n]
        /\ UndottedName[TrimmedName[n]] = UndottedName[n]

AreValues(values) == values \in Seq(ToSet(values))

IsTable(t) ==
    /\ DOMAIN t = {"name", "rtype", "ttl", "values"}
    /\ t.name \in DOMAIN TrimmedName /\ AreValues(t.values)

AreTables(records) ==
    records \in Seq(ToSet(records)) /\ \A t \in ToSet(records) : IsTable(t)

ASSUME DocumentAssumption ==
    \A d \in Documents \cup {Starter} :
        /\ DOMAIN d = {"serial", "records"} /\ d.serial \in Nat \cup {Unset}
        /\ AreTables(d.records)

ASSUME CommandAssumption ==
    \A c \in Commands :
        c.op \in {"add", "delete"} => c.name \in DOMAIN TrimmedName /\ AreValues(c.values)

Inodes == Editors \cup {Original}
Attempts == 0..TEMP_NAME_ATTEMPTS - 1

\* What a file holds: nothing yet, part of a document, or all of one.
Empty == [state |-> "empty"]
Torn == [state |-> "torn"]
Whole(d) == [state |-> "whole", doc |-> d]

-----------------------------------------------------------------------------
(* The document: [serial, records], a record set being a table              *)
(* [name, rtype, ttl, values] with its name as it was written.              *)

Edit(change, doc) == [change |-> change, doc |-> doc]

\* The editor compares names with their dots, the commands that read without.
normalise_name(name) == TrimmedName[name]
normalise(name) == UndottedName[name]

\* Is this a table of the command's record set?
matches(t, c) == normalise_name(t.name) = normalise_name(c.name) /\ t.rtype = c.rtype

\* The first table of a record set.
First(doc, c) == SelectInSeq(doc.records, LAMBDA t : matches(t, c))

\* The tables `record list', `record get' and the report of an edit show.
find(doc, c) ==
    {t \in ToSet(doc.records) : /\ normalise(t.name) = normalise(c.name)
                                /\ c.rtype \in {Unset, t.rtype}}

\* The elements of a sequence that are not in a set, in their order.
Without(s, S) ==
    LET kept[i \in 0..Len(s)] ==
            IF i = 0 THEN <<>>
            ELSE IF s[i] \in S THEN kept[i - 1] ELSE Append(kept[i - 1], s[i])
    IN kept[Len(s)]

\* Mutant of Missing: values already present are added again.
MissingAll(t, c) == c.values

Missing(t, c) == Without(c.values, ToSet(t.values))

\* ConfigEditor::add on the table that exists.
AddTo(doc, i, c) ==
    LET t == doc.records[i]
        rettl == c.ttl # Unset /\ t.ttl # c.ttl
        Put(values, ttl) ==
            [doc EXCEPT !.records[i] = [t EXCEPT !.values = values, !.ttl = ttl]]
    IN IF c.replace
       THEN IF t.values = c.values /\ t.ttl = c.ttl THEN Edit("Unchanged", doc)
            ELSE Edit("Replaced", Put(c.values, c.ttl))
       ELSE IF Missing(t, c) = <<>> /\ ~rettl THEN Edit("Unchanged", doc)
            ELSE Edit("Extended", Put(t.values \o Missing(t, c),
                                      IF rettl THEN c.ttl ELSE t.ttl))

\* ConfigEditor::add.
add(doc, c) ==
    IF First(doc, c) # 0 THEN AddTo(doc, First(doc, c), c)
    ELSE Edit("Created",
              [doc EXCEPT !.records = Append(@,
                  [name |-> normalise_name(c.name), rtype |-> c.rtype, ttl |-> c.ttl,
                   values |-> c.values])])

\* Mutant of Hit: the type is not looked at.
HitAnyType(t, c) == normalise_name(t.name) = normalise_name(c.name)

\* ConfigEditor::remove: every table of the name, or of the name and type.
Hit(t, c) == normalise_name(t.name) = normalise_name(c.name) /\ c.rtype \in {Unset, t.rtype}

Kept(t, c) == Without(t.values, ToSet(c.values))

\* Does it lose values, and does it lose all of them?
Cut(t, c) == Hit(t, c) /\ (c.values = <<>> \/ Kept(t, c) # t.values)
Emptied(t, c) == Cut(t, c) /\ (c.values = <<>> \/ Kept(t, c) = <<>>)

remove(doc, c) ==
    LET tables == ToSet(doc.records)
        left == Without(doc.records, {t \in tables : Emptied(t, c)})
        Rest(t) == IF Cut(t, c) THEN [t EXCEPT !.values = Kept(t, c)] ELSE t
    IN IF \E t \in tables : Cut(t, c)
       THEN Edit("Removed", [doc EXCEPT !.records = [i \in DOMAIN left |-> Rest(left[i])]])
       ELSE Edit("Unchanged", doc)

\* The date of a day as YYYYMMDD, with years that begin in March.
ymd_from_unix_days(days) ==
    LET z == days + 719468
        era == z \div 146097
        doe == z % 146097
        yoe == (doe - doe \div 1460 + doe \div 36524 - doe \div 146096) \div 365
        doy == doe - (365 * yoe + yoe \div 4 - yoe \div 100)
        mp == (5 * doy + 2) \div 153
        d == doy - (153 * mp + 2) \div 5 + 1
        m == IF mp < 10 THEN mp + 3 ELSE mp - 9
        y == yoe + era * 400 + (IF m <= 2 THEN 1 ELSE 0)
    IN y * 10000 + m * 100 + d

\* Mutant of next_serial: a date and no memory.
SerialOfToday(previous, today) == today * 100 + 1

\* A hundred serials a day; past them the serial stays where it is.
next_serial(previous, today) ==
    LET base == today * 100 IN
    IF previous # Unset /\ previous >= base
    THEN IF previous < base + 99 THEN previous + 1 ELSE previous
    ELSE base + 1

\* zone bump-serial, and what maybe_bump does when it was asked to.
bump_serial(doc, today) == [doc EXCEPT !.serial = next_serial(doc.serial, today)]

\* An edit that changed nothing bumps nothing.
maybe_bump(edit, c, today) ==
    IF c.bump /\ edit.change # "Unchanged"
    THEN Edit(edit.change, bump_serial(edit.doc, today)) ELSE edit

\* What a command makes of the document it has read, and whether it saves it.
Outcome(doc, c, today) ==
    IF c.op = "bump-serial"
    THEN [saves |-> TRUE, doc |-> bump_serial(doc, today)]
    ELSE LET edited == maybe_bump(IF c.op = "add" THEN add(doc, c) ELSE remove(doc, c),
                                  c, today)
         IN [saves |-> edited.change # "Unchanged", doc |-> edited.doc]

-----------------------------------------------------------------------------
VARIABLES
    target,     \* the inode the file's name shows, or None
    ondisk,     \* the one it has on disk
    temps,      \* [attempts -> the inode of the temporary file, or None]
    content, mode, synced,  \* of each inode
    pc,         \* where each process is
    cmd,        \* what it was asked to do
    doc,        \* the document it has rendered
    attempt,    \* the temporary name it tries, then holds
    result,     \* what it reports
    losses,     \* power failures so far
    log,        \* history: the processes that replaced the file, in order
    readAfter,  \* history: how many had, when each read the file
    blind       \* history: the processes that could not stat the file

files == <<target, ondisk, temps, content, mode, synced>>
process == <<cmd, doc, attempt, result>>
history == <<log, readAfter, blind>>
vars == <<files, pc, process, losses, history>>

Init ==
    /\ target \in {Original, None}
    /\ ondisk = target
    /\ temps = [a \in Attempts |-> None]
    /\ content \in {[i \in Inodes |-> IF i = Original THEN c ELSE Empty] :
                       c \in IF target = None THEN {Empty}
                             ELSE {Whole(d) : d \in Documents}}
    /\ mode = [i \in Inodes |-> IF i = Original THEN "0640" ELSE "umask"]
    /\ synced = [i \in Inodes |-> i = Original]
    /\ pc = [e \in Editors |-> "new"]
    /\ cmd \in [Editors -> Commands]
    /\ doc = [e \in Editors |-> None]
    /\ attempt = [e \in Editors |-> 0]
    /\ result = [e \in Editors |-> "none"]
    /\ losses = 0
    /\ log = <<>> /\ readAfter = [e \in Editors |-> 0] /\ blind = {}

Goto(e, from, to) == pc[e] = from /\ pc' = [pc EXCEPT ![e] = to]

\* What the command tells its caller, in words and in its exit code.
report(e, with) == result' = [result EXCEPT ![e] = with]

\* The process ends without having touched the directory.
Quit(e, from, with) ==
    /\ Goto(e, from, "done")
    /\ report(e, with)
    /\ UNCHANGED <<files, cmd, doc, attempt, losses, history>>

\* The document to save is ready.
Render(e, d) ==
    /\ Goto(e, "new", "create")
    /\ doc' = [doc EXCEPT ![e] = d]
    /\ readAfter' = [readAfter EXCEPT ![e] = Len(log)]
    /\ UNCHANGED <<files, cmd, attempt, result, losses, log, blind>>

\* ConfigEditor::init up to the write: nothing is done if the file exists.
InitCommand(e) ==
    /\ cmd[e].op = "init"
    /\ \/ target # None /\ Quit(e, "new", "exists")
       \/ target = None /\ Render(e, Starter)

\* Is there a file, and does it parse?
Readable == target # None /\ content[target] # Torn

\* record list and get, zone show and export: open and look.
ReadCommand(e) ==
    /\ cmd[e].op = "get"
    /\ \/ ~Readable /\ Quit(e, "new", "failed")
       \/ /\ Readable
          /\ Quit(e, "new", IF find(content[target].doc, cmd[e]) = {} THEN "absent" ELSE "found")

\* normalise_type and validate_value, for the commands that name values.
Valid(c) ==
    c.op = "add" => c.values # <<>> /\ \A i \in DOMAIN c.values : parse_value(c.values[i])

\* open, the edit and maybe_bump.  A file that is missing or does not parse
\* and values that do not parse end the command, and so does an edit that
\* changes nothing.
EditCommand(e) ==
    /\ cmd[e].op \in {"add", "delete", "bump-serial"}
    /\ \/ (~Readable \/ ~Valid(cmd[e])) /\ Quit(e, "new", "failed")
       \/ /\ Readable /\ Valid(cmd[e])
          /\ \E day \in Days :
                LET outcome ==
                        Outcome(content[target].doc, cmd[e], ymd_from_unix_days(day))
                IN
                \/ outcome.saves /\ Render(e, outcome.doc)
                \/ ~outcome.saves /\ Quit(e, "new", "unchanged")

\* Mutant of CreateTemp: File::create instead of create_new.
CreateShared(e) ==
    /\ Goto(e, "create", "mode")
    /\ temps' = [temps EXCEPT ![attempt[e]] = e]
    /\ UNCHANGED <<target, ondisk, content, mode, synced, process, losses, history>>

\* create_temp, one create_new at a time.  Whatever process left a file under
\* the name, it is not opened; any other error, or the last name being taken
\* too, ends the command.
CreateTemp(e) ==
    \/ /\ temps[attempt[e]] = None
       /\ Goto(e, "create", "mode")
       /\ temps' = [temps EXCEPT ![attempt[e]] = e]
       /\ UNCHANGED <<target, ondisk, content, mode, synced, process, losses, history>>
    \/ /\ temps[attempt[e]] # None /\ attempt[e] < TEMP_NAME_ATTEMPTS - 1
       /\ pc[e] = "create"
       /\ attempt' = [attempt EXCEPT ![e] = @ + 1]
       /\ UNCHANGED <<files, pc, cmd, doc, result, losses, history>>
    \/ Quit(e, "create", "failed")

\* A step between create_temp and the rename fails.
Fails(e, from) ==
    /\ Goto(e, from, "cleanup")
    /\ UNCHANGED <<files, process, losses, history>>

\* preserve_mode: the mode of the file there is, if there is one.  Whatever
\* keeps fs::metadata from answering is taken for there being none: the write
\* goes on under the mode create_temp left.  Only set_permissions may fail.
preserve_mode(e) ==
    \/ /\ target # None
       /\ Goto(e, "mode", "write")
       /\ mode' = [mode EXCEPT ![e] = mode[target]]
       /\ UNCHANGED <<target, ondisk, temps, content, synced, process, losses, history>>
    \/ /\ Goto(e, "mode", "write")
       /\ blind' = IF target = None THEN blind ELSE blind \cup {e}
       /\ UNCHANGED <<files, process, losses, log, readAfter>>
    \/ target # None /\ Fails(e, "mode")

\* write_all, which may leave part of the document behind.
WriteAll(e) ==
    /\ content' \in {[content EXCEPT ![e] = c] : c \in {Whole(doc[e]), Torn}}
    /\ Goto(e, "write", IF content'[e] = Torn THEN "cleanup" ELSE "sync")
    /\ UNCHANGED <<target, ondisk, temps, mode, synced, process, losses, history>>

\* Mutant of SyncAll: the contents are left to the kernel.
SyncLater(e) ==
    /\ Goto(e, "sync", "rename")
    /\ UNCHANGED <<files, process, losses, history>>

SyncAll(e) ==
    \/ /\ Goto(e, "sync", "rename")
       /\ synced' = [synced EXCEPT ![e] = TRUE]
       /\ UNCHANGED <<target, ondisk, temps, content, mode, process, losses, history>>
    \/ Fails(e, "sync")

Rename(e) ==
    \/ /\ Goto(e, "rename", "syncDir")
       /\ target' = e
       /\ temps' = [temps EXCEPT ![attempt[e]] = None]
       /\ log' = Append(log, e)
       /\ UNCHANGED <<ondisk, content, mode, synced, process, losses, readAfter, blind>>
    \/ Fails(e, "rename")

\* remove_file on the temporary file; its own failure is ignored.
CleanUp(e) ==
    /\ Goto(e, "cleanup", "done")
    /\ \/ /\ temps' = [temps EXCEPT ![attempt[e]] = None]
          /\ report(e, "failed")
       \/ /\ report(e, "failed, not removed")
          /\ UNCHANGED temps
    /\ UNCHANGED <<target, ondisk, content, mode, synced, cmd, doc, attempt,
                   losses, history>>

\* Mutant of sync_dir: the file is synced again instead of the directory.
SyncFileAgain(e) ==
    /\ Goto(e, "syncDir", "done")
    /\ report(e, "saved")
    /\ UNCHANGED <<files, cmd, doc, attempt, losses, history>>

\* sync_dir is best effort: the command succeeds either way.
sync_dir(e) ==
    /\ Goto(e, "syncDir", "done")
    /\ \/ /\ ondisk' = target
          /\ report(e, "saved")
       \/ /\ report(e, "saved, not synced")
          /\ UNCHANGED ondisk
    /\ UNCHANGED <<target, temps, content, mode, synced, cmd, doc, attempt, losses,
                   history>>

Step(e) ==
    \/ InitCommand(e) \/ ReadCommand(e) \/ EditCommand(e) \/ CreateTemp(e) \/ preserve_mode(e)
    \/ WriteAll(e) \/ SyncAll(e) \/ Rename(e) \/ CleanUp(e) \/ sync_dir(e)

-----------------------------------------------------------------------------
(* The environment. *)

\* A process is killed between two calls.
Kill(e) ==
    /\ pc[e] \notin {"new", "done", "dead"}
    /\ pc' = [pc EXCEPT ![e] = "dead"]
    /\ UNCHANGED <<files, process, losses, history>>

\* The kernel writes the directory back when it likes.
Writeback ==
    /\ ondisk # target
    /\ ondisk' = target
    /\ UNCHANGED <<target, temps, content, mode, synced, pc, process, losses, history>>

\* The machine goes down with everything that runs and comes back with what
\* is on disk.  Metadata is journalled in order; the data of a file that was
\* not synced may be anything.
PowerLoss ==
    /\ losses < MaxLosses
    /\ losses' = losses + 1
    /\ target' = ondisk
    /\ content' = [i \in Inodes |->
                      IF synced[i] \/ content[i] = Empty THEN content[i] ELSE Torn]
    /\ pc' = [e \in Editors |-> IF pc[e] \in {"new", "done"} THEN pc[e] ELSE "dead"]
    /\ UNCHANGED <<ondisk, temps, mode, synced, process, history>>

Next ==
    \/ \E e \in Editors : Step(e) \/ Kill(e)
    \/ Writeback \/ PowerLoss

Spec == Init /\ [][Next]_vars
-----------------------------------------------------------------------------
(* Properties. *)

Pcs ==
    {"new", "create", "mode", "write", "sync", "rename", "cleanup", "syncDir",
     "done", "dead"}

Results ==
    {"none", "exists", "found", "absent", "unchanged", "saved", "saved, not synced",
     "failed", "failed, not removed"}

FilesOK ==
    /\ target \in Inodes \cup {None} /\ ondisk \in Inodes \cup {None}
    /\ temps \in [Attempts -> Editors \cup {None}]
    /\ content = [i \in Inodes |-> content[i]]
    /\ synced \in [Inodes -> BOOLEAN]
    /\ mode \in [Inodes -> {"0640", "umask"}]

ProcessOK ==
    /\ pc \in [Editors -> Pcs]
    /\ cmd \in [Editors -> Commands]
    /\ doc = [e \in Editors |-> doc[e]]
    /\ attempt \in [Editors -> Attempts]
    /\ result \in [Editors -> Results]

HistoryOK ==
    /\ losses \in Nat
    /\ log \in Seq(Editors)
    /\ readAfter \in [Editors -> Nat]
    /\ blind \subseteq Editors

\* Every variable keeps its type.
TypeOK == FilesOK /\ ProcessOK /\ HistoryOK

\* Whoever reads the file, at whatever moment and after whatever crash or
\* power failure, reads one complete document that some process rendered: "a
\* crash mid-write cannot leave a truncated config behind" (editor.rs:5-7),
\* "The file it leaves is always a complete, valid document" (editor.rs:423-424).
AlwaysComplete ==
    /\ target # None => content[target] \notin {Empty, Torn}
    /\ target \in Editors => content[target] = Whole(doc[target])
    /\ content[Original] # Empty => target # None

\* From create_temp to the rename the name a process writes to and renames is
\* its own file and nobody else's, whatever names crashed processes have left
\* behind: "if the composed name is taken, we compose another rather than
\* write into someone else's file" (editor.rs:402-408).
TempIsOurs ==
    \A e \in Editors :
        pc[e] \in {"mode", "write", "sync", "rename", "cleanup"} => temps[attempt[e]] = e

\* Did the process write under the umask's mode, or after one that did had
\* replaced the file?
Unmasked(e) == e \in blind \/ \E f \in blind : f \in ToSet(log)

\* "The mode is the target's" (editor.rs:409-413): the file and the temporary
\* ones hold the configuration, and with it admin_token, under the operator's
\* mode and no other, through every crash.  The one exception is the code's:
\* a process that cannot stat the file goes on without its mode
\* (editor.rs:528-530), and those that follow it copy what it left.
ModeIsTheTargets ==
    content[Original] # Empty =>
        \A e \in Editors :
            content[e] # Empty => mode[e] = mode[Original] \/ Unmasked(e)

\* The position of a process in the order of the replacements, 0 if it has
\* made none.
PlaceIn(s, e) == SelectInSeq(s, LAMBDA f : f = e)
Place(e) == PlaceIn(log, e)

\* What `record get' shows of a record set, and what its own tables hold.
ValuesOf(d, c) == UNION {ToSet(t.values) : t \in find(d, c)}
Held(d, c) == UNION {ToSet(t.values) : t \in {u \in ToSet(d.records) : matches(u, c)}}

\* Is the effect of a command there in a document?
Effective(c, d) ==
    CASE c.op = "add" -> ToSet(c.values) \subseteq Held(d, c)
      [] c.op = "delete" -> ~Outcome(d, c, 0).saves
      [] OTHER -> TRUE

\* Do a deletion and an addition name a value in common?
Common(delete, addition) ==
    /\ normalise_name(delete.name) = normalise_name(addition.name)
    /\ delete.rtype \in {Unset, addition.rtype}
    /\ delete.values = <<>> \/ ToSet(delete.values) \cap ToSet(addition.values) # {}

\* Does a replacement drop what an addition to the same record set gave it?
Drops(later, earlier) ==
    /\ later.replace /\ later.rtype = earlier.rtype
    /\ normalise_name(later.name) = normalise_name(earlier.name)
    /\ ~(ToSet(earlier.values) \subseteq ToSet(later.values))

\* The later command takes the earlier one's effect back on purpose.
Undoes(later, earlier) ==
    \/ later.op = "delete" /\ earlier.op = "add" /\ Common(later, earlier)
    \/ later.op = "add" /\ earlier.op = "delete" /\ Common(earlier, later)
    \/ later.op = "add" /\ earlier.op = "add" /\ Drops(later, earlier)

\* A later replacement undoes an edit, or was made from a read that predates it.
Undone(e) ==
    \E i \in DOMAIN log :
        /\ i > Place(e)
        /\ readAfter[log[i]] < Place(e) \/ Undoes(cmd[log[i]], cmd[e])

\* An edit that was reported as saved and synced is in the file, unless a
\* later command asked for one of its own values, of the same name and type,
\* to go or to come back, or was made from a read that predates the edit, the
\* lost update the comment admits (editor.rs:420-424).  Commands that do not
\* overlap in time never lose each other's work on other names, types or
\* values, and no power failure takes it back: "The rename is on disk after
\* it" (editor.rs:415-418).
OnlyOverlapsLoseEdits ==
    \A e \in Editors :
        result[e] = "saved" => Effective(cmd[e], content[target].doc) \/ Undone(e)

\* A command that nobody overlapped never takes the serial back, even when
\* the clock does go back: "so we never go backwards" (commands/mod.rs:57).
SerialNeverGoesBack ==
    [][\A e \in Editors :
          /\ target' = e /\ target \notin {e, None}
          /\ log' # log /\ readAfter[e] = Len(log)
          /\ content[target].doc.serial # Unset
          => content[e].doc.serial >= content[target].doc.serial]_vars

\* The document the file shows, if there is one.
Shown == {content[i].doc : i \in {target} \ {None}}

\* In a document, an add or a delete that has been applied once changes
\* nothing and bumps nothing when it is run again, on whatever day.
AppliesOnce(d) ==
    LET dates == {ymd_from_unix_days(day) : day \in Days} IN
    \A c \in {x \in Commands : x.op \in {"add", "delete"} /\ Valid(x)}, today \in dates :
        LET once == Outcome(d, c, today)
        IN \A later \in dates : ~Outcome(once.doc, c, later).saves

\* "Idempotent apply: safe to run on every deploy" (README.md:215): so it is
\* in the file one starts from, and in every file a replacement or a power
\* failure puts in its place.
EditsAreIdempotent ==
    /\ \A d \in Shown : AppliesOnce(d)
    /\ [][target' # target => \A d \in Shown' : AppliesOnce(d)]_vars

\* A process that ends by itself leaves no temporary file, whichever call
\* failed, unless removing it failed as well (editor.rs:438-439).
NoTempLeftBehind ==
    \A a \in DOMAIN temps :
        temps[a] # None /\ pc[temps[a]] = "done" =>
            result[temps[a]] = "failed, not removed"

\* Temporary files are private while in use, carry the mode of the file they
\* replace unless a stat has failed, and are gone afterwards.
TempsAccountedFor == TempIsOurs /\ ModeIsTheTargets /\ NoTempLeftBehind

-----------------------------------------------------------------------------
(* The inductive invariant. *)

\* From create_temp to the rename, or to the clean-up.
Holding == {"mode", "write", "sync", "rename", "cleanup"}

\* A temporary name is held, or was left by a process that was killed or
\* could not remove it.
AccountedFor(a) ==
    temps[a] # None =>
        \/ pc[temps[a]] \in Holding /\ a = attempt[temps[a]]
        \/ pc[temps[a]] = "dead"
        \/ pc[temps[a]] = "done" /\ result[temps[a]] = "failed, not removed"

TempInv == TempIsOurs /\ \A a \in Attempts : AccountedFor(a)

\* What a process has written, and what of it is durable.
ContentOf(e) ==
    /\ content[e] \in {Empty, Torn, Whole(doc[e])}
    /\ pc[e] \in {"new", "create", "mode", "write"} => content[e] = Empty /\ ~synced[e]
    /\ pc[e] = "sync" \/ synced[e] => content[e] = Whole(doc[e])
    /\ pc[e] \in {"rename", "syncDir"} => synced[e]

ContentInv ==
    /\ content[Original] # Torn /\ synced[Original]
    /\ \A e \in Editors : ContentOf(e)

\* The file's name, in memory and on disk, shows a file that was synced and
\* renamed, and is in the log, or the original one.
NameInv(i) ==
    /\ i = None => content[Original] = Empty
    /\ i = Original => content[Original] # Empty
    /\ i \in Editors =>
          synced[i] /\ pc[i] \in {"syncDir", "done", "dead"} /\ i \in ToSet(log)

\* The operator's mode is on a temporary file before the document is, unless
\* a stat failed.
ModeOf(e) ==
    pc[e] \in {"write", "sync", "rename", "syncDir"} \/ content[e] # Empty =>
        mode[e] = mode[Original] \/ Unmasked(e)

ModeInv == content[Original] # Empty => \A e \in Editors : ModeOf(e)

IsDocument(d) ==
    /\ DOMAIN d = {"serial", "records"} /\ d.serial \in Int \cup {Unset}
    /\ AreTables(d.records)

\* Between the read and the rename.
Editing == {"create", "mode", "write", "sync", "rename"}

NoOlder(new, old) == old.serial # Unset => new.serial \in Int /\ new.serial >= old.serial

\* A document made from the file as it still is has no older serial.
SerialOf(e) ==
    /\ readAfter[e] <= Len(log)
    /\ pc[e] \in Editing => IsDocument(doc[e])
    /\ pc[e] \in Editing /\ readAfter[e] = Len(log) /\ target # None =>
          NoOlder(doc[e], content[target].doc)

SerialInv ==
    /\ \A i \in Inodes : content[i] \notin {Empty, Torn} => IsDocument(content[i].doc)
    /\ \A e \in Editors : SerialOf(e)

\* A process is in the log once it has renamed; its edit lasts from then on
\* unless the power fails before the directory is on disk.
PastRename(e) == pc[e] \in {"syncDir", "done", "dead"}
Lasting(e) == result[e] = "saved" \/ pc[e] = "syncDir"

\* An edit that lasts is visible in the file, or undone; one that is saved,
\* in the file as it is on disk too.
LastsIn(i, e) == i # None /\ (Effective(cmd[e], content[i].doc) \/ Undone(e))

\* A document made from the file shows the command's own effect, and that of
\* every lasting edit that was there to read, or undoes it.
BuildsOn(e, f) ==
    Lasting(e) /\ Place(e) <= readAfter[f] =>
        Effective(cmd[e], doc[f]) \/ Undone(e) \/ Undoes(cmd[f], cmd[e])

EffectInv ==
    \A e \in Editors :
        /\ e \in ToSet(log) => PastRename(e)
        /\ result[e] = "saved" => pc[e] = "done"
        /\ Lasting(e) => LastsIn(target, e)
        /\ result[e] = "saved" => LastsIn(ondisk, e)
        /\ pc[e] \in Editing =>
              Effective(cmd[e], doc[e]) /\ \A f \in Editors : BuildsOn(f, e)

IInv ==
    /\ TypeOK /\ TempInv /\ ContentInv /\ NameInv(target) /\ NameInv(ondisk)
    /\ ModeInv /\ SerialInv /\ EffectInv

-----------------------------------------------------------------------------
(* A statement of the source that the code does not keep. *)

\* "Overwrite the existing values instead of appending to them" (cli.rs:166):
\* after a saved `record add --replace' the record set has the values given
\* and no others.
ReplaceOverwrites ==
    \A e \in Editors :
        target = e /\ cmd[e].op = "add" /\ cmd[e].replace =>
            ValuesOf(content[e].doc, cmd[e]) = ToSet(cmd[e].values)
=============================================================================
