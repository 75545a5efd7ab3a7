------------------------------- MODULE Machine ------------------------------
(***************************************************************************)
(* The commands that change what a machine has: runner create, runner      *)
(* remove, upgrade --runners, login and logout, and the agent that stores  *)
(* a rotated credential.  They share runners.yaml (internal/state) and     *)
(* credentials.yaml (internal/auth), which have no lock: each is loaded,   *)
(* changed, truncated and written.  Meanwhile the runners of the machine   *)
(* take jobs.                                                              *)
(*                                                                         *)
(* An entry of a file is the number of the command that wrote it.  One     *)
(* runner is one directory.  What an installation does in detail is in     *)
(* Ephemeral, what an agent does in Supervisor, the hooks in JobHooks.     *)
(***************************************************************************)
EXTENDS Integers

CONSTANTS
    Runner,       \* names
    Process,      \* those that run commands
    MaxCommands   \* bound on the commands

ASSUME MachineAssumption ==
    MaxCommands \in Nat /\ Runner \cap {"login", "machine"} = {}

\* credentials.yaml has a GitHub token and a machine credential.
Credential == {"login", "machine"}
Entry == Runner \cup Credential

\* The file an entry is in.
FileOf(e) == IF e \in Runner THEN Runner ELSE Credential

Absent == 0
Unknown == -1

VARIABLES
    turn,       \* commands begun
    pc,
    kind,       \* what a process does,
    entry,      \* to what,
    number,     \* and which command it is
    known,      \* the runner to remove is recorded
    seen,       \* the file as it was loaded
    book,       \* both files
    registered, \* at GitHub
    unpacked,   \* directories with the runner in them
    configured, \* directories with a .runner in them
    up,         \* runners that run, under an agent
    busy,       \* with a job
    told,       \* job.json says so
    \* history
    meant,      \* what the commands that said they succeeded promised
    alone,      \* processes no other one has been at the same file with, and whose
                \* runner GitHub did not drop meanwhile
    fresh,      \* jobs that began after an upgrade had looked
    wronged     \* jobs an upgrade threw away although it could have known

commandVars == <<turn, pc, kind, entry, number, known, seen, alone>>
diskVars == <<unpacked, configured>>
jobVars == <<up, busy, told, fresh, wronged>>
vars == <<commandVars, book, registered, diskVars, jobVars, meant>>

Kinds == {"create", "remove", "purge", "upgrade", "login", "logout", "rotate"}

Stages == {"idle", "look", "check", "clear", "install", "deregister",
           "load", "save", "write", "purge"}

CommandTypeOK ==
    /\ turn \in 0 .. MaxCommands
    /\ pc \in [Process -> Stages]
    /\ kind \in [Process -> Kinds]
    /\ entry \in [Process -> Entry]
    /\ number \in [Process -> 0 .. MaxCommands]
    /\ alone \subseteq Process

FileTypeOK ==
    /\ seen \in [Process -> [Entry -> 0 .. MaxCommands]]
    /\ book \in [Entry -> 0 .. MaxCommands]
    /\ meant \in [Entry -> Unknown .. MaxCommands]

RunnerTypeOK ==
    /\ registered \subseteq Runner
    /\ unpacked \subseteq Runner
    /\ configured \subseteq Runner
    /\ up \subseteq Runner
    /\ busy \subseteq up
    /\ told \subseteq Runner
    /\ fresh \subseteq Runner
    /\ wronged \subseteq Runner

\* Only a runner that is up has a job, and no entry is from a command to come.
TypeOK ==
    /\ CommandTypeOK
    /\ FileTypeOK
    /\ RunnerTypeOK
    /\ known \in [Process -> BOOLEAN]

Init ==
    /\ turn = 0
    /\ pc = [p \in Process |-> "idle"]
    /\ kind = [p \in Process |-> "create"]
    /\ entry = [p \in Process |-> "login"]
    /\ number = [p \in Process |-> 0]
    /\ known = [p \in Process |-> FALSE]
    /\ seen = [p \in Process |-> [e \in Entry |-> Absent]]
    /\ book = [e \in Entry |-> Absent]
    /\ registered = {}
    /\ unpacked = {}
    /\ configured = {}
    /\ up = {}
    /\ busy = {}
    /\ told = {}
    /\ meant = [e \in Entry |-> Absent]
    /\ alone = {}
    /\ fresh = {}
    /\ wronged = {}

-----------------------------------------------------------------------------
(* A command, from beginning to end.                                       *)

At(p, k) == pc[p] = k
Goto(p, k) == pc' = [pc EXCEPT ![p] = k]

\* The processes in the middle of a command for the same file.
Others(e) == {q \in Process : pc[q] # "idle" /\ FileOf(entry[q]) = FileOf(e)}

\* Nobody can say any more what these entries should be.
Lost(es) == meant' = [e \in Entry |-> IF e \in es THEN Unknown ELSE meant[e]]

Begin(p, k, e, first) ==
    /\ At(p, "idle")
    /\ turn < MaxCommands
    /\ turn' = turn + 1
    /\ Goto(p, first)
    /\ kind' = [kind EXCEPT ![p] = k]
    /\ entry' = [entry EXCEPT ![p] = e]
    /\ number' = [number EXCEPT ![p] = turn + 1]
    /\ known' = [known EXCEPT ![p] = FALSE]
    /\ alone' = IF Others(e) = {} THEN alone \cup {p} ELSE alone \ (Others(e) \cup {p})
    /\ Lost({e})
    /\ UNCHANGED <<seen, book, registered, diskVars, jobVars>>

\* The command says it is done; what it promised holds if it was by itself.
Succeeds(p, value) ==
    /\ Goto(p, "idle")
    /\ IF p \in alone THEN meant' = [meant EXCEPT ![entry[p]] = value]
                      ELSE UNCHANGED meant

\* It reports an error, or goes on with a warning it cannot act upon.
Fails(p) == Goto(p, "idle") /\ UNCHANGED meant

Deletes(p) == kind[p] \in {"remove", "purge", "logout"}

CreateRunner(p, n) == Begin(p, "create", n, "install")
RemoveRunner(p, n) == \E k \in {"remove", "purge"} : Begin(p, k, n, "look")
UpgradeRunner(p, n) == Begin(p, "upgrade", n, "look")
Login(p) == Begin(p, "login", "login", "load")
Logout(p) == Begin(p, "logout", "login", "load")
RotateCredential(p) == Begin(p, "rotate", "machine", "load")

restOfCommand == <<turn, kind, entry, number, known, seen, alone>>

-----------------------------------------------------------------------------
(* The files.                                                              *)

\* Mutant of Changed: a command saves what it knows, its own entry.
ChangedAlone(p) ==
    [e \in Entry |->
        IF FileOf(e) # FileOf(entry[p]) THEN book[e]
        ELSE IF e # entry[p] THEN Absent
        ELSE IF Deletes(p) THEN Absent ELSE number[p]]

\* What is written: the file as it was loaded, with one entry changed.
Changed(p) ==
    [e \in Entry |->
        IF FileOf(e) # FileOf(entry[p]) THEN book[e]
        ELSE IF e # entry[p] THEN seen[p][e]
        ELSE IF Deletes(p) THEN Absent ELSE number[p]]

\* Somebody has truncated the file, and not written it yet.
Torn(e) == \E q \in Process : At(q, "write") /\ FileOf(entry[q]) = FileOf(e)

\* An empty file is a file without entries: what was in it is forgotten.
Load(p) ==
    /\ At(p, "load")
    /\ seen' = [seen EXCEPT ![p] = book]
    /\ Goto(p, "save")
    /\ IF Torn(entry[p]) THEN Lost(FileOf(entry[p])) ELSE UNCHANGED meant
    /\ UNCHANGED <<turn, kind, entry, number, known, alone, book, registered,
                   diskVars, jobVars>>

LoadFails(p) ==
    /\ At(p, "load")
    /\ Fails(p)
    /\ UNCHANGED <<restOfCommand, book, registered, diskVars, jobVars>>

\* What a command does when its entry is as it should be.
Recorded(p) ==
    IF kind[p] = "purge" /\ known[p]
    THEN Goto(p, "purge") /\ UNCHANGED meant
    ELSE Succeeds(p, IF Deletes(p) THEN Absent ELSE number[p])

\* Delete finds nothing to delete.
NothingToDelete(p) ==
    /\ At(p, "save")
    /\ Deletes(p) /\ seen[p][entry[p]] = Absent
    /\ Recorded(p)
    /\ UNCHANGED <<restOfCommand, book, registered, diskVars, jobVars>>

\* Delete leaves no file rather than an empty one.
RemoveFile(p) ==
    /\ At(p, "save")
    /\ Deletes(p) /\ seen[p][entry[p]] # Absent
    /\ \A e \in FileOf(entry[p]) : e # entry[p] => seen[p][e] = Absent
    /\ book' = Changed(p)
    /\ Recorded(p)
    /\ UNCHANGED <<restOfCommand, registered, diskVars, jobVars>>

\* os.WriteFile truncates the file,
Truncate(p) ==
    /\ At(p, "save")
    /\ Deletes(p) => /\ seen[p][entry[p]] # Absent
                     /\ \E e \in FileOf(entry[p]) : e # entry[p] /\ seen[p][e] # Absent
    /\ book' = [e \in Entry |-> IF e \in FileOf(entry[p]) THEN Absent ELSE book[e]]
    /\ Goto(p, "write")
    /\ UNCHANGED <<restOfCommand, registered, diskVars, jobVars, meant>>

\* and writes it,
Write(p) ==
    /\ At(p, "write")
    /\ book' = Changed(p)
    /\ Recorded(p)
    /\ UNCHANGED <<restOfCommand, registered, diskVars, jobVars>>

\* or does not: the disk is full.
WriteFails(p) ==
    /\ At(p, "write")
    /\ Goto(p, "idle")
    /\ Lost(FileOf(entry[p]))
    /\ UNCHANGED <<restOfCommand, book, registered, diskVars, jobVars>>

-----------------------------------------------------------------------------
(* runner create, and what upgrade shares with it: runner.Install.         *)

\* Without --replace, a directory that is configured is refused.
Refused(p) ==
    /\ At(p, "install")
    /\ kind[p] = "create" /\ entry[p] \in configured
    /\ Fails(p)
    /\ UNCHANGED <<restOfCommand, book, registered, diskVars, jobVars>>

Install(p) ==
    /\ At(p, "install")
    /\ Goto(p, "load")
    /\ unpacked' = unpacked \cup {entry[p]}
    /\ configured' = configured \cup {entry[p]}
    /\ registered' = registered \cup {entry[p]}
    /\ UNCHANGED <<restOfCommand, book, jobVars, meant>>

\* The policy refuses, or a step of the installation fails.
InstallFails(p) ==
    /\ At(p, "install")
    /\ unpacked' \in {unpacked, unpacked \cup {entry[p]}}
    /\ registered' \in {registered, registered \cup {entry[p]}}
    /\ Fails(p)
    /\ UNCHANGED <<restOfCommand, book, configured, jobVars>>

-----------------------------------------------------------------------------
(* runner remove.                                                          *)

\* state.Get, and FindRunnerByName: nothing to remove is an error, unless the
\* machine remembers what GitHub has forgotten.
LookUp(p) ==
    /\ At(p, "look")
    /\ kind[p] \in {"remove", "purge"}
    /\ known' = [known EXCEPT ![p] = book[entry[p]] # Absent]
    /\ \/ entry[p] \in registered /\ Goto(p, "deregister")
       \/ entry[p] \notin registered /\ known'[p] /\ Goto(p, "load")
       \/ entry[p] \notin registered /\ ~ known'[p] /\ Goto(p, "idle")
    /\ UNCHANGED <<turn, kind, entry, number, seen, alone, book, registered,
                   diskVars, jobVars, meant>>

DeleteRunner(p) ==
    /\ At(p, "deregister")
    /\ Goto(p, "load")
    /\ registered' = registered \ {entry[p]}
    /\ UNCHANGED <<restOfCommand, book, diskVars, jobVars, meant>>

\* GitHub does not answer, does not delete, or the operator does not confirm.
RemoveFails(p) ==
    /\ At(p, "look") \/ At(p, "deregister")
    /\ Fails(p)
    /\ UNCHANGED <<restOfCommand, book, registered, diskVars, jobVars>>

\* A runner whose files are gone loses its job.
Thrown(n) == busy' = busy \ {n}

\* --purge asks nobody whether a job runs.
Purge(p) ==
    /\ At(p, "purge")
    /\ unpacked' = unpacked \ {entry[p]}
    /\ configured' = configured \ {entry[p]}
    /\ told' = told \ {entry[p]}
    /\ Thrown(entry[p])
    /\ Succeeds(p, Absent)
    /\ UNCHANGED <<restOfCommand, book, registered, up, fresh, wronged>>

\* The record is gone by now, so a second attempt has no directory to delete.
PurgeFails(p) ==
    /\ At(p, "purge")
    /\ configured' \in {configured, configured \ {entry[p]}}
    /\ unpacked' \in {unpacked, unpacked \ {entry[p]}}
    /\ Fails(p)
    /\ UNCHANGED <<restOfCommand, book, registered, jobVars>>

-----------------------------------------------------------------------------
(* upgrade --runners.  Its list of runners is as old as the beginning.     *)

ListStale(p) ==
    /\ At(p, "look")
    /\ kind[p] = "upgrade"
    /\ Goto(p, IF book[entry[p]] = Absent THEN "idle" ELSE "check")
    /\ UNCHANGED <<restOfCommand, book, registered, diskVars, jobVars, meant>>

\* Mutant of MayUpgrade: job.json is not asked.
MayUpgradeAny(n) == n \in Runner

\* job.json is all there is to ask.
MayUpgrade(n) == n \notin told

\* Skipped; or the operator did not confirm, or there is no registration token.
CheckJob(p) ==
    /\ At(p, "check")
    /\ \/ MayUpgrade(entry[p]) /\ Goto(p, "clear") /\ fresh' = fresh \ {entry[p]}
       \/ Goto(p, "idle") /\ UNCHANGED fresh
    /\ UNCHANGED <<restOfCommand, book, registered, diskVars, up, busy, told, wronged, meant>>

\* removeUnpackedRunner empties the directory, whatever runs in it.
Clear(p) ==
    /\ At(p, "clear")
    /\ Goto(p, "install")
    /\ unpacked' = unpacked \ {entry[p]}
    /\ configured' = configured \ {entry[p]}
    /\ told' = told \ {entry[p]}
    /\ Thrown(entry[p])
    /\ wronged' = wronged \cup (({entry[p]} \cap busy \cap told) \ fresh)
    /\ UNCHANGED <<restOfCommand, book, registered, up, fresh, meant>>

\* Some of it is gone.
ClearFails(p) ==
    /\ At(p, "clear")
    /\ configured' \in {configured, configured \ {entry[p]}}
    /\ unpacked' \in {unpacked, unpacked \ {entry[p]}}
    /\ Fails(p)
    /\ UNCHANGED <<restOfCommand, book, registered, jobVars>>

\* A command dies.
Killed(p) ==
    /\ ~ At(p, "idle")
    /\ Goto(p, "idle")
    /\ IF At(p, "write") THEN Lost(FileOf(entry[p])) ELSE UNCHANGED meant
    /\ UNCHANGED <<restOfCommand, book, registered, diskVars, jobVars>>

-----------------------------------------------------------------------------
(* The runners.                                                            *)

\* agent run: the record, and Preflight.
StartAgent(n) ==
    /\ book[n] # Absent
    /\ n \in configured \cap unpacked
    /\ n \notin up
    /\ up' = up \cup {n}
    /\ UNCHANGED <<commandVars, book, registered, diskVars, busy, told, fresh, wronged, meant>>

\* The hook may fail to write job.json.
TakeJob(n) ==
    /\ n \in (up \cap registered \cap configured) \ busy
    /\ busy' = busy \cup {n}
    /\ told' \in {told, told \cup {n}}
    /\ fresh' = IF \E p \in Process : entry[p] = n /\ At(p, "clear")
                THEN fresh \cup {n} ELSE fresh \ {n}
    /\ UNCHANGED <<commandVars, book, registered, diskVars, up, wronged, meant>>

\* GitHub drops a registration.  A command about that runner is not by itself.
Deregistered(n) ==
    /\ registered' = registered \ {n}
    /\ alone' = {p \in alone : entry[p] # n}
    /\ Lost({n})

\* With its one job an ephemeral runner's registration goes.
FinishJob(n) ==
    /\ n \in busy
    /\ busy' = busy \ {n}
    /\ told' \in {told, told \ {n}}
    /\ Deregistered(n) \/ UNCHANGED <<registered, alone, meant>>
    /\ UNCHANGED <<turn, pc, kind, entry, number, known, seen, book, diskVars, up, fresh, wronged>>

\* Mutant of Stops: the leader alone is signalled, and the job goes on.
StopsAlone(n) == up' = up \ {n} /\ UNCHANGED busy

\* The runner and its job are one process group; job.json says what it said.
Stops(n) == up' = up \ {n} /\ busy' = busy \ {n}

StopAgent(n) ==
    /\ n \in up
    /\ Stops(n)
    /\ UNCHANGED <<commandVars, book, registered, diskVars, told, fresh, wronged, meant>>

\* It removes what it has not seen for two weeks: no command takes as long.
GitHubForgets(n) ==
    /\ n \in registered \ up
    /\ \A p \in Process : entry[p] = n => At(p, "idle")
    /\ Deregistered(n)
    /\ UNCHANGED <<turn, pc, kind, entry, number, known, seen, book, diskVars, jobVars>>

-----------------------------------------------------------------------------

Files(p) == Load(p) \/ LoadFails(p) \/ NothingToDelete(p) \/ RemoveFile(p)
                \/ Truncate(p) \/ Write(p) \/ WriteFails(p)

Commands(p) ==
    \/ \E n \in Runner : CreateRunner(p, n) \/ RemoveRunner(p, n) \/ UpgradeRunner(p, n)
    \/ Login(p) \/ Logout(p) \/ RotateCredential(p)

Steps(p) == Refused(p) \/ Install(p) \/ InstallFails(p)
                \/ LookUp(p) \/ DeleteRunner(p) \/ RemoveFails(p) \/ Purge(p) \/ PurgeFails(p)
                \/ ListStale(p) \/ CheckJob(p) \/ Clear(p) \/ ClearFails(p) \/ Killed(p)

Jobs == \E n \in Runner : StartAgent(n) \/ TakeJob(n) \/ FinishJob(n)
                              \/ StopAgent(n) \/ GitHubForgets(n)

Next == (\E p \in Process : Commands(p) \/ Files(p) \/ Steps(p)) \/ Jobs

Spec == Init /\ [][Next]_vars

-----------------------------------------------------------------------------
(* Properties                                                              *)

\* A command that said it succeeded, and was the only one at its file, is obeyed
\* until another one is about the same thing, or GitHub drops the runner: its entry stays what it wrote,
\* whatever is done to the others; a runner that was created or upgraded is
\* installed and registered, one that was removed is not registered.  Only who
\* reads the file while another one writes it, or cannot finish writing it, may
\* lose what it holds.
PromiseKept ==
    \A e \in Entry : meant[e] # Unknown /\ ~ Torn(e) =>
        /\ book[e] = meant[e]
        /\ e \in Runner => (meant[e] # Absent <=> e \in registered)
        /\ e \in Runner /\ meant[e] # Absent => e \in unpacked \cap configured

\* "A runner mid-job would lose it.  The hooks know": an upgrade throws a job away
\* only if it began after the upgrade had looked, or its hook did not record it.
KnownJobsSpared == wronged = {}
=============================================================================
