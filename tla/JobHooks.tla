------------------------------ MODULE JobHooks ------------------------------
(***************************************************************************)
(* The job hooks of one runner, the file they keep and the Docker clean-up *)
(* (internal/cli/hook.go, internal/jobstate, internal/docker).             *)
(*                                                                         *)
(* The runner calls one hook before each job and one after it.  Each is a  *)
(* process of its own and always exits 0, so whatever fails in it, the job *)
(* goes on.  The first records in job.json that a job runs and what Docker *)
(* held before it; the second removes what Docker holds since, and records *)
(* that the job is over.  The agent reads the file for its status and for  *)
(* the question whether a job was finished.                                *)
(*                                                                         *)
(* Docker is shared with whatever else uses the machine.                   *)
(***************************************************************************)
EXTENDS Naturals, Sequences

CONSTANTS
    Container, Volume, Network,     \* what there may be in Docker, by kind
    MaxJobs,                        \* bound on jobs
    MaxEdits,                       \* bound on changes to the configuration
    MaxKills                        \* bound on deaths of the runner

ASSUME HookAssumption ==
    /\ MaxJobs \in Nat
    /\ MaxEdits \in Nat
    /\ MaxKills \in Nat

Thing == Container \cup Volume \cup Network

\* The order in which the kinds are listed, and removed.
Kind == <<Container, Volume, Network>>

Nobody == 0
Other == MaxJobs + 1    \* whoever else uses Docker on this machine

VARIABLES
    exists, by,         \* Docker: what there is, and which job made it
    file,               \* job.json
    phase, job, kills,  \* the runner, its current or last job
    cleanup, edits,     \* executor.docker.cleanup
    step, clean,        \* the hook that runs: what it does next, its configuration
    next, found,        \* its call of Take: the kind to list, what was listed
    previous, doomed,   \* what it read, and what is left to remove
    \* history
    before,             \* what there was when the current job's first hook began
    blind,              \* why the second hook cannot know that, or "no"
    slipped,            \* a hook was cut short since the file was last written
    problems            \* the second hook could not do all of its work

dockerVars == <<exists, by>>
runnerVars == <<phase, job, kills>>
configVars == <<cleanup, edits>>
hookVars   == <<step, clean, next, found, previous, doomed>>
history    == <<before, blind, slipped, problems>>
vars == <<dockerVars, file, runnerVars, configVars, hookVars, history>>

\* "started" and "completed" are the hooks.
Phases == {"off", "idle", "started", "job", "completed"}
Steps == {"none", "config", "read", "list", "remove", "write"}

File == [running : BOOLEAN, started : 0 .. MaxJobs, finished : BOOLEAN, docker : SUBSET Thing]

\* What Read makes of a file that is missing or cannot be read.
Blank == [running |-> FALSE, started |-> 0, finished |-> FALSE, docker |-> {}]

DockerOK ==
    /\ exists \subseteq Thing
    /\ by \in [Thing -> 0 .. MaxJobs + 1]
    /\ \A t \in exists : by[t] # Nobody

RunnerOK ==
    /\ phase \in Phases /\ job \in 0 .. MaxJobs /\ kills \in 0 .. MaxKills
    /\ phase \notin {"off", "idle"} => job > 0
    /\ cleanup \in BOOLEAN /\ edits \in 0 .. MaxEdits

\* A hook runs exactly while the runner waits for one, and only the second
\* reads the file and removes things; a hook lists after it has read.
HookOK ==
    /\ step \in Steps /\ next \in 1 .. 3
    /\ found \subseteq Thing /\ doomed \subseteq Thing
    /\ step = "none" <=> phase \notin {"started", "completed"}
    /\ step \in {"read", "remove"} => phase = "completed"
    /\ step \in {"none", "config", "read"} => next = 1 /\ found = {}

\* Docker, the runner, its hooks and job.json are what the code can make of them.
TypeOK ==
    /\ DockerOK /\ RunnerOK /\ HookOK
    /\ file \in File /\ previous \in File
    /\ before \subseteq Thing
    /\ blind \in {"no", "untaken", "unwritten"}
    /\ clean \in BOOLEAN /\ slipped \in BOOLEAN /\ problems \in BOOLEAN

\* Docker may hold anything of somebody else's.
Init ==
    /\ exists \in SUBSET Thing
    /\ by = [t \in Thing |-> IF t \in exists THEN Other ELSE Nobody]
    /\ file = Blank
    /\ phase = "off" /\ job = 0 /\ kills = 0
    /\ cleanup \in BOOLEAN /\ edits = 0
    /\ step = "none" /\ clean = FALSE /\ next = 1 /\ found = {} /\ previous = Blank /\ doomed = {}
    /\ before = {} /\ blind = "no" /\ slipped = FALSE /\ problems = FALSE

-----------------------------------------------------------------------------
(* The runner *)

Launch ==
    /\ phase = "off"
    /\ phase' = "idle"
    /\ UNCHANGED <<dockerVars, file, job, kills, configVars, hookVars, history>>

TakeJob ==
    /\ phase = "idle" /\ job < MaxJobs
    /\ phase' = "started" /\ job' = job + 1
    /\ step' = "config"
    /\ before' = exists /\ blind' = "no"
    /\ UNCHANGED <<dockerVars, file, kills, configVars, clean, next, found, previous, doomed,
                   slipped, problems>>

FinishJob ==
    /\ phase = "job"
    /\ phase' = "completed"
    /\ step' = "config"
    /\ problems' = FALSE
    /\ UNCHANGED <<dockerVars, file, job, kills, configVars, clean, next, found, previous,
                   doomed, before, blind, slipped>>

\* The variables of a hook are gone when its process is.
Forgotten == clean' = FALSE /\ next' = 1 /\ found' = {} /\ previous' = Blank /\ doomed' = {}

HookOutlives == step' = step /\ Forgotten

HookDies == step' = "none" /\ Forgotten

\* The runner is killed, or the machine stops, and a hook with it.
Kill ==
    /\ phase # "off" /\ kills < MaxKills
    /\ phase' = "off" /\ kills' = kills + 1
    /\ HookDies
    /\ slipped' = (slipped \/ phase # "idle")
    /\ UNCHANGED <<dockerVars, file, job, configVars, before, blind, problems>>

-----------------------------------------------------------------------------
(* Docker and the configuration *)

Create(t, owner) ==
    /\ by[t] = Nobody
    /\ exists' = exists \cup {t}
    /\ by' = [by EXCEPT ![t] = owner]
    /\ UNCHANGED <<file, runnerVars, configVars, hookVars, history>>

JobCreates == phase = "job" /\ \E t \in Thing : Create(t, job)

OtherCreates == \E t \in Thing : Create(t, Other)

\* Somebody else, or the job itself, removes something.
Vanish ==
    /\ \E t \in exists : exists' = exists \ {t}
    /\ UNCHANGED <<by, file, runnerVars, configVars, hookVars, history>>

Edit ==
    /\ edits < MaxEdits
    /\ cleanup' = ~cleanup /\ edits' = edits + 1
    /\ UNCHANGED <<dockerVars, file, runnerVars, hookVars, history>>

-----------------------------------------------------------------------------
(* The hooks *)

\* A hook is over: the job begins, or the runner waits for the next one.
HookReturns == phase' = (IF phase = "started" THEN "job" ELSE "idle") /\ HookDies

\* newHookCommand reads the configuration once.
LoadConfig ==
    /\ step = "config"
    /\ clean' = cleanup
    /\ step' = (IF phase = "completed" THEN "read" ELSE IF cleanup THEN "list" ELSE "write")
    /\ blind' = (IF phase = "started" /\ ~cleanup THEN "unwritten" ELSE blind)
    /\ UNCHANGED <<dockerVars, file, runnerVars, configVars, next, found, previous, doomed,
                   before, slipped, problems>>

\* The configuration cannot be read, so nothing is recorded.
LoadConfigFails ==
    /\ step = "config"
    /\ HookReturns
    /\ blind' = (IF phase = "started" THEN "unwritten" ELSE blind)
    /\ slipped' = TRUE
    /\ problems' = TRUE
    /\ UNCHANGED <<dockerVars, file, job, kills, configVars, before>>

\* hookCompleted: Read.
ReadFile ==
    /\ step = "read"
    /\ previous' = file
    /\ step' = (IF clean THEN "list" ELSE "write")
    /\ problems' = ~clean
    /\ UNCHANGED <<dockerVars, file, runnerVars, configVars, clean, next, found, doomed, before,
                   blind, slipped>>

\* It fails, and the hook goes on with what Read returned.
ReadFails ==
    /\ step = "read"
    /\ previous' = Blank
    /\ step' = (IF clean THEN "list" ELSE "write")
    /\ problems' = ~clean
    /\ blind' = "unwritten"
    /\ UNCHANGED <<dockerVars, file, runnerVars, configVars, clean, next, found, doomed, before,
                   slipped>>

AddedEverything(base, now) == now
AddedContainers(base, now) == (now \ base) \cap Container

Added(base, now) == now \ base

\* Take lists one kind after another.
ListKind ==
    /\ step = "list"
    /\ found' = found \cup (exists \cap Kind[next])
    /\ IF next < 3
       THEN next' = next + 1 /\ UNCHANGED <<step, doomed>>
       ELSE /\ next' = 1
            /\ step' = (IF phase = "started" THEN "write" ELSE "remove")
            /\ doomed' = (IF phase = "started" THEN {} ELSE Added(previous.docker, found'))
    /\ UNCHANGED <<dockerVars, file, runnerVars, configVars, clean, previous, history>>

\* A list fails.  The first hook goes on with an empty snapshot, the second
\* without a clean-up.
ListFails ==
    /\ step = "list"
    /\ found' = {} /\ next' = 1
    /\ step' = "write"
    /\ blind' = (IF phase = "started" THEN "untaken" ELSE blind)
    /\ problems' = TRUE
    /\ UNCHANGED <<dockerVars, file, runnerVars, configVars, clean, previous, doomed, before,
                   slipped>>

\* Remove: containers first, then volumes, then networks.
NextDoomed(t) ==
    \/ t \in Container
    \/ t \in Volume /\ doomed \cap Container = {}
    \/ t \in Network /\ doomed \subseteq Network

RemoveOne ==
    /\ step = "remove"
    /\ \E t \in doomed : NextDoomed(t) /\ doomed' = doomed \ {t} /\ exists' = exists \ {t}
    /\ UNCHANGED <<by, file, runnerVars, configVars, step, clean, next, found, previous, history>>

\* What cannot be removed is reported and left.
RemoveFails ==
    /\ step = "remove"
    /\ \E t \in doomed : NextDoomed(t) /\ doomed' = doomed \ {t}
    /\ problems' = TRUE
    /\ UNCHANGED <<dockerVars, file, runnerVars, configVars, step, clean, next, found, previous,
                   before, blind, slipped>>

RemoveEnds ==
    /\ step = "remove" /\ doomed = {}
    /\ step' = "write"
    /\ UNCHANGED <<dockerVars, file, runnerVars, configVars, clean, next, found, previous, doomed,
                   history>>

RunningRecord == [running |-> TRUE, started |-> job, finished |-> FALSE, docker |-> found]

StillRunningRecord == [previous EXCEPT !.finished = TRUE]

IdleRecord == [running |-> FALSE, started |-> previous.started, finished |-> TRUE, docker |-> {}]

\* Write: a temporary file, renamed.
WriteFile ==
    /\ step = "write"
    /\ file' = (IF phase = "started" THEN RunningRecord ELSE IdleRecord)
    /\ slipped' = FALSE
    /\ HookReturns
    /\ UNCHANGED <<dockerVars, job, kills, configVars, before, blind, problems>>

WriteFails ==
    /\ step = "write"
    /\ HookReturns
    /\ blind' = (IF phase = "started" /\ blind = "no" THEN "unwritten" ELSE blind)
    /\ slipped' = TRUE
    /\ UNCHANGED <<dockerVars, file, job, kills, configVars, before, problems>>

-----------------------------------------------------------------------------
Hook ==
    \/ LoadConfig \/ LoadConfigFails \/ ReadFile \/ ReadFails \/ ListKind \/ ListFails
    \/ RemoveOne \/ RemoveFails \/ RemoveEnds \/ WriteFile \/ WriteFails

Next ==
    \/ Launch \/ TakeJob \/ FinishJob \/ Kill
    \/ JobCreates \/ OtherCreates \/ Vanish \/ Edit
    \/ Hook

Spec == Init /\ [][Next]_vars

-----------------------------------------------------------------------------
(* Properties *)

\* A step of a clean-up, and not of somebody else.
CleansUp == step = "remove" /\ doomed' # doomed

\* What Docker held when a job began survives its clean-up, whoever it belongs
\* to, unless the second hook could not know what that was.
KeepsWhatWasThere ==
    [][CleansUp => before \cap exists \subseteq exists' \/ blind # "no"]_vars

\* hook.go: "could not record the Docker state, so nothing will be cleaned up
\* after this job".
UntakenCleansNothing == [][CleansUp /\ blind = "untaken" => UNCHANGED exists]_vars

\* A clean-up that met no problem leaves nothing of its job behind.
LeavesNothing ==
    [][step = "remove" /\ step' = "write" /\ ~problems => \A t \in exists : by[t] # job]_vars

\* What the file says is what the runner does, unless a hook was cut short or
\* failed since it was last written.
FileTellsTheTruth ==
    \/ slipped
    \/ /\ phase = "job" => file.running /\ file.started = job
       /\ phase \in {"off", "idle"} => ~file.running

\* What Running and FinishedAJob make of job.json.
Record ==
    IF file.running THEN "running"
    ELSE IF file.started > 0 /\ file.finished THEN "finished" ELSE "none"

Told == INSTANCE JobFile WITH busy <- phase \in {"job", "completed"}, record <- Record

\* The hooks, whatever fails in them and whenever they die, keep the promise of
\* JobFile: no reader is told of the end of a job before one has begun and ended.
ImplementsJobFile == Told!FileSpec
=============================================================================
