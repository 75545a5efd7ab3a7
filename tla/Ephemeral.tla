------------------------------ MODULE Ephemeral ------------------------------
(***************************************************************************)
(* `runnerly ephemeral run`, again and again on one machine                *)
(* (internal/cli/ephemeral.go): register a runner, let it take one job,    *)
(* take it apart.  A service manager starts the next run when one ends.    *)
(*                                                                         *)
(* Runs are numbered; the number stands for the random name of a run, so   *)
(* no two runs share a name, but they share the directory, runners.yaml    *)
(* and the credentials file.  Any step may fail as the code allows, and a  *)
(* run may die between any two: the command handles no signal, so that is  *)
(* also what a service manager's stop comes to.  The runner of a run that  *)
(* died has a process group of its own, and may live on.                   *)
(*                                                                         *)
(* The supervisor's policy is in Supervisor, the hooks in JobHooks, and    *)
(* what becomes of a report in Reporting.                                  *)
(***************************************************************************)
EXTENDS Naturals

CONSTANT
    MaxRuns     \* bound on the runs

ASSUME EphemeralAssumption == MaxRuns \in Nat

Run == 1 .. MaxRuns
None == 0

VARIABLES
    \* the run under way, or the last one
    name,
    pc,
    outcome,    \* what agent.Run said of it
    plane,      \* the runner it reports as, or None
    \* the directory
    unpacked,   \* "part": config.sh is there, and something else is not
    configured, \* the name in .runner
    job,        \* job.json
    \* the rest of the machine
    recorded,   \* runners.yaml
    credential, \* the runner the server's entry in credentials.yaml is for
    alive,      \* runner processes
    \* elsewhere
    registered, \* at GitHub
    row,        \* at the control plane
    \* history
    working,    \* runners in the middle of their job
    worked,     \* runners that finished one
    faulty,     \* runs that died, or could not finish a step
    spoiled     \* one of them may have left a job.json, or a runner

runVars == <<name, pc, outcome, plane>>
dirVars == <<unpacked, configured, job>>
machineVars == <<recorded, credential>>
history == <<worked, faulty, spoiled>>
vars == <<runVars, dirVars, machineVars, alive, registered, row, working, history>>

\* idle: no run.  exited, ended: the supervisor decides, and agent.Run sums up.
Points ==
    {"idle", "install", "unpack", "configure", "record", "enroll",
     "launch", "supervise", "exited", "ended",
     "retire", "deregister", "destroy", "forget"}

\* Only a process that runs is in the middle of a job.
TypeOK ==
    /\ name \in 0 .. MaxRuns
    /\ pc \in Points
    /\ name = None => pc = "idle"
    /\ outcome \in {"none", "completed", "stopped", "failed"}
    /\ plane \in 0 .. MaxRuns
    /\ unpacked \in {"no", "part", "whole"}
    /\ configured \in 0 .. MaxRuns
    /\ job \in {"none", "running", "finished"}
    /\ recorded \subseteq Run
    /\ credential \in 0 .. MaxRuns
    /\ alive \subseteq Run
    /\ registered \subseteq Run
    /\ row \in [Run -> {"none", "active", "retired"}]
    /\ working \subseteq alive
    /\ worked \subseteq Run
    /\ faulty \subseteq Run
    /\ spoiled \in BOOLEAN

Init ==
    /\ name = None
    /\ pc = "idle"
    /\ outcome = "none"
    /\ plane = None
    /\ unpacked = "no"
    /\ configured = None
    /\ job = "none"
    /\ recorded = {}
    /\ credential = None
    /\ alive = {}
    /\ registered = {}
    /\ row = [n \in Run |-> "none"]
    /\ working = {}
    /\ worked = {}
    /\ faulty = {}
    /\ spoiled = FALSE

\* The run goes from one point to another.
Step(from, to) == pc = from /\ pc' = to

\* A step of the run that could not be finished.
Fault == faulty' = faulty \cup {name}

-----------------------------------------------------------------------------
(* registerEphemeral.                                                      *)

\* Up to the registration token: what fails there leaves nothing.
Begin ==
    /\ Step("idle", "install")
    /\ name < MaxRuns
    /\ name' = name + 1
    /\ outcome' = "none"
    /\ plane' = None
    /\ UNCHANGED <<dirVars, machineVars, alive, registered, row, working, history>>

\* fetch.  What was cut off, or is not what GitHub published, is not unpacked;
\* the next run downloads it again.
Fetch ==
    /\ pc = "install"
    /\ unpacked = "no"
    /\ pc' \in {"unpack", "idle"}
    /\ UNCHANGED <<name, outcome, plane, dirVars, machineVars, alive, registered,
                   row, working, history>>

\* hasRunnerScripts asks for config.sh alone.
Reuse ==
    /\ Step("install", "configure")
    /\ unpacked # "no"
    /\ UNCHANGED <<name, outcome, plane, dirVars, machineVars, alive, registered,
                   row, working, history>>

Unpack ==
    /\ Step("unpack", "configure")
    /\ unpacked' = "whole"
    /\ UNCHANGED <<name, outcome, plane, configured, job, machineVars, alive,
                   registered, row, working, history>>

\* Extract fails, or the archive cannot be deleted.
UnpackFails ==
    /\ Step("unpack", "idle")
    /\ unpacked' \in {"no", "part", "whole"}
    /\ UNCHANGED <<name, outcome, plane, configured, job, machineVars, alive,
                   registered, row, working, history>>

\* configure: config.sh registers the runner and writes .runner.
Configure ==
    /\ Step("configure", "record")
    /\ registered' = registered \cup {name}
    /\ configured' = name
    /\ UNCHANGED <<name, outcome, plane, unpacked, job, machineVars, alive,
                   row, working, history>>

\* It may have registered the runner and failed afterwards.
ConfigureFails ==
    /\ Step("configure", "idle")
    /\ \/ UNCHANGED <<registered, faulty>>
       \/ registered' = registered \cup {name} /\ Fault
    /\ UNCHANGED <<name, outcome, plane, dirVars, machineVars, alive, row, working,
                   worked, spoiled>>

\* state.Put: a failure is a warning.
Record ==
    /\ Step("record", "enroll")
    /\ recorded' \in {recorded, recorded \cup {name}}
    /\ UNCHANGED <<name, outcome, plane, dirVars, credential, alive, registered,
                   row, working, history>>

-----------------------------------------------------------------------------
(* superviseEphemeral.                                                     *)

\* Enroll takes the credential it finds, whosever it is; without one it
\* registers.  A run that could not enroll, or has no server, is not reported.
Enroll ==
    /\ Step("enroll", "launch")
    /\ \/ /\ credential # None
          /\ plane' = credential
          /\ UNCHANGED <<credential, row>>
       \/ /\ credential = None
          /\ row' = [row EXCEPT ![name] = "active"]
          /\ credential' = name
          /\ plane' = name
       \/ UNCHANGED <<credential, plane, row>>
    /\ UNCHANGED <<name, outcome, dirVars, recorded, alive, registered, working, history>>

\* It is enrolled, and could not store the credential: nobody can retire it.
EnrollForgets ==
    /\ Step("enroll", "launch")
    /\ credential = None
    /\ row' = [row EXCEPT ![name] = "active"]
    /\ Fault
    /\ UNCHANGED <<name, outcome, plane, dirVars, machineVars, alive, registered, working,
                   worked, spoiled>>

\* Preflight, and the first launch; its failure is like an exit.
Launch ==
    /\ Step("launch", "supervise")
    /\ alive' = alive \cup {name}
    /\ UNCHANGED <<name, outcome, plane, dirVars, machineVars, registered, row, working,
                   history>>

\* An unknown --log-format, an incomplete directory.
RefusesToRun ==
    /\ pc = "enroll" \/ (pc = "launch" /\ unpacked = "part")
    /\ pc' = "retire"
    /\ outcome' = "failed"
    /\ UNCHANGED <<name, plane, dirVars, machineVars, alive, registered, row, working,
                   history>>

\* Mutant of Exit: the job of a runner outlives it.
ExitAlone(n) == alive' = alive \ {n} /\ UNCHANGED working

\* A runner takes its job with it.
Exit(n) == alive' = alive \ {n} /\ working' = working \ {n}

RunnerExits ==
    /\ Step("supervise", "exited")
    /\ Exit(name)
    /\ UNCHANGED <<name, outcome, plane, dirVars, machineVars, registered, row, history>>

\* A clean exit, and ephemeralDone finds that a job was finished.
Done ==
    /\ Step("exited", "ended")
    /\ job = "finished"
    /\ UNCHANGED <<name, outcome, plane, dirVars, machineVars, alive, registered, row,
                   working, history>>

\* Any other exit.
Relaunch ==
    /\ Step("exited", "supervise")
    /\ alive' = alive \cup {name}
    /\ UNCHANGED <<name, outcome, plane, dirVars, machineVars, registered, row, working,
                   history>>

GiveUp ==
    /\ Step("exited", "retire")
    /\ outcome' = "failed"
    /\ UNCHANGED <<name, plane, dirVars, machineVars, alive, registered, row, working,
                   history>>

\* agent.Run reads job.json again.
Conclude ==
    /\ Step("ended", "retire")
    /\ outcome' = IF job = "finished" THEN "completed" ELSE "stopped"
    /\ UNCHANGED <<name, plane, dirVars, machineVars, alive, registered, row, working,
                   history>>

-----------------------------------------------------------------------------
(* The runners: GitHub gives a registered one a job, its hooks write the   *)
(* job.json of the directory, and GitHub forgets it once it has run one.   *)

TakeJob(n) ==
    /\ n \in alive \cap registered
    /\ n \notin working
    /\ working' = working \cup {n}
    /\ job' \in {job, "running"}
    /\ UNCHANGED <<runVars, unpacked, configured, machineVars, alive,
                   registered, row, history>>

FinishJob(n) ==
    /\ n \in working
    /\ working' = working \ {n}
    /\ worked' = worked \cup {n}
    /\ registered' = registered \ {n}
    /\ job' \in {job, "finished"}
    /\ UNCHANGED <<runVars, unpacked, configured, machineVars, alive,
                   row, faulty, spoiled>>

\* The runner of a run that died ends as well.
OrphanEnds(n) ==
    /\ n \in alive
    /\ n = name => pc = "idle"
    /\ Exit(n)
    /\ UNCHANGED <<runVars, dirVars, machineVars, registered, row, history>>

-----------------------------------------------------------------------------
(* teardownEphemeral.  Every step is attempted even if an earlier failed.  *)

\* Mutant of Retire: only a run that did something is reported.
RetireCompleted ==
    /\ Step("retire", "deregister")
    /\ row' = IF plane = None \/ outcome # "completed" THEN row
              ELSE [row EXCEPT ![plane] = "retired"]
    /\ UNCHANGED <<name, outcome, plane, dirVars, machineVars, alive, registered,
                   working, history>>

\* Retire, through the credential the run has.
Retire ==
    /\ Step("retire", "deregister")
    /\ row' = IF plane = None THEN row ELSE [row EXCEPT ![plane] = "retired"]
    /\ UNCHANGED <<name, outcome, plane, dirVars, machineVars, alive, registered,
                   working, history>>

\* Refused, not sent, or sent in vain.
RetireFails ==
    /\ Step("retire", "deregister")
    /\ plane # None
    /\ faulty' = faulty \cup {name, plane}
    /\ UNCHANGED <<name, outcome, plane, dirVars, machineVars, alive, registered, row,
                   working, worked, spoiled>>

\* Mutant of Deregister: GitHub is left to remove what ran its job.
DeregisterUnlessCompleted ==
    /\ Step("deregister", "destroy")
    /\ registered' = IF outcome = "completed" THEN registered ELSE registered \ {name}
    /\ UNCHANGED <<name, outcome, plane, dirVars, machineVars, alive, row, working,
                   history>>

\* FindRunnerByName finds the registration or not, and DeleteRunner deletes it.
Deregister ==
    /\ Step("deregister", "destroy")
    /\ registered' = registered \ {name}
    /\ UNCHANGED <<name, outcome, plane, dirVars, machineVars, alive, row, working,
                   history>>

\* GitHub does not answer, or does not delete.
DeregisterFails ==
    /\ Step("deregister", "destroy")
    /\ Fault
    /\ UNCHANGED <<name, outcome, plane, dirVars, machineVars, alive, registered, row,
                   working, worked, spoiled>>

\* Mutant of Cleared: the state of the hooks is not among the leftovers.
ClearedButJob == configured' = None /\ UNCHANGED job

\* ephemeralLeftovers.
Cleared == configured' = None /\ job' = "none"

\* destroyRunnerState, or with --purge RemoveAll.
Destroy ==
    /\ Step("destroy", "forget")
    /\ Cleared
    /\ unpacked' \in {unpacked, "no"}
    /\ UNCHANGED <<name, outcome, plane, machineVars, alive, registered, row, working,
                   history>>

\* What could not be deleted stays.
DestroyFails ==
    /\ Step("destroy", "forget")
    /\ configured' \in {configured, None}
    /\ job' \in {job, "none"}
    /\ unpacked' \in {unpacked, "part", "no"}
    /\ Fault
    /\ spoiled' = TRUE
    /\ UNCHANGED <<name, outcome, plane, machineVars, alive, registered, row, working,
                   worked>>

\* state.Delete.
Forget ==
    /\ Step("forget", "idle")
    /\ recorded' = recorded \ {name}
    /\ UNCHANGED <<name, outcome, plane, dirVars, credential, alive, registered,
                   row, working, history>>

ForgetFails ==
    /\ Step("forget", "idle")
    /\ Fault
    /\ UNCHANGED <<name, outcome, plane, dirVars, machineVars, alive, registered, row,
                   working, worked, spoiled>>

-----------------------------------------------------------------------------
(* The run dies.                                                           *)

\* What the step it was at may have done.
HalfDone ==
    /\ unpacked' \in {unpacked} \cup (IF pc \in {"unpack", "destroy"} THEN {"part", "no"} ELSE {})
    /\ registered' \in {registered} \cup (IF pc = "configure" THEN {registered \cup {name}}
                                         ELSE {})

Crash ==
    /\ pc # "idle"
    /\ pc' = "idle"
    /\ HalfDone
    /\ alive' \in {alive, alive \ {name}}
    /\ working' = working \cap alive'
    /\ Fault
    /\ spoiled' = TRUE
    /\ UNCHANGED <<name, outcome, plane, configured, job, machineVars, row, worked>>

-----------------------------------------------------------------------------

Register == Begin \/ Fetch \/ Reuse \/ Unpack \/ UnpackFails
                \/ Configure \/ ConfigureFails \/ Record

Supervise == Enroll \/ EnrollForgets \/ Launch \/ RefusesToRun \/ RunnerExits
                \/ Done \/ Relaunch \/ GiveUp \/ Conclude

Runners == \E n \in Run : TakeJob(n) \/ FinishJob(n) \/ OrphanEnds(n)

TearDown == Retire \/ RetireFails \/ Deregister \/ DeregisterFails
                \/ Destroy \/ DestroyFails \/ Forget \/ ForgetFails

Next == Register \/ Supervise \/ Runners \/ TearDown \/ Crash

Spec == Init /\ [][Next]_vars

\* A run goes on until it ends.  Nothing makes a runner exit, and nothing makes
\* the supervisor stop launching one that does: exits that are far enough apart
\* are never too many (GivesUpForCause of Supervisor).
FairSpec ==
    /\ Spec
    /\ WF_vars((Register /\ pc # "idle") \/ (Supervise /\ pc # "supervise") \/ TearDown)

-----------------------------------------------------------------------------
(* Properties                                                              *)

\* The run is over, and every step of it that can leave something was finished.
TornDown(n) == n <= name /\ n \notin faulty /\ (n = name => pc = "idle")

\* ephemeral.go: "every path must end in teardown".  A run leaves nothing of
\* itself behind, at GitHub, in runners.yaml, in the directory or in the process
\* table, and the dashboard does not show it as being at work, whichever way it
\* ended and whatever its predecessors left; only a run that died or reported a
\* failed step may.
LeavesNothing ==
    \A n \in Run : TornDown(n) =>
        /\ n \notin registered \cup recorded \cup alive \cup {configured}
        /\ row[n] # "active"

\* agent.go: "Completed is true when an ephemeral runner finished a job".  So it
\* is, unless a run before it died or could not clear the directory: then
\* job.json may be that one's, or be written by a runner it left behind.
CompletedWorked == outcome = "completed" => name \in worked \/ spoiled

\* No run stays with its supervisor for ever.  A runner that gets no job, or whose
\* exits are spaced so that the supervisor relaunches it each time, would.
SupervisionEnds == []<>(pc \notin {"supervise", "exited"})

\* What the dashboard shows as being at work is retired in the end, provided that
\* supervision ends; only a run that died, that could not keep its credential or
\* could not report may be left.
RetiredInTheEnd ==
    SupervisionEnds =>
        \A n \in Run : row[n] = "active" ~> row[n] = "retired" \/ n \in faulty
=============================================================================
