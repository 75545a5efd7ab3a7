----------------------------- MODULE Supervisor -----------------------------
(***************************************************************************)
(* The supervisor that keeps one runner process alive                      *)
(* (internal/supervisor).  Three parties take steps:                       *)
(*                                                                         *)
(*   - the goroutine in Supervisor.Run: launch, wait, decide, back off;    *)
(*   - the goroutine that calls Supervisor.Restart (the agent's reporter,  *)
(*     carrying out an operator's command): it marks the current process   *)
(*     under the mutex and signals it after unlocking;                     *)
(*   - the runner process itself, which may exit at any moment, cleanly or *)
(*     not, and which may or may not have finished a job before.           *)
(*                                                                         *)
(* Processes are numbered in the order they are launched.  The supervisor's*)
(* own code takes no time on the clock, which counts the unit the policy   *)
(* is configured in; time passes while it waits in a select.               *)
(***************************************************************************)
EXTENDS Naturals, FiniteSets

CONSTANTS
    Initial, Factor, MaxDelay,  \* Backoff.Initial, .Factor, .Max
    MaxRestarts,                \* restarts in a row before giving up
    ResetAfter,                 \* uptime that forgives the row
    MaxRestartsPerWindow,       \* restart budget; 0 means no ceiling
    Window,                     \* span the budget counts over
    StopTimeout,                \* grace between Stop and Kill
    Ephemeral,                  \* a clean exit may be the end of the work
    HooksInstalled,             \* EphemeralDone is set, and reads the hooks
    MaxUptime,                  \* environment: how long a process stays up, unstopped
    MaxTime,                    \* bound on the clock, the shutdown grace apart
    MaxRequests                 \* bound on accepted Restart calls

\* Backoff.Delay, for attempt >= 1 and Factor >= 1.
Delay(n) ==
    LET d == Initial * Factor^(n - 1)
    IN  IF MaxDelay > 0 /\ d > MaxDelay THEN MaxDelay ELSE d

ASSUME PolicyAssumption ==
    /\ MaxRestarts \in Nat \ {0}
    /\ ResetAfter \in Nat
    /\ MaxRestartsPerWindow \in Nat
    /\ Window \in Nat
    /\ StopTimeout \in Nat
    /\ MaxUptime \in Nat
    /\ MaxTime \in Nat
    /\ MaxRequests \in Nat
    /\ Ephemeral \in BOOLEAN
    /\ HooksInstalled \in BOOLEAN

ASSUME DelayAssumption == \A n \in 1 .. MaxRestarts : Delay(n) \in Nat

VARIABLES
    clock,
    \* the goroutine in Run
    pc,          \* where it is, see Points
    attempt,     \* consecutive restarts
    recent,      \* s.recent: [at, id] of the restarts counted in the window
    startedAt,
    due,         \* when the timer of the current select fires
    asked,       \* the local that takeRestartFlag returned
    outcome,     \* why Run returned
    \* shared under s.mu
    current,     \* s.current: a process, or NoProcess
    restarting,  \* s.restarting
    \* the goroutine in Restart
    stopping,    \* the process it is about to Stop, or NoProcess
    \* the operating system and the environment
    launched,    \* how many processes were started
    alive,       \* the processes that are running
    clean,       \* the last process to exit returned a nil error
    jobDone,     \* EphemeralDone: the hooks recorded a finished job
    cancelled,   \* the context is done
    \* history
    signalled,   \* processes whose Stop came from Restart, while they ran
    accepted,    \* processes a Restart call returned true for
    requests,    \* how many calls that was
    spends,      \* every entry ever appended to s.recent
    launchedAtCancel

runVars     == <<pc, attempt, recent, startedAt, due, asked, outcome>>
sharedVars  == <<current, restarting>>
processVars == <<launched, alive, clean, jobDone>>
requestVars == <<stopping, signalled, accepted, requests>>
cancelVars  == <<cancelled, launchedAtCancel>>
vars == <<clock, runVars, sharedVars, processVars, requestVars, cancelVars, spends>>

NoProcess == 0

\* launch: the top of the loop.  wait: the select in awaitExit.  stop, kill:
\* the waits of awaitExit after Stop and after Kill.  reaped: awaitExit has
\* returned.  taken: takeRestartFlag has.  backoff: the select in
\* waitBeforeRetry.
Points == {"launch", "wait", "stop", "kill", "reaped", "taken", "backoff", "done"}

\* What Run returned: nil at a shutdown, nil for an ephemeral process whose work
\* is done, ErrGaveUp.
Outcomes == {"none", "stopped", "completed", "gave_up"}

Entry == [at : Nat, id : Nat]

\* Run's locals, the fields under the mutex and the process, each in its range.
TypeOK ==
    /\ clock \in Nat
    /\ pc \in Points
    /\ attempt \in Nat
    /\ recent \subseteq Entry
    /\ startedAt \in Nat
    /\ due \in Nat
    /\ asked \in BOOLEAN
    /\ outcome \in Outcomes
    /\ current \in Nat
    /\ restarting \in BOOLEAN
    /\ stopping \in Nat
    /\ launched \in Nat
    /\ alive \subseteq Nat
    /\ clean \in BOOLEAN
    /\ jobDone \in BOOLEAN
    /\ cancelled \in BOOLEAN
    /\ signalled \subseteq Nat
    /\ accepted \subseteq Nat
    /\ requests \in Nat
    /\ spends \subseteq Entry
    /\ launchedAtCancel \in Nat

Init ==
    /\ clock = 0
    /\ pc = "launch"
    /\ attempt = 0
    /\ recent = {}
    /\ startedAt = 0
    /\ due = 0
    /\ asked = FALSE
    /\ outcome = "none"
    /\ current = NoProcess
    /\ restarting = FALSE
    /\ stopping = NoProcess
    /\ launched = 0
    /\ alive = {}
    /\ clean = FALSE
    /\ jobDone = FALSE
    /\ cancelled = FALSE
    /\ signalled = {}
    /\ accepted = {}
    /\ requests = 0
    /\ spends = {}
    /\ launchedAtCancel = 0

-----------------------------------------------------------------------------
(* The goroutine in Run.                                                   *)

Uptime == clock - startedAt

Return(why) ==
    /\ pc' = "done"
    /\ outcome' = why

\* Mutant of SetCurrent: a flag raised too late is kept for the next process.
SetCurrentKeepingFlag(p) ==
    /\ current' = p
    /\ UNCHANGED restarting

\* A flag raised while nothing was running is lowered for the new process.
SetCurrent(p) ==
    /\ current' = p
    /\ restarting' = IF p = NoProcess THEN restarting ELSE FALSE

TakeFlag ==
    /\ asked' = restarting
    /\ restarting' = FALSE

\* Mutants of Waited: Kill counts as an exit; nothing waits after Kill.
WaitedOrKilled == launched \notin alive \/ pc = "kill"
WaitedBeforeKill == launched \notin alive /\ pc # "kill"

\* awaitExit: the channel that Wait's result is sent on can be received from.
Waited == launched \notin alive

\* Mutant of TimerFired: a timer set to no delay.
TimerFiredAtOnce == TRUE

TimerFired == clock >= due

\* waitBeforeRetry(ctx, n), up to its select.
WaitBeforeRetry(n) ==
    /\ attempt' = n
    /\ \/ /\ MaxRestarts > 0
          /\ n > MaxRestarts
          /\ Return("gave_up")
          /\ UNCHANGED due
       \/ /\ ~(MaxRestarts > 0 /\ n > MaxRestarts)
          /\ pc' = "backoff"
          /\ due' = clock + Delay(n)
          /\ UNCHANGED outcome

\* Start succeeded, and setCurrent published the process.
Launch ==
    /\ pc = "launch"
    /\ launched' = launched + 1
    /\ alive' = alive \cup {launched + 1}
    /\ SetCurrent(launched + 1)
    /\ startedAt' = clock
    /\ pc' = "wait"
    /\ UNCHANGED <<clock, attempt, recent, due, asked, outcome, clean, jobDone,
                   requestVars, cancelVars, spends>>

\* Start returned an error.
LaunchFails ==
    /\ pc = "launch"
    /\ WaitBeforeRetry(attempt + 1)
    /\ UNCHANGED <<clock, recent, startedAt, asked, sharedVars, processVars,
                   requestVars, cancelVars, spends>>

\* awaitExit: Wait returned.  With the context done as well, select picks
\* either branch.
ObserveExit ==
    /\ pc = "wait"
    /\ Waited
    /\ pc' = "reaped"
    /\ UNCHANGED <<clock, attempt, recent, startedAt, due, asked, outcome,
                   sharedVars, processVars, requestVars, cancelVars, spends>>

\* awaitExit: the context is done, so Stop the process and start the timer.
ObserveCancel ==
    /\ pc = "wait"
    /\ cancelled
    /\ pc' = "stop"
    /\ due' = clock + StopTimeout
    /\ UNCHANGED <<clock, attempt, recent, startedAt, asked, outcome,
                   sharedVars, processVars, requestVars, cancelVars, spends>>

\* awaitExit: the grace ran out.
Kill ==
    /\ pc = "stop"
    /\ TimerFired
    /\ pc' = "kill"
    /\ UNCHANGED <<clock, attempt, recent, startedAt, due, asked, outcome,
                   sharedVars, processVars, requestVars, cancelVars, spends>>

\* awaitExit reported a shutdown: take the flag, clear current, return nil.
ShutDown ==
    /\ pc \in {"stop", "kill"}
    /\ Waited
    /\ TakeFlag
    /\ current' = NoProcess
    /\ Return("stopped")
    /\ UNCHANGED <<clock, attempt, recent, startedAt, due, processVars,
                   requestVars, cancelVars, spends>>

TakeRestartFlag ==
    /\ pc = "reaped"
    /\ TakeFlag
    /\ pc' = "taken"
    /\ UNCHANGED <<clock, attempt, recent, startedAt, due, outcome, current,
                   processVars, requestVars, cancelVars, spends>>

\* ephemeralFinished: with no hooks to ask, every clean exit is the end.
EphemeralFinished == HooksInstalled => jobDone

WorkIsDone == Ephemeral /\ clean /\ EphemeralFinished

\* What Run does after setCurrent(nil), in the order it asks.
RestartAsked ==
    /\ pc = "taken"
    /\ asked
    /\ SetCurrent(NoProcess)
    /\ pc' = "launch"
    /\ UNCHANGED <<clock, attempt, recent, startedAt, due, asked, outcome,
                   processVars, requestVars, cancelVars, spends>>

Complete ==
    /\ pc = "taken"
    /\ ~asked
    /\ WorkIsDone
    /\ SetCurrent(NoProcess)
    /\ Return("completed")
    /\ UNCHANGED <<clock, attempt, recent, startedAt, due, asked,
                   processVars, requestVars, cancelVars, spends>>

Forgiven == ResetAfter > 0 /\ Uptime >= ResetAfter

Metered == MaxRestartsPerWindow > 0 /\ Window > 0

\* Mutant of Now: the cutoff is appended in place of the restart.
NowIsCutoff == [at |-> clock - Window, id |-> launched]

Now == [at |-> clock, id |-> launched]

\* Mutants of Kept: a process that stayed up clears the budget as well; a
\* restart is never too old to count.
KeptUnlessForgiven ==
    IF Forgiven THEN {} ELSE {e \in recent : e.at + Window > clock}

KeptForEver == recent

\* spendRestart: prune what is older than the window, append this restart.
Kept == {e \in recent : e.at + Window > clock}

SpendRestart ==
    IF Metered
    THEN /\ recent' = Kept \cup {Now}
         /\ spends' = spends \cup {Now}
    ELSE UNCHANGED <<recent, spends>>

OverBudget == Metered /\ Cardinality(Kept \cup {Now}) > MaxRestartsPerWindow

Fail ==
    /\ pc = "taken"
    /\ ~asked
    /\ ~WorkIsDone
    /\ SetCurrent(NoProcess)
    /\ SpendRestart
    /\ LET row == IF Forgiven THEN 0 ELSE attempt
       IN  \/ /\ OverBudget
              /\ attempt' = row
              /\ Return("gave_up")
              /\ UNCHANGED due
           \/ /\ ~OverBudget
              /\ WaitBeforeRetry(row + 1)
    /\ UNCHANGED <<clock, startedAt, asked, processVars, requestVars, cancelVars>>

\* waitBeforeRetry: the timer fired.
Retry ==
    /\ pc = "backoff"
    /\ TimerFired
    /\ pc' = "launch"
    /\ UNCHANGED <<clock, attempt, recent, startedAt, due, asked, outcome,
                   sharedVars, processVars, requestVars, cancelVars, spends>>

\* waitBeforeRetry: the context is done.
AbandonRetry ==
    /\ pc = "backoff"
    /\ cancelled
    /\ Return("stopped")
    /\ UNCHANGED <<clock, attempt, recent, startedAt, due, asked,
                   sharedVars, processVars, requestVars, cancelVars, spends>>

-----------------------------------------------------------------------------
(* The goroutine in Restart.                                               *)

\* Under the mutex.  With nothing current, Restart returns false and
\* changes nothing, which is a stuttering step.
AcceptRestart ==
    /\ requests < MaxRequests
    /\ stopping = NoProcess
    /\ current # NoProcess
    /\ restarting' = TRUE
    /\ stopping' = current
    /\ accepted' = accepted \cup {current}
    /\ requests' = requests + 1
    /\ UNCHANGED <<clock, runVars, current, processVars, signalled, cancelVars, spends>>

\* Mutant of Signal: Restart only marks the process.
SignalNothing(p) == UNCHANGED signalled

Signal(p) == signalled' = signalled \cup (alive \cap {p})

\* After the mutex is released: Stop the process that was read under it.  It
\* fails, harmlessly, when the process is gone.
SendStop ==
    /\ stopping # NoProcess
    /\ Signal(stopping)
    /\ stopping' = NoProcess
    /\ UNCHANGED <<clock, runVars, sharedVars, processVars, accepted, requests,
                   cancelVars, spends>>

-----------------------------------------------------------------------------
(* The process, the context and the clock.                                 *)

ProcessExits ==
    \E p \in alive, c \in BOOLEAN :
        /\ alive' = alive \ {p}
        /\ clean' = c
        /\ UNCHANGED <<clock, runVars, sharedVars, launched, jobDone,
                       requestVars, cancelVars, spends>>

\* The job-completed hook ran.
FinishJob ==
    /\ alive # {}
    /\ ~jobDone
    /\ jobDone' = TRUE
    /\ UNCHANGED <<clock, runVars, sharedVars, launched, alive, clean,
                   requestVars, cancelVars, spends>>

Cancel ==
    /\ ~cancelled
    /\ pc # "done"
    /\ cancelled' = TRUE
    /\ launchedAtCancel' = launched
    /\ UNCHANGED <<clock, runVars, sharedVars, processVars, requestVars, spends>>

\* Time passes only where Run waits and no branch of its select is ready.
Idle ==
    \/ pc = "wait" /\ launched \in alive /\ ~cancelled
    \/ pc = "stop" /\ launched \in alive /\ ~TimerFired
    \/ pc = "backoff" /\ ~TimerFired /\ ~cancelled

Tick ==
    /\ Idle
    /\ clock < MaxTime \/ pc = "stop"
    /\ pc = "wait" => Uptime < MaxUptime
    /\ clock' = clock + 1
    /\ UNCHANGED <<runVars, sharedVars, processVars, requestVars, cancelVars, spends>>

\* Run has returned; nothing is left to do.
Returned == pc = "done" /\ UNCHANGED vars

-----------------------------------------------------------------------------

RunStep ==
    \/ Launch \/ LaunchFails
    \/ ObserveExit \/ ObserveCancel \/ Kill \/ ShutDown
    \/ TakeRestartFlag \/ RestartAsked \/ Complete \/ Fail
    \/ Retry \/ AbandonRetry

RestartStep == AcceptRestart \/ SendStop

Environment == ProcessExits \/ FinishJob \/ Cancel \/ Tick

Next == RunStep \/ RestartStep \/ Environment \/ Returned

Spec == Init /\ [][Next]_vars

\* The Go scheduler runs a goroutine that can run, a timer fires, and a
\* process that was sent SIGKILL dies.  Nothing makes a process exit of its
\* own accord, and nothing makes Start succeed.
Fairness ==
    /\ WF_vars(RunStep)
    /\ WF_vars(SendStop)
    /\ WF_vars(Tick)
    /\ WF_vars(pc = "kill" /\ ProcessExits)

FairSpec == Spec /\ Fairness

\* A runner that honours Stop, once its job is over.
CooperativeSpec == FairSpec /\ WF_vars(launched \in signalled /\ ProcessExits)

-----------------------------------------------------------------------------
(* Safety.                                                                 *)

\* The machine never runs two runners from one directory, and Run never
\* returns, or waits to try again, with a runner still running behind it.
OneRunner ==
    /\ alive \subseteq {launched}
    /\ pc \notin {"wait", "stop", "kill"} => alive = {}

\* The phase of the runner at each point of Run.
LifeAt ==
    [launch |-> "between", backoff |-> "between", wait |-> "running",
     reaped |-> "exited", taken |-> "exited", stop |-> "stopping", kill |-> "stopping",
     done |-> "ended"]

Life == INSTANCE RunnerLife WITH life <- LifeAt[pc]

\* What the reporter, the commands and an ephemeral run take for granted of the
\* supervisor: a runner is launched only when the one before it is gone, a phase
\* ends only with its runner gone, and a shutdown is the only way to stop one that
\* is not launched again or given up on.  Run implements RunnerLife.
ImplementsLife == Life!LifeSpec

\* The restarts in the span of Window that ends with this one.
RestartsIn(last) ==
    {e \in spends : e.at <= last.at /\ e.id <= last.id /\ e.at + Window > last.at}

OverspentAt(last) == Cardinality(RestartsIn(last)) > MaxRestartsPerWindow

\* Over any span of Window, at most MaxRestartsPerWindow failed processes
\* were restarted, whatever ResetAfter forgave and however spendRestart
\* pruned in between.
WithinBudget ==
    outcome # "gave_up" => \A last \in spends : ~OverspentAt(last)

\* Restarts spread wider than Window do not add up: Run gives up only on a row
\* of MaxRestarts that nothing forgave, or on a span that did hold too many.
GivesUpForCause ==
    outcome = "gave_up" =>
        attempt > MaxRestarts \/ \E last \in spends : OverspentAt(last)

\* spendRestart keeps the budget as it is meant, whatever it pruned and whatever
\* ResetAfter forgave: too many restarts in any one span of Window end
\* supervision, and restarts that no such span holds together never do.
BudgetDecides == WithinBudget /\ GivesUpForCause

\* An operator's restart excuses the exit of the process it was aimed at and
\* of no other: the flag never lingers to swallow a later, real failure.
RestartExcusesItsTarget ==
    pc = "taken" /\ asked => launched \in accepted

\* After the context is done, Run launches at most one more process for each
\* operator restart that was racing with it, and one for a retry that was.
ShutdownLaunches ==
    cancelled => launched <= launchedAtCancel + 1 + requests

(* Liveness.                                                               *)

\* A shutdown always ends, with the runner gone.
ShutdownEnds == cancelled ~> (pc = "done" /\ alive = {})

\* While Run waits for it, the process has not been up for long: so many rounds,
\* each with an uptime such as this and every delay a row of restarts may add to
\* it, fit into one Window.
Hasty ==
    pc = "wait" =>
        MaxRestartsPerWindow * (Uptime + MaxRestarts * Delay(MaxRestarts)) < Window

\* A runner that keeps dying, and soon enough for a Window to hold more failures
\* than the budget allows, is given up on, even if each time it stays up long
\* enough for spendRestart's caller to forgive the row of restarts, and if
\* launches fail in between.  A runner whose failures are further apart is
\* restarted for ever, and is meant to be.
CrashLoopEnds ==
    Metered /\ WF_vars(ProcessExits) /\ []Hasty => <>(pc = "done")

\* An accepted restart ends the process it was aimed at.
RestartReachesItsTarget ==
    \A p \in 1 .. (MaxRequests + 3) : p \in accepted ~> p \notin alive

-----------------------------------------------------------------------------
(* What comments in the code say and the code does not do.                 *)

\* supervisor.go on Options.Ephemeral: "A clean exit then ends supervision
\* instead of restarting", once its work is done.
FinishedEphemeralEnds ==
    [][ pc = "taken" /\ WorkIsDone /\ pc' # "taken" => pc' = "done" ]_vars
=============================================================================
