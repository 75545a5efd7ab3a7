------------------------------ MODULE Commands ------------------------------
(***************************************************************************)
(* The queue of commands an operator leaves for an agent                   *)
(* (internal/store/commands.go and its callers).  The server cannot reach  *)
(* an agent, so a restart is a row that the agent collects on a heartbeat, *)
(* carries out and reports on.  The rows of one runner are modelled; the   *)
(* parties are                                                             *)
(*                                                                         *)
(*   - operators: POST /runners/{id}/restart, a SELECT then an INSERT;     *)
(*   - the agent's reporter: one heartbeat at a time, the commands of its  *)
(*     answer one after another, one result request for each;              *)
(*   - collections the agent gave up on: TakeCommands is one UPDATE whose  *)
(*     sub-SELECT reads a snapshot, and its outer WHERE tests only the id, *)
(*     so between the snapshot and the write another statement may run;    *)
(*   - housekeeping, which fails what was queued too long ago;             *)
(*   - the supervisor, which shows here only as the phase its runner is in: *)
(*     it keeps to the phases of RunnerLife, as Supervisor is proved to.    *)
(*                                                                         *)
(* Commands are numbered in the order of created_at.                       *)
(***************************************************************************)
EXTENDS RunnerPhases, Naturals, FiniteSets

CONSTANTS
    Operator,      \* requests of the dashboard that run at the same time
    TakeLimit,     \* LIMIT of TakeCommands
    MaxCommands,   \* bound on rows ever inserted
    MaxStarts,     \* bound on starts of the agent
    MaxStray       \* bound on abandoned requests the server still works on

ASSUME QueueAssumption ==
    /\ TakeLimit \in Nat \ {0}
    /\ MaxCommands \in Nat
    /\ MaxStarts \in Nat
    /\ MaxStray \in Nat

Command == 1 .. MaxCommands
NoCommand == 0

VARIABLES
    \* the table runner_commands
    row,        \* status of every command, "none" before its INSERT
    made,       \* how many rows there are
    aged,       \* commands 1 .. aged are older than staleCommandAge
    \* operators
    asking,     \* "idle", or "insert" between the SELECT and the INSERT
    \* the agent
    agent,      \* the process is up
    starts,
    pc,         \* its reporter: see Points
    leaving,    \* finalReport: this heartbeat is the last
    todo,       \* commands of the answer, not carried out yet
    current,    \* the command whose result is being reported
    supervisor, \* the phase its runner is in, see RunnerPhases
    \* requests
    stage,      \* of the agent's heartbeat and of an abandoned one
    picked,     \* the ids each collection's snapshot selected
    lateResults,\* results whose request the agent gave up on
    \* history
    runs,       \* how many times the agent called Restart for a command
    carried,    \* the commands for which there was a runner to restart
    reopened,   \* the commands a collection wrote over after they were resolved
    looked,     \* how many rows there were when a request looked for an open one
    since       \* the same, of the request that a command was inserted by

tableVars == <<row, made, aged>>
agentVars == <<agent, starts, pc, leaving, todo, current>>
wireVars  == <<stage, picked, lateResults>>
runVars   == <<runs, carried>>
lookVars  == <<looked, since>>
historyVars == <<runVars, reopened, lookVars>>
vars == <<tableVars, asking, agentVars, supervisor, wireVars, historyVars>>

Status == {"none", "pending", "delivered", "done", "failed"}

\* loop: the select in reporter.run.  beat: a heartbeat is on its way.
\* work: runCommands, at the top of its loop.  report: CompleteCommand.
Points == {"loop", "beat", "work", "report"}

\* own: the collection of the heartbeat the agent waits for.  stray: one it
\* no longer waits for, that the database has not finished.
Side == {"own", "stray"}

\* sent: on its way to the snapshot.  taken: the snapshot is read, the rows
\* are not written.  answered: written, the answer is on its way.
Stage == {"idle", "sent", "taken", "answered"}

\* Nothing names a row that does not exist yet, only an agent that is up waits
\* for answers, and its own collection has a stage exactly while it waits.
TypeOK ==
    /\ row \in [Command -> Status]
    /\ made \in 0 .. MaxCommands
    /\ aged \in 0 .. made
    /\ \A c \in Command : row[c] = "none" <=> c > made
    /\ asking \in [Operator -> {"idle", "insert"}]
    /\ agent \in BOOLEAN
    /\ starts \in 0 .. MaxStarts
    /\ pc \in Points
    /\ leaving \in BOOLEAN
    /\ todo \subseteq 1 .. made
    /\ current \in 0 .. made
    /\ supervisor \in Phase
    /\ stage \in [Side -> Stage]
    /\ picked \in [Side -> SUBSET (1 .. made)]
    /\ lateResults \subseteq 1 .. made
    /\ runs \in [Command -> Nat]
    /\ carried \subseteq Command
    /\ reopened \subseteq Command
    /\ looked \in [Operator -> 0 .. made]
    /\ since \in [Command -> 0 .. made]
    /\ stage["own"] # "idle" <=> pc = "beat"
    /\ current # NoCommand <=> pc = "report"
    /\ ~agent => pc = "loop"

Init ==
    /\ row = [c \in Command |-> "none"]
    /\ made = 0
    /\ aged = 0
    /\ asking = [o \in Operator |-> "idle"]
    /\ agent = FALSE
    /\ starts = 0
    /\ pc = "loop"
    /\ leaving = FALSE
    /\ todo = {}
    /\ current = NoCommand
    /\ supervisor = "ended"
    /\ stage = [s \in Side |-> "idle"]
    /\ picked = [s \in Side |-> {}]
    /\ lateResults = {}
    /\ runs = [c \in Command |-> 0]
    /\ carried = {}
    /\ reopened = {}
    /\ looked = [o \in Operator |-> 0]
    /\ since = [c \in Command |-> 0]

Pending == {c \in Command : row[c] = "pending"}
Delivered == {c \in Command : row[c] = "delivered"}
Open == Pending \cup Delivered
Finished == {c \in Command : row[c] \in {"done", "failed"}}

-----------------------------------------------------------------------------
(* Operators *)

\* Mutant of Waiting: what was delivered stands in nobody's way.
WaitingOnlyPending == Pending

\* pendingCommand: what makes a second restart superfluous.
Waiting == Open

Inserting == {o \in Operator : asking[o] = "insert"}

\* pendingCommand finds none, and QueueCommand goes on to insert.  If it finds one,
\* that is the answer and nothing changes.  Bound: a request joins others only if
\* there is room for the rows of all.
AskFirst(o) ==
    /\ asking[o] = "idle"
    /\ Waiting = {}
    /\ Inserting = {} \/ made + Cardinality(Inserting) < MaxCommands
    /\ asking' = [asking EXCEPT ![o] = "insert"]
    /\ looked' = [looked EXCEPT ![o] = made]
    /\ UNCHANGED <<tableVars, agentVars, supervisor, wireVars, runVars, reopened, since>>

\* The request is over.
Answered(o) ==
    /\ asking' = [asking EXCEPT ![o] = "idle"]
    /\ looked' = [looked EXCEPT ![o] = 0]

\* It inserts, whatever was inserted since it looked.
Insert(o) ==
    /\ asking[o] = "insert"
    /\ made < MaxCommands
    /\ made' = made + 1
    /\ row' = [row EXCEPT ![made + 1] = "pending"]
    /\ Answered(o)
    /\ since' = [since EXCEPT ![made + 1] = looked[o]]
    /\ UNCHANGED <<aged, agentVars, supervisor, wireVars, runVars, reopened>>

\* The server stops, or the browser goes away, before the INSERT.
AskFails(o) ==
    /\ asking[o] = "insert"
    /\ Answered(o)
    /\ UNCHANGED <<tableVars, agentVars, supervisor, wireVars, runVars, reopened, since>>

-----------------------------------------------------------------------------
(* Collecting *)

\* The reporter's loop sends a heartbeat; once supervision is over the
\* heartbeat is finalReport's.
SendBeat ==
    /\ agent /\ pc = "loop" /\ ~leaving
    /\ pc' = "beat"
    /\ leaving' \in {FALSE, supervisor = "ended"}
    /\ stage' = [stage EXCEPT !["own"] = "sent"]
    /\ UNCHANGED <<tableVars, asking, agent, starts, todo, current, supervisor,
                   picked, lateResults, historyVars>>

CollectableAgain == Open

\* The statuses TakeCommands hands out.
Collectable == Pending

\* ORDER BY created_at LIMIT TakeLimit.
FirstOf(S) == {c \in S : Cardinality({d \in S : d < c}) < TakeLimit}

Cleared(s) == [picked EXCEPT ![s] = {}]

\* TakeCommands reads its snapshot.
Take(s) ==
    /\ stage[s] = "sent"
    /\ stage' = [stage EXCEPT ![s] = "taken"]
    /\ picked' = [picked EXCEPT ![s] = FirstOf(Collectable)]
    /\ UNCHANGED <<tableVars, asking, agentVars, supervisor, lateResults, historyVars>>

\* It writes every row of the snapshot, whatever has become of the row.
Deliver(s) ==
    /\ stage[s] = "taken"
    /\ row' = [c \in Command |-> IF c \in picked[s] THEN "delivered" ELSE row[c]]
    /\ stage' = [stage EXCEPT ![s] = IF s = "own" THEN "answered" ELSE "idle"]
    /\ picked' = IF s = "own" THEN picked ELSE Cleared(s)
    /\ reopened' = reopened \cup (picked[s] \cap Finished)
    /\ UNCHANGED <<made, aged, asking, agentVars, supervisor, lateResults, runVars, lookVars>>

\* The answer arrives and runCommands goes through all of it.
Receive ==
    /\ agent /\ pc = "beat" /\ stage["own"] = "answered"
    /\ pc' = "work"
    /\ todo' = picked["own"]
    /\ stage' = [stage EXCEPT !["own"] = "idle"]
    /\ picked' = Cleared("own")
    /\ UNCHANGED <<tableVars, asking, agent, starts, leaving, current, supervisor,
                   lateResults, historyVars>>

\* The bound on requests the agent gave up on and the server still works on.
Within ==
    Cardinality(lateResults) + (IF stage["stray"] = "idle" THEN 0 ELSE 1) <= MaxStray

AbandonedStillWaiting == stage

\* What the agent leaves behind when it stops waiting for its heartbeat: a
\* request that never arrives, an answer nobody reads, or a collection that
\* goes on in the database.
Abandoned == [stage EXCEPT !["own"] = "idle"]

Abandon ==
    \/ /\ stage' = Abandoned
       /\ picked' = Cleared("own")
    \/ /\ stage["own"] \in {"sent", "taken"}
       /\ stage["stray"] = "idle"
       /\ stage' = [Abandoned EXCEPT !["stray"] = stage["own"]]
       /\ picked' = [Cleared("own") EXCEPT !["stray"] = picked["own"]]

\* sendTimeout, or a broken connection: a warning, and the next tick.
BeatFails ==
    /\ agent /\ pc = "beat"
    /\ Abandon
    /\ pc' = "loop"
    /\ UNCHANGED <<tableVars, asking, agent, starts, leaving, todo, current,
                   supervisor, lateResults, historyVars>>
    /\ Within'

-----------------------------------------------------------------------------
(* Carrying out and reporting *)

\* runCommand: it calls Restart and reports no failure, whether or not there
\* was a runner to restart.  Between two processes a fresh one is coming.  What
\* the supervisor makes of the call is a step of its own, Supervise.
RunCommand(c) ==
    /\ agent /\ pc = "work" /\ c \in todo
    /\ todo' = todo \ {c}
    /\ current' = c
    /\ pc' = "report"
    /\ runs' = [runs EXCEPT ![c] = @ + 1]
    /\ carried' = IF supervisor = "ended" THEN carried ELSE carried \cup {c}
    /\ UNCHANGED <<reopened, lookVars, tableVars, asking, agent, starts, leaving, supervisor,
                   wireVars>>

\* The answer is worked off.
WorkEnds ==
    /\ agent /\ pc = "work" /\ todo = {}
    /\ pc' = "loop"
    /\ UNCHANGED <<tableVars, asking, agent, starts, leaving, todo, current,
                   supervisor, wireVars, historyVars>>

CompleteWhatever(c) == [row EXCEPT ![c] = "done"]

\* CompleteCommand closes a row that is still open; otherwise the agent gets
\* 404, and warns.
Complete(c) == IF c \in Open THEN [row EXCEPT ![c] = "done"] ELSE row

\* The result arrives.
Report ==
    /\ agent /\ pc = "report"
    /\ row' = Complete(current)
    /\ pc' = "work"
    /\ current' = NoCommand
    /\ UNCHANGED <<made, aged, asking, agent, starts, leaving, todo, supervisor,
                   wireVars, historyVars>>

\* The result is lost, or the agent stops waiting before it is recorded.
ReportFails ==
    /\ agent /\ pc = "report"
    /\ pc' = "work"
    /\ current' = NoCommand
    /\ lateResults' \in {lateResults, lateResults \cup {current}}
    /\ UNCHANGED <<tableVars, asking, agent, starts, leaving, todo, supervisor,
                   stage, picked, historyVars>>
    /\ Within'

ReportLate(c) ==
    /\ c \in lateResults
    /\ row' = Complete(c)
    /\ lateResults' = lateResults \ {c}
    /\ UNCHANGED <<made, aged, asking, agentVars, supervisor, stage, picked, historyVars>>

-----------------------------------------------------------------------------
(* Housekeeping *)

Age ==
    /\ aged < made
    /\ aged' = aged + 1
    /\ UNCHANGED <<row, made, asking, agentVars, supervisor, wireVars, historyVars>>

ExpirablePending == Pending

\* The statuses ExpireStaleCommands gives up on.
Expirable == Open

Expire ==
    /\ \E c \in Expirable : c <= aged
    /\ row' = [c \in Command |-> IF c \in Expirable /\ c <= aged THEN "failed" ELSE row[c]]
    /\ UNCHANGED <<made, aged, asking, agentVars, supervisor, wireVars, historyVars>>

-----------------------------------------------------------------------------
(* The agent's life *)

Start ==
    /\ ~agent /\ starts < MaxStarts
    /\ agent' = TRUE
    /\ starts' = starts + 1
    /\ supervisor' = "between"
    /\ UNCHANGED <<tableVars, asking, pc, leaving, todo, current, wireVars, historyVars>>

\* What a process that ends takes with it.
Gone ==
    /\ agent' = FALSE
    /\ pc' = "loop"
    /\ leaving' = FALSE
    /\ todo' = {}
    /\ current' = NoCommand
    /\ supervisor' = "ended"
    /\ UNCHANGED <<tableVars, asking, starts, historyVars>>

\* finalReport has returned, and so does agent.Run.
Exit ==
    /\ agent /\ pc = "loop" /\ leaving
    /\ Gone
    /\ UNCHANGED wireVars

Crash ==
    /\ agent
    /\ IF pc = "beat" THEN Abandon ELSE UNCHANGED <<stage, picked>>
    /\ lateResults' \in {lateResults, lateResults \cup ({current} \ {NoCommand})}
    /\ Within'
    /\ Gone

\* The supervisor goes on.
Supervise ==
    /\ agent
    /\ supervisor' \in Then[supervisor]
    /\ UNCHANGED <<tableVars, asking, agentVars, wireVars, historyVars>>

-----------------------------------------------------------------------------
Next ==
    \/ \E o \in Operator : AskFirst(o) \/ Insert(o) \/ AskFails(o)
    \/ SendBeat \/ Receive \/ BeatFails
    \/ \E s \in Side : Take(s) \/ Deliver(s)
    \/ \E c \in Command : RunCommand(c) \/ ReportLate(c)
    \/ WorkEnds \/ Report \/ ReportFails
    \/ Age \/ Expire
    \/ Start \/ Exit \/ Crash \/ Supervise

Spec == Init /\ [][Next]_vars

\* The server's side alone is fair: the database finishes what it started,
\* time passes, and housekeeping runs every hour.
FairSpec ==
    /\ Spec
    /\ WF_vars(Take("stray")) /\ WF_vars(Deliver("stray"))
    /\ WF_vars(Age)
    /\ WF_vars(Expire)

-----------------------------------------------------------------------------
(* Properties *)

\* However often heartbeats are abandoned, collections overlap, agents crash
\* and results go missing, no command is carried out twice: what was handed
\* out is never offered again, and an answer nobody read is not repeated.
RunsAtMostOnce == \A c \in Command : runs[c] <= 1

\* A command that was reported done or given up on keeps that status, with one
\* exception: a collection the agent no longer waits for, that had selected the
\* row while it was pending, writes delivered over it.  A late result never
\* reopens or overturns it.
FinalUnlessOverlapped ==
    [][\A c \in Command :
          c \in Finished /\ row'[c] # row[c] =>
              /\ row'[c] = "delivered"
              /\ \E s \in Side : stage[s] = "taken" /\ c \in picked[s]]_vars

\* dashboard.md: "Pressing it twice queues one restart, not two".  Two commands are
\* open at once only if their requests overlapped: the later one's had looked, and
\* found nothing, before the earlier one was inserted.  A press after that finds the
\* earlier one for as long as it is not resolved, whether it waits, was delivered to
\* an agent that died, or to nobody.  A command that a collection opened again,
\* having selected it before it was resolved, is the exception.
OneOpenUnlessOverlapped ==
    \A c, d \in Open \ reopened : c < d => since[d] < c

\* Every command ends up done or failed, whatever is lost on its way and
\* whether or not the agent ever comes back.
EveryCommandResolved ==
    \A c \in Command : row[c] \in {"pending", "delivered"} ~> row[c] \in {"done", "failed"}

\* commands.go: "CommandDone means the agent carried it out."
DoneIsCarriedOut == \A c \in Command : row[c] = "done" => c \in carried
=============================================================================
