------------------------------ MODULE Reporting ------------------------------
(***************************************************************************)
(* How what happens on a machine reaches the dashboard: the reporter of an *)
(* agent (internal/agent/report.go), its requests, and the handlers that   *)
(* write the runner's row and its events (internal/server/agent.go).       *)
(*                                                                         *)
(*   - The supervisor emits events, one goroutine of the reporter sends    *)
(*     them in batches and sends heartbeats, one request at a time.        *)
(*   - A request may fail, may succeed with its answer lost, or may time   *)
(*     out at the agent and go on at the server: such a one is the stray.  *)
(*   - An operator may delete the runner, another machine may enroll under *)
(*     its name, a rotation may revoke the credential that the agent goes  *)
(*     on using; the agent may crash and start again; time passes.         *)
(*                                                                         *)
(* The commands an answer carries are in Commands, the credential it may   *)
(* carry in Credentials; of a restart only the event is kept that its Stop *)
(* emits when it fails.  Events are numbered as they are emitted.          *)
(***************************************************************************)
EXTENDS RunnerRows, Sequences, FiniteSets

CONSTANTS
    Buffer,         \* eventBuffer
    Batch,          \* maxBatch
    Ephemeral,      \* the runner is retired when its agent is done
    MaxStray,       \* bound on the requests that outlive their sender's patience
    MaxStarts,      \* bound on the starts of the agent
    MaxEvents       \* bound on the events, and on these two, taken together

ASSUME ReportingAssumption ==
    /\ Buffer \in Nat \ {0}
    /\ Batch \in Nat \ {0}
    /\ Ephemeral \in BOOLEAN
    /\ MaxEvents \in Nat
    /\ MaxStray \in Nat
    /\ MaxStarts \in Nat

VARIABLES
    \* the agent
    sup,        \* what the supervisor is at, see Emissions
    job,        \* job.json says that a job is running
    aimed,      \* Restart has read a process and is about to Stop it
    status,     \* r.status
    buf,        \* r.events
    dropped,    \* r.dropped
    refused,    \* r.refused
    point,      \* where reporter.run is
    request,    \* the request it waits for
    \* the control plane
    stray,      \* a request nobody waits for
    live,       \* the agent's credential is accepted
    stored,     \* the runner's rows in runner_events, by id
    \* history
    emitted,    \* how many events were emitted
    strays,     \* how many requests became the stray
    unsettled,  \* the last status came from a Restart whose Stop failed
    starts

agentVars == <<sup, job, aimed, status, buf, dropped, refused, point, request>>
serverVars == <<row, live, stored>>
vars == <<agentVars, serverVars, stray, emitted, strays, unsettled, starts>>

\* loop: the select.  events, beat, last_events, last_beat: a request is under
\* way.  done: run has returned.  dead: there is no agent.
Points == {"loop", "events", "beat", "last_events", "last_beat", "done", "dead"}

Events == [kind : {"events"}, ids : Seq(Nat)]
Beats == [kind : {"beat"}, status : Statuses]
Retires == [kind : {"retire"}]

NoRequest == [kind |-> "none"]

Requests == Events \cup Beats \cup Retires

\* What may follow what in Supervisor.Run.  A launch that fails emits exited.
Follows ==
    [none        |-> {"starting"},
     starting    |-> {"started", "unlaunched"},
     unlaunched  |-> {"gave_up", "backoff"},
     started     |-> {"exited", "stopping"},
     exited      |-> {"restarting", "completed", "healthy", "gave_up", "backoff"},
     healthy     |-> {"gave_up", "backoff"},
     restarting  |-> {"starting"},
     backoff     |-> {"starting", "stopped"},
     stopping    |-> {"unstoppable", "killed", "stopped"},
     unstoppable |-> {"killed", "stopped"},
     killed      |-> {"stopped"},
     gave_up     |-> {},
     completed   |-> {},
     stopped     |-> {}]

Emissions == DOMAIN Follows

\* Supervisor.Run has returned, and agent.Run stops the reporter.
Returned == Follows[sup] = {}

SenderTypeOK ==
    /\ sup \in Emissions
    /\ status \in Statuses
    /\ buf \in Seq(Nat)
    /\ dropped \in Nat
    /\ point \in Points
    /\ request \in Requests \cup {NoRequest}

ServerTypeOK ==
    /\ row \in Row
    /\ stray \in Requests \cup {NoRequest}
    /\ stored \in Seq(Nat)

CountersTypeOK ==
    /\ emitted \in Nat
    /\ strays \in Nat
    /\ starts \in Nat

FlagsTypeOK ==
    /\ job \in BOOLEAN
    /\ aimed \in BOOLEAN
    /\ refused \in BOOLEAN
    /\ live \in BOOLEAN
    /\ unsettled \in BOOLEAN

\* What is sent, stored or under way is of its kind, whoever sent it.
TypeOK == SenderTypeOK /\ ServerTypeOK /\ CountersTypeOK /\ FlagsTypeOK

\* An agent that has just enrolled.
Init ==
    /\ sup = "none"
    /\ job = FALSE
    /\ aimed = FALSE
    /\ status = "starting"
    /\ buf = << >>
    /\ dropped = 0
    /\ refused = FALSE
    /\ point = "loop"
    /\ request = NoRequest
    /\ row = [there |-> TRUE, status |-> "starting", age |-> Offline, retired |-> FALSE]
    /\ stray = NoRequest
    /\ live = TRUE
    /\ stored = << >>
    /\ emitted = 0
    /\ strays = 0
    /\ unsettled = FALSE
    /\ starts = 1

-----------------------------------------------------------------------------
(* Events.                                                                 *)

\* One more event, stray or start is within the bound.
Within == emitted + strays + starts <= MaxEvents

\* enqueue.
Enqueue ==
    \/ /\ Len(buf) < Buffer
       /\ buf' = Append(buf, emitted + 1)
       /\ UNCHANGED dropped
    \/ /\ ~(Len(buf) < Buffer)
       /\ dropped' = dropped + 1
       /\ UNCHANGED buf

\* Events that observe has no status for.
Silent == {"healthy", "restarting", "backoff", "completed", "killed"}

\* Mutant of StatusAfter: an exit is not news either.
StatusAfterLaunch(s) ==
    CASE s = "starting" -> "starting"
      [] s = "started" -> "online"
      [] s = "gave_up" -> "error"
      [] s \in {"stopping", "unstoppable"} -> "stopping"
      [] s = "stopped" -> "offline"
      [] OTHER -> status

\* The status that observe sets.
StatusAfter(s) ==
    CASE s \in {"starting", "exited", "unlaunched"} -> "starting"
      [] s = "started" -> "online"
      [] s = "gave_up" -> "error"
      [] s \in {"stopping", "unstoppable"} -> "stopping"
      [] s = "stopped" -> "offline"
      [] OTHER -> status

\* observe, for an event of the supervisor's own goroutine.
Observe ==
    /\ point # "dead"
    /\ Within
    /\ \E s \in Follows[sup] :
        /\ sup' = s
        /\ status' = StatusAfter(s)
        /\ unsettled' = (unsettled /\ s \in Silent)
    /\ Enqueue
    /\ emitted' = emitted + 1
    /\ UNCHANGED <<job, aimed, refused, point, request, serverVars, stray,
                   strays, starts>>

\* The job hooks write job.json while the runner runs.
JobChanges ==
    /\ sup = "started"
    /\ job' = ~job
    /\ UNCHANGED <<sup, aimed, status, buf, dropped, refused, point, request,
                   serverVars, stray, emitted, strays, unsettled, starts>>

\* Restart's Stop failed, because its process is gone; the supervisor may be
\* further on by then.
StopFails ==
    /\ aimed
    /\ Within
    /\ aimed' = FALSE
    /\ status' = StatusAfter("stopping")
    /\ Enqueue
    /\ emitted' = emitted + 1
    /\ unsettled' = TRUE
    /\ UNCHANGED <<sup, job, refused, point, request, serverVars, stray,
                   strays, starts>>

StopReaches ==
    /\ aimed
    /\ aimed' = FALSE
    /\ UNCHANGED <<sup, job, status, buf, dropped, refused, point, request,
                   serverVars, stray, emitted, strays, unsettled, starts>>

-----------------------------------------------------------------------------
(* The goroutine of the reporter.                                          *)

Least(a, b) == IF a < b THEN a ELSE b

\* drain.
Drained == SubSeq(buf, 1, Least(Batch, Len(buf)))

\* Mutant of Rest: off by one.
RestWithLast == SubSeq(buf, Least(Batch, Len(buf)), Len(buf))

Rest == SubSeq(buf, Least(Batch, Len(buf)) + 1, Len(buf))

Send(where) ==
    /\ buf # << >>
    /\ request' = [kind |-> "events", ids |-> Drained]
    /\ buf' = Rest
    /\ point' = where

\* flushEvents.
FlushEvents ==
    /\ point = "loop"
    /\ ~aimed
    /\ Send("events")
    /\ UNCHANGED <<sup, job, aimed, status, dropped, refused, serverVars, stray,
                   emitted, strays, unsettled, starts>>

\* The status a heartbeat reports.
Reported == IF status = "online" /\ job THEN "busy" ELSE status

\* The drops a heartbeat's log line tells of are not counted again.
Owned == dropped' = 0

\* heartbeat, up to its request.
Heartbeat ==
    /\ point = "loop"
    /\ ~aimed
    /\ Owned
    /\ request' = [kind |-> "beat", status |-> Reported]
    /\ point' = "beat"
    /\ UNCHANGED <<sup, job, aimed, status, buf, refused, serverVars, stray,
                   emitted, strays, unsettled, starts>>

\* finalReport, with events left.  What exceeds one batch is never sent.
LastEvents ==
    /\ point = "loop"
    /\ ~aimed
    /\ Returned
    /\ Send("last_events")
    /\ UNCHANGED <<sup, job, aimed, status, dropped, refused, serverVars, stray,
                   emitted, strays, unsettled, starts>>

\* finalReport, from setStatus on.
BeginLastBeat ==
    /\ status' = "offline"
    /\ Owned
    /\ request' = [kind |-> "beat", status |-> "offline"]
    /\ point' = "last_beat"

LastBeat ==
    /\ point = "loop"
    /\ ~aimed
    /\ Returned
    /\ buf = << >>
    /\ BeginLastBeat
    /\ UNCHANGED <<sup, job, aimed, buf, refused, serverVars, stray,
                   emitted, strays, unsettled, starts>>

\* The reporter goes on after a request, whatever came of it.
GoesOn ==
    \/ /\ point \in {"events", "beat"}
       /\ point' = "loop"
       /\ request' = NoRequest
       /\ UNCHANGED <<status, dropped>>
    \/ /\ point = "last_events"
       /\ BeginLastBeat
    \/ /\ point = "last_beat"
       /\ point' = "done"
       /\ request' = NoRequest
       /\ UNCHANGED <<status, dropped>>

\* A heartbeat whose answer arrives may bring a restart (runCommands); Restart
\* does nothing when no process is current.  One is current from before started
\* is emitted, so from some time in starting on, until after it has exited.
MayAim ==
    \/ UNCHANGED aimed
    \/ /\ point = "beat"
       /\ sup \in {"starting", "started", "stopping", "unstoppable", "killed"}
       /\ aimed' = TRUE

-----------------------------------------------------------------------------
(* The handlers, and what becomes of a request.                            *)

\* handleAgentEvents, handleAgentHeartbeat and handleAgentRetire, past the
\* authentication.  The row may be gone by then, and so may its events' key.
Handle(r) ==
    \/ /\ r.kind = "events"
       /\ row.there
       /\ stored' = stored \o r.ids
       /\ UNCHANGED row
    \/ /\ r.kind = "beat"
       /\ row.there
       /\ row' = Heard(r.status)
       /\ UNCHANGED stored
    \/ /\ r.kind = "retire"
       /\ row.there
       /\ row' = Finished
       /\ UNCHANGED stored

InFlight == request # NoRequest /\ point \in {"events", "beat", "last_events", "last_beat"}

\* Answered, or answered in vain.
Succeeds ==
    /\ InFlight
    /\ live
    /\ Handle(request)
    /\ GoesOn
    /\ MayAim
    /\ UNCHANGED <<sup, job, buf, refused, live, stray, emitted, strays,
                   unsettled, starts>>

\* No connection, or an error of the server.
Fails ==
    /\ InFlight
    /\ GoesOn
    /\ UNCHANGED <<sup, job, aimed, buf, refused, serverVars, stray, emitted,
                   strays, unsettled, starts>>

\* Nobody waits for the request any more, and it goes on.
BecomesStray(r) ==
    /\ stray = NoRequest
    /\ strays < MaxStray
    /\ Within
    /\ stray' = r
    /\ strays' = strays + 1

\* The agent gives up on a request that goes on.
TimesOut ==
    /\ InFlight
    /\ BecomesStray(request)
    /\ GoesOn
    /\ UNCHANGED <<sup, job, aimed, buf, refused, serverVars, emitted,
                   unsettled, starts>>

StrayArrives ==
    /\ stray # NoRequest
    /\ Handle(stray)
    /\ stray' = NoRequest
    /\ UNCHANGED <<agentVars, live, emitted, strays, unsettled, starts>>

StrayIsLost ==
    /\ stray # NoRequest
    /\ stray' = NoRequest
    /\ UNCHANGED <<agentVars, serverVars, emitted, strays, unsettled, starts>>

\* requireMachine refused a heartbeat: the loop ends, and with it the
\* reporter.
Refuse ==
    /\ refused' = TRUE
    /\ point' = "done"
    /\ request' = NoRequest
    /\ UNCHANGED <<status, dropped>>

RefusedBeat ==
    /\ InFlight
    /\ request.kind = "beat"
    /\ ~live
    /\ Refuse
    /\ UNCHANGED <<sup, job, aimed, buf, serverVars, stray, emitted, strays,
                   unsettled, starts>>

\* teardownEphemeral's Retire, once the reporter is done.  The command ends
\* then, and a later one starts with the credential it finds.
Retire ==
    /\ Ephemeral
    /\ point = "done"
    /\ Returned
    /\ live
    /\ point' = "dead"
    /\ \/ /\ Handle([kind |-> "retire"])
          /\ UNCHANGED <<stray, strays>>
       \/ /\ BecomesStray([kind |-> "retire"])
          /\ UNCHANGED <<row, stored>>
    /\ buf' = << >>
    /\ UNCHANGED <<sup, job, aimed, status, dropped, refused, request, live,
                   emitted, unsettled, starts>>

\* handleDeleteRunner: the row goes with its tokens and its events.
Delete ==
    /\ row.there
    /\ row' = NoRow
    /\ live' = FALSE
    /\ stored' = << >>
    /\ UNCHANGED <<agentVars, stray, emitted, strays, unsettled, starts>>

\* Another machine enrolls under the name: UpsertRunner, and unless that fails
\* IssueMachineToken, which revokes the credential of this one.
EnrolledElsewhere ==
    /\ row.there
    /\ row' = Upserted
    /\ live' \in {live, FALSE}
    /\ UNCHANGED <<agentVars, stored, stray, emitted, strays, unsettled, starts>>

\* RotateMachineTokenIfOld revoked the credential, and the answer with the new one
\* was lost, or could not be stored: see Credentials.
Superseded ==
    /\ live
    /\ live' = FALSE
    /\ UNCHANGED <<agentVars, row, stored, stray, emitted, strays, unsettled, starts>>

TimePasses ==
    /\ row.age < Offline
    /\ row' = Older
    /\ UNCHANGED <<agentVars, live, stored, stray, emitted, strays, unsettled, starts>>

-----------------------------------------------------------------------------
(* The agent's life.                                                       *)

\* What it was sending may arrive, what it had buffered is gone.
Crash ==
    /\ point # "dead"
    /\ point' = "dead"
    /\ request' = NoRequest
    /\ buf' = << >>
    /\ aimed' = FALSE
    /\ \/ InFlight /\ BecomesStray(request)
       \/ UNCHANGED <<stray, strays>>
    /\ UNCHANGED <<sup, job, status, dropped, refused, serverVars, emitted,
                   unsettled, starts>>

\* The service manager starts it again, with the credential it has.
Start ==
    /\ point = "dead"
    /\ starts < MaxStarts
    /\ Within
    /\ starts' = starts + 1
    /\ sup' = "none"
    /\ status' = "starting"
    /\ dropped' = 0
    /\ refused' = FALSE
    /\ unsettled' = FALSE
    /\ point' = "loop"
    /\ UNCHANGED <<job, aimed, buf, request, serverVars, stray, emitted, strays>>

-----------------------------------------------------------------------------

Supervise == Observe \/ StopFails \/ StopReaches
Report == FlushEvents \/ Heartbeat \/ LastEvents \/ LastBeat
Transport == Succeeds \/ Fails \/ TimesOut \/ RefusedBeat
Server == StrayArrives \/ StrayIsLost \/ Retire \/ Delete \/ EnrolledElsewhere
              \/ Superseded \/ TimePasses

Next == Supervise \/ JobChanges \/ Report \/ Transport \/ Server \/ Crash \/ Start

Spec == Init /\ [][Next]_vars

\* Time passes, a request ends, and what the reporter's select can do is done;
\* it does not prefer events to the ticker for ever, nor does the network fail
\* every heartbeat.
Fairness ==
    /\ WF_vars(TimePasses)
    /\ WF_vars(Transport)
    /\ WF_vars(StopReaches \/ StopFails)
    /\ SF_vars(Heartbeat)
    /\ SF_vars(LastEvents \/ LastBeat)
    /\ SF_vars(Succeeds /\ request.kind = "beat")

FairSpec == Spec /\ Fairness

-----------------------------------------------------------------------------
(* Safety.                                                                 *)

Ids(q) == {q[i] : i \in DOMAIN q}

IdsOf(r) == IF r.kind = "events" THEN Ids(r.ids) ELSE {}

\* What may still be stored is in the buffer, or in a request.
Feed == INSTANCE EventFeed WITH
    waiting <- Ids(buf) \cup IdsOf(request) \cup IdsOf(stray),
    stored <- Ids(stored)

\* Each event waits, and is stored once or lost, whichever requests fail, are
\* answered in vain or arrive late: the reporter implements EventFeed.
ImplementsFeed == Feed!FeedSpec

\* A runner that is shown as retired is shown so until a machine enrolls under its
\* name or it is deleted, whatever reaches its row meanwhile: a heartbeat that was
\* late, or those of an agent that was started again, which report a status.
RetiredIsFinal ==
    [][EffectiveStatus = "retired" =>
          EffectiveStatus' = "retired" \/ ~row'.there \/ EnrolledElsewhere]_vars

\* What an operator is to be told at each point of a supervisor's life.  From an
\* exit to the next launch, and when the work is done, it is still starting.
StatusIn ==
    [s \in Emissions |->
        CASE s = "started" -> "online"
          [] s \in {"stopping", "unstoppable", "killed"} -> "stopping"
          [] s = "gave_up" -> "error"
          [] s = "stopped" -> "offline"
          [] OTHER -> "starting"]

\* The status is the one that the point of the supervisor's life calls for, which
\* observe, asking only for the event, must arrive at by what earlier events left.
\* A Restart that found its process gone makes it stopping, whatever the supervisor
\* has done since, until an event that has a status: only so is a runner that works
\* shown as stopping.  At the end the last report says offline.
StatusFollowsSupervisor ==
    point # "dead" =>
        \/ status = IF unsettled THEN "stopping" ELSE StatusIn[sup]
        \/ status = "offline" /\ Returned /\ point \in {"last_beat", "done"}

(* Liveness.                                                               *)

\* An agent that is gone, however it went, is not shown at work for ever.
SilenceIsShown ==
    point \in {"done", "dead"} ~>
        \/ EffectiveStatus \in {"offline", "retired"}
        \/ point \notin {"done", "dead"}

\* A runner that stays up, with a credential that is accepted, is shown at
\* work again and again.
UpIsShown ==
    <>[](sup = "started" /\ ~unsettled /\ live /\ row.there /\ ~row.retired
           /\ point \notin {"done", "dead"})
        => []<>(EffectiveStatus \in {"online", "busy"})
=============================================================================
