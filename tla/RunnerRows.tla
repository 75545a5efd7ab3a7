------------------------------ MODULE RunnerRows ------------------------------
(***************************************************************************)
(* The row that the control plane keeps of one runner                      *)
(* (internal/store/runners.go), and what it concludes from it              *)
(* (internal/store/models.go).  Each operation is one statement, so each   *)
(* is one step; the modules that extend this one say who executes them.    *)
(*                                                                         *)
(* A row holds how long ago the last heartbeat was, up to Offline, in      *)
(* place of the time of it: nothing depends on more, and a row that never  *)
(* had one (a null last_heartbeat) is judged like one of that age.         *)
(***************************************************************************)
EXTENDS Naturals

CONSTANTS
    Stale,      \* Thresholds.Stale
    Offline     \* Thresholds.Offline

ASSUME ThresholdAssumption ==
    /\ Stale \in Nat
    /\ Offline \in Nat \ {0}
    /\ Stale < Offline

VARIABLE row

Statuses == {"offline", "starting", "online", "busy", "stopping", "error"}

Row == [there : BOOLEAN, status : Statuses, age : 0 .. Offline, retired : BOOLEAN]

NoRow == [there |-> FALSE, status |-> "offline", age |-> Offline, retired |-> FALSE]

\* UpsertRunner.  A row that exists keeps its last heartbeat.
Upserted == [there |-> TRUE, status |-> "starting", age |-> row.age, retired |-> FALSE]

\* Mutant of Heard: a heartbeat brings the runner back into service.
HeardAndRevived(status) ==
    [row EXCEPT !.status = status, !.age = 0, !.retired = FALSE]

\* Mutant of Heard: the time of the heartbeat is not stamped.
HeardUndated(status) == [row EXCEPT !.status = status]

\* RecordHeartbeat.  It does not ask whether the runner is retired.
Heard(status) == [row EXCEPT !.status = status, !.age = 0]

\* Mutant of Finished: retired taken for a status.
FinishedAsStatus == [row EXCEPT !.status = "retired", !.retired = TRUE]

\* RetireRunner.
Finished == [row EXCEPT !.status = "offline", !.retired = TRUE]

Older == [row EXCEPT !.age = IF @ < Offline THEN @ + 1 ELSE @]

\* Runner.Health.
Health ==
    IF row.retired \/ row.age >= Offline THEN "offline"
    ELSE IF row.age >= Stale THEN "stale" ELSE "healthy"

\* Mutant of EffectiveStatus: the stored column is believed.
StoredStatus == IF row.retired THEN "retired" ELSE row.status

\* Runner.EffectiveStatus, which every page of the dashboard shows.
EffectiveStatus ==
    IF row.retired THEN "retired"
    ELSE IF Health = "offline" THEN "offline" ELSE row.status

=============================================================================
