--------------------------- MODULE EphemeralProofs ---------------------------
(***************************************************************************)
(* Proofs about Ephemeral, for any number of runs.                         *)
(*                                                                         *)
(* What a run adds to the machine, to GitHub or to the dashboard is there  *)
(* only between the point that adds it and the point that takes it away;   *)
(* what is there at any other time is of a run that is faulty.             *)
(***************************************************************************)
EXTENDS Ephemeral, TLAPS

\* The points between two others, in the order a run passes them.
Supervised == {"supervise", "exited", "ended"}
Enrolled == {"launch", "retire"} \cup Supervised
Listed == {"record", "enroll", "deregister"} \cup Enrolled
Set == {"destroy"} \cup Listed
Noted == (Set \ {"record"}) \cup {"forget"}

\* The run under way is n, and has come to one of these points.
At(n, points) == n = name /\ pc \in points

RegisteredOK == \A n \in registered : n \in faulty \/ At(n, Listed)
RecordedOK == \A n \in recorded : n \in faulty \/ At(n, Noted)
ConfiguredOK == configured # None => configured \in faulty \/ At(configured, Set)
AliveOK == \A n \in alive : n \in faulty \/ At(n, {"supervise"})
RowOK ==
    \A n \in Run :
        row[n] = "active" => n \in faulty \/ (At(n, Enrolled) /\ plane = n)

\* job.json is of the run under way, and so is every runner, unless one before it
\* died or could not clear the directory.
JobOK ==
    \/ spoiled
    \/ /\ \A n \in alive : At(n, {"supervise"})
       /\ job # "none" => pc \in Supervised \cup {"retire", "deregister", "destroy"}
       /\ job = "finished" => name \in worked

IInv ==
    /\ TypeOK
    /\ RegisteredOK /\ RecordedOK /\ ConfiguredOK /\ AliveOK /\ RowOK
    /\ JobOK /\ CompletedWorked

-----------------------------------------------------------------------------
(* The invariant.                                                          *)

\* Nothing is left when nothing was there.
LEMMA InitInv == Init => IInv
<1> SUFFICES ASSUME Init PROVE IInv
  OBVIOUS
<1> USE DEF Init, Run, None
<1>1. TypeOK
  <2>1. spoiled \in BOOLEAN
    BY Zenon
  <2>2. 0 \in 0 .. MaxRuns /\ row \in [Run -> {"none", "active", "retired"}]
    BY EphemeralAssumption
  <2> QED
    BY <2>1, <2>2 DEF TypeOK, Points
<1>2. RegisteredOK /\ RecordedOK /\ ConfiguredOK /\ AliveOK
  BY DEF RegisteredOK, RecordedOK, ConfiguredOK, AliveOK
<1>3. RowOK
  BY DEF RowOK
<1>4. JobOK /\ CompletedWorked
  BY DEF JobOK, CompletedWorked
<1> QED
  BY <1>1, <1>2, <1>3, <1>4 DEF IInv

\* Every step of the machine keeps the invariant.
LEMMA NextInv == ASSUME IInv, Next PROVE IInv'
<1> USE EphemeralAssumption
    DEF IInv, TypeOK, RegisteredOK, RecordedOK, ConfiguredOK, AliveOK, RowOK, JobOK,
        CompletedWorked, At, Supervised, Enrolled, Listed, Set, Noted, Points, Run, None,
        Step, Fault, runVars, dirVars, machineVars, history
<1>1. CASE Begin
  BY <1>1 DEF Begin
<1>2. CASE Fetch
  BY <1>2 DEF Fetch
<1>3. CASE Reuse
  BY <1>3 DEF Reuse
<1>4. CASE Unpack
  BY <1>4 DEF Unpack
<1>5. CASE UnpackFails
  BY <1>5 DEF UnpackFails
<1>6. CASE Configure
  BY <1>6 DEF Configure
<1>7. CASE ConfigureFails
  <2>1. CASE UNCHANGED <<registered, faulty>>
    BY <1>7, <2>1 DEF ConfigureFails
  <2>2. CASE registered' = registered \cup {name} /\ Fault
    BY <1>7, <2>2 DEF ConfigureFails
  <2> QED
    BY <1>7, <2>1, <2>2 DEF ConfigureFails
<1>8. CASE Record
  BY <1>8 DEF Record
<1>9. CASE Enroll
  BY <1>9 DEF Enroll
<1>10. CASE EnrollForgets
  BY <1>10 DEF EnrollForgets
<1>11. CASE Launch
  BY <1>11 DEF Launch
<1>12. CASE RefusesToRun
  BY <1>12 DEF RefusesToRun
<1>13. CASE RunnerExits
  BY <1>13 DEF RunnerExits, Exit
<1>14. CASE Done
  BY <1>14 DEF Done
<1>15. CASE Relaunch
  BY <1>15 DEF Relaunch
<1>16. CASE GiveUp
  BY <1>16 DEF GiveUp
<1>17. CASE Conclude
  BY <1>17 DEF Conclude
<1>18. ASSUME NEW n \in Run, TakeJob(n) PROVE IInv'
  BY <1>18 DEF TakeJob
<1>19. ASSUME NEW n \in Run, FinishJob(n) PROVE IInv'
  BY <1>19 DEF FinishJob
<1>20. ASSUME NEW n \in Run, OrphanEnds(n) PROVE IInv'
  BY <1>20 DEF OrphanEnds, Exit
<1>21. CASE Retire
  BY <1>21 DEF Retire
<1>22. CASE RetireFails
  BY <1>22 DEF RetireFails
<1>23. CASE Deregister
  BY <1>23 DEF Deregister
<1>24. CASE DeregisterFails
  BY <1>24 DEF DeregisterFails
<1>25. CASE Destroy
  BY <1>25 DEF Destroy, Cleared
<1>26. CASE DestroyFails
  BY <1>26 DEF DestroyFails
<1>27. CASE Forget
  BY <1>27 DEF Forget
<1>28. CASE ForgetFails
  BY <1>28 DEF ForgetFails
<1>29. CASE Crash
  BY <1>29 DEF Crash, HalfDone
<1> QED
  BY <1>1, <1>2, <1>3, <1>4, <1>5, <1>6, <1>7, <1>8, <1>9, <1>10, <1>11, <1>12, <1>13, <1>14,
     <1>15, <1>16, <1>17, <1>18, <1>19, <1>20, <1>21, <1>22, <1>23, <1>24, <1>25, <1>26,
     <1>27, <1>28, <1>29
     DEF Next, Register, Supervise, Runners, TearDown

\* The invariant holds whatever the runs, their runners and the machine do.
THEOREM Invariant == Spec => []IInv
<1>1. IInv /\ UNCHANGED vars => IInv'
  BY DEF IInv, TypeOK, RegisteredOK, RecordedOK, ConfiguredOK, AliveOK, RowOK, JobOK,
         CompletedWorked, At, vars, runVars, dirVars, machineVars, history
<1> QED
  BY InitInv, NextInv, <1>1, PTL DEF Spec

-----------------------------------------------------------------------------

\* Every variable keeps its type, and only a process that runs is in the middle
\* of a job.
THEOREM TypeCorrect == Spec => []TypeOK
<1>1. IInv => TypeOK
  BY DEF IInv
<1> QED
  BY <1>1, Invariant, PTL

\* Every path ends in teardown: a run that is over left nothing of itself at
\* GitHub, at the control plane or on the machine, unless it died or reported a
\* step it could not finish (runEphemeral, teardownEphemeral).
THEOREM LeavesNothingHolds == Spec => []LeavesNothing
<1>1. IInv => LeavesNothing
  <2> SUFFICES ASSUME IInv, NEW n \in Run, TornDown(n)
               PROVE  /\ n \notin registered \cup recorded \cup alive \cup {configured}
                      /\ row[n] # "active"
    BY DEF LeavesNothing
  <2>1. n \notin faulty /\ n # None /\ ~At(n, Listed) /\ ~At(n, Noted) /\ ~At(n, Set)
    BY DEF TornDown, At, Listed, Noted, Set, Enrolled, Supervised, Run, None
  <2>2. ~At(n, {"supervise"}) /\ ~At(n, Enrolled)
    BY DEF TornDown, At, Enrolled, Supervised
  <2> QED
    BY <2>1, <2>2 DEF IInv, RegisteredOK, RecordedOK, ConfiguredOK, AliveOK, RowOK
<1> QED
  BY <1>1, Invariant, PTL

\* A run that says it completed finished a job, unless one before it died or could
\* not clear the directory (agent.Run, ephemeralDone).
THEOREM CompletedWorkedHolds == Spec => []CompletedWorked
<1>1. IInv => CompletedWorked
  BY DEF IInv
<1> QED
  BY <1>1, Invariant, PTL
=============================================================================
