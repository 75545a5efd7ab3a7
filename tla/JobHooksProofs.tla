--------------------------- MODULE JobHooksProofs ---------------------------
(***************************************************************************)
(* Proofs about the job hooks, for any things in Docker and any number of  *)
(* jobs, of edits and of deaths.                                           *)
(***************************************************************************)
EXTENDS JobHooks, TLAPS

\* One lemma for each part of TypeOK, with one fact for each action.
LEMMA DockerKept == ASSUME DockerOK, RunnerOK, [Next]_vars PROVE DockerOK'
<1> USE HookAssumption DEF DockerOK, Nobody, Other
<1> USE DEF dockerVars, runnerVars, configVars, hookVars, history
<1>1. CASE Launch BY <1>1 DEF Launch
<1>2. CASE TakeJob BY <1>2 DEF TakeJob
<1>3. CASE FinishJob BY <1>3 DEF FinishJob
<1>4. CASE Kill BY <1>4 DEF Kill, HookDies, Forgotten
<1>5. CASE JobCreates BY <1>5 DEF JobCreates, Create, RunnerOK
<1>6. CASE OtherCreates BY <1>6 DEF OtherCreates, Create
<1>7. CASE Vanish BY <1>7 DEF Vanish
<1>8. CASE Edit BY <1>8 DEF Edit
<1>9. CASE LoadConfig BY <1>9 DEF LoadConfig
<1>10. CASE LoadConfigFails BY <1>10 DEF LoadConfigFails, HookReturns, HookDies, Forgotten
<1>11. CASE ReadFile BY <1>11 DEF ReadFile
<1>12. CASE ReadFails BY <1>12 DEF ReadFails
<1>13. CASE ListKind BY <1>13 DEF ListKind
<1>14. CASE ListFails BY <1>14 DEF ListFails
<1>15. CASE RemoveOne BY <1>15 DEF RemoveOne
<1>16. CASE RemoveFails BY <1>16 DEF RemoveFails
<1>17. CASE RemoveEnds BY <1>17 DEF RemoveEnds
<1>18. CASE WriteFile BY <1>18 DEF WriteFile, HookReturns, HookDies, Forgotten
<1>19. CASE WriteFails BY <1>19 DEF WriteFails, HookReturns, HookDies, Forgotten
<1>20. CASE UNCHANGED vars BY <1>20 DEF vars
<1> QED
  BY <1>1, <1>2, <1>3, <1>4, <1>5, <1>6, <1>7, <1>8, <1>9, <1>10, <1>11, <1>12, <1>13,
     <1>14, <1>15, <1>16, <1>17, <1>18, <1>19, <1>20 DEF Next, Hook

LEMMA RunnerKept == ASSUME RunnerOK, [Next]_vars PROVE RunnerOK'
<1> USE HookAssumption DEF RunnerOK, Phases
<1> USE DEF dockerVars, runnerVars, configVars, hookVars, history
<1>1. CASE Launch BY <1>1 DEF Launch
<1>2. CASE TakeJob BY <1>2 DEF TakeJob
<1>3. CASE FinishJob BY <1>3 DEF FinishJob
<1>4. CASE Kill BY <1>4 DEF Kill, HookDies, Forgotten
<1>5. CASE JobCreates BY <1>5 DEF JobCreates, Create
<1>6. CASE OtherCreates BY <1>6 DEF OtherCreates, Create
<1>7. CASE Vanish BY <1>7 DEF Vanish
<1>8. CASE Edit BY <1>8 DEF Edit
<1>9. CASE LoadConfig BY <1>9 DEF LoadConfig
<1>10. CASE LoadConfigFails BY <1>10 DEF LoadConfigFails, HookReturns, HookDies, Forgotten
<1>11. CASE ReadFile BY <1>11 DEF ReadFile
<1>12. CASE ReadFails BY <1>12 DEF ReadFails
<1>13. CASE ListKind BY <1>13 DEF ListKind
<1>14. CASE ListFails BY <1>14 DEF ListFails
<1>15. CASE RemoveOne BY <1>15 DEF RemoveOne
<1>16. CASE RemoveFails BY <1>16 DEF RemoveFails
<1>17. CASE RemoveEnds BY <1>17 DEF RemoveEnds
<1>18. CASE WriteFile BY <1>18 DEF WriteFile, HookReturns, HookDies, Forgotten
<1>19. CASE WriteFails BY <1>19 DEF WriteFails, HookReturns, HookDies, Forgotten
<1>20. CASE UNCHANGED vars BY <1>20 DEF vars
<1> QED
  BY <1>1, <1>2, <1>3, <1>4, <1>5, <1>6, <1>7, <1>8, <1>9, <1>10, <1>11, <1>12, <1>13,
     <1>14, <1>15, <1>16, <1>17, <1>18, <1>19, <1>20 DEF Next, Hook

LEMMA HookKept == ASSUME HookOK, [Next]_vars PROVE HookOK'
<1> USE DEF HookOK, Steps
<1> USE DEF dockerVars, runnerVars, configVars, hookVars, history
<1>1. CASE Launch BY <1>1 DEF Launch
<1>2. CASE TakeJob BY <1>2 DEF TakeJob
<1>3. CASE FinishJob BY <1>3 DEF FinishJob
<1>4. CASE Kill BY <1>4 DEF Kill, HookDies, Forgotten
<1>5. CASE JobCreates BY <1>5 DEF JobCreates, Create
<1>6. CASE OtherCreates BY <1>6 DEF OtherCreates, Create
<1>7. CASE Vanish BY <1>7 DEF Vanish
<1>8. CASE Edit BY <1>8 DEF Edit
<1>9. CASE LoadConfig BY <1>9 DEF LoadConfig
<1>10. CASE LoadConfigFails BY <1>10 DEF LoadConfigFails, HookReturns, HookDies, Forgotten
<1>11. CASE ReadFile BY <1>11 DEF ReadFile
<1>12. CASE ReadFails BY <1>12 DEF ReadFails
<1>13. CASE ListKind BY <1>13 DEF ListKind, Kind, Thing, Added
<1>14. CASE ListFails BY <1>14 DEF ListFails
<1>15. CASE RemoveOne BY <1>15 DEF RemoveOne
<1>16. CASE RemoveFails BY <1>16 DEF RemoveFails
<1>17. CASE RemoveEnds BY <1>17 DEF RemoveEnds
<1>18. CASE WriteFile BY <1>18 DEF WriteFile, HookReturns, HookDies, Forgotten
<1>19. CASE WriteFails BY <1>19 DEF WriteFails, HookReturns, HookDies, Forgotten
<1>20. CASE UNCHANGED vars BY <1>20 DEF vars
<1> QED
  BY <1>1, <1>2, <1>3, <1>4, <1>5, <1>6, <1>7, <1>8, <1>9, <1>10, <1>11, <1>12, <1>13,
     <1>14, <1>15, <1>16, <1>17, <1>18, <1>19, <1>20 DEF Next, Hook

LEMMA FilesKept == ASSUME TypeOK, [Next]_vars PROVE file' \in File /\ previous' \in File
<1> USE DEF TypeOK
<1>0. Blank \in File
  BY HookAssumption DEF Blank, File
<1> USE <1>0
<1> USE DEF dockerVars, runnerVars, configVars, hookVars, history
<1>1. CASE Launch BY <1>1 DEF Launch
<1>2. CASE TakeJob BY <1>2 DEF TakeJob
<1>3. CASE FinishJob BY <1>3 DEF FinishJob
<1>4. CASE Kill BY <1>4 DEF Kill, HookDies, Forgotten
<1>5. CASE JobCreates BY <1>5 DEF JobCreates, Create
<1>6. CASE OtherCreates BY <1>6 DEF OtherCreates, Create
<1>7. CASE Vanish BY <1>7 DEF Vanish
<1>8. CASE Edit BY <1>8 DEF Edit
<1>9. CASE LoadConfig BY <1>9 DEF LoadConfig
<1>10. CASE LoadConfigFails BY <1>10 DEF LoadConfigFails, HookReturns, HookDies, Forgotten
<1>11. CASE ReadFile BY <1>11 DEF ReadFile
<1>12. CASE ReadFails BY <1>12 DEF ReadFails
<1>13. CASE ListKind BY <1>13 DEF ListKind
<1>14. CASE ListFails BY <1>14 DEF ListFails
<1>15. CASE RemoveOne BY <1>15 DEF RemoveOne
<1>16. CASE RemoveFails BY <1>16 DEF RemoveFails
<1>17. CASE RemoveEnds BY <1>17 DEF RemoveEnds
<1>18. CASE WriteFile
  <2>1. file' \in File
    BY <1>18 DEF WriteFile, RunningRecord, IdleRecord, File, RunnerOK, HookOK
  <2> QED BY <1>18, <2>1 DEF WriteFile, HookReturns, HookDies, Forgotten
<1>19. CASE WriteFails BY <1>19 DEF WriteFails, HookReturns, HookDies, Forgotten
<1>20. CASE UNCHANGED vars BY <1>20 DEF vars
<1> QED
  BY <1>1, <1>2, <1>3, <1>4, <1>5, <1>6, <1>7, <1>8, <1>9, <1>10, <1>11, <1>12, <1>13,
     <1>14, <1>15, <1>16, <1>17, <1>18, <1>19, <1>20 DEF Next, Hook

LEMMA HistoryKept ==
  ASSUME TypeOK, [Next]_vars
  PROVE  before' \subseteq Thing /\ blind' \in {"no", "untaken", "unwritten"}
<1> USE DEF TypeOK, DockerOK
<1> USE DEF dockerVars, runnerVars, configVars, hookVars, history
<1>1. CASE Launch BY <1>1 DEF Launch
<1>2. CASE TakeJob BY <1>2 DEF TakeJob
<1>3. CASE FinishJob BY <1>3 DEF FinishJob
<1>4. CASE Kill BY <1>4 DEF Kill
<1>5. CASE JobCreates BY <1>5 DEF JobCreates, Create
<1>6. CASE OtherCreates BY <1>6 DEF OtherCreates, Create
<1>7. CASE Vanish BY <1>7 DEF Vanish
<1>8. CASE Edit BY <1>8 DEF Edit
<1>9. CASE LoadConfig BY <1>9 DEF LoadConfig
<1>10. CASE LoadConfigFails BY <1>10 DEF LoadConfigFails
<1>11. CASE ReadFile BY <1>11 DEF ReadFile
<1>12. CASE ReadFails BY <1>12 DEF ReadFails
<1>13. CASE ListKind BY <1>13 DEF ListKind
<1>14. CASE ListFails BY <1>14 DEF ListFails
<1>15. CASE RemoveOne BY <1>15 DEF RemoveOne
<1>16. CASE RemoveFails BY <1>16 DEF RemoveFails
<1>17. CASE RemoveEnds BY <1>17 DEF RemoveEnds
<1>18. CASE WriteFile BY <1>18 DEF WriteFile
<1>19. CASE WriteFails BY <1>19 DEF WriteFails
<1>20. CASE UNCHANGED vars BY <1>20 DEF vars
<1> QED
  BY <1>1, <1>2, <1>3, <1>4, <1>5, <1>6, <1>7, <1>8, <1>9, <1>10, <1>11, <1>12, <1>13,
     <1>14, <1>15, <1>16, <1>17, <1>18, <1>19, <1>20 DEF Next, Hook

LEMMA FlagsKept ==
  ASSUME TypeOK, [Next]_vars
  PROVE  clean' \in BOOLEAN /\ slipped' \in BOOLEAN /\ problems' \in BOOLEAN
<1> USE DEF TypeOK, RunnerOK
<1> USE DEF dockerVars, runnerVars, configVars, hookVars, history
<1>1. CASE Launch BY <1>1 DEF Launch
<1>2. CASE TakeJob BY <1>2 DEF TakeJob
<1>3. CASE FinishJob BY <1>3 DEF FinishJob
<1>4. CASE Kill BY <1>4 DEF Kill, HookDies, Forgotten
<1>5. CASE JobCreates BY <1>5 DEF JobCreates, Create
<1>6. CASE OtherCreates BY <1>6 DEF OtherCreates, Create
<1>7. CASE Vanish BY <1>7 DEF Vanish
<1>8. CASE Edit BY <1>8 DEF Edit
<1>9. CASE LoadConfig BY <1>9 DEF LoadConfig
<1>10. CASE LoadConfigFails BY <1>10 DEF LoadConfigFails, HookReturns, HookDies, Forgotten
<1>11. CASE ReadFile BY <1>11 DEF ReadFile
<1>12. CASE ReadFails BY <1>12 DEF ReadFails
<1>13. CASE ListKind BY <1>13 DEF ListKind
<1>14. CASE ListFails BY <1>14 DEF ListFails
<1>15. CASE RemoveOne BY <1>15 DEF RemoveOne
<1>16. CASE RemoveFails BY <1>16 DEF RemoveFails
<1>17. CASE RemoveEnds BY <1>17 DEF RemoveEnds
<1>18. CASE WriteFile BY <1>18 DEF WriteFile, HookReturns, HookDies, Forgotten
<1>19. CASE WriteFails BY <1>19 DEF WriteFails, HookReturns, HookDies, Forgotten
<1>20. CASE UNCHANGED vars BY <1>20 DEF vars
<1> QED
  BY <1>1, <1>2, <1>3, <1>4, <1>5, <1>6, <1>7, <1>8, <1>9, <1>10, <1>11, <1>12, <1>13,
     <1>14, <1>15, <1>16, <1>17, <1>18, <1>19, <1>20 DEF Next, Hook

LEMMA EveryStepKeepsTypes == ASSUME TypeOK, [Next]_vars PROVE TypeOK'
BY DockerKept, RunnerKept, HookKept, FilesKept, HistoryKept, FlagsKept DEF TypeOK, RunnerOK

\* Every variable of the hooks, of the runner and of job.json has its type.
THEOREM TypeCorrect == Spec => []TypeOK
<1>1. Init => TypeOK
  <2> SUFFICES ASSUME Init PROVE TypeOK
    OBVIOUS
  <2>1. DockerOK BY HookAssumption DEF Init, DockerOK, Nobody, Other
  <2>2. RunnerOK BY HookAssumption DEF Init, RunnerOK, Phases
  <2>3. HookOK BY DEF Init, HookOK, Steps
  <2>4. Blank \in File BY HookAssumption DEF Blank, File
  <2> QED BY <2>1, <2>2, <2>3, <2>4 DEF Init, TypeOK
<1>2. TypeOK /\ [Next]_vars => TypeOK'
  BY EveryStepKeepsTypes
<1> QED
  BY <1>1, <1>2, PTL DEF Spec

-----------------------------------------------------------------------------
\* A hook that returns without having written the file leaves it suspect, and
\* one that wrote it leaves it right.
LEMMA EveryStepTellsTheTruth ==
  ASSUME TypeOK, FileTellsTheTruth, [Next]_vars PROVE FileTellsTheTruth'
<1> USE DEF TypeOK, RunnerOK, HookOK, File, Phases, FileTellsTheTruth
<1> USE DEF dockerVars, runnerVars, configVars, hookVars, history
<1>1. CASE Launch BY <1>1 DEF Launch
<1>2. CASE TakeJob BY <1>2 DEF TakeJob
<1>3. CASE FinishJob BY <1>3 DEF FinishJob
<1>4. CASE Kill BY <1>4 DEF Kill
<1>5. CASE JobCreates BY <1>5 DEF JobCreates, Create
<1>6. CASE OtherCreates BY <1>6 DEF OtherCreates, Create
<1>7. CASE Vanish BY <1>7 DEF Vanish
<1>8. CASE Edit BY <1>8 DEF Edit
<1>9. CASE LoadConfig BY <1>9 DEF LoadConfig
<1>10. CASE LoadConfigFails BY <1>10 DEF LoadConfigFails
<1>11. CASE ReadFile BY <1>11 DEF ReadFile
<1>12. CASE ReadFails BY <1>12 DEF ReadFails
<1>13. CASE ListKind BY <1>13 DEF ListKind
<1>14. CASE ListFails BY <1>14 DEF ListFails
<1>15. CASE RemoveOne BY <1>15 DEF RemoveOne
<1>16. CASE RemoveFails BY <1>16 DEF RemoveFails
<1>17. CASE RemoveEnds BY <1>17 DEF RemoveEnds
<1>18. CASE WriteFile BY <1>18 DEF WriteFile, HookReturns, RunningRecord, IdleRecord
<1>19. CASE WriteFails BY <1>19 DEF WriteFails
<1>20. CASE UNCHANGED vars BY <1>20 DEF vars
<1> QED
  BY <1>1, <1>2, <1>3, <1>4, <1>5, <1>6, <1>7, <1>8, <1>9, <1>10, <1>11, <1>12, <1>13,
     <1>14, <1>15, <1>16, <1>17, <1>18, <1>19, <1>20 DEF Next, Hook

\* Unless a hook was cut short or failed since it was last written, job.json
\* says a job runs exactly while one does.
THEOREM FileTellsTheTruthHolds == Spec => []FileTellsTheTruth
<1>1. Init => FileTellsTheTruth
  BY DEF Init, FileTellsTheTruth, Blank
<1>2. TypeOK /\ FileTellsTheTruth /\ [Next]_vars => FileTellsTheTruth'
  BY EveryStepTellsTheTruth
<1> QED
  BY <1>1, <1>2, TypeCorrect, PTL DEF Spec

-----------------------------------------------------------------------------
(* What was there before a job.  The snapshot covers what is left of it:   *)
(* kind by kind while the first hook lists, in the file while the job runs *)
(* and until the second hook has read it, and in that hook's copy then.    *)

\* What was there before the job, and still is.
Kept == before \cap exists

ListedInv ==
    phase = "started" /\ blind = "no" =>
        /\ step = "list" => \A k \in 1 .. 3 : k < next => Kept \cap Kind[k] \subseteq found
        /\ step = "write" => Kept \subseteq found

RecordedInv ==
    phase = "job" \/ (phase = "completed" /\ step \in {"config", "read"}) =>
        (blind = "no" => Kept \subseteq file.docker)

SparedInv ==
    phase = "completed" /\ blind = "no" =>
        /\ step = "list" => Kept \subseteq previous.docker
        /\ step = "remove" => Kept \cap doomed = {}

\* An identifier is never used again, so what has gone does not come back.
DatedInv == \A t \in before : by[t] # Nobody

KeepInv == ListedInv /\ RecordedInv /\ SparedInv /\ DatedInv

LEMMA EveryStepKeeps == ASSUME TypeOK, KeepInv, [Next]_vars PROVE KeepInv'
<1> USE DEF KeepInv, ListedInv, RecordedInv, SparedInv, DatedInv, Kept
<1> USE DEF dockerVars, runnerVars, configVars, hookVars, history
<1>1. CASE Launch BY <1>1 DEF Launch
<1>2. CASE TakeJob BY <1>2 DEF TakeJob, TypeOK, DockerOK
<1>3. CASE FinishJob BY <1>3 DEF FinishJob
<1>4. CASE Kill BY <1>4 DEF Kill
<1>5. CASE JobCreates BY <1>5 DEF JobCreates, Create, Nobody
<1>6. CASE OtherCreates BY <1>6 DEF OtherCreates, Create, Nobody, Other
<1>7. CASE Vanish BY <1>7 DEF Vanish
<1>8. CASE Edit BY <1>8 DEF Edit
<1>9. CASE LoadConfig BY <1>9 DEF LoadConfig, TypeOK, HookOK
<1>10. CASE LoadConfigFails BY <1>10 DEF LoadConfigFails, HookReturns, HookDies
<1>11. CASE ReadFile BY <1>11 DEF ReadFile, TypeOK, HookOK
<1>12. CASE ReadFails BY <1>12 DEF ReadFails
<1>13. CASE ListKind BY <1>13 DEF ListKind, Kind, Thing, Added, TypeOK, HookOK
<1>14. CASE ListFails BY <1>14 DEF ListFails
<1>15. CASE RemoveOne BY <1>15 DEF RemoveOne
<1>16. CASE RemoveFails BY <1>16 DEF RemoveFails
<1>17. CASE RemoveEnds BY <1>17 DEF RemoveEnds, TypeOK, HookOK
<1>18. CASE WriteFile
  BY <1>18 DEF WriteFile, HookReturns, HookDies, RunningRecord
<1>19. CASE WriteFails BY <1>19 DEF WriteFails, HookReturns, HookDies
<1>20. CASE UNCHANGED vars BY <1>20 DEF vars
<1> QED
  BY <1>1, <1>2, <1>3, <1>4, <1>5, <1>6, <1>7, <1>8, <1>9, <1>10, <1>11, <1>12, <1>13,
     <1>14, <1>15, <1>16, <1>17, <1>18, <1>19, <1>20 DEF Next, Hook

LEMMA KeepHolds == Spec => []KeepInv
<1>1. Init => KeepInv
  BY DEF Init, KeepInv, ListedInv, RecordedInv, SparedInv, DatedInv
<1>2. TypeOK /\ KeepInv /\ [Next]_vars => KeepInv'
  BY EveryStepKeeps
<1> QED
  BY <1>1, <1>2, TypeCorrect, PTL DEF Spec

\* A clean-up removes nothing that was there before its job, however the lists
\* of the two hooks interleave with what others create and remove.
THEOREM KeepsWhatWasThereHolds == Spec => KeepsWhatWasThere
<1>1. TypeOK /\ KeepInv /\ [Next]_vars
        => [CleansUp => before \cap exists \subseteq exists' \/ blind # "no"]_vars
  <2> SUFFICES ASSUME TypeOK, KeepInv, Next, CleansUp, blind = "no"
               PROVE  before \cap exists \subseteq exists'
    OBVIOUS
  <2>1. step = "remove" /\ phase = "completed" /\ doomed' # doomed
    BY DEF CleansUp, TypeOK, HookOK
  <2>2. CASE exists' = exists BY <2>2
  <2>3. CASE RemoveOne
    BY <2>1, <2>3 DEF RemoveOne, KeepInv, SparedInv, Kept
  <2> QED
    BY <2>1, <2>2, <2>3
    DEF Next, Hook, Launch, TakeJob, FinishJob, Kill, JobCreates, OtherCreates, Create, Vanish,
        Edit, LoadConfig, LoadConfigFails, ReadFile, ReadFails, ListKind, ListFails, RemoveFails,
        RemoveEnds, WriteFile, WriteFails, dockerVars, hookVars
<1> QED
  BY <1>1, TypeCorrect, KeepHolds, PTL DEF Spec, KeepsWhatWasThere

-----------------------------------------------------------------------------
(* What a job leaves behind.  Nothing of it is in the snapshot the second  *)
(* hook compares with, whoever wrote it, since a job is the first to use   *)
(* its number; so the lists have it, kind by kind, and then what is left   *)
(* to remove has it.                                                       *)

\* What the current job made, and still is.
Own == {t \in exists : by[t] = job}

\* Whatever a snapshot names was made by somebody.
SeenOnce == \A t \in file.docker \cup previous.docker \cup found : by[t] # Nobody

\* No job before its turn has made anything, not even while its first hook runs.
FirstOfItsNumber ==
    \A t \in Thing :
        /\ by[t] # Other => by[t] <= job
        /\ phase = "started" => by[t] # job

NotRecorded ==
    phase \in {"started", "job"} \/ (phase = "completed" /\ step \in {"config", "read"}) =>
        \A t \in file.docker : by[t] # job

NotInCopy ==
    phase = "completed" /\ step = "list" => \A t \in previous.docker : by[t] # job

OwnListed ==
    phase = "completed" /\ step = "list" /\ ~ problems =>
        \A k \in 1 .. 3 : k < next => Own \cap Kind[k] \subseteq found

OwnDoomed ==
    phase = "completed" /\ step = "remove" /\ ~ problems => Own \subseteq doomed

LeftInv ==
    SeenOnce /\ FirstOfItsNumber /\ NotRecorded /\ NotInCopy /\ OwnListed /\ OwnDoomed

LEMMA SeenOnceKept == ASSUME TypeOK, LeftInv, [Next]_vars PROVE SeenOnce'
<1> USE HookAssumption DEF LeftInv, SeenOnce, TypeOK, DockerOK, File, Nobody, Other, RunnerOK, HookOK
<1> USE DEF dockerVars, runnerVars, configVars, hookVars, history
<1>1. CASE Launch BY <1>1 DEF Launch
<1>2. CASE TakeJob BY <1>2 DEF TakeJob
<1>3. CASE FinishJob BY <1>3 DEF FinishJob
<1>4. CASE Kill BY <1>4 DEF Kill, HookDies, Forgotten, Blank
<1>5. CASE JobCreates BY <1>5 DEF JobCreates, Create
<1>6. CASE OtherCreates BY <1>6 DEF OtherCreates, Create
<1>7. CASE Vanish BY <1>7 DEF Vanish
<1>8. CASE Edit BY <1>8 DEF Edit
<1>9. CASE LoadConfig BY <1>9 DEF LoadConfig
<1>10. CASE LoadConfigFails BY <1>10 DEF LoadConfigFails, HookReturns, HookDies, Forgotten, Blank
<1>11. CASE ReadFile BY <1>11 DEF ReadFile
<1>12. CASE ReadFails BY <1>12 DEF ReadFails, Blank
<1>13. CASE ListKind BY <1>13 DEF ListKind, Kind, Thing, Added
<1>14. CASE ListFails BY <1>14 DEF ListFails
<1>15. CASE RemoveOne BY <1>15 DEF RemoveOne
<1>16. CASE RemoveFails BY <1>16 DEF RemoveFails
<1>17. CASE RemoveEnds BY <1>17 DEF RemoveEnds
<1>18. CASE WriteFile BY <1>18 DEF WriteFile, HookReturns, HookDies, Forgotten, Blank, RunningRecord, IdleRecord
<1>19. CASE WriteFails BY <1>19 DEF WriteFails, HookReturns, HookDies, Forgotten, Blank
<1>20. CASE UNCHANGED vars BY <1>20 DEF vars
<1> QED
  BY <1>1, <1>2, <1>3, <1>4, <1>5, <1>6, <1>7, <1>8, <1>9, <1>10, <1>11, <1>12, <1>13,
     <1>14, <1>15, <1>16, <1>17, <1>18, <1>19, <1>20 DEF Next, Hook

LEMMA FirstKept == ASSUME TypeOK, LeftInv, [Next]_vars PROVE FirstOfItsNumber'
<1> USE HookAssumption DEF LeftInv, FirstOfItsNumber, TypeOK, DockerOK, RunnerOK, HookOK, Nobody, Other
<1> USE DEF dockerVars, runnerVars, configVars, hookVars, history
<1>1. CASE Launch BY <1>1 DEF Launch
<1>2. CASE TakeJob BY <1>2 DEF TakeJob
<1>3. CASE FinishJob BY <1>3 DEF FinishJob
<1>4. CASE Kill BY <1>4 DEF Kill, HookDies, Forgotten, Blank
<1>5. CASE JobCreates BY <1>5 DEF JobCreates, Create
<1>6. CASE OtherCreates BY <1>6 DEF OtherCreates, Create
<1>7. CASE Vanish BY <1>7 DEF Vanish
<1>8. CASE Edit BY <1>8 DEF Edit
<1>9. CASE LoadConfig BY <1>9 DEF LoadConfig
<1>10. CASE LoadConfigFails BY <1>10 DEF LoadConfigFails, HookReturns, HookDies, Forgotten, Blank
<1>11. CASE ReadFile BY <1>11 DEF ReadFile
<1>12. CASE ReadFails BY <1>12 DEF ReadFails, Blank
<1>13. CASE ListKind BY <1>13 DEF ListKind, Kind, Thing, Added
<1>14. CASE ListFails BY <1>14 DEF ListFails
<1>15. CASE RemoveOne BY <1>15 DEF RemoveOne
<1>16. CASE RemoveFails BY <1>16 DEF RemoveFails
<1>17. CASE RemoveEnds BY <1>17 DEF RemoveEnds
<1>18. CASE WriteFile BY <1>18 DEF WriteFile, HookReturns, HookDies, Forgotten, Blank, RunningRecord, IdleRecord
<1>19. CASE WriteFails BY <1>19 DEF WriteFails, HookReturns, HookDies, Forgotten, Blank
<1>20. CASE UNCHANGED vars BY <1>20 DEF vars
<1> QED
  BY <1>1, <1>2, <1>3, <1>4, <1>5, <1>6, <1>7, <1>8, <1>9, <1>10, <1>11, <1>12, <1>13,
     <1>14, <1>15, <1>16, <1>17, <1>18, <1>19, <1>20 DEF Next, Hook

LEMMA NotRecordedKept == ASSUME TypeOK, LeftInv, [Next]_vars PROVE NotRecorded'
<1> USE HookAssumption DEF LeftInv, SeenOnce, FirstOfItsNumber, NotRecorded, TypeOK, DockerOK, RunnerOK, HookOK, File, Nobody, Other
<1> USE DEF dockerVars, runnerVars, configVars, hookVars, history
<1>1. CASE Launch BY <1>1 DEF Launch
<1>2. CASE TakeJob BY <1>2 DEF TakeJob
<1>3. CASE FinishJob BY <1>3 DEF FinishJob
<1>4. CASE Kill BY <1>4 DEF Kill, HookDies, Forgotten, Blank
<1>5. CASE JobCreates BY <1>5 DEF JobCreates, Create
<1>6. CASE OtherCreates BY <1>6 DEF OtherCreates, Create
<1>7. CASE Vanish BY <1>7 DEF Vanish
<1>8. CASE Edit BY <1>8 DEF Edit
<1>9. CASE LoadConfig BY <1>9 DEF LoadConfig
<1>10. CASE LoadConfigFails BY <1>10 DEF LoadConfigFails, HookReturns, HookDies, Forgotten, Blank
<1>11. CASE ReadFile BY <1>11 DEF ReadFile
<1>12. CASE ReadFails BY <1>12 DEF ReadFails, Blank
<1>13. CASE ListKind BY <1>13 DEF ListKind, Kind, Thing, Added
<1>14. CASE ListFails BY <1>14 DEF ListFails
<1>15. CASE RemoveOne BY <1>15 DEF RemoveOne
<1>16. CASE RemoveFails BY <1>16 DEF RemoveFails
<1>17. CASE RemoveEnds BY <1>17 DEF RemoveEnds
<1>18. CASE WriteFile BY <1>18 DEF WriteFile, HookReturns, HookDies, Forgotten, Blank, RunningRecord, IdleRecord
<1>19. CASE WriteFails BY <1>19 DEF WriteFails, HookReturns, HookDies, Forgotten, Blank
<1>20. CASE UNCHANGED vars BY <1>20 DEF vars
<1> QED
  BY <1>1, <1>2, <1>3, <1>4, <1>5, <1>6, <1>7, <1>8, <1>9, <1>10, <1>11, <1>12, <1>13,
     <1>14, <1>15, <1>16, <1>17, <1>18, <1>19, <1>20 DEF Next, Hook

LEMMA NotInCopyKept == ASSUME TypeOK, LeftInv, [Next]_vars PROVE NotInCopy'
<1> USE HookAssumption DEF LeftInv, SeenOnce, NotRecorded, NotInCopy, TypeOK, DockerOK, RunnerOK, HookOK, File, Nobody, Other
<1> USE DEF dockerVars, runnerVars, configVars, hookVars, history
<1>1. CASE Launch BY <1>1 DEF Launch
<1>2. CASE TakeJob BY <1>2 DEF TakeJob
<1>3. CASE FinishJob BY <1>3 DEF FinishJob
<1>4. CASE Kill BY <1>4 DEF Kill, HookDies, Forgotten, Blank
<1>5. CASE JobCreates BY <1>5 DEF JobCreates, Create
<1>6. CASE OtherCreates BY <1>6 DEF OtherCreates, Create
<1>7. CASE Vanish BY <1>7 DEF Vanish
<1>8. CASE Edit BY <1>8 DEF Edit
<1>9. CASE LoadConfig BY <1>9 DEF LoadConfig
<1>10. CASE LoadConfigFails BY <1>10 DEF LoadConfigFails, HookReturns, HookDies, Forgotten, Blank
<1>11. CASE ReadFile BY <1>11 DEF ReadFile
<1>12. CASE ReadFails BY <1>12 DEF ReadFails, Blank
<1>13. CASE ListKind BY <1>13 DEF ListKind, Kind, Thing, Added
<1>14. CASE ListFails BY <1>14 DEF ListFails
<1>15. CASE RemoveOne BY <1>15 DEF RemoveOne
<1>16. CASE RemoveFails BY <1>16 DEF RemoveFails
<1>17. CASE RemoveEnds BY <1>17 DEF RemoveEnds
<1>18. CASE WriteFile BY <1>18 DEF WriteFile, HookReturns, HookDies, Forgotten, Blank, RunningRecord, IdleRecord
<1>19. CASE WriteFails BY <1>19 DEF WriteFails, HookReturns, HookDies, Forgotten, Blank
<1>20. CASE UNCHANGED vars BY <1>20 DEF vars
<1> QED
  BY <1>1, <1>2, <1>3, <1>4, <1>5, <1>6, <1>7, <1>8, <1>9, <1>10, <1>11, <1>12, <1>13,
     <1>14, <1>15, <1>16, <1>17, <1>18, <1>19, <1>20 DEF Next, Hook

LEMMA OwnListedKept == ASSUME TypeOK, LeftInv, [Next]_vars PROVE OwnListed'
<1> USE HookAssumption DEF LeftInv, OwnListed, Own, TypeOK, DockerOK, RunnerOK, HookOK, Nobody, Other
<1> USE DEF dockerVars, runnerVars, configVars, hookVars, history
<1>1. CASE Launch BY <1>1 DEF Launch
<1>2. CASE TakeJob BY <1>2 DEF TakeJob
<1>3. CASE FinishJob BY <1>3 DEF FinishJob
<1>4. CASE Kill BY <1>4 DEF Kill, HookDies, Forgotten, Blank
<1>5. CASE JobCreates BY <1>5 DEF JobCreates, Create
<1>6. CASE OtherCreates BY <1>6 DEF OtherCreates, Create
<1>7. CASE Vanish BY <1>7 DEF Vanish
<1>8. CASE Edit BY <1>8 DEF Edit
<1>9. CASE LoadConfig BY <1>9 DEF LoadConfig
<1>10. CASE LoadConfigFails BY <1>10 DEF LoadConfigFails, HookReturns, HookDies, Forgotten, Blank
<1>11. CASE ReadFile BY <1>11 DEF ReadFile
<1>12. CASE ReadFails BY <1>12 DEF ReadFails, Blank
<1>13. CASE ListKind BY <1>13 DEF ListKind, Kind, Thing, Added
<1>14. CASE ListFails BY <1>14 DEF ListFails
<1>15. CASE RemoveOne BY <1>15 DEF RemoveOne
<1>16. CASE RemoveFails BY <1>16 DEF RemoveFails
<1>17. CASE RemoveEnds BY <1>17 DEF RemoveEnds
<1>18. CASE WriteFile BY <1>18 DEF WriteFile, HookReturns, HookDies, Forgotten, Blank, RunningRecord, IdleRecord
<1>19. CASE WriteFails BY <1>19 DEF WriteFails, HookReturns, HookDies, Forgotten, Blank
<1>20. CASE UNCHANGED vars BY <1>20 DEF vars
<1> QED
  BY <1>1, <1>2, <1>3, <1>4, <1>5, <1>6, <1>7, <1>8, <1>9, <1>10, <1>11, <1>12, <1>13,
     <1>14, <1>15, <1>16, <1>17, <1>18, <1>19, <1>20 DEF Next, Hook

LEMMA OwnDoomedKept == ASSUME TypeOK, LeftInv, [Next]_vars PROVE OwnDoomed'
<1> USE HookAssumption DEF LeftInv, NotInCopy, OwnListed, OwnDoomed, Own, TypeOK, DockerOK, RunnerOK, HookOK, Nobody, Other
<1> USE DEF dockerVars, runnerVars, configVars, hookVars, history
<1>1. CASE Launch BY <1>1 DEF Launch
<1>2. CASE TakeJob BY <1>2 DEF TakeJob
<1>3. CASE FinishJob BY <1>3 DEF FinishJob
<1>4. CASE Kill BY <1>4 DEF Kill, HookDies, Forgotten, Blank
<1>5. CASE JobCreates BY <1>5 DEF JobCreates, Create
<1>6. CASE OtherCreates BY <1>6 DEF OtherCreates, Create
<1>7. CASE Vanish BY <1>7 DEF Vanish
<1>8. CASE Edit BY <1>8 DEF Edit
<1>9. CASE LoadConfig BY <1>9 DEF LoadConfig
<1>10. CASE LoadConfigFails BY <1>10 DEF LoadConfigFails, HookReturns, HookDies, Forgotten, Blank
<1>11. CASE ReadFile BY <1>11 DEF ReadFile
<1>12. CASE ReadFails BY <1>12 DEF ReadFails, Blank
<1>13. CASE ListKind BY <1>13 DEF ListKind, Kind, Thing, Added
<1>14. CASE ListFails BY <1>14 DEF ListFails
<1>15. CASE RemoveOne BY <1>15 DEF RemoveOne
<1>16. CASE RemoveFails BY <1>16 DEF RemoveFails
<1>17. CASE RemoveEnds BY <1>17 DEF RemoveEnds
<1>18. CASE WriteFile BY <1>18 DEF WriteFile, HookReturns, HookDies, Forgotten, Blank, RunningRecord, IdleRecord
<1>19. CASE WriteFails BY <1>19 DEF WriteFails, HookReturns, HookDies, Forgotten, Blank
<1>20. CASE UNCHANGED vars BY <1>20 DEF vars
<1> QED
  BY <1>1, <1>2, <1>3, <1>4, <1>5, <1>6, <1>7, <1>8, <1>9, <1>10, <1>11, <1>12, <1>13,
     <1>14, <1>15, <1>16, <1>17, <1>18, <1>19, <1>20 DEF Next, Hook

LEMMA LeftHolds == Spec => []LeftInv
<1>1. ASSUME Init PROVE LeftInv
  <2>1. SeenOnce
    BY <1>1 DEF Init, SeenOnce, Blank
  <2>2. FirstOfItsNumber
    BY <1>1, HookAssumption DEF Init, FirstOfItsNumber, Nobody, Other
  <2>3. NotRecorded /\ NotInCopy /\ OwnListed /\ OwnDoomed
    BY <1>1 DEF Init, NotRecorded, NotInCopy, OwnListed, OwnDoomed
  <2> QED BY <2>1, <2>2, <2>3 DEF LeftInv
<1>2. TypeOK /\ LeftInv /\ [Next]_vars => LeftInv'
  BY SeenOnceKept, FirstKept, NotRecordedKept, NotInCopyKept, OwnListedKept, OwnDoomedKept
  DEF LeftInv
<1> QED
  BY <1>1, <1>2, TypeCorrect, PTL DEF Spec

\* A clean-up that met no problem leaves nothing of its job behind, whatever the
\* file said that it was compared with.
THEOREM LeavesNothingHolds == Spec => LeavesNothing
<1>1. TypeOK /\ LeftInv /\ [Next]_vars
        => [step = "remove" /\ step' = "write" /\ ~problems => \A t \in exists : by[t] # job]_vars
  <2> SUFFICES ASSUME TypeOK, LeftInv, Next, step = "remove", step' = "write", ~problems
               PROVE  \A t \in exists : by[t] # job
    OBVIOUS
  <2>1. phase = "completed"
    BY DEF TypeOK, HookOK
  <2>2. doomed = {}
    BY DEF Next, Hook, Launch, TakeJob, FinishJob, Kill, HookDies, JobCreates, OtherCreates,
           Create,
        Vanish, Edit, LoadConfig, LoadConfigFails, HookReturns, ReadFile, ReadFails, ListKind,
        ListFails, RemoveOne, RemoveFails, RemoveEnds, WriteFile, WriteFails, hookVars
  <2> QED
    BY <2>1, <2>2 DEF LeftInv, OwnDoomed, Own
<1> QED
  BY <1>1, TypeCorrect, LeftHolds, PTL DEF Spec, LeavesNothing

-----------------------------------------------------------------------------
(* What the readers of job.json rely on.                                   *)

\* What says when a job started was written as one did, and the second hook
\* writes what it read, or nothing, over what is still there.
RecordInv ==
    /\ file.started > 0 => file.running \/ file.finished
    /\ phase = "completed" /\ step \in {"list", "remove", "write"} => previous \in {file, Blank}

LEMMA EveryStepKeepsRecord ==
  ASSUME TypeOK, RecordInv, [Next]_vars PROVE RecordInv'
<1> USE DEF TypeOK, RunnerOK, HookOK, Phases, Steps, RecordInv, HookReturns, HookDies
<1> USE DEF dockerVars, runnerVars, configVars, hookVars, history
<1>1. CASE Launch BY <1>1 DEF Launch
<1>2. CASE TakeJob BY <1>2 DEF TakeJob
<1>3. CASE FinishJob BY <1>3 DEF FinishJob
<1>4. CASE Kill BY <1>4 DEF Kill
<1>5. CASE JobCreates BY <1>5 DEF JobCreates, Create
<1>6. CASE OtherCreates BY <1>6 DEF OtherCreates, Create
<1>7. CASE Vanish BY <1>7 DEF Vanish
<1>8. CASE Edit BY <1>8 DEF Edit
<1>9. CASE LoadConfig BY <1>9 DEF LoadConfig
<1>10. CASE LoadConfigFails BY <1>10 DEF LoadConfigFails
<1>11. CASE ReadFile BY <1>11 DEF ReadFile
<1>12. CASE ReadFails BY <1>12 DEF ReadFails
<1>13. CASE ListKind BY <1>13 DEF ListKind
<1>14. CASE ListFails BY <1>14 DEF ListFails
<1>15. CASE RemoveOne BY <1>15 DEF RemoveOne
<1>16. CASE RemoveFails BY <1>16 DEF RemoveFails
<1>17. CASE RemoveEnds BY <1>17 DEF RemoveEnds
<1>18. CASE WriteFile
  <2>1. phase' # "completed"
    BY <1>18 DEF WriteFile
  <2>2. file'.running \/ file'.finished
    BY <1>18 DEF WriteFile, RunningRecord, IdleRecord
  <2> QED BY <2>1, <2>2
<1>19. CASE WriteFails BY <1>19 DEF WriteFails
<1>20. CASE UNCHANGED vars BY <1>20 DEF vars
<1> QED
  BY <1>1, <1>2, <1>3, <1>4, <1>5, <1>6, <1>7, <1>8, <1>9, <1>10, <1>11, <1>12, <1>13,
     <1>14, <1>15, <1>16, <1>17, <1>18, <1>19, <1>20 DEF Next, Hook

\* What a hook writes says no more than JobFile allows.
LEMMA WritingKeepsPromise ==
  ASSUME TypeOK, RecordInv, WriteFile PROVE Told!Begins \/ Told!Ends
<1>1. phase \in {"started", "completed"}
  BY DEF WriteFile, TypeOK, HookOK
<1>2. CASE phase = "started"
  <2>1. phase' = "job" /\ file'.running
    BY <1>2 DEF WriteFile, HookReturns, RunningRecord
  <2>2. Record' = "running"
    BY <2>1 DEF Record
  <2> QED BY <1>2, <2>1, <2>2 DEF Told!Begins
<1>3. CASE phase = "completed"
  <2>1. phase' = "idle" /\ ~file'.running /\ file'.started = previous.started
    BY <1>3 DEF WriteFile, HookReturns, IdleRecord
  <2>2. Record' \in {"finished", "none"}
    BY <2>1 DEF Record
  <2>3. ASSUME Record = "none" PROVE Record' = "none"
    <3>1. ~(file.started > 0)
      BY <2>3 DEF RecordInv, Record
    <3>2. previous \in {file, Blank}
      BY <1>3 DEF WriteFile, RecordInv
    <3>3. ~(previous.started > 0)
      BY <3>1, <3>2 DEF Blank
    <3> QED BY <2>1, <3>3 DEF Record
  <2> HIDE DEF Record
  <2> QED BY <1>3, <2>1, <2>2, <2>3 DEF Told!Ends
<1> QED BY <1>1, <1>2, <1>3

LEMMA EveryStepKeepsPromise ==
  ASSUME TypeOK, RecordInv, [Next]_vars
  PROVE  Told!Begins \/ Told!Ends \/ UNCHANGED Told!fileVars
<1> USE DEF TypeOK, RunnerOK, HookOK, Phases, Record, HookReturns,
            Told!Begins, Told!Ends, Told!fileVars
<1> USE DEF dockerVars, runnerVars, configVars, hookVars, history
<1>1. CASE Launch BY <1>1 DEF Launch
<1>2. CASE TakeJob BY <1>2 DEF TakeJob
<1>3. CASE FinishJob BY <1>3 DEF FinishJob
<1>4. CASE Kill BY <1>4 DEF Kill
<1>5. CASE JobCreates BY <1>5 DEF JobCreates, Create
<1>6. CASE OtherCreates BY <1>6 DEF OtherCreates, Create
<1>7. CASE Vanish BY <1>7 DEF Vanish
<1>8. CASE Edit BY <1>8 DEF Edit
<1>9. CASE LoadConfig BY <1>9 DEF LoadConfig
<1>10. CASE LoadConfigFails BY <1>10 DEF LoadConfigFails
<1>11. CASE ReadFile BY <1>11 DEF ReadFile
<1>12. CASE ReadFails BY <1>12 DEF ReadFails
<1>13. CASE ListKind BY <1>13 DEF ListKind
<1>14. CASE ListFails BY <1>14 DEF ListFails
<1>15. CASE RemoveOne BY <1>15 DEF RemoveOne
<1>16. CASE RemoveFails BY <1>16 DEF RemoveFails
<1>17. CASE RemoveEnds BY <1>17 DEF RemoveEnds
<1>18. CASE WriteFile BY <1>18, WritingKeepsPromise
<1>19. CASE WriteFails BY <1>19 DEF WriteFails
<1>20. CASE UNCHANGED vars BY <1>20 DEF vars
<1> QED
  BY <1>1, <1>2, <1>3, <1>4, <1>5, <1>6, <1>7, <1>8, <1>9, <1>10, <1>11, <1>12, <1>13,
     <1>14, <1>15, <1>16, <1>17, <1>18, <1>19, <1>20 DEF Next, Hook

\* The hooks implement JobFile: what the supervisor, the reporter, an ephemeral
\* run and an upgrade are told of a job comes late or not at all, never early.
THEOREM HooksImplementJobFile == Spec => ImplementsJobFile
<1>1. Init => Told!FileInit /\ RecordInv
  BY DEF Init, Blank, Record, Told!FileInit, RecordInv
<1>2. TypeOK /\ RecordInv /\ [Next]_vars => RecordInv'
  BY EveryStepKeepsRecord
<1>3. TypeOK /\ RecordInv /\ [Next]_vars => [Told!Begins \/ Told!Ends]_(Told!fileVars)
  BY EveryStepKeepsPromise
<1> QED
  BY <1>1, <1>2, <1>3, TypeCorrect, PTL DEF Spec, ImplementsJobFile, Told!FileSpec
=============================================================================
