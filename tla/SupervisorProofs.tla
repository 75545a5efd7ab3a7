-------------------------- MODULE SupervisorProofs --------------------------
(***************************************************************************)
(* Proofs about Supervisor, for every backoff policy, every bound and every*)
(* environment.  TypeOK and OneRunner are inductive (the second given the  *)
(* first); the others need the strengthenings named below.                 *)
(***************************************************************************)
EXTENDS Supervisor, FiniteSetTheorems, TLAPS

(* Every step is one of the actions; the case split all proofs use.        *)
Steps ==
    \/ Launch \/ LaunchFails
    \/ ObserveExit \/ ObserveCancel \/ Kill \/ ShutDown
    \/ TakeRestartFlag \/ RestartAsked \/ Complete \/ Fail
    \/ Retry \/ AbandonRetry
    \/ AcceptRestart \/ SendStop
    \/ ProcessExits \/ FinishJob \/ Cancel \/ Tick
    \/ UNCHANGED vars

LEMMA NextIsSteps == [Next]_vars => Steps
  BY DEF Next, RunStep, RestartStep, Environment, Returned, Steps

-----------------------------------------------------------------------------
(* Type correctness.                                                       *)

\* waitBeforeRetry keeps its three variables well typed: a row that is
\* allowed another retry is one the schedule has a delay for.
LEMMA WaitBeforeRetryType ==
    ASSUME TypeOK, NEW n \in Nat \ {0}, WaitBeforeRetry(n)
    PROVE  pc' \in Points /\ attempt' \in Nat /\ due' \in Nat /\ outcome' \in Outcomes
<1>1. CASE n > MaxRestarts
  <2>1. pc' = "done" /\ outcome' = "gave_up" /\ due' = due /\ attempt' = n
    BY <1>1, PolicyAssumption DEF WaitBeforeRetry, Return
  <2>. QED  BY <2>1 DEF TypeOK, Points, Outcomes
<1>2. CASE ~(n > MaxRestarts)
  <2>1. pc' = "backoff" /\ outcome' = outcome /\ due' = clock + Delay(n) /\ attempt' = n
    BY <1>2, PolicyAssumption DEF WaitBeforeRetry
  <2>2. n \in 1 .. MaxRestarts
    BY <1>2, PolicyAssumption
  <2>3. Delay(n) \in Nat
    BY <2>2, DelayAssumption
  <2>4. clock + Delay(n) \in Nat
    BY <2>3 DEF TypeOK
  <2>. QED  BY <2>1, <2>4 DEF TypeOK, Points, Outcomes
<1>. QED  BY <1>1, <1>2

LEMMA NowType == TypeOK => Now \in Entry
  BY DEF TypeOK, Now, Entry

LEMMA SpendType == TypeOK /\ SpendRestart => recent' \subseteq Entry /\ spends' \subseteq Entry
  BY NowType DEF TypeOK, SpendRestart, Kept

LEMMA FailType == TypeOK /\ Fail => TypeOK'
<1>. SUFFICES ASSUME TypeOK, Fail PROVE TypeOK'
  OBVIOUS
<1>. DEFINE row == IF Forgiven THEN 0 ELSE attempt
<1>1. row \in Nat
  BY DEF TypeOK
<1>2. recent' \subseteq Entry /\ spends' \subseteq Entry
  BY SpendType DEF Fail
<1>3. pc' \in Points /\ attempt' \in Nat /\ due' \in Nat /\ outcome' \in Outcomes
  <2>1. CASE OverBudget
    <3>1. attempt' = row /\ pc' = "done" /\ outcome' = "gave_up" /\ due' = due
      BY <2>1 DEF Fail, Return
    <3>. QED  BY <3>1, <1>1 DEF TypeOK, Points, Outcomes
  <2>2. CASE ~OverBudget
    <3>1. WaitBeforeRetry(row + 1)
      BY <2>2 DEF Fail
    <3>2. row + 1 \in Nat \ {0}
      BY <1>1
    <3>. HIDE DEF row
    <3>. QED  BY <3>1, <3>2, WaitBeforeRetryType
  <2>. QED  BY <2>1, <2>2
<1>. QED  BY <1>2, <1>3 DEF TypeOK, Fail, SetCurrent, NoProcess, processVars, requestVars, cancelVars

LEMMA LaunchFailsType == TypeOK /\ LaunchFails => TypeOK'
<1>. SUFFICES ASSUME TypeOK, LaunchFails PROVE TypeOK'
  OBVIOUS
<1>1. attempt + 1 \in Nat \ {0}
  BY DEF TypeOK
<1>2. WaitBeforeRetry(attempt + 1)
  BY DEF LaunchFails
<1>3. pc' \in Points /\ attempt' \in Nat /\ due' \in Nat /\ outcome' \in Outcomes
  BY <1>1, <1>2, WaitBeforeRetryType
<1>. QED  BY <1>3 DEF TypeOK, LaunchFails, sharedVars, processVars, requestVars, cancelVars

LEMMA TypeStep == TypeOK /\ [Next]_vars => TypeOK'
<1>. SUFFICES ASSUME TypeOK, Steps PROVE TypeOK'
  BY NextIsSteps
<1>. USE DEF TypeOK, Points, Outcomes, Entry, NoProcess, Return, SetCurrent, TakeFlag, Signal,
             runVars, sharedVars, processVars, requestVars, cancelVars
<1>1. CASE Launch
  <2>1. launched + 1 \in Nat
    OBVIOUS
  <2>2. alive' \subseteq Nat /\ current' \in Nat /\ launched' \in Nat /\ startedAt' \in Nat
    BY <1>1, <2>1 DEF Launch
  <2>3. restarting' \in BOOLEAN /\ pc' \in Points
    BY <1>1 DEF Launch
  <2>. QED  BY <1>1, <2>2, <2>3 DEF Launch
<1>2. CASE LaunchFails      BY <1>2, LaunchFailsType
<1>3. CASE ObserveExit      BY <1>3 DEF ObserveExit
<1>4. CASE ObserveCancel    BY <1>4, PolicyAssumption DEF ObserveCancel
<1>5. CASE Kill             BY <1>5 DEF Kill
<1>6. CASE ShutDown         BY <1>6 DEF ShutDown
<1>7. CASE TakeRestartFlag  BY <1>7 DEF TakeRestartFlag
<1>8. CASE RestartAsked     BY <1>8 DEF RestartAsked
<1>9. CASE Complete         BY <1>9 DEF Complete
<1>10. CASE Fail            BY <1>10, FailType
<1>11. CASE Retry           BY <1>11 DEF Retry
<1>12. CASE AbandonRetry    BY <1>12 DEF AbandonRetry
<1>13. CASE AcceptRestart   BY <1>13 DEF AcceptRestart
<1>14. CASE SendStop        BY <1>14 DEF SendStop
<1>15. CASE ProcessExits    BY <1>15 DEF ProcessExits
<1>16. CASE FinishJob       BY <1>16 DEF FinishJob
<1>17. CASE Cancel          BY <1>17 DEF Cancel
<1>18. CASE Tick            BY <1>18 DEF Tick
<1>19. CASE UNCHANGED vars  BY <1>19 DEF vars
<1>. QED
  BY <1>1, <1>2, <1>3, <1>4, <1>5, <1>6, <1>7, <1>8, <1>9, <1>10, <1>11,
     <1>12, <1>13, <1>14, <1>15, <1>16, <1>17, <1>18, <1>19 DEF Steps

\* The supervisor's variables keep their types, whatever the policy: no
\* delay is ever looked up beyond the row the policy allows.
THEOREM TypeCorrect == Spec => []TypeOK
<1>1. ASSUME Init PROVE TypeOK
  <2>1. asked \in BOOLEAN /\ restarting \in BOOLEAN /\ clean \in BOOLEAN
        /\ jobDone \in BOOLEAN /\ cancelled \in BOOLEAN
    BY <1>1 DEF Init
  <2>2. pc \in Points /\ outcome \in Outcomes
    BY <1>1 DEF Init, Points, Outcomes
  <2>. QED  BY <1>1, <2>1, <2>2 DEF Init, TypeOK, NoProcess
<1>. QED  BY <1>1, TypeStep, PTL DEF Spec

-----------------------------------------------------------------------------
(* One runner at a time.                                                   *)

LEMMA OneRunnerStep == TypeOK /\ OneRunner /\ [Next]_vars => OneRunner'
<1>. SUFFICES ASSUME TypeOK, OneRunner, Steps PROVE OneRunner'
  BY NextIsSteps
<1>. USE DEF OneRunner, Return, Waited, runVars, sharedVars, processVars, requestVars, cancelVars
<1>1. CASE Launch           BY <1>1 DEF Launch
<1>2. CASE LaunchFails      BY <1>2 DEF LaunchFails, WaitBeforeRetry
<1>3. CASE ObserveExit      BY <1>3 DEF ObserveExit
<1>4. CASE ObserveCancel    BY <1>4 DEF ObserveCancel
<1>5. CASE Kill             BY <1>5 DEF Kill
<1>6. CASE ShutDown         BY <1>6 DEF ShutDown
<1>7. CASE TakeRestartFlag  BY <1>7 DEF TakeRestartFlag
<1>8. CASE RestartAsked     BY <1>8 DEF RestartAsked
<1>9. CASE Complete         BY <1>9 DEF Complete
<1>10. CASE Fail            BY <1>10 DEF Fail, WaitBeforeRetry
<1>11. CASE Retry           BY <1>11 DEF Retry
<1>12. CASE AbandonRetry    BY <1>12 DEF AbandonRetry
<1>13. CASE AcceptRestart   BY <1>13 DEF AcceptRestart
<1>14. CASE SendStop        BY <1>14 DEF SendStop
<1>15. CASE ProcessExits    BY <1>15 DEF ProcessExits
<1>16. CASE FinishJob       BY <1>16 DEF FinishJob
<1>17. CASE Cancel          BY <1>17 DEF Cancel
<1>18. CASE Tick            BY <1>18 DEF Tick
<1>19. CASE UNCHANGED vars  BY <1>19 DEF vars
<1>. QED
  BY <1>1, <1>2, <1>3, <1>4, <1>5, <1>6, <1>7, <1>8, <1>9, <1>10, <1>11,
     <1>12, <1>13, <1>14, <1>15, <1>16, <1>17, <1>18, <1>19 DEF Steps

\* A runner is never launched, and Run never backs off or returns, while an
\* earlier one is still running.
THEOREM OneRunnerHolds == Spec => []OneRunner
<1>1. Init => OneRunner
  BY DEF Init, OneRunner
<1>. QED  BY <1>1, OneRunnerStep, TypeCorrect, PTL DEF Spec

-----------------------------------------------------------------------------
(* What the rest of an agent sees of Run.                                  *)

LEMMA LifeStep ==
    ASSUME TypeOK, OneRunner, [Next]_vars
    PROVE  [Life!Begins \/ Life!Dies \/ Life!Turns]_(Life!lifeVars)
<1>. SUFFICES ASSUME Steps PROVE Life!Begins \/ Life!Dies \/ Life!Turns \/ UNCHANGED Life!lifeVars
  BY NextIsSteps
<1>. USE DEF OneRunner, LifeAt, Life!Then, Return, Waited, Life!Begins, Life!Dies, Life!Turns,
             Life!lifeVars, runVars, sharedVars, processVars, requestVars, cancelVars
<1>1. CASE Launch           BY <1>1 DEF Launch
<1>2. CASE LaunchFails      BY <1>2 DEF LaunchFails, WaitBeforeRetry
<1>3. CASE ObserveExit      BY <1>3 DEF ObserveExit
<1>4. CASE ObserveCancel    BY <1>4 DEF ObserveCancel
<1>5. CASE Kill             BY <1>5 DEF Kill
<1>6. CASE ShutDown         BY <1>6 DEF ShutDown
<1>7. CASE TakeRestartFlag  BY <1>7 DEF TakeRestartFlag
<1>8. CASE RestartAsked     BY <1>8 DEF RestartAsked
<1>9. CASE Complete         BY <1>9 DEF Complete
<1>10. CASE Fail            BY <1>10 DEF Fail, WaitBeforeRetry
<1>11. CASE Retry           BY <1>11 DEF Retry
<1>12. CASE AbandonRetry    BY <1>12 DEF AbandonRetry
<1>13. CASE AcceptRestart   BY <1>13 DEF AcceptRestart
<1>14. CASE SendStop        BY <1>14 DEF SendStop
<1>15. CASE ProcessExits
  <2>1. alive # {} /\ alive' = {}
    BY <1>15 DEF ProcessExits
  <2>. QED  BY <1>15, <2>1 DEF ProcessExits
<1>16. CASE FinishJob       BY <1>16 DEF FinishJob
<1>17. CASE Cancel          BY <1>17 DEF Cancel
<1>18. CASE Tick            BY <1>18 DEF Tick
<1>19. CASE UNCHANGED vars  BY <1>19 DEF vars
<1>. QED
  BY <1>1, <1>2, <1>3, <1>4, <1>5, <1>6, <1>7, <1>8, <1>9, <1>10, <1>11,
     <1>12, <1>13, <1>14, <1>15, <1>16, <1>17, <1>18, <1>19 DEF Steps

\* Run implements RunnerLife, step by step, whatever the policy, the runner and
\* the operator do: each of its steps is one of RunnerLife's or changes nothing
\* that shows.
THEOREM LifeImplemented == Spec => ImplementsLife
<1>1. Init => Life!LifeInit
  BY DEF Init, Life!LifeInit, LifeAt
<1>. QED
  BY <1>1, LifeStep, TypeCorrect, OneRunnerHolds, PTL DEF Spec, ImplementsLife, Life!LifeSpec

-----------------------------------------------------------------------------
(* An operator's restart excuses its target only.                          *)

\* Where s.current is set, and to what; and what a raised flag means there.
\* A flag raised between takeRestartFlag and setCurrent(nil) lingers, which
\* the second part allows: it says nothing of "taken" or of what follows,
\* and Launch lowers the flag before it could be read again.
Holding == {"wait", "stop", "kill", "reaped", "taken"}

CurrentIsLatest == current = IF pc \in Holding THEN launched ELSE NoProcess

FlagIsPrompt == restarting /\ pc \in Holding \ {"taken"} => launched \in accepted

FlagInv == CurrentIsLatest /\ FlagIsPrompt /\ RestartExcusesItsTarget

LEMMA FlagStep == TypeOK /\ FlagInv /\ [Next]_vars => FlagInv'
<1>. SUFFICES ASSUME TypeOK, FlagInv, Steps PROVE FlagInv'
  BY NextIsSteps
<1>. USE DEF FlagInv, CurrentIsLatest, FlagIsPrompt, RestartExcusesItsTarget, Holding,
             NoProcess, Return, SetCurrent, TakeFlag,
             runVars, sharedVars, processVars, requestVars, cancelVars
<1>1. CASE Launch
  <2>1. launched + 1 # 0 /\ restarting' = FALSE /\ current' = launched' /\ pc' = "wait"
    BY <1>1 DEF Launch, TypeOK
  <2>. QED  BY <2>1
<1>2. CASE LaunchFails      BY <1>2 DEF LaunchFails, WaitBeforeRetry
<1>3. CASE ObserveExit      BY <1>3 DEF ObserveExit
<1>4. CASE ObserveCancel    BY <1>4 DEF ObserveCancel
<1>5. CASE Kill             BY <1>5 DEF Kill
<1>6. CASE ShutDown         BY <1>6 DEF ShutDown
<1>7. CASE TakeRestartFlag  BY <1>7 DEF TakeRestartFlag
<1>8. CASE RestartAsked     BY <1>8 DEF RestartAsked
<1>9. CASE Complete         BY <1>9 DEF Complete
<1>10. CASE Fail            BY <1>10 DEF Fail, WaitBeforeRetry
<1>11. CASE Retry           BY <1>11 DEF Retry
<1>12. CASE AbandonRetry    BY <1>12 DEF AbandonRetry
<1>13. CASE AcceptRestart
  <2>1. pc \in Holding /\ current = launched
    BY <1>13 DEF AcceptRestart
  <2>2. launched' \in accepted'
    BY <1>13, <2>1 DEF AcceptRestart
  <2>. QED  BY <1>13, <2>1, <2>2 DEF AcceptRestart
<1>14. CASE SendStop        BY <1>14 DEF SendStop
<1>15. CASE ProcessExits    BY <1>15 DEF ProcessExits
<1>16. CASE FinishJob       BY <1>16 DEF FinishJob
<1>17. CASE Cancel          BY <1>17 DEF Cancel
<1>18. CASE Tick            BY <1>18 DEF Tick
<1>19. CASE UNCHANGED vars  BY <1>19 DEF vars
<1>. QED
  BY <1>1, <1>2, <1>3, <1>4, <1>5, <1>6, <1>7, <1>8, <1>9, <1>10, <1>11,
     <1>12, <1>13, <1>14, <1>15, <1>16, <1>17, <1>18, <1>19 DEF Steps

\* Where s.current points, and what a raised flag means, at every point of Run.
LEMMA FlagHolds == Spec => []FlagInv
<1>1. Init => FlagInv
  BY DEF Init, FlagInv, CurrentIsLatest, FlagIsPrompt, RestartExcusesItsTarget,
         Holding, NoProcess
<1>. QED  BY <1>1, FlagStep, TypeCorrect, PTL DEF Spec

\* However a Restart call interleaves with an exit, the exit it excuses is
\* that of a process Restart was called on.
THEOREM RestartExcusesItsTargetHolds == Spec => []RestartExcusesItsTarget
<1>1. FlagInv => RestartExcusesItsTarget
  BY DEF FlagInv
<1>. QED  BY <1>1, FlagHolds, PTL

-----------------------------------------------------------------------------
(* The safe half of RestartReachesItsTarget.                               *)

\* A process that a Restart call was accepted for, and that runs, is about to
\* be signalled or was.
AcceptedIsStopped == \A p \in accepted : p \in alive => p = stopping \/ p \in signalled

AcceptedInv == AcceptedIsStopped /\ accepted \subseteq 1 .. launched

LEMMA AcceptedStep ==
    ASSUME TypeOK, FlagInv, AcceptedInv, [Next]_vars
    PROVE  AcceptedInv'
<1>. SUFFICES ASSUME Steps PROVE AcceptedInv'
  BY NextIsSteps
<1>t. launched \in Nat /\ current \in Nat
  BY DEF TypeOK
<1>k. ASSUME alive' \subseteq alive, launched' = launched, UNCHANGED requestVars
      PROVE  AcceptedInv'
  BY <1>k DEF AcceptedInv, AcceptedIsStopped, requestVars
<1>. USE DEF runVars, sharedVars, processVars, cancelVars
<1>1. CASE Launch
  <2>1. launched + 1 \notin accepted /\ 1 .. launched \subseteq 1 .. (launched + 1)
    BY <1>t DEF AcceptedInv
  <2>2. alive' = alive \cup {launched + 1} /\ launched' = launched + 1 /\ UNCHANGED requestVars
    BY <1>1 DEF Launch
  <2>. QED  BY <2>1, <2>2 DEF AcceptedInv, AcceptedIsStopped, requestVars
<1>2. CASE LaunchFails      BY <1>2, <1>k DEF LaunchFails
<1>3. CASE ObserveExit      BY <1>3, <1>k DEF ObserveExit
<1>4. CASE ObserveCancel    BY <1>4, <1>k DEF ObserveCancel
<1>5. CASE Kill             BY <1>5, <1>k DEF Kill
<1>6. CASE ShutDown         BY <1>6, <1>k DEF ShutDown
<1>7. CASE TakeRestartFlag  BY <1>7, <1>k DEF TakeRestartFlag
<1>8. CASE RestartAsked     BY <1>8, <1>k DEF RestartAsked
<1>9. CASE Complete         BY <1>9, <1>k DEF Complete
<1>10. CASE Fail            BY <1>10, <1>k DEF Fail
<1>11. CASE Retry           BY <1>11, <1>k DEF Retry
<1>12. CASE AbandonRetry    BY <1>12, <1>k DEF AbandonRetry
<1>13. CASE AcceptRestart
  <2>1. stopping = NoProcess /\ current # NoProcess
    BY <1>13 DEF AcceptRestart
  <2>2. current = launched
    BY <2>1 DEF FlagInv, CurrentIsLatest
  <2>3. current \in 1 .. launched /\ stopping \notin accepted
    BY <1>t, <2>1, <2>2 DEF NoProcess, AcceptedInv
  <2>4. stopping' = current /\ accepted' = accepted \cup {current}
        /\ UNCHANGED <<alive, launched, signalled>>
    BY <1>13 DEF AcceptRestart
  <2>. QED  BY <2>3, <2>4 DEF AcceptedInv, AcceptedIsStopped
<1>14. CASE SendStop        BY <1>14 DEF SendStop, Signal, AcceptedInv, AcceptedIsStopped
<1>15. CASE ProcessExits    BY <1>15, <1>k DEF ProcessExits
<1>16. CASE FinishJob       BY <1>16, <1>k DEF FinishJob
<1>17. CASE Cancel          BY <1>17, <1>k DEF Cancel
<1>18. CASE Tick            BY <1>18, <1>k DEF Tick
<1>19. CASE UNCHANGED vars  BY <1>19, <1>k DEF vars
<1>. QED
  BY <1>1, <1>2, <1>3, <1>4, <1>5, <1>6, <1>7, <1>8, <1>9, <1>10, <1>11,
     <1>12, <1>13, <1>14, <1>15, <1>16, <1>17, <1>18, <1>19 DEF Steps

\* No accepted restart is forgotten: the process it was aimed at is gone, was
\* signalled while it ran, or is what Restart signals next.
THEOREM AcceptedIsStoppedHolds == Spec => []AcceptedIsStopped
<1>1. Init => AcceptedInv
  BY DEF Init, AcceptedInv, AcceptedIsStopped
<1>2. AcceptedInv => AcceptedIsStopped
  BY DEF AcceptedInv
<1>3. TypeOK /\ FlagInv /\ AcceptedInv /\ [Next]_vars => AcceptedInv'
  BY AcceptedStep
<1>. QED  BY <1>1, <1>2, <1>3, FlagHolds, TypeCorrect, PTL DEF Spec

-----------------------------------------------------------------------------
(* The restart budget: pruning s.recent loses nothing that counts.         *)

\* What spendRestart kept is part of what was ever spent, nothing outside it
\* is young enough to count, and entries come in launch order, so a new entry
\* enters no span that ends at an older one.
PrunedIsOld == \A e \in spends \ recent : e.at + Window <= clock

SpendsAreDated ==
    \A e \in spends :
        /\ e.at <= clock
        /\ e.id <= launched
        /\ pc \in Holding => e.id < launched

OutcomeIsFinal == outcome # "none" => pc = "done"

BudgetInv ==
    /\ recent \subseteq spends
    /\ IsFiniteSet(spends)
    /\ ~Metered => spends = {}
    /\ SpendsAreDated
    /\ PrunedIsOld
    /\ OutcomeIsFinal
    /\ WithinBudget

\* The span that ends now is what spendRestart counts.
LEMMA SpanIsKept ==
    ASSUME TypeOK, BudgetInv, Metered
    PROVE  {e \in spends \cup {Now} : e.at <= clock /\ e.id <= launched /\ e.at + Window > clock}
             = Kept \cup {Now}
<1>1. Now.at = clock /\ Now.id = launched
  BY DEF Now
<1>2. clock + Window > clock /\ clock <= clock /\ launched <= launched
  BY PolicyAssumption DEF TypeOK, Metered
<1>3. ASSUME NEW e \in spends
      PROVE  (e.at <= clock /\ e.id <= launched /\ e.at + Window > clock) <=> e \in Kept
  <2>1. e.at \in Nat /\ e.id \in Nat /\ clock \in Nat /\ Window \in Nat
    BY PolicyAssumption DEF TypeOK, Entry
  <2>2. e.at <= clock /\ e.id <= launched
    BY DEF BudgetInv, SpendsAreDated
  <2>3. e.at + Window > clock => e \in recent
    BY <2>1 DEF BudgetInv, PrunedIsOld
  <2>. QED  BY <2>2, <2>3 DEF Kept
<1>4. Kept \subseteq spends
  BY DEF Kept, BudgetInv
<1>. QED  BY <1>1, <1>2, <1>3, <1>4

\* A restart that goes ahead keeps every span within the budget.
LEMMA SpendWithinBudget ==
    ASSUME TypeOK, BudgetInv, Metered, pc = "taken",
           spends' = spends \cup {Now}, ~OverBudget, outcome # "gave_up"
    PROVE  WithinBudget'
<1>. DEFINE Span(S, last) == {e \in S : e.at <= last.at /\ e.id <= last.id /\ e.at + Window > last.at}
<1>1. SUFFICES ASSUME NEW last \in spends \cup {Now}
               PROVE  ~(Cardinality(Span(spends \cup {Now}, last)) > MaxRestartsPerWindow)
  BY DEF WithinBudget, OverspentAt, RestartsIn
<1>2. CASE last = Now
  <2>1. Span(spends \cup {Now}, last) = Kept \cup {Now}
    BY <1>2, SpanIsKept DEF Now
  <2>2. ~(Cardinality(Kept \cup {Now}) > MaxRestartsPerWindow)
    BY DEF OverBudget
  <2>. HIDE DEF Span
  <2>. QED  BY <2>1, <2>2
<1>3. CASE last # Now
  <2>1. last \in spends
    BY <1>1, <1>3
  <2>2. last.id < launched /\ last.id \in Nat /\ launched \in Nat
    BY <2>1 DEF BudgetInv, SpendsAreDated, Holding, TypeOK, Entry
  <2>3. ~(Now.id <= last.id)
    BY <2>2 DEF Now
  <2>4. Span(spends \cup {Now}, last) = RestartsIn(last)
    BY <2>3 DEF RestartsIn
  <2>. QED  BY <2>1, <2>4 DEF BudgetInv, WithinBudget, OverspentAt
<1>. QED  BY <1>2, <1>3

LEMMA FailBudget == TypeOK /\ BudgetInv /\ Fail => BudgetInv'
<1>. SUFFICES ASSUME TypeOK, BudgetInv, Fail PROVE BudgetInv'
  OBVIOUS
<1>0. pc = "taken" /\ clock' = clock /\ launched' = launched
  BY DEF Fail, processVars
<1>1. pc' \notin Holding
  BY DEF Fail, WaitBeforeRetry, Return, Holding
<1>2. OutcomeIsFinal'
  BY <1>0 DEF Fail, WaitBeforeRetry, Return, BudgetInv, OutcomeIsFinal
<1>3. CASE ~Metered
  <2>1. recent' = recent /\ spends' = spends /\ spends = {}
    BY <1>3 DEF Fail, SpendRestart, BudgetInv
  <2>2. ~Metered'
    BY <1>3 DEF Metered
  <2>. QED
    BY <1>2, <2>1, <2>2 DEF BudgetInv, SpendsAreDated, PrunedIsOld, WithinBudget
<1>4. CASE Metered
  <2>1. recent' = Kept \cup {Now} /\ spends' = spends \cup {Now}
    BY <1>4 DEF Fail, SpendRestart
  <2>2. recent' \subseteq spends' /\ IsFiniteSet(spends')
    BY <2>1, FS_AddElement DEF BudgetInv, Kept
  <2>3. SpendsAreDated'
    <3>1. Now.at = clock /\ Now.id = launched /\ clock <= clock /\ launched <= launched
      BY DEF Now, TypeOK
    <3>. QED  BY <1>0, <1>1, <2>1, <3>1 DEF BudgetInv, SpendsAreDated
  <2>4. PrunedIsOld'
    <3>1. SUFFICES ASSUME NEW e \in spends' \ recent' PROVE e.at + Window <= clock
      BY <1>0 DEF PrunedIsOld
    <3>2. e \in spends /\ e \notin Kept
      BY <2>1, <3>1
    <3>3. e.at \in Nat /\ clock \in Nat /\ Window \in Nat
      BY <3>2, PolicyAssumption DEF TypeOK, Entry
    <3>. QED  BY <3>2, <3>3 DEF Kept, BudgetInv, PrunedIsOld
  <2>5. WithinBudget'
    <3>1. CASE OverBudget
      BY <3>1 DEF Fail, Return, WithinBudget
    <3>2. CASE ~OverBudget
      <4>1. outcome # "gave_up"
        BY <1>0 DEF BudgetInv, OutcomeIsFinal
      <4>. QED  BY <1>0, <1>4, <2>1, <3>2, <4>1, SpendWithinBudget
    <3>. QED  BY <3>1, <3>2
  <2>. QED  BY <1>2, <1>4, <2>2, <2>3, <2>4, <2>5 DEF BudgetInv, Metered
<1>. QED  BY <1>3, <1>4

\* A step that spends nothing keeps the invariant if it does not turn back
\* the clock or the count of launches.
LEMMA QuietStep ==
    ASSUME TypeOK, BudgetInv,
           clock' \in Nat, launched' \in Nat,
           recent' = recent, spends' = spends,
           clock' >= clock, launched' >= launched,
           pc' \in Holding => pc \in Holding \/ launched' > launched,
           outcome' # "none" => pc' = "done",
           outcome = "gave_up" => outcome' = "gave_up"
    PROVE  BudgetInv'
<1>1. \A e \in spends : e.at \in Nat /\ e.id \in Nat
  BY DEF TypeOK, Entry
<1>2. clock \in Nat /\ launched \in Nat /\ Window \in Nat
  BY PolicyAssumption DEF TypeOK
<1>3. SpendsAreDated'
  BY <1>1, <1>2 DEF BudgetInv, SpendsAreDated
<1>4. PrunedIsOld'
  BY <1>1, <1>2 DEF BudgetInv, PrunedIsOld
<1>5. WithinBudget'
  BY DEF BudgetInv, WithinBudget, OverspentAt, RestartsIn
<1>. QED  BY <1>3, <1>4, <1>5 DEF BudgetInv, OutcomeIsFinal, Metered

LEMMA BudgetStep == TypeOK /\ BudgetInv /\ [Next]_vars => BudgetInv'
<1>. SUFFICES ASSUME TypeOK, BudgetInv, Steps PROVE BudgetInv'
  BY NextIsSteps
<1>. DEFINE Quiet ==
       /\ clock' \in Nat /\ launched' \in Nat
       /\ recent' = recent /\ spends' = spends
       /\ clock' >= clock /\ launched' >= launched
       /\ pc' \in Holding => pc \in Holding \/ launched' > launched
       /\ outcome' # "none" => pc' = "done"
       /\ outcome = "gave_up" => outcome' = "gave_up"
<1>0. Quiet => BudgetInv'
  BY QuietStep
<1>t. clock \in Nat /\ launched \in Nat /\ clock >= clock /\ launched >= launched
      /\ (outcome # "none" => pc = "done")
  BY DEF TypeOK, BudgetInv, OutcomeIsFinal
<1>. USE DEF Holding, Return, runVars, sharedVars, processVars, requestVars, cancelVars
<1>1. CASE Launch           BY <1>0, <1>1, <1>t DEF Launch
<1>2. CASE LaunchFails      BY <1>0, <1>2, <1>t DEF LaunchFails, WaitBeforeRetry
<1>3. CASE ObserveExit      BY <1>0, <1>3, <1>t DEF ObserveExit
<1>4. CASE ObserveCancel    BY <1>0, <1>4, <1>t DEF ObserveCancel
<1>5. CASE Kill             BY <1>0, <1>5, <1>t DEF Kill
<1>6. CASE ShutDown         BY <1>0, <1>6, <1>t DEF ShutDown
<1>7. CASE TakeRestartFlag  BY <1>0, <1>7, <1>t DEF TakeRestartFlag
<1>8. CASE RestartAsked     BY <1>0, <1>8, <1>t DEF RestartAsked
<1>9. CASE Complete         BY <1>0, <1>9, <1>t DEF Complete
<1>10. CASE Fail            BY <1>10, FailBudget
<1>11. CASE Retry           BY <1>0, <1>11, <1>t DEF Retry
<1>12. CASE AbandonRetry    BY <1>0, <1>12, <1>t DEF AbandonRetry
<1>13. CASE AcceptRestart   BY <1>0, <1>13, <1>t DEF AcceptRestart
<1>14. CASE SendStop        BY <1>0, <1>14, <1>t DEF SendStop
<1>15. CASE ProcessExits    BY <1>0, <1>15, <1>t DEF ProcessExits
<1>16. CASE FinishJob       BY <1>0, <1>16, <1>t DEF FinishJob
<1>17. CASE Cancel          BY <1>0, <1>17, <1>t DEF Cancel
<1>18. CASE Tick            BY <1>0, <1>18, <1>t DEF Tick
<1>19. CASE UNCHANGED vars  BY <1>0, <1>19, <1>t DEF vars
<1>. QED
  BY <1>1, <1>2, <1>3, <1>4, <1>5, <1>6, <1>7, <1>8, <1>9, <1>10, <1>11,
     <1>12, <1>13, <1>14, <1>15, <1>16, <1>17, <1>18, <1>19 DEF Steps

\* Where Run gives up on the budget, the span that ends with the restart it has
\* just counted holds too many.
LEMMA FailCause ==
    ASSUME TypeOK, BudgetInv, Fail, outcome' = "gave_up"
    PROVE  GivesUpForCause'
<1>0. clock' = clock /\ launched' = launched
  BY DEF Fail, processVars
<1>1. CASE OverBudget
  <2>1. Metered /\ spends' = spends \cup {Now}
    BY <1>1 DEF OverBudget, Fail, SpendRestart
  <2>2. RestartsIn(Now)' = Kept \cup {Now}
    BY <1>0, <2>1, SpanIsKept DEF RestartsIn, Now
  <2>3. OverspentAt(Now)'
    BY <1>1, <2>2 DEF OverspentAt, OverBudget
  <2>4. Now' = Now /\ Now \in spends'
    BY <1>0, <2>1 DEF Now
  <2>. QED  BY <2>3, <2>4 DEF GivesUpForCause, OverspentAt, RestartsIn
<1>2. CASE ~OverBudget
  BY <1>2 DEF Fail, WaitBeforeRetry, GivesUpForCause, BudgetInv, OutcomeIsFinal
<1>. QED  BY <1>1, <1>2

LEMMA CauseStep ==
    TypeOK /\ BudgetInv /\ GivesUpForCause /\ [Next]_vars => GivesUpForCause'
<1>. SUFFICES ASSUME TypeOK, BudgetInv, GivesUpForCause, Steps PROVE GivesUpForCause'
  BY NextIsSteps
<1>. DEFINE Quiet == \/ outcome' # "gave_up"
                     \/ outcome' = outcome /\ attempt' = attempt /\ spends' = spends
<1>0. Quiet => GivesUpForCause'
  BY DEF GivesUpForCause, OverspentAt, RestartsIn
<1>. USE DEF Return, runVars, sharedVars, processVars, requestVars, cancelVars
<1>1. CASE Launch           BY <1>0, <1>1 DEF Launch
<1>2. CASE LaunchFails
  BY <1>0, <1>2 DEF LaunchFails, WaitBeforeRetry, GivesUpForCause, BudgetInv, OutcomeIsFinal
<1>3. CASE ObserveExit      BY <1>0, <1>3 DEF ObserveExit
<1>4. CASE ObserveCancel    BY <1>0, <1>4 DEF ObserveCancel
<1>5. CASE Kill             BY <1>0, <1>5 DEF Kill
<1>6. CASE ShutDown         BY <1>0, <1>6 DEF ShutDown
<1>7. CASE TakeRestartFlag  BY <1>0, <1>7 DEF TakeRestartFlag
<1>8. CASE RestartAsked     BY <1>0, <1>8 DEF RestartAsked
<1>9. CASE Complete         BY <1>0, <1>9 DEF Complete
<1>10. CASE Fail            BY <1>0, <1>10, FailCause
<1>11. CASE Retry           BY <1>0, <1>11 DEF Retry
<1>12. CASE AbandonRetry    BY <1>0, <1>12 DEF AbandonRetry
<1>13. CASE AcceptRestart   BY <1>0, <1>13 DEF AcceptRestart
<1>14. CASE SendStop        BY <1>0, <1>14 DEF SendStop
<1>15. CASE ProcessExits    BY <1>0, <1>15 DEF ProcessExits
<1>16. CASE FinishJob       BY <1>0, <1>16 DEF FinishJob
<1>17. CASE Cancel          BY <1>0, <1>17 DEF Cancel
<1>18. CASE Tick            BY <1>0, <1>18 DEF Tick
<1>19. CASE UNCHANGED vars  BY <1>0, <1>19 DEF vars
<1>. QED
  BY <1>1, <1>2, <1>3, <1>4, <1>5, <1>6, <1>7, <1>8, <1>9, <1>10, <1>11,
     <1>12, <1>13, <1>14, <1>15, <1>16, <1>17, <1>18, <1>19 DEF Steps

\* Whatever the policy: no span of Window ever holds more restarts of failed
\* processes than the budget allows, as spendRestart forgets only entries that no
\* later span can contain; and restarts that are further apart than that never
\* exhaust the budget, as it counts only what one span does contain.
THEOREM BudgetDecidesHolds == Spec => []BudgetDecides
<1>1. ASSUME Init PROVE BudgetInv /\ GivesUpForCause
  <2>1. spends = {} /\ recent = {} /\ outcome = "none"
    BY <1>1 DEF Init
  <2>. QED
    BY <2>1, FS_EmptySet
       DEF BudgetInv, SpendsAreDated, PrunedIsOld, OutcomeIsFinal, WithinBudget,
           GivesUpForCause
<1>2. BudgetInv /\ GivesUpForCause => BudgetDecides
  BY DEF BudgetInv, BudgetDecides
<1>. QED  BY <1>1, <1>2, BudgetStep, CauseStep, TypeCorrect, PTL DEF Spec

-----------------------------------------------------------------------------
(* A shutdown is overtaken by few launches.                                *)

\* With a delay before every retry, a context that is done wins the select
\* in waitBeforeRetry unless its timer had already fired.
PositiveDelays == \A n \in 1 .. MaxRestarts : Delay(n) > 0

\* A launch Run is already committed to, from where it stands.
Committed ==
    \/ pc = "launch"
    \/ pc \in {"wait", "reaped"} /\ restarting
    \/ pc = "taken" /\ asked
    \/ pc = "backoff" /\ TimerFired

ShutdownInv ==
    cancelled => launched + (IF Committed THEN 1 ELSE 0) <= launchedAtCancel + 1 + requests

LEMMA NothingOwedInBackoff ==
    ASSUME TypeOK, PositiveDelays, NEW n \in Nat \ {0}, WaitBeforeRetry(n), clock' = clock
    PROVE  ~Committed'
<1>. USE DEF TimerFired
<1>1. CASE n > MaxRestarts
  BY <1>1, PolicyAssumption DEF WaitBeforeRetry, Return, Committed
<1>2. CASE ~(n > MaxRestarts)
  <2>1. n \in 1 .. MaxRestarts
    BY <1>2, PolicyAssumption
  <2>2. Delay(n) \in Nat /\ Delay(n) > 0 /\ clock \in Nat
    BY <2>1, DelayAssumption DEF PositiveDelays, TypeOK
  <2>3. pc' = "backoff" /\ due' = clock + Delay(n)
    BY <1>2, PolicyAssumption DEF WaitBeforeRetry
  <2>4. ~(clock' >= due')
    BY <2>2, <2>3
  <2>. QED  BY <2>3, <2>4 DEF Committed
<1>. QED  BY <1>1, <1>2

LEMMA ShutdownStep ==
    ASSUME PositiveDelays, TypeOK, ShutdownInv, [Next]_vars
    PROVE  ShutdownInv'
<1>. SUFFICES ASSUME Steps PROVE ShutdownInv'
  BY NextIsSteps
<1>t. launched \in Nat /\ launchedAtCancel \in Nat /\ requests \in Nat /\ clock \in Nat
  BY DEF TypeOK
<1>k. ASSUME launched' = launched, launchedAtCancel' = launchedAtCancel,
             requests' = requests, cancelled' = cancelled,
             cancelled => (Committed' => Committed)
      PROVE  ShutdownInv'
  BY <1>t, <1>k DEF ShutdownInv
<1>. USE DEF runVars, sharedVars, processVars, requestVars, cancelVars, Return,
             SetCurrent, TakeFlag, TimerFired, NoProcess
<1>1. CASE Launch
  <2>0. launched + 1 # 0 /\ restarting' = FALSE
    BY <1>1, <1>t DEF Launch
  <2>1. ~Committed'
    BY <1>1, <2>0 DEF Launch, Committed
  <2>2. Committed
    BY <1>1 DEF Launch, Committed
  <2>. QED  BY <1>1, <1>t, <2>1, <2>2 DEF Launch, ShutdownInv
<1>2. CASE LaunchFails
  <2>1. attempt + 1 \in Nat \ {0}
    BY DEF TypeOK
  <2>2. ~Committed'
    BY <1>2, <2>1, NothingOwedInBackoff DEF LaunchFails
  <2>. QED  BY <1>2, <1>k, <2>2 DEF LaunchFails
<1>3. CASE ObserveExit      BY <1>3, <1>k DEF ObserveExit, Committed
<1>4. CASE ObserveCancel    BY <1>4, <1>k DEF ObserveCancel, Committed
<1>5. CASE Kill             BY <1>5, <1>k DEF Kill, Committed
<1>6. CASE ShutDown         BY <1>6, <1>k DEF ShutDown, Committed
<1>7. CASE TakeRestartFlag  BY <1>7, <1>k DEF TakeRestartFlag, Committed
<1>8. CASE RestartAsked     BY <1>8, <1>k DEF RestartAsked, Committed
<1>9. CASE Complete         BY <1>9, <1>k DEF Complete, Committed
<1>10. CASE Fail
  <2>. DEFINE row == IF Forgiven THEN 0 ELSE attempt
  <2>1. ~Committed'
    <3>1. CASE OverBudget
      BY <1>10, <3>1 DEF Fail, Committed
    <3>2. CASE ~OverBudget
      <4>1. row + 1 \in Nat \ {0}
        BY DEF TypeOK
      <4>2. WaitBeforeRetry(row + 1) /\ clock' = clock
        BY <1>10, <3>2 DEF Fail
      <4>. HIDE DEF row
      <4>. QED  BY <4>1, <4>2, NothingOwedInBackoff
    <3>. QED  BY <3>1, <3>2
  <2>. QED  BY <1>10, <1>k, <2>1 DEF Fail
<1>11. CASE Retry           BY <1>11, <1>k DEF Retry, Committed
<1>12. CASE AbandonRetry    BY <1>12, <1>k DEF AbandonRetry, Committed
<1>13. CASE AcceptRestart   BY <1>13, <1>t DEF AcceptRestart, ShutdownInv
<1>14. CASE SendStop        BY <1>14, <1>k DEF SendStop, Committed
<1>15. CASE ProcessExits    BY <1>15, <1>k DEF ProcessExits, Committed
<1>16. CASE FinishJob       BY <1>16, <1>k DEF FinishJob, Committed
<1>17. CASE Cancel          BY <1>17, <1>t DEF Cancel, ShutdownInv
<1>18. CASE Tick            BY <1>18, <1>k DEF Tick, Idle, Committed
<1>19. CASE UNCHANGED vars  BY <1>19, <1>k DEF vars, Committed
<1>. QED
  BY <1>1, <1>2, <1>3, <1>4, <1>5, <1>6, <1>7, <1>8, <1>9, <1>10, <1>11,
     <1>12, <1>13, <1>14, <1>15, <1>16, <1>17, <1>18, <1>19 DEF Steps

\* Once the context is done, at most one launch more than there were operator
\* restarts slips through, for any policy that waits before each retry.
THEOREM ShutdownLaunchesHolds ==
    ASSUME PositiveDelays
    PROVE  Spec => []ShutdownLaunches
<1>1. Init => ShutdownInv
  BY DEF Init, ShutdownInv
<1>2. TypeOK /\ ShutdownInv => ShutdownLaunches
  BY DEF TypeOK, ShutdownInv, ShutdownLaunches
<1>3. TypeOK /\ ShutdownInv /\ [Next]_vars => ShutdownInv'
  BY ShutdownStep
<1>. QED  BY <1>1, <1>2, <1>3, TypeCorrect, PTL DEF Spec
=============================================================================
