--------------------------- MODULE CommandsProofs ---------------------------
(***************************************************************************)
(* Proofs about Commands, for any number of operators, commands and agent  *)
(* starts.                                                                 *)
(***************************************************************************)
EXTENDS Commands, TLAPS

LEMMA WiredSides == "own" \in Side /\ "stray" \in Side /\ "own" # "stray"
  BY DEF Side

\* What FirstOf selects is there to be collected.
LEMMA FirstOfSubset == \A S : FirstOf(S) \subseteq S
  BY DEF FirstOf

\* A command that is open exists.
LEMMA OpenIsMade == TypeOK => Open \subseteq 1 .. made
  BY QueueAssumption DEF TypeOK, Open, Pending, Delivered, Command

-----------------------------------------------------------------------------
(* Type correctness.                                                       *)

\* The phases are closed under what may come next.
LEMMA PhaseFacts ==
    /\ {"between", "ended"} \subseteq Phase
    /\ \A p \in Phase : Then[p] \subseteq Phase
BY DEF Phase, Then

LEMMA TypeStep == TypeOK /\ [Next]_vars => TypeOK'
<1>. SUFFICES ASSUME TypeOK, [Next]_vars PROVE TypeOK'
  OBVIOUS
<1>. USE QueueAssumption DEF TypeOK, Command, Status, Points, Side, Stage, NoCommand,
         tableVars, agentVars, wireVars, runVars, lookVars, historyVars
<1>2. ASSUME NEW o \in Operator, AskFirst(o) PROVE TypeOK'
  BY <1>2, SMTT(60) DEF AskFirst
<1>3. ASSUME NEW o \in Operator, Insert(o) PROVE TypeOK'
  <2>1. /\ row' \in [Command -> Status] /\ made' \in 0 .. MaxCommands /\ made < made'
        /\ \A c \in Command : row'[c] = "none" <=> c > made'
    BY <1>3 DEF Insert
  <2>2. /\ looked' \in [Operator -> 0 .. made'] /\ since' \in [Command -> 0 .. made']
        /\ asking' \in [Operator -> {"idle", "insert"}]
    BY <1>3 DEF Insert, Answered
  <2>. QED  BY <1>3, <2>1, <2>2, SMTT(60) DEF Insert
<1>4. ASSUME NEW o \in Operator, AskFails(o) PROVE TypeOK'
  BY <1>4, SMTT(60) DEF AskFails, Answered
<1>5. CASE SendBeat
  BY <1>5 DEF SendBeat
<1>6. CASE Receive
  BY <1>6 DEF Receive, Cleared
<1>7. CASE BeatFails
  BY <1>7 DEF BeatFails, Abandon, Abandoned, Cleared
<1>8. ASSUME NEW s \in Side, Take(s) PROVE TypeOK'
  BY <1>8, OpenIsMade, FirstOfSubset DEF Take, Collectable, Open
<1>9. ASSUME NEW s \in Side, Deliver(s) PROVE TypeOK'
  <2>1. row' \in [Command -> Status] /\ \A c \in Command : row'[c] = "none" <=> c > made
    BY <1>9 DEF Deliver
  <2>2. stage' \in [Side -> Stage] /\ picked' \in [Side -> SUBSET (1 .. made)]
    BY <1>9 DEF Deliver, Cleared
  <2>3. stage'["own"] # "idle" <=> pc = "beat"
    BY <1>9 DEF Deliver
  <2>. QED  BY <1>9, <2>1, <2>2, <2>3 DEF Deliver, Finished
<1>10. ASSUME NEW c \in Command, RunCommand(c) PROVE TypeOK'
  BY <1>10, SMTT(60) DEF RunCommand
<1>11. ASSUME NEW c \in Command, ReportLate(c) PROVE TypeOK'
  BY <1>11 DEF ReportLate, Complete, Open, Pending, Delivered
<1>12. CASE WorkEnds
  BY <1>12 DEF WorkEnds
<1>13. CASE Report
  BY <1>13, SMTT(60) DEF Report, Complete, Open, Pending, Delivered
<1>14. CASE ReportFails
  BY <1>14, SMTT(60) DEF ReportFails
<1>15. CASE Age
  BY <1>15 DEF Age
<1>16. CASE Expire
  BY <1>16 DEF Expire, Expirable, Open, Pending, Delivered
<1>17. CASE Start
  BY <1>17, PhaseFacts DEF Start
<1>18. CASE Exit
  BY <1>18, PhaseFacts DEF Exit, Gone
<1>19. CASE Crash
  <2>1. stage' \in [Side -> Stage] /\ picked' \in [Side -> SUBSET (1 .. made)]
        /\ stage'["own"] = "idle"
    BY <1>19 DEF Crash, Abandon, Abandoned, Cleared
  <2>2. lateResults' \subseteq 1 .. made
    BY <1>19 DEF Crash
  <2>3. /\ pc' = "loop" /\ todo' = {} /\ current' = NoCommand /\ supervisor' = "ended"
        /\ agent' \in BOOLEAN /\ leaving' \in BOOLEAN
        /\ UNCHANGED <<row, made, aged, asking, starts, runs, carried, reopened, looked, since>>
    BY <1>19 DEF Crash, Gone
  <2>. QED  BY <2>1, <2>2, <2>3, PhaseFacts
<1>20. CASE Supervise
  BY <1>20, PhaseFacts DEF Supervise
<1>21. CASE UNCHANGED vars
  BY <1>21 DEF vars
<1>. HIDE DEF TypeOK, Command, Status, Points, Side, Stage, NoCommand,
          tableVars, agentVars, wireVars, runVars, lookVars, historyVars
<1>. QED
  BY <1>2, <1>3, <1>4, <1>5, <1>6, <1>7, <1>8, <1>9, <1>10, <1>11, <1>12,
     <1>13, <1>14, <1>15, <1>16, <1>17, <1>18, <1>19, <1>20, <1>21 DEF Next

\* The queue's variables keep their types, whatever is lost: a collection or a
\* late result never names a row that does not exist, and the agent's heartbeat
\* has a stage exactly while the agent waits for it.
THEOREM TypeCorrect == Spec => []TypeOK
<1>1. ASSUME Init PROVE TypeOK
  <2>1. agent \in BOOLEAN /\ leaving \in BOOLEAN /\ agent = FALSE
    BY <1>1 DEF Init
  <2>2. stage["own"] = "idle" /\ stage \in [Side -> Stage]
    BY <1>1 DEF Init, Side, Stage
  <2>. QED
    BY <1>1, <2>1, <2>2, QueueAssumption, PhaseFacts
    DEF Init, TypeOK, Command, Status, Points, Side, Stage, NoCommand
<1>. QED  BY <1>1, TypeStep, PTL DEF Spec

-----------------------------------------------------------------------------
(* No command is carried out twice.                                        *)

\* A command that has not been handed to the agent has not been carried out.
WaitingIsUntouched ==
    \A c \in Command : row[c] \in {"none", "pending"} => runs[c] = 0 /\ c \notin todo

\* Neither has one that the agent holds, or is about to be answered with.
HeldIsUntouched == \A c \in todo \cup picked["own"] : runs[c] = 0

\* What the agent is answered with cannot be collected again.
AnsweredIsTaken ==
    stage["own"] = "answered" => \A c \in picked["own"] : row[c] \notin {"none", "pending"}

\* The agent holds commands only while it works on an answer, and is owed an
\* answer only while it waits for one.
HeldByOne ==
    /\ pc \in {"loop", "beat"} => todo = {}
    /\ stage["own"] = "idle" => picked["own"] = {}

OnceInv ==
    /\ WaitingIsUntouched
    /\ HeldIsUntouched
    /\ AnsweredIsTaken
    /\ HeldByOne
    /\ RunsAtMostOnce

LEMMA OnceStep == TypeOK /\ OnceInv /\ [Next]_vars => OnceInv'
<1>. SUFFICES ASSUME TypeOK, OnceInv, [Next]_vars PROVE OnceInv'
  OBVIOUS
<1>. USE QueueAssumption DEF TypeOK, OnceInv, WaitingIsUntouched, HeldIsUntouched,
         AnsweredIsTaken, HeldByOne, RunsAtMostOnce, Command, Status, Points, Side, Stage,
         NoCommand, tableVars, agentVars, wireVars, runVars, lookVars, historyVars
<1>2. ASSUME NEW o \in Operator, AskFirst(o) PROVE OnceInv'
  BY <1>2 DEF AskFirst
<1>3. ASSUME NEW o \in Operator, Insert(o) PROVE OnceInv'
  BY <1>3 DEF Insert, Answered
<1>4. ASSUME NEW o \in Operator, AskFails(o) PROVE OnceInv'
  BY <1>4 DEF AskFails
<1>5. CASE SendBeat
  BY <1>5 DEF SendBeat
<1>6. CASE Receive
  BY <1>6 DEF Receive, Cleared
<1>7. CASE BeatFails
  BY <1>7 DEF BeatFails, Abandon, Abandoned, Cleared
<1>8. ASSUME NEW s \in Side, Take(s) PROVE OnceInv'
  BY <1>8, FirstOfSubset DEF Take, Collectable, Pending
<1>9. ASSUME NEW s \in Side, Deliver(s) PROVE OnceInv'
  BY <1>9 DEF Deliver, Cleared
<1>10. ASSUME NEW c \in Command, RunCommand(c) PROVE OnceInv'
  BY <1>10 DEF RunCommand
<1>11. ASSUME NEW c \in Command, ReportLate(c) PROVE OnceInv'
  BY <1>11 DEF ReportLate, Complete, Open, Pending, Delivered
<1>12. CASE WorkEnds
  BY <1>12 DEF WorkEnds
<1>13. CASE Report
  BY <1>13 DEF Report, Complete, Open, Pending, Delivered
<1>14. CASE ReportFails
  BY <1>14 DEF ReportFails
<1>15. CASE Age
  BY <1>15 DEF Age
<1>16. CASE Expire
  BY <1>16 DEF Expire, Expirable, Open, Pending, Delivered
<1>17. CASE Start
  BY <1>17 DEF Start
<1>18. CASE Exit
  BY <1>18 DEF Exit, Gone
<1>19. CASE Crash
  BY <1>19 DEF Crash, Gone, Abandon, Abandoned, Cleared
<1>20. CASE Supervise
  BY <1>20 DEF Supervise
<1>21. CASE UNCHANGED vars
  BY <1>21 DEF vars
<1>. HIDE DEF TypeOK, OnceInv, WaitingIsUntouched, HeldIsUntouched,
         AnsweredIsTaken, HeldByOne, RunsAtMostOnce, Command, Status, Points, Side, Stage,
         NoCommand, tableVars, agentVars, wireVars, runVars, lookVars, historyVars
<1>. QED
  BY <1>2, <1>3, <1>4, <1>5, <1>6, <1>7, <1>8, <1>9, <1>10, <1>11, <1>12,
     <1>13, <1>14, <1>15, <1>16, <1>17, <1>18, <1>19, <1>20, <1>21 DEF Next

\* No command is carried out twice, however collections overlap and whatever
\* crashes or is lost.
THEOREM RunsAtMostOnceHolds == Spec => []RunsAtMostOnce
<1>1. Init => OnceInv
  BY DEF Init, OnceInv, WaitingIsUntouched, HeldIsUntouched, AnsweredIsTaken, HeldByOne,
         RunsAtMostOnce, Side
<1>2. OnceInv => RunsAtMostOnce
  BY DEF OnceInv
<1>. QED  BY <1>1, <1>2, TypeCorrect, OnceStep, PTL DEF Spec

-----------------------------------------------------------------------------
(* What is resolved stays resolved.                                        *)

Final(c) ==
    c \in Finished /\ row'[c] # row[c] =>
        /\ row'[c] = "delivered"
        /\ \E s \in Side : stage[s] = "taken" /\ c \in picked[s]

LEMMA FinalStep ==
    ASSUME TypeOK, [Next]_vars, NEW c \in Command
    PROVE  Final(c)
<1>. USE DEF Final, tableVars, agentVars, wireVars, runVars, lookVars, historyVars
<1>1. CASE UNCHANGED row
  BY <1>1
<1>2. ASSUME NEW o \in Operator, Insert(o) PROVE Final(c)
  <2>1. c = made + 1 => c \notin Finished
    BY <1>2, QueueAssumption DEF TypeOK, Insert, Finished, Command
  <2>2. c # made + 1 => row'[c] = row[c]
    BY <1>2 DEF TypeOK, Insert
  <2>. QED  BY <2>1, <2>2
<1>3. ASSUME NEW s \in Side, Deliver(s) PROVE Final(c)
  BY <1>3 DEF Deliver
<1>4. ASSUME NEW d \in Command, row' = Complete(d) PROVE Final(c)
  BY <1>4 DEF TypeOK, Complete, Finished, Open, Pending, Delivered
<1>5. CASE Expire
  BY <1>5 DEF Expire, Expirable, Finished, Open, Pending, Delivered
<1>6. CASE Report
  <2>1. row' = Complete(current)
    BY <1>6 DEF Report
  <2>. QED
    BY <2>1 DEF TypeOK, Complete, Finished, Open, Pending, Delivered
<1>7. ASSUME NEW d \in Command, ReportLate(d) PROVE Final(c)
  BY <1>4, <1>7 DEF ReportLate
<1>. QED
  <2>1. \/ UNCHANGED row
        \/ \E o \in Operator : Insert(o)
        \/ \E s \in Side : Deliver(s)
        \/ \E d \in Command : ReportLate(d)
        \/ Report
        \/ Expire
    BY DEF Next, vars, AskFirst, AskFails, SendBeat, Receive, BeatFails, Take,
           RunCommand, WorkEnds, ReportFails, Age, Start, Exit, Crash, Gone, Supervise
  <2>. QED  BY <1>1, <1>2, <1>3, <1>5, <1>6, <1>7, <2>1

\* A resolved command is opened again only by a collection that had selected it
\* while it was pending.
THEOREM FinalUnlessOverlappedHolds == Spec => FinalUnlessOverlapped
<1>1. TypeOK /\ [Next]_vars =>
        [\A c \in Command :
          c \in Finished /\ row'[c] # row[c] =>
              /\ row'[c] = "delivered"
              /\ \E s \in Side : stage[s] = "taken" /\ c \in picked[s]]_vars
  BY FinalStep DEF Final
<1>. QED  BY <1>1, TypeCorrect, PTL DEF Spec, FinalUnlessOverlapped

-----------------------------------------------------------------------------
(* Two commands are open at once only if their requests overlapped.        *)

\* The commands that are open and were never written over.
Outstanding == Open \ reopened

\* What is outstanding when a request is about to insert came after it looked.
LookedInv ==
    /\ \A o \in Operator : asking[o] = "insert" =>
          /\ looked[o] <= made
          /\ \A c \in Outstanding : looked[o] < c
    /\ OneOpenUnlessOverlapped

\* A step that opens nothing, and lets no request look, keeps it.
LEMMA LookedKept ==
    ASSUME LookedInv, Outstanding' \subseteq Outstanding, UNCHANGED <<made, since>>,
           \A o \in Operator : asking'[o] = "insert" =>
               asking[o] = "insert" /\ looked'[o] = looked[o]
    PROVE  LookedInv'
BY DEF LookedInv, OneOpenUnlessOverlapped, Outstanding

LEMMA LookedStep ==
    ASSUME TypeOK, LookedInv, [Next]_vars
    PROVE  LookedInv'
<1>. USE DEF tableVars, agentVars, wireVars, runVars, lookVars, historyVars
<1>1. ASSUME UNCHANGED <<row, made, asking, reopened, lookVars>> PROVE LookedInv'
  BY <1>1, LookedKept DEF Outstanding, Open, Pending, Delivered
<1>2. ASSUME NEW o \in Operator, AskFirst(o) PROVE LookedInv'
  <2>1. /\ UNCHANGED <<row, made, reopened, since>> /\ Open = {}
        /\ \A p \in Operator : asking'[p] = "insert" => looked'[p] \in {made, looked[p]}
    BY <1>2 DEF TypeOK, AskFirst, Waiting
  <2>2. \A p \in Operator : asking'[p] = "insert" => looked'[p] <= made
    BY <2>1, QueueAssumption DEF TypeOK
  <2>. QED
    BY <2>1, <2>2
    DEF LookedInv, OneOpenUnlessOverlapped, Outstanding, Open, Pending, Delivered
<1>3. ASSUME NEW o \in Operator, AskFails(o) PROVE LookedInv'
  <2>1. /\ UNCHANGED <<row, made, reopened, since>>
        /\ \A p \in Operator : asking'[p] = "insert" =>
               asking[p] = "insert" /\ looked'[p] = looked[p]
    BY <1>3 DEF TypeOK, AskFails, Answered
  <2>. QED  BY <2>1, LookedKept DEF Outstanding, Open, Pending, Delivered
<1>4. ASSUME NEW o \in Operator, Insert(o) PROVE LookedInv'
  <2>1. /\ made' = made + 1 /\ made' \in Command /\ made \in Nat /\ reopened' = reopened
        /\ row' = [row EXCEPT ![made + 1] = "pending"]
        /\ since' = [since EXCEPT ![made + 1] = looked[o]]
    BY <1>4, QueueAssumption DEF TypeOK, Insert, Command
  <2>2. Outstanding' \subseteq Outstanding \cup {made + 1}
    BY <2>1 DEF TypeOK, Outstanding, Open, Pending, Delivered
  <2>3. \A p \in Operator : asking'[p] = "insert" =>
            asking[p] = "insert" /\ looked'[p] = looked[p]
    BY <1>4 DEF TypeOK, Insert, Answered
  <2>4. ASSUME NEW p \in Operator, asking'[p] = "insert"
        PROVE  looked'[p] <= made' /\ \A c \in Outstanding' : looked'[p] < c
    BY <2>1, <2>2, <2>3, <2>4 DEF TypeOK, LookedInv
  <2>5. ASSUME NEW c \in Outstanding', NEW d \in Outstanding', c < d
        PROVE  since'[d] < c
    <3>1. \A e \in Outstanding : e \in 1 .. made
      BY OpenIsMade DEF Outstanding
    <3>2. c \in Outstanding
      BY <2>1, <2>2, <2>5, <3>1
    <3>3. CASE d = made + 1
      BY <1>4, <2>1, <3>2, <3>3 DEF TypeOK, LookedInv, Insert
    <3>4. CASE d # made + 1
      BY <2>1, <2>2, <2>5, <3>2, <3>4
      DEF TypeOK, LookedInv, OneOpenUnlessOverlapped, Outstanding
    <3>. QED  BY <3>3, <3>4
  <2>. QED  BY <2>4, <2>5 DEF LookedInv, OneOpenUnlessOverlapped, Outstanding
<1>5. ASSUME NEW s \in Side, Deliver(s) PROVE LookedInv'
  <2>1. /\ row' = [c \in Command |-> IF c \in picked[s] THEN "delivered" ELSE row[c]]
        /\ reopened' = reopened \cup (picked[s] \cap Finished)
        /\ UNCHANGED <<made, asking, lookVars>>
    BY <1>5 DEF Deliver
  <2>2. \A c \in Command : c \in picked[s] => c \in Open \cup Finished
    BY QueueAssumption DEF TypeOK, Command, Status, Open, Pending, Delivered, Finished
  <2>3. Outstanding' \subseteq Outstanding
    BY <2>1, <2>2 DEF Outstanding, Open, Pending, Delivered
  <2>. QED  BY <2>1, <2>3, LookedKept
<1>6. ASSUME NEW d \in Command, row' = Complete(d), UNCHANGED <<made, asking, reopened, lookVars>>
      PROVE  LookedInv'
  <2>1. Outstanding' \subseteq Outstanding
    BY <1>6 DEF TypeOK, Complete, Outstanding, Open, Pending, Delivered
  <2>. QED  BY <1>6, <2>1, LookedKept
<1>7. CASE Report
  <2>1. current \in Command
    BY <1>7, QueueAssumption DEF Report, TypeOK, Command, NoCommand
  <2>. QED  BY <1>6, <1>7, <2>1 DEF Report
<1>8. ASSUME NEW d \in Command, ReportLate(d) PROVE LookedInv'
  BY <1>6, <1>8 DEF ReportLate
<1>9. CASE Expire
  <2>1. Outstanding' \subseteq Outstanding /\ UNCHANGED <<made, asking, lookVars>>
    BY <1>9 DEF Expire, Expirable, Outstanding, Open, Pending, Delivered
  <2>. QED  BY <2>1, LookedKept
<1>. QED
  <2>1. \/ UNCHANGED <<row, made, asking, reopened, lookVars>>
        \/ \E o \in Operator : AskFirst(o) \/ AskFails(o) \/ Insert(o)
        \/ \E s \in Side : Deliver(s)
        \/ \E d \in Command : ReportLate(d)
        \/ Report
        \/ Expire
    BY DEF Next, vars, SendBeat, Receive, BeatFails, Take,
           RunCommand, WorkEnds, ReportFails, Age, Start, Exit, Crash, Gone, Supervise
  <2>. QED  BY <1>1, <1>2, <1>3, <1>4, <1>5, <1>7, <1>8, <1>9, <2>1

\* However many operators ask at the same time: two commands are open at once only
\* if the request of the later one looked before the earlier one was inserted.
THEOREM OneOpenHolds == Spec => []OneOpenUnlessOverlapped
<1>1. Init => LookedInv
  BY DEF Init, LookedInv, OneOpenUnlessOverlapped, Outstanding, Open, Pending, Delivered
<1>2. LookedInv => OneOpenUnlessOverlapped
  BY DEF LookedInv
<1>3. TypeOK /\ LookedInv /\ [Next]_vars => LookedInv'
  BY LookedStep
<1>. QED  BY <1>1, <1>2, <1>3, TypeCorrect, PTL DEF Spec
=============================================================================
