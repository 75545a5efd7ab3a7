--------------------------- MODULE ReportingProofs --------------------------
(***************************************************************************)
(* Proofs about Reporting, for any size of the buffer, the batches and the *)
(* thresholds, and any number of events, stray requests and starts.        *)
(*                                                                         *)
(* That the reporter implements EventFeed rests on PlacesOK: an event is   *)
(* in one place, the buffer, the request or the stray, and once in it; so  *)
(* what a handler stores is what has stopped waiting.                      *)
(***************************************************************************)
EXTENDS Reporting, RunnerPhases, TLAPS

Once(q) == \A i, j \in DOMAIN q : q[i] = q[j] => i = j

PlacesOK ==
    /\ Once(buf)
    /\ \A e \in Ids(buf) \cup IdsOf(request) \cup IdsOf(stray) : e <= emitted
    /\ Ids(buf) \cap IdsOf(request) = {}
    /\ Ids(buf) \cap IdsOf(stray) = {}
    /\ IdsOf(request) \cap IdsOf(stray) = {}

\* The last events are sent when the supervisor has returned.
LastOK == point = "last_events" => Returned

-----------------------------------------------------------------------------
(* Sequences of events.                                                    *)

LEMMA IdsAreNat ==
    ASSUME NEW q \in Seq(Nat)
    PROVE  Ids(q) \subseteq Nat
BY DEF Ids

LEMMA IdsOfNone ==
    /\ Ids(<< >>) = {}
    /\ IdsOf(NoRequest) = {}
    /\ \A r \in Beats \cup Retires : IdsOf(r) = {}
BY DEF Ids, IdsOf, NoRequest, Beats, Retires

LEMMA IdsOfAppend ==
    ASSUME NEW q \in Seq(Nat), NEW e \in Nat
    PROVE  /\ Append(q, e) \in Seq(Nat)
           /\ Ids(Append(q, e)) = Ids(q) \cup {e}
           /\ Once(q) /\ e \notin Ids(q) => Once(Append(q, e))
<1> DEFINE a == Append(q, e)
           n == Len(q)
<1>1. /\ a \in Seq(Nat) /\ DOMAIN a = 1 .. (n + 1) /\ DOMAIN q = 1 .. n /\ n \in Nat
      /\ a[n + 1] = e
      /\ \A i \in 1 .. n : a[i] = q[i]
    OBVIOUS
<1> HIDE DEF a, n
<1>2. Ids(a) = Ids(q) \cup {e}
    BY <1>1 DEF Ids
<1>3. ASSUME Once(q), e \notin Ids(q) PROVE Once(a)
    BY <1>1, <1>3 DEF Once, Ids
<1> QED
    BY <1>1, <1>2, <1>3 DEF a

LEMMA IdsOfConcat ==
    ASSUME NEW q \in Seq(Nat), NEW r \in Seq(Nat)
    PROVE  q \o r \in Seq(Nat) /\ Ids(q \o r) = Ids(q) \cup Ids(r)
<1> DEFINE c == q \o r
           n == Len(q)
           m == Len(r)
<1>1. /\ c \in Seq(Nat) /\ DOMAIN c = 1 .. (n + m)
      /\ DOMAIN q = 1 .. n /\ DOMAIN r = 1 .. m /\ n \in Nat /\ m \in Nat
      /\ \A i \in 1 .. n : c[i] = q[i]
      /\ \A i \in (n + 1) .. (n + m) : c[i] = r[i - n]
    OBVIOUS
<1> HIDE DEF c, n, m
<1>2. \A j \in 1 .. m : n + j \in (n + 1) .. (n + m) /\ c[n + j] = r[j]
    BY <1>1
<1>3. \A i \in (n + 1) .. (n + m) : i - n \in 1 .. m
    BY <1>1
<1>4. Ids(q) \cup Ids(r) \subseteq Ids(c)
    <2>1. ASSUME NEW i \in 1 .. n PROVE q[i] \in Ids(c)
        BY <1>1, i \in 1 .. (n + m), c[i] = q[i] DEF Ids
    <2>2. ASSUME NEW j \in 1 .. m PROVE r[j] \in Ids(c)
        BY <1>1, <1>2, n + j \in 1 .. (n + m) DEF Ids
    <2> QED
        BY <1>1, <2>1, <2>2 DEF Ids
<1>5. Ids(c) \subseteq Ids(q) \cup Ids(r)
    <2> SUFFICES ASSUME NEW i \in 1 .. (n + m) PROVE c[i] \in Ids(q) \cup Ids(r)
        BY <1>1 DEF Ids
    <2>1. CASE i \in 1 .. n
        BY <1>1, <2>1 DEF Ids
    <2>2. CASE i \in (n + 1) .. (n + m)
        BY <1>1, <1>3, <2>2 DEF Ids
    <2> QED
        BY <1>1, <2>1, <2>2
<1> QED
    BY <1>1, <1>4, <1>5 DEF c

\* drain takes events out of the buffer, and each is in one of the two.
LEMMA DrainedAndRest ==
    ASSUME buf \in Seq(Nat), Once(buf)
    PROVE  /\ Drained \in Seq(Nat) /\ Rest \in Seq(Nat)
           /\ Ids(Drained) \cup Ids(Rest) \subseteq Ids(buf)
           /\ Ids(Drained) \cap Ids(Rest) = {}
           /\ Once(Rest) /\ Once(Drained)
<1> DEFINE n == Len(buf)
           k == Least(Batch, n)
<1>1. n \in Nat /\ k \in 0 .. n /\ DOMAIN buf = 1 .. n
    BY ReportingAssumption DEF Least
<1>2. Drained = SubSeq(buf, 1, k) /\ Rest = SubSeq(buf, k + 1, n)
    BY DEF Drained, Rest
<1> HIDE DEF k, n
<1>3. \A a \in 1 .. n + 1, b \in 0 .. n :
          /\ SubSeq(buf, a, b) = [i \in 1 .. (b - a + 1) |-> buf[i + a - 1]]
    BY <1>1 DEF n
<1>4. Drained = [i \in 1 .. k |-> buf[i]]
    <2>1. SubSeq(buf, 1, k) = [i \in 1 .. (k - 1 + 1) |-> buf[i + 1 - 1]]
        BY <1>1, <1>3
    <2>2. k - 1 + 1 = k /\ \A i \in 1 .. k : i + 1 - 1 = i
        BY <1>1
    <2> QED
        BY <1>2, <2>1, <2>2
<1>5. Rest = [i \in 1 .. (n - k) |-> buf[i + k]]
    <2>1. SubSeq(buf, k + 1, n) = [i \in 1 .. (n - (k + 1) + 1) |-> buf[i + (k + 1) - 1]]
        BY <1>1, <1>3
    <2>2. n - (k + 1) + 1 = n - k /\ \A i \in 1 .. (n - k) : i + (k + 1) - 1 = i + k
        BY <1>1
    <2> QED
        BY <1>2, <2>1, <2>2
<1>6. \A i \in 1 .. k : i \in 1 .. n
    BY <1>1
<1>7. \A i \in 1 .. (n - k) : i + k \in 1 .. n /\ i + k > k
    BY <1>1
<1>8. \A i \in 1 .. n : buf[i] \in Nat
    BY <1>1 DEF n
<1>9. Drained \in Seq(Nat) /\ Rest \in Seq(Nat)
    <2>1. \A b \in Nat : \A f \in [1 .. b -> Nat] : f \in Seq(Nat)
        OBVIOUS
    <2>2. Drained \in [1 .. k -> Nat] /\ k \in Nat
        BY <1>1, <1>4, <1>6, <1>8
    <2>3. Rest \in [1 .. (n - k) -> Nat] /\ n - k \in Nat
        BY <1>1, <1>5, <1>7, <1>8
    <2> QED
        BY <2>1, <2>2, <2>3
<1>10. Ids(Drained) \cup Ids(Rest) \subseteq Ids(buf)
    BY <1>1, <1>4, <1>5, <1>6, <1>7 DEF Ids
<1>11. Ids(Drained) \cap Ids(Rest) = {}
    <2> SUFFICES ASSUME NEW i \in 1 .. k, NEW j \in 1 .. (n - k), buf[i] = buf[j + k]
                 PROVE  FALSE
        BY <1>4, <1>5 DEF Ids
    <2> QED
        BY <1>1, <1>6, <1>7 DEF Once
<1>12. Once(Rest)
    <2> SUFFICES ASSUME NEW i \in 1 .. (n - k), NEW j \in 1 .. (n - k), buf[i + k] = buf[j + k]
                 PROVE  i = j
        BY <1>5 DEF Once
    <2>1. i + k = j + k
        BY <1>1, <1>7 DEF Once
    <2> QED
        BY <1>1, <2>1
<1>13. Once(Drained)
    BY <1>1, <1>4, <1>6 DEF Once
<1> QED
    BY <1>9, <1>10, <1>11, <1>12, <1>13

-----------------------------------------------------------------------------
(* Types.                                                                  *)

LEMMA FollowsEmit ==
    ASSUME NEW s \in Emissions
    PROVE  Follows[s] \subseteq Emissions
BY DEF Follows, Emissions

LEMMA StatusAfterTypes ==
    ASSUME status \in Statuses, NEW s
    PROVE  StatusAfter(s) \in Statuses
BY DEF StatusAfter, Statuses

LEMMA HandledTypes ==
    ASSUME ServerTypeOK, NEW r \in Requests, Handle(r)
    PROVE  row' \in Row /\ stored' \in Seq(Nat)
<1>1. CASE r.kind = "events" /\ stored' = stored \o r.ids /\ UNCHANGED row
    <2>1. r.ids \in Seq(Nat)
        BY <1>1 DEF Requests, Events, Beats, Retires
    <2> QED
        BY <1>1, <2>1, IdsOfConcat DEF ServerTypeOK
<1>2. CASE r.kind = "beat" /\ row' = Heard(r.status) /\ UNCHANGED stored
    <2>1. r.status \in Statuses
        BY <1>2 DEF Requests, Events, Beats, Retires
    <2>2. 0 \in 0 .. Offline
        BY ThresholdAssumption
    <2>3. row \in [there : BOOLEAN, status : Statuses, age : 0 .. Offline, retired : BOOLEAN]
        BY DEF ServerTypeOK, Row
    <2>4. row' = [row EXCEPT !.status = r.status, !.age = 0]
        BY <1>2 DEF Heard
    <2>5. row' \in Row
        BY <2>1, <2>2, <2>3, <2>4 DEF Row
    <2> QED
        BY <1>2, <2>5 DEF ServerTypeOK
<1>3. CASE row' = Finished /\ UNCHANGED stored
    BY <1>3 DEF ServerTypeOK, Row, Finished, Statuses
<1> QED
    BY <1>1, <1>2, <1>3 DEF Handle

LEMMA EnqueueTypes ==
    ASSUME buf \in Seq(Nat), dropped \in Nat, emitted \in Nat, Enqueue
    PROVE  buf' \in Seq(Nat) /\ dropped' \in Nat
<1>1. Append(buf, emitted + 1) \in Seq(Nat)
    BY IdsOfAppend, emitted + 1 \in Nat
<1>2. buf' \in {buf, Append(buf, emitted + 1)} /\ dropped' \in {dropped, dropped + 1}
    BY DEF Enqueue
<1>3. dropped + 1 \in Nat
    OBVIOUS
<1> QED
    BY <1>1, <1>2, <1>3, Zenon

LEMMA SendTypes ==
    ASSUME buf \in Seq(Nat), Once(buf), NEW w \in Points, Send(w)
    PROVE  buf' \in Seq(Nat) /\ request' \in Requests /\ point' \in Points
BY DrainedAndRest DEF Send, Requests, Events

LEMMA GoesOnTypes ==
    ASSUME SenderTypeOK, GoesOn
    PROVE  /\ status' \in Statuses /\ dropped' \in Nat /\ point' \in Points
           /\ request' \in Requests \cup {NoRequest}
BY DEF SenderTypeOK, GoesOn, BeginLastBeat, Owned, Points, Requests, Beats, Statuses

LEMMA SenderNext ==
    ASSUME SenderTypeOK, CountersTypeOK, Once(buf), [Next]_vars
    PROVE  SenderTypeOK'
<1> USE DEF SenderTypeOK
<1>1. CASE Observe
    <2>1. PICK s \in Follows[sup] : sup' = s /\ status' = StatusAfter(s)
        BY <1>1 DEF Observe
    <2>2. sup' \in Emissions /\ status' \in Statuses
        BY <2>1, FollowsEmit, StatusAfterTypes
    <2>3. buf' \in Seq(Nat) /\ dropped' \in Nat
        BY <1>1, EnqueueTypes DEF Observe, CountersTypeOK
    <2> QED
        BY <1>1, <2>2, <2>3 DEF Observe
<1>2. CASE StopFails
    <2>1. status' \in Statuses /\ buf' \in Seq(Nat) /\ dropped' \in Nat
        BY <1>2, EnqueueTypes, StatusAfterTypes DEF StopFails, CountersTypeOK
    <2> QED
        BY <1>2, <2>1 DEF StopFails
<1>3. CASE FlushEvents
    <2>1. buf' \in Seq(Nat) /\ request' \in Requests /\ point' \in Points
        BY <1>3, SendTypes DEF FlushEvents, Points
    <2> QED
        BY <1>3, <2>1 DEF FlushEvents
<1>4. CASE LastEvents
    <2>1. buf' \in Seq(Nat) /\ request' \in Requests /\ point' \in Points
        BY <1>4, SendTypes DEF LastEvents, Points
    <2> QED
        BY <1>4, <2>1 DEF LastEvents
<1>5. CASE Heartbeat
    <2>1. request' \in Requests /\ point' \in Points /\ dropped' \in Nat
        BY <1>5 DEF Heartbeat, Reported, Owned, Statuses, Points, Requests, Beats
    <2> QED
        BY <1>5, <2>1 DEF Heartbeat
<1>6. CASE LastBeat
    <2>1. request' \in Requests /\ point' \in Points /\ dropped' \in Nat /\ status' \in Statuses
        BY <1>6 DEF LastBeat, BeginLastBeat, Owned, Statuses, Points, Requests, Beats
    <2> QED
        BY <1>6, <2>1 DEF LastBeat
<1>7. CASE Succeeds \/ Fails \/ TimesOut
    <2>1. GoesOn /\ UNCHANGED <<sup, buf>>
        BY <1>7 DEF Succeeds, Fails, TimesOut
    <2> QED
        BY <2>1, GoesOnTypes
<1>8. CASE RefusedBeat \/ Retire \/ Crash \/ Start
    <2>1. /\ sup' \in {sup, "none"} /\ status' \in {status, "starting"}
          /\ buf' \in {buf, << >>} /\ dropped' \in {dropped, 0}
          /\ point' \in {"done", "dead", "loop"} /\ request' \in {request, NoRequest}
        BY <1>8 DEF RefusedBeat, Refuse, Retire, Crash, Start
    <2>2. "none" \in Emissions /\ "starting" \in Statuses /\ << >> \in Seq(Nat)
          /\ {"done", "dead", "loop"} \subseteq Points
        BY DEF Emissions, Follows, Statuses, Points
    <2>3. /\ sup' \in Emissions /\ status' \in Statuses /\ buf' \in Seq(Nat) /\ dropped' \in Nat
          /\ point' \in Points
        BY <2>1, <2>2, 0 \in Nat, Zenon
    <2>4. request' \in Requests \cup {NoRequest}
        BY <2>1
    <2> QED
        BY <2>3, <2>4
<1>9. CASE UNCHANGED agentVars
    BY <1>9 DEF agentVars
<1>10. CASE JobChanges \/ StopReaches
    BY <1>10 DEF JobChanges, StopReaches
<1> QED
    BY <1>1, <1>2, <1>3, <1>4, <1>5, <1>6, <1>7, <1>8, <1>9, <1>10
       DEF Next, Supervise, Report, Transport, Server, StrayArrives, StrayIsLost, Delete,
           EnrolledElsewhere, Superseded, TimePasses, vars

LEMMA ServerNext ==
    ASSUME ServerTypeOK, SenderTypeOK, [Next]_vars
    PROVE  ServerTypeOK'
<1> USE DEF ServerTypeOK
<1>1. CASE Succeeds
    <2>1. request \in Requests
        BY <1>1 DEF Succeeds, InFlight, SenderTypeOK
    <2> QED
        BY <1>1, <2>1, HandledTypes DEF Succeeds
<1>2. CASE StrayArrives
    BY <1>2, HandledTypes DEF StrayArrives
<1>3. CASE Retire
    <2>1. [kind |-> "retire"] \in Requests
        BY DEF Requests, Retires
    <2>2. CASE Handle([kind |-> "retire"]) /\ UNCHANGED <<stray, strays>>
        BY <2>1, <2>2, HandledTypes
    <2>3. CASE stray' = [kind |-> "retire"] /\ UNCHANGED <<row, stored>>
        BY <2>1, <2>3
    <2> QED
        BY <1>3, <2>2, <2>3 DEF Retire, BecomesStray
<1>4. CASE Delete \/ EnrolledElsewhere \/ Superseded \/ TimePasses
    <2>1. /\ NoRow \in Row /\ Upserted \in Row
        BY ThresholdAssumption DEF NoRow, Upserted, Row, Statuses
    <2>2. Older \in Row
        <3>1. (IF row.age < Offline THEN row.age + 1 ELSE row.age) \in 0 .. Offline
            BY ThresholdAssumption DEF Row
        <3> QED
            BY <3>1 DEF Older, Row
    <2>3. row' \in Row
        BY <1>4, <2>1, <2>2 DEF Delete, EnrolledElsewhere, Superseded, TimePasses
    <2>4. stored' \in {stored, << >>} /\ stray' = stray
        BY <1>4 DEF Delete, EnrolledElsewhere, Superseded, TimePasses
    <2>5. << >> \in Seq(Nat)
        OBVIOUS
    <2>6. stored' \in Seq(Nat)
        BY <2>4, <2>5, Zenon
    <2> QED
        BY <2>3, <2>4, <2>6
<1>5. CASE TimesOut \/ StrayIsLost \/ Crash
    BY <1>5 DEF TimesOut, StrayIsLost, Crash, SenderTypeOK, serverVars, BecomesStray
<1>6. CASE UNCHANGED <<serverVars, stray>>
    BY <1>6 DEF serverVars
<1> QED
    BY <1>1, <1>2, <1>3, <1>4, <1>5, <1>6
       DEF Next, Supervise, Observe, StopFails, StopReaches, JobChanges, Report, FlushEvents,
           Heartbeat, LastEvents, LastBeat, Transport, Fails, RefusedBeat, Server, Start, vars

LEMMA CountersNext ==
    ASSUME CountersTypeOK, [Next]_vars
    PROVE  CountersTypeOK'
<1> USE DEF CountersTypeOK
<1>1. /\ emitted' \in {emitted, emitted + 1}
      /\ strays' \in {strays, strays + 1}
      /\ starts' \in {starts, starts + 1}
    BY DEF Next, Supervise, Observe, StopFails, StopReaches, JobChanges, Report, FlushEvents,
           Heartbeat, LastEvents, LastBeat, Transport, Succeeds, Fails, TimesOut, RefusedBeat,
           Server, StrayArrives, StrayIsLost, Retire, Delete, EnrolledElsewhere, Superseded,
           TimePasses,
           Crash, Start, BecomesStray, vars
<1> QED
    BY <1>1

LEMMA FlagsNext ==
    ASSUME FlagsTypeOK, [Next]_vars
    PROVE  FlagsTypeOK'
<1>1. job' \in BOOLEAN
    BY DEF FlagsTypeOK, Next, Supervise, Observe, StopFails, StopReaches, JobChanges, Report,
           FlushEvents, Heartbeat, LastEvents, LastBeat, Transport, Succeeds, Fails, TimesOut,
           RefusedBeat, Server, StrayArrives, StrayIsLost, Retire, Delete, EnrolledElsewhere,
           Superseded,
           TimePasses, Crash, Start, vars, agentVars
<1>2. aimed' \in BOOLEAN
    BY DEF FlagsTypeOK, Next, Supervise, Observe, StopFails, StopReaches, JobChanges, Report,
           FlushEvents, Heartbeat, LastEvents, LastBeat, Transport, Succeeds, MayAim, Fails,
           TimesOut, RefusedBeat, Server, StrayArrives, StrayIsLost, Retire, Delete,
           EnrolledElsewhere, Superseded, TimePasses, Crash, Start, vars, agentVars
<1>3. refused' \in BOOLEAN
    BY DEF FlagsTypeOK, Next, Supervise, Observe, StopFails, StopReaches, JobChanges, Report,
           FlushEvents, Heartbeat, LastEvents, LastBeat, Transport, Succeeds, Fails, TimesOut,
           RefusedBeat, Refuse, Server, StrayArrives, StrayIsLost, Retire, Delete,
           EnrolledElsewhere, Superseded, TimePasses, Crash, Start, vars, agentVars
<1>4. live' \in BOOLEAN
    BY DEF FlagsTypeOK, Next, Supervise, Observe, StopFails, StopReaches, JobChanges, Report,
           FlushEvents, Heartbeat, LastEvents, LastBeat, Transport, Succeeds, Fails, TimesOut,
           RefusedBeat, Server, StrayArrives, StrayIsLost, Retire, Delete, EnrolledElsewhere,
           Superseded,
           TimePasses, Crash, Start, vars, serverVars
<1>5. unsettled' \in BOOLEAN
    BY DEF FlagsTypeOK, Next, Supervise, Observe, StopFails, StopReaches, JobChanges, Report,
           FlushEvents, Heartbeat, LastEvents, LastBeat, Transport, Succeeds, Fails, TimesOut,
           RefusedBeat, Server, StrayArrives, StrayIsLost, Retire, Delete, EnrolledElsewhere,
           Superseded,
           TimePasses, Crash, Start, vars
<1> QED
    BY <1>1, <1>2, <1>3, <1>4, <1>5 DEF FlagsTypeOK

-----------------------------------------------------------------------------
(* Where events are, and what that makes of each step for EventFeed.       *)

Waiting == Ids(buf) \cup IdsOf(request) \cup IdsOf(stray)

FeedNext == Feed!Emit \/ Feed!Lose \/ Feed!Store \/ Feed!Erase

LEMMA IdsOfAreNat ==
    ASSUME NEW r \in Requests \cup {NoRequest}
    PROVE  IdsOf(r) \subseteq Nat
<1>1. CASE r \in Events
    BY <1>1, IdsAreNat DEF IdsOf, Events
<1>2. CASE r \notin Events
    BY <1>2, IdsOfNone DEF Requests
<1> QED
    BY <1>1, <1>2

\* An event is emitted, into the buffer or into nothing.
LEMMA EmittingKeepsPlaces ==
    ASSUME SenderTypeOK, ServerTypeOK, CountersTypeOK, PlacesOK,
           Enqueue, emitted' = emitted + 1, UNCHANGED <<request, stray, stored>>
    PROVE  PlacesOK' /\ Feed!Emit
<1> DEFINE e == emitted + 1
<1>1. /\ buf \in Seq(Nat) /\ emitted \in Nat /\ e \in Nat
      /\ Ids(buf) \subseteq Nat /\ IdsOf(request) \subseteq Nat /\ IdsOf(stray) \subseteq Nat
    BY IdsAreNat, IdsOfAreNat DEF SenderTypeOK, ServerTypeOK, CountersTypeOK
<1>2. e \notin Ids(buf) \cup IdsOf(request) \cup IdsOf(stray)
    BY <1>1 DEF PlacesOK
<1>3. CASE buf' = Append(buf, e)
    <2>1. Ids(buf') = Ids(buf) \cup {e} /\ Once(buf')
        BY <1>1, <1>2, <1>3, IdsOfAppend DEF PlacesOK
    <2>2. PlacesOK'
        BY <1>1, <1>2, <2>1 DEF PlacesOK
    <2>3. Waiting' = Waiting \cup {e}
        BY <2>1 DEF Waiting
    <2> QED
        BY <2>2, <2>3 DEF Feed!Emit, Waiting
<1>4. CASE buf' = buf
    <2>1. PlacesOK'
        BY <1>1, <1>4 DEF PlacesOK
    <2> QED
        BY <1>4, <2>1 DEF Feed!Emit
<1> QED
    BY <1>3, <1>4 DEF Enqueue

\* Events go from the buffer into the request.
LEMMA SendingKeepsPlaces ==
    ASSUME SenderTypeOK, PlacesOK, NEW w, Send(w), UNCHANGED <<stray, stored, emitted>>
    PROVE  PlacesOK' /\ Feed!Lose
<1>1. /\ Ids(Drained) \cup Ids(Rest) \subseteq Ids(buf)
      /\ Ids(Drained) \cap Ids(Rest) = {}
      /\ Once(Rest)
    BY DrainedAndRest DEF SenderTypeOK, PlacesOK
<1>2. buf' = Rest /\ IdsOf(request') = Ids(Drained)
    BY DEF Send, IdsOf
<1>3. PlacesOK'
    BY <1>1, <1>2 DEF PlacesOK
<1>4. Waiting' \subseteq Waiting
    BY <1>1, <1>2 DEF Waiting
<1> QED
    BY <1>3, <1>4 DEF Feed!Lose, Waiting

\* What is left of the places: the buffer may be gone, the request answered or
\* given up, the stray gone.
Fewer ==
    /\ buf' \in {buf, << >>}
    /\ \/ IdsOf(request') \in {IdsOf(request), {}} /\ IdsOf(stray') \in {IdsOf(stray), {}}
       \/ IdsOf(request') = {} /\ IdsOf(stray') = IdsOf(request)
    /\ emitted' = emitted

LEMMA LosingKeepsPlaces ==
    ASSUME PlacesOK, Fewer
    PROVE  PlacesOK' /\ Waiting' \subseteq Waiting
<1>1. Ids(buf') \in {Ids(buf), {}} /\ Once(buf')
    BY IdsOfNone DEF Fewer, Once, PlacesOK
<1> QED
    BY <1>1 DEF Fewer, PlacesOK, Waiting

LEMMA LosingIsLose ==
    ASSUME PlacesOK, Fewer, UNCHANGED stored
    PROVE  PlacesOK' /\ Feed!Lose
BY LosingKeepsPlaces DEF Feed!Lose, Fewer, Waiting

\* The events of a request are stored, and wait no more.
LEMMA StoringIsStore ==
    ASSUME ServerTypeOK, PlacesOK, Fewer, NEW r \in Events, stored' = stored \o r.ids,
           buf' = buf,
           \/ r = request /\ IdsOf(request') = {} /\ UNCHANGED stray
           \/ r = stray /\ IdsOf(stray') = {} /\ UNCHANGED request
    PROVE  PlacesOK' /\ Feed!Store
<1>1. PlacesOK' /\ Waiting' \subseteq Waiting
    BY LosingKeepsPlaces
<1>2. r.ids \in Seq(Nat) /\ IdsOf(r) = Ids(r.ids)
    BY DEF Events, IdsOf
<1>3. Ids(stored') = Ids(stored) \cup IdsOf(r)
    BY <1>2, IdsOfConcat DEF ServerTypeOK
<1>4. Waiting \ Waiting' = IdsOf(r)
    BY DEF Waiting, PlacesOK
<1> QED
    BY <1>1, <1>3, <1>4 DEF Feed!Store, Fewer, Waiting

\* What a handler does to the stored events.
LEMMA HandlingStores ==
    ASSUME NEW r \in Requests, Handle(r)
    PROVE  (r \in Events /\ stored' = stored \o r.ids) \/ (stored' = stored)
BY DEF Handle, Requests, Events, Beats, Retires

LEMMA GoingOnEmpties ==
    ASSUME GoesOn
    PROVE  IdsOf(request') = {}
BY DEF GoesOn, BeginLastBeat, NoRequest, IdsOf

LEMMA PlacesNext ==
    ASSUME SenderTypeOK, ServerTypeOK, CountersTypeOK, PlacesOK, [Next]_vars
    PROVE  PlacesOK' /\ [FeedNext]_<<emitted, Waiting, Ids(stored)>>
<1>0. IdsOf(NoRequest) = {} /\ IdsOf([kind |-> "retire"]) = {}
    BY DEF IdsOf, NoRequest
<1>1. CASE Observe \/ StopFails
    BY <1>1, EmittingKeepsPlaces DEF FeedNext, Observe, StopFails, serverVars
<1>2. CASE FlushEvents \/ LastEvents
    BY <1>2, SendingKeepsPlaces DEF FeedNext, FlushEvents, LastEvents, serverVars
<1>3. CASE Heartbeat \/ LastBeat
    <2>1. IdsOf(request') = {}
        BY <1>3 DEF Heartbeat, LastBeat, BeginLastBeat, IdsOf
    <2>2. Fewer /\ UNCHANGED stored
        BY <1>3, <2>1 DEF Heartbeat, LastBeat, Fewer, serverVars
    <2> QED
        BY <2>2, LosingIsLose DEF FeedNext
<1>4. CASE Succeeds
    <2>1. /\ request \in Requests /\ Handle(request) /\ GoesOn
          /\ UNCHANGED <<buf, stray, emitted>>
        BY <1>4 DEF Succeeds, InFlight, SenderTypeOK
    <2>2. IdsOf(request') = {} /\ Fewer
        BY <2>1, GoingOnEmpties DEF Fewer
    <2>3. CASE request \in Events /\ stored' = stored \o request.ids
        BY <2>1, <2>2, <2>3, StoringIsStore DEF FeedNext
    <2>4. CASE stored' = stored
        BY <2>2, <2>4, LosingIsLose DEF FeedNext
    <2> QED
        BY <2>1, <2>3, <2>4, HandlingStores
<1>5. CASE Fails \/ TimesOut
    <2>1. GoesOn /\ UNCHANGED <<buf, emitted, stored>> /\ stray' \in {stray, request}
        BY <1>5 DEF Fails, TimesOut, serverVars, BecomesStray
    <2>2. IdsOf(request') = {}
        BY <2>1, GoingOnEmpties
    <2>3. Fewer
        BY <2>1, <2>2 DEF Fewer
    <2> QED
        BY <2>1, <2>3, LosingIsLose DEF FeedNext
<1>6. CASE StrayArrives
    <2>1. /\ stray \in Requests /\ Handle(stray) /\ stray' = NoRequest
          /\ UNCHANGED <<buf, request, emitted>>
        BY <1>6 DEF StrayArrives, ServerTypeOK, agentVars
    <2>2. IdsOf(stray') = {} /\ Fewer
        BY <1>0, <2>1 DEF Fewer
    <2>3. CASE stray \in Events /\ stored' = stored \o stray.ids
        BY <2>1, <2>2, <2>3, StoringIsStore DEF FeedNext
    <2>4. CASE stored' = stored
        BY <2>2, <2>4, LosingIsLose DEF FeedNext
    <2> QED
        BY <2>1, <2>3, <2>4, HandlingStores
<1>7. CASE StrayIsLost \/ RefusedBeat \/ Crash
    <2>1. /\ UNCHANGED <<emitted, stored>> /\ buf' \in {buf, << >>}
          /\ \/ request' \in {request, NoRequest} /\ stray' \in {stray, NoRequest}
             \/ request' = NoRequest /\ stray' = request
        BY <1>7 DEF StrayIsLost, RefusedBeat, Refuse, Crash, agentVars, serverVars, BecomesStray
    <2>2. Fewer
        BY <1>0, <2>1 DEF Fewer
    <2> QED
        BY <2>1, <2>2, LosingIsLose DEF FeedNext
<1>8. CASE Retire
    <2>1. /\ UNCHANGED <<emitted, request>> /\ buf' = << >>
          /\ stray' \in {stray, [kind |-> "retire"]} /\ UNCHANGED stored
        BY <1>8 DEF Retire, Handle, BecomesStray
    <2>2. Fewer
        BY <1>0, <2>1 DEF Fewer
    <2> QED
        BY <2>1, <2>2, LosingIsLose DEF FeedNext
<1>9. CASE Delete
    <2>1. UNCHANGED <<buf, request, stray, emitted>> /\ stored' = << >>
        BY <1>9 DEF Delete, agentVars
    <2>2. PlacesOK'
        BY <2>1 DEF PlacesOK
    <2>3. Ids(stored') = {}
        BY <2>1, IdsOfNone
    <2> QED
        BY <2>1, <2>2, <2>3 DEF FeedNext, Feed!Erase
<1>10. ASSUME UNCHANGED <<buf, request, stray, emitted, stored>>
       PROVE  PlacesOK' /\ [FeedNext]_<<emitted, Waiting, Ids(stored)>>
    BY <1>10 DEF PlacesOK, Waiting
<1>11. CASE JobChanges \/ StopReaches \/ EnrolledElsewhere \/ Superseded \/ TimePasses
                \/ Start \/ UNCHANGED vars
    <2>1. UNCHANGED <<buf, request, stray, emitted, stored>>
        BY <1>11 DEF JobChanges, StopReaches, EnrolledElsewhere, Superseded, TimePasses,
               Start, vars, agentVars, serverVars
    <2> QED
        BY <1>10, <2>1
<1> QED
    BY <1>1, <1>2, <1>3, <1>4, <1>5, <1>6, <1>7, <1>8, <1>9, <1>11
       DEF Next, Supervise, Report, Transport, Server

-----------------------------------------------------------------------------
(* The status, and the row.                                                *)

\* An event that observe has a status for leaves the status its point of the
\* supervisor's life calls for; at one that it has none for, the same is called for
\* as at the point before.
LEMMA StatusAfterIsRight ==
    ASSUME NEW q \in Emissions, NEW s \in Follows[q], s \notin Silent
    PROVE  StatusAfter(s) = StatusIn[s]
<1>1. s \in Emissions
    BY FollowsEmit
<1>2. s \in {"starting", "started", "exited", "unlaunched", "gave_up", "stopping",
            "unstoppable", "stopped"}
    BY DEF Emissions, Follows, Silent
<1> QED
    BY <1>1, <1>2 DEF StatusAfter, StatusIn

LEMMA SilentKeepsStatus ==
    ASSUME NEW q \in Emissions, NEW s \in Follows[q], s \in Silent
    PROVE  StatusIn[s] = StatusIn[q] /\ StatusAfter(s) = status
<1>1. s \in Emissions
    BY FollowsEmit
<1>2. StatusAfter(s) = status
    BY DEF StatusAfter, Silent
<1>3. CASE s = "killed"
    <2>1. q \in {"stopping", "unstoppable"}
        BY <1>3 DEF Emissions, Follows
    <2> QED
        BY <1>1, <1>2, <1>3, <2>1 DEF StatusIn
<1>4. CASE s # "killed"
    <2>1. q \in {"unlaunched", "exited", "healthy"}
        BY <1>4 DEF Emissions, Follows, Silent
    <2>2. s \in {"healthy", "restarting", "backoff", "completed"}
        BY <1>4 DEF Silent
    <2> QED
        BY <1>1, <1>2, <2>1, <2>2 DEF StatusIn
<1> QED
    BY <1>3, <1>4

LEMMA StatusNext ==
    ASSUME SenderTypeOK, LastOK, StatusFollowsSupervisor, [Next]_vars
    PROVE  StatusFollowsSupervisor' /\ LastOK'
<1>0. sup \in Emissions
    BY DEF SenderTypeOK
<1>1. CASE Observe
    <2>1. PICK s \in Follows[sup] : /\ sup' = s
                                   /\ status' = StatusAfter(s)
                                   /\ unsettled' = (unsettled /\ s \in Silent)
        BY <1>1 DEF Observe
    <2>2. ~ Returned
        BY <2>1 DEF Returned
    <2>3. LastOK'
        BY <1>1, <2>2 DEF Observe, LastOK
    <2>4. status = IF unsettled THEN "stopping" ELSE StatusIn[sup]
        BY <1>1, <2>2 DEF Observe, StatusFollowsSupervisor
    <2>5. status' = IF unsettled' THEN "stopping" ELSE StatusIn[s]
        <3>1. CASE s \in Silent
            BY <1>0, <2>1, <2>4, <3>1, SilentKeepsStatus
        <3>2. CASE s \notin Silent
            BY <1>0, <2>1, <3>2, FollowsEmit, StatusAfterIsRight
        <3> QED
            BY <3>1, <3>2
    <2>6. StatusIn' = StatusIn
        BY DEF StatusIn
    <2> QED
        BY <2>1, <2>3, <2>5, <2>6 DEF StatusFollowsSupervisor
<1>2. CASE StopFails
    <2>1. StatusAfter("stopping") = "stopping"
        BY DEF StatusAfter
    <2> QED
        BY <1>2, <2>1 DEF StopFails, StatusFollowsSupervisor, LastOK, Returned
<1>3. CASE FlushEvents
    BY <1>3 DEF FlushEvents, Send, StatusFollowsSupervisor, LastOK, Returned
<1>4. CASE LastEvents
    BY <1>4 DEF LastEvents, Send, StatusFollowsSupervisor, LastOK, Returned
<1>5. CASE LastBeat
    BY <1>5
       DEF LastBeat, BeginLastBeat, StatusFollowsSupervisor, LastOK, Returned
<1>6. ASSUME GoesOn, UNCHANGED <<sup, unsettled>>
      PROVE  StatusFollowsSupervisor' /\ LastOK'
    BY <1>6
       DEF GoesOn, BeginLastBeat, StatusFollowsSupervisor, LastOK, Returned
<1>7. CASE Succeeds \/ Fails \/ TimesOut
    BY <1>6, <1>7 DEF Succeeds, Fails, TimesOut
<1>9. CASE Start
    <2>1. "none" \in Emissions /\ StatusIn["none"] = "starting"
        BY DEF Emissions, Follows, StatusIn
    <2> QED
        BY <1>9, <2>1 DEF Start, StatusFollowsSupervisor, LastOK
<1>10. CASE UNCHANGED <<sup, status, point, unsettled>>
    BY <1>10 DEF StatusFollowsSupervisor, LastOK, Returned
<1>11. CASE Heartbeat \/ RefusedBeat \/ Retire \/ Crash
    <2>1. /\ UNCHANGED <<sup, status, unsettled>>
          /\ \/ point' = "beat" /\ point = "loop"
             \/ point' = "done" /\ point # "dead"
             \/ point' = "dead"
        BY <1>11 DEF Heartbeat, RefusedBeat, Refuse, InFlight, Retire, Crash
    <2> QED
        BY <2>1 DEF StatusFollowsSupervisor, LastOK, Returned
<1>12. CASE JobChanges \/ StopReaches \/ StrayArrives \/ StrayIsLost \/ Delete
             \/ EnrolledElsewhere \/ Superseded \/ TimePasses \/ UNCHANGED vars
    BY <1>10, <1>12 DEF JobChanges, StopReaches, StrayArrives, StrayIsLost, Delete,
        EnrolledElsewhere, Superseded, TimePasses, vars, agentVars
<1> QED
    BY <1>1, <1>2, <1>3, <1>4, <1>5, <1>7, <1>9, <1>11, <1>12
       DEF Next, Supervise, Report, Transport, Server

\* No handler but that of an enrollment, and no passing of time, brings a retired
\* runner back.
LEMMA RetiredNext ==
    ASSUME ServerTypeOK, [Next]_vars, EffectiveStatus = "retired",
           row'.there, ~EnrolledElsewhere
    PROVE  EffectiveStatus' = "retired"
<1>1. row \in [there : BOOLEAN, status : Statuses, age : 0 .. Offline, retired : BOOLEAN]
    BY DEF ServerTypeOK, Row
<1>0. row.retired
    BY <1>1 DEF EffectiveStatus, Statuses
<1> SUFFICES row'.retired
    BY DEF EffectiveStatus
<1>2. ASSUME NEW r, Handle(r)
      PROVE  row'.retired
    <2>1. row' = row \/ row' = Heard(r.status) \/ row' = Finished
        BY <1>2 DEF Handle
    <2>2. Heard(r.status).retired = row.retired /\ Finished.retired = TRUE
        BY <1>1 DEF Heard, Finished
    <2> QED
        BY <1>0, <2>1, <2>2
<1>3. CASE Succeeds \/ StrayArrives \/ Retire
    BY <1>0, <1>2, <1>3 DEF Succeeds, StrayArrives, Retire
<1>4. CASE Delete
    BY <1>4 DEF Delete, NoRow
<1>6. CASE TimePasses
    <2>1. Older.retired = row.retired
        BY <1>1 DEF Older
    <2> QED
        BY <1>0, <1>6, <2>1 DEF TimePasses
<1>7. CASE UNCHANGED row
    BY <1>0, <1>7
<1> QED
    BY <1>3, <1>4, <1>6, <1>7
       DEF Next, Supervise, Observe, StopFails, StopReaches, JobChanges, Report, FlushEvents,
           Heartbeat, LastEvents, LastBeat, Transport, Fails, TimesOut, RefusedBeat, Server,
           StrayIsLost, Superseded, Crash, Start, vars, serverVars

-----------------------------------------------------------------------------
(* The reporter.                                                           *)

IInv == TypeOK /\ PlacesOK /\ LastOK /\ StatusFollowsSupervisor

LEMMA IInvInit == Init => IInv
<1> SUFFICES ASSUME Init PROVE IInv
    OBVIOUS
<1>1. /\ "none" \in Emissions /\ "starting" \in Statuses /\ << >> \in Seq(Nat)
      /\ "loop" \in Points /\ 0 \in Nat /\ 1 \in Nat
    BY DEF Emissions, Follows, Statuses, Points
<1>2. [there |-> TRUE, status |-> "starting", age |-> Offline, retired |-> FALSE] \in Row
    BY ThresholdAssumption DEF Row, Statuses
<1>3. SenderTypeOK /\ CountersTypeOK
    BY <1>1 DEF Init, SenderTypeOK, CountersTypeOK
<1>4. ServerTypeOK /\ FlagsTypeOK
    BY <1>1, <1>2 DEF Init, ServerTypeOK, FlagsTypeOK
<1>5. PlacesOK
    BY IdsOfNone DEF Init, PlacesOK, Once
<1>6. LastOK /\ StatusFollowsSupervisor
    BY <1>1 DEF Init, LastOK, StatusFollowsSupervisor, StatusIn
<1> QED
    BY <1>3, <1>4, <1>5, <1>6 DEF IInv, TypeOK

LEMMA IInvNext == IInv /\ [Next]_vars => IInv'
<1> SUFFICES ASSUME IInv, [Next]_vars PROVE IInv'
    OBVIOUS
<1>1. SenderTypeOK'
    BY SenderNext DEF IInv, TypeOK, PlacesOK
<1>2. ServerTypeOK' /\ CountersTypeOK' /\ FlagsTypeOK'
    BY ServerNext, CountersNext, FlagsNext DEF IInv, TypeOK
<1>3. PlacesOK'
    BY PlacesNext DEF IInv, TypeOK
<1>4. StatusFollowsSupervisor' /\ LastOK'
    BY StatusNext DEF IInv, TypeOK
<1> QED
    BY <1>1, <1>2, <1>3, <1>4 DEF IInv, TypeOK

\* Each event is in one place, once, and each request is of its kind.
THEOREM Invariant == Spec => []IInv
BY IInvInit, IInvNext, PTL DEF Spec

\* Every variable of the agent and the control plane keeps its type.
THEOREM TypeCorrect == Spec => []TypeOK
<1>1. IInv => TypeOK
    BY DEF IInv
<1> QED
    BY <1>1, Invariant, PTL

\* At every point of the supervisor's life the agent has the status that this point
\* calls for, whichever way it was reached (observe); stopping, if a Restart's Stop
\* failed since the last event with a status; and offline from the last report on.
THEOREM StatusIsRight == Spec => []StatusFollowsSupervisor
<1>1. IInv => StatusFollowsSupervisor
    BY DEF IInv
<1> QED
    BY <1>1, Invariant, PTL

\* A runner that is shown as retired is shown so until it enrolls again or is
\* deleted, however many late heartbeats, or those of an agent started again, are
\* stored on its row (RecordHeartbeat, RetireRunner).
THEOREM RetiredStays == Spec => RetiredIsFinal
<1>1. IInv /\ [Next]_vars =>
          [EffectiveStatus = "retired" =>
             EffectiveStatus' = "retired" \/ ~row'.there \/ EnrolledElsewhere]_vars
    BY RetiredNext DEF IInv, TypeOK
<1> QED
    BY <1>1, Invariant, PTL DEF Spec, RetiredIsFinal

\* Buffers, batches, failed, lost and late requests together store each event
\* once or lose it: the reporter and the handlers implement EventFeed.
THEOREM ReporterImplementsFeed == Spec => ImplementsFeed
<1>1. Init => Feed!FeedInit
    BY IdsOfNone DEF Init, Feed!FeedInit
<1>2. IInv /\ [Next]_vars => [Feed!Emit \/ Feed!Lose \/ Feed!Store \/ Feed!Erase]_(Feed!feedVars)
    BY PlacesNext DEF IInv, TypeOK, FeedNext, Waiting, Feed!feedVars
<1> QED
    BY <1>1, <1>2, Invariant, PTL DEF Spec, ImplementsFeed, Feed!FeedSpec

-----------------------------------------------------------------------------
(* One row for each event.  EventFeed has the stored events as a set, so   *)
(* it cannot tell whether a row is written twice.                          *)

OnceIn(r) == r.kind = "events" => Once(r.ids)

\* What is stored does not wait, and was emitted; no batch has an event twice.
StoredInv ==
    /\ Once(stored) /\ OnceIn(request) /\ OnceIn(stray)
    /\ Ids(stored) \cap Waiting = {}
    /\ \A e \in Ids(stored) : e <= emitted

LEMMA OnceInOthers == OnceIn(NoRequest) /\ \A r \in Beats \cup Retires : OnceIn(r)
BY DEF OnceIn, NoRequest, Beats, Retires

LEMMA ConcatOnce ==
    ASSUME NEW q \in Seq(Nat), NEW r \in Seq(Nat), Once(q), Once(r), Ids(q) \cap Ids(r) = {}
    PROVE  Once(q \o r)
<1> DEFINE c == q \o r
           n == Len(q)
           m == Len(r)
<1>1. /\ DOMAIN c = 1 .. (n + m)
      /\ DOMAIN q = 1 .. n /\ DOMAIN r = 1 .. m /\ n \in Nat /\ m \in Nat
      /\ \A i \in 1 .. n : c[i] = q[i]
      /\ \A i \in (n + 1) .. (n + m) : c[i] = r[i - n]
    OBVIOUS
<1> HIDE DEF c, n, m
<1> SUFFICES ASSUME NEW i \in 1 .. (n + m), NEW j \in 1 .. (n + m), c[i] = c[j]
             PROVE  i = j
    BY <1>1 DEF Once, c
<1>2. \A k \in 1 .. (n + m) : k \in 1 .. n \/ (k \in (n + 1) .. (n + m) /\ k - n \in 1 .. m)
    BY <1>1
<1>3. ASSUME NEW k \in 1 .. n, NEW l \in 1 .. m PROVE q[k] # r[l]
    BY <1>1 DEF Ids
<1>4. CASE i \in 1 .. n /\ j \in 1 .. n
    BY <1>1, <1>4 DEF Once
<1>5. CASE i \in (n + 1) .. (n + m) /\ j \in (n + 1) .. (n + m)
    <2>1. r[i - n] = r[j - n] /\ i - n \in 1 .. m /\ j - n \in 1 .. m
        BY <1>1, <1>2, <1>5
    <2>2. i - n = j - n
        BY <1>1, <2>1 DEF Once
    <2> QED
        BY <1>1, <2>2
<1>6. CASE i \in 1 .. n /\ j \in (n + 1) .. (n + m)
    BY <1>1, <1>2, <1>3, <1>6
<1>7. CASE j \in 1 .. n /\ i \in (n + 1) .. (n + m)
    BY <1>1, <1>2, <1>3, <1>7
<1> QED
    BY <1>2, <1>4, <1>5, <1>6, <1>7

\* A handler that stores a request stores what was not stored.
LEMMA HandlingOnce ==
    ASSUME ServerTypeOK, StoredInv, NEW r \in {request, stray}, r \in Requests, Handle(r)
    PROVE  Once(stored')
<1>1. CASE r \in Events /\ stored' = stored \o r.ids
    <2>1. r.ids \in Seq(Nat) /\ Once(r.ids) /\ Ids(r.ids) = IdsOf(r)
        BY <1>1 DEF Events, IdsOf, StoredInv, OnceIn
    <2>2. Ids(stored) \cap Ids(r.ids) = {} /\ stored \in Seq(Nat)
        BY <2>1 DEF StoredInv, Waiting, ServerTypeOK
    <2> QED
        BY <1>1, <2>1, <2>2, ConcatOnce DEF StoredInv
<1>2. CASE stored' = stored
    BY <1>2 DEF StoredInv
<1> QED
    BY <1>1, <1>2, HandlingStores

LEMMA StoredNext ==
    ASSUME IInv, StoredInv, [Next]_vars
    PROVE  StoredInv'
<1>a. Once(stored)' /\ OnceIn(request)' /\ OnceIn(stray)'
    <2>. USE OnceInOthers DEF StoredInv
    <2>0. ASSUME GoesOn PROVE OnceIn(request')
        <3>1. request' \in {NoRequest, [kind |-> "beat", status |-> "offline"]}
            BY <2>0 DEF GoesOn, BeginLastBeat
        <3> QED
            BY <3>1 DEF OnceIn, NoRequest
    <2>1. CASE FlushEvents \/ LastEvents
        <3>1. request' = [kind |-> "events", ids |-> Drained] /\ UNCHANGED <<stored, stray>>
            BY <2>1 DEF FlushEvents, LastEvents, Send, serverVars
        <3>2. Once(Drained)
            BY DrainedAndRest DEF IInv, TypeOK, SenderTypeOK, PlacesOK
        <3> QED
            BY <3>1, <3>2 DEF OnceIn
    <2>2. CASE Heartbeat \/ LastBeat
        <3>1. request'.kind = "beat" /\ UNCHANGED <<stored, stray>>
            BY <2>2 DEF Heartbeat, LastBeat, BeginLastBeat, serverVars
        <3> QED
            BY <3>1 DEF OnceIn
    <2>3. CASE Succeeds
        <3>1. request \in Requests /\ Handle(request) /\ GoesOn /\ UNCHANGED stray
            BY <2>3 DEF Succeeds, InFlight, IInv, TypeOK, SenderTypeOK
        <3>2. Once(stored')
            BY <3>1, HandlingOnce DEF IInv, TypeOK
        <3> QED
            BY <2>0, <3>1, <3>2
    <2>4. CASE Fails \/ TimesOut
        <3>1. GoesOn /\ UNCHANGED stored /\ stray' \in {stray, request}
            BY <2>4 DEF Fails, TimesOut, serverVars, BecomesStray
        <3> QED
            BY <2>0, <3>1
    <2>5. CASE StrayArrives
        <3>1. stray \in Requests /\ Handle(stray) /\ stray' = NoRequest /\ UNCHANGED request
            BY <2>5 DEF StrayArrives, IInv, TypeOK, ServerTypeOK, agentVars
        <3>2. Once(stored')
            BY <3>1, HandlingOnce DEF IInv, TypeOK
        <3> QED
            BY <3>1, <3>2
    <2>6. CASE StrayIsLost \/ RefusedBeat \/ Crash
        <3>1. /\ UNCHANGED stored /\ request' \in {request, NoRequest}
              /\ stray' \in {stray, request, NoRequest}
            BY <2>6 DEF StrayIsLost, RefusedBeat, Refuse, Crash, agentVars, serverVars, BecomesStray
        <3> QED
            BY <3>1
    <2>7. CASE Retire
        <3>1. UNCHANGED <<request, stored>> /\ stray' \in {stray, [kind |-> "retire"]}
            BY <2>7 DEF Retire, Handle, BecomesStray
        <3> QED
            BY <3>1 DEF OnceIn
    <2>8. CASE Delete
        <3>1. UNCHANGED <<request, stray>> /\ stored' = << >>
            BY <2>8 DEF Delete, agentVars
        <3> QED
            BY <3>1 DEF Once
    <2>9. CASE UNCHANGED <<request, stray, stored>>
        BY <2>9
    <2> QED
        BY <2>1, <2>2, <2>3, <2>4, <2>5, <2>6, <2>7, <2>8, <2>9
           DEF Next, Supervise, Observe, StopFails, StopReaches, JobChanges, Report, Transport,
               Server, EnrolledElsewhere, Superseded, TimePasses, Start, vars, agentVars,
               serverVars
<1>b. (Ids(stored) \cap Waiting = {})' /\ (\A e \in Ids(stored) : e <= emitted)'
    <2>1. [FeedNext]_<<emitted, Waiting, Ids(stored)>>
        BY PlacesNext DEF IInv, TypeOK
    <2>2. emitted \in Nat /\ Ids(stored) \subseteq Nat
        BY IdsAreNat DEF IInv, TypeOK, CountersTypeOK, ServerTypeOK
    <2>3. \A e \in Waiting : e <= emitted
        BY DEF IInv, PlacesOK, Waiting
    <2>4. Waiting \subseteq Nat
        BY IdsAreNat, IdsOfAreNat DEF Waiting, IInv, TypeOK, SenderTypeOK, ServerTypeOK
    <2> DEFINE W == Waiting
               S == Ids(stored)
    <2>5. /\ S \cap W = {} /\ (\A e \in S : e <= emitted) /\ S \subseteq Nat /\ W \subseteq Nat
          /\ (\A e \in W : e <= emitted)
        BY <2>2, <2>3, <2>4 DEF StoredInv
    <2>6. CASE Feed!Emit
        <3>1. emitted' = emitted + 1 /\ W' \in {W, W \cup {emitted + 1}} /\ S' = S
            BY <2>6 DEF Feed!Emit, Waiting
        <3> HIDE DEF W, S
        <3>2. emitted + 1 \notin S /\ \A e \in S : e <= emitted + 1
            BY <2>2, <2>5
        <3> QED
            BY <2>5, <3>1, <3>2 DEF W, S
    <2>7. CASE Feed!Lose \/ Feed!Store \/ Feed!Erase
        <3>1. W' \subseteq W /\ emitted' = emitted /\ (S' = S \/ S' = S \cup (W \ W') \/ S' = {})
            BY <2>7 DEF Feed!Lose, Feed!Store, Feed!Erase, Waiting
        <3> HIDE DEF W, S
        <3>2. S' \cap W' = {} /\ \A e \in S' : e <= emitted'
            BY <2>5, <3>1
        <3> QED
            BY <3>2 DEF W, S
    <2>8. CASE UNCHANGED <<emitted, Waiting, Ids(stored)>>
        BY <2>8 DEF StoredInv
    <2> QED
        BY <2>1, <2>6, <2>7, <2>8 DEF FeedNext
<1> QED
    BY <1>a, <1>b DEF StoredInv

\* However requests fail, are answered in vain or arrive late, no event has two
\* rows in runner_events, and none that has one can get another.
THEOREM StoredOnce == Spec => [](Once(stored) /\ Ids(stored) \cap Waiting = {})
<1>1. Init => StoredInv
    BY IdsOfNone, OnceInOthers DEF Init, StoredInv, Once
<1>2. StoredInv => Once(stored) /\ Ids(stored) \cap Waiting = {}
    BY DEF StoredInv
<1> QED
    BY <1>1, <1>2, StoredNext, Invariant, PTL DEF Spec

-----------------------------------------------------------------------------
(* The events and the runner.  Follows says what Run may emit next; Then,  *)
(* which Supervisor is proved to keep to, in which phase that leaves its   *)
(* runner.  The two agree.                                                 *)

\* The phase of the runner once this event was the last.
PhaseAfter ==
    [none        |-> "between",  starting    |-> "between",  unlaunched |-> "between",
     restarting  |-> "between",  backoff     |-> "between",
     started     |-> "running",
     exited      |-> "exited",   healthy     |-> "exited",
     stopping    |-> "stopping", unstoppable |-> "stopping", killed     |-> "stopping",
     gave_up     |-> "ended",    completed   |-> "ended",    stopped    |-> "ended"]

LEMMA FollowingKeepsToLife ==
    \A s \in Emissions : \A t \in Follows[s] :
        PhaseAfter[t] = PhaseAfter[s] \/ PhaseAfter[t] \in Then[PhaseAfter[s]]
BY DEF Emissions, Follows, PhaseAfter, Then

\* Of an agent that runs, only the supervisor's own events move it on.
LEMMA OnlyObserveEmits ==
    ASSUME [Next]_vars, ~Observe, ~Start
    PROVE  sup' = sup
BY DEF Next, Supervise, StopFails, StopReaches, JobChanges, Report, FlushEvents, Heartbeat,
       LastEvents, LastBeat, Send, GoesOn, Transport, Succeeds, Fails, TimesOut, RefusedBeat,
       Refuse, InFlight, Server, StrayArrives, StrayIsLost, Retire, Delete, EnrolledElsewhere,
       Superseded, TimePasses, Crash, vars, agentVars

\* What an operator reads in the feed is the life of a runner: no event skips or
\* invents a change of phase, but for an agent that starts again.
THEOREM EventsKeepToLife ==
    Spec => [][ \/ PhaseAfter[sup'] = PhaseAfter[sup]
                \/ PhaseAfter[sup'] \in Then[PhaseAfter[sup]]
                \/ Start ]_vars
<1>1. ASSUME IInv, [Next]_vars
      PROVE  \/ PhaseAfter[sup'] = PhaseAfter[sup]
             \/ PhaseAfter[sup'] \in Then[PhaseAfter[sup]]
             \/ Start
  <2>1. CASE Observe
    <3>1. sup' \in Follows[sup]
      BY <2>1 DEF Observe
    <3>2. sup \in Emissions
      BY <1>1 DEF IInv, TypeOK, SenderTypeOK
    <3>. QED  BY <3>1, <3>2, FollowingKeepsToLife
  <2>2. CASE Start
    BY <2>2
  <2>3. CASE ~Observe /\ ~Start
    <3>1. sup' = sup
      BY <1>1, <2>3, OnlyObserveEmits
    <3>. QED  BY <3>1
  <2>. QED  BY <2>1, <2>2, <2>3
<1>. QED  BY <1>1, Invariant, PTL DEF Spec

\* Events that leave the runner in its phase.
InPhase(s) == {t \in Follows[s] : PhaseAfter[t] = PhaseAfter[s]}

\* At most two such events.
Reach(s) == {s} \cup InPhase(s) \cup UNION {InPhase(t) : t \in InPhase(s)}

\* Nor does the feed lack an event: whatever the supervisor may do next with the
\* runner, at most three events from here tell of it.
THEOREM EventsCoverLife ==
    \A s \in Emissions : \A q \in Then[PhaseAfter[s]] :
        \E t \in Reach(s) : \E u \in Follows[t] : PhaseAfter[u] = q
BY DEF Emissions, Follows, PhaseAfter, Then, Reach, InPhase
=============================================================================
