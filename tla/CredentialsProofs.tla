------------------------- MODULE CredentialsProofs -------------------------
(***************************************************************************)
(* Proofs about Credentials, for any number of agents, credentials, starts *)
(* and uses of the enrollment token.                                       *)
(***************************************************************************)
EXTENDS Credentials, FiniteSetTheorems, TLAPS

LEMMA StrayIsASlot == "stray" \in Slot /\ Agent \subseteq Slot /\ "stray" \notin Agent
  BY CredentialAssumption DEF Slot

-----------------------------------------------------------------------------
(* Type correctness.                                                       *)

RequestsOK == request \in [Slot -> Request] /\ \A s \in Slot : Sound(request[s])

\* Requests stay sound when one of them changes to a sound one, while
\* credentials are only added.
LEMMA SetIsSound ==
  ASSUME TypeOK, NEW s \in Slot, NEW r, Set(s, r), made' \in Nat, made <= made',
         r \in Request, r.token <= made', r.since <= made',
         r.kind = "register" \/ r.stage \in {"known", "issue", "swap"} => r.runner \in Agent
  PROVE  RequestsOK'
<1>1. request' \in [Slot -> Request]
  BY DEF TypeOK, Set
<1>2. ASSUME NEW x \in Slot PROVE Sound(request[x])'
  <2>1. CASE x = s
    <3>1. request'[x] = r
      BY <2>1 DEF TypeOK, Set
    <3>. QED  BY <3>1 DEF Sound
  <2>2. CASE x # s
    <3>1. request'[x] = request[x]
      BY <2>2 DEF TypeOK, Set
    <3>2. Sound(request[x]) /\ request[x].token \in Nat /\ request[x].since \in Nat /\ made \in Nat
      BY CredentialAssumption DEF TypeOK, Request
    <3>. QED  BY <3>1, <3>2 DEF Sound
  <2>. QED  BY <2>1, <2>2
<1>. QED  BY <1>1, <1>2 DEF RequestsOK

\* A request that did not change is as sound as it was.
LEMMA SameIsSound ==
  ASSUME TypeOK, UNCHANGED <<request, made>>
  PROVE  RequestsOK'
  BY DEF TypeOK, RequestsOK, Sound

\* An empty slot is sound.
LEMMA NoneIsSound ==
  NoRequest \in Request /\ NoRequest.stage = "none" /\ NoRequest.kind = "beat"
  /\ NoRequest.token = 0 /\ NoRequest.since = 0
  BY DEF NoRequest, NoToken, Request, Stages

LEMMA RequestsStep == TypeOK /\ [Next]_vars => RequestsOK'
<1>. SUFFICES ASSUME TypeOK, [Next]_vars PROVE RequestsOK'
  OBVIOUS
<1>. USE StrayIsASlot, NoneIsSound DEF serverVars, machineVars
<1>0. /\ made \in Nat /\ MaxTokens \in Nat
      /\ \A s \in Slot : request[s] \in Request /\ request[s].token \in Nat /\ request[s].since \in Nat
                         /\ Sound(request[s])
  BY CredentialAssumption DEF TypeOK, Request
<1>1. ASSUME NEW s \in Slot, Redeem(s) PROVE RequestsOK'
  <2>1. \A g \in {"issue", "failed"} :
           LET q == [request[s] EXCEPT !.stage = g]
           IN  q \in Request /\ q.token = request[s].token /\ q.since = request[s].since
               /\ q.runner = request[s].runner
    BY <1>0 DEF Request, Stages
  <2>2. request[s].kind = "register" /\ request[s].runner \in Agent
    BY <1>0, <1>1 DEF Redeem, Sound
  <2>3. UNCHANGED made
    BY <1>1 DEF Redeem
  <2>4. PICK g \in {"issue", "failed"} : Set(s, [request[s] EXCEPT !.stage = g])
    BY <1>1 DEF Redeem
  <2>. DEFINE q == [request[s] EXCEPT !.stage = g]
  <2>5. q \in Request /\ q.token = request[s].token /\ q.since = request[s].since
        /\ q.runner \in Agent /\ Set(s, q)
    BY <2>1, <2>2, <2>4
  <2>. HIDE DEF q
  <2>. QED  BY <1>0, <2>3, <2>5, SetIsSound DEF Sound
<1>2. ASSUME NEW s \in Slot, Authenticate(s) PROVE RequestsOK'
  <2>. DEFINE r == request[s]
              q == [r EXCEPT !.stage = "known", !.runner = owner[r.token]]
              d == [r EXCEPT !.stage = "denied"]
  <2>1. d \in Request /\ d.token = r.token /\ d.since = r.since /\ d.stage = "denied" /\ d.kind = "beat"
    BY <1>0, <1>2 DEF Request, Stages, Authenticate
  <2>2. ASSUME r.token \in live PROVE owner[r.token] \in Agent
    BY <2>2 DEF TypeOK
  <2>3. ASSUME r.token \in live
        PROVE q \in Request /\ q.token = r.token /\ q.since = r.since /\ q.runner \in Agent
    BY <1>0, <2>2, <2>3 DEF Request, Stages
  <2>4. UNCHANGED made
    BY <1>2 DEF Authenticate
  <2>5. CASE r.token \in live
    <3>1. Set(s, q)
      BY <1>2, <2>5 DEF Authenticate
    <3>. HIDE DEF q
    <3>. QED  BY <1>0, <2>3, <2>4, <2>5, <3>1, SetIsSound DEF Sound
  <2>6. CASE r.token \notin live
    <3>1. Set(s, d)
      BY <1>2, <2>6 DEF Authenticate
    <3>2. d.kind = "register" \/ d.stage \in {"known", "issue", "swap"} => d.runner \in Agent
      BY <2>1
    <3>. HIDE DEF d
    <3>. QED  BY <1>0, <2>1, <2>4, <3>1, <3>2, SetIsSound DEF Sound
  <2>. QED  BY <2>5, <2>6
<1>3. ASSUME NEW s \in Slot, CheckAge(s) PROVE RequestsOK'
  <2>. DEFINE r == request[s]
              q == [r EXCEPT !.stage = "issue"]
              d == [r EXCEPT !.stage = "answered", !.token = NoToken]
  <2>1. q \in Request /\ q.token = r.token /\ q.since = r.since /\ q.runner = r.runner
        /\ d \in Request /\ d.token = 0 /\ d.since = r.since /\ d.runner = r.runner
        /\ r.runner \in Agent
    BY <1>0, <1>3 DEF Request, Stages, NoToken, CheckAge, Sound
  <2>2. (Set(s, q) \/ Set(s, d)) /\ UNCHANGED made
    BY <1>3 DEF CheckAge
  <2>. HIDE DEF q, d
  <2>. QED  BY <1>0, <2>1, <2>2, SetIsSound DEF Sound
<1>4. ASSUME NEW s \in Slot, Begin(s) PROVE RequestsOK'
  <2>. DEFINE r == request[s]
              q == [r EXCEPT !.stage = "swap", !.since = made]
  <2>1. q \in Request /\ q.token = r.token /\ q.since = made /\ q.runner = r.runner
        /\ r.runner \in Agent
    BY <1>0, <1>4 DEF Request, Stages, Begin, Sound
  <2>2. Set(s, q) /\ UNCHANGED made
    BY <1>4 DEF Begin
  <2>. HIDE DEF q
  <2>. QED  BY <1>0, <2>1, <2>2, SetIsSound DEF Sound
<1>5. ASSUME NEW s \in Slot, Commit(s) PROVE RequestsOK'
  <2>. DEFINE r == request[s]
              q == [r EXCEPT !.stage = "answered", !.token = made + 1, !.since = NoToken]
  <2>0. r.runner \in Agent /\ r \in Request /\ made + 1 \in Nat
    BY <1>0, <1>5 DEF Commit, Sound
  <2>1. q \in Request /\ q.token = made + 1 /\ q.since = 0 /\ q.runner = r.runner
    BY <2>0 DEF Request, Stages, NoToken
  <2>2. Set(s, q) /\ made' = made + 1
    BY <1>5 DEF Commit
  <2>. HIDE DEF q
  <2>. QED  BY <1>0, <2>0, <2>1, <2>2, SetIsSound
<1>6. ASSUME NEW s \in Slot, IssueFails(s) PROVE RequestsOK'
  <2>. DEFINE r == request[s]
              g == IF r.kind = "beat" THEN "answered" ELSE "failed"
              q == [r EXCEPT !.stage = g, !.token = NoToken, !.since = NoToken]
  <2>1. q \in Request /\ q.token = 0 /\ q.since = 0 /\ q.runner = r.runner /\ r.runner \in Agent
    BY <1>0, <1>6 DEF Request, Stages, NoToken, IssueFails, Sound
  <2>2. Set(s, q) /\ UNCHANGED made
    BY <1>6 DEF IssueFails
  <2>. HIDE DEF q
  <2>. QED  BY <1>0, <2>1, <2>2, SetIsSound
<1>7. ASSUME NEW a \in Agent, Start(a) PROVE RequestsOK'
  <2>. DEFINE q == [NoRequest EXCEPT !.stage = "sent", !.kind = "register", !.runner = a]
  <2>1. q \in Request /\ q.token = 0 /\ q.since = 0 /\ q.runner = a
    BY DEF Request, Stages, NoRequest, NoToken
  <2>2. (Set(a, q) \/ UNCHANGED request) /\ UNCHANGED made
    BY <1>7 DEF Start
  <2>. HIDE DEF q
  <2>. QED  BY <1>0, <2>1, <2>2, SetIsSound, SameIsSound
<1>8. ASSUME NEW a \in Agent, Beat(a) PROVE RequestsOK'
  <2>. DEFINE q == [NoRequest EXCEPT !.stage = "sent", !.token = mem[a]]
  <2>1. mem[a] \in Nat /\ mem[a] <= made
    BY <1>0 DEF TypeOK
  <2>2. q \in Request /\ q.token = mem[a] /\ q.since = 0 /\ q.kind = "beat" /\ q.stage = "sent"
    BY <2>1 DEF Request, Stages, NoRequest, NoToken
  <2>3. Set(a, q) /\ UNCHANGED made
    BY <1>8 DEF Beat
  <2>4. q.kind = "register" \/ q.stage \in {"known", "issue", "swap"} => q.runner \in Agent
    BY <2>2
  <2>. HIDE DEF q
  <2>. QED  BY <1>0, <2>1, <2>2, <2>3, <2>4, SetIsSound
<1>9. ASSUME NEW s \in Slot, Set(s, NoRequest), UNCHANGED made PROVE RequestsOK'
  BY <1>0, <1>9, SetIsSound
<1>10. ASSUME NEW a \in Agent, Abandon(a), UNCHANGED made PROVE RequestsOK'
  <2>1. CASE Set(a, NoRequest)
    BY <1>9, <1>10, <2>1
  <2>2. CASE request' = [request EXCEPT !["stray"] = request[a], ![a] = NoRequest]
    <3>1. \A x \in Slot : request'[x] \in {request[x], request[a], NoRequest}
      BY <2>2 DEF TypeOK
    <3>2. request' \in [Slot -> Request]
      BY <1>0, <2>2 DEF TypeOK
    <3>. QED  BY <1>0, <1>10, <3>1, <3>2 DEF RequestsOK, Sound
  <2>. QED  BY <1>10, <2>1, <2>2 DEF Abandon
<1>11. ASSUME NEW a \in Agent, Crash(a) PROVE RequestsOK'
  BY <1>10, <1>11, SameIsSound DEF Crash
<1>12. ASSUME NEW a \in Agent, Remove(a) PROVE RequestsOK'
  <2>1. \A s \in Slot :
           LET q == [request[s] EXCEPT !.stage = "failed", !.since = NoToken]
           IN  q \in Request /\ q.token = request[s].token /\ q.since = 0
               /\ q.runner = request[s].runner /\ q.kind = request[s].kind /\ q.stage = "failed"
    BY <1>0 DEF Request, Stages, NoToken
  <2>2. \A s \in Slot :
           request'[s] \in {request[s], [request[s] EXCEPT !.stage = "failed", !.since = NoToken]}
    BY <1>12 DEF Remove
  <2>3. request' \in [Slot -> Request]
    BY <1>0, <1>12, <2>1 DEF Remove
  <2>4. UNCHANGED made
    BY <1>12 DEF Remove
  <2>5. ASSUME NEW s \in Slot PROVE Sound(request[s])'
    <3>1. CASE request'[s] = request[s]
      BY <1>0, <2>4, <3>1 DEF Sound
    <3>2. CASE request'[s] = [request[s] EXCEPT !.stage = "failed", !.since = NoToken]
      <4>. DEFINE q == [request[s] EXCEPT !.stage = "failed", !.since = NoToken]
      <4>1. q \in Request /\ q.token = request[s].token /\ q.since = 0
            /\ q.runner = request[s].runner /\ q.kind = request[s].kind /\ q.stage = "failed"
        BY <2>1
      <4>2. request'[s] = q
        BY <3>2
      <4>. HIDE DEF q
      <4>. QED  BY <1>0, <2>4, <4>1, <4>2 DEF Sound
    <3>. QED  BY <2>2, <3>1, <3>2
  <2>. QED  BY <2>3, <2>5 DEF RequestsOK
<1>13. CASE UNCHANGED <<request, made>>
  BY <1>13, SameIsSound
<1>. HIDE DEF serverVars, machineVars
<1>14. ASSUME NEW a \in Agent, Report(a) PROVE RequestsOK'
  BY <1>8, <1>9, <1>13, <1>14
  DEF Report, ReceiveToken, ReceiveNone, Persist, PersistFails, serverVars
<1>15. ASSUME NEW a \in Agent, GiveUp(a) PROVE RequestsOK'
  BY <1>10, <1>15 DEF GiveUp, serverVars
<1>16. CASE Age
  BY <1>13, <1>16 DEF Age
<1>17. CASE StrayEnds
  BY <1>9, <1>17 DEF StrayEnds, serverVars
<1>18. CASE UNCHANGED vars
  BY <1>13, <1>18 DEF vars, serverVars
<1>. QED
  BY <1>1, <1>2, <1>3, <1>4, <1>5, <1>6, <1>7, <1>11, <1>12, <1>14, <1>15, <1>16,
     <1>17, <1>18 DEF Next, Serve

LEMMA TypeStep == TypeOK /\ [Next]_vars => TypeOK'
<1>. SUFFICES ASSUME TypeOK, [Next]_vars PROVE TypeOK'
  OBVIOUS
<1>0. RequestsOK'
  BY RequestsStep
<1>. USE CredentialAssumption, StrayIsASlot
<1>s. ASSUME NEW s \in Slot, NEW q, Set(s, q), UNCHANGED pc,
             request[s].stage # "none" \/ s = "stray"
      PROVE  \A a \in Agent : request'[a].stage # "none" => pc'[a] \in {"enroll", "beat"}
  BY <1>s DEF Set, TypeOK
<1>a. ASSUME NEW a \in Agent, NEW q, NEW g, Set(a, q), Go(a, g), g \in Points,
             q.stage # "none" => g \in {"enroll", "beat"}
      PROVE  /\ pc' \in [Agent -> Points]
             /\ \A b \in Agent : request'[b].stage # "none" => pc'[b] \in {"enroll", "beat"}
  BY <1>a DEF Set, Go, TypeOK
<1>1. ASSUME NEW s \in Slot, Redeem(s) PROVE TypeOK'
  <2>1. PICK q : Set(s, q)
    BY <1>1 DEF Redeem
  <2>2. \A a \in Agent : request'[a].stage # "none" => pc'[a] \in {"enroll", "beat"}
    BY <1>1, <1>s, <2>1 DEF Redeem, machineVars
  <2>3. uses' \in 0 .. MaxUses
    BY <1>1 DEF Redeem, Redeemable, TypeOK
  <2>. QED  BY <1>0, <1>1, <2>2, <2>3 DEF TypeOK, RequestsOK, Token, Redeem, machineVars
<1>2. ASSUME NEW s \in Slot, Authenticate(s) PROVE TypeOK'
  BY <1>0, <1>2, <1>s DEF TypeOK, RequestsOK, Token, Authenticate, machineVars, serverVars
<1>3. ASSUME NEW s \in Slot, CheckAge(s) PROVE TypeOK'
  BY <1>0, <1>3, <1>s DEF TypeOK, RequestsOK, Token, CheckAge, machineVars, serverVars
<1>4. ASSUME NEW s \in Slot, Begin(s) PROVE TypeOK'
  BY <1>0, <1>4, <1>s DEF TypeOK, RequestsOK, Token, Begin, machineVars, serverVars
<1>5. ASSUME NEW s \in Slot, Commit(s) PROVE TypeOK'
  <2>1. request[s].runner \in Agent
    BY <1>5 DEF TypeOK, Sound, Commit
  <2>2. /\ made' \in 0 .. MaxTokens /\ owner' \in [Token' -> Agent] /\ live' \subseteq Token'
        /\ Token \subseteq Token'
    BY <1>5, <2>1 DEF Commit, TypeOK, Token, Of
  <2>3. \A a \in Agent : request'[a].stage # "none" => pc'[a] \in {"enroll", "beat"}
    BY <1>5, <1>s DEF Commit, machineVars
  <2>4. old' \in 0 .. made' /\ uses' \in 0 .. MaxUses /\ removed' \in BOOLEAN
        /\ file' \in 0 .. made' /\ pc' \in [Agent -> Points] /\ mem' \in [Agent -> 0 .. made']
        /\ starts' \in 0 .. MaxStarts
    BY <1>5 DEF Commit, TypeOK, machineVars
  <2>5. got' \in [Agent -> SUBSET Token']
    BY <1>5, <2>2 DEF Commit, TypeOK, machineVars
  <2>. QED  BY <1>0, <2>2, <2>3, <2>4, <2>5 DEF TypeOK, RequestsOK
<1>6. ASSUME NEW s \in Slot, IssueFails(s) PROVE TypeOK'
  BY <1>0, <1>6, <1>s DEF TypeOK, RequestsOK, Token, IssueFails, machineVars, serverVars
<1>7. ASSUME NEW a \in Agent, Start(a) PROVE TypeOK'
  <2>1. /\ pc' \in [Agent -> Points]
        /\ \A b \in Agent : request'[b].stage # "none" => pc'[b] \in {"enroll", "beat"}
    BY <1>7 DEF Start, Set, Go, TypeOK, Points
  <2>2. {file} \ {NoToken} \subseteq Token
    BY DEF TypeOK, Token, NoToken
  <2>3. mem' \in [Agent -> 0 .. made] /\ starts' \in 0 .. MaxStarts
    BY <1>7 DEF Start, TypeOK
  <2>4. got' \in [Agent -> SUBSET Token]
    BY <1>7, <2>2 DEF Start, TypeOK
  <2>. QED  BY <1>0, <1>7, <2>1, <2>3, <2>4 DEF TypeOK, RequestsOK, Token, Start, serverVars
<1>8. ASSUME NEW a \in Agent, Beat(a) PROVE TypeOK'
  <2>1. /\ pc' \in [Agent -> Points]
        /\ \A b \in Agent : request'[b].stage # "none" => pc'[b] \in {"enroll", "beat"}
    BY <1>8, <1>a DEF Beat, Points
  <2>. QED  BY <1>0, <1>8, <2>1 DEF TypeOK, RequestsOK, Token, Beat, serverVars
<1>9. ASSUME NEW a \in Agent, ReceiveToken(a) PROVE TypeOK'
  <2>1. /\ pc' \in [Agent -> Points]
        /\ \A b \in Agent : request'[b].stage # "none" => pc'[b] \in {"enroll", "beat"}
    BY <1>9, <1>a DEF ReceiveToken, Points, NoRequest
  <2>2. request[a].token \in Token
    BY <1>9 DEF ReceiveToken, TypeOK, Sound, Request, Token, NoToken
  <2>3. mem' \in [Agent -> 0 .. made]
    BY <1>9, <2>2 DEF ReceiveToken, Received, TypeOK, Token
  <2>4. got' \in [Agent -> SUBSET Token]
    BY <1>9, <2>2 DEF ReceiveToken, TypeOK
  <2>. QED  BY <1>0, <1>9, <2>1, <2>3, <2>4
            DEF TypeOK, RequestsOK, Token, ReceiveToken, serverVars
<1>10. ASSUME NEW a \in Agent, ReceiveNone(a) PROVE TypeOK'
  <2>1. /\ pc' \in [Agent -> Points]
        /\ \A b \in Agent : request'[b].stage # "none" => pc'[b] \in {"enroll", "beat"}
    BY <1>10, <1>a DEF ReceiveNone, Points, NoRequest
  <2>. QED  BY <1>0, <1>10, <2>1 DEF TypeOK, RequestsOK, Token, ReceiveNone, serverVars
<1>11. ASSUME NEW a \in Agent, Persist(a) PROVE TypeOK'
  BY <1>0, <1>11 DEF TypeOK, RequestsOK, Token, Persist, Go, Points, serverVars
<1>12. ASSUME NEW a \in Agent, PersistFails(a) PROVE TypeOK'
  <2>1. file' \in 0 .. made'
    BY <1>12 DEF PersistFails, HalfStored, TypeOK, NoToken, serverVars
  <2>. QED
    BY <1>0, <1>12, <2>1 DEF TypeOK, RequestsOK, Token, PersistFails, Go, Points, serverVars
<1>b. ASSUME NEW a \in Agent, NEW g, Abandon(a), Go(a, g), g \in Points
      PROVE  /\ pc' \in [Agent -> Points]
             /\ \A b \in Agent : request'[b].stage # "none" => pc'[b] \in {"enroll", "beat"}
  <2>1. \A b \in Agent : request'[b] = IF b = a THEN NoRequest ELSE request[b]
    BY <1>b DEF Abandon, Set, TypeOK
  <2>2. pc' \in [Agent -> Points] /\ \A b \in Agent : b # a => pc'[b] = pc[b]
    BY <1>b DEF Go, TypeOK
  <2>. QED  BY <2>1, <2>2, NoneIsSound DEF TypeOK
<1>13. ASSUME NEW a \in Agent, GiveUp(a) PROVE TypeOK'
  <2>1. /\ pc' \in [Agent -> Points]
        /\ \A b \in Agent : request'[b].stage # "none" => pc'[b] \in {"enroll", "beat"}
    BY <1>13, <1>b DEF GiveUp, Points
  <2>. QED  BY <1>0, <1>13, <2>1 DEF TypeOK, RequestsOK, Token, GiveUp, serverVars
<1>14. ASSUME NEW a \in Agent, Crash(a) PROVE TypeOK'
  <2>1. /\ pc' \in [Agent -> Points]
        /\ \A b \in Agent : request'[b].stage # "none" => pc'[b] \in {"enroll", "beat"}
    <3>1. CASE Abandon(a)
      BY <1>14, <1>b, <3>1 DEF Crash, Points
    <3>2. CASE UNCHANGED request /\ pc[a] \notin {"enroll", "beat"}
      BY <1>14, <3>2 DEF Crash, Go, TypeOK, Points
    <3>. QED  BY <1>14, <3>1, <3>2 DEF Crash
  <2>2. file' \in 0 .. made'
    BY <1>14 DEF Crash, HalfStored, TypeOK, NoToken, serverVars
  <2>. QED  BY <1>0, <1>14, <2>1, <2>2 DEF TypeOK, RequestsOK, Token, Crash, serverVars
<1>15. ASSUME NEW a \in Agent, Remove(a) PROVE TypeOK'
  <2>1. \A b \in Agent : request'[b].stage # "none" => request[b].stage # "none"
    BY <1>15 DEF Remove
  <2>. QED  BY <1>0, <1>15, <2>1 DEF TypeOK, RequestsOK, Token, Remove, machineVars
<1>16. CASE Age
  BY <1>0, <1>16 DEF TypeOK, RequestsOK, Token, Age, machineVars
<1>17. CASE StrayEnds
  BY <1>0, <1>17, <1>s DEF TypeOK, RequestsOK, Token, StrayEnds, machineVars, serverVars
<1>18. CASE UNCHANGED vars
  BY <1>0, <1>18 DEF TypeOK, RequestsOK, Token, vars, machineVars, serverVars
<1>. QED
  BY <1>1, <1>2, <1>3, <1>4, <1>5, <1>6, <1>7, <1>8, <1>9, <1>10, <1>11, <1>12,
     <1>13, <1>14, <1>15, <1>16, <1>17, <1>18 DEF Next, Serve, Report

\* Every variable keeps its type: no request, agent or file names a credential
\* that was never committed, the enrollment token is used at most MaxUses times,
\* and an agent has a request exactly where it waits for one.
THEOREM TypeCorrect == Spec => []TypeOK
<1>1. Init => TypeOK
  <2>. SUFFICES ASSUME Init PROVE TypeOK
    OBVIOUS
  <2>1. \A s \in Slot : request[s] = NoRequest
    BY DEF Init
  <2>2. request \in [Slot -> Request] /\ \A s \in Slot : Sound(request[s])
    BY <2>1, NoneIsSound DEF Init, Sound
  <2>3. made = 0 /\ Token = {} /\ owner \in [Token -> Agent] /\ got \in [Agent -> SUBSET Token]
    BY DEF Init, Token
  <2>4. \A a \in Agent : request[a].stage = "none"
    BY <2>1, NoneIsSound, StrayIsASlot
  <2>5. pc \in [Agent -> Points]
    BY DEF Init, Points
  <2>6. mem \in [Agent -> 0 .. made] /\ file \in 0 .. made /\ old \in 0 .. made
        /\ made \in 0 .. MaxTokens /\ uses \in 0 .. MaxUses /\ starts \in 0 .. MaxStarts
    BY <2>3, CredentialAssumption DEF Init, NoToken
  <2>7. live \subseteq Token /\ removed \in BOOLEAN
    BY DEF Init
  <2>. QED
    BY <2>2, <2>3, <2>4, <2>5, <2>6, <2>7 DEF TypeOK
<1>. QED  BY <1>1, TypeStep, PTL DEF Spec

-----------------------------------------------------------------------------
(* Reporting ends only for a reason.                                       *)

\* A later credential of the same runner exists that is not among those seen.
Superseded(t, seen) == removed \/ \E u \in Token \ seen : u > t /\ owner[u] = owner[t]

Accounted(t, seen) == t \in Token /\ (t \in live \/ Superseded(t, seen))

FileIsAccounted == file # NoToken => Accounted(file, {})

\* What an agent sends, and what it is about to be answered with, is live or
\* superseded by a credential the agent has not had.  A heartbeat carries the
\* agent's credential, and is refused only if that is dead.
AgentIsAccounted(a) ==
    /\ pc[a] \in {"keep", "loop", "beat", "persist"} => Accounted(mem[a], got[a])
    /\ request[a].stage = "answered" /\ request[a].token # NoToken
           => Accounted(request[a].token, got[a])
    /\ pc[a] = "beat" => /\ request[a].kind = "beat"
                         /\ request[a].stage = "sent" => request[a].token = mem[a]
                         /\ request[a].stage = "denied" => mem[a] \notin live
    /\ pc[a] = "refused" => mem[a] \in Token /\ Superseded(mem[a], got[a])

LockoutInv == FileIsAccounted /\ \A a \in Agent : AgentIsAccounted(a)

\* No step brings a credential back, moves it to another runner, or kills it
\* without a successor.
ServerMoves ==
    /\ Token \subseteq Token'
    /\ \A t \in Token : owner'[t] = owner[t]
    /\ removed => removed'
    /\ live' \cap Token \subseteq live
    /\ \A t \in live : t \in live' \/ removed' \/ \E u \in Token' \ Token : u > t /\ owner'[u] = owner[t]

LEMMA EveryStepMoves == TypeOK /\ [Next]_vars => ServerMoves
<1>. SUFFICES ASSUME TypeOK, [Next]_vars PROVE ServerMoves
  OBVIOUS
<1>1. CASE UNCHANGED <<made, owner, live, removed>>
  BY <1>1 DEF ServerMoves, Token, TypeOK
<1>2. ASSUME NEW s \in Slot, Commit(s) PROVE ServerMoves
  <2>1. made \in Nat /\ request[s].runner \in Agent /\ UNCHANGED removed
    BY <1>2, CredentialAssumption DEF TypeOK, Sound, Commit
  <2>2. Token \subseteq Token' /\ made + 1 \in Token' \ Token /\ \A t \in Token : made + 1 > t
    BY <1>2, <2>1 DEF Commit, Token
  <2>3. owner'[made + 1] = request[s].runner /\ \A t \in Token : owner'[t] = owner[t]
    BY <1>2, <2>1, <2>2 DEF Commit, Token
  <2>4. \A t \in live : t \in live' \/ owner[t] = request[s].runner
    BY <1>2 DEF Commit, Revoked, Of
  <2>5. live' \cap Token \subseteq live
    BY <1>2, <2>2 DEF Commit, TypeOK
  <2>. QED  BY <2>1, <2>2, <2>3, <2>4, <2>5 DEF ServerMoves, TypeOK
<1>3. ASSUME NEW a \in Agent, Remove(a) PROVE ServerMoves
  BY <1>3 DEF ServerMoves, Remove, Token
<1>. QED
  BY <1>1, <1>2, <1>3
  DEF Next, vars, serverVars, Serve, Report, Redeem, Authenticate, CheckAge, Begin, IssueFails,
      Age, StrayEnds, Start, Beat, ReceiveToken, ReceiveNone, GiveUp, Persist, PersistFails, Crash

\* What was accounted for still is.
LEMMA StaysAccounted ==
  ASSUME TypeOK, ServerMoves, NEW t, NEW seen, seen \subseteq Token, Accounted(t, seen)
  PROVE  /\ t \in Token'
         /\ \/ t \in live'
            \/ removed'
            \/ \E u \in Token' \ seen : u > t /\ owner'[u] = owner'[t]
<1>1. CASE t \in live
  BY <1>1 DEF Accounted, ServerMoves
<1>2. CASE removed
  BY <1>2 DEF Accounted, ServerMoves
<1>3. ASSUME NEW u \in Token \ seen, u > t, owner[u] = owner[t]
      PROVE  \E w \in Token' \ seen : w > t /\ owner'[w] = owner'[t]
  BY <1>3 DEF Accounted, ServerMoves
<1>4. t \in Token'
  BY DEF Accounted, ServerMoves
<1>. QED  BY <1>1, <1>2, <1>3, <1>4 DEF Accounted, Superseded

\* So the file's credential still is, and an agent's that takes no step.
LEMMA FileStays ==
  ASSUME TypeOK, ServerMoves, FileIsAccounted, UNCHANGED file
  PROVE  FileIsAccounted'
<1>1. ASSUME file # NoToken
      PROVE  file \in Token' /\ (file \in live' \/ removed' \/ \E u \in Token' : u > file /\ owner'[u] = owner'[file])
  BY <1>1, StaysAccounted DEF FileIsAccounted
<1>. QED  BY <1>1 DEF FileIsAccounted, Accounted, Superseded, NoToken

LEMMA AgentStays ==
  ASSUME TypeOK, ServerMoves, NEW a \in Agent, AgentIsAccounted(a),
         pc'[a] = pc[a], mem'[a] = mem[a], got'[a] = got[a], request'[a] = request[a]
  PROVE  AgentIsAccounted(a)'
<1>1. got[a] \subseteq Token
  BY DEF TypeOK
<1>2. Accounted(mem[a], got[a]) => Accounted(mem[a], got[a])'
  BY <1>1, StaysAccounted DEF Accounted, Superseded
<1>3. Accounted(request[a].token, got[a]) => Accounted(request[a].token, got[a])'
  BY <1>1, StaysAccounted DEF Accounted, Superseded
<1>4. mem[a] \in Token /\ Superseded(mem[a], got[a]) => Superseded(mem[a], got[a])'
  BY DEF Superseded, ServerMoves
<1>5. mem[a] \in Token /\ mem[a] \notin live => mem'[a] \notin live'
  BY DEF ServerMoves
<1>. QED  BY <1>2, <1>3, <1>4, <1>5 DEF AgentIsAccounted, Accounted

\* Neither is an agent whose request the server has moved on.
LEMMA ServedStays ==
  ASSUME TypeOK, ServerMoves, LockoutInv, UNCHANGED machineVars, NEW s \in Slot,
         \A a \in Agent : a # s => request'[a] = request[a],
         s \in Agent =>
            /\ request'[s].stage = "answered" /\ request'[s].token # NoToken
                  => request'[s].token \in live'
            /\ pc[s] = "beat" => /\ request'[s].kind = "beat"
                                 /\ request'[s].stage # "sent"
                                 /\ request'[s].stage = "denied" => mem[s] \notin live,
         live' \subseteq Token'
  PROVE  LockoutInv'
<1>1. FileIsAccounted'
  BY FileStays DEF LockoutInv, machineVars
<1>2. ASSUME NEW a \in Agent, a # s PROVE AgentIsAccounted(a)'
  BY <1>2, AgentStays DEF LockoutInv, machineVars
<1>3. ASSUME s \in Agent PROVE AgentIsAccounted(s)'
  <2>1. got[s] \subseteq Token /\ AgentIsAccounted(s)
    BY <1>3 DEF TypeOK, LockoutInv
  <2>2. pc'[s] = pc[s] /\ mem'[s] = mem[s] /\ got'[s] = got[s]
    BY DEF machineVars
  <2>3. Accounted(mem[s], got[s]) => Accounted(mem[s], got[s])'
    BY <2>1, <2>2, StaysAccounted DEF Accounted, Superseded
  <2>4. mem[s] \in Token /\ Superseded(mem[s], got[s]) => Superseded(mem[s], got[s])'
    BY <2>2 DEF Superseded, ServerMoves
  <2>5. mem[s] \in Token /\ mem[s] \notin live => mem'[s] \notin live'
    BY <2>2 DEF ServerMoves
  <2>6. request'[s].token \in live' => Accounted(request[s].token, got[s])'
    BY DEF Accounted
  <2>. QED
    BY <1>3, <2>1, <2>2, <2>3, <2>4, <2>5, <2>6
       DEF AgentIsAccounted, Accounted, ServerMoves, NoToken
<1>. QED  BY <1>1, <1>2, <1>3 DEF LockoutInv

LEMMA LockoutStep == TypeOK /\ LockoutInv /\ [Next]_vars => LockoutInv'
<1>. SUFFICES ASSUME TypeOK, LockoutInv, [Next]_vars PROVE LockoutInv'
  OBVIOUS
<1>m. ServerMoves /\ TypeOK'
  BY EveryStepMoves, TypeStep
<1>l. live \subseteq Token /\ live' \subseteq Token'
  BY <1>m DEF TypeOK
<1>. USE <1>m, <1>l, StrayIsASlot
<1>b. ASSUME NEW a \in Agent, \A b \in Agent \ {a} : /\ pc'[b] = pc[b] /\ mem'[b] = mem[b]
                                                    /\ got'[b] = got[b] /\ request'[b] = request[b],
             AgentIsAccounted(a)', FileIsAccounted'
      PROVE  LockoutInv'
  BY <1>b, AgentStays DEF LockoutInv
<1>1. ASSUME NEW s \in Slot, Redeem(s) PROVE LockoutInv'
  <2>1. request[s].kind = "register" /\ request'[s].stage \in {"issue", "failed"}
        /\ \A a \in Agent : a # s => request'[a] = request[a]
    <3>1. PICK g \in {"issue", "failed"} : request' = [request EXCEPT ![s] = [request[s] EXCEPT !.stage = g]]
      BY <1>1 DEF Redeem, Set
    <3>2. request[s].kind = "register" /\ request[s] \in Request
      BY <1>1 DEF Redeem, TypeOK
    <3>. QED  BY <3>1, <3>2 DEF TypeOK, Request
  <2>2. s \in Agent => pc[s] # "beat"
    BY <2>1 DEF LockoutInv, AgentIsAccounted
  <2>. QED  BY <1>1, <2>1, <2>2, ServedStays DEF Redeem
<1>2. ASSUME NEW s \in Slot, Authenticate(s) PROVE LockoutInv'
  <2>1. /\ request[s].kind = "beat" /\ request[s].stage = "sent"
        /\ request'[s].kind = "beat" /\ request'[s].stage \in {"known", "denied"}
        /\ request'[s].stage = "denied" => request[s].token \notin live
        /\ \A a \in Agent : a # s => request'[a] = request[a]
    <3>1. request[s].kind = "beat" /\ request[s].stage = "sent" /\ request[s] \in Request
      BY <1>2 DEF Authenticate, TypeOK
    <3>2. CASE request[s].token \in live
      <4>1. request' = [request EXCEPT ![s] = [request[s] EXCEPT !.stage = "known",
                                                                 !.runner = owner[request[s].token]]]
        BY <1>2, <3>2 DEF Authenticate, Set
      <4>. QED  BY <3>1, <4>1 DEF TypeOK, Request
    <3>3. CASE request[s].token \notin live
      <4>1. request' = [request EXCEPT ![s] = [request[s] EXCEPT !.stage = "denied"]]
        BY <1>2, <3>3 DEF Authenticate, Set
      <4>. QED  BY <3>1, <3>3, <4>1 DEF TypeOK, Request
    <3>. QED  BY <3>2, <3>3
  <2>2. s \in Agent /\ pc[s] = "beat" => request[s].token = mem[s]
    BY <2>1 DEF LockoutInv, AgentIsAccounted
  <2>. QED  BY <1>2, <2>1, <2>2, ServedStays DEF Authenticate
<1>3. ASSUME NEW s \in Slot, CheckAge(s) PROVE LockoutInv'
  <2>1. /\ request'[s].kind = request[s].kind /\ request'[s].stage \in {"issue", "answered"}
        /\ request'[s].stage = "answered" => request'[s].token = NoToken
        /\ \A a \in Agent : a # s => request'[a] = request[a]
    <3>1. \/ request' = [request EXCEPT ![s] = [request[s] EXCEPT !.stage = "issue"]]
          \/ request' = [request EXCEPT ![s] = [request[s] EXCEPT !.stage = "answered", !.token = NoToken]]
      BY <1>3 DEF CheckAge, Set
    <3>2. request[s] \in Request
      BY DEF TypeOK
    <3>3. \A a \in Agent : a # s => request'[a] = request[a]
      BY <3>1 DEF TypeOK
    <3>4. CASE request' = [request EXCEPT ![s] = [request[s] EXCEPT !.stage = "issue"]]
      BY <3>2, <3>3, <3>4 DEF TypeOK, Request
    <3>5. CASE request' = [request EXCEPT ![s] = [request[s] EXCEPT !.stage = "answered", !.token = NoToken]]
      BY <3>2, <3>3, <3>5 DEF TypeOK, Request
    <3>. QED  BY <3>1, <3>4, <3>5
  <2>2. s \in Agent /\ pc[s] = "beat" => request[s].kind = "beat"
    BY DEF LockoutInv, AgentIsAccounted
  <2>. QED  BY <1>3, <2>1, <2>2, ServedStays DEF CheckAge
<1>4. ASSUME NEW s \in Slot, Begin(s) PROVE LockoutInv'
  <2>1. /\ request'[s].kind = request[s].kind /\ request'[s].stage = "swap"
        /\ \A a \in Agent : a # s => request'[a] = request[a]
    BY <1>4 DEF Begin, Set, TypeOK, Request
  <2>2. s \in Agent /\ pc[s] = "beat" => request[s].kind = "beat"
    BY DEF LockoutInv, AgentIsAccounted
  <2>. QED  BY <1>4, <2>1, <2>2, ServedStays DEF Begin
<1>5. ASSUME NEW s \in Slot, Commit(s) PROVE LockoutInv'
  <2>1. /\ request'[s].kind = request[s].kind /\ request'[s].stage = "answered"
        /\ request'[s].token = made + 1
        /\ \A a \in Agent : a # s => request'[a] = request[a]
    BY <1>5 DEF Commit, Set, TypeOK, Request
  <2>2. s \in Agent /\ pc[s] = "beat" => request[s].kind = "beat"
    BY DEF LockoutInv, AgentIsAccounted
  <2>3. made + 1 \in live'
    BY <1>5 DEF Commit
  <2>. QED  BY <1>5, <2>1, <2>2, <2>3, ServedStays DEF Commit
<1>6. ASSUME NEW s \in Slot, IssueFails(s) PROVE LockoutInv'
  <2>1. /\ request'[s].kind = request[s].kind /\ request'[s].stage \in {"answered", "failed"}
        /\ request'[s].token = NoToken
        /\ \A a \in Agent : a # s => request'[a] = request[a]
    BY <1>6 DEF IssueFails, Set, TypeOK, Request
  <2>2. s \in Agent /\ pc[s] = "beat" => request[s].kind = "beat"
    BY DEF LockoutInv, AgentIsAccounted
  <2>. QED  BY <1>6, <2>1, <2>2, ServedStays DEF IssueFails
<1>7. CASE StrayEnds
  <2>1. \A a \in Agent : request'[a] = request[a]
    BY <1>7 DEF StrayEnds, Set, TypeOK
  <2>. QED  BY <1>7, <2>1, ServedStays DEF StrayEnds
<1>8. CASE UNCHANGED <<request, machineVars>>
  <2>1. FileIsAccounted'
    BY <1>8, FileStays DEF LockoutInv, machineVars
  <2>2. ASSUME NEW a \in Agent PROVE AgentIsAccounted(a)'
    BY <1>8, AgentStays DEF LockoutInv, machineVars
  <2>. QED  BY <2>1, <2>2 DEF LockoutInv
<1>9. ASSUME NEW a \in Agent, Remove(a) PROVE LockoutInv'
  <2>1. FileIsAccounted'
    BY <1>9, FileStays DEF LockoutInv, Remove, machineVars
  <2>2. ASSUME NEW b \in Agent PROVE AgentIsAccounted(b)'
    <3>1. removed' /\ pc'[b] = pc[b] /\ mem'[b] = mem[b] /\ got'[b] = got[b]
      BY <1>9 DEF Remove, machineVars
    <3>2. \/ request'[b] = request[b]
          \/ /\ request'[b].stage = "failed" /\ request'[b].kind = request[b].kind
      <4>1. request'[b] \in {request[b], [request[b] EXCEPT !.stage = "failed", !.since = NoToken]}
        BY <1>9 DEF Remove
      <4>2. request[b] \in Request
        BY DEF TypeOK
      <4>. QED  BY <4>1, <4>2 DEF Request
    <3>3. CASE request'[b] = request[b]
      BY <3>1, <3>3, AgentStays DEF LockoutInv
    <3>4. CASE request'[b].stage = "failed" /\ request'[b].kind = request[b].kind
      BY <3>1, <3>4 DEF LockoutInv, AgentIsAccounted, Accounted, Superseded, ServerMoves
    <3>. QED  BY <3>2, <3>3, <3>4
  <2>. QED  BY <2>1, <2>2 DEF LockoutInv
<1>10. ASSUME NEW a \in Agent, Start(a) PROVE LockoutInv'
  <2>1. FileIsAccounted'
    BY <1>10, FileStays DEF LockoutInv, Start
  <2>2. AgentIsAccounted(a)'
    <3>1. CASE file # NoToken
      <4>1. pc'[a] = "loop" /\ mem'[a] = file /\ got'[a] = {file} /\ UNCHANGED <<request, serverVars>>
        BY <1>10, <3>1 DEF Start, Go, TypeOK
      <4>2. request[a].stage = "none"
        BY <1>10 DEF Start, TypeOK
      <4>3. Accounted(file, {}) /\ \A u \in Token : u > file => u # file
        BY <3>1 DEF LockoutInv, FileIsAccounted, TypeOK, Token
      <4>. QED  BY <4>1, <4>2, <4>3 DEF AgentIsAccounted, Accounted, Superseded, Token, serverVars
    <3>2. CASE file = NoToken
      <4>1. pc'[a] = "enroll" /\ request'[a].stage = "sent"
        <5>1. pc'[a] = "enroll"
          BY <1>10, <3>2 DEF Start, Go, TypeOK
        <5>2. request'[a] = [NoRequest EXCEPT !.stage = "sent", !.kind = "register", !.runner = a]
          BY <1>10, <3>2 DEF Start, Set, TypeOK
        <5>. QED  BY <5>1, <5>2 DEF NoRequest
      <4>. QED  BY <4>1 DEF AgentIsAccounted
    <3>. QED  BY <3>1, <3>2
  <2>3. \A b \in Agent \ {a} : /\ pc'[b] = pc[b] /\ mem'[b] = mem[b]
                               /\ got'[b] = got[b] /\ request'[b] = request[b]
    BY <1>10 DEF Start, Go, Set, TypeOK
  <2>. QED  BY <1>b, <2>1, <2>2, <2>3
<1>11. ASSUME NEW a \in Agent, Beat(a) PROVE LockoutInv'
  <2>1. FileIsAccounted'
    BY <1>11, FileStays DEF LockoutInv, Beat
  <2>2. /\ pc'[a] = "beat" /\ UNCHANGED <<mem, got, serverVars>>
        /\ request'[a].stage = "sent" /\ request'[a].token = mem[a] /\ request'[a].kind = "beat"
    BY <1>11 DEF Beat, Go, Set, TypeOK, NoRequest
  <2>3. Accounted(mem[a], got[a])
    BY <1>11 DEF Beat, LockoutInv, AgentIsAccounted
  <2>4. AgentIsAccounted(a)'
    BY <2>2, <2>3 DEF AgentIsAccounted, Accounted, Superseded, Token, serverVars
  <2>5. \A b \in Agent \ {a} : /\ pc'[b] = pc[b] /\ mem'[b] = mem[b]
                               /\ got'[b] = got[b] /\ request'[b] = request[b]
    BY <1>11 DEF Beat, Go, Set, TypeOK
  <2>. QED  BY <1>b, <2>1, <2>4, <2>5
<1>12. ASSUME NEW a \in Agent, ReceiveToken(a) PROVE LockoutInv'
  <2>1. FileIsAccounted'
    BY <1>12, FileStays DEF LockoutInv, ReceiveToken
  <2>. DEFINE t == request[a].token
  <2>2. Accounted(t, got[a]) /\ \A u \in Token : u > t => u # t
    BY <1>12 DEF ReceiveToken, LockoutInv, AgentIsAccounted, Accounted, Token, TypeOK
  <2>3. pc'[a] \in {"keep", "persist"} /\ mem'[a] = t /\ got'[a] = got[a] \cup {t}
        /\ request'[a].stage = "none" /\ UNCHANGED serverVars
    BY <1>12, NoneIsSound DEF ReceiveToken, Received, Go, Set, TypeOK
  <2>4. AgentIsAccounted(a)'
    BY <2>2, <2>3 DEF AgentIsAccounted, Accounted, Superseded, Token, serverVars
  <2>5. \A b \in Agent \ {a} : /\ pc'[b] = pc[b] /\ mem'[b] = mem[b]
                               /\ got'[b] = got[b] /\ request'[b] = request[b]
    BY <1>12 DEF ReceiveToken, Received, Go, Set, TypeOK
  <2>. QED  BY <1>b, <2>1, <2>4, <2>5
<1>13. ASSUME NEW a \in Agent, ReceiveNone(a) PROVE LockoutInv'
  <2>1. FileIsAccounted'
    BY <1>13, FileStays DEF LockoutInv, ReceiveNone
  <2>2. request'[a].stage = "none" /\ UNCHANGED <<mem, got, serverVars>> /\ pc[a] \in {"enroll", "beat"}
    BY <1>13, NoneIsSound DEF ReceiveNone, Set, TypeOK
  <2>3. CASE pc[a] = "enroll"
    <3>1. pc'[a] = "down"
      BY <1>13, <2>3 DEF ReceiveNone, Go, TypeOK
    <3>2. AgentIsAccounted(a)'
      BY <2>2, <3>1 DEF AgentIsAccounted
    <3>. QED  BY <2>1, <3>2, <1>13, <1>b DEF ReceiveNone, Go, Set, TypeOK
  <2>4. CASE pc[a] = "beat"
    <3>1. Accounted(mem[a], got[a]) /\ (request[a].stage = "denied" => mem[a] \notin live)
      BY <2>4 DEF LockoutInv, AgentIsAccounted
    <3>2. (pc'[a] = "refused" /\ mem[a] \notin live) \/ pc'[a] = "loop"
      BY <1>13, <2>4, <3>1 DEF ReceiveNone, Go, TypeOK
    <3>3. AgentIsAccounted(a)'
      BY <2>2, <3>1, <3>2 DEF AgentIsAccounted, Accounted, Superseded, Token, serverVars
    <3>. QED  BY <2>1, <3>3, <1>13, <1>b DEF ReceiveNone, Go, Set, TypeOK
  <2>. QED  BY <2>2, <2>3, <2>4
<1>14. ASSUME NEW a \in Agent, Persist(a) PROVE LockoutInv'
  <2>1. Accounted(mem[a], got[a]) /\ request[a].stage = "none" /\ UNCHANGED <<mem, got, request, serverVars>>
        /\ file' = mem[a] /\ pc'[a] = "loop"
    BY <1>14 DEF Persist, Go, TypeOK, LockoutInv, AgentIsAccounted
  <2>2. FileIsAccounted' /\ AgentIsAccounted(a)'
    BY <2>1 DEF FileIsAccounted, AgentIsAccounted, Accounted, Superseded, Token, serverVars
  <2>. QED  BY <2>2, <1>14, <1>b DEF Persist, Go, TypeOK
<1>15. ASSUME NEW a \in Agent, PersistFails(a) PROVE LockoutInv'
  <2>1. Accounted(mem[a], got[a]) /\ request[a].stage = "none"
        /\ UNCHANGED <<mem, got, request, serverVars>> /\ pc'[a] \in {"down", "loop"}
        /\ file' \in {file, NoToken, mem[a]}
    BY <1>15 DEF PersistFails, HalfStored, Go, TypeOK, LockoutInv, AgentIsAccounted
  <2>2. FileIsAccounted' /\ AgentIsAccounted(a)'
    BY <2>1 DEF LockoutInv, FileIsAccounted, AgentIsAccounted, Accounted, Superseded, Token,
           serverVars
  <2>. QED  BY <2>2, <1>15, <1>b DEF PersistFails, Go, TypeOK
<1>16. ASSUME NEW a \in Agent, Abandon(a)
       PROVE request'[a].stage = "none" /\ \A b \in Agent \ {a} : request'[b] = request[b]
  BY <1>16, NoneIsSound DEF Abandon, Set, TypeOK
<1>17. ASSUME NEW a \in Agent, GiveUp(a) PROVE LockoutInv'
  <2>1. FileIsAccounted'
    BY <1>17, FileStays DEF LockoutInv, GiveUp
  <2>2. AgentIsAccounted(a)'
    <3>1. request'[a].stage = "none" /\ UNCHANGED <<mem, got, serverVars>>
          /\ (pc'[a] = "down" \/ (pc[a] = "beat" /\ pc'[a] = "loop"))
      <4>1. request'[a].stage = "none" /\ UNCHANGED <<mem, got, serverVars>>
        BY <1>16, <1>17 DEF GiveUp
      <4>2. pc'[a] = "down" \/ (pc[a] = "beat" /\ pc'[a] = "loop")
        <5>1. CASE pc[a] = "enroll"
          BY <1>17, <5>1 DEF GiveUp, Go, TypeOK
        <5>2. CASE pc[a] = "beat"
          BY <1>17, <5>2 DEF GiveUp, Go, TypeOK
        <5>. QED  BY <1>17, <5>1, <5>2 DEF GiveUp
      <4>. QED  BY <4>1, <4>2
    <3>2. pc[a] = "beat" => Accounted(mem[a], got[a])
      BY DEF LockoutInv, AgentIsAccounted
    <3>. QED  BY <3>1, <3>2 DEF AgentIsAccounted, Accounted, Superseded, Token, serverVars
  <2>. QED  BY <2>1, <2>2, <1>16, <1>17, <1>b DEF GiveUp, Go, TypeOK
<1>18. ASSUME NEW a \in Agent, Crash(a) PROVE LockoutInv'
  <2>1. pc'[a] = "down" /\ UNCHANGED <<mem, got, serverVars>>
        /\ \A b \in Agent \ {a} : pc'[b] = pc[b]
    BY <1>18 DEF Crash, Go, TypeOK
  <2>2. request'[a].stage = "none" /\ \A b \in Agent \ {a} : request'[b] = request[b]
    <3>1. CASE Abandon(a)
      BY <1>16, <3>1
    <3>2. CASE pc[a] \notin {"enroll", "beat"} /\ UNCHANGED request
      BY <3>2 DEF TypeOK
    <3>. QED  BY <1>18, <3>1, <3>2 DEF Crash
  <2>3. FileIsAccounted'
    <3>1. file' \in {file, NoToken} \/ (pc[a] \in {"keep", "persist"} /\ file' = mem[a])
      BY <1>18 DEF Crash, HalfStored
    <3>2. pc[a] \in {"keep", "persist"} => Accounted(mem[a], {})
      BY DEF LockoutInv, AgentIsAccounted, Accounted, Superseded
    <3>. QED
      BY <2>1, <3>1, <3>2
      DEF LockoutInv, FileIsAccounted, Accounted, Superseded, Token, serverVars
  <2>4. AgentIsAccounted(a)'
    BY <2>1, <2>2 DEF AgentIsAccounted
  <2>. QED  BY <2>1, <2>2, <2>3, <2>4, <1>b
<1>19. CASE Age
  BY <1>8, <1>19 DEF Age
<1>20. CASE UNCHANGED vars
  BY <1>8, <1>20 DEF vars
<1>. QED
  BY <1>1, <1>2, <1>3, <1>4, <1>5, <1>6, <1>7, <1>9, <1>10, <1>11, <1>12, <1>13, <1>14,
     <1>15, <1>17, <1>18, <1>19, <1>20 DEF Next, Serve, Report

\* An agent is switched off only if its runner was removed or a later credential
\* of that runner exists which it was never given.
THEOREM LockoutHasCauseHolds == Spec => []LockoutHasCause
<1>1. Init => LockoutInv
  BY NoneIsSound, StrayIsASlot DEF Init, LockoutInv, FileIsAccounted, AgentIsAccounted
<1>2. LockoutInv => LockoutHasCause
  BY DEF LockoutInv, AgentIsAccounted, Superseded, LockoutHasCause
<1>. QED  BY <1>1, <1>2, LockoutStep, TypeCorrect, PTL DEF Spec

-----------------------------------------------------------------------------
(* Two credentials of a runner are live only after an overlap.             *)

LEMMA FewerAreFewer ==
  ASSUME NEW n \in Nat, NEW T \in SUBSET (1 .. n), NEW S \in SUBSET T
  PROVE  Cardinality(S) \in Nat /\ Cardinality(T) \in Nat /\ Cardinality(S) <= Cardinality(T)
<1>1. IsFiniteSet(T)
  <2>1. 1 \in Int /\ n \in Int
    OBVIOUS
  <2>2. IsFiniteSet(1 .. n)
    BY <2>1, FS_Interval, Zenon
  <2>. QED  BY <2>2, FS_Subset
<1>. QED  BY <1>1, FS_Subset, FS_CardinalityType

LEMMA OverlapStep ==
  ASSUME TypeOK, [Next]_vars, NEW r \in Agent,
         Cardinality(Of(r)) <= 1, Cardinality(Of(r)') > 1
  PROVE  \E s \in Slot : /\ request[s].stage = "swap" /\ request[s].runner = r
                         /\ \E t \in Of(r) : t > request[s].since
<1>1. made \in Nat /\ Of(r) \subseteq 1 .. made /\ made' \in Nat
  <2>1. TypeOK'
    BY TypeStep
  <2>2. made \in Nat /\ made' \in Nat
    BY <2>1, CredentialAssumption DEF TypeOK
  <2>. QED  BY <2>2 DEF TypeOK, Of, Token
<1>2. ~(Of(r)' \subseteq Of(r))
  <2>1. ASSUME Of(r)' \subseteq Of(r) PROVE Cardinality(Of(r)') <= Cardinality(Of(r))
    BY <1>1, <2>1, FewerAreFewer
  <2>2. Of(r)' \subseteq Of(r) => Cardinality(Of(r)) \in Nat /\ Cardinality(Of(r)') \in Nat
    BY <1>1, FewerAreFewer
  <2>. QED  BY <2>1, <2>2
<1>3. PICK s \in Slot : Commit(s)
  <2>1. \/ \E s \in Slot : Commit(s)
        \/ \E a \in Agent : Remove(a)
        \/ UNCHANGED <<live, owner>>
    BY DEF Next, vars, serverVars, Serve, Report, Redeem, Authenticate, CheckAge, Begin,
           IssueFails,
           Age, StrayEnds, Start, Beat, ReceiveToken, ReceiveNone, GiveUp, Persist, PersistFails, Crash
  <2>2. ASSUME NEW a \in Agent, Remove(a) PROVE FALSE
    BY <1>2, <2>2 DEF Remove, Of
  <2>. QED  BY <1>2, <2>1, <2>2 DEF Of
<1>4. /\ request[s].stage = "swap" /\ made' = made + 1
      /\ live' = (live \ Revoked(request[s])) \cup {made + 1}
      /\ \A t \in Token : owner'[t] = owner[t]
      /\ owner'[made + 1] = request[s].runner
  BY <1>1, <1>3 DEF Commit, Token
<1>5. request[s].runner = r
  BY <1>2, <1>4 DEF Of, TypeOK
<1>6. \E t \in Of(r) : t > request[s].since
  <2>1. SUFFICES ASSUME \A t \in Of(r) : ~(t > request[s].since) PROVE FALSE
    OBVIOUS
  <2>2. request[s].since \in Nat
    BY DEF TypeOK, Request
  <2>3. Revoked(request[s]) = Of(r)
    BY <1>1, <1>5, <2>1, <2>2 DEF Revoked
  <2>4. Of(r)' \subseteq {made + 1}
    BY <1>4, <2>3 DEF Of, TypeOK
  <2>5. Cardinality({made + 1}) = 1 /\ IsFiniteSet({made + 1})
    BY FS_Singleton
  <2>6. Cardinality(Of(r)') <= 1
    BY <2>4, <2>5, FS_Subset
  <2>7. IsFiniteSet(Of(r)')
    BY <2>4, <2>5, FS_Subset
  <2>. QED  BY <2>6, <2>7, FS_CardinalityType
<1>. QED  BY <1>4, <1>5, <1>6

\* A second live credential of a runner appears only when one is committed by a
\* request whose snapshot is older than a live one: the reissue and the
\* revocation are one step for everybody else.
THEOREM TwoLiveOnlyByOverlapHolds == Spec => TwoLiveOnlyByOverlap
<1>1. TypeOK /\ [Next]_vars =>
        [\A r \in Agent :
            Cardinality(Of(r)) <= 1 /\ Cardinality(Of(r)') > 1 =>
              \E s \in Slot : /\ request[s].stage = "swap" /\ request[s].runner = r
                              /\ \E t \in Of(r) : t > request[s].since]_vars
  BY OverlapStep
<1>. QED  BY <1>1, TypeCorrect, PTL DEF Spec, TwoLiveOnlyByOverlap
=============================================================================
