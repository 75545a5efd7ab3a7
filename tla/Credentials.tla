---------------------------- MODULE Credentials ----------------------------
(***************************************************************************)
(* Machine credentials: issued on enrollment, rotated on a heartbeat, kept *)
(* in one file per machine (internal/store/tokens.go, internal/server,     *)
(* internal/agent/enroll.go and report.go, internal/auth).                 *)
(*                                                                         *)
(* An agent resolves a credential from the file, or trades an enrollment   *)
(* token for one; the client uses a replacement as soon as the answer to a *)
(* heartbeat brings it, and the agent then writes it to the file.  The     *)
(* agents of one machine share the file, which has one entry per server.   *)
(* On the server a request is a few statements, with other requests in     *)
(* between; IssueMachineToken is a transaction at READ COMMITTED whose     *)
(* UPDATE revokes the tokens its snapshot shows and whose INSERT others    *)
(* see at COMMIT.  The locks it holds in between make the rest atomic.     *)
(*                                                                         *)
(* Tokens are numbered in the order they are committed.                    *)
(***************************************************************************)
EXTENDS Naturals, FiniteSets

CONSTANTS
    Agent,          \* the agents of one machine, one per runner
    MaxUses,        \* max_uses of the enrollment token they were given
    MaxTokens,      \* bound on credentials issued
    MaxStarts,      \* bound on starts, over all agents
    MaxStray        \* 1 if a request may outlive the agent's interest in it

ASSUME CredentialAssumption ==
    /\ "stray" \notin Agent
    /\ MaxUses \in Nat
    /\ MaxTokens \in Nat
    /\ MaxStarts \in Nat
    /\ MaxStray \in {0, 1}

\* An agent has at most one request of its own; the slot "stray" is a request
\* whose agent stopped waiting for it.
Slot == Agent \cup {"stray"}

NoToken == 0

VARIABLES
    \* the server
    made,       \* tokens committed so far
    owner,      \* the runner each belongs to
    live,       \* the tokens that are not revoked
    old,        \* tokens 1 .. old are past their lifetime
    uses,       \* enrollment_tokens.uses
    removed,    \* an operator has removed a runner
    request,    \* what each request is doing
    \* the machine
    file,       \* credentials.yaml
    pc, mem,    \* of each agent: where it is, and the token its client sends
    starts,
    \* history
    got         \* the tokens each agent has had since it started

serverVars  == <<made, owner, live, old, uses, removed>>
machineVars == <<file, pc, mem, starts, got>>
vars == <<serverVars, request, machineVars>>

Token == 1 .. made

\* enroll: waiting for the answer to Register.  keep: writing that token.
\* loop: the reporter's select.  beat: waiting for a heartbeat.  persist:
\* writing a rotated token.  refused: the runner runs, reporting has ended.
Points == {"down", "enroll", "keep", "loop", "beat", "persist", "refused"}

\* sent: on its way.  known: authenticated.  issue: a token is due.  swap: the
\* snapshot of the UPDATE is taken, COMMIT is not done.  Then its answer.
Stages == {"none", "sent", "known", "issue", "swap", "answered", "denied", "failed"}

NoRequest == [stage |-> "none", kind |-> "beat", runner |-> NoToken, token |-> NoToken, since |-> NoToken]

\* runner is whose request it is: before it is authenticated nobody's, unless
\* it registers.  token is the one it sends, then the one it brings back.  since
\* is the last token committed when the snapshot was taken.
Request ==
    [stage : Stages, kind : {"register", "beat"}, runner : Agent \cup {NoToken},
     token : Nat, since : Nat]

\* A request names a credential that exists, and past authentication a runner.
Sound(r) ==
    /\ r \in Request
    /\ r.token <= made /\ r.since <= made
    /\ r.kind = "register" \/ r.stage \in {"known", "issue", "swap"} => r.runner \in Agent

\* Requests and files name only credentials that were issued.
TypeOK ==
    /\ made \in 0 .. MaxTokens
    /\ owner \in [Token -> Agent]
    /\ live \subseteq Token
    /\ old \in 0 .. made
    /\ uses \in 0 .. MaxUses
    /\ removed \in BOOLEAN
    /\ request \in [Slot -> Request]
    /\ \A s \in Slot : Sound(request[s])
    /\ file \in 0 .. made
    /\ pc \in [Agent -> Points]
    /\ mem \in [Agent -> 0 .. made]
    /\ starts \in 0 .. MaxStarts
    /\ got \in [Agent -> SUBSET Token]
    /\ \A a \in Agent : request[a].stage # "none" => pc[a] \in {"enroll", "beat"}

Init ==
    /\ made = 0
    /\ owner = [t \in Token |-> NoToken]
    /\ live = {}
    /\ old = 0
    /\ uses = 0
    /\ removed = FALSE
    /\ request = [s \in Slot |-> NoRequest]
    /\ file = NoToken
    /\ pc = [a \in Agent |-> "down"]
    /\ mem = [a \in Agent |-> NoToken]
    /\ starts = 0
    /\ got = [a \in Agent |-> {}]

Of(runner) == {t \in live : owner[t] = runner}

-----------------------------------------------------------------------------
(* The server *)

\* Requests that are past authentication write under a runner's id.
Set(s, change) == request' = [request EXCEPT ![s] = change]

RedeemableOnceMore == uses <= MaxUses

\* The WHERE clause of RedeemEnrollmentToken.
Redeemable == uses < MaxUses

\* RedeemEnrollmentToken, one statement, then UpsertRunner.  A request that
\* fails later has used the token up all the same.
Redeem(s) ==
    LET r == request[s] IN
    /\ r.stage = "sent" /\ r.kind = "register"
    /\ IF Redeemable
       THEN uses' = uses + 1 /\ Set(s, [r EXCEPT !.stage = "issue"])
       ELSE uses' = uses /\ Set(s, [r EXCEPT !.stage = "failed"])
    /\ UNCHANGED <<made, owner, live, old, removed, machineVars>>

\* requireMachine.  The token says which runner the request is about.
Authenticate(s) ==
    LET r == request[s] IN
    /\ r.stage = "sent" /\ r.kind = "beat"
    /\ IF r.token \in live
       THEN Set(s, [r EXCEPT !.stage = "known", !.runner = owner[r.token]])
       ELSE Set(s, [r EXCEPT !.stage = "denied"])
    /\ UNCHANGED <<serverVars, machineVars>>

DueWhileYoung(runner) == Of(runner) # {} /\ \A t \in Of(runner) : t > old

\* Whether the runner's newest live token is past its lifetime; then all are.
Due(runner) == Of(runner) # {} /\ \A t \in Of(runner) : t <= old

\* RotateMachineTokenIfOld, up to the transaction.
CheckAge(s) ==
    LET r == request[s] IN
    /\ r.stage = "known"
    /\ IF Due(r.runner)
       THEN Set(s, [r EXCEPT !.stage = "issue"])
       ELSE Set(s, [r EXCEPT !.stage = "answered", !.token = NoToken])
    /\ UNCHANGED <<serverVars, machineVars>>

RevokedNone(r) == {}

\* The rows the UPDATE of IssueMachineToken revokes: the live ones its snapshot
\* shows, which are not those committed since.
Revoked(r) == {t \in Of(r.runner) : t <= r.since}

Begin(s) ==
    LET r == request[s] IN
    /\ r.stage = "issue"
    /\ made < MaxTokens
    /\ Set(s, [r EXCEPT !.stage = "swap", !.since = made])
    /\ UNCHANGED <<serverVars, machineVars>>

Commit(s) ==
    LET r == request[s] IN
    /\ r.stage = "swap"
    /\ made < MaxTokens
    /\ made' = made + 1
    /\ owner' = [t \in 1 .. made + 1 |-> IF t \in Token THEN owner[t] ELSE r.runner]
    /\ live' = (live \ Revoked(r)) \cup {made + 1}
    /\ Set(s, [r EXCEPT !.stage = "answered", !.token = made + 1, !.since = NoToken])
    /\ UNCHANGED <<old, uses, removed, machineVars>>

\* A statement fails, and nothing is issued.  A heartbeat is answered all the
\* same, a registration is not.
IssueFails(s) ==
    LET r == request[s] IN
    /\ r.stage \in {"issue", "swap"}
    /\ Set(s, [r EXCEPT !.stage = IF r.kind = "beat" THEN "answered" ELSE "failed",
                        !.token = NoToken, !.since = NoToken])
    /\ UNCHANGED <<serverVars, machineVars>>

\* DeleteRunner takes the tokens along; what still runs under its id fails.
Remove(runner) ==
    /\ ~removed /\ Of(runner) # {}
    /\ removed' = TRUE
    /\ live' = live \ Of(runner)
    /\ request' = [s \in Slot |->
          IF request[s].stage \in {"known", "issue", "swap"} /\ request[s].runner = runner
          THEN [request[s] EXCEPT !.stage = "failed", !.since = NoToken]
          ELSE request[s]]
    /\ UNCHANGED <<made, owner, old, uses, machineVars>>

Age ==
    /\ \E t \in live : t > old /\ old' = t
    /\ UNCHANGED <<made, owner, live, uses, removed, request, machineVars>>

\* The answer to an abandoned request goes nowhere.
StrayEnds ==
    /\ request["stray"].stage \in {"answered", "denied", "failed"}
    /\ Set("stray", NoRequest)
    /\ UNCHANGED <<serverVars, machineVars>>

-----------------------------------------------------------------------------
(* The agents *)

Go(a, point) == pc' = [pc EXCEPT ![a] = point]

\* Enroll: what is in the file is used, whether or not the server still takes
\* it; only a machine without an entry registers.
Start(a) ==
    /\ pc[a] = "down" /\ starts < MaxStarts
    /\ starts' = starts + 1
    /\ mem' = [mem EXCEPT ![a] = file]
    /\ got' = [got EXCEPT ![a] = {file} \ {NoToken}]
    /\ IF file # NoToken
       THEN Go(a, "loop") /\ UNCHANGED request
       ELSE /\ Go(a, "enroll")
            /\ Set(a, [NoRequest EXCEPT !.stage = "sent", !.kind = "register", !.runner = a])
    /\ UNCHANGED <<serverVars, file>>

Beat(a) ==
    /\ pc[a] = "loop"
    /\ Go(a, "beat")
    /\ Set(a, [NoRequest EXCEPT !.stage = "sent", !.token = mem[a]])
    /\ UNCHANGED <<serverVars, file, mem, starts, got>>

ReceivedForLater(a, t) == IF pc[a] = "enroll" THEN [mem EXCEPT ![a] = t] ELSE mem

\* Client.Heartbeat: the replacement is in use before it is written down.
Received(a, t) == [mem EXCEPT ![a] = t]

\* The answer brings a token.
ReceiveToken(a) ==
    LET r == request[a] IN
    /\ r.stage = "answered" /\ r.token # NoToken
    /\ mem' = Received(a, r.token)
    /\ got' = [got EXCEPT ![a] = @ \cup {r.token}]
    /\ Go(a, IF pc[a] = "enroll" THEN "keep" ELSE "persist")
    /\ Set(a, NoRequest)
    /\ UNCHANGED <<serverVars, file, starts>>

\* It brings none: the next tick, the end of reporting, or, for an agent that
\* could not enroll, the end.
ReceiveNone(a) ==
    LET r == request[a] IN
    /\ r.stage \in {"answered", "denied", "failed"} /\ ~(r.stage = "answered" /\ r.token # NoToken)
    /\ \/ pc[a] = "enroll" /\ Go(a, "down")
       \/ pc[a] = "beat" /\ r.stage = "denied" /\ Go(a, "refused")
       \/ pc[a] = "beat" /\ r.stage # "denied" /\ Go(a, "loop")
    /\ Set(a, NoRequest)
    /\ UNCHANGED <<serverVars, file, mem, starts, got>>

\* A request that never arrives, or whose answer is lost, or that goes on at
\* the server when nobody waits for it.
Abandon(a) ==
    \/ Set(a, NoRequest)
    \/ /\ MaxStray > 0
       /\ request["stray"].stage = "none"
       /\ request[a].stage \in Stages \ {"none", "answered", "denied", "failed"}
       /\ request' = [request EXCEPT !["stray"] = request[a], ![a] = NoRequest]

\* Timeout.
GiveUp(a) ==
    /\ pc[a] \in {"enroll", "beat"}
    /\ Abandon(a)
    /\ Go(a, IF pc[a] = "enroll" THEN "down" ELSE "loop")
    /\ UNCHANGED <<serverVars, file, mem, starts, got>>

\* StoreMachine.
Persist(a) ==
    /\ pc[a] \in {"keep", "persist"}
    /\ file' = mem[a]
    /\ Go(a, "loop")
    /\ UNCHANGED <<serverVars, request, mem, starts, got>>

\* What StoreMachine may leave when it fails or the agent dies in it: os.WriteFile
\* truncates, then writes, then closes.  A file cut short holds no entry.
HalfStored(a) == {file, NoToken, mem[a]}

\* It fails: fatal for an enrollment, a warning for a rotation.
PersistFails(a) ==
    /\ pc[a] \in {"keep", "persist"}
    /\ file' \in HalfStored(a)
    /\ Go(a, IF pc[a] = "keep" THEN "down" ELSE "loop")
    /\ UNCHANGED <<serverVars, request, mem, starts, got>>

\* The agent dies, perhaps while it writes the file.
Crash(a) ==
    /\ pc[a] # "down"
    /\ Go(a, "down")
    /\ file' \in (IF pc[a] \in {"keep", "persist"} THEN HalfStored(a) ELSE {file})
    /\ IF pc[a] \in {"enroll", "beat"} THEN Abandon(a) ELSE UNCHANGED request
    /\ UNCHANGED <<serverVars, mem, starts, got>>

-----------------------------------------------------------------------------
Serve(s) ==
    \/ Redeem(s) \/ Authenticate(s) \/ CheckAge(s) \/ Begin(s) \/ Commit(s) \/ IssueFails(s)

Report(a) == Beat(a) \/ ReceiveToken(a) \/ ReceiveNone(a) \/ Persist(a) \/ PersistFails(a)

Next ==
    \/ \E s \in Slot : Serve(s)
    \/ \E a \in Agent : Start(a) \/ Report(a) \/ GiveUp(a) \/ Crash(a) \/ Remove(a)
    \/ Age \/ StrayEnds

Spec == Init /\ [][Next]_vars

\* The reporter's loop turns, time passes, and the network and the database do
\* not fail for ever.
FairSpec ==
    /\ Spec
    /\ WF_vars(Age)
    /\ \A a \in Agent : /\ WF_vars(Report(a))
                       /\ SF_vars(Authenticate(a)) /\ SF_vars(CheckAge(a))
                       /\ SF_vars(Begin(a)) /\ SF_vars(Commit(a))

-----------------------------------------------------------------------------
(* Properties *)

\* Reporting ends only for a reason the operator can look for: the runner was
\* removed, or a replacement was issued that this agent never received, because
\* an answer was lost, a write was, or another agent took it.  An agent that
\* receives every answer is never locked out.
LockoutHasCause ==
    \A a \in Agent : pc[a] = "refused" =>
        \/ removed
        \/ \E t \in Token \ got[a] : t > mem[a] /\ owner[t] = owner[mem[a]]

\* tokens.go: "there is never a moment with two live credentials or none".  Two
\* credentials of a runner are live only if one was committed between the
\* snapshot and the commit of another.
TwoLiveOnlyByOverlap ==
    [][\A r \in Agent :
          Cardinality(Of(r)) <= 1 /\ Cardinality(Of(r)') > 1 =>
              \E s \in Slot : /\ request[s].stage = "swap" /\ request[s].runner = r
                              /\ \E t \in Of(r) : t > request[s].since]_vars

\* A credential an agent goes on using past its lifetime is revoked in the end
\* (unless the bound on credentials is reached first).
OldIsRevoked ==
    \A a \in Agent, t \in 1 .. MaxTokens :
        (pc[a] = "loop" /\ mem[a] = t /\ t <= old /\ t \in live)
            ~> (t \notin live \/ pc[a] = "down" \/ made = MaxTokens)
=============================================================================
