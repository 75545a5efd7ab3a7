------------------------------- MODULE Server -------------------------------
(***************************************************************************)
(* What the server's processes serve on their way up and down: sign-ins    *)
(* and sessions (internal/server/oauth.go, auth.go, internal/store/        *)
(* users.go), enrollment tokens (api.go, internal/cli/server.go) and the   *)
(* enrollment of machines (agent.go).  A handler is a few statements; any  *)
(* of them may fail, and any process may die between two.                  *)
(*                                                                         *)
(* A person is his browser.  A sign-in is numbered, and its number stands  *)
(* for the state value, the code, and the session it may lead to.  What a  *)
(* machine does with its credential is in Credentials.                     *)
(***************************************************************************)
EXTENDS Migrations

CONSTANTS
    Browser,
    Machine,
    Token,          \* enrollment tokens
    MaxUses,        \* of each
    MaxBegun        \* bound on processes, sign-ins and enrollments together

None == 0

ASSUME ServerAssumption ==
    MaxUses \in Nat \ {0} /\ MaxBegun \in Nat /\ None \notin Token

VARIABLES
    starter,    \* the browser that began each sign-in
    codes,      \* sign-ins authorised at GitHub whose code was not exchanged
    jar,        \* cookies: a sign-in's state, a session
    callback,   \* the callback each browser waits for
    sessions,   \* rows of sessions, not expired
    token,      \* rows of enrollment_tokens
    requests,   \* enrollments under way
    enrolled,   \* the token each machine got the credential in its file for
    attempts,   \* to enroll
    \* history
    issued,     \* credentials issued for each token
    wasted      \* uses of each token that led to none

signInVars == <<starter, codes, jar, callback, sessions>>
enrollVars == <<token, requests, enrolled, attempts, issued, wasted>>
vars == <<processVars, schemaVars, signInVars, enrollVars>>

SignIns == 1 .. MaxBegun
NoCallback == [step |-> "none"]
Callbacks == [step : {"exchange", "session", "granted", "refused"}, of : SignIns, at : Process]
Requests == [number : 1 .. MaxBegun, from : Machine, with : Token,
             step : {"redeem", "issue", "answer"}, at : Process, heard : BOOLEAN]

SignInTypeOK ==
    /\ starter \in Seq(Browser) /\ Len(starter) <= MaxBegun
    /\ codes \subseteq DOMAIN starter
    /\ jar \in [Browser -> [state : 0 .. Len(starter), session : 0 .. Len(starter)]]
    /\ callback \in [Browser -> Callbacks \cup {NoCallback}]
    /\ sessions \subseteq DOMAIN starter

EnrollTypeOK ==
    /\ token \in [Token -> [status : {"none", "usable", "dead"}, uses : 0 .. MaxUses]]
    /\ requests \subseteq Requests
    /\ enrolled \in [Machine -> Token \cup {None}]
    /\ attempts \in 0 .. MaxBegun
    /\ issued \in [Token -> Nat]
    /\ wasted \in [Token -> Nat]

\* A process that is not there answers nobody.
NobodyWaitsInVain ==
    /\ \A b \in Browser : callback[b] # NoCallback => stage[callback[b].at] # "down"
    /\ \A r \in requests : stage[r.at] # "down"

\* Nobody's cookie, code or credential is of a sign-in or a token that never was.
TypeOK == MigrationsTypeOK /\ SignInTypeOK /\ EnrollTypeOK /\ NobodyWaitsInVain

Init ==
    /\ MigrationsInit
    /\ starter = <<>>
    /\ codes = {}
    /\ jar = [b \in Browser |-> [state |-> None, session |-> None]]
    /\ callback = [b \in Browser |-> NoCallback]
    /\ sessions = {}
    /\ token = [t \in Token |-> [status |-> "none", uses |-> 0]]
    /\ requests = {}
    /\ enrolled = [m \in Machine |-> None]
    /\ attempts = 0
    /\ issued = [t \in Token |-> 0]
    /\ wasted = [t \in Token |-> 0]

\* Something more may begin.
Bounded == starts + Len(starter) + attempts < MaxBegun

\* A new request is accepted.
Accepts(p) == stage[p] = "serving"

\* A statement finds its table.
Works(p) == stage[p] \in {"serving", "stopping"} /\ Fits(p)

-----------------------------------------------------------------------------
(* Signing in.                                                             *)

\* GET /auth/github: the state goes into a cookie, and nowhere else.  One that
\* another tab has set is overwritten.
AuthStart(b, p) ==
    /\ Accepts(p)
    /\ Bounded
    /\ starter' = Append(starter, b)
    /\ jar' = [jar EXCEPT ![b].state = Len(starter')]
    /\ UNCHANGED <<processVars, schemaVars, codes, callback, sessions, enrollVars>>

\* The person says yes to GitHub, and may say it again on the same page: the
\* number then stands for both.  Who says no is sent back with an error, which the
\* callback reports and which changes nothing.
Authorize(n) ==
    /\ n \in DOMAIN starter \ codes
    /\ codes' = codes \cup {n}
    /\ UNCHANGED <<processVars, schemaVars, starter, jar, callback, sessions, enrollVars>>

\* The cookie lasts for ten minutes.
StateExpires(b) ==
    /\ jar[b].state # None
    /\ jar' = [jar EXCEPT ![b].state = None]
    /\ UNCHANGED <<processVars, schemaVars, starter, codes, callback, sessions, enrollVars>>

\* Mutant of StartedHere: any sign-in that was started here will do.
StartedSome(b, n) == jar[b].state # None

\* The state that comes back is the one in the cookie.
StartedHere(b, n) == jar[b].state = n

\* The callback's address is opened, in whichever browser, and as often as its
\* owner likes.  A callback that is refused at once changes nothing.
AuthCallback(b, n, p) ==
    /\ Accepts(p)
    /\ n \in DOMAIN starter
    /\ callback[b] = NoCallback
    /\ StartedHere(b, n)
    /\ callback' = [callback EXCEPT ![b] = [step |-> "exchange", of |-> n, at |-> p]]
    /\ UNCHANGED <<processVars, schemaVars, starter, codes, jar, sessions, enrollVars>>

Proceeds(b, s) == callback' = [callback EXCEPT ![b].step = s]

\* GitHub takes a code once, says whose it is, and the login is allowed.
ExchangeCode(b) ==
    /\ callback[b].step = "exchange"
    /\ callback[b].of \in codes
    /\ codes' = codes \ {callback[b].of}
    /\ Proceeds(b, "session")
    /\ UNCHANGED <<processVars, schemaVars, starter, jar, sessions, enrollVars>>

\* UpsertUser, CreateSession.
CreateSession(b) ==
    /\ callback[b].step = "session"
    /\ Works(callback[b].at)
    /\ sessions' = sessions \cup {callback[b].of}
    /\ Proceeds(b, "granted")
    /\ UNCHANGED <<processVars, schemaVars, starter, codes, jar, enrollVars>>

\* GitHub refuses the code, or took it and does not say whose it is; the login is
\* not allowed; a statement fails.
CallbackFails(b) ==
    /\ callback[b].step \in {"exchange", "session"}
    /\ codes' \in {codes, codes \ {callback[b].of}}
    /\ Proceeds(b, "refused")
    /\ UNCHANGED <<processVars, schemaVars, starter, jar, sessions, enrollVars>>

\* Either answer clears the state, another tab's too.
CallbackAnswers(b) ==
    /\ callback[b].step \in {"granted", "refused"}
    /\ jar' = [jar EXCEPT ![b] =
                  [state |-> None,
                   session |-> IF callback[b].step = "granted" THEN callback[b].of ELSE @.session]]
    /\ callback' = [callback EXCEPT ![b] = NoCallback]
    /\ UNCHANGED <<processVars, schemaVars, starter, codes, sessions, enrollVars>>

\* The tab is closed, and its cookies are as they were.
CallbackIsLost(b) ==
    /\ callback[b] # NoCallback
    /\ callback' = [callback EXCEPT ![b] = NoCallback]
    /\ UNCHANGED <<processVars, schemaVars, starter, codes, jar, sessions, enrollVars>>

\* requireUser: the session of the cookie is there.
SignedIn(b) == jar[b].session \in sessions

\* A session that is not there any more has its cookie cleared.
SessionEnded(b, p) ==
    /\ Accepts(p) /\ Works(p)
    /\ jar[b].session # None
    /\ ~ SignedIn(b)
    /\ jar' = [jar EXCEPT ![b].session = None]
    /\ UNCHANGED <<processVars, schemaVars, starter, codes, callback, sessions, enrollVars>>

\* The row is deleted, or this fails, which is a warning; the answer clears the
\* cookie, or is lost.
AuthLogout(b, p) ==
    /\ Accepts(p)
    /\ jar[b].session # None
    /\ sessions' \in IF Works(p) THEN {sessions, sessions \ {jar[b].session}} ELSE {sessions}
    /\ jar' \in {jar, [jar EXCEPT ![b].session = None]}
    /\ UNCHANGED <<processVars, schemaVars, starter, codes, callback, enrollVars>>

\* Seven days are over.  PruneSessions deletes what no request would find.
SessionExpires(n) ==
    /\ n \in sessions
    /\ sessions' = sessions \ {n}
    /\ UNCHANGED <<processVars, schemaVars, starter, codes, jar, callback, enrollVars>>

-----------------------------------------------------------------------------
(* Enrollment tokens.                                                      *)

restOfTokens == <<requests, enrolled, attempts, issued, wasted>>

\* A token whose secret was not delivered is as good as none.
Created(t) ==
    /\ token[t].status = "none"
    /\ token' = [token EXCEPT ![t].status = "usable"]
    /\ UNCHANGED <<processVars, schemaVars, signInVars, restOfTokens>>

Revoked(t) ==
    /\ token[t].status = "usable"
    /\ token' = [token EXCEPT ![t].status = "dead"]
    /\ UNCHANGED <<processVars, schemaVars, signInVars, restOfTokens>>

\* A signed-in person at the dashboard,
Administers(b, p) == Accepts(p) /\ Works(p) /\ SignedIn(b)

DashboardCreates(b, p, t) == Administers(b, p) /\ Created(t)
DashboardRevokes(b, p, t) == Administers(b, p) /\ Revoked(t)

\* or an operator at a terminal, who opens the database himself, whether or not
\* there is a server.
Operates == applied # {}

OperatorCreates(t) == Operates /\ Created(t)
OperatorRevokes(t) == Operates /\ Revoked(t)

TokenExpires(t) == Revoked(t)

-----------------------------------------------------------------------------
(* Enrollment.                                                             *)

\* agent.Enroll: a machine that has no credential asks for one, with the token
\* it was given.  The service manager starts an agent that failed again.
Register(m, t, p) ==
    /\ Accepts(p)
    /\ Bounded
    /\ enrolled[m] = None
    /\ token[t].status # "none"
    /\ \A r \in requests : r.from = m => ~ r.heard
    /\ attempts' = attempts + 1
    /\ requests' = requests \cup
          {[number |-> attempts', from |-> m, with |-> t,
            step |-> "redeem", at |-> p, heard |-> TRUE]}
    /\ UNCHANGED <<processVars, schemaVars, signInVars, token, enrolled, issued, wasted>>

Moves(r, s) == requests' = (requests \ {r}) \cup {[r EXCEPT !.step = s]}

\* Mutant of Redeemable: the uses are counted, and not compared.
RedeemableAlways(t) == token[t].status = "usable"

\* The check and the count are one statement.
Redeemable(t) == token[t].status = "usable" /\ token[t].uses < MaxUses

RedeemEnrollmentToken(r) ==
    /\ r.step = "redeem"
    /\ Works(r.at)
    /\ Redeemable(r.with)
    /\ token' = [token EXCEPT ![r.with].uses = @ + 1]
    /\ Moves(r, "issue")
    /\ UNCHANGED <<processVars, schemaVars, signInVars, enrolled, attempts, issued, wasted>>

\* UpsertRunner, IssueMachineToken, RecordEvent.
IssueMachineToken(r) ==
    /\ r.step = "issue"
    /\ Works(r.at)
    /\ issued' = [issued EXCEPT ![r.with] = @ + 1]
    /\ Moves(r, "answer")
    /\ UNCHANGED <<processVars, schemaVars, signInVars, token, enrolled, attempts, wasted>>

\* The uses that are lost with these requests.
Wasted(rs) ==
    wasted' = [t \in Token |-> wasted[t] +
                  Cardinality({r \in rs : r.step = "issue" /\ r.with = t})]

\* The token is refused, or a statement fails: the use stays counted.
RegisterFails(r) ==
    /\ r.step \in {"redeem", "issue"}
    /\ requests' = requests \ {r}
    /\ Wasted({r})
    /\ UNCHANGED <<processVars, schemaVars, signInVars, token, enrolled, attempts, issued>>

\* The answer arrives and is stored; or it is lost, or comes to an agent that
\* gave up, or cannot be stored.
RegisterAnswers(r) ==
    /\ r.step = "answer"
    /\ requests' = requests \ {r}
    /\ \/ r.heard /\ enrolled' = [enrolled EXCEPT ![r.from] = r.with]
       \/ UNCHANGED enrolled
    /\ UNCHANGED <<processVars, schemaVars, signInVars, token, attempts, issued, wasted>>

\* The agent gives up, and the handler goes on.
GiveUp(r) ==
    /\ r.heard
    /\ requests' = (requests \ {r}) \cup {[r EXCEPT !.heard = FALSE]}
    /\ UNCHANGED <<processVars, schemaVars, signInVars, token, enrolled, attempts, issued, wasted>>

-----------------------------------------------------------------------------

Run(p) ==
    /\ (Open(p) /\ Bounded) \/ Running(p)
    /\ UNCHANGED <<signInVars, enrollVars>>

\* Mutant of Ends: the enrollments go on.
EndsAlone(p) ==
    /\ Exit(p)
    /\ UNCHANGED <<signInVars, enrollVars>>

\* What was under way at a process ends with it.
Ends(p) ==
    /\ Exit(p)
    /\ callback' = [b \in Browser |->
          IF callback[b] # NoCallback /\ callback[b].at = p THEN NoCallback ELSE callback[b]]
    /\ requests' = {r \in requests : r.at # p}
    /\ Wasted({r \in requests : r.at = p})
    /\ UNCHANGED <<starter, codes, jar, sessions, token, enrolled, attempts, issued>>

SignIn ==
    \/ \E b \in Browser :
          \/ StateExpires(b)
          \/ ExchangeCode(b) \/ CreateSession(b) \/ CallbackFails(b)
          \/ CallbackAnswers(b) \/ CallbackIsLost(b)
          \/ \E p \in Process :
                \/ AuthStart(b, p) \/ SessionEnded(b, p) \/ AuthLogout(b, p)
                \/ \E n \in SignIns : AuthCallback(b, n, p)
    \/ \E n \in SignIns : Authorize(n) \/ SessionExpires(n)

Enrollment ==
    \/ \E t \in Token :
          \/ OperatorCreates(t) \/ OperatorRevokes(t) \/ TokenExpires(t)
          \/ \E p \in Process :
                \/ \E b \in Browser : DashboardCreates(b, p, t) \/ DashboardRevokes(b, p, t)
                \/ \E m \in Machine : Register(m, t, p)
    \/ \E r \in requests :
          \/ RedeemEnrollmentToken(r) \/ IssueMachineToken(r) \/ RegisterFails(r)
          \/ RegisterAnswers(r) \/ GiveUp(r)

Next == (\E p \in Process : Run(p) \/ Ends(p)) \/ SignIn \/ Enrollment

Spec == Init /\ [][Next]_vars

-----------------------------------------------------------------------------
(* Properties                                                              *)

\* "comparing it on the way back is what proves the callback belongs to this
\* request": the session in a browser was begun in that browser, whoever opens
\* whose callback, and whichever tabs, sign-ins and sign-outs overlap.
SessionIsOwn ==
    \A b \in Browser : SignedIn(b) => starter[jar[b].session] = b

\* "two machines enrolling at the same moment cannot both slip past a max_uses of
\* one": a token enrolls no more machines than it may, however many ask at once
\* and ask again; and each use led to a credential, or will, unless a statement
\* failed or a process died in between.
UsesAreAccounted ==
    \A t \in Token :
        /\ Cardinality({m \in Machine : enrolled[m] = t}) <= issued[t]
        /\ issued[t] + wasted[t] + Cardinality({r \in requests : r.step = "issue" /\ r.with = t})
              = token[t].uses
        /\ token[t].uses <= MaxUses
=============================================================================
