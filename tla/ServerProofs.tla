---------------------------- MODULE ServerProofs ----------------------------
(***************************************************************************)
(* Proofs about the control plane: Server and Migrations, for any number   *)
(* of processes, migrations, browsers, machines and tokens; and RateLimit, *)
(* for every limit, any number of addresses and of calls at once.          *)
(***************************************************************************)
EXTENDS Server, RateLimit, FiniteSetTheorems, TLAPS

-----------------------------------------------------------------------------
(* The schema: what a process has left to do is the end of the list, and   *)
(* while it migrates, all that is missing.  Two processes may have the     *)
(* same left to do: the one that is late finds its migration recorded.     *)

RecordOK ==
    /\ applied = 1 .. Len(effects)
    /\ \A i \in DOMAIN effects : effects[i] = i

TodoOK ==
    \A p \in Process :
        /\ \E k \in 1 .. Newest + 1 : todo[p] = k .. binary[p]
        /\ stage[p] = "migrating" => (1 .. binary[p]) \ applied \subseteq todo[p]

ServesOK ==
    \A p \in Process :
        stage[p] \in {"serving", "stopping"} /\ mode[p] = "serve" => Fits(p)

SchemaInv == MigrationsTypeOK /\ RecordOK /\ TodoOK /\ ServesOK

\* First is the least of what is left.
LEMMA FirstIsLeast ==
    ASSUME SchemaInv, NEW p \in Process, todo[p] # {}
    PROVE  /\ First(p) \in todo[p]
           /\ \A n \in todo[p] : First(p) <= n
<1>1. PICK k \in 1 .. Newest + 1 : todo[p] = k .. binary[p]
    BY DEF SchemaInv, TodoOK
<1>2. binary[p] \in 1 .. Newest
    BY DEF SchemaInv, MigrationsTypeOK
<1>3. k \in todo[p] /\ \A n \in todo[p] : k <= n
    BY <1>1, <1>2, MigrationsAssumption
<1> QED
    BY <1>3 DEF First

\* What can be recorded is the successor of what is.
LEMMA FirstIsNext ==
    ASSUME SchemaInv, NEW p \in Process, stage[p] = "migrating", todo[p] # {},
           CanRecord(First(p))
    PROVE  /\ First(p) = Len(effects) + 1
           /\ First(p) \in 1 .. binary[p]
           /\ todo[p] = First(p) .. binary[p]
<1>1. /\ First(p) \in todo[p]
      /\ \A n \in todo[p] : First(p) <= n
    BY FirstIsLeast
<1>2. PICK k \in 1 .. Newest + 1 : todo[p] = k .. binary[p]
    BY DEF SchemaInv, TodoOK
<1>3. binary[p] \in 1 .. Newest /\ Len(effects) \in Nat
    BY DEF SchemaInv, MigrationsTypeOK
<1>4. First(p) = k /\ k \in 1 .. binary[p]
    <2>1. k \in todo[p] /\ k \in Nat /\ k >= 1
        BY <1>2, <1>3, MigrationsAssumption
    <2>2. First(p) \in Int /\ First(p) >= k /\ First(p) <= k
        BY <1>1, <1>2, <2>1
    <2> QED
        BY <1>2, <1>3, <2>1, <2>2, MigrationsAssumption
<1>5. applied = 1 .. Len(effects) /\ k \notin applied
    BY <1>4 DEF SchemaInv, RecordOK, CanRecord
<1>6. Len(effects) + 1 <= k
    BY <1>3, <1>4, <1>5
<1>7. Len(effects) + 1 \in (1 .. binary[p]) \ applied
    BY <1>3, <1>4, <1>5, <1>6
<1>8. Len(effects) + 1 \in todo[p]
    BY <1>7 DEF SchemaInv, TodoOK
<1>9. k <= Len(effects) + 1
    BY <1>1, <1>4, <1>8
<1> QED
    BY <1>2, <1>3, <1>4, <1>6, <1>9

LEMMA SchemaInit == MigrationsInit => SchemaInv
<1> SUFFICES ASSUME MigrationsInit PROVE SchemaInv
    OBVIOUS
<1> USE MigrationsAssumption DEF MigrationsInit
<1>1. MigrationsTypeOK
    BY DEF MigrationsTypeOK, Modes
<1>2. RecordOK
    BY DEF RecordOK
<1>3. TodoOK
    <2> SUFFICES ASSUME NEW p \in Process
                 PROVE  /\ todo[p] = (Newest + 1) .. binary[p]
                        /\ stage[p] # "migrating"
        BY DEF TodoOK
    <2> QED
        OBVIOUS
<1>4. ServesOK
    BY DEF ServesOK
<1> QED
    BY <1>1, <1>2, <1>3, <1>4 DEF SchemaInv

LEMMA OpenKeepsSchema ==
    ASSUME SchemaInv, NEW p \in Process, Open(p)
    PROVE  SchemaInv'
<1> USE MigrationsAssumption DEF SchemaInv
<1>0. PICK v \in 1 .. Newest, k \in Modes :
          /\ binary' = [binary EXCEPT ![p] = v]
          /\ mode' = [mode EXCEPT ![p] = k]
    BY DEF Open
<1>1. MigrationsTypeOK'
    BY <1>0 DEF MigrationsTypeOK, Open, Becomes, schemaVars
<1>2. RecordOK'
    BY DEF RecordOK, Open, schemaVars
<1>3. TodoOK'
    <2> SUFFICES ASSUME NEW q \in Process
                 PROVE  /\ \E l \in 1 .. Newest + 1 : todo'[q] = l .. binary'[q]
                        /\ stage'[q] = "migrating" =>
                              (1 .. binary'[q]) \ applied' \subseteq todo'[q]
        BY DEF TodoOK
    <2>1. CASE q = p
        <3>1. todo'[q] = (v + 1) .. binary'[q] /\ v + 1 \in 1 .. Newest + 1
            BY <1>0, <2>1 DEF Open, MigrationsTypeOK
        <3>2. stage'[q] = "open"
            BY <2>1 DEF Open, Becomes, MigrationsTypeOK
        <3> QED
            BY <3>1, <3>2
    <2>2. CASE q # p
        BY <1>0, <2>2 DEF Open, Becomes, MigrationsTypeOK, TodoOK, schemaVars
    <2> QED
        BY <2>1, <2>2
<1>4. ServesOK'
    BY <1>0 DEF ServesOK, Fits, Open, Becomes, MigrationsTypeOK, schemaVars
<1> QED
    BY <1>1, <1>2, <1>3, <1>4

LEMMA AppliedMigrationsKeepsSchema ==
    ASSUME SchemaInv, NEW p \in Process, AppliedMigrations(p)
    PROVE  SchemaInv'
<1> USE MigrationsAssumption DEF SchemaInv
<1>1. MigrationsTypeOK'
    BY DEF MigrationsTypeOK, AppliedMigrations, Becomes, schemaVars
<1>2. RecordOK'
    BY DEF RecordOK, AppliedMigrations, schemaVars
<1>3. TodoOK'
    <2> SUFFICES ASSUME NEW q \in Process
                 PROVE  /\ \E l \in 1 .. Newest + 1 : todo'[q] = l .. binary'[q]
                        /\ stage'[q] = "migrating" =>
                              (1 .. binary'[q]) \ applied' \subseteq todo'[q]
        BY DEF TodoOK
    <2>1. CASE q = p
        <3> DEFINE n == Len(effects)
        <3>1. /\ todo'[q] = (1 .. binary[p]) \ (1 .. n)
              /\ binary' = binary /\ applied' = applied
              /\ todo'[q] = (1 .. binary[p]) \ applied
            BY <2>1 DEF AppliedMigrations, MigrationsTypeOK, RecordOK, schemaVars
        <3>2. n \in Nat /\ binary[p] \in 1 .. Newest
            BY DEF MigrationsTypeOK
        <3>3. CASE n <= Newest
            <4>1. todo'[q] = (n + 1) .. binary[p]
                BY <3>1, <3>2
            <4>2. n + 1 \in 1 .. Newest + 1
                BY <3>2, <3>3
            <4> HIDE DEF n
            <4> QED
                BY <2>1, <3>1, <4>1, <4>2
        <3>4. CASE n > Newest
            <4>1. todo'[q] = (Newest + 1) .. binary[p]
                BY <3>1, <3>2, <3>4
            <4> QED
                BY <2>1, <3>1, <3>2, <3>4, <4>1
        <3> QED
            BY <3>2, <3>3, <3>4
    <2>2. CASE q # p
        BY <2>2 DEF AppliedMigrations, Becomes, MigrationsTypeOK, TodoOK, schemaVars
    <2> QED
        BY <2>1, <2>2
<1>4. ServesOK'
    BY DEF ServesOK, Fits, AppliedMigrations, Becomes, MigrationsTypeOK, schemaVars
<1> QED
    BY <1>1, <1>2, <1>3, <1>4

LEMMA ApplyMigrationKeepsSchema ==
    ASSUME SchemaInv, NEW p \in Process, ApplyMigration(p)
    PROVE  SchemaInv'
<1> DEFINE f == First(p)
           n == Len(effects)
<1>0. /\ f = n + 1 /\ f \in 1 .. binary[p] /\ todo[p] = f .. binary[p]
      /\ binary[p] \in 1 .. Newest /\ n \in Nat /\ f \in 1 .. Newest
    <2>1. f = n + 1 /\ f \in 1 .. binary[p] /\ todo[p] = f .. binary[p]
        BY FirstIsNext DEF ApplyMigration
    <2>2. binary[p] \in 1 .. Newest /\ n \in Nat
        BY DEF SchemaInv, MigrationsTypeOK
    <2> QED
        BY <2>1, <2>2, MigrationsAssumption
<1>a. /\ applied' = applied \cup {f}
      /\ effects' = Append(effects, f)
      /\ todo' = [todo EXCEPT ![p] = @ \ {f}]
      /\ UNCHANGED <<stage, binary, mode, starts>>
    BY DEF ApplyMigration
<1> HIDE DEF f
<1> USE MigrationsAssumption DEF SchemaInv
<1>1. MigrationsTypeOK'
    <2>1. applied' \subseteq 1 .. Newest /\ effects' \in Seq(1 .. Newest)
        <3>1. f \in 1 .. Newest /\ applied \subseteq 1 .. Newest /\ effects \in Seq(1 .. Newest)
            BY <1>0 DEF MigrationsTypeOK
        <3>2. applied' = applied \cup {f} /\ effects' = Append(effects, f)
            BY <1>a
        <3>3. \A S : effects \in Seq(S) /\ f \in S => Append(effects, f) \in Seq(S)
            OBVIOUS
        <3> QED
            BY <3>1, <3>2, <3>3, Zenon
    <2>2. todo' \in [Process -> SUBSET (1 .. Newest)]
        BY <1>a DEF MigrationsTypeOK
    <2> QED
        BY <1>a, <2>1, <2>2 DEF MigrationsTypeOK
<1>b. Len(effects') = n + 1 /\ applied' = 1 .. (n + 1)
    <2>1. Len(effects') = n + 1
        BY <1>0, <1>a DEF MigrationsTypeOK
    <2>2. applied = 1 .. n
        BY DEF RecordOK
    <2> QED
        BY <1>0, <1>a, <2>1, <2>2
<1>2. RecordOK'
    <2>1. \A i \in DOMAIN effects' : effects'[i] = i
        <3> TAKE i \in DOMAIN effects'
        <3>1. CASE i = n + 1
            BY <3>1, <1>0, <1>a, <1>b DEF MigrationsTypeOK
        <3>2. CASE i # n + 1
            BY <3>2, <1>0, <1>a, <1>b DEF MigrationsTypeOK, RecordOK
        <3> QED
            BY <3>1, <3>2
    <2> QED
        BY <1>b, <2>1 DEF RecordOK
<1>3. TodoOK'
    <2> SUFFICES ASSUME NEW q \in Process
                 PROVE  /\ \E l \in 1 .. Newest + 1 : todo'[q] = l .. binary'[q]
                        /\ stage'[q] = "migrating" =>
                              (1 .. binary'[q]) \ applied' \subseteq todo'[q]
        BY DEF TodoOK
    <2>1. CASE q = p
        <3>1. todo'[q] = (f .. binary[p]) \ {f}
            BY <1>0, <1>a, <2>1 DEF MigrationsTypeOK
        <3>2. todo'[q] = (f + 1) .. binary'[q] /\ f + 1 \in 1 .. Newest + 1
            <4>1. binary'[q] = binary[p] /\ f \in Nat /\ f <= Newest /\ binary[p] \in Nat
                BY <1>0, <1>a, <2>1
            <4> QED
                BY <3>1, <4>1
        <3>3. (1 .. binary'[q]) \ applied' \subseteq todo'[q]
            BY <1>0, <1>b, <3>2
        <3> QED
            BY <3>2, <3>3
    <2>2. CASE q # p
        BY <1>a, <2>2 DEF MigrationsTypeOK, TodoOK
    <2> QED
        BY <2>1, <2>2
<1>4. ServesOK'
    BY <1>a DEF ServesOK, Fits
<1> QED
    BY <1>1, <1>2, <1>3, <1>4

\* A process that has applied all that was missing fits.
LEMMA ServeKeepsSchema ==
    ASSUME SchemaInv, NEW p \in Process, Serve(p)
    PROVE  SchemaInv'
<1> USE DEF SchemaInv
<1>a. /\ stage' = [stage EXCEPT ![p] = "serving"]
      /\ UNCHANGED <<binary, mode, todo, starts, applied, effects>>
    BY DEF Serve, Becomes, schemaVars
<1>1. MigrationsTypeOK'
    BY <1>a DEF MigrationsTypeOK
<1>2. RecordOK'
    BY <1>a DEF RecordOK
<1>3. TodoOK'
    BY <1>a DEF TodoOK, MigrationsTypeOK
<1>4. ServesOK'
    <2> SUFFICES ASSUME NEW q \in Process, stage'[q] \in {"serving", "stopping"},
                        mode'[q] = "serve"
                 PROVE  1 .. binary[q] \subseteq applied
        BY <1>a DEF ServesOK, Fits
    <2>1. CASE q = p
        BY <1>a, <2>1 DEF Serve, Migrated, TodoOK
    <2>2. CASE q # p
        BY <1>a, <2>2 DEF ServesOK, Fits, MigrationsTypeOK
    <2> QED
        BY <2>1, <2>2
<1> QED
    BY <1>1, <1>2, <1>3, <1>4

LEMMA StopKeepsSchema ==
    ASSUME SchemaInv, NEW p \in Process, Stop(p)
    PROVE  SchemaInv'
<1> USE DEF SchemaInv
<1>a. /\ stage[p] = "serving" /\ stage' = [stage EXCEPT ![p] = "stopping"]
      /\ UNCHANGED <<binary, mode, todo, starts, applied, effects>>
    BY DEF Stop, Becomes, schemaVars
<1>1. MigrationsTypeOK'
    BY <1>a DEF MigrationsTypeOK
<1>2. RecordOK'
    BY <1>a DEF RecordOK
<1>3. TodoOK'
    BY <1>a DEF TodoOK, MigrationsTypeOK
<1>4. ServesOK'
    BY <1>a DEF ServesOK, Fits, MigrationsTypeOK
<1> QED
    BY <1>1, <1>2, <1>3, <1>4

LEMMA ExitKeepsSchema ==
    ASSUME SchemaInv, NEW p \in Process, Exit(p)
    PROVE  SchemaInv'
<1> USE MigrationsAssumption DEF SchemaInv
<1>a. /\ stage' = [stage EXCEPT ![p] = "down"]
      /\ binary' = [binary EXCEPT ![p] = Newest]
      /\ mode' = [mode EXCEPT ![p] = "serve"]
      /\ todo' = [todo EXCEPT ![p] = {}]
      /\ UNCHANGED <<starts, applied, effects>>
    BY DEF Exit, Becomes, schemaVars
<1>1. MigrationsTypeOK'
    BY <1>a DEF MigrationsTypeOK, Modes
<1>2. RecordOK'
    BY <1>a DEF RecordOK
<1>3. TodoOK'
    <2> SUFFICES ASSUME NEW q \in Process
                 PROVE  /\ \E l \in 1 .. Newest + 1 : todo'[q] = l .. binary'[q]
                        /\ stage'[q] = "migrating" =>
                              (1 .. binary'[q]) \ applied' \subseteq todo'[q]
        BY DEF TodoOK
    <2>1. CASE q = p
        <3>1. todo'[q] = (Newest + 1) .. binary'[q] /\ stage'[q] = "down"
            BY <1>a, <2>1 DEF MigrationsTypeOK
        <3> QED
            BY <3>1
    <2>2. CASE q # p
        BY <1>a, <2>2 DEF MigrationsTypeOK, TodoOK
    <2> QED
        BY <2>1, <2>2
<1>4. ServesOK'
    BY <1>a DEF ServesOK, Fits, MigrationsTypeOK
<1> QED
    BY <1>1, <1>2, <1>3, <1>4

\* A step of the server is a step of one of its processes, or leaves all of
\* them and the schema alone.
LEMMA SchemaNext ==
    ASSUME SchemaInv, [Next]_vars
    PROVE  SchemaInv'
<1>1. ASSUME NEW p \in Process, Run(p)
      PROVE  SchemaInv'
    <2>1. CASE Open(p)
        BY <2>1, OpenKeepsSchema
    <2>2. CASE AppliedMigrations(p)
        BY <2>2, AppliedMigrationsKeepsSchema
    <2>3. CASE ApplyMigration(p)
        BY <2>3, ApplyMigrationKeepsSchema
    <2>4. CASE MigrateOnly(p)
        BY <2>4, ExitKeepsSchema DEF MigrateOnly
    <2>5. CASE Serve(p)
        BY <2>5, ServeKeepsSchema
    <2>6. CASE Stop(p)
        BY <2>6, StopKeepsSchema
    <2> QED
        BY <1>1, <2>1, <2>2, <2>3, <2>4, <2>5, <2>6 DEF Run, Running
<1>2. ASSUME NEW p \in Process, Ends(p)
      PROVE  SchemaInv'
    BY <1>2, ExitKeepsSchema DEF Ends
<1>3. ASSUME UNCHANGED <<processVars, schemaVars>>
      PROVE  SchemaInv'
    BY <1>3 DEF processVars, schemaVars, SchemaInv, MigrationsTypeOK, RecordOK, TodoOK,
                ServesOK, Fits
<1>4. CASE SignIn
    <2>1. UNCHANGED <<processVars, schemaVars>>
        BY <1>4 DEF SignIn, StateExpires, ExchangeCode, CreateSession, CallbackFails,
            CallbackAnswers, CallbackIsLost, AuthStart, SessionEnded, AuthLogout,
            AuthCallback, Authorize, SessionExpires
    <2> QED
        BY <1>3, <2>1
<1>5. CASE Enrollment
    <2>1. UNCHANGED <<processVars, schemaVars>>
        BY <1>5 DEF Enrollment, OperatorCreates, OperatorRevokes, TokenExpires,
            DashboardCreates, DashboardRevokes, Created, Revoked, Register,
            RedeemEnrollmentToken, IssueMachineToken, RegisterFails, RegisterAnswers, GiveUp
    <2> QED
        BY <1>3, <2>1
<1>6. CASE UNCHANGED vars
    BY <1>3, <1>6 DEF vars
<1> QED
    BY <1>1, <1>2, <1>4, <1>5, <1>6 DEF Next

\* What a process has left to apply is the end of what its binary knows.
THEOREM SchemaInvariant == Spec => []SchemaInv
<1>1. Init => SchemaInv
    BY SchemaInit DEF Init
<1>2. SchemaInv /\ [Next]_vars => SchemaInv'
    BY SchemaNext
<1> QED
    BY <1>1, <1>2, PTL DEF Spec

\* Migrations take effect once, in order and as recorded, however many processes
\* of whatever age apply them at once and die (Store.Migrate); a server that
\* did not skip them finds the tables it knows of.
THEOREM SchemaFitsTheorem == Spec => []SchemaFits
<1>1. SchemaInv => SchemaFits
    BY DEF SchemaInv, RecordOK, ServesOK, SchemaFits
<1> QED
    BY <1>1, SchemaInvariant, PTL

-----------------------------------------------------------------------------
(* Signing in: a state, a callback that got past the comparison, and so a  *)
(* session, is in the browser that began it.                               *)

OwnOK ==
    \A b \in Browser :
        /\ jar[b].state # None => starter[jar[b].state] = b
        /\ jar[b].session # None => starter[jar[b].session] = b
        /\ callback[b] # NoCallback =>
              callback[b].of \in DOMAIN starter /\ starter[callback[b].of] = b

SignInInv == SignInTypeOK /\ OwnOK

LEMMA AuthStartKeepsSignIn ==
    ASSUME MigrationsTypeOK, EnrollTypeOK, SignInInv,
           NEW b \in Browser, NEW p \in Process, AuthStart(b, p)
    PROVE  SignInInv'
<1> DEFINE n == Len(starter)
<1>1. /\ starter' = Append(starter, b)
      /\ jar' = [jar EXCEPT ![b].state = Len(starter')]
      /\ UNCHANGED <<codes, callback, sessions>>
    BY DEF AuthStart
<1>2. /\ n \in Nat /\ n + 1 <= MaxBegun /\ DOMAIN starter = 1 .. n
      /\ starter \in Seq(Browser)
    BY MigrationsAssumption, ServerAssumption
        DEF AuthStart, Bounded, SignInInv, SignInTypeOK, MigrationsTypeOK, EnrollTypeOK
<1>3. /\ starter' \in Seq(Browser) /\ Len(starter') = n + 1 /\ DOMAIN starter' = 1 .. (n + 1)
      /\ starter'[n + 1] = b
      /\ \A i \in 1 .. n : starter'[i] = starter[i]
    BY <1>1, <1>2
<1> HIDE DEF n
<1>4. SignInTypeOK'
    <2>1. codes' \subseteq DOMAIN starter' /\ sessions' \subseteq DOMAIN starter'
        BY <1>1, <1>2, <1>3 DEF SignInInv, SignInTypeOK
    <2>2. jar' \in [Browser -> [state : 0 .. Len(starter'), session : 0 .. Len(starter')]]
        <3>1. jar \in [Browser -> [state : 0 .. n, session : 0 .. n]]
            BY DEF SignInInv, SignInTypeOK, n
        <3>2. jar \in [Browser -> [state : 0 .. n + 1, session : 0 .. n + 1]]
            BY <1>2, <3>1
        <3>3. jar' = [jar EXCEPT ![b].state = n + 1] /\ n + 1 \in 0 .. n + 1
            BY <1>1, <1>2, <1>3
        <3>4. jar' \in [Browser -> [state : 0 .. n + 1, session : 0 .. n + 1]]
            BY <3>2, <3>3
        <3> QED
            BY <1>3, <3>4
    <2> QED
        BY <1>1, <1>2, <1>3, <2>1, <2>2 DEF SignInInv, SignInTypeOK
<1>5. OwnOK'
    <2> SUFFICES ASSUME NEW c \in Browser
                 PROVE  /\ jar'[c].state # None => starter'[jar'[c].state] = c
                        /\ jar'[c].session # None => starter'[jar'[c].session] = c
                        /\ callback[c] # NoCallback =>
                              callback[c].of \in DOMAIN starter' /\ starter'[callback[c].of] = c
        BY <1>1 DEF OwnOK
    <2>1. /\ jar[c].state \in 0 .. n /\ jar[c].session \in 0 .. n
          /\ jar'[c].session = jar[c].session
          /\ jar'[c].state = IF c = b THEN n + 1 ELSE jar[c].state
        BY <1>1, <1>2, <1>3 DEF SignInInv, SignInTypeOK, n
    <2>2. /\ jar[c].state # None => starter[jar[c].state] = c
          /\ jar[c].session # None => starter[jar[c].session] = c
          /\ callback[c] # NoCallback =>
                callback[c].of \in 1 .. n /\ starter[callback[c].of] = c
        BY <1>2 DEF SignInInv, OwnOK
    <2> QED
        BY <1>2, <1>3, <2>1, <2>2 DEF None
<1> QED
    BY <1>4, <1>5 DEF SignInInv

\* Whatever only removes sign-ins, states, sessions and callbacks.
LEMMA LosingKeepsSignIn ==
    ASSUME SignInInv, UNCHANGED starter,
           codes' \subseteq DOMAIN starter, sessions' \subseteq sessions,
           \A b \in Browser : callback'[b] \in {callback[b], NoCallback},
           callback' \in [Browser -> Callbacks \cup {NoCallback}],
           jar' \in [Browser -> [state : 0 .. Len(starter), session : 0 .. Len(starter)]],
           \A b \in Browser : /\ jar'[b].state \in {jar[b].state, None}
                              /\ jar'[b].session \in {jar[b].session, None}
    PROVE  SignInInv'
<1>1. SignInTypeOK'
    BY DEF SignInInv, SignInTypeOK
<1>2. OwnOK'
    BY DEF SignInInv, OwnOK
<1> QED
    BY <1>1, <1>2 DEF SignInInv

\* A callback that gets one step on.
LEMMA ProceedingKeepsSignIn ==
    ASSUME SignInInv, NEW b \in Browser, NEW s \in {"exchange", "session", "granted", "refused"},
           callback[b].step \in {"exchange", "session"}, Proceeds(b, s),
           UNCHANGED <<starter, jar>>,
           codes' \subseteq codes, sessions' \subseteq sessions \cup {callback[b].of}
    PROVE  SignInInv'
<1>1. /\ callback[b] \in Callbacks /\ callback[b] # NoCallback
      /\ callback[b].of \in DOMAIN starter /\ starter[callback[b].of] = b
    BY DEF SignInInv, SignInTypeOK, OwnOK, NoCallback
<1>2. callback' = [callback EXCEPT ![b].step = s]
    BY DEF Proceeds
<1>3. callback' \in [Browser -> Callbacks \cup {NoCallback}]
    BY <1>1, <1>2 DEF SignInInv, SignInTypeOK, Callbacks
<1>4. SignInTypeOK'
    BY <1>1, <1>3 DEF SignInInv, SignInTypeOK
<1>5. \A c \in Browser : callback'[c] # NoCallback =>
          callback'[c].of \in DOMAIN starter /\ starter[callback'[c].of] = c
    <2> TAKE c \in Browser
    <2>1. CASE c = b
        BY <1>1, <1>2, <2>1 DEF SignInInv, SignInTypeOK, Callbacks
    <2>2. CASE c # b
        BY <1>2, <2>2 DEF SignInInv, SignInTypeOK, OwnOK
    <2> QED
        BY <2>1, <2>2
<1>6. OwnOK'
    BY <1>5 DEF SignInInv, OwnOK
<1> QED
    BY <1>4, <1>6 DEF SignInInv

LEMMA AuthCallbackKeepsSignIn ==
    ASSUME SignInInv, NEW b \in Browser, NEW n \in SignIns, NEW p \in Process,
           AuthCallback(b, n, p)
    PROVE  SignInInv'
<1>0. /\ n \in DOMAIN starter /\ jar[b].state = n
      /\ callback' = [callback EXCEPT ![b] = [step |-> "exchange", of |-> n, at |-> p]]
      /\ UNCHANGED <<starter, codes, jar, sessions>>
    BY DEF AuthCallback, StartedHere
<1>1. /\ n \in DOMAIN starter /\ starter[n] = b
      /\ callback' = [callback EXCEPT ![b] = [step |-> "exchange", of |-> n, at |-> p]]
      /\ UNCHANGED <<starter, codes, jar, sessions>>
    <2>1. n # None
        BY ServerAssumption DEF SignIns, None
    <2> QED
        BY <1>0, <2>1 DEF SignInInv, OwnOK
<1>2. [step |-> "exchange", of |-> n, at |-> p] \in Callbacks
    BY DEF Callbacks
<1>3. SignInTypeOK'
    BY <1>1, <1>2 DEF SignInInv, SignInTypeOK
<1>4. \A c \in Browser : callback'[c] # NoCallback =>
          callback'[c].of \in DOMAIN starter /\ starter[callback'[c].of] = c
    BY <1>1 DEF SignInInv, SignInTypeOK, OwnOK
<1>5. OwnOK'
    BY <1>1, <1>4 DEF SignInInv, OwnOK
<1> QED
    BY <1>3, <1>5 DEF SignInInv

LEMMA CallbackAnswersKeepsSignIn ==
    ASSUME SignInInv, NEW b \in Browser, CallbackAnswers(b)
    PROVE  SignInInv'
<1>1. /\ callback[b] \in Callbacks /\ callback[b] # NoCallback
      /\ callback[b].of \in DOMAIN starter /\ starter[callback[b].of] = b
    BY DEF CallbackAnswers, SignInInv, SignInTypeOK, OwnOK, NoCallback
<1>2. PICK s \in 0 .. Len(starter) :
          /\ s # None => starter[s] = b
          /\ jar' = [jar EXCEPT ![b] = [state |-> None, session |-> s]]
    <2> DEFINE s == IF callback[b].step = "granted" THEN callback[b].of ELSE jar[b].session
    <2>1. s \in 0 .. Len(starter) /\ (s # None => starter[s] = b)
        <3>1. callback[b].of \in 0 .. Len(starter)
            BY <1>1 DEF SignInInv, SignInTypeOK
        <3>2. /\ jar[b].session \in 0 .. Len(starter)
              /\ jar[b].session # None => starter[jar[b].session] = b
            BY DEF SignInInv, SignInTypeOK, OwnOK
        <3> QED
            BY <1>1, <3>1, <3>2
    <2>2. jar' = [jar EXCEPT ![b] = [state |-> None, session |-> s]]
        BY DEF CallbackAnswers
    <2> QED
        BY <2>1, <2>2
<1>3. /\ callback' = [callback EXCEPT ![b] = NoCallback]
      /\ UNCHANGED <<starter, codes, sessions>>
    BY DEF CallbackAnswers
<1>4. SignInTypeOK'
    BY <1>2, <1>3 DEF SignInInv, SignInTypeOK, None
<1>5. \A c \in Browser : /\ jar'[c].state # None => starter[jar'[c].state] = c
                         /\ jar'[c].session # None => starter[jar'[c].session] = c
    BY <1>2 DEF SignInInv, SignInTypeOK, OwnOK
<1>6. \A c \in Browser : callback'[c] \in {callback[c], NoCallback}
    BY <1>3 DEF SignInInv, SignInTypeOK
<1>7. OwnOK'
    BY <1>3, <1>5, <1>6 DEF SignInInv, OwnOK
<1> QED
    BY <1>4, <1>7 DEF SignInInv

-----------------------------------------------------------------------------
(* Enrollment: requests are told apart by their numbers, so one that moves *)
(* on takes the place of itself, and every use of a token is a request     *)
(* that is about to issue, a credential, or wasted.                        *)

Issuing(t) == {r \in requests : r.step = "issue" /\ r.with = t}
Answering(t) == {r \in requests : r.step = "answer" /\ r.with = t}
EnrolledWith(t) == {m \in Machine : enrolled[m] = t}

RequestsOK ==
    /\ IsFiniteSet(requests)
    /\ \A r \in requests :
          r.number <= attempts /\ \A q \in requests : q.number = r.number => q = r

UsesOK ==
    \A t \in Token :
        /\ IsFiniteSet(EnrolledWith(t))
        /\ Cardinality(EnrolledWith(t)) + Cardinality(Answering(t)) <= issued[t]
        /\ issued[t] + wasted[t] + Cardinality(Issuing(t)) = token[t].uses

EnrollInv == EnrollTypeOK /\ RequestsOK /\ UsesOK

\* A part of the requests can be counted.
LEMMA PartsAreFinite ==
    ASSUME IsFiniteSet(requests), NEW S \in SUBSET requests
    PROVE  IsFiniteSet(S) /\ Cardinality(S) \in Nat
BY FS_Subset, FS_CardinalityType

LEMMA CountsAreNat ==
    ASSUME EnrollInv, NEW t \in Token
    PROVE  /\ IsFiniteSet(Issuing(t)) /\ Cardinality(Issuing(t)) \in Nat
           /\ IsFiniteSet(Answering(t)) /\ Cardinality(Answering(t)) \in Nat
           /\ IsFiniteSet(EnrolledWith(t)) /\ Cardinality(EnrolledWith(t)) \in Nat
           /\ issued[t] \in Nat /\ wasted[t] \in Nat /\ token[t].uses \in 0 .. MaxUses
<1>1. Issuing(t) \in SUBSET requests /\ Answering(t) \in SUBSET requests
    BY DEF Issuing, Answering
<1>2. IsFiniteSet(EnrolledWith(t)) /\ Cardinality(EnrolledWith(t)) \in Nat
    BY FS_CardinalityType DEF EnrollInv, UsesOK
<1>3. issued[t] \in Nat /\ wasted[t] \in Nat /\ token[t].uses \in 0 .. MaxUses
    BY DEF EnrollInv, EnrollTypeOK
<1> QED
    BY <1>1, <1>2, <1>3, PartsAreFinite DEF EnrollInv, RequestsOK

\* A request that is changed keeps its number.
LEMMA ReplacingKeepsRequests ==
    ASSUME EnrollInv, NEW r \in requests, NEW n \in Requests, n.number = r.number,
           requests' = (requests \ {r}) \cup {n}, attempts' = attempts
    PROVE  /\ requests' \subseteq Requests
           /\ RequestsOK'
           /\ n \notin requests \ {r}
<1>1. IsFiniteSet(requests \ {r})
    BY FS_RemoveElement DEF EnrollInv, RequestsOK
<1>2. IsFiniteSet(requests')
    BY <1>1, FS_AddElement
<1>3. n \notin requests \ {r}
    BY DEF EnrollInv, RequestsOK
<1>4. requests' \subseteq Requests
    BY DEF EnrollInv, EnrollTypeOK
<1>5. \A x \in requests' :
          x.number <= attempts /\ \A q \in requests' : q.number = x.number => q = x
    BY DEF EnrollInv, RequestsOK
<1> QED
    BY <1>2, <1>3, <1>4, <1>5 DEF RequestsOK

LEMMA RemovingKeepsRequests ==
    ASSUME EnrollInv, requests' \subseteq requests, attempts' = attempts
    PROVE  requests' \subseteq Requests /\ RequestsOK'
<1>1. IsFiniteSet(requests')
    BY FS_Subset DEF EnrollInv, RequestsOK
<1> QED
    BY <1>1 DEF EnrollInv, EnrollTypeOK, RequestsOK

\* Of what is removed, what was about to issue is wasted.
LEMMA WastingKeepsUses ==
    ASSUME EnrollInv, NEW D \in SUBSET requests, requests' = requests \ D, Wasted(D),
           UNCHANGED <<token, enrolled, attempts, issued>>
    PROVE  EnrollInv'
<1>1. requests' \subseteq Requests /\ RequestsOK'
    BY RemovingKeepsRequests
<1> DEFINE L(t) == {r \in D : r.step = "issue" /\ r.with = t}
<1>2. ASSUME NEW t \in Token
      PROVE  /\ IsFiniteSet(L(t)) /\ Cardinality(L(t)) \in Nat
             /\ L(t) \subseteq Issuing(t)
             /\ Issuing(t)' = Issuing(t) \ L(t)
             /\ Answering(t)' \in SUBSET Answering(t)
    <2>1. L(t) \in SUBSET requests
        OBVIOUS
    <2> QED
        BY <2>1, PartsAreFinite DEF EnrollInv, RequestsOK, Issuing, Answering
<1>3. wasted' = [t \in Token |-> wasted[t] + Cardinality(L(t))]
    BY DEF Wasted
<1> HIDE DEF L
<1>4. EnrollTypeOK'
    BY <1>1, <1>2, <1>3 DEF EnrollInv, EnrollTypeOK
<1>5. UsesOK'
    <2> SUFFICES ASSUME NEW t \in Token
                 PROVE  /\ IsFiniteSet(EnrolledWith(t)')
                        /\ Cardinality(EnrolledWith(t)') + Cardinality(Answering(t)') <= issued'[t]
                        /\ issued'[t] + wasted'[t] + Cardinality(Issuing(t)') = token'[t].uses
        BY DEF UsesOK, EnrolledWith, Answering, Issuing
    <2>1. EnrolledWith(t)' = EnrolledWith(t)
        BY DEF EnrolledWith
    <2>2. Cardinality(Answering(t)') \in Nat /\ Cardinality(Answering(t)') <= Cardinality(Answering(t))
        BY <1>2, CountsAreNat, FS_Subset, FS_CardinalityType
    <2>3. Cardinality(Issuing(t)') = Cardinality(Issuing(t)) - Cardinality(L(t))
        <3>1. Issuing(t) \cap L(t) = L(t)
            BY <1>2
        <3> QED
            BY <1>2, <3>1, CountsAreNat, FS_Difference
    <2>4. wasted'[t] = wasted[t] + Cardinality(L(t))
        BY <1>3
    <2> QED
        BY <1>2, <2>1, <2>2, <2>3, <2>4, CountsAreNat DEF EnrollInv, UsesOK
<1> QED
    BY <1>1, <1>4, <1>5 DEF EnrollInv

LEMMA RegisterKeepsUses ==
    ASSUME MigrationsTypeOK, SignInTypeOK, EnrollInv,
           NEW m \in Machine, NEW t \in Token, NEW p \in Process, Register(m, t, p)
    PROVE  EnrollInv'
<1> DEFINE n == [number |-> attempts', from |-> m, with |-> t,
                 step |-> "redeem", at |-> p, heard |-> TRUE]
<1>1. /\ attempts' = attempts + 1 /\ attempts \in Nat /\ attempts + 1 <= MaxBegun
      /\ attempts' \in 1 .. MaxBegun
    BY MigrationsAssumption, ServerAssumption
        DEF Register, Bounded, MigrationsTypeOK, SignInTypeOK, EnrollInv, EnrollTypeOK
<1>2. /\ requests' = requests \cup {n}
      /\ UNCHANGED <<token, enrolled, issued, wasted>>
    BY DEF Register
<1>3. n \in Requests /\ n.step = "redeem" /\ n.number = attempts + 1
    BY <1>1 DEF Requests
<1> HIDE DEF n
<1>4. EnrollTypeOK'
    BY <1>1, <1>2, <1>3, ServerAssumption DEF EnrollInv, EnrollTypeOK
<1>5. RequestsOK'
    <2>1. IsFiniteSet(requests')
        BY <1>2, FS_AddElement DEF EnrollInv, RequestsOK
    <2>2. \A r \in requests : r.number \in Nat /\ r.number <= attempts
        BY ServerAssumption DEF EnrollInv, EnrollTypeOK, RequestsOK, Requests
    <2>3. \A r \in requests' :
              r.number <= attempts' /\ \A q \in requests' : q.number = r.number => q = r
        BY <1>1, <1>2, <1>3, <2>2 DEF EnrollInv, RequestsOK
    <2> QED
        BY <2>1, <2>3 DEF RequestsOK
<1>6. UsesOK'
    BY <1>2, <1>3 DEF EnrollInv, UsesOK, EnrolledWith, Issuing, Answering
<1> QED
    BY <1>4, <1>5, <1>6 DEF EnrollInv

\* A use is counted, and a request has it.
LEMMA RedeemKeepsUses ==
    ASSUME EnrollInv, NEW r \in requests, RedeemEnrollmentToken(r)
    PROVE  EnrollInv'
<1> DEFINE n == [r EXCEPT !.step = "issue"]
<1>1. /\ r \in Requests /\ r.step = "redeem" /\ r.with \in Token
      /\ token[r.with].uses < MaxUses
    BY DEF RedeemEnrollmentToken, Redeemable, EnrollInv, EnrollTypeOK, Requests
<1>2. /\ requests' = (requests \ {r}) \cup {n}
      /\ token' = [token EXCEPT ![r.with].uses = @ + 1]
      /\ UNCHANGED <<enrolled, attempts, issued, wasted>>
    BY DEF RedeemEnrollmentToken, Moves
<1>3. n \in Requests /\ n.number = r.number /\ n.step = "issue" /\ n.with = r.with
    BY <1>1 DEF Requests
<1> HIDE DEF n
<1>4. requests' \subseteq Requests /\ RequestsOK' /\ n \notin requests \ {r}
    BY <1>2, <1>3, ReplacingKeepsRequests
<1>5. EnrollTypeOK'
    BY <1>1, <1>2, <1>4, ServerAssumption DEF EnrollInv, EnrollTypeOK
<1>6. UsesOK'
    <2> SUFFICES ASSUME NEW t \in Token
                 PROVE  /\ IsFiniteSet(EnrolledWith(t)')
                        /\ Cardinality(EnrolledWith(t)') + Cardinality(Answering(t)') <= issued'[t]
                        /\ issued'[t] + wasted'[t] + Cardinality(Issuing(t)') = token'[t].uses
        BY DEF UsesOK, EnrolledWith, Answering, Issuing
    <2>1. EnrolledWith(t)' = EnrolledWith(t) /\ Answering(t)' = Answering(t)
        BY <1>1, <1>2, <1>3 DEF EnrolledWith, Answering
    <2>2. CASE t = r.with
        <3>1. Issuing(t)' = Issuing(t) \cup {n} /\ n \notin Issuing(t)
            BY <1>1, <1>2, <1>3, <1>4, <2>2 DEF Issuing
        <3>2. Cardinality(Issuing(t)') = Cardinality(Issuing(t)) + 1
            BY <3>1, CountsAreNat, FS_AddElement
        <3>3. token'[t].uses = token[t].uses + 1
            BY <1>1, <1>2, <2>2 DEF EnrollInv, EnrollTypeOK
        <3>4. /\ issued[t] + wasted[t] + Cardinality(Issuing(t)) = token[t].uses
              /\ Cardinality(EnrolledWith(t)) + Cardinality(Answering(t)) <= issued[t]
              /\ IsFiniteSet(EnrolledWith(t))
            BY DEF EnrollInv, UsesOK
        <3>5. /\ issued[t] \in Nat /\ wasted[t] \in Nat
              /\ Cardinality(Issuing(t)) \in Nat /\ token[t].uses \in Nat
            BY CountsAreNat, ServerAssumption
        <3> QED
            BY <1>2, <2>1, <3>2, <3>3, <3>4, <3>5
    <2>3. CASE t # r.with
        <3>1. Issuing(t)' = Issuing(t)
            BY <1>1, <1>2, <1>3, <2>3 DEF Issuing
        <3>2. token'[t] = token[t]
            BY <1>2, <2>3 DEF EnrollInv, EnrollTypeOK
        <3> QED
            BY <1>2, <2>1, <3>1, <3>2 DEF EnrollInv, UsesOK
    <2> QED
        BY <2>2, <2>3
<1> QED
    BY <1>4, <1>5, <1>6 DEF EnrollInv

\* A request turns its use into a credential.
LEMMA IssueKeepsUses ==
    ASSUME EnrollInv, NEW r \in requests, IssueMachineToken(r)
    PROVE  EnrollInv'
<1> DEFINE n == [r EXCEPT !.step = "answer"]
<1>1. r \in Requests /\ r.step = "issue" /\ r.with \in Token
    BY DEF IssueMachineToken, EnrollInv, EnrollTypeOK, Requests
<1>2. /\ requests' = (requests \ {r}) \cup {n}
      /\ issued' = [issued EXCEPT ![r.with] = @ + 1]
      /\ UNCHANGED <<token, enrolled, attempts, wasted>>
    BY DEF IssueMachineToken, Moves
<1>3. n \in Requests /\ n.number = r.number /\ n.step = "answer" /\ n.with = r.with
    BY <1>1 DEF Requests
<1> HIDE DEF n
<1>4. requests' \subseteq Requests /\ RequestsOK' /\ n \notin requests \ {r}
    BY <1>2, <1>3, ReplacingKeepsRequests
<1>5. EnrollTypeOK'
    BY <1>1, <1>2, <1>4 DEF EnrollInv, EnrollTypeOK
<1>6. UsesOK'
    <2> SUFFICES ASSUME NEW t \in Token
                 PROVE  /\ IsFiniteSet(EnrolledWith(t)')
                        /\ Cardinality(EnrolledWith(t)') + Cardinality(Answering(t)') <= issued'[t]
                        /\ issued'[t] + wasted'[t] + Cardinality(Issuing(t)') = token'[t].uses
        BY DEF UsesOK, EnrolledWith, Answering, Issuing
    <2>1. EnrolledWith(t)' = EnrolledWith(t)
        BY <1>2 DEF EnrolledWith
    <2>2. CASE t = r.with
        <3>1. /\ Issuing(t)' = Issuing(t) \ {r} /\ r \in Issuing(t)
              /\ Answering(t)' = Answering(t) \cup {n} /\ n \notin Answering(t)
            BY <1>1, <1>2, <1>3, <1>4, <2>2 DEF Issuing, Answering
        <3>2. /\ Cardinality(Issuing(t)') = Cardinality(Issuing(t)) - 1
              /\ Cardinality(Answering(t)') = Cardinality(Answering(t)) + 1
            <4>1. IsFiniteSet(Issuing(t)) /\ IsFiniteSet(Answering(t))
                BY CountsAreNat
            <4>2. Cardinality(Issuing(t)') = Cardinality(Issuing(t)) - 1
                BY <3>1, <4>1, FS_RemoveElement
            <4>3. Cardinality(Answering(t)') = Cardinality(Answering(t)) + 1
                BY <3>1, <4>1, FS_AddElement
            <4> QED
                BY <4>2, <4>3
        <3>3. issued'[t] = issued[t] + 1
            BY <1>2, <2>2 DEF EnrollInv, EnrollTypeOK
        <3> QED
            BY <1>2, <2>1, <3>2, <3>3, CountsAreNat DEF EnrollInv, UsesOK
    <2>3. CASE t # r.with
        <3>1. Issuing(t)' = Issuing(t) /\ Answering(t)' = Answering(t)
            BY <1>1, <1>2, <1>3, <2>3 DEF Issuing, Answering
        <3>2. issued'[t] = issued[t]
            BY <1>2, <2>3 DEF EnrollInv, EnrollTypeOK
        <3> QED
            BY <1>2, <2>1, <3>1, <3>2 DEF EnrollInv, UsesOK
    <2> QED
        BY <2>2, <2>3
<1> QED
    BY <1>4, <1>5, <1>6 DEF EnrollInv

\* An answer is stored by the machine it was for, or by none.
LEMMA AnswerKeepsUses ==
    ASSUME EnrollInv, NEW r \in requests, RegisterAnswers(r)
    PROVE  EnrollInv'
<1>1. r \in Requests /\ r.step = "answer" /\ r.with \in Token /\ r.from \in Machine
    BY DEF RegisterAnswers, EnrollInv, EnrollTypeOK, Requests
<1>2. /\ requests' = requests \ {r}
      /\ enrolled' \in {enrolled, [enrolled EXCEPT ![r.from] = r.with]}
      /\ UNCHANGED <<token, attempts, issued, wasted>>
    BY DEF RegisterAnswers
<1>3. requests' \subseteq Requests /\ RequestsOK'
    BY <1>2, RemovingKeepsRequests
<1>4. EnrollTypeOK'
    BY <1>1, <1>2, <1>3 DEF EnrollInv, EnrollTypeOK
<1>5. UsesOK'
    <2> SUFFICES ASSUME NEW t \in Token
                 PROVE  /\ IsFiniteSet(EnrolledWith(t)')
                        /\ Cardinality(EnrolledWith(t)') + Cardinality(Answering(t)') <= issued'[t]
                        /\ issued'[t] + wasted'[t] + Cardinality(Issuing(t)') = token'[t].uses
        BY DEF UsesOK, EnrolledWith, Answering, Issuing
    <2>1. Issuing(t)' = Issuing(t)
        BY <1>1, <1>2 DEF Issuing
    <2>2. CASE t = r.with
        <3>1. Answering(t)' = Answering(t) \ {r} /\ r \in Answering(t)
            BY <1>1, <1>2, <2>2 DEF Answering
        <3>2. Cardinality(Answering(t)') = Cardinality(Answering(t)) - 1
            BY <3>1, CountsAreNat, FS_RemoveElement
        <3>3. EnrolledWith(t)' \in SUBSET (EnrolledWith(t) \cup {r.from})
            BY <1>1, <1>2 DEF EnrolledWith, EnrollInv, EnrollTypeOK
        <3>4. /\ IsFiniteSet(EnrolledWith(t) \cup {r.from})
              /\ Cardinality(EnrolledWith(t) \cup {r.from}) <= Cardinality(EnrolledWith(t)) + 1
              /\ Cardinality(EnrolledWith(t) \cup {r.from}) \in Nat
            <4>1. IsFiniteSet(EnrolledWith(t)) /\ Cardinality(EnrolledWith(t)) \in Nat
                BY CountsAreNat
            <4>2. /\ IsFiniteSet(EnrolledWith(t) \cup {r.from})
                  /\ Cardinality(EnrolledWith(t) \cup {r.from}) \in
                        {Cardinality(EnrolledWith(t)), Cardinality(EnrolledWith(t)) + 1}
                BY <4>1, FS_AddElement
            <4> QED
                BY <4>1, <4>2
        <3>5. /\ IsFiniteSet(EnrolledWith(t)')
              /\ Cardinality(EnrolledWith(t)') \in Nat
              /\ Cardinality(EnrolledWith(t)') <= Cardinality(EnrolledWith(t) \cup {r.from})
            BY <3>3, <3>4, FS_Subset, FS_CardinalityType
        <3> QED
            BY <1>2, <2>1, <3>2, <3>4, <3>5, CountsAreNat DEF EnrollInv, UsesOK
    <2>3. CASE t # r.with
        <3>1. Answering(t)' = Answering(t)
            BY <1>2, <2>3 DEF Answering
        <3>2. EnrolledWith(t)' \in SUBSET EnrolledWith(t)
            BY <1>1, <1>2, <2>3 DEF EnrolledWith, EnrollInv, EnrollTypeOK
        <3>3. /\ IsFiniteSet(EnrolledWith(t)')
              /\ Cardinality(EnrolledWith(t)') \in Nat
              /\ Cardinality(EnrolledWith(t)') <= Cardinality(EnrolledWith(t))
            BY <3>2, CountsAreNat, FS_Subset, FS_CardinalityType
        <3> QED
            BY <1>2, <2>1, <3>1, <3>3, CountsAreNat DEF EnrollInv, UsesOK
    <2> QED
        BY <2>2, <2>3
<1> QED
    BY <1>3, <1>4, <1>5 DEF EnrollInv

\* Whether anybody still listens makes no difference to a use.
LEMMA GiveUpKeepsUses ==
    ASSUME EnrollInv, NEW r \in requests, GiveUp(r)
    PROVE  EnrollInv'
<1> DEFINE n == [r EXCEPT !.heard = FALSE]
<1>1. r \in Requests
    BY DEF EnrollInv, EnrollTypeOK
<1>2. /\ requests' = (requests \ {r}) \cup {n}
      /\ UNCHANGED <<token, enrolled, attempts, issued, wasted>>
    BY DEF GiveUp
<1>3. n \in Requests /\ n.number = r.number /\ n.step = r.step /\ n.with = r.with
    BY <1>1 DEF Requests
<1> HIDE DEF n
<1>4. requests' \subseteq Requests /\ RequestsOK' /\ n \notin requests \ {r}
    BY <1>2, <1>3, ReplacingKeepsRequests
<1>5. EnrollTypeOK'
    BY <1>2, <1>4 DEF EnrollInv, EnrollTypeOK
<1>6. ASSUME NEW S \in SUBSET requests, NEW T,
             T = IF r \in S THEN (S \ {r}) \cup {n} ELSE S
      PROVE  Cardinality(T) = Cardinality(S)
    <2>1. IsFiniteSet(S) /\ Cardinality(S) \in Nat
        BY PartsAreFinite DEF EnrollInv, RequestsOK
    <2>2. CASE r \in S
        <3>1. /\ IsFiniteSet(S \ {r}) /\ Cardinality(S \ {r}) = Cardinality(S) - 1
              /\ n \notin S \ {r}
            BY <1>4, <2>1, <2>2, FS_RemoveElement
        <3>2. Cardinality((S \ {r}) \cup {n}) = Cardinality(S \ {r}) + 1
            BY <3>1, FS_AddElement
        <3> QED
            BY <1>6, <2>1, <2>2, <3>1, <3>2
    <2> QED
        BY <1>6, <2>2
<1>7. UsesOK'
    <2> SUFFICES ASSUME NEW t \in Token
                 PROVE  /\ EnrolledWith(t)' = EnrolledWith(t)
                        /\ Cardinality(Answering(t)') = Cardinality(Answering(t))
                        /\ Cardinality(Issuing(t)') = Cardinality(Issuing(t))
        BY <1>2 DEF EnrollInv, UsesOK, EnrolledWith, Answering, Issuing
    <2>1. EnrolledWith(t)' = EnrolledWith(t)
        BY <1>2 DEF EnrolledWith
    <2>2. /\ Answering(t) \in SUBSET requests
          /\ Answering(t)' = IF r \in Answering(t) THEN (Answering(t) \ {r}) \cup {n}
                             ELSE Answering(t)
        BY <1>2, <1>3 DEF Answering
    <2>3. /\ Issuing(t) \in SUBSET requests
          /\ Issuing(t)' = IF r \in Issuing(t) THEN (Issuing(t) \ {r}) \cup {n}
                           ELSE Issuing(t)
        BY <1>2, <1>3 DEF Issuing
    <2> QED
        BY <1>6, <2>1, <2>2, <2>3
<1> QED
    BY <1>4, <1>5, <1>7 DEF EnrollInv

-----------------------------------------------------------------------------
(* The server.                                                             *)

\* Who waits, waits for a process that serves or ends what it began.
WaitingOK ==
    /\ \A b \in Browser :
          callback[b] # NoCallback => stage[callback[b].at] \in {"serving", "stopping"}
    /\ \A r \in requests : stage[r.at] \in {"serving", "stopping"}

Inv == SchemaInv /\ SignInInv /\ EnrollInv /\ WaitingOK

LEMMA InvInit == Init => Inv
<1> SUFFICES ASSUME Init PROVE Inv
    OBVIOUS
<1>1. SchemaInv
    BY SchemaInit DEF Init
<1>2. SignInInv
    BY ServerAssumption DEF Init, SignInInv, SignInTypeOK, OwnOK, None
<1>3. EnrollTypeOK
    BY ServerAssumption DEF Init, EnrollTypeOK, None
<1>4. RequestsOK
    BY FS_EmptySet DEF Init, RequestsOK
<1>5. UsesOK
    <2> SUFFICES ASSUME NEW t \in Token
                 PROVE  /\ IsFiniteSet(EnrolledWith(t))
                        /\ Cardinality(EnrolledWith(t)) + Cardinality(Answering(t)) <= issued[t]
                        /\ issued[t] + wasted[t] + Cardinality(Issuing(t)) = token[t].uses
        BY DEF UsesOK
    <2>1. EnrolledWith(t) = {} /\ Answering(t) = {} /\ Issuing(t) = {}
        BY ServerAssumption DEF Init, EnrolledWith, Answering, Issuing
    <2>2. issued[t] = 0 /\ wasted[t] = 0 /\ token[t].uses = 0
        BY DEF Init
    <2> QED
        BY <2>1, <2>2, FS_EmptySet
<1>6. WaitingOK
    BY DEF Init, WaitingOK
<1> QED
    BY <1>1, <1>2, <1>3, <1>4, <1>5, <1>6 DEF Inv, EnrollInv

LEMMA SignInNext ==
    ASSUME Inv, [Next]_vars
    PROVE  SignInInv'
<1> USE DEF Inv
<1>1. ASSUME UNCHANGED signInVars
      PROVE  SignInInv'
    BY <1>1 DEF signInVars, SignInInv, SignInTypeOK, OwnOK
<1>2. ASSUME NEW p \in Process, Run(p) PROVE SignInInv'
    BY <1>1, <1>2 DEF Run
<1>3. ASSUME NEW p \in Process, Ends(p) PROVE SignInInv'
    <2>1. /\ UNCHANGED <<starter, codes, jar, sessions>>
          /\ callback' = [b \in Browser |->
                IF callback[b] # NoCallback /\ callback[b].at = p THEN NoCallback ELSE callback[b]]
        BY <1>3 DEF Ends
    <2>2. /\ callback' \in [Browser -> Callbacks \cup {NoCallback}]
          /\ \A b \in Browser : callback'[b] \in {callback[b], NoCallback}
        BY <2>1 DEF SignInInv, SignInTypeOK
    <2> QED
        BY <2>1, <2>2, LosingKeepsSignIn DEF SignInInv, SignInTypeOK
<1>4. CASE Enrollment
    <2>1. UNCHANGED signInVars
        BY <1>4 DEF Enrollment, OperatorCreates, OperatorRevokes, TokenExpires,
            DashboardCreates, DashboardRevokes, Created, Revoked, Register,
            RedeemEnrollmentToken, IssueMachineToken, RegisterFails, RegisterAnswers, GiveUp
    <2> QED
        BY <1>1, <2>1
<1>5. ASSUME NEW b \in Browser,
             \/ StateExpires(b) \/ CallbackIsLost(b)
             \/ \E p \in Process : SessionEnded(b, p) \/ AuthLogout(b, p)
      PROVE  SignInInv'
    <2>1. /\ UNCHANGED <<starter, codes>> /\ sessions' \subseteq sessions
          /\ callback' \in {callback, [callback EXCEPT ![b] = NoCallback]}
          /\ jar' \in {jar, [jar EXCEPT ![b].state = None], [jar EXCEPT ![b].session = None]}
        BY <1>5 DEF StateExpires, CallbackIsLost, SessionEnded, AuthLogout
    <2>2. /\ callback' \in [Browser -> Callbacks \cup {NoCallback}]
          /\ \A c \in Browser : callback'[c] \in {callback[c], NoCallback}
        BY <2>1 DEF SignInInv, SignInTypeOK
    <2>3. /\ jar' \in [Browser -> [state : 0 .. Len(starter), session : 0 .. Len(starter)]]
          /\ \A c \in Browser : /\ jar'[c].state \in {jar[c].state, None}
                                /\ jar'[c].session \in {jar[c].session, None}
        <3> DEFINE J == [state : 0 .. Len(starter), session : 0 .. Len(starter)]
        <3>1. None \in 0 .. Len(starter) /\ jar \in [Browser -> J]
            BY DEF None, SignInInv, SignInTypeOK
        <3>2. CASE jar' = jar
            BY <3>1, <3>2
        <3>3. CASE jar' = [jar EXCEPT ![b].state = None]
            BY <3>1, <3>3
        <3>4. CASE jar' = [jar EXCEPT ![b].session = None]
            BY <3>1, <3>4
        <3> QED
            BY <2>1, <3>2, <3>3, <3>4
    <2> QED
        BY <2>1, <2>2, <2>3, LosingKeepsSignIn DEF SignInInv, SignInTypeOK
<1>6. ASSUME NEW b \in Browser, ExchangeCode(b) PROVE SignInInv'
    BY <1>6, ProceedingKeepsSignIn DEF ExchangeCode
<1>7. ASSUME NEW b \in Browser, CreateSession(b) PROVE SignInInv'
    BY <1>7, ProceedingKeepsSignIn DEF CreateSession
<1>8. ASSUME NEW b \in Browser, CallbackFails(b) PROVE SignInInv'
    BY <1>8, ProceedingKeepsSignIn DEF CallbackFails
<1>9. ASSUME NEW n \in SignIns, Authorize(n) \/ SessionExpires(n) PROVE SignInInv'
    <2>1. /\ UNCHANGED <<starter, jar, callback>>
          /\ codes' \subseteq DOMAIN starter /\ sessions' \subseteq sessions
        BY <1>9 DEF Authorize, SessionExpires, SignInInv, SignInTypeOK
    <2> QED
        BY <2>1, LosingKeepsSignIn DEF SignInInv, SignInTypeOK
<1>10. CASE SignIn
    BY <1>5, <1>6, <1>7, <1>8, <1>9, <1>10, AuthStartKeepsSignIn, AuthCallbackKeepsSignIn,
       CallbackAnswersKeepsSignIn DEF SignIn, SchemaInv, EnrollInv
<1>11. CASE UNCHANGED vars
    BY <1>1, <1>11 DEF vars
<1> QED
    BY <1>2, <1>3, <1>4, <1>10, <1>11 DEF Next

LEMMA EnrollNext ==
    ASSUME Inv, [Next]_vars
    PROVE  EnrollInv'
<1> USE DEF Inv
<1>1. ASSUME UNCHANGED enrollVars
      PROVE  EnrollInv'
    BY <1>1 DEF enrollVars, EnrollInv, EnrollTypeOK, RequestsOK, UsesOK, EnrolledWith,
                Issuing, Answering
<1>2. ASSUME NEW p \in Process, Run(p) PROVE EnrollInv'
    BY <1>1, <1>2 DEF Run
<1>3. ASSUME NEW p \in Process, Ends(p) PROVE EnrollInv'
    <2>1. requests' = requests \ {r \in requests : r.at = p}
        BY <1>3 DEF Ends
    <2> QED
        BY <1>3, <2>1, WastingKeepsUses DEF Ends
<1>4. CASE SignIn
    <2>1. UNCHANGED enrollVars
        BY <1>4 DEF SignIn, StateExpires, ExchangeCode, CreateSession, CallbackFails,
            CallbackAnswers, CallbackIsLost, AuthStart, SessionEnded, AuthLogout,
            AuthCallback, Authorize, SessionExpires
    <2> QED
        BY <1>1, <2>1
<1>5. ASSUME NEW t \in Token, Created(t) \/ Revoked(t) PROVE EnrollInv'
    <2>1. PICK s \in {"usable", "dead"} : token' = [token EXCEPT ![t].status = s]
        BY <1>5 DEF Created, Revoked
    <2>2. UNCHANGED restOfTokens
        BY <1>5 DEF Created, Revoked
    <2>3. EnrollTypeOK'
        BY <2>1, <2>2 DEF EnrollInv, EnrollTypeOK, restOfTokens
    <2>4. RequestsOK'
        BY <2>2 DEF EnrollInv, RequestsOK, restOfTokens
    <2>5. \A u \in Token : token'[u].uses = token[u].uses
        BY <2>1 DEF EnrollInv, EnrollTypeOK
    <2>6. UsesOK'
        BY <2>2, <2>5 DEF EnrollInv, UsesOK, EnrolledWith, Issuing, Answering, restOfTokens
    <2> QED
        BY <2>3, <2>4, <2>6 DEF EnrollInv
<1>6. ASSUME NEW r \in requests, RegisterFails(r) PROVE EnrollInv'
    BY <1>6, WastingKeepsUses DEF RegisterFails
<1>7. CASE Enrollment
    BY <1>5, <1>6, <1>7, RegisterKeepsUses, RedeemKeepsUses, IssueKeepsUses, AnswerKeepsUses,
       GiveUpKeepsUses
       DEF Enrollment, OperatorCreates, OperatorRevokes, TokenExpires, DashboardCreates,
           DashboardRevokes, SchemaInv, SignInInv
<1>8. CASE UNCHANGED vars
    BY <1>1, <1>8 DEF vars
<1> QED
    BY <1>2, <1>3, <1>4, <1>7, <1>8 DEF Next

LEMMA WaitingNext ==
    ASSUME Inv, [Next]_vars
    PROVE  WaitingOK'
<1> USE DEF Inv
<1>1. ASSUME UNCHANGED stage,
             \A b \in Browser : callback'[b] # NoCallback =>
                 callback[b] # NoCallback /\ callback'[b].at = callback[b].at,
             \A r \in requests' : \E q \in requests : q.at = r.at
      PROVE  WaitingOK'
    BY <1>1 DEF WaitingOK
<1>2. ASSUME NEW p \in Process, Run(p) PROVE WaitingOK'
    <2>1. UNCHANGED <<callback, requests>>
        BY <1>2 DEF Run, signInVars, enrollVars
    <2>2. \A q \in Process : stage[q] \in {"serving", "stopping"} => stage'[q] \in {"serving", "stopping"}
        BY <1>2
           DEF Run, Running, Open, AppliedMigrations, ApplyMigration, MigrateOnly, Migrated,
            Exit, Serve, Stop, Becomes, SchemaInv, MigrationsTypeOK
    <2>3. /\ \A b \in Browser : callback[b] # NoCallback => callback[b].at \in Process
          /\ \A r \in requests : r.at \in Process
        BY DEF SignInInv, SignInTypeOK, EnrollInv, EnrollTypeOK, Callbacks, Requests
    <2> QED
        BY <2>1, <2>2, <2>3 DEF WaitingOK
<1>3. ASSUME NEW p \in Process, Ends(p) PROVE WaitingOK'
    <2>1. \A b \in Browser : callback'[b] # NoCallback =>
              callback[b] # NoCallback /\ callback'[b] = callback[b] /\ callback[b].at # p
        BY <1>3 DEF Ends
    <2>2. \A r \in requests' : r \in requests /\ r.at # p
        BY <1>3 DEF Ends
    <2>3. \A q \in Process : q # p => stage'[q] = stage[q]
        BY <1>3 DEF Ends, Exit, Becomes, SchemaInv, MigrationsTypeOK
    <2>4. /\ \A b \in Browser : callback[b] # NoCallback => callback[b].at \in Process
          /\ \A r \in requests : r.at \in Process
        BY DEF SignInInv, SignInTypeOK, EnrollInv, EnrollTypeOK, Callbacks, Requests
    <2> QED
        BY <2>1, <2>2, <2>3, <2>4 DEF WaitingOK
<1>4. CASE SignIn
    <2>1. UNCHANGED <<stage, requests>>
        BY <1>4 DEF SignIn, StateExpires, ExchangeCode, CreateSession, CallbackFails,
            CallbackAnswers, CallbackIsLost, AuthStart, SessionEnded, AuthLogout,
            AuthCallback, Authorize, SessionExpires, processVars, enrollVars
    <2>2. ASSUME NEW b \in Browser, NEW n \in SignIns, NEW p \in Process, AuthCallback(b, n, p)
          PROVE  WaitingOK'
        <3>1. stage[p] = "serving"
            BY <2>2 DEF AuthCallback, Accepts
        <3>2. callback' = [callback EXCEPT ![b] = [step |-> "exchange", of |-> n, at |-> p]]
            BY <2>2 DEF AuthCallback
        <3> QED
            BY <2>1, <3>1, <3>2 DEF WaitingOK, SignInInv, SignInTypeOK
    <2>3. ASSUME NEW b \in Browser, NEW s, Proceeds(b, s), callback[b].step \in {"exchange", "session"}
          PROVE  WaitingOK'
        <3>1. /\ callback[b] \in Callbacks /\ callback[b] # NoCallback
              /\ callback' = [callback EXCEPT ![b].step = s]
            BY <2>3 DEF Proceeds, NoCallback, SignInInv, SignInTypeOK
        <3>2. \A c \in Browser : callback'[c] # NoCallback =>
                  callback[c] # NoCallback /\ callback'[c].at = callback[c].at
            BY <3>1 DEF SignInInv, SignInTypeOK, Callbacks
        <3> QED
            BY <1>1, <2>1, <3>2
    <2>4. ASSUME \A b \in Browser : callback'[b] \in {callback[b], NoCallback}
          PROVE  WaitingOK'
        BY <1>1, <2>1, <2>4
    <2>5. ASSUME NEW b \in Browser, ExchangeCode(b) \/ CreateSession(b) \/ CallbackFails(b)
          PROVE  WaitingOK'
        BY <2>3, <2>5 DEF ExchangeCode, CreateSession, CallbackFails
    <2>6. ASSUME NEW b \in Browser, CallbackAnswers(b) \/ CallbackIsLost(b)
          PROVE  WaitingOK'
        BY <2>4, <2>6 DEF CallbackAnswers, CallbackIsLost, SignInInv, SignInTypeOK
    <2>7. ASSUME UNCHANGED callback
          PROVE  WaitingOK'
        BY <2>4, <2>7
    <2> QED
        BY <1>4, <2>2, <2>5, <2>6, <2>7
           DEF SignIn, StateExpires, AuthStart, SessionEnded, AuthLogout, Authorize,
               SessionExpires
<1>5. CASE Enrollment
    <2>1. UNCHANGED <<stage, callback>>
        BY <1>5 DEF Enrollment, OperatorCreates, OperatorRevokes, TokenExpires,
            DashboardCreates, DashboardRevokes, Created, Revoked, Register,
            RedeemEnrollmentToken, IssueMachineToken, RegisterFails, RegisterAnswers, GiveUp,
            processVars, signInVars
    <2>2. ASSUME NEW m \in Machine, NEW t \in Token, NEW p \in Process, Register(m, t, p)
          PROVE  WaitingOK'
        BY <2>1, <2>2 DEF Register, Accepts, WaitingOK
    <2>3. ASSUME NEW r \in requests, NEW n, n.at = r.at, requests' \subseteq requests \cup {n}
          PROVE  WaitingOK'
        BY <2>1, <2>3 DEF WaitingOK
    <2>4. ASSUME NEW r \in requests,
                 \/ RedeemEnrollmentToken(r) \/ IssueMachineToken(r) \/ GiveUp(r)
                 \/ RegisterFails(r) \/ RegisterAnswers(r)
          PROVE  WaitingOK'
        <3>1. r \in Requests
            BY DEF EnrollInv, EnrollTypeOK
        <3>2. CASE RegisterFails(r) \/ RegisterAnswers(r)
            BY <2>3, <3>2 DEF RegisterFails, RegisterAnswers
        <3>3. ASSUME NEW s, Moves(r, s) PROVE WaitingOK'
            <4>1. [r EXCEPT !.step = s].at = r.at
                BY <3>1 DEF Requests
            <4> QED
                BY <2>3, <3>3, <4>1 DEF Moves
        <3>4. CASE GiveUp(r)
            <4>1. [r EXCEPT !.heard = FALSE].at = r.at
                BY <3>1 DEF Requests
            <4> QED
                BY <2>3, <3>4, <4>1 DEF GiveUp
        <3> QED
            BY <2>4, <3>2, <3>3, <3>4 DEF RedeemEnrollmentToken, IssueMachineToken
    <2>5. ASSUME UNCHANGED requests
          PROVE  WaitingOK'
        BY <2>1, <2>5 DEF WaitingOK
    <2> QED
        BY <1>5, <2>2, <2>4, <2>5
           DEF Enrollment, OperatorCreates, OperatorRevokes, TokenExpires, DashboardCreates,
               DashboardRevokes, Created, Revoked, restOfTokens
<1>6. CASE UNCHANGED vars
    BY <1>1, <1>6 DEF vars, processVars, signInVars, enrollVars
<1> QED
    BY <1>2, <1>3, <1>4, <1>5, <1>6 DEF Next

\* The whole of the server's invariant.
THEOREM Invariant == Spec => []Inv
<1>1. Init => Inv
    BY InvInit
<1>2. Inv /\ [Next]_vars => Inv'
    <2> SUFFICES ASSUME Inv, [Next]_vars PROVE Inv'
        OBVIOUS
    <2>1. SchemaInv'
        BY SchemaNext DEF Inv
    <2> QED
        BY <2>1, SignInNext, EnrollNext, WaitingNext DEF Inv
<1> QED
    BY <1>1, <1>2, PTL DEF Spec

\* Every variable keeps its type, and nobody waits for the answer of a process
\* that is gone.
THEOREM TypeCorrect == Spec => []TypeOK
<1>1. Inv => TypeOK
    BY DEF Inv, SchemaInv, SignInInv, EnrollInv, WaitingOK, TypeOK, NobodyWaitsInVain
<1> QED
    BY <1>1, Invariant, PTL

\* The session in a browser was begun there, however its tabs, its callbacks and
\* everybody else's overlap (handleAuthCallback).
THEOREM SessionIsOwnTheorem == Spec => []SessionIsOwn
<1>1. Inv => SessionIsOwn
    <2> SUFFICES ASSUME Inv, NEW b \in Browser, SignedIn(b)
                 PROVE  starter[jar[b].session] = b
        BY DEF SessionIsOwn
    <2>1. jar[b].session # None
        BY DEF Inv, SignInInv, SignInTypeOK, SignedIn, None
    <2> QED
        BY <2>1 DEF Inv, SignInInv, OwnOK
<1> QED
    BY <1>1, Invariant, PTL

\* A token's uses are credentials, enrollments under way, or wasted, and never
\* more than it may have (RedeemEnrollmentToken).
THEOREM UsesAreAccountedTheorem == Spec => []UsesAreAccounted
<1>1. Inv => UsesAreAccounted
    <2> SUFFICES ASSUME Inv, NEW t \in Token
                 PROVE  /\ Cardinality(EnrolledWith(t)) <= issued[t]
                        /\ issued[t] + wasted[t] + Cardinality(Issuing(t)) = token[t].uses
                        /\ token[t].uses <= MaxUses
        BY DEF UsesAreAccounted, EnrolledWith, Issuing
    <2>1. /\ Cardinality(EnrolledWith(t)) + Cardinality(Answering(t)) <= issued[t]
          /\ issued[t] + wasted[t] + Cardinality(Issuing(t)) = token[t].uses
        BY DEF Inv, EnrollInv, UsesOK
    <2> QED
        BY <2>1, CountsAreNat, ServerAssumption DEF Inv
<1> QED
    BY <1>1, Invariant, PTL

-----------------------------------------------------------------------------
(* RateLimit: the limiter keeps close to the exact bucket.                 *)
(*                                                                         *)
(* What a bucket would hold now, were it refilled now, is Due: the ample   *)
(* reference never holds less, up to its size, and the strict one never    *)
(* more.  A bucket is forgotten only when it would be full, whatever the   *)
(* lag took from it: that is where IdleAfter has to be long enough.        *)

Due(k) == level[k] + (now - last[k])

ClocksOK == \A c \in calls : c.at <= now /\ now <= c.at + Lag

BucketsOK == \A k \in tracked : last[k] <= now /\ Due(k) >= 0

AmpleOK ==
    \A k \in Key :
        /\ ample[k] <= Full + Lag
        /\ k \in tracked => \/ ample[k] >= Due(k)
                            \/ ample[k] >= Full + Lag
        /\ k \notin tracked => ample[k] >= Full + Lag

StrictOK ==
    \A k \in Key :
        /\ strict[k] <= Full
        /\ k \in tracked => strict[k] <= Due(k)

LimiterInv == LimiterTypeOK /\ ClocksOK /\ BucketsOK /\ AmpleOK /\ StrictOK /\ RefusedWhenSpent

-----------------------------------------------------------------------------
(* The size of a bucket, and what a call finds in one.                     *)

\* A bucket holds at least one token.
LEMMA FullHoldsOne == Full \in Nat /\ Full >= Every /\ Every \in Nat /\ Every >= 1
<1>1. Burst \in Nat /\ Every \in Nat /\ Burst >= 1 /\ Every >= 1
  BY RateLimitAssumption
<1>2. Burst * Every \in Nat /\ Burst * Every >= Every
  BY <1>1, SMT
<1> QED
  BY <1>1, <1>2 DEF Full

\* What sweep forgets would be full by now, whatever the lag took from it.
LEMMA ForgottenIsFull ==
    ASSUME LimiterInv, NEW c \in calls, NEW k \in tracked, k \notin Kept(c)
    PROVE  Due(k) >= Full + Lag
<1>1. /\ c.at \in Int /\ now \in Int /\ last[k] \in Int /\ level[k] \in Int
      /\ level[k] >= -Lag /\ c.at <= now
  BY RateLimitAssumption, FullHoldsOne DEF LimiterInv, LimiterTypeOK, ClocksOK, Call
<1>2. c.at - last[k] > IdleAfter
  BY <1>1, RateLimitAssumption DEF Kept
<1> QED
  BY <1>1, <1>2, RateLimitAssumption, FullHoldsOne DEF Due

\* A call that is answered finds no more than a full bucket, not too little for
\* its type, and, at the time it is served, no more than both references allow.
LEMMA FoundIsFair ==
    ASSUME LimiterInv, NEW c \in calls
    PROVE  /\ Found(c) \in -Lag .. Full
           /\ Found(c) + (now - c.at) >= 0
           /\ \/ ample[c.key] >= Found(c) + (now - c.at)
              \/ ample[c.key] >= Full + Lag
           /\ strict[c.key] <= Found(c) + (now - c.at)
<1> DEFINE k == c.key
<1>1. /\ k \in Key /\ c.at \in Int /\ now \in Int /\ c.at <= now /\ now <= c.at + Lag
      /\ ample[k] \in Int /\ strict[k] \in Int /\ strict[k] <= Full
      /\ level[k] \in Int /\ last[k] \in Int
  BY RateLimitAssumption, FullHoldsOne DEF LimiterInv, LimiterTypeOK, ClocksOK, StrictOK, Call
<1>2. CASE k \in Kept(c)
  <2>1. k \in tracked
    BY <1>2 DEF Kept
  <2>2. Found(c) = AtMost(level[k] + (c.at - last[k]), Full)
    BY <1>2 DEF Found, Refill
  <2>3. /\ level[k] + (now - last[k]) >= 0
        /\ strict[k] <= level[k] + (now - last[k])
        /\ \/ ample[k] >= level[k] + (now - last[k])
           \/ ample[k] >= Full + Lag
    BY <1>1, <2>1 DEF LimiterInv, BucketsOK, AmpleOK, StrictOK, Due
  <2>4. CASE level[k] + (c.at - last[k]) > Full
    BY <1>1, <2>2, <2>3, <2>4, RateLimitAssumption, FullHoldsOne DEF AtMost
  <2>5. CASE ~ (level[k] + (c.at - last[k]) > Full)
    BY <1>1, <2>2, <2>3, <2>5, RateLimitAssumption, FullHoldsOne DEF AtMost
  <2> QED
    BY <2>4, <2>5
<1>3. CASE k \notin Kept(c)
  <2>1. Found(c) = Full
    BY <1>3 DEF Found
  <2>2. ample[k] >= Full + Lag
    <3>1. CASE k \in tracked
      BY <1>1, <1>3, <3>1, ForgottenIsFull, RateLimitAssumption, FullHoldsOne
         DEF LimiterInv, AmpleOK, Due
    <3>2. CASE k \notin tracked
      BY <1>1, <3>2 DEF LimiterInv, AmpleOK
    <3> QED
      BY <3>1, <3>2
  <2> QED
    BY <1>1, <2>1, <2>2, RateLimitAssumption, FullHoldsOne
<1> QED
  BY <1>2, <1>3

-----------------------------------------------------------------------------
(* The invariant.                                                          *)

\* At the start there is no bucket.
LEMMA LimiterInitInv == LimiterInit => LimiterInv
BY RateLimitAssumption, FullHoldsOne
   DEF LimiterInit, LimiterInv, LimiterTypeOK, ClocksOK, BucketsOK, AmpleOK, StrictOK,
       RefusedWhenSpent

\* A call that reads the clock.
LEMMA ArriveInv ==
    ASSUME LimiterInv, NEW p \in Caller, NEW k \in Key, Arrive(p, k)
    PROVE  LimiterInv'
BY RateLimitAssumption
   DEF LimiterInv, LimiterTypeOK, ClocksOK, BucketsOK, AmpleOK, StrictOK, RefusedWhenSpent,
       Due, Arrive, Call

\* Time passes: every bucket would hold one more, up to its size.
LEMMA TickInv == ASSUME LimiterInv, Tick PROVE LimiterInv'
<1>1. LimiterTypeOK'
  BY RateLimitAssumption, FullHoldsOne DEF LimiterInv, LimiterTypeOK, Tick, AtMost, Call
<1>2. ClocksOK'
  BY RateLimitAssumption DEF LimiterInv, LimiterTypeOK, ClocksOK, Tick, Call
<1>3. BucketsOK'
  BY RateLimitAssumption, FullHoldsOne DEF LimiterInv, LimiterTypeOK, BucketsOK, Due, Tick
<1>4. AmpleOK'
  <2> SUFFICES ASSUME NEW k \in Key
               PROVE  /\ ample'[k] <= Full + Lag
                      /\ k \in tracked' => \/ ample'[k] >= Due(k)'
                                           \/ ample'[k] >= Full + Lag
                      /\ k \notin tracked' => ample'[k] >= Full + Lag
    BY DEF AmpleOK
  <2>1. ample'[k] = AtMost(ample[k] + 1, Full + Lag)
    BY DEF Tick
  <2>2. Due(k)' = Due(k) + 1 /\ tracked' = tracked /\ Due(k) \in Int /\ ample[k] \in Int
    BY RateLimitAssumption, FullHoldsOne DEF LimiterInv, LimiterTypeOK, Due, Tick
  <2> QED
    BY <2>1, <2>2, RateLimitAssumption, FullHoldsOne DEF LimiterInv, AmpleOK, AtMost
<1>5. StrictOK'
  <2> SUFFICES ASSUME NEW k \in Key
               PROVE  /\ strict'[k] <= Full
                      /\ k \in tracked' => strict'[k] <= Due(k)'
    BY DEF StrictOK
  <2>1. strict'[k] = AtMost(strict[k] + 1, Full)
    BY DEF Tick
  <2>2. Due(k)' = Due(k) + 1 /\ tracked' = tracked /\ Due(k) \in Int /\ strict[k] \in Int
    BY RateLimitAssumption, FullHoldsOne DEF LimiterInv, LimiterTypeOK, Due, Tick
  <2> QED
    BY <2>1, <2>2, RateLimitAssumption, FullHoldsOne DEF LimiterInv, StrictOK, AtMost
<1>6. RefusedWhenSpent'
  BY DEF Tick, RefusedWhenSpent
<1> QED
  BY <1>1, <1>2, <1>3, <1>4, <1>5, <1>6 DEF LimiterInv

\* A call is answered.
LEMMA AllowInv == ASSUME LimiterInv, NEW c \in calls, Allow(c) PROVE LimiterInv'
<1> DEFINE k == c.key
           cost == IF Found(c) >= Every THEN Every ELSE 0
<1>1. /\ k \in Key /\ c.at \in 0 .. MaxTime /\ now \in 0 .. MaxTime
      /\ c.at <= now /\ now <= c.at + Lag
  BY RateLimitAssumption DEF LimiterInv, LimiterTypeOK, ClocksOK, Call
<1>2. /\ Found(c) \in -Lag .. Full
      /\ Found(c) + (now - c.at) >= 0
      /\ \/ ample[k] >= Found(c) + (now - c.at)
         \/ ample[k] >= Full + Lag
      /\ strict[k] <= Found(c) + (now - c.at)
  BY FoundIsFair
<1>3. cost \in Nat /\ Found(c) - cost \in -Lag .. Full /\ (cost = 0 \/ cost = Every)
      /\ (Found(c) - cost) + (now - c.at) >= 0
  BY <1>1, <1>2, RateLimitAssumption, FullHoldsOne
<1>4. /\ level' = [level EXCEPT ![k] = Found(c) - cost]
      /\ ample' = [ample EXCEPT ![k] = @ - cost]
      /\ strict' = [strict EXCEPT ![k] = @ - cost]
  <2>1. CASE Allowed(c)
    BY <2>1 DEF Allowed
  <2>2. CASE Refused(c)
    <3>1. cost = 0 /\ Found(c) - cost = Found(c)
      BY <2>2, <1>2, RateLimitAssumption, FullHoldsOne DEF Refused
    <3>2. ample[k] - 0 = ample[k] /\ strict[k] - 0 = strict[k]
      BY <1>1 DEF LimiterInv, LimiterTypeOK
    <3>3. /\ ample = [ample EXCEPT ![k] = @ - 0]
          /\ strict = [strict EXCEPT ![k] = @ - 0]
      BY <1>1, <3>2 DEF LimiterInv, LimiterTypeOK
    <3> QED
      BY <2>2, <3>1, <3>3 DEF Refused
  <2> QED
    BY <2>1, <2>2 DEF Allow
<1>5. /\ last' = [last EXCEPT ![k] = c.at]
      /\ tracked' = Kept(c) \cup {k} /\ Kept(c) \subseteq tracked
      /\ now' = now /\ calls' = calls \ {c}
      /\ swept' \in Int
  BY <1>1 DEF Allow, Sweep, Kept, LimiterInv, LimiterTypeOK
<1>6. /\ level'[k] = Found(c) - cost /\ last'[k] = c.at
      /\ ample'[k] = ample[k] - cost /\ strict'[k] = strict[k] - cost
      /\ Due(k)' = (Found(c) - cost) + (now - c.at)
  BY <1>1, <1>4, <1>5 DEF LimiterInv, LimiterTypeOK, Due
<1>7. ASSUME NEW j \in Key, j # k
      PROVE  /\ level'[j] = level[j] /\ last'[j] = last[j]
             /\ ample'[j] = ample[j] /\ strict'[j] = strict[j]
             /\ Due(j)' = Due(j)
             /\ (j \in tracked') <=> (j \in Kept(c))
  BY <1>1, <1>4, <1>5, <1>7 DEF LimiterInv, LimiterTypeOK, Due
<1> HIDE DEF cost
<1>8. LimiterTypeOK'
  <2>1. refused' \subseteq Key
    BY <1>1 DEF Allow, Allowed, Refused
  <2>2. /\ level' \in [Key -> -Lag .. Full] /\ last' \in [Key -> 0 .. MaxTime]
        /\ ample' \in [Key -> Int] /\ strict' \in [Key -> Int]
    BY <1>1, <1>3, <1>4, <1>5 DEF LimiterInv, LimiterTypeOK
  <2> QED
    BY <1>1, <1>5, <2>1, <2>2 DEF LimiterInv, LimiterTypeOK
<1>9. ClocksOK'
  BY <1>5 DEF LimiterInv, ClocksOK
<1>10. BucketsOK'
  <2> SUFFICES ASSUME NEW j \in tracked' PROVE last'[j] <= now' /\ Due(j)' >= 0
    BY DEF BucketsOK
  <2>1. CASE j = k
    BY <1>1, <1>3, <1>5, <1>6, <2>1
  <2>2. CASE j # k
    BY <1>5, <1>7, <2>2 DEF LimiterInv, LimiterTypeOK, BucketsOK
  <2> QED
    BY <2>1, <2>2
<1>11. AmpleOK'
  <2> SUFFICES ASSUME NEW j \in Key
               PROVE  /\ ample'[j] <= Full + Lag
                      /\ j \in tracked' => \/ ample'[j] >= Due(j)'
                                           \/ ample'[j] >= Full + Lag
                      /\ j \notin tracked' => ample'[j] >= Full + Lag
    BY DEF AmpleOK
  <2>1. ample[j] \in Int /\ ample[j] <= Full + Lag
    BY DEF LimiterInv, LimiterTypeOK, AmpleOK
  <2>2. CASE j = k
    <3>1. j \in tracked'
      BY <1>5, <2>2
    <3>2. Found(c) + (now - c.at) <= Full + Lag
      BY <1>1, <1>2, RateLimitAssumption, FullHoldsOne
    <3> QED
      BY <1>1, <1>2, <1>3, <1>6, <2>1, <2>2, <3>1, <3>2, RateLimitAssumption, FullHoldsOne
  <2>3. CASE j # k /\ j \in Kept(c)
    BY <1>5, <1>7, <2>1, <2>3 DEF LimiterInv, AmpleOK
  <2>4. CASE j # k /\ j \in tracked /\ j \notin Kept(c)
    <3>1. Due(j) >= Full + Lag /\ Due(j) \in Int
      BY <2>4, ForgottenIsFull DEF LimiterInv, LimiterTypeOK, Due
    <3> QED
      BY <1>7, <2>1, <2>4, <3>1, RateLimitAssumption, FullHoldsOne DEF LimiterInv, AmpleOK
  <2>5. CASE j # k /\ j \notin tracked
    BY <1>5, <1>7, <2>1, <2>5 DEF LimiterInv, AmpleOK
  <2> QED
    BY <2>2, <2>3, <2>4, <2>5
<1>12. StrictOK'
  <2> SUFFICES ASSUME NEW j \in Key
               PROVE  strict'[j] <= Full /\ (j \in tracked' => strict'[j] <= Due(j)')
    BY DEF StrictOK
  <2>1. strict[j] \in Int /\ strict[j] <= Full
    BY DEF LimiterInv, LimiterTypeOK, StrictOK
  <2>2. CASE j = k
    BY <1>1, <1>2, <1>3, <1>6, <2>1, <2>2, RateLimitAssumption, FullHoldsOne
  <2>3. CASE j # k
    BY <1>5, <1>7, <2>1, <2>3 DEF LimiterInv, StrictOK
  <2> QED
    BY <2>2, <2>3
<1>13. RefusedWhenSpent'
  <2>1. CASE Allowed(c)
    BY <2>1 DEF Allowed, RefusedWhenSpent
  <2>2. CASE Refused(c)
    <3>1. refused' = {k} /\ strict' = strict /\ Found(c) < Every
      BY <2>2 DEF Refused
    <3>2. strict[k] \in Int
      BY <1>1 DEF LimiterInv, LimiterTypeOK
    <3>3. strict[k] < Every + Lag
      BY <1>1, <1>2, <3>1, <3>2, RateLimitAssumption, FullHoldsOne
    <3> QED
      BY <3>1, <3>3 DEF RefusedWhenSpent
  <2> QED
    BY <2>1, <2>2 DEF Allow
<1> QED
  BY <1>8, <1>9, <1>10, <1>11, <1>12, <1>13 DEF LimiterInv

\* Nothing happens.
LEMMA LimiterStutterInv == ASSUME LimiterInv, UNCHANGED limiterVars PROVE LimiterInv'
BY DEF LimiterInv, LimiterTypeOK, ClocksOK, BucketsOK, AmpleOK, StrictOK, RefusedWhenSpent,
       Due, limiterVars

\* LimiterInv is an invariant.
THEOREM LimiterInductive == LimiterSpec => []LimiterInv
<1>1. ASSUME LimiterInv, [LimiterNext]_limiterVars PROVE LimiterInv'
  <2>1. CASE Tick
    BY <1>1, <2>1, TickInv
  <2>2. ASSUME NEW p \in Caller, NEW k \in Key, Arrive(p, k) PROVE LimiterInv'
    BY <1>1, <2>2, ArriveInv
  <2>3. ASSUME NEW c \in calls, Allow(c) PROVE LimiterInv'
    BY <1>1, <2>3, AllowInv
  <2>4. CASE UNCHANGED limiterVars
    BY <1>1, <2>4, LimiterStutterInv
  <2> QED
    BY <1>1, <2>1, <2>2, <2>3, <2>4 DEF LimiterNext
<1> QED
  BY LimiterInitInv, <1>1, PTL DEF LimiterSpec

-----------------------------------------------------------------------------

\* Every level stays between what the lag may take from a bucket and its size.
THEOREM LimiterTypeCorrect == LimiterSpec => []LimiterTypeOK
<1>1. LimiterInv => LimiterTypeOK
  BY DEF LimiterInv
<1> QED
  BY LimiterInductive, <1>1, PTL

\* The limiter allows no more than the exact bucket with Lag to spare, and refuses
\* nobody the exact bucket would allow with Lag to spare.
THEOREM LimiterIsFair == LimiterSpec => []CloseToExact
<1>1. LimiterInv => CloseToExact
  <2> SUFFICES ASSUME LimiterInv PROVE NeverTooMany
    BY DEF CloseToExact, LimiterInv
  <2> SUFFICES ASSUME NEW k \in Key PROVE ample[k] >= 0
    BY DEF NeverTooMany
  <2>1. ample[k] \in Int /\ Full + Lag \in Int /\ Full + Lag >= 0
    BY RateLimitAssumption, FullHoldsOne DEF LimiterInv, LimiterTypeOK
  <2>2. CASE k \in tracked
    <3>1. Due(k) \in Int /\ Due(k) >= 0
      BY <2>2, RateLimitAssumption, FullHoldsOne DEF LimiterInv, LimiterTypeOK, BucketsOK, Due
    <3> QED
      BY <2>1, <2>2, <3>1 DEF LimiterInv, AmpleOK
  <2>3. CASE k \notin tracked
    BY <2>1, <2>3 DEF LimiterInv, AmpleOK
  <2> QED
    BY <2>2, <2>3
<1> QED
  BY LimiterInductive, <1>1, PTL
=============================================================================
