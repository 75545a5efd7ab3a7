------------------------------ MODULE RateLimit -----------------------------
(***************************************************************************)
(* One limiter of the control plane (internal/ratelimit/ratelimit.go): a   *)
(* token bucket for each client address, refilled when it is next asked,   *)
(* and forgotten after a while without being asked.                        *)
(*                                                                         *)
(* A level counts time instead of tokens: a token is worth Every, so a     *)
(* bucket gains what the clock gains, and holds Full.                      *)
(*                                                                         *)
(* Allow reads the clock before it takes the lock.  Calls are therefore    *)
(* served with clocks that are late, and in another order than their       *)
(* clocks; a bucket's time can go back.                                    *)
(*                                                                         *)
(* The two limiters of a server are two of these, one after the other: the *)
(* general one is asked about every request, the other one about           *)
(* enrollment and sign-in.                                                 *)
(***************************************************************************)
EXTENDS Integers

CONSTANTS
    Key,        \* client addresses
    Burst,      \* Limit.Burst
    Every,      \* Limit.Every
    IdleAfter,  \* idleAfter
    Lag,        \* bound on the time between reading the clock and the lock
    Caller,     \* those that may be in Allow at once
    MaxTime     \* bound on the clock

Full == Burst * Every

\* PerMinute, the only limit the server builds, fills a bucket in a minute, and
\* idleAfter is ten.
ASSUME RateLimitAssumption ==
    /\ Burst \in Nat \ {0} /\ Every \in Nat \ {0}
    /\ Lag \in Nat /\ IdleAfter \in Nat
    /\ IdleAfter >= Full + 2 * Lag
    /\ MaxTime \in Nat

VARIABLES
    now,
    calls,      \* calls before the lock: an address, and the clock read for it
    tracked,    \* the addresses that have a bucket
    level,      \* bucket.tokens
    last,       \* bucket.last
    swept,      \* Limiter.swept
    refused,    \* the addresses refused at this moment
    \* reference: exact buckets, which are refilled all the time and never
    \* forgotten, charged for what is allowed
    ample,      \* one that holds Lag more than Full
    strict      \* one that holds Full

limiterVars == <<now, calls, tracked, level, last, swept, refused, ample, strict>>

Call == [by : Caller, key : Key, at : 0 .. MaxTime]

\* A level never exceeds a full bucket, and falls below zero by no more than the lag.
LimiterTypeOK ==
    /\ now \in 0 .. MaxTime
    /\ calls \subseteq Call
    /\ tracked \subseteq Key
    /\ level \in [Key -> -Lag .. Full]
    /\ last \in [Key -> 0 .. MaxTime]
    /\ swept \in Int
    /\ refused \subseteq Key
    /\ ample \in [Key -> Int]
    /\ strict \in [Key -> Int]

\* swept is the zero time, long ago.
LimiterInit ==
    /\ now = 0
    /\ calls = {}
    /\ tracked = {}
    /\ level = [k \in Key |-> 0]
    /\ last = [k \in Key |-> 0]
    /\ swept = -IdleAfter
    /\ refused = {}
    /\ ample = [k \in Key |-> Full + Lag]
    /\ strict = [k \in Key |-> Full]

AtMost(x, most) == IF x > most THEN most ELSE x

-----------------------------------------------------------------------------

\* The clock is read.
Arrive(p, k) ==
    /\ \A c \in calls : c.by # p
    /\ calls' = calls \cup {[by |-> p, key |-> k, at |-> now]}
    /\ refused' = {}
    /\ UNCHANGED <<now, tracked, level, last, swept, ample, strict>>

\* Mutant of Kept: what was last asked about some time ago is forgotten sooner.
KeptWhileFilling(c) == {k \in tracked : c.at - last[k] <= Every}

\* Mutant of Refill: the bucket is not capped.
RefillUncapped(k, at) == level[k] + (at - last[k])

\* The addresses that sweep does not forget.
Kept(c) ==
    IF c.at - swept < IdleAfter THEN tracked
    ELSE {k \in tracked : c.at - last[k] <= IdleAfter}

\* Elapsed time, from last to the clock of the call; it may be negative.
Refill(k, at) == AtMost(level[k] + (at - last[k]), Full)

\* sweep, and what it leaves of the time of the last sweep.
Sweep(c) ==
    /\ swept' = IF c.at - swept < IdleAfter THEN swept ELSE c.at
    /\ tracked' = Kept(c) \cup {c.key}

\* A new client, or one that was forgotten, starts with a full bucket.
Found(c) == IF c.key \in Kept(c) THEN Refill(c.key, c.at) ELSE Full

Allowed(c) ==
    /\ Found(c) >= Every
    /\ level' = [level EXCEPT ![c.key] = Found(c) - Every]
    /\ ample' = [ample EXCEPT ![c.key] = @ - Every]
    /\ strict' = [strict EXCEPT ![c.key] = @ - Every]
    /\ refused' = {}

Refused(c) ==
    /\ Found(c) < Every
    /\ level' = [level EXCEPT ![c.key] = Found(c)]
    /\ refused' = {c.key}
    /\ UNCHANGED <<ample, strict>>

\* The lock is taken, and the call answered.
Allow(c) ==
    /\ calls' = calls \ {c}
    /\ Sweep(c)
    /\ last' = [last EXCEPT ![c.key] = c.at]
    /\ Allowed(c) \/ Refused(c)
    /\ UNCHANGED now

Tick ==
    /\ now < MaxTime
    /\ \A c \in calls : now + 1 - c.at <= Lag
    /\ now' = now + 1
    /\ ample' = [k \in Key |-> AtMost(ample[k] + 1, Full + Lag)]
    /\ strict' = [k \in Key |-> AtMost(strict[k] + 1, Full)]
    /\ refused' = {}
    /\ UNCHANGED <<calls, tracked, level, last, swept>>

LimiterNext ==
    \/ \E p \in Caller, k \in Key : Arrive(p, k)
    \/ \E c \in calls : Allow(c)
    \/ Tick

LimiterSpec == LimiterInit /\ [][LimiterNext]_limiterVars

-----------------------------------------------------------------------------
(* Properties                                                              *)

\* Whatever order the calls are served in and whatever is forgotten, no address
\* is allowed more than an exact bucket would allow it that holds Lag more: so in
\* any time t at most Burst + (t + Lag) / Every requests.  With no lag the limiter
\* is the exact bucket.
NeverTooMany == \A k \in Key : ample[k] >= 0

\* And no address is refused that has a token, and Lag, in the exact bucket of the
\* size the limit says: the time that goes back is never lost.
RefusedWhenSpent == \A k \in refused : strict[k] < Every + Lag

\* Allow answers like an exact bucket, give or take the lag, on both sides.
CloseToExact == NeverTooMany /\ RefusedWhenSpent
=============================================================================
