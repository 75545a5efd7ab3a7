----------------------------- MODULE Migrations -----------------------------
(***************************************************************************)
(* The server's process and its schema: cmd/runnerly-server, runnerly      *)
(* server migrate, and Store.Migrate.  Several processes start, apply the  *)
(* migrations their binary knows to one database, serve and stop.          *)
(*                                                                         *)
(* Migrations are numbered in the order of their names.  What is served is *)
(* in Server.                                                              *)
(***************************************************************************)
EXTENDS Naturals, Sequences, FiniteSets

CONSTANTS
    Process,    \* runnerly-server, or runnerly server migrate
    Newest,     \* the last migration of the newest binary
    MaxStarts   \* bound on the starts of processes

ASSUME MigrationsAssumption ==
    Newest \in Nat \ {0} /\ MaxStarts \in Nat

VARIABLES
    stage,      \* of each process
    binary,     \* the last migration it knows
    mode,       \* what it was started for
    todo,       \* migrations it found missing, and has not applied
    applied,    \* schema_migrations
    starts,
    \* history
    effects     \* what took effect in the schema, in order

processVars == <<stage, binary, mode, todo, starts>>
schemaVars == <<applied, effects>>

\* only: --migrate-only, and server migrate.  skip: --no-migrate.
Modes == {"serve", "only", "skip"}

MigrationsTypeOK ==
    /\ stage \in [Process -> {"down", "open", "migrating", "serving", "stopping"}]
    /\ binary \in [Process -> 1 .. Newest]
    /\ mode \in [Process -> Modes]
    /\ todo \in [Process -> SUBSET (1 .. Newest)]
    /\ applied \subseteq 1 .. Newest
    /\ starts \in 0 .. MaxStarts
    /\ effects \in Seq(1 .. Newest)

MigrationsInit ==
    /\ stage = [p \in Process |-> "down"]
    /\ binary = [p \in Process |-> Newest]
    /\ mode = [p \in Process |-> "serve"]
    /\ todo = [p \in Process |-> {}]
    /\ applied = {}
    /\ starts = 0
    /\ effects = <<>>

Becomes(p, s) == stage' = [stage EXCEPT ![p] = s]

\* The configuration is valid and the database answers.
Open(p) ==
    /\ stage[p] = "down"
    /\ starts < MaxStarts
    /\ starts' = starts + 1
    /\ \E v \in 1 .. Newest, k \in Modes :
          /\ binary' = [binary EXCEPT ![p] = v]
          /\ mode' = [mode EXCEPT ![p] = k]
    /\ todo' = [todo EXCEPT ![p] = {}]
    /\ Becomes(p, "open")
    /\ UNCHANGED schemaVars

\* Store.Migrate reads once what has been applied.
AppliedMigrations(p) ==
    /\ stage[p] = "open"
    /\ mode[p] # "skip"
    /\ todo' = [todo EXCEPT ![p] = (1 .. binary[p]) \ applied]
    /\ Becomes(p, "migrating")
    /\ UNCHANGED <<binary, mode, starts, schemaVars>>

First(p) == CHOOSE m \in todo[p] : \A n \in todo[p] : m <= n

\* Mutant of CanRecord: ON CONFLICT DO NOTHING.
CanRecordAgain(m) == m \in 1 .. Newest

\* name is the primary key of schema_migrations, so the transaction of the
\* second to apply a migration waits for the first, and fails.
CanRecord(m) == m \notin applied

ApplyMigration(p) ==
    /\ stage[p] = "migrating"
    /\ todo[p] # {}
    /\ CanRecord(First(p))
    /\ applied' = applied \cup {First(p)}
    /\ effects' = Append(effects, First(p))
    /\ todo' = [todo EXCEPT ![p] = @ \ {First(p)}]
    /\ UNCHANGED <<stage, binary, mode, starts>>

Migrated(p) == stage[p] = "migrating" /\ todo[p] = {}

\* run returns: a step failed, or the requests in flight have ended or used up
\* their grace.  Or the process is killed.  What a transaction had not
\* committed is rolled back.
Exit(p) ==
    /\ stage[p] # "down"
    /\ Becomes(p, "down")
    /\ binary' = [binary EXCEPT ![p] = Newest]
    /\ mode' = [mode EXCEPT ![p] = "serve"]
    /\ todo' = [todo EXCEPT ![p] = {}]
    /\ UNCHANGED <<starts, schemaVars>>

\* There is nothing else to do.
MigrateOnly(p) ==
    /\ mode[p] = "only"
    /\ Migrated(p)
    /\ Exit(p)

\* The key parses, the address is free.
Serve(p) ==
    /\ \/ mode[p] = "serve" /\ Migrated(p)
       \/ mode[p] = "skip" /\ stage[p] = "open"
    /\ Becomes(p, "serving")
    /\ UNCHANGED <<binary, mode, todo, starts, schemaVars>>

\* SIGTERM.  No request is accepted any more.
Stop(p) ==
    /\ stage[p] = "serving"
    /\ Becomes(p, "stopping")
    /\ UNCHANGED <<binary, mode, todo, starts, schemaVars>>

\* A server whose statements find the tables and columns they name.
Fits(p) == 1 .. binary[p] \subseteq applied

Running(p) ==
    \/ AppliedMigrations(p)
    \/ ApplyMigration(p)
    \/ MigrateOnly(p)
    \/ Serve(p)
    \/ Stop(p)

-----------------------------------------------------------------------------

\* However many processes migrate at once, of whatever age, and wherever they
\* die: each migration takes effect once, after the ones before it, and exactly
\* those are recorded; and a server that did not skip migrating serves, and goes
\* on to serve, with a schema that has all it knows of.
SchemaFits ==
    /\ \A i \in DOMAIN effects : effects[i] = i
    /\ applied = 1 .. Len(effects)
    /\ \A p \in Process :
          stage[p] \in {"serving", "stopping"} /\ mode[p] = "serve" => Fits(p)
=============================================================================
