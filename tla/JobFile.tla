------------------------------- MODULE JobFile -------------------------------
(***************************************************************************)
(* What job.json promises to those who read it: the supervisor, which asks *)
(* whether an ephemeral runner is done, the reporter, an ephemeral run and *)
(* the upgrade command.  It comes to say that a job runs only as one       *)
(* begins, and that one was finished only as one is over and if it had     *)
(* said of some job that it ran.  It may miss either.                      *)
(***************************************************************************)
VARIABLES
    busy,       \* a job has begun and is not over
    record      \* what the file says: "none", "running" or "finished"

fileVars == <<busy, record>>

FileInit ==
    /\ busy = FALSE
    /\ record = "none"

Begins ==
    /\ ~busy /\ busy'
    /\ record' \in {record, "running"}

Ends ==
    /\ busy /\ ~busy'
    /\ record' \in {record, "finished", "none"}
    /\ record = "none" => record' = "none"

FileSpec == FileInit /\ [][Begins \/ Ends]_fileVars
=============================================================================
