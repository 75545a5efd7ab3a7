------------------------------ MODULE EventFeed ------------------------------
(***************************************************************************)
(* What event reporting promises, whatever buffers, batches and requests   *)
(* lie in between.  Events are numbered as they happen.  Each one waits,   *)
(* and then is stored once or lost; what is lost or stored never waits     *)
(* again.  Deleting a runner deletes its events.                           *)
(***************************************************************************)
EXTENDS Naturals

VARIABLES
    emitted,    \* how many events have happened
    waiting,    \* the events that may still be stored
    stored      \* the events the control plane has

feedVars == <<emitted, waiting, stored>>

FeedInit ==
    /\ emitted = 0
    /\ waiting = {}
    /\ stored = {}

Emit ==
    /\ emitted' = emitted + 1
    /\ waiting' \in {waiting, waiting \cup {emitted + 1}}
    /\ UNCHANGED stored

Lose ==
    /\ waiting' \in SUBSET waiting
    /\ UNCHANGED <<emitted, stored>>

Store ==
    /\ waiting' \in SUBSET waiting
    /\ stored' = stored \cup (waiting \ waiting')
    /\ UNCHANGED emitted

Erase ==
    /\ stored' = {}
    /\ UNCHANGED <<emitted, waiting>>

FeedSpec == FeedInit /\ [][Emit \/ Lose \/ Store \/ Erase]_feedVars
=============================================================================
