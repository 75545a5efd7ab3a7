----------------------------- MODULE RunnerPhases -----------------------------
(***************************************************************************)
(* The phases of a supervised runner, as the rest of an agent sees them.   *)
(* Supervisor says what makes the phase change; the modules that only need *)
(* to know that it does take it from here.                                 *)
(*                                                                         *)
(*   between   no runner: the first is not launched, or the next one       *)
(*   running   one was launched, and has not been seen to exit             *)
(*   exited    its exit was seen, and the supervisor decides               *)
(*   stopping  it is being stopped because the agent shuts down            *)
(*   ended     Supervisor.Run has returned                                 *)
(***************************************************************************)

\* What may come next.
Then ==
    [between  |-> {"running", "ended"},
     running  |-> {"exited", "stopping"},
     exited   |-> {"between", "ended"},
     stopping |-> {"ended"},
     ended    |-> {}]

Phase == DOMAIN Then
=============================================================================
