------------------------------ MODULE RunnerLife ------------------------------
(***************************************************************************)
(* What a supervisor promises to the rest of its agent: runners one after  *)
(* the other, each launched when the one before it is gone, and none left  *)
(* when it decides, waits or has returned.  Supervisor implements this;    *)
(* its policy, its clock and the restarts it is asked for do not show.     *)
(***************************************************************************)
EXTENDS RunnerPhases, Naturals

VARIABLES
    life,       \* the phase
    launched,   \* how many runners were launched
    alive       \* the runners that run

lifeVars == <<life, launched, alive>>

LifeInit ==
    /\ life = "between"
    /\ launched = 0
    /\ alive = {}

Begins ==
    /\ "running" \in Then[life]
    /\ alive = {}
    /\ life' = "running"
    /\ launched' = launched + 1
    /\ alive' = {launched + 1}

\* A runner exits when it likes.
Dies ==
    /\ alive # {}
    /\ alive' = {}
    /\ UNCHANGED <<life, launched>>

\* Only a runner that is being stopped may outlast the phase it is in.
Turns ==
    /\ life' \in Then[life] \ {"running"}
    /\ life' = "stopping" \/ alive = {}
    /\ UNCHANGED <<launched, alive>>

LifeSpec == LifeInit /\ [][Begins \/ Dies \/ Turns]_lifeVars
=============================================================================
