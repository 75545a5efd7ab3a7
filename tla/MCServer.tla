------------------------------ MODULE MCServer ------------------------------
(***************************************************************************)
(* Server, for TLC.  Processes, browsers and machines are alike: no        *)
(* definition of Server tells one of them from another.                    *)
(***************************************************************************)
EXTENDS Server, TLC

Symmetry ==
    Permutations(Process) \cup Permutations(Browser) \cup Permutations(Machine)
=============================================================================
