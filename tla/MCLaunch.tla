------------------------------- MODULE MCLaunch -------------------------------
(***************************************************************************)
(* Model-checking instances of Launch.                                     *)
(***************************************************************************)
EXTENDS Launch, TLC

\* The properties treat the targets alike.
Symmetry == Permutations(Targets)

===============================================================================
