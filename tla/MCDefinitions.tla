---------------------------- MODULE MCDefinitions ----------------------------
(***************************************************************************)
(* Values of Definitions' constants for TLC.                               *)
(***************************************************************************)
EXTENDS Definitions, TLC

\* No definition tells contracts apart.
AnyOrder == Permutations(Contracts)

=============================================================================
