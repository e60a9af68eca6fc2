------------------------------ MODULE MCRegistry ------------------------------
(* Registry for TLC, with the symmetry of its model values.                   *)
EXTENDS Registry, TLC

Symmetry == Permutations(Sessions) \cup Permutations(Handlers)
=============================================================================
