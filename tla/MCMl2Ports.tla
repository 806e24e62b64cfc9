----------------------------- MODULE MCMl2Ports ------------------------------
(* Small instances of Ml2Ports for TLC.                                     *)
EXTENDS Ml2Ports, TLC

Symmetry == Permutations(Subnets) \cup Permutations(Ports) \cup Permutations(Routers)
              \cup Permutations(Workers)

=============================================================================
