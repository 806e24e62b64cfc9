--------------------------- MODULE MCIpAllocation ----------------------------
(* Small instances of IpAllocation for TLC.                                 *)
EXTENDS IpAllocation, TLC

Symmetry == Permutations(Subnets) \cup Permutations(Ports) \cup Permutations(Workers)

=============================================================================
