----------------------------- MODULE MCOvsAgent ------------------------------
(* Small instances of OvsAgent for TLC.                                     *)
EXTENDS OvsAgent, TLC

Symmetry == Permutations(Ports) \cup Permutations(Nets) \cup Permutations(Vlans)

=============================================================================
