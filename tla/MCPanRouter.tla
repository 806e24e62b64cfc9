---------------------------- MODULE MCPanRouter -----------------------------
(* Small instances of PanRouter for TLC.                                   *)
EXTENDS PanRouter, TLC

\* The elements of each of these sets are interchangeable.
Symmetry == Permutations(Router) \cup Permutations(Device) \cup Permutations(Port)

=============================================================================
