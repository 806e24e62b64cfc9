-------------------------- MODULE MCFirewallPolicy --------------------------
(* Small instances of FirewallPolicy for TLC.                              *)
EXTENDS FirewallPolicy

\* The elements of each of these sets are interchangeable.
Symmetry == Permutations(Rule) \cup Permutations(Policy) \cup Permutations(Firewall)

=============================================================================
