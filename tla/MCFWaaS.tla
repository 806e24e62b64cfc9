------------------------------ MODULE MCFWaaS -------------------------------
(* Small instances of FWaaS for TLC.                                       *)
EXTENDS FWaaS, TLC

\* Firewalls and agents are interchangeable in every safety property.
Symmetry == Permutations(Firewall) \cup Permutations(Agent)

=============================================================================
