----------------------------- MODULE MCL3Routing -----------------------------
(* Model values for TLC.                                                    *)
EXTENDS L3Routing, TLC

Symmetry == Permutations(Routers) \cup Permutations(Agents) \cup Permutations(Workers)
=============================================================================
