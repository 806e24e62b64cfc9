------------------------- MODULE FirewallLifecycle --------------------------
(***************************************************************************)
(* What the FWaaS API promises a tenant about the status of its firewalls, *)
(* with neither requests in progress nor agents in sight: at most one      *)
(* firewall at a time, changed only while nothing is pending on it, and    *)
(* removed only if its deletion was accepted, for good.  An accepted       *)
(* deletion may be undone by a late report, and has to be asked for again. *)
(***************************************************************************)
CONSTANT Firewall

VARIABLES
  status,
  doomed         \* the firewalls whose deletion was ever accepted

Live    == {"PENDING_CREATE", "PENDING_UPDATE", "PENDING_DELETE",
            "ACTIVE", "DOWN", "ERROR"}
Changed == {"ACTIVE", "DOWN", "ERROR"}      \* nothing is pending

Init ==
  /\ status = [f \in Firewall |-> "unborn"]
  /\ doomed = {}

Create(f) ==
  /\ status[f] = "unborn"
  /\ \A g \in Firewall : status[g] \notin Live
  /\ status' = [status EXCEPT ![f] = "PENDING_CREATE"]
  /\ UNCHANGED doomed

Update(f) ==
  /\ status[f] \in Changed
  /\ status' = [status EXCEPT ![f] = "PENDING_UPDATE"]
  /\ UNCHANGED doomed

Delete(f) ==
  /\ status[f] \in Live
  /\ status' = [status EXCEPT ![f] = "PENDING_DELETE"]
  /\ doomed' = doomed \cup {f}

\* The agents report on a firewall, again and again, and late.
Settle(f) ==
  /\ status[f] \in Live
  /\ \E s \in Changed : status' = [status EXCEPT ![f] = s]
  /\ UNCHANGED doomed

Remove(f) ==
  /\ status[f] \in Live /\ f \in doomed
  /\ status' = [status EXCEPT ![f] = "gone"]
  /\ UNCHANGED doomed

Next == \E f \in Firewall : Create(f) \/ Update(f) \/ Delete(f) \/ Settle(f) \/ Remove(f)

Spec == Init /\ [][Next]_<<status, doomed>>

=============================================================================
