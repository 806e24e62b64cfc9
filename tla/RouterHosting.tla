----------------------------- MODULE RouterHosting -----------------------------
(***************************************************************************)
(* What the scheduler of routers promises ("allow one router is hosted by  *)
(* just one enabled l3 agent"): a router that exists is given to an agent  *)
(* when no agent has it, stays there until it is taken away, and its host  *)
(* goes with it.                                                           *)
(***************************************************************************)
CONSTANTS Routers, Agents, None

VARIABLES
  life,   \* of each router: "new", "here", "gone"
  host    \* the agent that hosts it, or None

Init ==
  /\ life = [r \in Routers |-> "new"]
  /\ host = [r \in Routers |-> None]

Create(r) ==
  /\ life[r] = "new"
  /\ life' = [life EXCEPT ![r] = "here"]
  /\ UNCHANGED host

\* A host for routers that have none: a full sync of an agent takes several.
Bind(rs, a) ==
  /\ \A r \in rs : life[r] = "here" /\ host[r] = None
  /\ host' = [r \in Routers |-> IF r \in rs THEN a ELSE host[r]]
  /\ UNCHANGED life

Unbind(r) ==
  /\ host[r] # None
  /\ host' = [host EXCEPT ![r] = None]
  /\ UNCHANGED life

Delete(r) ==
  /\ life[r] = "here"
  /\ life' = [life EXCEPT ![r] = "gone"]
  /\ host' = [host EXCEPT ![r] = None]

Next ==
  \/ \E r \in Routers : Create(r) \/ Unbind(r) \/ Delete(r)
  \/ \E rs \in SUBSET Routers, a \in Agents : Bind(rs, a)

Spec == Init /\ [][Next]_<<life, host>>
=============================================================================
