------------------------------- MODULE FWaaS --------------------------------
(***************************************************************************)
(* FWaaS as a whole: the plugin of FirewallPlugin and the L3 agents of     *)
(* FirewallAgent, joined by the fanout queues and the callbacks.           *)
(***************************************************************************)
EXTENDS FirewallAgent

vars == <<pluginVars, alive, agentVars>>

Init == PluginInit /\ AgentInit

ServeApi   == \E r \in serving : Serve(r) /\ UNCHANGED agentVars
AcceptApi  == ApiRequest /\ UNCHANGED agentVars
HandleAt(a) == Receive(a) \/ \E h \in handler : h.agent = a /\ Handle(h)
LateCalls  == \E l \in late : RunLateCall(l)

Fail(a) == RouterRemoved(a) \/ Crash(a)

Next ==
  \/ AcceptApi \/ ServeApi \/ LateCalls
  \/ \E a \in Agent : HandleAt(a) \/ Loop(a) \/ RouterAdded(a) \/ Start(a) \/ Fail(a)

Spec == Init /\ [][Next]_vars

\* The server and the agents that run keep running; a router stays unhosted only
\* until some agent gets it; users need not call, and nothing need fail.
Fairness ==
  /\ WF_vars(ServeApi)
  /\ WF_vars(LateCalls)
  /\ \A a \in Agent : /\ WF_vars(HandleAt(a))
                      /\ WF_vars(Loop(a))
                      /\ WF_vars(RouterAdded(a))
                      /\ WF_vars(Start(a))

FairSpec == Spec /\ Fairness

TypeOK == PluginTypeOK /\ AgentTypeOK

-----------------------------------------------------------------------------
(* Safety.                                                                 *)

\* set_firewall_status: a firewall is only reported ACTIVE (DOWN) after a driver
\* somewhere applied it with admin_state_up true (false).
StatusIsEarned ==
  \A f \in Firewall : /\ status[f] = "ACTIVE" => TRUE \in applied[f]
                      /\ status[f] = "DOWN"   => FALSE \in applied[f]

\* delete_db_firewall_object: a row goes away only once the user asked for it, and
\* its uuid never comes back.
OnlyDeletedRowsGo ==
  [][\A f \in Firewall :
       /\ status'[f] = "gone" => status[f] = "gone" \/ deletion[f] # "none"
       /\ status[f] = "gone"  => status'[f] = "gone"]_vars

\* set_firewall_status "ignores changing status if firewall expects to be deleted":
\* from PENDING_DELETE a row can only go away.
DeletionIsFinal ==
  [][\A f \in Firewall :
       status[f] = "PENDING_DELETE" => status'[f] \in {"PENDING_DELETE", "gone"}]_vars

\* The callbacks in progress, or on their way.
Calls == {CallOf(h) : h \in {g \in handler : g.pc \in Report}}
         \cup {TaskCall(a) : a \in {b \in Agent : task[b].pc \in Report}}
         \cup {l.call : l \in late}

\* Row f is gone, or will never be anything but PENDING_DELETE before it goes.
Doomed(f) ==
  \/ status[f] = "gone"
  \/ /\ status[f] = "PENDING_DELETE"
     /\ \A c \in Calls : c.fw = f => c.seen \in {"unread", "PENDING_DELETE"}

\* What that comment still promises: once the callbacks that read the row before its
\* deletion was accepted are over, nothing undoes the deletion.
DeletionLasts == [][\A f \in Firewall : Doomed(f) => Doomed(f)']_vars

\* FirewallCountExceeded: only one firewall is supported per tenant.
OneFirewallPerTenant ==
  \A f, g \in Firewall : InDb(f) /\ InDb(g) => f = g

\* firewall_deleted: an agent that was told True need not care for the row any more,
\* unless the deletion was undone and may be asked for again.
DeletedAnswerIsTrue ==
  \A f \in toldDeleted : status[f] = "gone" \/ deletion[f] = "lost"

\* Nothing is on its way to the agents or from them, and no request is in progress.
Quiet ==
  /\ serving = {} /\ handler = {} /\ late = {}
  /\ \A a \in Agent : queue[a] = <<>> /\ task[a] = Idle /\ ~servicesSync[a]

\* PENDING_UPDATE lasts until the backend has the change: a firewall that reads as
\* applied is enforced, as it now is, by every router of the tenant, as soon as no
\* request is pushing it.
SettledIsEnforced ==
  serving = {} =>
    \A f \in Firewall, a \in Agent :
      status[f] \in {"ACTIVE", "DOWN"} /\ hosted[a] /\ task[a] = Idle
        => installed[a][f] = [up |-> adminUp[f], rev |-> rev]

\* The same once nothing moves any more.
QuietIsEnforced ==
  Quiet =>
    \A f \in Firewall, a \in Agent :
      status[f] \in {"ACTIVE", "DOWN"} /\ hosted[a]
        => installed[a][f] = [up |-> adminUp[f], rev |-> rev]

\* firewall_deleted: once the row is gone and nothing moves, no router enforces it,
\* if its deletion was never undone.
GoneIsUninstalled ==
  Quiet => \A f \in Firewall, a \in Agent :
             status[f] = "gone" /\ deletion[f] = "asked" /\ hosted[a]
               => installed[a][f] = None

-----------------------------------------------------------------------------
(* Refinement.                                                             *)

Lifecycle == INSTANCE FirewallLifecycle
               WITH doomed <- {f \in Firewall : deletion[f] # "none"}

\* The rows move as the API promises: every transaction on status is a step of the
\* life cycle of one firewall.
FollowsLifecycle == Lifecycle!Spec

-----------------------------------------------------------------------------
(* Liveness.                                                               *)

\* _invoke_driver_for_plugin_api provides status back: a pending firewall settles,
\* except that a deletion that a driver failed to apply is not reported, nor retried.
PendingResolves ==
  \A f \in Firewall :
    status[f] \in Pending ~> \/ status[f] \notin Pending
                             \/ status[f] = "PENDING_DELETE" /\ faults["driver"] > 0

=============================================================================
