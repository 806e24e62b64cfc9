------------------------------ MODULE L3Routing ------------------------------
(***************************************************************************)
(* Routers of the server on the hosts of L3 agents: RouterScheduler and    *)
(* L3Agent, joined by the agents' queues and by sync_routers.              *)
(***************************************************************************)
EXTENDS L3Agent

vars == <<serverVars, agentVars>>

Init == ServerInit /\ AgentInit

\* The server's part of a call.  What it reads, the agent will have seen.
Read(a) ==
  /\ ListRouters(a)
  /\ owed' = [owed EXCEPT ![a] = IF rpc[a].late THEN @
                                 ELSE IF rpc[a].ids = {} THEN {} ELSE @ \ rpc[a].ids]
  /\ UNCHANGED <<info, half, forwards, updated, removed, fullsync, stale, loop, running, faults>>

Answer(a) ==
  \/ Read(a)
  \/ (AutoSchedule(a) \/ AutoBind(a)) /\ UNCHANGED agentVars

Accepted  == \E w \in Workers : Request(w) /\ UNCHANGED agentVars
Served    == \E w \in Workers : Finish(w) /\ UNCHANGED agentVars
Answered  == \E a \in Agents : Answer(a)
Noticed(a) == rpc[a].pc = "failed" /\ CallFails(a)
Run(a)    == \/ Deliver(a) \/ Loop(a) \/ StartSync(a) \/ DropAnswer(a) \/ Noticed(a)
             \/ Start(a) \/ ReportState(a)

Next ==
  \/ Accepted \/ Served \/ Answered
  \/ \E a \in Agents : Run(a) \/ Fail(a) \/ LooksDown(a)

Spec == Init /\ [][Next]_vars

\* The server serves what it has begun, and so does each agent; one that has stopped
\* is started again, and reports.  No request need be made, and nothing need fail.
Fairness ==
  /\ WF_vars(Served \/ Answered)
  /\ \A a \in Agents : WF_vars(Run(a))

FairSpec == Spec /\ Fairness

TypeOK == ServerTypeOK /\ AgentTypeOK

-----------------------------------------------------------------------------
(* Safety.                                                                 *)

\* _rpc_loop says of updates that come while it runs that they "will be picked up
\* on the next pass": an update that was delivered stays among those to ask for,
\* or a full sync is due, until the server has been read again.
NoUpdateForgotten ==
  \A a \in Agents :
    running[a] => \/ owed[a] \subseteq updated[a] \cup loop[a].ids
                  \/ fullsync[a]

\* _process_router_delete removes from removed_routers each router of its copy, and
\* set.remove fails for one that is not there: nobody takes one out before.
CopyIsStillThere ==
  \A a \in Agents : loop[a].pc = "deleting" => loop[a].ids \subseteq removed[a]

\* What the host of a should forward: what the server would list for it now.
Quiet ==
  /\ \A w \in Workers : api[w].pc = "idle"
  /\ \A a \in Agents : /\ running[a] /\ loop[a].pc = "idle" /\ rpc[a].pc = "idle"
                       /\ inbox[a] = <<>> /\ ~fullsync[a]
                       /\ updated[a] = {} /\ removed[a] = {}

\* When no message, call or task is left, every host forwards just the routers the
\* server lists for its agent, in their last revision.
QuietIsHosted == Quiet => \A a \in Agents : forwards[a] = SyncData(a)

\* get_candidates: "allow one router is hosted by just one enabled l3 agent".
OneEnabledHost ==
  \A r \in Routers : \A a, b \in Agents :
    bound[r][a] > 0 /\ bound[r][b] > 0 /\ agentUp[a] /\ agentUp[b] => a = b

OnlyRow(r, a) == bound[r] = [b \in Agents |-> IF b = a THEN 1 ELSE 0]

\* The agent the router is bound to; several rows, for one agent or more, are no
\* agent, and no state of RouterHosting.
HostOf(r) ==
  IF Unbound(r) THEN None
  ELSE IF \E a \in Agents : OnlyRow(r, a) THEN CHOOSE a \in Agents : OnlyRow(r, a)
  ELSE "several"

Hosting == INSTANCE RouterHosting WITH life <- [r \in Routers |-> row[r].life],
                                       host <- [r \in Routers |-> HostOf(r)]

\* The life of a router and its host go as RouterHosting has it.
FollowsHosting == Hosting!Spec

-----------------------------------------------------------------------------
(* Liveness.                                                               *)

\* Whatever the server lists for an agent, its host comes to forward, through lost
\* answers, crashes and starts.
HostsCatchUp ==
  \A a \in Agents : (forwards[a] # SyncData(a)) ~> (forwards[a] = SyncData(a))
=============================================================================
