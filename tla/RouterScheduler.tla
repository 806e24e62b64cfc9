--------------------------- MODULE RouterScheduler ---------------------------
(***************************************************************************)
(* The server's side of hosting routers on L3 agents: the rows of routers, *)
(* the bindings of routers to agents, the requests that change them and    *)
(* the messages these cast, and sync_routers, which the agents call        *)
(* (db/l3_db.py, db/l3_agentschedulers_db.py, db/l3_rpc_base.py,           *)
(* scheduler/l3_agent_scheduler.py, db/agents_db.py and the notifier       *)
(* api/rpc/agentnotifiers/l3_rpc_agent_api.py).                            *)
(*                                                                         *)
(* What a transaction has written is in the request until it commits:      *)
(* nobody else reads it before.  A change of a router, by update_router or *)
(* of its interfaces, makes a new revision of what agents are told of it.  *)
(***************************************************************************)
EXTENDS Naturals, Sequences

CONSTANTS
  Routers, Agents, Workers,   \* Workers are the threads that serve the API
  None,                       \* no router, no agent
  Operations,                 \* the requests users and operators make
  Serial,                     \* one transaction of the server at a time
  OthersUp,                   \* some agent that is no L3 agent is enabled
  MaxRequests

AllOperations ==
  {"create", "change", "delete", "add_to_agent", "remove_from_agent", "update_agent"}

ASSUME OperationsAssumption == Operations \subseteq AllOperations
ASSUME SerialAssumption == Serial \in BOOLEAN
ASSUME OthersAssumption == OthersUp \in BOOLEAN
ASSUME NoneAssumption == None \notin Routers \cup Agents
ASSUME BoundAssumption == MaxRequests \in Nat

VARIABLES
  row,        \* the row of each router
  bound,      \* bound[r][a]: rows of routerl3agentbindings for r and a
  agentUp,    \* admin_state_up of each agent
  alive,      \* its heartbeat is younger than agent_down_time
  api,        \* the request of each worker
  rpc,        \* the sync_routers call of each agent
  inbox,      \* the messages cast to each agent
  requests    \* requests so far

serverVars == <<row, bound, agentUp, alive, api, rpc, inbox, requests>>

NoRequest == [pc |-> "idle", op |-> "none", router |-> None, agent |-> None]
Absent    == [r \in Routers |-> 0]
NoCall    == [pc |-> "idle", ids |-> {}, bind |-> {}, found |-> Absent, late |-> FALSE]

Message == [kind : {"updated", "deleted", "removed"}, router : Routers]
             \cup [kind : {"agent_updated"}, router : {None}]

ServerTypeOK ==
  /\ row \in [Routers -> [life : {"new", "here", "gone"}, up : BOOLEAN, rev : Nat]]
  /\ bound \in [Routers -> [Agents -> Nat]]
  /\ agentUp \in [Agents -> BOOLEAN]
  /\ alive \in [Agents -> BOOLEAN]
  /\ api \in [Workers -> [pc : {"idle", "commit", "notify"},
                          op : AllOperations \cup {"none"},
                          router : Routers \cup {None}, agent : Agents \cup {None}]]
  /\ rpc \in [Agents -> [pc : {"idle", "asked", "bind", "list", "replied", "failed"},
                         ids : SUBSET Routers, bind : SUBSET Routers,
                         found : [Routers -> Nat], late : BOOLEAN]]
  /\ inbox \in [Agents -> Seq(Message)]
  /\ requests \in 0..MaxRequests

ServerInit ==
  /\ row = [r \in Routers |-> [life |-> "new", up |-> TRUE, rev |-> 0]]
  /\ bound = [r \in Routers |-> [a \in Agents |-> 0]]
  /\ agentUp = [a \in Agents |-> TRUE]
  /\ alive = [a \in Agents |-> TRUE]
  /\ api = [w \in Workers |-> NoRequest]
  /\ rpc = [a \in Agents |-> NoCall]
  /\ inbox = [a \in Agents |-> <<>>]
  /\ requests = 0

-----------------------------------------------------------------------------
(* What a transaction reads.                                               *)

Here(r) == row[r].life = "here"

\* get_l3_agents(active=True): enabled, and not taken for down.
ActiveAgents == {a \in Agents : agentUp[a] /\ alive[a]}

Unbound(r) == \A a \in Agents : bound[r][a] = 0

\* The filter of get_l3_agents_hosting_routers on admin_state_up is not about the agents
\* of the bindings, whose join has an alias: it asks whether any agent is enabled.
SomeEnabled == OthersUp \/ \E a \in Agents : agentUp[a]

\* Mutant: an agent that is taken for down does not count as a host.
Hosted_Alive(r) == SomeEnabled /\ \E a \in Agents : bound[r][a] > 0 /\ alive[a]

\* get_l3_agents_hosting_routers(admin_state_up=True) finds some, disabled or not.
Hosted(r) == SomeEnabled /\ ~Unbound(r)

\* The row is written by an open transaction: others wait to write it, or to
\* insert a row that refers to it.
Locked(r) ==
  \E w \in Workers : /\ api[w].pc = "commit"
                     /\ api[w].op \in {"change", "delete"}
                     /\ api[w].router = r

\* A thread of the server begins a transaction.
MayBegin ==
  Serial => /\ \A w \in Workers : api[w].pc # "commit"
            /\ \A a \in Agents : rpc[a].pc # "bind"

\* schedule: the agents an unhosted router may be given, None if it stays as it is.
Candidates(r) ==
  IF Hosted(r) \/ ActiveAgents = {} THEN {None} ELSE ActiveAgents

\* Mutant: the agents that had the router before it was scheduled.
Told_Before(r, a) == {b \in Agents : SomeEnabled /\ alive[b] /\ bound[r][b] > 0}

\* _agent_notification, after schedule_routers has given the router to a: the agents
\* that host it and are not taken for down.
Told(r, a) == {b \in Agents : SomeEnabled /\ alive[b] /\ (bound[r][b] > 0 \/ b = a)}

\* list_active_sync_routers_on_active_l3_agent: the enabled routers bound to the
\* agent, with what it is told of each; 0 for the others.
SyncData(a) ==
  [r \in Routers |-> IF agentUp[a] /\ bound[r][a] > 0 /\ Here(r) /\ row[r].up
                       THEN row[r].rev ELSE 0]

Cast(m, to) == [a \in Agents |-> IF a \in to THEN Append(inbox[a], m) ELSE inbox[a]]

-----------------------------------------------------------------------------
(* Requests.                                                               *)

Accept(w, op) ==
  /\ api[w].pc = "idle" /\ op \in Operations
  /\ requests < MaxRequests
  /\ requests' = requests + 1

\* create_router tells no agent.
CreateRouter(w, r) ==
  /\ Accept(w, "create") /\ MayBegin
  /\ row[r].life = "new"
  /\ row' = [row EXCEPT ![r] = [life |-> "here", up |-> TRUE, rev |-> 1]]
  /\ UNCHANGED <<bound, agentUp, alive, api, rpc, inbox>>

\* update_router, add_router_interface, remove_router_interface: routers_updated
\* schedules the router and is cast while the transaction of the plugin is open.
StartChange(w, r, a) ==
  /\ Accept(w, "change") /\ MayBegin
  /\ Here(r) /\ ~Locked(r)
  /\ a \in Candidates(r)
  /\ api' = [api EXCEPT ![w] = [pc |-> "commit", op |-> "change", router |-> r, agent |-> a]]
  /\ inbox' = Cast([kind |-> "updated", router |-> r],
                   Told(r, a))
  /\ UNCHANGED <<row, bound, agentUp, alive, rpc>>

CommitChange(w, up) ==
  LET r == api[w].router
      a == api[w].agent
  IN  /\ api[w].pc = "commit" /\ api[w].op = "change"
      /\ row' = [row EXCEPT ![r].up = up, ![r].rev = @ + 1]
      /\ bound' = IF a = None THEN bound ELSE [bound EXCEPT ![r][a] = @ + 1]
      /\ api' = [api EXCEPT ![w] = NoRequest]
      /\ UNCHANGED <<agentUp, alive, rpc, inbox, requests>>

\* delete_router: the fanout too precedes the commit.
StartDelete(w, r) ==
  /\ Accept(w, "delete") /\ MayBegin
  /\ Here(r) /\ ~Locked(r)
  /\ api' = [api EXCEPT ![w] = [pc |-> "commit", op |-> "delete", router |-> r, agent |-> None]]
  /\ inbox' = Cast([kind |-> "deleted", router |-> r], Agents)
  /\ UNCHANGED <<row, bound, agentUp, alive, rpc>>

\* The bindings go with the row.
CommitDelete(w) ==
  LET r == api[w].router IN
  /\ api[w].pc = "commit" /\ api[w].op = "delete"
  /\ row' = [row EXCEPT ![r].life = "gone"]
  /\ bound' = [bound EXCEPT ![r] = [a \in Agents |-> 0]]
  /\ api' = [api EXCEPT ![w] = NoRequest]
  /\ UNCHANGED <<agentUp, alive, rpc, inbox, requests>>

\* add_router_to_l3_agent: refused for a disabled agent or a bound router.
StartAdd(w, r, a) ==
  /\ Accept(w, "add_to_agent") /\ MayBegin
  /\ Here(r) /\ agentUp[a] /\ Unbound(r)
  /\ api' = [api EXCEPT ![w] = [pc |-> "commit", op |-> "add_to_agent", router |-> r, agent |-> a]]
  /\ UNCHANGED <<row, bound, agentUp, alive, rpc, inbox>>

CommitAdd(w) ==
  LET r == api[w].router
      a == api[w].agent
  IN  /\ api[w].pc = "commit" /\ api[w].op = "add_to_agent"
      /\ ~Locked(r)
      /\ \/ /\ Here(r)
            /\ bound' = [bound EXCEPT ![r][a] = @ + 1]
            /\ api' = [api EXCEPT ![w].pc = "notify"]
         \/ /\ ~Here(r)     \* the foreign key fails the request
            /\ api' = [api EXCEPT ![w] = NoRequest]
            /\ UNCHANGED bound
      /\ UNCHANGED <<row, agentUp, alive, rpc, inbox, requests>>

\* remove_router_from_l3_agent: one() refuses two rows as well as none.
StartRemove(w, r, a) ==
  /\ Accept(w, "remove_from_agent") /\ MayBegin
  /\ bound[r][a] = 1
  /\ bound' = [bound EXCEPT ![r][a] = 0]
  /\ api' = [api EXCEPT ![w] = [pc |-> "notify", op |-> "remove_from_agent", router |-> r, agent |-> a]]
  /\ UNCHANGED <<row, agentUp, alive, rpc, inbox>>

\* update_agent with the other admin_state_up.
StartUpdateAgent(w, a) ==
  /\ Accept(w, "update_agent") /\ MayBegin
  /\ agentUp' = [agentUp EXCEPT ![a] = ~@]
  /\ api' = [api EXCEPT ![w] = [pc |-> "notify", op |-> "update_agent", router |-> None, agent |-> a]]
  /\ UNCHANGED <<row, bound, alive, rpc, inbox>>

\* Mutant: agent_updated is cast as an update of a router.
NotificationOf_Router(q) ==
  [kind |-> IF q.op = "remove_from_agent" THEN "removed" ELSE "updated", router |-> q.router]

NotificationOf(q) ==
  [kind |-> CASE q.op = "add_to_agent"      -> "updated"
              [] q.op = "remove_from_agent" -> "removed"
              [] OTHER                      -> "agent_updated",
   router |-> q.router]

\* These three cast after their commit, alive or not.
Notify(w) ==
  /\ api[w].pc = "notify"
  /\ inbox' = Cast(NotificationOf(api[w]), {api[w].agent})
  /\ api' = [api EXCEPT ![w] = NoRequest]
  /\ UNCHANGED <<row, bound, agentUp, alive, rpc, requests>>

Request(w) ==
  \/ \E r \in Routers : CreateRouter(w, r) \/ StartDelete(w, r)
  \/ \E r \in Routers, a \in Agents \cup {None} : StartChange(w, r, a)
  \/ \E r \in Routers, a \in Agents : StartAdd(w, r, a) \/ StartRemove(w, r, a)
  \/ \E a \in Agents : StartUpdateAgent(w, a)

Finish(w) ==
  \/ \E up \in BOOLEAN : CommitChange(w, up)
  \/ CommitDelete(w) \/ CommitAdd(w) \/ Notify(w)

-----------------------------------------------------------------------------
(* sync_routers.                                                           *)

\* auto_schedule_routers reads: of the routers asked for, those that count as not
\* hosted; when all are asked for, those with no binding.
AutoSchedule(a) ==
  LET unhosted == {r \in Routers : Here(r) /\ (IF rpc[a].ids = {} THEN Unbound(r)
                                               ELSE r \in rpc[a].ids /\ ~Hosted(r))}
      mine     == IF agentUp[a] THEN unhosted ELSE {}
  IN  /\ rpc[a].pc = "asked" /\ MayBegin
      /\ rpc' = [rpc EXCEPT ![a].pc = IF mine = {} THEN "list" ELSE "bind", ![a].bind = mine]
      /\ UNCHANGED <<row, bound, agentUp, alive, api, inbox, requests>>

\* bind_router for each, and the commit; the foreign key fails the call when a
\* router has gone meanwhile.
AutoBind(a) ==
  LET mine == rpc[a].bind
  IN  /\ rpc[a].pc = "bind"
      /\ \A r \in mine : ~Locked(r)
      /\ \/ /\ \A r \in mine : Here(r)
            /\ bound' = [r \in Routers |->
                           IF r \in mine THEN [bound[r] EXCEPT ![a] = @ + 1] ELSE bound[r]]
            /\ rpc' = [rpc EXCEPT ![a].pc = "list", ![a].bind = {}]
         \/ /\ \E r \in mine : ~Here(r)
            /\ rpc' = [rpc EXCEPT ![a].pc = "failed", ![a].bind = {}]
            /\ UNCHANGED bound
      /\ UNCHANGED <<row, agentUp, alive, api, inbox, requests>>

\* The answer; nobody waits for it when the call has timed out.
ListRouters(a) ==
  /\ rpc[a].pc = "list" /\ MayBegin
  /\ rpc' = [rpc EXCEPT ![a].pc = "replied",
                        ![a].found = [r \in Routers |-> IF rpc[a].ids = {} \/ r \in rpc[a].ids
                                                          THEN SyncData(a)[r] ELSE 0]]
  /\ UNCHANGED <<row, bound, agentUp, alive, api, inbox, requests>>

SyncRouters(a) == AutoSchedule(a) \/ AutoBind(a) \/ ListRouters(a)
=============================================================================
