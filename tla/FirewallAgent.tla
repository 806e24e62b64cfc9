--------------------------- MODULE FirewallAgent ----------------------------
(***************************************************************************)
(* The L3 agents' side of FWaaS:                                           *)
(* services/firewall/agents/l3reference/firewall_l3_agent.py, called from  *)
(* agent/l3_agent.py, over the iptables driver.                            *)
(*                                                                         *)
(* Every agent hosts at most one router of the tenant.  A fanout message   *)
(* is handled in a green thread of its own (at most PoolSize at a time),   *)
(* which yields at every RPC; process_router_add and                       *)
(* process_services_sync run in the agent's own loop, one at a time,       *)
(* because _rpc_loop and _sync_routers_task hold the lock 'l3-agent'.      *)
(***************************************************************************)
EXTENDS FirewallPlugin

CONSTANTS
  Hosting,           \* the agents that host a router from the start
  PoolSize,          \* rpc_thread_pool_size
  MaxDriverErrors,   \* bound: FirewallInternalDriverErrors in a behaviour
  MaxRpcFailures,    \* bound: RPCs that fail or time out
  MaxRemovals,       \* bound: routers taken away from their agent
  MaxCrashes         \* bound: agent crashes

ASSUME AgentAssumption ==
  /\ Hosting \subseteq Agent
  /\ {PoolSize, MaxDriverErrors, MaxRpcFailures, MaxRemovals, MaxCrashes} \subseteq Nat

VARIABLES
  handler,        \* fanout messages being handled
  installed,      \* what the router of each agent enforces for each firewall
  hosted,         \* the agents with a router of the tenant in router_info
  servicesSync,   \* the agents' services_sync flag
  task,           \* process_router_add or process_services_sync in progress
  late,           \* calls that timed out and that the server has not run yet
  faults,         \* how many faults of each kind happened
  applied,        \* history: the admin states ever applied for each firewall
  toldDeleted     \* history: the firewalls firewall_deleted answered True for

agentVars == <<handler, installed, hosted, servicesSync, task, late, faults,
               applied, toldDeleted>>

\* What an agent calls back: "DELETED" stands for firewall_deleted, the others
\* for set_firewall_status with that status.
Report  == {"ACTIVE", "DOWN", "ERROR", "DELETED"}

\* What the callback in progress has read of the row, if it has.
Seen    == RowStatus \cup {"unread"}
Handler == [agent : Agent, msg : Message, pc : {"routers", "driver"} \cup Report,
            seen : Seen]

\* The rules an admin-up firewall enforces, the DROP ALL of an admin-down one.
Content    == [up : BOOLEAN, rev : Nat]
ContentOf(m) == [up |-> m.up, rev |-> m.rev]

ASSUME NoneAssumption == None \notin Content

\* A firewall dict in the answer of get_firewalls_for_tenant.
Snapshot == [fw : Firewall, up : BOOLEAN, rev : Nat, status : RowStatus]
Task     == [kind : {"idle", "add", "sync"}, pc : {"fetch", "read", "loop"} \cup Report,
             listed : SUBSET Firewall, todo : SUBSET Snapshot,
             fw : Firewall \cup {None}, seen : Seen]
Idle     == [kind |-> "idle", pc |-> "fetch", listed |-> {}, todo |-> {},
             fw |-> None, seen |-> "unread"]


\* A call back to the plugin; id tells the calls of an agent apart, n what befell them.
Call     == [id : 0..MaxRequests, fw : Firewall, report : Report, seen : Seen]
LateCall == [cause : {"rpc", "crash"}, n : Nat, call : Call]
Fault    == {"driver", "rpc", "removal", "crash"}
MaxFaults(k) == CASE k = "driver"  -> MaxDriverErrors
                  [] k = "rpc"     -> MaxRpcFailures
                  [] k = "removal" -> MaxRemovals
                  [] k = "crash"   -> MaxCrashes

AgentTypeOK ==
  /\ handler      \subseteq Handler
  /\ installed    \in [Agent -> [Firewall -> Content \cup {None}]]
  /\ hosted       \in [Agent -> BOOLEAN]
  /\ servicesSync \in [Agent -> BOOLEAN]
  /\ task         \in [Agent -> Task]
  /\ \A h \in handler : h.pc \notin Report => h.seen = "unread"
  /\ \A a \in Agent : IF task[a].pc \in Report THEN task[a].fw \in Firewall
                                              ELSE task[a].seen = "unread"
  /\ late         \subseteq LateCall
  /\ faults       \in [Fault -> Nat]
  /\ \A k \in Fault : faults[k] <= MaxFaults(k)
  /\ applied      \in [Firewall -> SUBSET BOOLEAN]
  /\ toldDeleted  \subseteq Firewall

NoRules == [f \in Firewall |-> None]

AgentInit ==
  /\ handler      = {}
  /\ installed    = [a \in Agent |-> NoRules]
  /\ hosted       = [a \in Agent |-> a \in Hosting]
  /\ servicesSync = [a \in Agent |-> FALSE]
  /\ task         = [a \in Agent |-> Idle]
  /\ late         = {}
  /\ faults       = [k \in Fault |-> 0]
  /\ applied      = [f \in Firewall |-> {}]
  /\ toldDeleted  = {}

\* Mutant: an exception does not ask for a sync.
SyncLater_Forgotten(a) == UNCHANGED servicesSync

Count(k)      == faults[k] < MaxFaults(k) /\ faults' = [faults EXCEPT ![k] = @ + 1]
SyncLater(a)  == servicesSync' = [servicesSync EXCEPT ![a] = TRUE]

-----------------------------------------------------------------------------
(* The driver: IptablesFwaasDriver on the router of agent a.               *)

DriverApplies(a, f, c) ==
  /\ hosted[a]
  /\ installed' = [installed EXCEPT ![a][f] = c]
  /\ applied'   = IF c = None THEN applied ELSE [applied EXCEPT ![f] = @ \cup {c.up}]
  /\ UNCHANGED faults

\* FirewallInternalDriverError: the tables in memory may have changed and be
\* pushed later, or not.  A router that went away always fails.
DriverFails(a, f, c) ==
  /\ IF hosted[a]
       THEN /\ Count("driver")
            /\ installed' \in {installed, [installed EXCEPT ![a][f] = c]}
       ELSE UNCHANGED <<faults, installed>>
  /\ UNCHANGED applied

-----------------------------------------------------------------------------
(* The call back to the plugin: the server reads the row, and ends the     *)
(* transaction later.                                                      *)

\* The status that the callback leaves in the row it read.
Outcome(c) == IF c.report = "DELETED" THEN FirewallDeleted(c.seen)
                                      ELSE SetFirewallStatus(c.seen, c.report)

CallReads(c) ==
  /\ c.seen = "unread" /\ InDb(c.fw)
  /\ UNCHANGED <<dbVars, serving, requests, alive, servicesSync, late, faults, toldDeleted>>

\* It is answered with an exception: there is no row to read, or none to write.
Raises(c) == ~InDb(c.fw) /\ (c.seen = "unread" \/ Outcome(c) # c.seen)

\* The transaction ends: what it changed is written, whatever the row is now.
CallCommits(c) ==
  /\ c.seen = "unread" => ~InDb(c.fw)
  /\ IF InDb(c.fw) /\ Outcome(c) # c.seen THEN SetStatus(c.fw, Outcome(c))
                                          ELSE UNCHANGED <<status, deletion>>
  /\ toldDeleted' = IF c.report = "DELETED" /\ AnswersDeleted(c.seen) /\ ~Raises(c)
                      THEN toldDeleted \cup {c.fw} ELSE toldDeleted
  /\ UNCHANGED <<adminUp, rev, serving, requests, alive>>

\* Agent a gets the answer.
CallAnswered(a, c) ==
  /\ CallCommits(c)
  /\ IF Raises(c) THEN SyncLater(a) ELSE UNCHANGED servicesSync
  /\ UNCHANGED <<late, faults>>

\* The call times out: it is lost, or the server runs the rest of it later.
CallTimesOut(a, c) ==
  /\ Count("rpc")
  /\ late' \in {late, late \cup {[cause |-> "rpc", n |-> faults["rpc"],
                                 call |-> [c EXCEPT !.id = 0]]}}
  /\ SyncLater(a)
  /\ UNCHANGED <<dbVars, serving, requests, alive, toldDeleted>>

RunLateCall(l) ==
  /\ \/ /\ CallCommits(l.call)
        /\ late' = late \ {l}
     \/ /\ l.call.seen = "unread" /\ InDb(l.call.fw)
        /\ late' = (late \ {l}) \cup {[l EXCEPT !.call.seen = status[l.call.fw]]}
        /\ UNCHANGED <<dbVars, serving, requests, alive, toldDeleted>>
  /\ UNCHANGED <<queue, handler, installed, hosted, servicesSync, task, faults, applied>>

-----------------------------------------------------------------------------
(* _invoke_driver_for_plugin_api: a fanout message is handled.             *)

HandlerTo(h, pc) == handler' = (handler \ {h}) \cup {[h EXCEPT !.pc = pc]}
HandlerEnds(h)   == handler' = handler \ {h}

Receive(a) ==
  /\ queue[a] # <<>>
  /\ Cardinality({h \in handler : h.agent = a}) < PoolSize
  /\ handler' = handler \cup {[agent |-> a, msg |-> Head(queue[a]), pc |-> "routers",
                              seen |-> "unread"]}
  /\ queue'   = [queue EXCEPT ![a] = Tail(@)]
  /\ UNCHANGED <<dbVars, serving, requests, alive, installed, hosted, servicesSync,
                 task, late, faults, applied, toldDeleted>>

\* get_routers, then the routers of the tenant that are in router_info: with none,
\* a delete is acknowledged and anything else is dropped without a word.
GetRouters(h) ==
  /\ h.pc = "routers"
  /\ \/ hosted[h.agent] /\ HandlerTo(h, "driver")
     \/ /\ ~hosted[h.agent]
        /\ IF h.msg.func = "delete_firewall" THEN HandlerTo(h, "DELETED")
                                             ELSE HandlerEnds(h)
  /\ UNCHANGED <<pluginVars, alive, installed, hosted, servicesSync, task, late,
                 faults, applied, toldDeleted>>

GetRoutersFails(h) ==
  /\ h.pc = "routers"
  /\ Count("rpc")
  /\ SyncLater(h.agent)
  /\ HandlerEnds(h)
  /\ UNCHANGED <<pluginVars, alive, installed, hosted, task, late, applied, toldDeleted>>

\* Mutant: the status ignores admin_state_up.
UpStatus_AlwaysActive(up) == "ACTIVE"

UpStatus(up) == IF up THEN "ACTIVE" ELSE "DOWN"

\* The driver call: a failed delete is not reported, nor retried.
InvokeDriver(h) ==
  LET a   == h.agent
      del == h.msg.func = "delete_firewall"
      c   == IF del THEN None ELSE ContentOf(h.msg)
  IN /\ h.pc = "driver"
     /\ \/ /\ DriverApplies(a, h.msg.fw, c)
           /\ HandlerTo(h, IF del THEN "DELETED" ELSE UpStatus(h.msg.up))
        \/ /\ DriverFails(a, h.msg.fw, c)
           /\ IF del THEN HandlerEnds(h) ELSE HandlerTo(h, "ERROR")
     /\ UNCHANGED <<pluginVars, alive, hosted, servicesSync, task, late, toldDeleted>>

\* The call it makes.
CallOf(h) == [id |-> h.msg.id, fw |-> h.msg.fw, report |-> h.pc, seen |-> h.seen]

ReportBack(h) ==
  /\ h.pc \in Report
  /\ \/ /\ CallReads(CallOf(h))
        /\ handler' = (handler \ {h}) \cup {[h EXCEPT !.seen = status[h.msg.fw]]}
     \/ CallAnswered(h.agent, CallOf(h)) /\ HandlerEnds(h)
     \/ CallTimesOut(h.agent, CallOf(h)) /\ HandlerEnds(h)
  /\ UNCHANGED <<queue, installed, hosted, task, applied>>

Handle(h) == GetRouters(h) \/ GetRoutersFails(h) \/ InvokeDriver(h) \/ ReportBack(h)

-----------------------------------------------------------------------------
(* process_router_add and process_services_sync.                           *)

\* _router_added: a fresh iptables manager rewrites the router's tables, then
\* process_router_add.
RouterAdded(a) ==
  /\ alive[a] /\ ~hosted[a] /\ task[a] = Idle
  /\ hosted'    = [hosted EXCEPT ![a] = TRUE]
  /\ installed' = [installed EXCEPT ![a] = NoRules]
  /\ task'      = [task EXCEPT ![a].kind = "add"]
  /\ UNCHANGED <<pluginVars, alive, handler, servicesSync, late, faults, applied,
                 toldDeleted>>

\* _sync_routers_task finds the flag set.
SyncStarts(a) ==
  /\ alive[a] /\ servicesSync[a] /\ task[a] = Idle
  /\ task' = [task EXCEPT ![a].kind = "sync"]
  /\ UNCHANGED <<pluginVars, alive, handler, installed, hosted, servicesSync, late,
                 faults, applied, toldDeleted>>

\* get_firewalls_for_tenant lists the firewalls.
FetchFirewalls(a) ==
  /\ task[a].kind # "idle" /\ task[a].pc = "fetch"
  /\ task' = [task EXCEPT ![a].pc = "read",
                          ![a].listed = {f \in Firewall : InDb(f)}]
  /\ UNCHANGED <<pluginVars, alive, handler, installed, hosted, servicesSync, late,
                 faults, applied, toldDeleted>>

\* Mutant: the row is not looked for again.
ReadFirewall_NoCheck(a, f) ==
  /\ task[a].pc = "read" /\ f \in task[a].listed
  /\ task' = [task EXCEPT ![a].listed = @ \ {f},
                          ![a].todo = @ \cup {[fw |-> f, up |-> adminUp[f], rev |-> rev,
                                               status |-> status[f]]}]
  /\ UNCHANGED <<pluginVars, alive, handler, installed, hosted, servicesSync, late,
                 faults, applied, toldDeleted>>

\* It reads each of them again, with its rules; one that went away raises.  The sync
\* then leaves out the ACTIVE ones.
ReadFirewall(a, f) ==
  /\ task[a].pc = "read" /\ f \in task[a].listed
  /\ IF InDb(f)
       THEN /\ task' = [task EXCEPT ![a].listed = @ \ {f}, ![a].todo = @ \cup
                         {s \in {[fw |-> f, up |-> adminUp[f], rev |-> rev,
                                  status |-> status[f]]} :
                             task[a].kind = "sync" => s.status # "ACTIVE"}]
            /\ UNCHANGED servicesSync
       ELSE /\ task' = [task EXCEPT ![a] = Idle]
            /\ SyncLater(a)
  /\ UNCHANGED <<pluginVars, alive, handler, installed, hosted, late, faults, applied,
                 toldDeleted>>

\* The answer arrives: the agent leaves the firewalls alone when no router of the
\* tenant is here.
FirewallsFetched(a) ==
  /\ task[a].pc = "read" /\ task[a].listed = {}
  /\ task' = [task EXCEPT ![a].pc = "loop",
                          ![a].todo = IF hosted[a] THEN @ ELSE {}]
  /\ UNCHANGED <<pluginVars, alive, handler, installed, hosted, servicesSync, late,
                 faults, applied, toldDeleted>>

FetchFails(a) ==
  /\ task[a].kind # "idle" /\ task[a].pc \in {"fetch", "read"}
  /\ Count("rpc")
  /\ SyncLater(a)
  /\ task' = [task EXCEPT ![a] = Idle]
  /\ UNCHANGED <<pluginVars, alive, handler, installed, hosted, late, applied, toldDeleted>>

\* _invoke_driver_for_sync_from_plugin on one firewall of the list.
SyncDriver(a) ==
  /\ task[a].pc = "loop"
  /\ \E s \in task[a].todo :
       LET del == s.status = "PENDING_DELETE"
           c   == IF del THEN None ELSE ContentOf(s)
           to(p) == task' = [task EXCEPT ![a].pc = p, ![a].fw = s.fw,
                                         ![a].todo = @ \ {s}]
       IN \/ DriverApplies(a, s.fw, c) /\ to(IF del THEN "DELETED" ELSE UpStatus(s.up))
          \/ DriverFails(a, s.fw, c) /\ to("ERROR")
  /\ UNCHANGED <<pluginVars, alive, handler, hosted, servicesSync, late, toldDeleted>>

\* The call it makes, and the call's steps; an exception ends the loop.
TaskCall(a) == [id |-> 0, fw |-> task[a].fw, report |-> task[a].pc, seen |-> task[a].seen]

SyncReport(a) ==
  /\ task[a].pc \in Report
  /\ \/ /\ CallReads(TaskCall(a))
        /\ task' = [task EXCEPT ![a].seen = status[task[a].fw]]
     \/ /\ CallAnswered(a, TaskCall(a))
        /\ task' = [task EXCEPT ![a] = IF Raises(TaskCall(a)) THEN Idle
                      ELSE [@ EXCEPT !.pc = "loop", !.fw = None, !.seen = "unread"]]
     \/ /\ CallTimesOut(a, TaskCall(a))
        /\ task' = [task EXCEPT ![a] = Idle]
  /\ UNCHANGED <<queue, handler, installed, hosted, applied>>

\* The end of the list: the sync clears the flag, whoever set it meanwhile.
TaskEnds(a) ==
  /\ task[a].pc = "loop" /\ task[a].todo = {}
  /\ servicesSync' = IF task[a].kind = "sync" THEN [servicesSync EXCEPT ![a] = FALSE]
                                              ELSE servicesSync
  /\ task' = [task EXCEPT ![a] = Idle]
  /\ UNCHANGED <<pluginVars, alive, handler, installed, hosted, late, faults, applied,
                 toldDeleted>>

Loop(a) ==
  \/ SyncStarts(a) \/ FetchFirewalls(a) \/ (\E f \in Firewall : ReadFirewall(a, f))
  \/ FirewallsFetched(a) \/ FetchFails(a)
  \/ SyncDriver(a) \/ SyncReport(a) \/ TaskEnds(a)

-----------------------------------------------------------------------------
(* Routers that leave an agent; agents that crash and start again.         *)

\* _router_removed: the namespace goes, and the rules with it.
RouterRemoved(a) ==
  /\ alive[a] /\ hosted[a] /\ task[a] = Idle
  /\ Count("removal")
  /\ hosted'    = [hosted EXCEPT ![a] = FALSE]
  /\ installed' = [installed EXCEPT ![a] = NoRules]
  /\ UNCHANGED <<pluginVars, alive, handler, servicesSync, task, late, applied, toldDeleted>>

\* The calls of agent a that are not answered.
CallsOf(a) ==
  {CallOf(h) : h \in {g \in handler : g.agent = a /\ g.pc \in Report}}
  \cup (IF task[a].pc \in Report THEN {TaskCall(a)} ELSE {})

\* Everything in memory and the agent's fanout queue are lost; the server runs the
\* calls it has, and the kernel keeps the rules until the router is added again.
Crash(a) ==
  /\ alive[a]
  /\ Count("crash")
  /\ alive'        = [alive EXCEPT ![a] = FALSE]
  /\ queue'        = [queue EXCEPT ![a] = <<>>]
  /\ handler'      = {h \in handler : h.agent # a}
  /\ hosted'       = [hosted EXCEPT ![a] = FALSE]
  /\ servicesSync' = [servicesSync EXCEPT ![a] = FALSE]
  /\ task'         = [task EXCEPT ![a] = Idle]
  /\ \E kept \in SUBSET CallsOf(a) :
       late' = late \cup {[cause |-> "crash", n |-> faults["crash"], call |-> c] : c \in kept}
  /\ UNCHANGED <<dbVars, serving, requests, installed, applied, toldDeleted>>

Start(a) ==
  /\ ~alive[a]
  /\ alive' = [alive EXCEPT ![a] = TRUE]
  /\ UNCHANGED <<pluginVars, agentVars>>

=============================================================================
