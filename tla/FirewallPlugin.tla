--------------------------- MODULE FirewallPlugin ---------------------------
(***************************************************************************)
(* The server side of FWaaS: services/firewall/fwaas_plugin.py over        *)
(* db/firewall/firewall_db.py.                                             *)
(*                                                                         *)
(* The firewalls of one tenant, which all use one firewall policy.  The    *)
(* API requests are served by ApiWorkers concurrent threads; every         *)
(* database transaction of a handler, and the fanout cast that ends it,    *)
(* is a step of its own, because nothing holds a lock from one to the      *)
(* next.  The two callbacks of the agents, which FirewallAgent calls over  *)
(* RPC, read a row without a lock, decide by what they read, and write it  *)
(* when their transaction ends: what they make of what they read is a      *)
(* function of it.                                                         *)
(***************************************************************************)
EXTENDS Naturals, Sequences, FiniteSets

CONSTANTS
  Firewall,      \* uuids that create_firewall may generate
  Agent,         \* L3 agents, each consuming its own fanout queue
  ApiWorkers,    \* how many API requests are served at the same time
  MaxRequests,   \* bound: API requests in a behaviour
  None           \* "no firewall"

ASSUME PluginAssumption ==
  /\ ApiWorkers \in Nat \ {0}
  /\ MaxRequests \in Nat
  /\ None \notin Firewall

VARIABLES
  status,        \* status column of each firewall's row, or "unborn" / "gone"
  adminUp,       \* its admin_state_up column
  rev,           \* revision of the rules of the policy
  serving,       \* the API requests in progress
  requests,      \* how many requests were accepted so far
  queue,         \* fanout messages each agent has not consumed yet
  alive,         \* the agents that run: a dead one has no queue to cast to
  deletion       \* history: whether the deletion of each firewall was asked for,
                 \* and whether its PENDING_DELETE was ever overwritten

dbVars     == <<status, adminUp, rev, deletion>>
pluginVars == <<status, adminUp, rev, deletion, serving, requests, queue>>

Pending   == {"PENDING_CREATE", "PENDING_UPDATE", "PENDING_DELETE"}
Settled   == {"ACTIVE", "DOWN", "ERROR"}
RowStatus == Pending \cup Settled
Status    == RowStatus \cup {"unborn", "gone"}

Operation == {"create_firewall", "update_firewall", "delete_firewall", "edit_policy"}
Func      == Operation \ {"edit_policy"}

\* A fanout message: the firewall dict as it was read, and the handler it calls.
\* id tells the messages of two requests apart.
Message == [id : 1..MaxRequests, func : Func, fw : Firewall,
            up : BOOLEAN, rev : Nat]

\* A request in progress: pc is what it does next, todo the firewalls of the
\* policy it has still to push, up and rev what it writes or has read.
Request == [id : 1..MaxRequests, op : Operation,
            pc : {"insert", "write", "edit", "list", "read", "rules", "cast"},
            fw : Firewall \cup {None}, up : BOOLEAN, rev : Nat,
            todo : SUBSET Firewall]

PluginTypeOK ==
  /\ status   \in [Firewall -> Status]
  /\ adminUp  \in [Firewall -> BOOLEAN]
  /\ rev      \in Nat
  /\ serving  \subseteq Request
  /\ \A r \in serving : r.pc \in {"write", "read", "rules", "cast"} => r.fw \in Firewall
  /\ requests \in 0..MaxRequests
  /\ queue    \in [Agent -> Seq(Message)]
  /\ alive    \in [Agent -> BOOLEAN]
  /\ deletion \in [Firewall -> {"none", "asked", "lost"}]

PluginInit ==
  /\ status   = [f \in Firewall |-> "unborn"]
  /\ adminUp  = [f \in Firewall |-> FALSE]
  /\ rev      = 0
  /\ serving  = {}
  /\ requests = 0
  /\ queue    = [a \in Agent |-> <<>>]
  /\ alive    = [a \in Agent |-> TRUE]
  /\ deletion = [f \in Firewall |-> "none"]

InDb(f) == status[f] \in RowStatus

\* A transaction leaves s in the row of f; a deletion once lost stays lost.
SetStatus(f, s) ==
  /\ status'   = [status EXCEPT ![f] = s]
  /\ deletion' = [deletion EXCEPT ![f] =
       CASE status[f] = "PENDING_DELETE" /\ s \notin {"PENDING_DELETE", "gone"} -> "lost"
         [] s = "PENDING_DELETE" /\ @ = "none"                                 -> "asked"
         [] OTHER                                                              -> @]

-----------------------------------------------------------------------------
(* How a request starts, moves on and ends.                                *)

Accept(op, pc, f, up) ==
  /\ Cardinality(serving) < ApiWorkers
  /\ requests < MaxRequests
  /\ requests' = requests + 1
  /\ serving'  = serving \cup {[id |-> requests', op |-> op, pc |-> pc, fw |-> f,
                                up |-> up, rev |-> 0, todo |-> {}]}

Become(r, next) == serving' = (serving \ {r}) \cup {next}
End(r)          == serving' = serving \ {r}

\* _rpc_update_firewall_policy goes on to the next firewall of its list, or ends.
PushNext(r, todo) ==
  \/ todo = {} /\ End(r)
  \/ \E f \in todo : Become(r, [r EXCEPT !.pc = "write", !.fw = f, !.todo = todo \ {f}])

-----------------------------------------------------------------------------
(* The first step of each API request: the checks it makes, which no       *)
(* later step repeats.                                                     *)

\* create_firewall counts the tenant's firewalls.
StartCreate(up) ==
  /\ \A f \in Firewall : ~InDb(f)
  /\ Accept("create_firewall", "insert", None, up)
  /\ UNCHANGED <<dbVars, queue, alive>>

\* Mutant: no _ensure_update_firewall.
StartUpdate_NoPendingCheck(f, up) ==
  /\ InDb(f)
  /\ Accept("update_firewall", "write", f, up)
  /\ UNCHANGED <<dbVars, queue, alive>>

\* update_firewall, after _ensure_update_firewall.
StartUpdate(f, up) ==
  /\ InDb(f) /\ status[f] \notin Pending
  /\ Accept("update_firewall", "write", f, up)
  /\ UNCHANGED <<dbVars, queue, alive>>

\* delete_firewall checks nothing.
StartDelete(f) ==
  /\ status[f] # "unborn"
  /\ Accept("delete_firewall", "write", f, FALSE)
  /\ UNCHANGED <<dbVars, queue, alive>>

\* update_firewall_policy, insert_rule, remove_rule and update_firewall_rule,
\* after _ensure_update_firewall_policy.
StartEditPolicy ==
  /\ \A f \in Firewall : status[f] \notin Pending
  /\ Accept("edit_policy", "edit", None, FALSE)
  /\ UNCHANGED <<dbVars, queue, alive>>

-----------------------------------------------------------------------------
(* The transactions of a request, and its cast.                            *)

\* Firewall_db_mixin.create_firewall: insert the row under a new uuid.
Insert(r) ==
  /\ r.pc = "insert"
  /\ \E f \in Firewall :
       /\ status[f] = "unborn"
       /\ SetStatus(f, "PENDING_CREATE")
       /\ adminUp' = [adminUp EXCEPT ![f] = r.up]
       /\ Become(r, [r EXCEPT !.pc = "read", !.fw = f])
  /\ UNCHANGED <<rev, requests, queue, alive>>

\* Firewall_db_mixin.update_firewall: lock the row and set its status whatever it
\* is now; a missing row raises and ends the request.
Write(r) ==
  /\ r.pc = "write"
  /\ IF InDb(r.fw)
       THEN /\ SetStatus(r.fw, IF r.op = "delete_firewall" THEN "PENDING_DELETE"
                                                           ELSE "PENDING_UPDATE")
            /\ adminUp' = IF r.op = "update_firewall"
                            THEN [adminUp EXCEPT ![r.fw] = r.up] ELSE adminUp
            /\ Become(r, [r EXCEPT !.pc = "read"])
       ELSE End(r) /\ UNCHANGED <<status, adminUp, deletion>>
  /\ UNCHANGED <<rev, requests, queue, alive>>

\* The transaction that changes the policy or one of its rules.
EditPolicy(r) ==
  /\ r.pc = "edit"
  /\ rev' = rev + 1
  /\ Become(r, [r EXCEPT !.pc = "list"])
  /\ UNCHANGED <<status, adminUp, deletion, requests, queue, alive>>

\* _rpc_update_firewall_policy reads the list of the policy's firewalls.
ListFirewalls(r) ==
  /\ r.pc = "list"
  /\ PushNext(r, {f \in Firewall : InDb(f)})
  /\ UNCHANGED <<dbVars, requests, queue, alive>>

\* _make_firewall_dict_with_rules reads the row,
ReadFirewallRow(r) ==
  /\ r.pc = "read"
  /\ IF InDb(r.fw) THEN Become(r, [r EXCEPT !.pc = "rules", !.up = adminUp[r.fw]])
                  ELSE End(r)
  /\ UNCHANGED <<dbVars, requests, queue, alive>>

\* and then the rules of the policy, in new transactions.
ReadRules(r) ==
  /\ r.pc = "rules"
  /\ Become(r, [r EXCEPT !.pc = "cast", !.rev = rev])
  /\ UNCHANGED <<dbVars, requests, queue, alive>>

MessageOf(r) ==
  [id |-> r.id, func |-> IF r.op = "edit_policy" THEN "update_firewall" ELSE r.op,
   fw |-> r.fw, up |-> r.up, rev |-> r.rev]

\* Mutant: a cast to one agent in the place of a fanout cast.
Cast_OneAgent(r) ==
  /\ r.pc = "cast"
  /\ \E a \in Agent : queue' = IF alive[a] THEN [queue EXCEPT ![a] = Append(@, MessageOf(r))]
                                            ELSE queue
  /\ PushNext(r, r.todo)
  /\ UNCHANGED <<dbVars, requests, alive>>

\* FirewallAgentApi: a copy to the queue of every agent that runs.
Cast(r) ==
  /\ r.pc = "cast"
  /\ queue' = [a \in Agent |-> IF alive[a] THEN Append(queue[a], MessageOf(r))
                                           ELSE queue[a]]
  /\ PushNext(r, r.todo)
  /\ UNCHANGED <<dbVars, requests, alive>>

ApiRequest ==
  \/ \E up \in BOOLEAN : StartCreate(up)
  \/ \E f \in Firewall, up \in BOOLEAN : StartUpdate(f, up)
  \/ \E f \in Firewall : StartDelete(f)
  \/ StartEditPolicy

Serve(r) ==
  \/ Insert(r) \/ Write(r) \/ EditPolicy(r)
  \/ ListFirewalls(r) \/ ReadFirewallRow(r) \/ ReadRules(r) \/ Cast(r)

-----------------------------------------------------------------------------
(* FirewallCallbacks: the status an agent's call leaves in the row whose   *)
(* status it read as `seen`.                                               *)

\* Mutant: a firewall that expects to be deleted changes status too.
SetFirewallStatus_AlwaysChanges(seen, s) ==
  IF s \in {"ACTIVE", "DOWN"} THEN s ELSE "ERROR"

SetFirewallStatus(seen, s) ==
  IF seen = "PENDING_DELETE" THEN seen
  ELSE IF s \in {"ACTIVE", "DOWN"} THEN s ELSE "ERROR"

\* Mutant: the other status that firewall_deleted allows.
DeleteDbFirewallObject_InError(seen) ==
  IF seen = "ERROR" THEN "gone" ELSE seen

\* delete_db_firewall_object reads the row again, in the same session.
DeleteDbFirewallObject(seen) ==
  IF seen = "PENDING_DELETE" THEN "gone" ELSE seen

\* What firewall_deleted answers.
AnswersDeleted(seen) == seen \in {"PENDING_DELETE", "ERROR"}

FirewallDeleted(seen) ==
  IF AnswersDeleted(seen) THEN DeleteDbFirewallObject(seen) ELSE "ERROR"

=============================================================================
