------------------------------- MODULE L3Agent -------------------------------
(***************************************************************************)
(* The L3 agents (agent/l3_agent.py): handlers of messages, which only add *)
(* to sets, and two tasks under one lock, _rpc_loop and _sync_routers_task *)
(* (`loop`).  `forwards` is what the kernel of the host does, router by    *)
(* router: the revision of the router its namespace was set up for, or 0.  *)
(* It outlives the agent.                                                  *)
(***************************************************************************)
EXTENDS RouterScheduler

CONSTANTS
  CleanStale,     \* use_namespaces and router_delete_namespaces
  MaxRpcFailures, MaxConfigFailures, MaxCrashes, MaxLateHeartbeats

ASSUME CleanStaleAssumption == CleanStale \in BOOLEAN
ASSUME FaultAssumption ==
  {MaxRpcFailures, MaxConfigFailures, MaxCrashes, MaxLateHeartbeats} \subseteq Nat

VARIABLES
  info,       \* router_info: the routers the agent knows
  half,       \* those of them it has failed to make a namespace for
  forwards,
  updated,    \* updated_routers
  removed,    \* removed_routers
  fullsync,
  stale,      \* _delete_stale_namespaces
  loop,       \* the task that holds the lock: pc, and what it works on
  running,
  faults,     \* faults of each kind so far
  owed        \* history: updates delivered, and not read from the server since

agentVars == <<info, half, forwards, updated, removed, fullsync, stale, loop, running, faults, owed>>

FaultKinds == {"rpc", "config", "crash", "heartbeat"}
MaxFaults == [k \in FaultKinds |-> CASE k = "rpc"    -> MaxRpcFailures
                                     [] k = "config" -> MaxConfigFailures
                                     [] k = "crash"  -> MaxCrashes
                                     [] OTHER        -> MaxLateHeartbeats]
Fault(k) == faults[k] < MaxFaults[k] /\ faults' = [faults EXCEPT ![k] = @ + 1]

Resting == [pc |-> "idle", ids |-> {}]

AgentTypeOK ==
  /\ info \in [Agents -> SUBSET Routers]
  /\ half \in [Agents -> SUBSET Routers]
  /\ forwards \in [Agents -> [Routers -> Nat]]
  /\ updated \in [Agents -> SUBSET Routers]
  /\ removed \in [Agents -> SUBSET Routers]
  /\ fullsync \in [Agents -> BOOLEAN]
  /\ stale \in [Agents -> BOOLEAN]
  /\ loop \in [Agents -> [pc : {"idle", "updating", "deleting", "syncing"}, ids : SUBSET Routers]]
  /\ running \in [Agents -> BOOLEAN]
  /\ faults \in [FaultKinds -> Nat]
  /\ owed \in [Agents -> SUBSET Routers]

AgentInit ==
  /\ info = [a \in Agents |-> {}]
  /\ half = [a \in Agents |-> {}]
  /\ forwards = [a \in Agents |-> Absent]
  /\ updated = [a \in Agents |-> {}]
  /\ removed = [a \in Agents |-> {}]
  /\ fullsync = [a \in Agents |-> TRUE]
  /\ stale = [a \in Agents |-> CleanStale]
  /\ loop = [a \in Agents |-> Resting]
  /\ running = [a \in Agents |-> TRUE]
  /\ faults = [k \in FaultKinds |-> 0]
  /\ owed = [a \in Agents |-> {}]

-----------------------------------------------------------------------------
(* The handlers.                                                           *)

\* Mutant: an update takes the router out of the removed ones.
RoutersUpdated_Kept(a, r) ==
  /\ updated' = [updated EXCEPT ![a] = @ \cup {r}]
  /\ removed' = [removed EXCEPT ![a] = @ \ {r}]
  /\ owed' = [owed EXCEPT ![a] = @ \cup {r}]

RoutersUpdated(a, r) ==
  /\ updated' = [updated EXCEPT ![a] = @ \cup {r}]
  /\ owed' = [owed EXCEPT ![a] = @ \cup {r}]
  /\ UNCHANGED removed

\* routers_updated, router_added_to_agent; router_deleted,
\* router_removed_from_agent; agent_updated.
Deliver(a) ==
  LET m == Head(inbox[a])
      r == m.router
  IN  /\ running[a] /\ inbox[a] # <<>>
      /\ inbox' = [inbox EXCEPT ![a] = Tail(@)]
      /\ \/ /\ m.kind = "updated" /\ RoutersUpdated(a, r)
            /\ UNCHANGED fullsync
         \/ /\ m.kind \in {"deleted", "removed"}
            /\ removed' = [removed EXCEPT ![a] = @ \cup {r}]
            /\ UNCHANGED <<updated, fullsync, owed>>
         \/ /\ m.kind = "agent_updated"
            /\ fullsync' = [fullsync EXCEPT ![a] = TRUE]
            /\ UNCHANGED <<updated, removed, owed>>
      /\ UNCHANGED <<row, bound, agentUp, alive, api, rpc, requests,
                     info, half, forwards, stale, loop, running, faults>>

-----------------------------------------------------------------------------
(* The tasks.                                                              *)

MayLoop(a) == running[a] /\ loop[a].pc = "idle" /\ rpc[a].pc = "idle"

Ask(a, ids) ==
  rpc' = [rpc EXCEPT ![a] = [pc |-> "asked", ids |-> ids, bind |-> {}, found |-> Absent, late |-> FALSE]]

\* _rpc_loop takes the updated routers and asks for them ...
StartUpdates(a) ==
  /\ MayLoop(a) /\ updated[a] # {}
  /\ loop' = [loop EXCEPT ![a] = [pc |-> "updating", ids |-> updated[a]]]
  /\ updated' = [updated EXCEPT ![a] = {}]
  /\ Ask(a, updated[a])
  /\ UNCHANGED <<row, bound, agentUp, alive, api, inbox, requests,
                 info, half, forwards, removed, fullsync, stale, running, faults, owed>>

\* ... or, when there are none, goes on to the removed ones at once.
StartDeletes(a) ==
  /\ MayLoop(a) /\ updated[a] = {} /\ removed[a] # {}
  /\ loop' = [loop EXCEPT ![a] = [pc |-> "deleting", ids |-> removed[a]]]
  /\ UNCHANGED <<serverVars, info, half, forwards, updated, removed, fullsync, stale, running, faults, owed>>

\* _sync_routers_task forgets what was reported and asks for everything.
StartSync(a) ==
  /\ MayLoop(a) /\ fullsync[a]
  /\ loop' = [loop EXCEPT ![a] = [pc |-> "syncing", ids |-> {}]]
  /\ updated' = [updated EXCEPT ![a] = {}]
  /\ removed' = [removed EXCEPT ![a] = {}]
  /\ Ask(a, {})
  /\ UNCHANGED <<row, bound, agentUp, alive, api, inbox, requests,
                 info, half, forwards, fullsync, stale, running, faults, owed>>

\* process_router and _router_removed run in green threads, and when one fails nobody
\* is told; without a namespace it does.
Failing(a, bad, of) ==
  /\ half[a] \cap of \subseteq bad /\ bad \subseteq of
  /\ IF bad \subseteq half[a] THEN UNCHANGED faults ELSE Fault("config")

Fetched(a) == {r \in Routers : rpc[a].found[r] > 0}

\* Mutant: what was asked for and not returned is left alone.
Missing_Kept(a) == {}

\* "routers with admin_state_up=false will not be in the fetched".
Missing(a) == loop[a].ids \ Fetched(a)

\* _process_routers with the routers asked for: none of them is to be removed here,
\* those that were not returned go to removed_routers, which is copied next.
FinishUpdates(a, bad) ==
  /\ running[a] /\ loop[a].pc = "updating" /\ rpc[a].pc = "replied" /\ ~rpc[a].late
  /\ Failing(a, bad, Fetched(a))
  /\ info' = [info EXCEPT ![a] = @ \cup Fetched(a)]
  /\ forwards' = [forwards EXCEPT ![a] =
                    [r \in Routers |-> IF r \in Fetched(a) \ bad THEN rpc[a].found[r] ELSE @[r]]]
  /\ removed' = [removed EXCEPT ![a] = @ \cup Missing(a)]
  /\ loop' = [loop EXCEPT ![a] = IF removed[a] \cup Missing(a) = {} THEN Resting
                                 ELSE [pc |-> "deleting", ids |-> removed[a] \cup Missing(a)]]
  /\ rpc' = [rpc EXCEPT ![a] = NoCall]
  /\ UNCHANGED <<row, bound, agentUp, alive, api, inbox, requests,
                 half, updated, fullsync, stale, running, owed>>

\* _router_removed, for a router of the copy.
DeleteOne(a, r) ==
  /\ running[a] /\ loop[a].pc = "deleting" /\ r \in loop[a].ids \ half[a]
  /\ info' = [info EXCEPT ![a] = @ \ {r}]
  /\ forwards' = [forwards EXCEPT ![a][r] = IF r \in info[a] THEN 0 ELSE @]
  /\ removed' = [removed EXCEPT ![a] = @ \ {r}]
  /\ loop' = [loop EXCEPT ![a] = IF @.ids = {r} THEN Resting
                                 ELSE [pc |-> "deleting", ids |-> @.ids \ {r}]]
  /\ UNCHANGED <<serverVars, half, updated, fullsync, stale, running, faults, owed>>

\* It fails: the exception ends the loop.
DeleteFails(a, r) ==
  /\ running[a] /\ loop[a].pc = "deleting" /\ r \in loop[a].ids \cap info[a]
  /\ IF r \in half[a] THEN UNCHANGED faults ELSE Fault("config")
  /\ fullsync' = [fullsync EXCEPT ![a] = TRUE]
  /\ loop' = [loop EXCEPT ![a] = Resting]
  /\ UNCHANGED <<serverVars, info, half, forwards, updated, removed, stale, running, owed>>

\* _process_routers with all routers: those the agent knows and the server does not
\* are removed, here in green threads as well; then namespaces from before the start.
FinishSync(a, bad) ==
  LET found   == rpc[a].found
      fetched == Fetched(a)
      gone    == info[a] \ fetched
  IN  /\ running[a] /\ loop[a].pc = "syncing" /\ rpc[a].pc = "replied" /\ ~rpc[a].late
      /\ Failing(a, bad, fetched \cup gone)
      /\ info' = [info EXCEPT ![a] = fetched \cup (bad \cap gone)]
      /\ forwards' = [forwards EXCEPT ![a] =
                        [r \in Routers |-> IF r \in fetched THEN IF r \in bad THEN @[r] ELSE found[r]
                                           ELSE IF stale[a] \/ r \in gone \ bad THEN 0 ELSE @[r]]]
      /\ fullsync' = [fullsync EXCEPT ![a] = FALSE]
      /\ stale' = [stale EXCEPT ![a] = FALSE]
      /\ loop' = [loop EXCEPT ![a] = Resting]
      /\ rpc' = [rpc EXCEPT ![a] = NoCall]
      /\ UNCHANGED <<row, bound, agentUp, alive, api, inbox, requests,
                     half, updated, removed, running, owed>>

\* _router_added fails for r, which router_info has by then; of the others fetched
\* some have been processed, and none removed.  Both tasks leave it to a full sync, the
\* full sync after it has cleaned up stale namespaces.
AddFails(a, r, done, made) ==
  LET syncing == loop[a].pc = "syncing"
      fetched == Fetched(a)
  IN  /\ running[a] /\ loop[a].pc \in {"updating", "syncing"}
      /\ rpc[a].pc = "replied" /\ ~rpc[a].late
      /\ r \in fetched \ info[a] /\ done \subseteq fetched \ (half[a] \cup {r})
      /\ Fault("config")
      /\ info' = [info EXCEPT ![a] = @ \cup done \cup {r}]
      /\ half' = [half EXCEPT ![a] = IF made THEN @ ELSE @ \cup {r}]
      /\ forwards' = [forwards EXCEPT ![a] =
                        [q \in Routers |-> IF q \in done THEN rpc[a].found[q]
                                           ELSE IF syncing /\ stale[a] /\ q \notin fetched THEN 0
                                           ELSE @[q]]]
      /\ removed' = IF syncing THEN removed
                    ELSE [removed EXCEPT ![a] = @ \cup Missing(a)]
      /\ fullsync' = [fullsync EXCEPT ![a] = TRUE]
      /\ stale' = [stale EXCEPT ![a] = @ /\ ~syncing]
      /\ loop' = [loop EXCEPT ![a] = Resting]
      /\ rpc' = [rpc EXCEPT ![a] = NoCall]
      /\ UNCHANGED <<row, bound, agentUp, alive, api, inbox, requests, updated, running, owed>>

\* Mutant: the loop goes on without a full sync.
Resync_Forgotten(a) == UNCHANGED fullsync

Resync(a) == fullsync' = [fullsync EXCEPT ![a] = TRUE]

\* The call times out, served or not; or the server has answered with an error.
\* Either task then leaves the rest to a full sync.
CallFails(a) ==
  /\ running[a] /\ loop[a].pc \in {"updating", "syncing"} /\ ~rpc[a].late
  /\ \/ /\ Fault("rpc")
        /\ rpc' = [rpc EXCEPT ![a] = IF @.pc \in {"asked", "replied", "failed"} THEN NoCall
                                     ELSE [@ EXCEPT !.late = TRUE]]
     \/ /\ rpc[a].pc = "failed"
        /\ rpc' = [rpc EXCEPT ![a] = NoCall]
        /\ UNCHANGED faults
  /\ Resync(a)
  /\ loop' = [loop EXCEPT ![a] = Resting]
  /\ UNCHANGED <<row, bound, agentUp, alive, api, inbox, requests,
                 info, half, forwards, updated, removed, stale, running, owed>>

\* What a call that timed out still brings, nobody takes.
DropAnswer(a) ==
  /\ rpc[a].late /\ rpc[a].pc \in {"replied", "failed"}
  /\ rpc' = [rpc EXCEPT ![a] = NoCall]
  /\ UNCHANGED <<row, bound, agentUp, alive, api, inbox, requests, agentVars>>

-----------------------------------------------------------------------------
(* Heartbeats, crashes and starts.                                         *)

\* The queue of the host keeps its messages, that of the fanout is the process's own.
NotFanout(q) ==
  LET kept[n \in 0..Len(q)] == IF n = 0 THEN <<>>
                               ELSE IF q[n].kind = "deleted" THEN kept[n - 1]
                               ELSE Append(kept[n - 1], q[n])
  IN  kept[Len(q)]

Crash(a) ==
  /\ running[a] /\ Fault("crash")
  /\ running' = [running EXCEPT ![a] = FALSE]
  /\ info' = [info EXCEPT ![a] = {}]
  /\ half' = [half EXCEPT ![a] = {}]
  /\ updated' = [updated EXCEPT ![a] = {}]
  /\ removed' = [removed EXCEPT ![a] = {}]
  /\ owed' = [owed EXCEPT ![a] = {}]
  /\ loop' = [loop EXCEPT ![a] = Resting]
  /\ rpc' = [rpc EXCEPT ![a] = IF @.pc \in {"idle", "asked", "replied", "failed"} THEN NoCall
                               ELSE [@ EXCEPT !.late = TRUE]]
  /\ UNCHANGED <<row, bound, agentUp, alive, api, inbox, requests, forwards, fullsync, stale>>

\* The first report is on its way before the first sync; when it gets lost, the agent
\* still looks down (LooksDown).
Start(a) ==
  /\ ~running[a]
  /\ running' = [running EXCEPT ![a] = TRUE]
  /\ alive' = [alive EXCEPT ![a] = TRUE]
  /\ inbox' = [inbox EXCEPT ![a] = NotFanout(@)]
  /\ fullsync' = [fullsync EXCEPT ![a] = TRUE]
  /\ stale' = [stale EXCEPT ![a] = CleanStale]
  /\ UNCHANGED <<row, bound, agentUp, api, rpc, requests,
                 info, half, forwards, updated, removed, loop, faults, owed>>

\* agent_down_time passes without a report: the agent is down, or only late.
LooksDown(a) ==
  /\ alive[a]
  /\ IF running[a] THEN Fault("heartbeat") ELSE UNCHANGED faults
  /\ alive' = [alive EXCEPT ![a] = FALSE]
  /\ UNCHANGED <<row, bound, agentUp, api, rpc, inbox, requests,
                 info, half, forwards, updated, removed, fullsync, stale, loop, running, owed>>

\* _report_state.
ReportState(a) ==
  /\ running[a] /\ ~alive[a]
  /\ alive' = [alive EXCEPT ![a] = TRUE]
  /\ UNCHANGED <<row, bound, agentUp, api, rpc, inbox, requests, agentVars>>

Loop(a) ==
  \/ StartUpdates(a) \/ StartDeletes(a)
  \/ \E r \in Routers : DeleteOne(a, r)
  \/ \E bad \in SUBSET Routers : FinishUpdates(a, bad) \/ FinishSync(a, bad)
Fail(a) ==
  \/ CallFails(a) \/ Crash(a)
  \/ \E r \in Routers : \/ DeleteFails(a, r)
                        \/ \E done \in SUBSET Routers, made \in BOOLEAN : AddFails(a, r, done, made)
=============================================================================
