-------------------------- MODULE L3RoutingProofs ---------------------------
(***************************************************************************)
(* Proofs about L3Routing for every number of routers, agents and threads  *)
(* of the server, and whatever fails.                                      *)
(***************************************************************************)
EXTENDS L3Routing, WellFoundedInduction, TLAPS

-----------------------------------------------------------------------------
(* The task of an agent and its call.                                      *)

Waiting(c) == c.pc # "idle" /\ ~c.late

\* What the task that holds the lock of an agent works on, and what was delivered while
\* it waited for its answer.
TaskOK(l, c, rem, up, owes, full) ==
  /\ l.pc = "deleting" => l.ids \subseteq rem /\ (owes \subseteq up \/ full)
  /\ l.pc = "idle"     => owes \subseteq up \/ full
  /\ l.pc = "syncing"  => Waiting(c) /\ c.ids = {} /\ full /\ (c.pc = "replied" => owes \subseteq up)
  /\ l.pc = "updating" => /\ Waiting(c) /\ c.ids = l.ids /\ l.ids # {}
                          /\ owes \subseteq up \cup l.ids \/ full
                          /\ c.pc = "replied" => owes \subseteq up \/ full

\* The same of the agent as it is now.
TaskOf(a) ==
  IF running[a] THEN TaskOK(loop[a], rpc[a], removed[a], updated[a], owed[a], fullsync[a])
                ELSE loop[a] = Resting

\* The functions whose values at one agent a step changes.
OnAgents(f) == f = [a \in Agents |-> f[a]]
AllOnAgents ==
  /\ OnAgents(loop) /\ OnAgents(rpc) /\ OnAgents(removed) /\ OnAgents(updated)
  /\ OnAgents(owed) /\ OnAgents(fullsync) /\ OnAgents(running)

\* The shape of tasks and calls.
IsLoop(l) == l = [pc |-> l.pc, ids |-> l.ids] /\ l.pc \in {"idle", "updating", "deleting", "syncing"}
IsCall(c) ==
  c = [pc |-> c.pc, ids |-> c.ids, bind |-> c.bind, found |-> c.found, late |-> c.late]

\* The inductive invariant.
TaskInv ==
  /\ AllOnAgents
  /\ \A a \in Agents : IsLoop(loop[a]) /\ IsCall(rpc[a]) /\ TaskOf(a)

\* What the invariant says of one agent depends on these.
Local(a) == <<loop[a], rpc[a], removed[a], updated[a], owed[a], fullsync[a], running[a]>>
taskVars == <<loop, rpc, removed, updated, owed, fullsync, running>>

\* The task and the call that are none.
LEMMA Constants == IsLoop(Resting) /\ IsCall(NoCall) /\ NoCall.pc = "idle" /\ Resting.ids = {} /\ Resting.pc = "idle"
BY DEF IsLoop, IsCall, Resting, NoCall

\* The invariant holds at the start.
LEMMA InitTask == Init => TaskInv
BY Constants DEF Init, AgentInit, ServerInit, TaskInv, AllOnAgents, OnAgents, TaskOf, TaskOK

\* The part that is left to show of a step of one agent.
LEMMA OneAgent ==
  ASSUME TaskInv, NEW a \in Agents, AllOnAgents', \A b \in Agents \ {a} : Local(b)' = Local(b),
         IsLoop(loop[a])', IsCall(rpc[a])', TaskOf(a)'
  PROVE  TaskInv'
BY DEF TaskInv, Local, TaskOf

\* Steps of the server that touch none of this keep it.
LEMMA SameTasks == ASSUME TaskInv, UNCHANGED taskVars PROVE TaskInv'
BY DEF TaskInv, taskVars, AllOnAgents, TaskOf

\* A message adds to the sets, whatever the task is at.
LEMMA DeliverTask ==
  ASSUME TaskInv, NEW a \in Agents, Deliver(a)
  PROVE  TaskInv'
<1> DEFINE r == Head(inbox[a]).router
<1>1. running[a] /\ IsLoop(loop[a]) /\ IsCall(rpc[a]) /\ TaskOf(a) /\ AllOnAgents
  BY DEF TaskInv, Deliver
<1>2. UNCHANGED <<loop, rpc, running>>
  BY DEF Deliver
<1>3. CASE RoutersUpdated(a, r) /\ UNCHANGED fullsync
  <2>1. /\ updated' = [updated EXCEPT ![a] = @ \cup {r}] /\ owed' = [owed EXCEPT ![a] = @ \cup {r}]
        /\ UNCHANGED <<removed, fullsync>>
    BY <1>3 DEF RoutersUpdated
  <2>. HIDE DEF r
  <2>2. AllOnAgents' /\ \A b \in Agents \ {a} : Local(b)' = Local(b)
    BY <1>1, <1>2, <2>1 DEF AllOnAgents, OnAgents, Local
  <2>3. updated'[a] = updated[a] \cup {r} /\ owed'[a] = owed[a] \cup {r}
    BY <1>1, <2>1 DEF AllOnAgents, OnAgents
  <2>4. TaskOf(a)'
    BY <1>1, <1>2, <2>1, <2>3 DEF TaskOf, TaskOK, Waiting
  <2>. QED
    BY <1>1, <1>2, <2>2, <2>4, OneAgent DEF IsLoop, IsCall
<1>4. CASE removed' = [removed EXCEPT ![a] = @ \cup {r}] /\ UNCHANGED <<updated, fullsync, owed>>
  <2>. HIDE DEF r
  <2>1. AllOnAgents' /\ \A b \in Agents \ {a} : Local(b)' = Local(b)
    BY <1>1, <1>2, <1>4 DEF AllOnAgents, OnAgents, Local
  <2>2. removed'[a] = removed[a] \cup {r}
    BY <1>1, <1>4 DEF AllOnAgents, OnAgents
  <2>3. TaskOf(a)'
    BY <1>1, <1>2, <1>4, <2>2 DEF TaskOf, TaskOK, Waiting
  <2>. QED
    BY <1>1, <1>2, <2>1, <2>3, OneAgent DEF IsLoop, IsCall
<1>5. CASE fullsync' = [fullsync EXCEPT ![a] = TRUE] /\ UNCHANGED <<updated, removed, owed>>
  <2>1. AllOnAgents' /\ \A b \in Agents \ {a} : Local(b)' = Local(b)
    BY <1>1, <1>2, <1>5 DEF AllOnAgents, OnAgents, Local
  <2>2. fullsync'[a]
    BY <1>1, <1>5 DEF AllOnAgents, OnAgents
  <2>3. TaskOf(a)'
    BY <1>1, <1>2, <1>5, <2>2 DEF TaskOf, TaskOK, Waiting
  <2>. QED
    BY <1>1, <1>2, <2>1, <2>3, OneAgent DEF IsLoop, IsCall
<1>. QED
  BY <1>3, <1>4, <1>5, Zenon DEF Deliver

\* A task begins: the updated routers it asks for leave the set, the removed ones stay.
LEMMA StartTask ==
  ASSUME TaskInv, NEW a \in Agents, StartUpdates(a) \/ StartDeletes(a) \/ StartSync(a)
  PROVE  TaskInv'
<1>1. running[a] /\ loop[a].pc = "idle" /\ IsLoop(loop[a]) /\ IsCall(rpc[a]) /\ TaskOf(a) /\ AllOnAgents
  BY DEF TaskInv, StartUpdates, StartDeletes, StartSync, MayLoop
<1> DEFINE call(ids) == [pc |-> "asked", ids |-> ids, bind |-> {}, found |-> Absent, late |-> FALSE]
<1>2. ASSUME NEW ids
      PROVE  IsCall(call(ids)) /\ Waiting(call(ids)) /\ call(ids).ids = ids /\ call(ids).pc = "asked"
  <2>1. call(ids) = [pc |-> "asked", ids |-> ids, bind |-> {}, found |-> Absent, late |-> FALSE]
    OBVIOUS
  <2>. HIDE DEF call
  <2>2. call(ids).ids = ids /\ call(ids).pc = "asked" /\ ~call(ids).late
    BY <2>1
  <2>3. IsCall(call(ids))
    BY <2>1, Zenon DEF IsCall
  <2>. QED
    BY <2>2, <2>3 DEF Waiting
<1>. HIDE DEF call
<1>3. CASE StartUpdates(a)
  <2>1. /\ loop' = [loop EXCEPT ![a] = [pc |-> "updating", ids |-> updated[a]]]
        /\ updated' = [updated EXCEPT ![a] = {}] /\ updated[a] # {}
        /\ rpc' = [rpc EXCEPT ![a] = call(updated[a])]
        /\ UNCHANGED <<removed, owed, fullsync, running>>
    BY <1>3 DEF StartUpdates, Ask, call
  <2>2. AllOnAgents' /\ \A b \in Agents \ {a} : Local(b)' = Local(b)
    BY <1>1, <2>1 DEF AllOnAgents, OnAgents, Local
  <2>3. /\ loop'[a] = [pc |-> "updating", ids |-> updated[a]]
        /\ updated'[a] = {} /\ rpc'[a] = call(updated[a])
    BY <1>1, <2>1 DEF AllOnAgents, OnAgents
  <2>4. IsLoop(loop'[a]) /\ IsCall(rpc'[a])
    BY <1>2, <2>3 DEF IsLoop
  <2>5. TaskOf(a)'
    BY <1>1, <1>2, <2>1, <2>3 DEF TaskOf, TaskOK
  <2>. QED
    BY <2>2, <2>4, <2>5, OneAgent DEF IsLoop, IsCall
<1>4. CASE StartDeletes(a)
  <2>1. /\ loop' = [loop EXCEPT ![a] = [pc |-> "deleting", ids |-> removed[a]]]
        /\ UNCHANGED <<rpc, removed, updated, owed, fullsync, running>>
    BY <1>4 DEF StartDeletes, serverVars
  <2>2. AllOnAgents' /\ \A b \in Agents \ {a} : Local(b)' = Local(b)
    BY <1>1, <2>1 DEF AllOnAgents, OnAgents, Local
  <2>3. loop'[a] = [pc |-> "deleting", ids |-> removed[a]]
    BY <1>1, <2>1 DEF AllOnAgents, OnAgents
  <2>4. IsLoop(loop'[a]) /\ IsCall(rpc'[a])
    BY <1>1, <2>1, <2>3 DEF IsLoop
  <2>5. TaskOf(a)'
    BY <1>1, <2>1, <2>3 DEF TaskOf, TaskOK
  <2>. QED
    BY <2>2, <2>4, <2>5, OneAgent DEF IsLoop, IsCall
<1>5. CASE StartSync(a)
  <2>1. /\ loop' = [loop EXCEPT ![a] = [pc |-> "syncing", ids |-> {}]]
        /\ updated' = [updated EXCEPT ![a] = {}] /\ removed' = [removed EXCEPT ![a] = {}]
        /\ rpc' = [rpc EXCEPT ![a] = call({})] /\ fullsync[a]
        /\ UNCHANGED <<owed, fullsync, running>>
    BY <1>5 DEF StartSync, Ask, call
  <2>2. AllOnAgents' /\ \A b \in Agents \ {a} : Local(b)' = Local(b)
    BY <1>1, <2>1 DEF AllOnAgents, OnAgents, Local
  <2>3. loop'[a] = [pc |-> "syncing", ids |-> {}] /\ rpc'[a] = call({})
    BY <1>1, <2>1 DEF AllOnAgents, OnAgents
  <2>4. IsLoop(loop'[a]) /\ IsCall(rpc'[a])
    BY <1>2, <2>3 DEF IsLoop
  <2>5. TaskOf(a)'
    BY <1>1, <1>2, <2>1, <2>3 DEF TaskOf, TaskOK
  <2>. QED
    BY <2>2, <2>4, <2>5, OneAgent DEF IsLoop, IsCall
<1>. QED
  BY <1>3, <1>4, <1>5

\* A step that ends the task of an agent with a full sync to come.
LEMMA EndWithSync ==
  ASSUME TaskInv, NEW a \in Agents, AllOnAgents', \A b \in Agents \ {a} : Local(b)' = Local(b),
         loop'[a] = Resting, IsCall(rpc[a])', fullsync'[a]
  PROVE  TaskInv'
<1>1. IsLoop(loop[a])' /\ TaskOf(a)'
  BY Constants DEF TaskOf, TaskOK, IsLoop
<1>. QED
  BY <1>1, OneAgent

\* The copy loses a router when the set does, or the pass ends.
LEMMA DeleteTask ==
  ASSUME TaskInv, NEW a \in Agents, NEW r \in Routers, DeleteOne(a, r) \/ DeleteFails(a, r)
  PROVE  TaskInv'
<1>1. /\ running[a] /\ loop[a].pc = "deleting" /\ IsLoop(loop[a]) /\ IsCall(rpc[a])
      /\ TaskOf(a) /\ AllOnAgents
  BY DEF TaskInv, DeleteOne, DeleteFails
<1>2. CASE DeleteOne(a, r)
  <2> DEFINE l == IF loop[a].ids = {r} THEN Resting 
                  ELSE [pc |-> "deleting", ids |-> loop[a].ids \ {r}]
  <2>1. /\ loop' = [loop EXCEPT ![a] = l] /\ removed' = [removed EXCEPT ![a] = @ \ {r}]
        /\ UNCHANGED <<rpc, updated, owed, fullsync, running>>
    BY <1>2 DEF DeleteOne, serverVars
  <2>2. \/ l = Resting
        \/ l = [pc |-> "deleting", ids |-> loop[a].ids \ {r}]
    OBVIOUS
  <2>. HIDE DEF l
  <2>3. AllOnAgents' /\ \A b \in Agents \ {a} : Local(b)' = Local(b)
    BY <1>1, <2>1 DEF AllOnAgents, OnAgents, Local
  <2>4. loop'[a] = l /\ removed'[a] = removed[a] \ {r}
    BY <1>1, <2>1 DEF AllOnAgents, OnAgents
  <2>5. IsLoop(loop'[a])
    BY <2>2, <2>4, Constants DEF IsLoop
  <2>6. TaskOf(a)'
    BY <1>1, <2>1, <2>2, <2>4, Constants DEF TaskOf, TaskOK
  <2>. QED
    BY <1>1, <2>1, <2>3, <2>5, <2>6, OneAgent DEF IsLoop, IsCall
<1>3. CASE DeleteFails(a, r)
  <2>1. /\ loop' = [loop EXCEPT ![a] = Resting] /\ fullsync' = [fullsync EXCEPT ![a] = TRUE]
        /\ UNCHANGED <<rpc, removed, updated, owed, running>>
    BY <1>3 DEF DeleteFails, serverVars
  <2>2. AllOnAgents' /\ \A b \in Agents \ {a} : Local(b)' = Local(b)
    BY <1>1, <2>1 DEF AllOnAgents, OnAgents, Local
  <2>3. loop'[a] = Resting /\ fullsync'[a]
    BY <1>1, <2>1 DEF AllOnAgents, OnAgents
  <2>. QED
    BY <1>1, <2>1, <2>2, <2>3, EndWithSync DEF IsCall
<1>. QED
  BY <1>2, <1>3

\* An answer ends the wait, and the updates it was about.
LEMMA FinishTask ==
  ASSUME TaskInv, NEW a \in Agents, NEW bad, FinishUpdates(a, bad) \/ FinishSync(a, bad)
  PROVE  TaskInv'
<1>1. /\ running[a] /\ IsLoop(loop[a]) /\ IsCall(rpc[a]) /\ TaskOf(a) /\ AllOnAgents
      /\ rpc[a].pc = "replied"
  BY DEF TaskInv, FinishUpdates, FinishSync
<1>2. CASE FinishUpdates(a, bad)
  <2> DEFINE more == removed[a] \cup Missing(a)
             l    == IF more = {} THEN Resting ELSE [pc |-> "deleting", ids |-> more]
  <2>1. /\ loop' = [loop EXCEPT ![a] = l] /\ removed' = [removed EXCEPT ![a] = more]
        /\ rpc' = [rpc EXCEPT ![a] = NoCall] /\ loop[a].pc = "updating"
        /\ UNCHANGED <<updated, owed, fullsync, running>>
    BY <1>2 DEF FinishUpdates
  <2>2. l = Resting \/ l = [pc |-> "deleting", ids |-> more]
    OBVIOUS
  <2>. HIDE DEF l, more
  <2>3. AllOnAgents' /\ \A b \in Agents \ {a} : Local(b)' = Local(b)
    BY <1>1, <2>1 DEF AllOnAgents, OnAgents, Local
  <2>4. loop'[a] = l /\ removed'[a] = more /\ rpc'[a] = NoCall
    BY <1>1, <2>1 DEF AllOnAgents, OnAgents
  <2>5. IsLoop(loop'[a]) /\ IsCall(rpc'[a])
    BY <2>2, <2>4, Constants DEF IsLoop
  <2>6. TaskOf(a)'
    BY <1>1, <2>1, <2>2, <2>4, Constants DEF TaskOf, TaskOK
  <2>. QED
    BY <2>3, <2>5, <2>6, OneAgent DEF IsLoop, IsCall
<1>3. CASE FinishSync(a, bad)
  <2>1. /\ loop' = [loop EXCEPT ![a] = Resting] /\ fullsync' = [fullsync EXCEPT ![a] = FALSE]
        /\ rpc' = [rpc EXCEPT ![a] = NoCall] /\ loop[a].pc = "syncing"
        /\ UNCHANGED <<updated, removed, owed, running>>
    BY <1>3 DEF FinishSync
  <2>2. AllOnAgents' /\ \A b \in Agents \ {a} : Local(b)' = Local(b)
    BY <1>1, <2>1 DEF AllOnAgents, OnAgents, Local
  <2>3. loop'[a] = Resting /\ rpc'[a] = NoCall
    BY <1>1, <2>1 DEF AllOnAgents, OnAgents
  <2>4. IsLoop(loop'[a]) /\ IsCall(rpc'[a])
    BY <2>3, Constants
  <2>5. TaskOf(a)'
    BY <1>1, <2>1, <2>3, Constants DEF TaskOf, TaskOK
  <2>. QED
    BY <2>2, <2>4, <2>5, OneAgent DEF IsLoop, IsCall
<1>. QED
  BY <1>2, <1>3

\* The ways a task fails, and an answer that nobody waits for.
LEMMA FailTask ==
  ASSUME TaskInv, NEW a \in Agents,
         CallFails(a) \/ \E r \in Routers, done \in SUBSET Routers, made \in BOOLEAN : AddFails(a, r, done, made)
  PROVE  TaskInv'
<1>1. IsCall(rpc[a]) /\ AllOnAgents
  BY DEF TaskInv
<1>2. CASE CallFails(a)
  <2>1. PICK c : /\ rpc' = [rpc EXCEPT ![a] = c] /\ c \in {NoCall, [rpc[a] EXCEPT !.late = TRUE]}
    BY <1>2, Zenon DEF CallFails
  <2>2. /\ loop' = [loop EXCEPT ![a] = Resting] /\ fullsync' = [fullsync EXCEPT ![a] = TRUE]
        /\ UNCHANGED <<removed, updated, owed, running>>
    BY <1>2 DEF CallFails, Resync
  <2>3. IsCall(c)
    BY <1>1, <2>1, Constants DEF IsCall
  <2>4. AllOnAgents' /\ \A b \in Agents \ {a} : Local(b)' = Local(b)
    BY <1>1, <2>1, <2>2 DEF AllOnAgents, OnAgents, Local
  <2>5. loop'[a] = Resting /\ fullsync'[a] /\ rpc'[a] = c
    BY <1>1, <2>1, <2>2 DEF AllOnAgents, OnAgents
  <2>. QED
    BY <2>3, <2>4, <2>5, EndWithSync DEF IsCall
<1>3. ASSUME NEW r \in Routers, NEW done \in SUBSET Routers, NEW made \in BOOLEAN,
             AddFails(a, r, done, made)
      PROVE  TaskInv'
  <2>1. /\ loop' = [loop EXCEPT ![a] = Resting] /\ fullsync' = [fullsync EXCEPT ![a] = TRUE]
        /\ rpc' = [rpc EXCEPT ![a] = NoCall]
        /\ removed' = [removed EXCEPT ![a] = @ \cup Missing(a)] \/ UNCHANGED removed
        /\ UNCHANGED <<updated, owed, running>>
    BY <1>3, Zenon DEF AddFails
  <2>2. AllOnAgents' /\ \A b \in Agents \ {a} : Local(b)' = Local(b)
    BY <1>1, <2>1 DEF AllOnAgents, OnAgents, Local
  <2>3. loop'[a] = Resting /\ fullsync'[a] /\ rpc'[a] = NoCall
    BY <1>1, <2>1 DEF AllOnAgents, OnAgents
  <2>. QED
    BY <2>2, <2>3, Constants, EndWithSync DEF IsCall
<1>. QED
  BY <1>2, <1>3

\* A crash, a start, and what a call that timed out brings.
LEMMA StopTask ==
  ASSUME TaskInv, NEW a \in Agents, Crash(a) \/ Start(a) \/ DropAnswer(a)
  PROVE  TaskInv'
<1>1. IsLoop(loop[a]) /\ IsCall(rpc[a]) /\ TaskOf(a) /\ AllOnAgents
  BY DEF TaskInv
<1>2. CASE Crash(a)
  <2>1. PICK c : rpc' = [rpc EXCEPT ![a] = c] /\ c \in {NoCall, [rpc[a] EXCEPT !.late = TRUE]}
    BY <1>2, Zenon DEF Crash
  <2>2. /\ loop' = [loop EXCEPT ![a] = Resting] /\ running' = [running EXCEPT ![a] = FALSE]
        /\ updated' = [updated EXCEPT ![a] = {}] /\ removed' = [removed EXCEPT ![a] = {}]
        /\ owed' = [owed EXCEPT ![a] = {}] /\ UNCHANGED fullsync
    BY <1>2 DEF Crash
  <2>3. IsCall(c)
    BY <1>1, <2>1, Constants DEF IsCall
  <2>4. AllOnAgents' /\ \A b \in Agents \ {a} : Local(b)' = Local(b)
    BY <1>1, <2>1, <2>2 DEF AllOnAgents, OnAgents, Local
  <2>5. loop'[a] = Resting /\ ~running'[a] /\ rpc'[a] = c
    BY <1>1, <2>1, <2>2 DEF AllOnAgents, OnAgents
  <2>6. IsLoop(loop[a])' /\ TaskOf(a)'
    BY <2>5, Constants DEF TaskOf, IsLoop
  <2>. QED
    BY <2>3, <2>4, <2>5, <2>6, OneAgent DEF IsCall
<1>3. CASE Start(a)
  <2>1. /\ running' = [running EXCEPT ![a] = TRUE] /\ fullsync' = [fullsync EXCEPT ![a] = TRUE]
        /\ ~running[a] /\ UNCHANGED <<loop, rpc, removed, updated, owed>>
    BY <1>3 DEF Start
  <2>2. AllOnAgents' /\ \A b \in Agents \ {a} : Local(b)' = Local(b)
    BY <1>1, <2>1 DEF AllOnAgents, OnAgents, Local
  <2>3. loop'[a] = Resting /\ fullsync'[a]
    BY <1>1, <2>1 DEF AllOnAgents, OnAgents, TaskOf
  <2>. QED
    BY <1>1, <2>1, <2>2, <2>3, EndWithSync DEF IsCall
<1>4. CASE DropAnswer(a)
  <2>1. /\ rpc' = [rpc EXCEPT ![a] = NoCall] /\ rpc[a].late
        /\ UNCHANGED <<loop, removed, updated, owed, fullsync, running>>
    BY <1>4 DEF DropAnswer, agentVars
  <2>2. AllOnAgents' /\ \A b \in Agents \ {a} : Local(b)' = Local(b)
    BY <1>1, <2>1 DEF AllOnAgents, OnAgents, Local
  <2>3. rpc'[a] = NoCall
    BY <1>1, <2>1 DEF AllOnAgents, OnAgents
  <2>4. TaskOf(a)'
    BY <1>1, <2>1, <2>3 DEF TaskOf, TaskOK, Waiting
  <2>. QED
    BY <1>1, <2>1, <2>2, <2>3, <2>4, Constants, OneAgent DEF IsLoop
<1>. QED
  BY <1>2, <1>3, <1>4

-----------------------------------------------------------------------------
(* The server's part of a call.                                            *)

\* An update of two fields of a call leaves the other three.
LEMMA CallUpdates ==
  ASSUME NEW q, IsCall(q), NEW p, NEW x
  PROVE  /\ [q EXCEPT !.pc = p, !.bind = x]
              = [pc |-> p, ids |-> q.ids, bind |-> x, found |-> q.found, late |-> q.late]
         /\ [q EXCEPT !.pc = p, !.found = x]
              = [pc |-> p, ids |-> q.ids, bind |-> q.bind, found |-> x, late |-> q.late]
<1> DEFINE c == [pc |-> p, ids |-> q.ids, bind |-> q.bind, found |-> q.found, late |-> q.late]
<1>1. [q EXCEPT !.pc = p] = c
  BY DEF IsCall
<1>2. /\ [q EXCEPT !.pc = p, !.bind = x]  = [[q EXCEPT !.pc = p] EXCEPT !.bind = x]
      /\ [q EXCEPT !.pc = p, !.found = x] = [[q EXCEPT !.pc = p] EXCEPT !.found = x]
  BY DEF IsCall
<1>3. /\ [c EXCEPT !.bind = x]
           = [pc |-> p, ids |-> q.ids, bind |-> x, found |-> q.found, late |-> q.late]
      /\ [c EXCEPT !.found = x]
           = [pc |-> p, ids |-> q.ids, bind |-> q.bind, found |-> x, late |-> q.late]
  OBVIOUS
<1>. QED
  BY <1>1, <1>2, <1>3, Zenon

\* Auto-scheduling leaves what the call is about,
LEMMA ServeTask ==
  ASSUME TaskInv, NEW a \in Agents, AutoSchedule(a) \/ AutoBind(a), UNCHANGED agentVars
  PROVE  TaskInv'
<1>1. IsLoop(loop[a]) /\ IsCall(rpc[a]) /\ TaskOf(a) /\ AllOnAgents
  BY DEF TaskInv
<1>2. \E p \in {"bind", "list", "failed"} : \E x :
         rpc' = [rpc EXCEPT ![a].pc = p, ![a].bind = x] /\ rpc[a].pc \in {"asked", "bind"}
  <2>1. CASE AutoSchedule(a)
    <3>1. PICK x : /\ rpc' = [rpc EXCEPT ![a].pc = IF x = {} THEN "list" ELSE "bind", ![a].bind = x]
                   /\ rpc[a].pc = "asked"
      BY <2>1, Zenon DEF AutoSchedule
    <3>2. (IF x = {} THEN "list" ELSE "bind") \in {"bind", "list", "failed"}
      OBVIOUS
    <3>. QED
      BY <3>1, <3>2, Zenon
  <2>2. CASE AutoBind(a)
    <3>1. /\ \/ rpc' = [rpc EXCEPT ![a].pc = "list", ![a].bind = {}]
             \/ rpc' = [rpc EXCEPT ![a].pc = "failed", ![a].bind = {}]
          /\ rpc[a].pc = "bind"
      BY <2>2, Zenon DEF AutoBind
    <3>. QED
      BY <3>1, Zenon
  <2>. QED
    BY <2>1, <2>2
<1> PICK p \in {"bind", "list", "failed"} : \E x :
         rpc' = [rpc EXCEPT ![a].pc = p, ![a].bind = x] /\ rpc[a].pc \in {"asked", "bind"}
  BY <1>2
<1> PICK x : rpc' = [rpc EXCEPT ![a].pc = p, ![a].bind = x] /\ rpc[a].pc \in {"asked", "bind"}
  OBVIOUS
<1> DEFINE c == [rpc[a] EXCEPT !.pc = p, !.bind = x]
<1>3. c = [pc |-> p, ids |-> rpc[a].ids, bind |-> x, found |-> rpc[a].found, late |-> rpc[a].late]
  BY <1>1, CallUpdates, Zenon
<1>4. rpc' = [rpc EXCEPT ![a] = c]
  BY <1>1 DEF AllOnAgents, OnAgents
<1>. HIDE DEF c
<1>5. c.ids = rpc[a].ids /\ c.late = rpc[a].late /\ c.pc = p /\ IsCall(c)
  BY <1>3 DEF IsCall
<1>6. UNCHANGED <<loop, removed, updated, owed, fullsync, running>>
  BY DEF agentVars
<1>7. AllOnAgents' /\ \A b \in Agents \ {a} : Local(b)' = Local(b)
  BY <1>1, <1>4, <1>6 DEF AllOnAgents, OnAgents, Local
<1>8. rpc'[a] = c
  BY <1>1, <1>4 DEF AllOnAgents, OnAgents
<1>9. TaskOf(a)'
  BY <1>1, <1>5, <1>6, <1>8 DEF TaskOf, TaskOK, Waiting
<1>. QED
  BY <1>1, <1>5, <1>6, <1>7, <1>8, <1>9, OneAgent DEF IsLoop, IsCall

\* The server reads: what was delivered before is in the answer.
LEMMA ReadTask ==
  ASSUME TaskInv, NEW a \in Agents, Read(a)
  PROVE  TaskInv'
<1>1. IsLoop(loop[a]) /\ IsCall(rpc[a]) /\ TaskOf(a) /\ AllOnAgents
  BY DEF TaskInv
<1>2. PICK x : rpc' = [rpc EXCEPT ![a].pc = "replied", ![a].found = x] /\ rpc[a].pc = "list"
  BY DEF Read, ListRouters
<1> DEFINE c    == [rpc[a] EXCEPT !.pc = "replied", !.found = x]
           left == IF rpc[a].late THEN owed[a]
                   ELSE IF rpc[a].ids = {} THEN {} ELSE owed[a] \ rpc[a].ids
<1>3. c = [pc |-> "replied", ids |-> rpc[a].ids, bind |-> rpc[a].bind, found |-> x, late |-> rpc[a].late]
  BY <1>1, CallUpdates, Zenon
<1>4. rpc' = [rpc EXCEPT ![a] = c]
  BY <1>1, <1>2 DEF AllOnAgents, OnAgents
<1>5. /\ owed' = [owed EXCEPT ![a] = left]
      /\ UNCHANGED <<loop, removed, updated, fullsync, running>>
  BY DEF Read
<1>6. /\ rpc[a].late => left = owed[a]
      /\ ~rpc[a].late /\ rpc[a].ids = {} => left = {}
      /\ ~rpc[a].late /\ rpc[a].ids # {} => left = owed[a] \ rpc[a].ids
  OBVIOUS
<1>. HIDE DEF c, left
<1>7. c.ids = rpc[a].ids /\ c.late = rpc[a].late /\ c.pc = "replied" /\ IsCall(c)
  BY <1>3 DEF IsCall
<1>8. AllOnAgents' /\ \A b \in Agents \ {a} : Local(b)' = Local(b)
  BY <1>1, <1>4, <1>5 DEF AllOnAgents, OnAgents, Local
<1>9. rpc'[a] = c /\ owed'[a] = left
  BY <1>1, <1>4, <1>5 DEF AllOnAgents, OnAgents
<1>10. TaskOf(a)'
  BY <1>1, <1>2, <1>5, <1>6, <1>7, <1>9 DEF TaskOf, TaskOK, Waiting
<1>. QED
  BY <1>1, <1>5, <1>7, <1>8, <1>9, <1>10, OneAgent DEF IsLoop, IsCall

\* so that all the server does for a call keeps the invariant.
LEMMA AnswerTask == ASSUME TaskInv, NEW a \in Agents, Answer(a) PROVE TaskInv'
BY ServeTask, ReadTask DEF Answer

\* Requests, and heartbeats, leave the tasks alone.
LEMMA RequestTask ==
  ASSUME TaskInv, NEW w \in Workers, Request(w) \/ Finish(w), UNCHANGED agentVars
  PROVE  TaskInv'
<1>1. UNCHANGED rpc
  BY DEF Request, Finish, CreateRouter, StartChange, StartDelete, StartAdd, StartRemove,
         StartUpdateAgent, CommitChange, CommitDelete, CommitAdd, Notify
<1>2. UNCHANGED taskVars
  BY <1>1 DEF taskVars, agentVars
<1>. QED
  BY <1>2, SameTasks

\* Heartbeats as well.
LEMMA HeartbeatTask ==
  ASSUME TaskInv, NEW a \in Agents, LooksDown(a) \/ ReportState(a)
  PROVE  TaskInv'
<1>1. UNCHANGED taskVars
  BY DEF LooksDown, ReportState, taskVars, agentVars
<1>. QED
  BY <1>1, SameTasks

\* Every step keeps it.
LEMMA NextTask == TaskInv /\ [Next]_vars => TaskInv'
<1>. SUFFICES ASSUME TaskInv, [Next]_vars PROVE TaskInv'
  OBVIOUS
<1>1. CASE Accepted \/ Served
  BY <1>1, RequestTask DEF Accepted, Served
<1>2. CASE Answered
  BY <1>2, AnswerTask DEF Answered
<1>3. ASSUME NEW a \in Agents, Run(a) PROVE TaskInv'
  <2>1. CASE Loop(a)
    BY <2>1, StartTask, DeleteTask, FinishTask, Zenon DEF Loop
  <2>2. CASE StartSync(a) \/ Deliver(a)
    BY <2>2, StartTask, DeliverTask, Zenon
  <2>3. CASE DropAnswer(a) \/ Start(a) \/ ReportState(a)
    BY <2>3, StopTask, HeartbeatTask, Zenon
  <2>4. CASE Noticed(a)
    BY <2>4, FailTask, Zenon DEF Noticed
  <2>. QED
    BY <1>3, <2>1, <2>2, <2>3, <2>4, Zenon DEF Run
<1>4. ASSUME NEW a \in Agents, Fail(a) \/ LooksDown(a) PROVE TaskInv'
  <2>1. CASE LooksDown(a)
    BY <2>1, HeartbeatTask, Zenon
  <2>2. CASE CallFails(a)
    BY <2>2, FailTask, Zenon
  <2>3. CASE Crash(a)
    BY <2>3, StopTask, Zenon
  <2>4. ASSUME NEW r \in Routers,
               DeleteFails(a, r) \/ \E done \in SUBSET Routers, made \in BOOLEAN : AddFails(a, r, done, made)
        PROVE  TaskInv'
    BY <2>4, DeleteTask, FailTask, Zenon
  <2>. QED
    BY <1>4, <2>1, <2>2, <2>3, <2>4, Zenon DEF Fail
<1>5. CASE UNCHANGED vars
  BY <1>5, SameTasks DEF vars, serverVars, agentVars, taskVars
<1>. QED
  BY <1>1, <1>2, <1>3, <1>4, <1>5, Zenon DEF Next

\* The invariant holds.
LEMMA TasksAreRight == Spec => []TaskInv
BY InitTask, NextTask, PTL DEF Spec

-----------------------------------------------------------------------------
(* The theorems.                                                           *)

\* An update that was delivered to an agent is not lost: until the server has been read
\* again, the agent has the router among those to ask for, or a full sync ahead of it,
\* whatever times out, fails or crashes (_rpc_loop, _process_routers and
\* _sync_routers_task of agent/l3_agent.py).
THEOREM UpdatesAreKept == Spec => []NoUpdateForgotten
<1>1. TaskInv => NoUpdateForgotten
  <2>. SUFFICES ASSUME TaskInv, NEW a \in Agents, running[a]
                PROVE  owed[a] \subseteq updated[a] \cup loop[a].ids \/ fullsync[a]
    BY DEF NoUpdateForgotten
  <2>1. TaskOK(loop[a], rpc[a], removed[a], updated[a], owed[a], fullsync[a]) /\ IsLoop(loop[a])
    BY DEF TaskInv, TaskOf
  <2>. QED
    BY <2>1 DEF TaskOK, IsLoop
<1>. QED
  BY <1>1, TasksAreRight, PTL

\* The routers that _process_router_delete goes through are still among the removed
\* ones when their turn comes, so that none of its set.remove fails.
THEOREM CopiesAreThere == Spec => []CopyIsStillThere
<1>1. TaskInv => CopyIsStillThere
  <2>. SUFFICES ASSUME TaskInv, NEW a \in Agents, loop[a].pc = "deleting"
                PROVE  loop[a].ids \subseteq removed[a]
    BY DEF CopyIsStillThere
  <2>1. CASE running[a]
    BY <2>1 DEF TaskInv, TaskOf, TaskOK
  <2>2. CASE ~running[a]
    BY <2>2, Constants DEF TaskInv, TaskOf
  <2>. QED
    BY <2>1, <2>2
<1>. QED
  BY <1>1, TasksAreRight, PTL

\* A set of numbers that is not empty has a least one.
LEMMA LeastNumber ==
  ASSUME NEW T \in SUBSET Nat, T # {}
  PROVE  \E least \in T : \A i \in T : least <= i
<1> DEFINE R == {pair \in Nat \X Nat : pair[1] < pair[2]}
<1>1. IsWellFoundedOn(R, Nat)
  BY NatLessThanWellFounded DEF OpToRel
<1>2. \A i, j \in Nat : <<i, j>> \notin R => j <= i
  OBVIOUS
<1>. HIDE DEF R
<1>3. PICK least \in T : \A i \in T : <<i, least>> \notin R
  BY <1>1, WFMin
<1>. QED
  BY <1>2, <1>3

\* What is left of a queue is a sequence of the messages it had.
LEMMA NotFanoutType ==
  ASSUME NEW S, NEW q \in Seq(S)
  PROVE  NotFanout(q) \in Seq(S)
<1> DEFINE len     == Len(q)
           is(f, n) == f = [i \in 0..n |-> IF i = 0 THEN <<>>
                                          ELSE IF q[i].kind = "deleted" THEN f[i - 1]
                                          ELSE Append(f[i - 1], q[i])]
<1>0. len \in Nat /\ \A i \in 1..len : q[i] \in S
  OBVIOUS
<1>. HIDE DEF len
<1>1. ASSUME NEW n \in 0..len, NEW f, is(f, n)
      PROVE  \A i \in 0..n : f[i] \in Seq(S)
  <2>. DEFINE T == {i \in 0..n : f[i] \notin Seq(S)}
  <2>1. SUFFICES ASSUME T # {} PROVE FALSE
    OBVIOUS
  <2>2. T \in SUBSET Nat
    BY <1>0
  <2>3. PICK m \in T : \A i \in T : m <= i
    <3>. HIDE DEF T
    <3>. QED
      BY <2>1, <2>2, LeastNumber
  <2>4. CASE m = 0
    BY <1>1, <2>4
  <2>5. CASE m # 0
    <3>1. m - 1 \in 0..n /\ m - 1 \notin T /\ m \in 1..len /\ m \in 1..n
      BY <1>0, <2>3, <2>5
    <3>2. f[m - 1] \in Seq(S) /\ q[m] \in S
      BY <1>0, <3>1
    <3>3. f[m] = IF q[m].kind = "deleted" THEN f[m - 1] ELSE Append(f[m - 1], q[m])
      BY <1>1, <2>5, <3>1
    <3>4. f[m] \in Seq(S)
      BY <3>2, <3>3
    <3>. QED
      BY <2>3, <3>4
  <2>. QED
    BY <2>4, <2>5
<1>2. \A n \in 0..len : \E f : is(f, n)
  <2>. DEFINE T == {n \in 0..len : ~ \E f : is(f, n)}
  <2>1. SUFFICES ASSUME T # {} PROVE FALSE
    OBVIOUS
  <2>2. T \in SUBSET Nat
    BY <1>0
  <2>3. PICK m \in T : \A i \in T : m <= i
    <3>. HIDE DEF T
    <3>. QED
      BY <2>1, <2>2, LeastNumber
  <2>4. CASE m = 0
    <3>1. is([i \in 0..0 |-> <<>>], 0)
      OBVIOUS
    <3>. QED
      BY <2>3, <2>4, <3>1
  <2>5. CASE m # 0
    <3>1. m - 1 \in 0..len /\ m \in 1..len
      BY <1>0, <2>3, <2>5
    <3>2. m - 1 \notin T
      <4>1. m - 1 < m /\ m - 1 \in Nat
        BY <3>1
      <4>. HIDE DEF T
      <4>. QED
        BY <2>3, <4>1, <2>2
    <3>3. PICK g : is(g, m - 1)
      BY <3>1, <3>2
    <3>. DEFINE h == [i \in 0..m |-> IF i < m THEN g[i]
                                     ELSE IF q[m].kind = "deleted" THEN g[m - 1]
                                     ELSE Append(g[m - 1], q[m])]
    <3>4. ASSUME NEW i \in 0..m
          PROVE  h[i] = IF i = 0 THEN <<>>
                        ELSE IF q[i].kind = "deleted" THEN h[i - 1]
                        ELSE Append(h[i - 1], q[i])
      <4>1. CASE i = m
        <5>1. h[i - 1] = g[i - 1]
          BY <3>1, <4>1
        <5>. QED
          BY <3>1, <4>1, <5>1
      <4>2. CASE i # m
        <5>1. i \in 0..(m - 1) /\ h[i] = g[i] /\ (i # 0 => h[i - 1] = g[i - 1])
          BY <3>1, <4>2
        <5>. QED
          BY <3>3, <5>1
      <4>. QED
        BY <4>1, <4>2
    <3>5. is(h, m)
      BY <3>4
    <3>. QED
      BY <2>3, <3>5
  <2>. QED
    BY <2>4, <2>5
<1> DEFINE kept == CHOOSE f : is(f, len)
<1>3. is(kept, len)
  <2>. HIDE DEF is
  <2>1. \E f : is(f, len)
    BY <1>0, <1>2
  <2>. QED
    BY <2>1
<1>4. kept[len] \in Seq(S)
  <2>. HIDE DEF kept
  <2>1. len \in 0..len
    BY <1>0
  <2>. QED
    BY <1>1, <1>3, <2>1
<1>. QED
  BY <1>4 DEF NotFanout, len
-----------------------------------------------------------------------------
(* Type correctness.                                                       *)

\* The request of a worker.
RequestType ==
  [pc : {"idle", "commit", "notify"}, op : AllOperations \cup {"none"},
   router : Routers \cup {None}, agent : Agents \cup {None}]

\* A sync_routers call.
CallType ==
  [pc : {"idle", "asked", "bind", "list", "replied", "failed"}, ids : SUBSET Routers,
   bind : SUBSET Routers, found : [Routers -> Nat], late : BOOLEAN]

\* What a request that has not ended is about.
RequestOK(q) ==
  /\ q.pc = "commit" => /\ q.op \in {"change", "delete", "add_to_agent"} /\ q.router \in Routers
                        /\ q.op = "add_to_agent" => q.agent \in Agents
  /\ q.pc = "notify" => /\ q.op \in {"add_to_agent", "remove_from_agent", "update_agent"}
                        /\ q.agent \in Agents
                        /\ IF q.op = "update_agent" THEN q.router = None ELSE q.router \in Routers

\* The inductive invariant of TypeOK.
TypeInv == TypeOK /\ \A w \in Workers : RequestOK(api[w])

\* The types, by name.
LEMMA Types ==
  ASSUME TypeInv
  PROVE  /\ row \in [Routers -> [life : {"new", "here", "gone"}, up : BOOLEAN, rev : Nat]]
         /\ bound \in [Routers -> [Agents -> Nat]]
         /\ agentUp \in [Agents -> BOOLEAN] /\ alive \in [Agents -> BOOLEAN]
         /\ api \in [Workers -> RequestType] /\ rpc \in [Agents -> CallType]
         /\ inbox \in [Agents -> Seq(Message)] /\ requests \in 0..MaxRequests
BY DEF TypeInv, TypeOK, ServerTypeOK, RequestType, CallType

\* A message is added to the queues of some agents.
LEMMA CastType ==
  ASSUME inbox \in [Agents -> Seq(Message)], NEW m \in Message, NEW to
  PROVE  Cast(m, to) \in [Agents -> Seq(Message)]
<1>1. ASSUME NEW a \in Agents PROVE Append(inbox[a], m) \in Seq(Message)
  OBVIOUS
<1>. QED
  BY <1>1 DEF Cast

\* The first message of a queue, and the rest.
LEMMA HeadType ==
  ASSUME NEW S, NEW q \in Seq(S), q # <<>>
  PROVE  Head(q) \in S /\ Tail(q) \in Seq(S)
OBVIOUS

\* What an agent is told of a router is a number.
LEMMA SyncDataType ==
  ASSUME TypeInv, NEW a \in Agents
  PROVE  SyncData(a) \in [Routers -> Nat]
BY Types DEF SyncData

\* One request goes on.
LEMMA OneRequest ==
  ASSUME TypeInv, NEW w \in Workers, NEW q \in RequestType, RequestOK(q),
         api' = [api EXCEPT ![w] = q]
  PROVE  api' \in [Workers -> RequestType] /\ \A v \in Workers : RequestOK(api'[v])
BY Types DEF TypeInv

\* Requests keep the types,
LEMMA RequestStepType ==
  ASSUME TypeInv, NEW w \in Workers, Request(w), UNCHANGED agentVars
  PROVE  TypeInv'
<1>1. AgentTypeOK' /\ RequestOK(NoRequest) /\ NoRequest \in RequestType
  BY DEF TypeInv, TypeOK, AgentTypeOK, agentVars, RequestOK, NoRequest, RequestType
<1>2. ASSUME NEW op, Accept(w, op) PROVE requests' \in 0..MaxRequests
  BY <1>2, BoundAssumption, Types DEF Accept
<1>3. ASSUME NEW r \in Routers, CreateRouter(w, r) PROVE TypeInv'
  <2>1. row' \in [Routers -> [life : {"new", "here", "gone"}, up : BOOLEAN, rev : Nat]]
    BY <1>3, Types DEF CreateRouter
  <2>. QED
    BY <1>1, <1>2, <1>3, <2>1, Types DEF CreateRouter, TypeInv, TypeOK, ServerTypeOK, RequestType, CallType
<1>4. ASSUME NEW r \in Routers, StartDelete(w, r) PROVE TypeInv'
  <2> DEFINE q == [pc |-> "commit", op |-> "delete", router |-> r, agent |-> None]
  <2>1. q \in RequestType /\ RequestOK(q)
    BY DEF RequestType, RequestOK, AllOperations
  <2>2. api' = [api EXCEPT ![w] = q]
    BY <1>4 DEF StartDelete
  <2>3. inbox' \in [Agents -> Seq(Message)]
    BY <1>4, Types, CastType DEF StartDelete, Message
  <2>. HIDE DEF q
  <2>4. api' \in [Workers -> RequestType] /\ \A v \in Workers : RequestOK(api'[v])
    BY <2>1, <2>2, OneRequest
  <2>. QED
    BY <1>1, <1>2, <1>4, <2>3, <2>4, Types DEF StartDelete, TypeInv, TypeOK, ServerTypeOK, RequestType, CallType
<1>5. ASSUME NEW r \in Routers, NEW a \in Agents \cup {None}, StartChange(w, r, a) PROVE TypeInv'
  <2> DEFINE q == [pc |-> "commit", op |-> "change", router |-> r, agent |-> a]
  <2>1. q \in RequestType /\ RequestOK(q)
    BY DEF RequestType, RequestOK, AllOperations
  <2>2. api' = [api EXCEPT ![w] = q]
    BY <1>5 DEF StartChange
  <2>3. inbox' \in [Agents -> Seq(Message)]
    BY <1>5, Types, CastType DEF StartChange, Message
  <2>. HIDE DEF q
  <2>4. api' \in [Workers -> RequestType] /\ \A v \in Workers : RequestOK(api'[v])
    BY <2>1, <2>2, OneRequest
  <2>. QED
    BY <1>1, <1>2, <1>5, <2>3, <2>4, Types DEF StartChange, TypeInv, TypeOK, ServerTypeOK, RequestType, CallType
<1>6. ASSUME NEW r \in Routers, NEW a \in Agents, StartAdd(w, r, a) PROVE TypeInv'
  <2> DEFINE q == [pc |-> "commit", op |-> "add_to_agent", router |-> r, agent |-> a]
  <2>1. q \in RequestType /\ RequestOK(q)
    BY DEF RequestType, RequestOK, AllOperations
  <2>2. api' = [api EXCEPT ![w] = q]
    BY <1>6 DEF StartAdd
  <2>. HIDE DEF q
  <2>4. api' \in [Workers -> RequestType] /\ \A v \in Workers : RequestOK(api'[v])
    BY <2>1, <2>2, OneRequest
  <2>. QED
    BY <1>1, <1>2, <1>6, <2>4, Types DEF StartAdd, TypeInv, TypeOK, ServerTypeOK, RequestType, CallType
<1>7. ASSUME NEW r \in Routers, NEW a \in Agents, StartRemove(w, r, a) PROVE TypeInv'
  <2> DEFINE q == [pc |-> "notify", op |-> "remove_from_agent", router |-> r, agent |-> a]
  <2>1. q \in RequestType /\ RequestOK(q)
    BY DEF RequestType, RequestOK, AllOperations
  <2>2. api' = [api EXCEPT ![w] = q]
    BY <1>7 DEF StartRemove
  <2>3. bound' \in [Routers -> [Agents -> Nat]]
    BY <1>7, Types DEF StartRemove
  <2>. HIDE DEF q
  <2>4. api' \in [Workers -> RequestType] /\ \A v \in Workers : RequestOK(api'[v])
    BY <2>1, <2>2, OneRequest
  <2>. QED
    BY <1>1, <1>2, <1>7, <2>3, <2>4, Types DEF StartRemove, TypeInv, TypeOK, ServerTypeOK, RequestType, CallType
<1>8. ASSUME NEW a \in Agents, StartUpdateAgent(w, a) PROVE TypeInv'
  <2> DEFINE q == [pc |-> "notify", op |-> "update_agent", router |-> None, agent |-> a]
  <2>1. q \in RequestType /\ RequestOK(q)
    BY DEF RequestType, RequestOK, AllOperations
  <2>2. api' = [api EXCEPT ![w] = q]
    BY <1>8 DEF StartUpdateAgent
  <2>3. agentUp' \in [Agents -> BOOLEAN]
    BY <1>8, Types DEF StartUpdateAgent
  <2>. HIDE DEF q
  <2>4. api' \in [Workers -> RequestType] /\ \A v \in Workers : RequestOK(api'[v])
    BY <2>1, <2>2, OneRequest
  <2>. QED
    BY <1>1, <1>2, <1>8, <2>3, <2>4, Types DEF StartUpdateAgent, TypeInv, TypeOK, ServerTypeOK, RequestType, CallType
<1>. QED
  BY <1>3, <1>4, <1>5, <1>6, <1>7, <1>8 DEF Request

\* and so do their ends.
LEMMA FinishStepType ==
  ASSUME TypeInv, NEW w \in Workers, Finish(w), UNCHANGED agentVars
  PROVE  TypeInv'
<1>1. AgentTypeOK' /\ RequestOK(NoRequest) /\ NoRequest \in RequestType
  BY DEF TypeInv, TypeOK, AgentTypeOK, agentVars, RequestOK, NoRequest, RequestType
<1>2. RequestOK(api[w]) /\ api[w] \in RequestType
  BY Types DEF TypeInv
<1>3. ASSUME NEW up \in BOOLEAN, CommitChange(w, up) PROVE TypeInv'
  <2>1. PICK r \in Routers, a \in Agents \cup {None} : r = api[w].router /\ a = api[w].agent
    BY <1>2, <1>3 DEF CommitChange, RequestOK, RequestType
  <2>2. row' = [row EXCEPT ![r].up = up, ![r].rev = @ + 1]
    BY <1>3, <2>1 DEF CommitChange
  <2>3. row' \in [Routers -> [life : {"new", "here", "gone"}, up : BOOLEAN, rev : Nat]]
    <3>1. row[r] \in [life : {"new", "here", "gone"}, up : BOOLEAN, rev : Nat]
      BY Types
    <3>a. PICK n \in Nat : n = row[r].rev + 1
      BY <3>1
    <3> DEFINE new == [row[r] EXCEPT !.up = up, !.rev = n]
    <3>2. new \in [life : {"new", "here", "gone"}, up : BOOLEAN, rev : Nat]
      BY <3>1
    <3>3. row' = [row EXCEPT ![r] = new]
      BY <2>2, <3>a, Types
    <3>. HIDE DEF new
    <3>. QED
      BY <3>2, <3>3, Types
  <2>4. bound' \in [Routers -> [Agents -> Nat]]
    BY <1>3, <2>1, Types DEF CommitChange
  <2>5. api' \in [Workers -> RequestType] /\ \A v \in Workers : RequestOK(api'[v])
    BY <1>1, <1>3, OneRequest DEF CommitChange
  <2>. QED
    BY <1>1, <1>3, <2>3, <2>4, <2>5, Types DEF CommitChange, TypeInv, TypeOK, ServerTypeOK, RequestType, CallType
<1>4. CASE CommitDelete(w)
  <2>1. PICK r \in Routers : r = api[w].router
    BY <1>2, <1>4 DEF CommitDelete, RequestOK
  <2>2. row' \in [Routers -> [life : {"new", "here", "gone"}, up : BOOLEAN, rev : Nat]]
    BY <1>4, <2>1, Types DEF CommitDelete
  <2>3. bound' \in [Routers -> [Agents -> Nat]]
    BY <1>4, <2>1, Types DEF CommitDelete
  <2>4. api' \in [Workers -> RequestType] /\ \A v \in Workers : RequestOK(api'[v])
    BY <1>1, <1>4, OneRequest DEF CommitDelete
  <2>. QED
    BY <1>1, <1>4, <2>2, <2>3, <2>4, Types DEF CommitDelete, TypeInv, TypeOK, ServerTypeOK, RequestType, CallType
<1>5. CASE CommitAdd(w)
  <2>1. PICK r \in Routers, a \in Agents : r = api[w].router /\ a = api[w].agent
    BY <1>2, <1>5 DEF CommitAdd, RequestOK
  <2>2. bound' \in [Routers -> [Agents -> Nat]]
    <3>1. bound' = [bound EXCEPT ![r][a] = @ + 1] \/ UNCHANGED bound
      BY <1>5, <2>1 DEF CommitAdd
    <3>2. PICK n \in Nat : n = bound[r][a] + 1
      BY Types
    <3>3. CASE bound' = [bound EXCEPT ![r][a] = @ + 1]
      <4>1. bound' = [bound EXCEPT ![r][a] = n]
        BY <3>2, <3>3
      <4>. QED
        BY <4>1, Types
    <3>. QED
      BY <3>1, <3>3, Types
  <2>3. PICK q : api' = [api EXCEPT ![w] = q] /\ (q = NoRequest \/ q = [api[w] EXCEPT !.pc = "notify"])
    BY <1>5, Types DEF CommitAdd
  <2>4. q \in RequestType /\ RequestOK(q)
    BY <1>1, <1>2, <1>5, <2>1, <2>3 DEF CommitAdd, RequestOK, RequestType
  <2>5. api' \in [Workers -> RequestType] /\ \A v \in Workers : RequestOK(api'[v])
    BY <2>3, <2>4, OneRequest
  <2>. QED
    BY <1>1, <1>5, <2>2, <2>5, Types DEF CommitAdd, TypeInv, TypeOK, ServerTypeOK, RequestType, CallType
<1>6. CASE Notify(w)
  <2>1. NotificationOf(api[w]) \in Message
    BY <1>2, <1>6 DEF Notify, RequestOK, NotificationOf, Message
  <2>2. inbox' \in [Agents -> Seq(Message)]
    BY <1>6, <2>1, Types, CastType DEF Notify
  <2>3. api' \in [Workers -> RequestType] /\ \A v \in Workers : RequestOK(api'[v])
    BY <1>1, <1>6, OneRequest DEF Notify
  <2>. QED
    BY <1>1, <1>6, <2>2, <2>3, Types DEF Notify, TypeInv, TypeOK, ServerTypeOK, RequestType, CallType
<1>. QED
  BY <1>3, <1>4, <1>5, <1>6 DEF Finish

\* The server's part of a call keeps the types.
LEMMA AnswerStepType ==
  ASSUME TypeInv, NEW a \in Agents, Answer(a)
  PROVE  TypeInv'
<1>1. CASE (AutoSchedule(a) \/ AutoBind(a)) /\ UNCHANGED agentVars
  <2>1. AgentTypeOK'
    BY <1>1 DEF TypeInv, TypeOK, AgentTypeOK, agentVars
  <2>2. CASE AutoSchedule(a)
    <3>1. PICK p \in {"list", "bind"}, mine \in SUBSET Routers :
            rpc' = [rpc EXCEPT ![a].pc = p, ![a].bind = mine]
      <4> DEFINE unhosted == {r \in Routers : Here(r) /\ (IF rpc[a].ids = {} THEN Unbound(r)
                                               ELSE r \in rpc[a].ids /\ ~Hosted(r))}
                 mine     == IF agentUp[a] THEN unhosted ELSE {}
      <4>1. rpc' = [rpc EXCEPT ![a].pc = IF mine = {} THEN "list" ELSE "bind", ![a].bind = mine]
        BY <2>2 DEF AutoSchedule
      <4>2. mine \in SUBSET Routers
        OBVIOUS
      <4>. HIDE DEF mine
      <4>. QED
        BY <4>1, <4>2
    <3>2. rpc' \in [Agents -> CallType]
      <4>1. rpc[a] \in CallType
        BY Types
      <4> DEFINE new == [rpc[a] EXCEPT !.pc = p, !.bind = mine]
      <4>2. new \in CallType
        BY <4>1 DEF CallType
      <4>3. rpc' = [rpc EXCEPT ![a] = new]
        BY <3>1, Types
      <4>. HIDE DEF new
      <4>. QED
        BY <4>2, <4>3, Types
    <3>. QED
      BY <2>1, <2>2, <3>2, Types DEF AutoSchedule, TypeInv, TypeOK, ServerTypeOK, RequestType, CallType
  <2>3. CASE AutoBind(a)
    <3>1. PICK p \in {"list", "failed"} : rpc' = [rpc EXCEPT ![a].pc = p, ![a].bind = {}]
      BY <2>3 DEF AutoBind
    <3>2. rpc' \in [Agents -> CallType]
      <4>1. rpc[a] \in CallType
        BY Types
      <4> DEFINE new == [rpc[a] EXCEPT !.pc = p, !.bind = {}]
      <4>2. new \in CallType
        BY <4>1 DEF CallType
      <4>3. rpc' = [rpc EXCEPT ![a] = new]
        BY <3>1, Types
      <4>. HIDE DEF new
      <4>. QED
        BY <4>2, <4>3, Types
    <3>3. bound' \in [Routers -> [Agents -> Nat]]
      <4>1. \/ UNCHANGED bound
            \/ bound' = [r \in Routers |-> IF r \in rpc[a].bind THEN [bound[r] EXCEPT ![a] = @ + 1]
                                           ELSE bound[r]]
        BY <2>3 DEF AutoBind
      <4>2. ASSUME NEW r \in Routers PROVE [bound[r] EXCEPT ![a] = @ + 1] \in [Agents -> Nat]
        BY Types
      <4>. QED
        BY <4>1, <4>2, Types
    <3>. QED
      BY <2>1, <2>3, <3>2, <3>3, Types DEF AutoBind, TypeInv, TypeOK, ServerTypeOK, RequestType, CallType
  <2>. QED
    BY <1>1, <2>2, <2>3
<1>2. CASE Read(a)
  <2>1. PICK found \in [Routers -> Nat] : rpc' = [rpc EXCEPT ![a].pc = "replied", ![a].found = found]
    BY <1>2, SyncDataType DEF Read, ListRouters
  <2>2. rpc' \in [Agents -> CallType]
    <3>1. rpc[a] \in CallType
      BY Types
    <3> DEFINE new == [rpc[a] EXCEPT !.pc = "replied", !.found = found]
    <3>2. new \in CallType
      BY <3>1 DEF CallType
    <3>3. rpc' = [rpc EXCEPT ![a] = new]
      BY <2>1, Types
    <3>. HIDE DEF new
    <3>. QED
      BY <3>2, <3>3, Types
  <2>3. owed' \in [Agents -> SUBSET Routers]
    BY <1>2 DEF Read, TypeInv, TypeOK, AgentTypeOK
  <2>. QED
    BY <1>2, <2>2, <2>3, Types DEF Read, ListRouters, TypeInv, TypeOK, ServerTypeOK, AgentTypeOK,
       RequestType, CallType
<1>. QED
  BY <1>1, <1>2 DEF Answer

\* A fault is counted.
LEMMA FaultType ==
  ASSUME TypeInv, NEW k \in FaultKinds, Fault(k)
  PROVE  faults' \in [FaultKinds -> Nat]
BY DEF TypeInv, TypeOK, AgentTypeOK, Fault

\* So are those of the configuration of routers.
LEMMA FailingType ==
  ASSUME TypeInv, NEW a \in Agents, NEW bad, NEW of \in SUBSET Routers, Failing(a, bad, of)
  PROVE  faults' \in [FaultKinds -> Nat] /\ bad \in SUBSET Routers
BY FaultType DEF Failing, FaultKinds, TypeInv, TypeOK, AgentTypeOK

\* The task that holds the lock.
LoopType == [pc : {"idle", "updating", "deleting", "syncing"}, ids : SUBSET Routers]

\* The types of an agent, by name.
LEMMA AgentTypes ==
  ASSUME TypeInv
  PROVE  /\ info \in [Agents -> SUBSET Routers] /\ half \in [Agents -> SUBSET Routers]
         /\ forwards \in [Agents -> [Routers -> Nat]]
         /\ updated \in [Agents -> SUBSET Routers] /\ removed \in [Agents -> SUBSET Routers]
         /\ fullsync \in [Agents -> BOOLEAN] /\ stale \in [Agents -> BOOLEAN]
         /\ loop \in [Agents -> LoopType] /\ running \in [Agents -> BOOLEAN]
         /\ faults \in [FaultKinds -> Nat] /\ owed \in [Agents -> SUBSET Routers]
BY DEF TypeInv, TypeOK, AgentTypeOK, LoopType

\* The calls and tasks there are.
LEMMA ConstantTypes ==
  /\ NoCall \in CallType /\ Resting \in LoopType /\ Absent \in [Routers -> Nat]
  /\ \A ids \in SUBSET Routers :
       [pc |-> "asked", ids |-> ids, bind |-> {}, found |-> Absent, late |-> FALSE] \in CallType
BY DEF NoCall, CallType, Resting, LoopType, Absent

\* A message keeps the types,
LEMMA DeliverType ==
  ASSUME TypeInv, NEW a \in Agents, Deliver(a)
  PROVE  TypeInv'
<1>1. PICK m : m = Head(inbox[a])
  OBVIOUS
<1>2. m \in Message /\ Tail(inbox[a]) \in Seq(Message)
  BY <1>1, Types, HeadType DEF Deliver
<1>3. inbox' = [inbox EXCEPT ![a] = Tail(inbox[a])]
  BY Types DEF Deliver
<1>4. inbox' \in [Agents -> Seq(Message)]
  <2>1. PICK rest \in Seq(Message) : rest = Tail(inbox[a])
    BY <1>2
  <2>. QED
    BY <1>3, <2>1, Types
<1>5. /\ m.kind = "updated" => m.router \in Routers
      /\ m.kind \in {"deleted", "removed"} => m.router \in Routers
  BY <1>2 DEF Message
<1>6. /\ updated' \in [Agents -> SUBSET Routers] /\ removed' \in [Agents -> SUBSET Routers]
      /\ fullsync' \in [Agents -> BOOLEAN] /\ owed' \in [Agents -> SUBSET Routers]
  <2>1. PICK r : r = m.router
    OBVIOUS
  <2>2. \/ m.kind = "updated" /\ RoutersUpdated(a, r) /\ UNCHANGED fullsync
        \/ /\ m.kind \in {"deleted", "removed"}
           /\ removed' = [removed EXCEPT ![a] = @ \cup {r}] /\ UNCHANGED <<updated, fullsync, owed>>
        \/ fullsync' = [fullsync EXCEPT ![a] = TRUE] /\ UNCHANGED <<updated, removed, owed>>
    BY <1>1, <2>1, Zenon DEF Deliver
  <2>3. CASE m.kind = "updated" /\ RoutersUpdated(a, r) /\ UNCHANGED fullsync
    <3>1. r \in Routers
      BY <1>5, <2>1, <2>3
    <3>. QED
      BY <2>3, <3>1, AgentTypes DEF RoutersUpdated
  <2>4. CASE /\ m.kind \in {"deleted", "removed"}
             /\ removed' = [removed EXCEPT ![a] = @ \cup {r}] /\ UNCHANGED <<updated, fullsync, owed>>
    <3>1. r \in Routers
      BY <1>5, <2>1, <2>4
    <3>. QED
      BY <2>4, <3>1, AgentTypes
  <2>5. CASE fullsync' = [fullsync EXCEPT ![a] = TRUE] /\ UNCHANGED <<updated, removed, owed>>
    BY <2>5, AgentTypes
  <2>. QED
    BY <2>2, <2>3, <2>4, <2>5
<1>7. UNCHANGED <<row, bound, agentUp, alive, api, rpc, requests, info, half, forwards, stale,
                  loop, running, faults>>
  BY DEF Deliver
<1>. QED
  BY <1>4, <1>6, <1>7, Types, AgentTypes DEF TypeInv, TypeOK, ServerTypeOK, AgentTypeOK, RequestType, CallType, LoopType

\* and so do the tasks when they begin,
LEMMA BeginType ==
  ASSUME TypeInv, NEW a \in Agents, StartUpdates(a) \/ StartDeletes(a) \/ StartSync(a)
  PROVE  TypeInv'
<1>1. CASE StartUpdates(a) \/ StartSync(a)
  <2>1. PICK ids \in SUBSET Routers, p \in {"updating", "syncing"} :
          loop' = [loop EXCEPT ![a] = [pc |-> p, ids |-> ids]]
    BY <1>1, AgentTypes DEF StartUpdates, StartSync
  <2>2. PICK ids2 \in SUBSET Routers : Ask(a, ids2)
    BY <1>1, AgentTypes DEF StartUpdates, StartSync
  <2>3. loop' \in [Agents -> LoopType]
    BY <2>1, AgentTypes DEF LoopType
  <2>4. rpc' \in [Agents -> CallType]
    <3> DEFINE new == [pc |-> "asked", ids |-> ids2, bind |-> {}, found |-> Absent, late |-> FALSE]
    <3>1. new \in CallType /\ rpc' = [rpc EXCEPT ![a] = new]
      BY <2>2, ConstantTypes DEF Ask
    <3>. HIDE DEF new
    <3>. QED
      BY <3>1, Types
  <2>5. updated' \in [Agents -> SUBSET Routers] /\ removed' \in [Agents -> SUBSET Routers]
    BY <1>1, AgentTypes DEF StartUpdates, StartSync
  <2>6. UNCHANGED <<row, bound, agentUp, alive, api, inbox, requests, info, half, forwards,
                    fullsync, stale, running, faults, owed>>
    BY <1>1 DEF StartUpdates, StartSync
  <2>. QED
    BY <2>3, <2>4, <2>5, <2>6, Types, AgentTypes DEF TypeInv, TypeOK, ServerTypeOK, AgentTypeOK,
       RequestType, CallType, LoopType
<1>2. CASE StartDeletes(a)
  <2>1. loop' \in [Agents -> LoopType]
    BY <1>2, AgentTypes DEF StartDeletes, LoopType
  <2>. QED
    BY <1>2, <2>1, Types, AgentTypes DEF StartDeletes, serverVars, TypeInv, TypeOK, ServerTypeOK,
       AgentTypeOK, RequestType, CallType, LoopType
<1>. QED
  BY <1>1, <1>2

\* when they go on,
LEMMA TaskStepType ==
  ASSUME TypeInv, NEW a \in Agents,
         \/ \E r \in Routers : DeleteOne(a, r) \/ DeleteFails(a, r)
         \/ \E bad : FinishUpdates(a, bad) \/ FinishSync(a, bad)
  PROVE  TypeInv'
<1>1. ASSUME NEW r \in Routers, DeleteOne(a, r) PROVE TypeInv'
  <2>1. loop' \in [Agents -> LoopType]
    <3> DEFINE new == IF loop[a].ids = {r} THEN Resting ELSE [pc |-> "deleting", ids |-> loop[a].ids \ {r}]
    <3>1. new \in LoopType
      BY AgentTypes, ConstantTypes DEF LoopType
    <3>2. loop' = [loop EXCEPT ![a] = new]
      BY <1>1, AgentTypes DEF DeleteOne
    <3>. HIDE DEF new
    <3>. QED
      BY <3>1, <3>2, AgentTypes
  <2>2. forwards' \in [Agents -> [Routers -> Nat]]
    <3>1. PICK x : forwards' = [forwards EXCEPT ![a][r] = x] /\ (x = 0 \/ x = forwards[a][r])
      BY <1>1, AgentTypes DEF DeleteOne
    <3>. QED
      BY <3>1, AgentTypes
  <2>3. info' \in [Agents -> SUBSET Routers] /\ removed' \in [Agents -> SUBSET Routers]
    BY <1>1, AgentTypes DEF DeleteOne
  <2>4. UNCHANGED <<serverVars, half, updated, fullsync, stale, running, faults, owed>>
    BY <1>1 DEF DeleteOne
  <2>. QED
    BY <2>1, <2>2, <2>3, <2>4, Types, AgentTypes DEF serverVars, TypeInv, TypeOK, ServerTypeOK,
       AgentTypeOK, RequestType, CallType, LoopType
<1>2. ASSUME NEW r \in Routers, DeleteFails(a, r) PROVE TypeInv'
  <2>1. faults' \in [FaultKinds -> Nat]
    BY <1>2, AgentTypes, FaultType DEF DeleteFails, FaultKinds
  <2>2. fullsync' \in [Agents -> BOOLEAN] /\ loop' \in [Agents -> LoopType]
    BY <1>2, AgentTypes, ConstantTypes DEF DeleteFails
  <2>3. UNCHANGED <<serverVars, info, half, forwards, updated, removed, stale, running, owed>>
    BY <1>2 DEF DeleteFails
  <2>. QED
    BY <2>1, <2>2, <2>3, Types, AgentTypes DEF serverVars, TypeInv, TypeOK, ServerTypeOK,
       AgentTypeOK, RequestType, CallType, LoopType
<1>3. rpc[a].found \in [Routers -> Nat] /\ Fetched(a) \in SUBSET Routers /\ Missing(a) \in SUBSET Routers
  BY Types, AgentTypes DEF CallType, LoopType, Fetched, Missing
<1>4. ASSUME NEW bad, FinishUpdates(a, bad) PROVE TypeInv'
  <2>1. faults' \in [FaultKinds -> Nat] /\ bad \in SUBSET Routers
    BY <1>3, <1>4, FailingType DEF FinishUpdates
  <2>2. forwards' \in [Agents -> [Routers -> Nat]]
    <3>1. PICK f \in [Routers -> Nat] : forwards' = [forwards EXCEPT ![a] = f]
      <4>1. forwards[a] \in [Routers -> Nat]
        BY AgentTypes
      <4> DEFINE f == [r \in Routers |-> IF r \in Fetched(a) \ bad THEN rpc[a].found[r] ELSE forwards[a][r]]
      <4>2. f \in [Routers -> Nat]
        BY <1>3, <4>1
      <4>3. forwards' = [forwards EXCEPT ![a] = f]
        BY <1>4, AgentTypes DEF FinishUpdates
      <4>. QED
        BY <4>2, <4>3
    <3>. QED
      BY <3>1, AgentTypes
  <2>3. loop' \in [Agents -> LoopType]
    <3> DEFINE new == IF removed[a] \cup Missing(a) = {} THEN Resting
                      ELSE [pc |-> "deleting", ids |-> removed[a] \cup Missing(a)]
    <3>1. new \in LoopType
      BY <1>3, AgentTypes, ConstantTypes DEF LoopType
    <3>2. loop' = [loop EXCEPT ![a] = new]
      BY <1>4, AgentTypes DEF FinishUpdates
    <3>. HIDE DEF new
    <3>. QED
      BY <3>1, <3>2, AgentTypes
  <2>4. /\ info' \in [Agents -> SUBSET Routers] /\ removed' \in [Agents -> SUBSET Routers]
        /\ rpc' \in [Agents -> CallType]
    BY <1>3, <1>4, Types, AgentTypes, ConstantTypes DEF FinishUpdates
  <2>5. UNCHANGED <<row, bound, agentUp, alive, api, inbox, requests, half, updated, fullsync,
                    stale, running, owed>>
    BY <1>4 DEF FinishUpdates
  <2>. QED
    BY <2>1, <2>2, <2>3, <2>4, <2>5, Types, AgentTypes DEF TypeInv, TypeOK, ServerTypeOK,
       AgentTypeOK, RequestType, CallType, LoopType
<1>5. ASSUME NEW bad, FinishSync(a, bad) PROVE TypeInv'
  <2>1. faults' \in [FaultKinds -> Nat] /\ bad \in SUBSET Routers
    <3>1. info[a] \in SUBSET Routers
      BY AgentTypes
    <3>2. Failing(a, bad, Fetched(a) \cup (info[a] \ Fetched(a)))
      BY <1>5 DEF FinishSync
    <3>. QED
      BY <1>3, <3>1, <3>2, FailingType
  <2>2. forwards' \in [Agents -> [Routers -> Nat]]
    <3>1. forwards[a] \in [Routers -> Nat]
      BY AgentTypes
    <3> DEFINE gone == info[a] \ Fetched(a)
               f == [r \in Routers |-> IF r \in Fetched(a) THEN IF r \in bad THEN forwards[a][r] ELSE rpc[a].found[r]
                                       ELSE IF stale[a] \/ r \in gone \ bad THEN 0 ELSE forwards[a][r]]
    <3>2. f \in [Routers -> Nat]
      BY <1>3, <3>1
    <3>3. forwards' = [forwards EXCEPT ![a] = f]
      BY <1>5, AgentTypes DEF FinishSync
    <3>. HIDE DEF f
    <3>. QED
      BY <3>2, <3>3, AgentTypes
  <2>3. /\ info' \in [Agents -> SUBSET Routers] /\ loop' \in [Agents -> LoopType]
        /\ rpc' \in [Agents -> CallType] /\ fullsync' \in [Agents -> BOOLEAN]
        /\ stale' \in [Agents -> BOOLEAN]
    BY <1>3, <1>5, Types, AgentTypes, ConstantTypes DEF FinishSync
  <2>4. UNCHANGED <<row, bound, agentUp, alive, api, inbox, requests, half, updated, removed,
                    running, owed>>
    BY <1>5 DEF FinishSync
  <2>. QED
    BY <2>1, <2>2, <2>3, <2>4, Types, AgentTypes DEF TypeInv, TypeOK, ServerTypeOK,
       AgentTypeOK, RequestType, CallType, LoopType
<1>. QED
  BY <1>1, <1>2, <1>4, <1>5

\* when they fail,
LEMMA FailStepType ==
  ASSUME TypeInv, NEW a \in Agents,
         CallFails(a) \/ \E r \in Routers, done \in SUBSET Routers, made \in BOOLEAN : AddFails(a, r, done, made)
  PROVE  TypeInv'
<1>1. CASE CallFails(a)
  <2>1. PICK new : rpc' = [rpc EXCEPT ![a] = new] /\ (new = NoCall \/ new = [rpc[a] EXCEPT !.late = TRUE])
    BY <1>1, Types DEF CallFails
  <2>2. new \in CallType
    <3>1. rpc[a] \in CallType
      BY Types
    <3>2. [rpc[a] EXCEPT !.late = TRUE] \in CallType
      BY <3>1 DEF CallType
    <3>. QED
      BY <2>1, <3>2, ConstantTypes
  <2>3. faults' \in [FaultKinds -> Nat]
    BY <1>1, AgentTypes, FaultType DEF CallFails, FaultKinds
  <2>4. fullsync' \in [Agents -> BOOLEAN] /\ loop' \in [Agents -> LoopType]
    BY <1>1, AgentTypes, ConstantTypes DEF CallFails, Resync
  <2>5. rpc' \in [Agents -> CallType]
    BY <2>1, <2>2, Types
  <2>6. UNCHANGED <<row, bound, agentUp, alive, api, inbox, requests, info, half, forwards,
                    updated, removed, stale, running, owed>>
    BY <1>1 DEF CallFails
  <2>. QED
    BY <2>3, <2>4, <2>5, <2>6, Types, AgentTypes DEF TypeInv, TypeOK, ServerTypeOK,
       AgentTypeOK, RequestType, CallType, LoopType
<1>2. ASSUME NEW r \in Routers, NEW done \in SUBSET Routers, NEW made \in BOOLEAN,
             AddFails(a, r, done, made)
      PROVE  TypeInv'
  <2>1. rpc[a].found \in [Routers -> Nat] /\ Missing(a) \in SUBSET Routers
    BY Types, AgentTypes DEF CallType, LoopType, Missing
  <2>2. forwards' \in [Agents -> [Routers -> Nat]]
    <3>1. forwards[a] \in [Routers -> Nat]
      BY AgentTypes
    <3> DEFINE f == [q \in Routers |-> IF q \in done THEN rpc[a].found[q]
                                       ELSE IF loop[a].pc = "syncing" /\ stale[a] /\ q \notin Fetched(a) THEN 0
                                       ELSE forwards[a][q]]
    <3>2. f \in [Routers -> Nat]
      BY <2>1, <3>1
    <3>3. forwards' = [forwards EXCEPT ![a] = f]
      BY <1>2, AgentTypes DEF AddFails
    <3>. HIDE DEF f
    <3>. QED
      BY <3>2, <3>3, AgentTypes
  <2>3. /\ info' \in [Agents -> SUBSET Routers] /\ half' \in [Agents -> SUBSET Routers]
        /\ fullsync' \in [Agents -> BOOLEAN] /\ loop' \in [Agents -> LoopType]
        /\ rpc' \in [Agents -> CallType]
    BY <1>2, Types, AgentTypes, ConstantTypes DEF AddFails
  <2>4. removed' \in [Agents -> SUBSET Routers]
    BY <1>2, <2>1, AgentTypes DEF AddFails
  <2>5. stale' \in [Agents -> BOOLEAN] /\ faults' \in [FaultKinds -> Nat]
    BY <1>2, AgentTypes, FaultType DEF AddFails, FaultKinds
  <2>6. UNCHANGED <<row, bound, agentUp, alive, api, inbox, requests, updated, running, owed>>
    BY <1>2 DEF AddFails
  <2>. QED
    BY <2>2, <2>3, <2>4, <2>5, <2>6, Types, AgentTypes DEF TypeInv, TypeOK, ServerTypeOK,
       AgentTypeOK, RequestType, CallType, LoopType
<1>. QED
  BY <1>1, <1>2

\* and when the agent stops, starts or reports, or is late.
LEMMA StopStepType ==
  ASSUME TypeInv, NEW a \in Agents,
         Crash(a) \/ Start(a) \/ DropAnswer(a) \/ LooksDown(a) \/ ReportState(a)
  PROVE  TypeInv'
<1>1. CASE Crash(a)
  <2>1. PICK new : rpc' = [rpc EXCEPT ![a] = new] /\ (new = NoCall \/ new = [rpc[a] EXCEPT !.late = TRUE])
    BY <1>1, Types DEF Crash
  <2>2. new \in CallType
    <3>1. rpc[a] \in CallType
      BY Types
    <3>2. [rpc[a] EXCEPT !.late = TRUE] \in CallType
      BY <3>1 DEF CallType
    <3>. QED
      BY <2>1, <3>2, ConstantTypes
  <2>3. rpc' \in [Agents -> CallType]
    BY <2>1, <2>2, Types
  <2>4. /\ info' \in [Agents -> SUBSET Routers] /\ half' \in [Agents -> SUBSET Routers]
        /\ updated' \in [Agents -> SUBSET Routers] /\ removed' \in [Agents -> SUBSET Routers]
        /\ owed' \in [Agents -> SUBSET Routers]
        /\ loop' \in [Agents -> LoopType] /\ running' \in [Agents -> BOOLEAN]
    BY <1>1, AgentTypes, ConstantTypes DEF Crash
  <2>5. faults' \in [FaultKinds -> Nat]
    BY <1>1, FaultType DEF Crash, FaultKinds
  <2>6. UNCHANGED <<row, bound, agentUp, alive, api, inbox, requests, forwards, fullsync, stale>>
    BY <1>1 DEF Crash
  <2>. QED
    BY <2>3, <2>4, <2>5, <2>6, Types, AgentTypes DEF TypeInv, TypeOK, ServerTypeOK,
       AgentTypeOK, RequestType, CallType, LoopType
<1>2. CASE Start(a)
  <2>1. inbox' \in [Agents -> Seq(Message)]
    <3>1. inbox[a] \in Seq(Message)
      BY Types
    <3>2. PICK rest \in Seq(Message) : rest = NotFanout(inbox[a])
      BY <3>1, NotFanoutType
    <3>3. inbox' = [inbox EXCEPT ![a] = rest]
      BY <1>2, <3>2, Types DEF Start
    <3>. QED
      BY <3>3, Types
  <2>2. /\ running' \in [Agents -> BOOLEAN] /\ alive' \in [Agents -> BOOLEAN]
        /\ fullsync' \in [Agents -> BOOLEAN] /\ stale' \in [Agents -> BOOLEAN]
    BY <1>2, Types, AgentTypes, CleanStaleAssumption DEF Start
  <2>3. UNCHANGED <<row, bound, agentUp, api, rpc, requests, info, half, forwards, updated,
                    removed, loop, faults, owed>>
    BY <1>2 DEF Start
  <2>. QED
    BY <2>1, <2>2, <2>3, Types, AgentTypes DEF TypeInv, TypeOK, ServerTypeOK,
       AgentTypeOK, RequestType, CallType, LoopType
<1>3. CASE DropAnswer(a)
  <2>1. rpc' \in [Agents -> CallType]
    BY <1>3, Types, ConstantTypes DEF DropAnswer
  <2>. QED
    BY <1>3, <2>1, Types, AgentTypes DEF DropAnswer, agentVars, TypeInv, TypeOK, ServerTypeOK,
       AgentTypeOK, RequestType, CallType, LoopType
<1>4. CASE LooksDown(a) \/ ReportState(a)
  <2>1. alive' \in [Agents -> BOOLEAN]
    BY <1>4, Types DEF LooksDown, ReportState
  <2>2. faults' \in [FaultKinds -> Nat]
    BY <1>4, AgentTypes, FaultType DEF LooksDown, ReportState, agentVars, FaultKinds
  <2>3. UNCHANGED <<row, bound, agentUp, api, rpc, inbox, requests,
                    info, half, forwards, updated, removed, fullsync, stale, loop, running, owed>>
    BY <1>4 DEF LooksDown, ReportState, agentVars
  <2>. QED
    BY <2>1, <2>2, <2>3, Types, AgentTypes DEF TypeInv, TypeOK, ServerTypeOK,
       AgentTypeOK, RequestType, CallType, LoopType
<1>. QED
  BY <1>1, <1>2, <1>3, <1>4

\* Every step keeps the types.
LEMMA NextType == ASSUME TypeInv, [Next]_vars PROVE TypeInv'
<1>1. CASE Accepted \/ Served
  BY <1>1, RequestStepType, FinishStepType DEF Accepted, Served
<1>2. CASE Answered
  BY <1>2, AnswerStepType DEF Answered
<1>3. ASSUME NEW a \in Agents, Run(a) \/ Fail(a) \/ LooksDown(a) PROVE TypeInv'
  <2>1. CASE Loop(a) \/ StartSync(a)
    BY <2>1, BeginType, TaskStepType, Zenon DEF Loop
  <2>2. CASE Deliver(a)
    BY <2>2, DeliverType
  <2>3. CASE DropAnswer(a) \/ Start(a) \/ ReportState(a) \/ LooksDown(a)
    BY <2>3, StopStepType, Zenon
  <2>4. CASE Noticed(a)
    BY <2>4, FailStepType, Zenon DEF Noticed
  <2>5. CASE Fail(a)
    BY <2>5, FailStepType, StopStepType, TaskStepType, Zenon DEF Fail
  <2>. QED
    BY <1>3, <2>1, <2>2, <2>3, <2>4, <2>5, Zenon DEF Run
<1>4. CASE UNCHANGED vars
  BY <1>4 DEF vars, serverVars, agentVars, TypeInv, TypeOK, ServerTypeOK, AgentTypeOK
<1>. QED
  BY <1>1, <1>2, <1>3, <1>4, Zenon DEF Next

\* They hold at the start.
LEMMA InitType == Init => TypeInv
<1>. SUFFICES ASSUME Init PROVE TypeInv
  OBVIOUS
<1>1. /\ NoRequest \in RequestType /\ RequestOK(NoRequest) /\ <<>> \in Seq(Message)
      /\ [a \in Agents |-> 0] \in [Agents -> Nat]
  BY DEF NoRequest, RequestType, RequestOK
<1>2. /\ row \in [Routers -> [life : {"new", "here", "gone"}, up : BOOLEAN, rev : Nat]]
      /\ bound \in [Routers -> [Agents -> Nat]]
      /\ agentUp \in [Agents -> BOOLEAN] /\ alive \in [Agents -> BOOLEAN]
      /\ api \in [Workers -> RequestType] /\ rpc \in [Agents -> CallType]
      /\ inbox \in [Agents -> Seq(Message)] /\ requests \in 0..MaxRequests
      /\ \A w \in Workers : RequestOK(api[w])
  BY <1>1, ConstantTypes, BoundAssumption DEF Init, ServerInit
<1>3. AgentTypeOK
  BY ConstantTypes, CleanStaleAssumption DEF Init, AgentInit, AgentTypeOK, LoopType
<1>. QED
  BY <1>2, <1>3 DEF TypeInv, TypeOK, ServerTypeOK, RequestType, CallType

\* The rows, the calls, the queues and the agents are of their types, whatever times out,
\* fails or crashes.
THEOREM RoutingTypeCorrect == Spec => []TypeOK
<1>1. TypeInv => TypeOK
  BY DEF TypeInv
<1>. QED
  BY <1>1, InitType, NextType, PTL DEF Spec

-----------------------------------------------------------------------------
(* The routers follow RouterHosting, one transaction at a time and with    *)
(* every agent enabled.                                                    *)

\* A request that commits, and a call that binds, have a transaction open.
Committing(w) == api[w].pc = "commit"
Binding(a)    == rpc[a].pc = "bind"

\* There is one at most.
OneTransaction ==
  /\ \A w, v \in Workers : Committing(w) /\ Committing(v) => w = v
  /\ \A a, b \in Agents : Binding(a) /\ Binding(b) => a = b
  /\ \A w \in Workers, a \in Agents : ~ (Committing(w) /\ Binding(a))

\* The transaction is going to bind the router of its request.
WillBind(q) == q.op = "add_to_agent" \/ (q.op = "change" /\ q.agent # None)

\* What it read of its routers still holds.
ReadsHold ==
  /\ \A w \in Workers : Committing(w) => /\ Here(api[w].router)
                                         /\ WillBind(api[w]) => Unbound(api[w].router)
  /\ \A a \in Agents : Binding(a) => \A r \in rpc[a].bind : Here(r) /\ Unbound(r)

\* A router has no row, or exists and has one.
OneRow(r) == Unbound(r) \/ (Here(r) /\ \E a \in Agents : OnlyRow(r, a))

\* The inductive invariant of FollowsHosting.
HostInv ==
  /\ TypeInv /\ \A a \in Agents : agentUp[a]
  /\ \A r \in Routers : OneRow(r)
  /\ OneTransaction /\ ReadsHold

\* The variables of RouterHosting, as the rows have them.
Lives == [r \in Routers |-> row[r].life]
Hosts == [r \in Routers |-> HostOf(r)]

\* Rows that are one row, of a, are of no other agent.
LEMMA OneHost ==
  ASSUME NEW rows, NEW a \in Agents, rows = [b \in Agents |-> IF b = a THEN 1 ELSE 0]
  PROVE  /\ ~ \A b \in Agents : rows[b] = 0
         /\ (CHOOSE b \in Agents : rows = [c \in Agents |-> IF c = b THEN 1 ELSE 0]) = a
<1>1. rows[a] = 1 /\ \A b \in Agents : b # a => rows[b] = 0
  OBVIOUS
<1>2. \A b \in Agents : rows = [c \in Agents |-> IF c = b THEN 1 ELSE 0] => b = a
  <2>1. ASSUME NEW b \in Agents, rows = [c \in Agents |-> IF c = b THEN 1 ELSE 0] PROVE b = a
    <3>1. rows[b] = 1
      BY <2>1
    <3>. QED
      BY <1>1, <3>1
  <2>. QED
    BY <2>1
<1>3. (CHOOSE b \in Agents : rows = [c \in Agents |-> IF c = b THEN 1 ELSE 0]) = a
  BY <1>2
<1>. QED
  BY <1>1, <1>3

\* A router has the host its only row says.
LEMMA HostIs ==
  ASSUME NEW r \in Routers
  PROVE  /\ Unbound(r) => HostOf(r) = None
         /\ \A a \in Agents : OnlyRow(r, a) => HostOf(r) = a /\ a # None
<1>1. Unbound(r) => HostOf(r) = None
  BY DEF HostOf
<1>2. ASSUME NEW a \in Agents, OnlyRow(r, a) PROVE HostOf(r) = a /\ a # None
  <2>1. ~Unbound(r) /\ (CHOOSE b \in Agents : OnlyRow(r, b)) = a
    BY <1>2, OneHost DEF Unbound, OnlyRow
  <2>. QED
    BY <1>2, <2>1, NoneAssumption DEF HostOf
<1>. QED
  BY <1>1, <1>2

\* While nothing is committing or binding, the transactions are in order.
LEMMA NoTransaction ==
  ASSUME \A w \in Workers : ~Committing(w), \A a \in Agents : ~Binding(a)
  PROVE  OneTransaction /\ ReadsHold
BY DEF OneTransaction, ReadsHold

\* No transaction begins, and none that goes on is about something else.
NoneBegins ==
  /\ \A w \in Workers : Committing(w)' => api'[w] = api[w]
  /\ \A a \in Agents : Binding(a)' => Binding(a) /\ rpc'[a].bind = rpc[a].bind

\* When the rows are left as they are and no transaction begins, the invariant stays,
\* and the hosts.
LEMMA RowsStay ==
  ASSUME HostInv, TypeInv', UNCHANGED <<row, bound, agentUp>>, NoneBegins
  PROVE  HostInv' /\ UNCHANGED <<Lives, Hosts>>
<1>1. UNCHANGED <<Lives, Hosts>> /\ \A r \in Routers : OneRow(r)'
  BY DEF HostInv, Lives, Hosts, HostOf, OnlyRow, Unbound, OneRow, Here
<1>2. \A w \in Workers : Committing(w)' => Committing(w) /\ api'[w] = api[w]
  BY DEF NoneBegins, Committing
<1>3. OneTransaction'
  BY <1>2 DEF HostInv, OneTransaction, NoneBegins
<1>4. ReadsHold'
  BY <1>2 DEF HostInv, ReadsHold, NoneBegins, Here, Unbound
<1>. QED
  BY <1>1, <1>3, <1>4 DEF HostInv

\* An agent's step begins none.
LEMMA AgentBeginsNone ==
  ASSUME HostInv, NEW a \in Agents, Run(a) \/ Fail(a) \/ LooksDown(a)
  PROVE  UNCHANGED <<row, bound, agentUp>> /\ NoneBegins
<1>1. TypeInv
  BY DEF HostInv
<1>2. ASSUME UNCHANGED rpc PROVE \A b \in Agents : Binding(b)' => Binding(b) /\ rpc'[b].bind = rpc[b].bind
  BY <1>2 DEF Binding
<1>3. ASSUME NEW c, rpc' = [rpc EXCEPT ![a] = c],
             c.pc # "bind" \/ (c.pc = rpc[a].pc /\ c.bind = rpc[a].bind)
      PROVE  \A b \in Agents : Binding(b)' => Binding(b) /\ rpc'[b].bind = rpc[b].bind
  BY <1>1, <1>3, Types DEF Binding
<1>4. NoCall.pc # "bind"
  BY DEF NoCall
<1>5. rpc[a] \in CallType
  BY <1>1, Types
<1>6. [rpc[a] EXCEPT !.late = TRUE].pc = rpc[a].pc /\ [rpc[a] EXCEPT !.late = TRUE].bind = rpc[a].bind
  BY <1>5 DEF CallType
<1>7. ASSUME NEW ids, Ask(a, ids)
      PROVE \A b \in Agents : Binding(b)' => Binding(b) /\ rpc'[b].bind = rpc[b].bind
  <2> DEFINE c == [pc |-> "asked", ids |-> ids, bind |-> {}, found |-> Absent, late |-> FALSE]
  <2>1. rpc' = [rpc EXCEPT ![a] = c] /\ c.pc # "bind"
    BY <1>7 DEF Ask
  <2>. HIDE DEF c
  <2>. QED
    BY <1>3, <2>1
<1>8. ASSUME rpc' = [rpc EXCEPT ![a] = NoCall]
      PROVE \A b \in Agents : Binding(b)' => Binding(b) /\ rpc'[b].bind = rpc[b].bind
  BY <1>3, <1>4, <1>8
<1>9. ASSUME rpc' = [rpc EXCEPT ![a] = [rpc[a] EXCEPT !.late = TRUE]]
      PROVE \A b \in Agents : Binding(b)' => Binding(b) /\ rpc'[b].bind = rpc[b].bind
  BY <1>3, <1>6, <1>9
<1>10. UNCHANGED <<row, bound, agentUp, api>>
  BY Zenon DEF Run, Fail, Loop, Noticed, Deliver, StartSync, DropAnswer, Start, ReportState,
     StartUpdates, StartDeletes, DeleteOne, FinishUpdates, FinishSync, CallFails, Crash, DeleteFails,
     AddFails, LooksDown, serverVars
<1>11. \/ UNCHANGED rpc \/ rpc' = [rpc EXCEPT ![a] = NoCall] \/ \E ids : Ask(a, ids)
       \/ rpc' = [rpc EXCEPT ![a] = [rpc[a] EXCEPT !.late = TRUE]]
  <2>1. CASE CallFails(a) \/ Crash(a)
    BY <1>1, <2>1, Types DEF CallFails, Crash
  <2>2. CASE Deliver(a) \/ StartDeletes(a) \/ Start(a) \/ ReportState(a) \/ LooksDown(a)
             \/ \E r \in Routers : DeleteOne(a, r) \/ DeleteFails(a, r)
    BY <2>2, Zenon DEF Deliver, StartDeletes, Start, ReportState, LooksDown, DeleteOne, DeleteFails, serverVars
  <2>3. CASE StartUpdates(a) \/ StartSync(a)
    BY <2>3, Zenon DEF StartUpdates, StartSync
  <2>4. CASE \/ DropAnswer(a) \/ \E bad : FinishUpdates(a, bad) \/ FinishSync(a, bad)
             \/ \E r \in Routers, done \in SUBSET Routers, made \in BOOLEAN : AddFails(a, r, done, made)
    BY <2>4, Zenon DEF DropAnswer, FinishUpdates, FinishSync, AddFails
  <2>. QED
    BY <2>1, <2>2, <2>3, <2>4, Zenon DEF Run, Fail, Loop, Noticed
<1>. QED
  BY <1>2, <1>7, <1>8, <1>9, <1>10, <1>11 DEF NoneBegins, Committing

\* A request that begins a transaction has read what it needs.
LEMMA CommitBegins ==
  ASSUME HostInv, TypeInv', Serial, MayBegin, NEW w \in Workers, NEW q,
         api' = [api EXCEPT ![w] = q], Here(q.router), WillBind(q) => Unbound(q.router),
         UNCHANGED <<row, bound, agentUp, rpc>>
  PROVE  HostInv' /\ UNCHANGED <<Lives, Hosts>>
<1>1. UNCHANGED <<Lives, Hosts>> /\ \A r \in Routers : OneRow(r)'
  BY DEF HostInv, Lives, Hosts, HostOf, OnlyRow, Unbound, OneRow, Here
<1>2. \A v \in Workers : ~Committing(v)
  BY DEF MayBegin, Committing
<1>3. \A b \in Agents : ~Binding(b)'
  BY DEF MayBegin, Binding
<1>4. api'[w] = q /\ \A v \in Workers : v # w => api'[v] = api[v]
  BY Types DEF HostInv
<1>5. \A v \in Workers : Committing(v)' => v = w
  BY <1>2, <1>4 DEF Committing
<1>6. OneTransaction'
  BY <1>3, <1>5 DEF OneTransaction
<1>7. Here(q.router)' /\ (WillBind(q) => Unbound(q.router)')
  BY DEF Here, Unbound
<1>8. ReadsHold'
  BY <1>3, <1>4, <1>5, <1>7 DEF ReadsHold
<1>. QED
  BY <1>1, <1>6, <1>8 DEF HostInv

\* Routers without a row get one, of one agent, and so a host.
LEMMA BindRouters ==
  ASSUME HostInv, TypeInv', NEW rs \in SUBSET Routers, NEW a \in Agents,
         \A r \in rs : Here(r) /\ Unbound(r),
         bound' = [r \in Routers |-> IF r \in rs THEN [bound[r] EXCEPT ![a] = @ + 1] ELSE bound[r]],
         \A r \in Routers : row'[r].life = row[r].life
  PROVE  (\A r \in Routers : OneRow(r)') /\ Hosting!Bind(rs, a)
<1>0. TypeInv /\ \A r \in Routers : OneRow(r)
  BY DEF HostInv
<1>1. ASSUME NEW r \in Routers PROVE Here(r)' <=> Here(r)
  BY DEF Here
<1>2. ASSUME NEW r \in rs PROVE OnlyRow(r, a)'
  <2>1. bound[r] = [b \in Agents |-> 0]
    BY <1>0, <1>2, Types DEF Unbound
  <2>2. [bound[r] EXCEPT ![a] = @ + 1] = [b \in Agents |-> IF b = a THEN 1 ELSE 0]
    BY <2>1
  <2>. QED
    BY <2>2 DEF OnlyRow
<1>3. ASSUME NEW r \in Routers \ rs PROVE bound'[r] = bound[r]
  OBVIOUS
<1>4. \A r \in Routers : OneRow(r)'
  <2>1. ASSUME NEW r \in rs PROVE OneRow(r)'
    BY <1>1, <1>2, <2>1 DEF OneRow
  <2>2. ASSUME NEW r \in Routers \ rs PROVE OneRow(r)'
    BY <1>0, <1>1, <1>3, <2>2 DEF OneRow, Unbound, OnlyRow
  <2>. QED
    BY <2>1, <2>2
<1>5. ASSUME NEW r \in rs PROVE Lives[r] = "here" /\ Hosts[r] = None
  BY <1>0, <1>5, HostIs DEF Lives, Hosts, Here
<1>6. Hosts' = [r \in Routers |-> IF r \in rs THEN a ELSE Hosts[r]]
  <2>1. ASSUME NEW r \in rs PROVE HostOf(r)' = a
    <3>1. bound'[r] = [b \in Agents |-> IF b = a THEN 1 ELSE 0]
      BY <1>2, <2>1 DEF OnlyRow
    <3>2. /\ ~ \A b \in Agents : bound'[r][b] = 0
          /\ (CHOOSE b \in Agents : bound'[r] = [c \in Agents |-> IF c = b THEN 1 ELSE 0]) = a
      <4>1. PICK rows : rows = bound'[r]
        OBVIOUS
      <4>2. rows = [b \in Agents |-> IF b = a THEN 1 ELSE 0]
        BY <3>1, <4>1
      <4>3. /\ ~ \A b \in Agents : rows[b] = 0
            /\ (CHOOSE b \in Agents : rows = [c \in Agents |-> IF c = b THEN 1 ELSE 0]) = a
        BY <4>2, OneHost
      <4>. QED
        BY <4>1, <4>3, Zenon
    <3>3. \E b \in Agents : bound'[r] = [c \in Agents |-> IF c = b THEN 1 ELSE 0]
      BY <3>1
    <3>. QED
      BY <3>2, <3>3, Zenon DEF HostOf, OnlyRow, Unbound
  <2>2. ASSUME NEW r \in Routers \ rs PROVE HostOf(r)' = HostOf(r)
    BY <1>3, <2>2 DEF HostOf, Unbound, OnlyRow
  <2>. HIDE DEF HostInv
  <2>3. Hosts' = [r \in Routers |-> HostOf(r)']
    BY DEF Hosts
  <2>. QED
    BY <2>1, <2>2, <2>3 DEF Hosts
<1>7. Lives' = Lives
  BY DEF Lives
<1>. QED
  BY <1>4, <1>5, <1>6, <1>7 DEF Hosting!Bind, Lives, Hosts

\* A transaction that ends leaves none.
LEMMA CommitEnds ==
  ASSUME HostInv, NEW w \in Workers, Committing(w),
         NEW q, q.pc # "commit", api' = [api EXCEPT ![w] = q], UNCHANGED rpc
  PROVE  OneTransaction' /\ ReadsHold'
<1>1. \A v \in Workers : ~Committing(v)'
  BY Types DEF HostInv, OneTransaction, Committing
<1>2. \A a \in Agents : ~Binding(a)'
  BY DEF HostInv, OneTransaction, Binding
<1>. QED
  BY <1>1, <1>2 DEF OneTransaction, ReadsHold

\* What a step does to lives and hosts.
HostStep == Hosting!Next \/ UNCHANGED <<Lives, Hosts>>

\* Requests are steps of RouterHosting,
LEMMA RequestHosts ==
  ASSUME HostInv, TypeInv', Serial, "update_agent" \notin Operations, NEW w \in Workers, Request(w)
  PROVE  HostInv' /\ HostStep
<1>0. TypeInv /\ \A r \in Routers : OneRow(r)
  BY DEF HostInv
<1>1. ASSUME NEW r \in Routers, CreateRouter(w, r) PROVE HostInv' /\ HostStep
  <2>1. /\ row[r].life = "new" /\ row' = [row EXCEPT ![r] = [life |-> "here", up |-> TRUE, rev |-> 1]]
        /\ UNCHANGED <<bound, agentUp, api, rpc>> /\ MayBegin
    BY <1>1 DEF CreateRouter
  <2>2. Unbound(r)
    BY <1>0, <2>1 DEF OneRow, Here
  <2>3. ASSUME NEW q \in Routers PROVE OneRow(q)'
    <3>1. CASE q = r
      BY <2>1, <2>2, <3>1 DEF OneRow, Unbound
    <3>2. CASE q # r
      <4>1. row'[q] = row[q] /\ bound'[q] = bound[q]
        BY <1>0, <2>1, <3>2, Types
      <4>. QED
        BY <1>0, <4>1 DEF OneRow, Unbound, Here, OnlyRow
    <3>. QED
      BY <3>1, <3>2
  <2>4. OneTransaction' /\ ReadsHold'
    BY <2>1, Serial DEF MayBegin, OneTransaction, ReadsHold, Committing, Binding
  <2>5. Lives[r] = "new" /\ Lives' = [Lives EXCEPT ![r] = "here"]
    BY <1>0, <2>1, Types DEF Lives
  <2>6. Hosts' = Hosts
    BY <2>1 DEF Hosts, HostOf, Unbound, OnlyRow
  <2>7. Hosting!Create(r)
    BY <2>5, <2>6 DEF Hosting!Create, Lives, Hosts
  <2>. QED
    BY <2>1, <2>3, <2>4, <2>7 DEF HostInv, HostStep, Hosting!Next
<1>2. ASSUME NEW r \in Routers, StartDelete(w, r) PROVE HostInv' /\ HostStep
  <2> DEFINE q == [pc |-> "commit", op |-> "delete", router |-> r, agent |-> None]
  <2>1. q.router = r /\ ~WillBind(q)
    BY DEF WillBind
  <2>2. /\ api' = [api EXCEPT ![w] = q] /\ Here(r) /\ MayBegin
        /\ UNCHANGED <<row, bound, agentUp, rpc>>
    BY <1>2 DEF StartDelete
  <2>. HIDE DEF q
  <2>. QED
    BY <2>1, <2>2, CommitBegins DEF HostStep
<1>3. ASSUME NEW r \in Routers, NEW a \in Agents \cup {None}, StartChange(w, r, a)
      PROVE  HostInv' /\ HostStep
  <2> DEFINE q == [pc |-> "commit", op |-> "change", router |-> r, agent |-> a]
  <2>1. q.router = r /\ (WillBind(q) => a # None)
    BY DEF WillBind
  <2>2. /\ api' = [api EXCEPT ![w] = q] /\ Here(r) /\ MayBegin
        /\ UNCHANGED <<row, bound, agentUp, rpc>> /\ a \in Candidates(r)
    BY <1>3 DEF StartChange
  <2>3. a # None => Unbound(r)
    <3>1. a # None => ~Hosted(r)
      BY <2>2 DEF Candidates
    <3>2. \A b \in Agents : bound[r][b] \in Nat
      BY <1>0, Types
    <3>. QED
      BY <3>1, <3>2 DEF Hosted, SomeEnabled, Unbound, HostInv
  <2>. HIDE DEF q
  <2>. QED
    BY <2>1, <2>2, <2>3, CommitBegins DEF HostStep
<1>4. ASSUME NEW r \in Routers, NEW a \in Agents, StartAdd(w, r, a) PROVE HostInv' /\ HostStep
  <2> DEFINE q == [pc |-> "commit", op |-> "add_to_agent", router |-> r, agent |-> a]
  <2>1. q.router = r
    OBVIOUS
  <2>2. /\ api' = [api EXCEPT ![w] = q] /\ Here(r) /\ Unbound(r) /\ MayBegin
        /\ UNCHANGED <<row, bound, agentUp, rpc>>
    BY <1>4 DEF StartAdd
  <2>. HIDE DEF q
  <2>. QED
    BY <2>1, <2>2, CommitBegins DEF HostStep
<1>5. ASSUME NEW r \in Routers, NEW a \in Agents, StartRemove(w, r, a) PROVE HostInv' /\ HostStep
  <2> DEFINE q == [pc |-> "notify", op |-> "remove_from_agent", router |-> r, agent |-> a]
  <2>1. q.pc # "commit"
    OBVIOUS
  <2>2. /\ api' = [api EXCEPT ![w] = q] /\ bound[r][a] = 1 /\ MayBegin
        /\ bound' = [bound EXCEPT ![r][a] = 0] /\ UNCHANGED <<row, agentUp, rpc>>
    BY <1>5 DEF StartRemove
  <2>. HIDE DEF q
  <2>3. OnlyRow(r, a)
    <3>1. ~Unbound(r)
      BY <2>2 DEF Unbound
    <3>2. PICK b \in Agents : OnlyRow(r, b)
      BY <1>0, <3>1 DEF OneRow
    <3>3. b = a
      BY <2>2, <3>2 DEF OnlyRow
    <3>. QED
      BY <3>2, <3>3
  <2>4. Unbound(r)'
    <3>1. bound[r] = [b \in Agents |-> IF b = a THEN 1 ELSE 0]
      BY <2>3 DEF OnlyRow
    <3>2. \A b \in Agents : bound'[r][b] = 0
      BY <1>0, <2>2, <3>1, Types
    <3>. QED
      BY <3>2 DEF Unbound
  <2>5. ASSUME NEW p \in Routers \ {r} PROVE row'[p] = row[p] /\ bound'[p] = bound[p]
    BY <1>0, <2>2, Types
  <2>6. ASSUME NEW p \in Routers PROVE OneRow(p)'
    <3>1. CASE p = r
      BY <2>4, <3>1 DEF OneRow
    <3>2. CASE p # r
      BY <1>0, <2>5, <3>2 DEF OneRow, Unbound, Here, OnlyRow
    <3>. QED
      BY <3>1, <3>2
  <2>7. OneTransaction' /\ ReadsHold'
    <3>1. \A v \in Workers : ~Committing(v)'
      BY <1>0, <2>1, <2>2, Serial, Types DEF MayBegin, Committing
    <3>2. \A b \in Agents : ~Binding(b)'
      BY <2>2, Serial DEF MayBegin, Binding
    <3>. QED
      BY <3>1, <3>2 DEF OneTransaction, ReadsHold
  <2>8. HostOf(r) # None
    BY <1>0, <2>3, HostIs
  <2>9. HostOf(r)' = None
    BY <2>4 DEF HostOf
  <2>10. \A p \in Routers \ {r} : HostOf(p)' = HostOf(p)
    BY <2>5 DEF HostOf, Unbound, OnlyRow
  <2>11. Hosts' = [Hosts EXCEPT ![r] = None] /\ Hosts[r] # None
    <3>1. Hosts' = [p \in Routers |-> HostOf(p)']
      BY DEF Hosts
    <3>2. Hosts[r] # None
      BY <2>8 DEF Hosts
    <3>3. Hosts' = [Hosts EXCEPT ![r] = None]
      BY <2>9, <2>10, <3>1 DEF Hosts
    <3>. QED
      BY <3>2, <3>3
  <2>12. Lives' = Lives
    BY <2>2 DEF Lives
  <2>13. Hosting!Unbind(r)
    BY <2>11, <2>12 DEF Hosting!Unbind, Lives, Hosts
  <2>. QED
    BY <2>2, <2>6, <2>7, <2>13 DEF HostInv, HostStep, Hosting!Next
<1>6. ASSUME NEW a \in Agents, StartUpdateAgent(w, a) PROVE FALSE
  BY <1>6 DEF StartUpdateAgent, Accept
<1>. QED
  BY <1>1, <1>2, <1>3, <1>4, <1>5, <1>6, Zenon DEF Request

\* so are their ends,
LEMMA FinishHosts ==
  ASSUME HostInv, TypeInv', NEW w \in Workers, Finish(w)
  PROVE  HostInv' /\ HostStep
<1>0. /\ TypeInv /\ RequestOK(api[w]) /\ api[w] \in RequestType /\ \A r \in Routers : OneRow(r)
      /\ NoRequest.pc # "commit"
  BY Types DEF HostInv, TypeInv, NoRequest
<1>1. ASSUME Committing(w)
      PROVE  Here(api[w].router) /\ (WillBind(api[w]) => Unbound(api[w].router))
  BY <1>1 DEF HostInv, ReadsHold
<1>2. ASSUME NEW up \in BOOLEAN, CommitChange(w, up) PROVE HostInv' /\ HostStep
  <2>1. PICK r \in Routers, a \in Agents \cup {None} : r = api[w].router /\ a = api[w].agent
    BY <1>0, <1>2 DEF CommitChange, RequestOK, RequestType
  <2>2. /\ row' = [row EXCEPT ![r].up = up, ![r].rev = @ + 1]
        /\ bound' = IF a = None THEN bound ELSE [bound EXCEPT ![r][a] = @ + 1]
        /\ api' = [api EXCEPT ![w] = NoRequest] /\ UNCHANGED <<agentUp, rpc>> /\ Committing(w)
        /\ api[w].op = "change"
    BY <1>2, <2>1 DEF CommitChange, Committing
  <2>3. \A q \in Routers : row'[q].life = row[q].life
    BY <1>0, <2>2, Types
  <2>4. OneTransaction' /\ ReadsHold'
    BY <1>0, <2>2, CommitEnds
  <2>5. CASE a = None
    <3>1. bound' = bound
      BY <2>2, <2>5
    <3>2. UNCHANGED <<Lives, Hosts>>
      BY <2>3, <3>1 DEF Lives, Hosts, HostOf, Unbound, OnlyRow
    <3>3. \A q \in Routers : OneRow(q)'
      BY <1>0, <2>3, <3>1 DEF OneRow, Unbound, OnlyRow, Here
    <3>. QED
      BY <2>2, <2>4, <3>2, <3>3 DEF HostInv, HostStep
  <2>6. CASE a # None
    <3>1. Here(r) /\ Unbound(r)
      BY <1>1, <2>1, <2>2, <2>6 DEF WillBind
    <3>2. bound' = [q \in Routers |-> IF q \in {r} THEN [bound[q] EXCEPT ![a] = @ + 1] ELSE bound[q]]
      BY <1>0, <2>2, <2>6, Types
    <3>3. (\A q \in Routers : OneRow(q)') /\ Hosting!Bind({r}, a)
      BY <2>3, <2>6, <3>1, <3>2, BindRouters
    <3>. QED
      BY <2>2, <2>4, <2>6, <3>3 DEF HostInv, HostStep, Hosting!Next
  <2>. QED
    BY <2>5, <2>6
<1>3. CASE CommitDelete(w)
  <2>1. PICK r \in Routers : r = api[w].router
    BY <1>0, <1>3 DEF CommitDelete, RequestOK
  <2>2. /\ row' = [row EXCEPT ![r].life = "gone"] /\ bound' = [bound EXCEPT ![r] = [a \in Agents |-> 0]]
        /\ api' = [api EXCEPT ![w] = NoRequest] /\ UNCHANGED <<agentUp, rpc>> /\ Committing(w)
    BY <1>3, <2>1 DEF CommitDelete, Committing
  <2>3. OneTransaction' /\ ReadsHold'
    BY <1>0, <2>2, CommitEnds
  <2>4. Here(r)
    BY <1>1, <2>1, <2>2
  <2>5. Unbound(r)'
    BY <1>0, <2>2, Types DEF Unbound
  <2>6. ASSUME NEW p \in Routers \ {r} PROVE row'[p] = row[p] /\ bound'[p] = bound[p]
    BY <1>0, <2>2, Types
  <2>7. \A p \in Routers : OneRow(p)'
    BY <1>0, <2>5, <2>6 DEF OneRow, Unbound, Here, OnlyRow
  <2>8. Lives[r] = "here" /\ Lives' = [Lives EXCEPT ![r] = "gone"]
    BY <1>0, <2>2, <2>4, Types DEF Lives, Here
  <2>9. Hosts' = [Hosts EXCEPT ![r] = None]
    <3>1. HostOf(r)' = None
      BY <2>5 DEF HostOf
    <3>2. \A p \in Routers \ {r} : HostOf(p)' = HostOf(p)
      BY <2>6 DEF HostOf, Unbound, OnlyRow
    <3>3. Hosts' = [p \in Routers |-> HostOf(p)']
      BY DEF Hosts
    <3>. QED
      BY <3>1, <3>2, <3>3 DEF Hosts
  <2>10. Hosting!Delete(r)
    BY <2>8, <2>9 DEF Hosting!Delete, Lives, Hosts
  <2>. QED
    BY <2>2, <2>3, <2>7, <2>10 DEF HostInv, HostStep, Hosting!Next
<1>4. CASE CommitAdd(w)
  <2>1. PICK r \in Routers, a \in Agents : r = api[w].router /\ a = api[w].agent
    BY <1>0, <1>4 DEF CommitAdd, RequestOK
  <2>2. Here(r) /\ Unbound(r) /\ Committing(w)
    BY <1>1, <1>4, <2>1 DEF CommitAdd, Committing, WillBind
  <2>3. PICK q : q.pc # "commit" /\ api' = [api EXCEPT ![w] = q]
    <3> DEFINE q == [api[w] EXCEPT !.pc = "notify"]
    <3>1. q.pc # "commit"
      BY <1>0 DEF RequestType
    <3>2. api' = [api EXCEPT ![w] = q] \/ api' = [api EXCEPT ![w] = NoRequest]
      BY <1>0, <1>4, Types DEF CommitAdd
    <3>. HIDE DEF q
    <3>. QED
      BY <1>0, <3>1, <3>2
  <2>4. bound' = [bound EXCEPT ![r][a] = @ + 1] /\ UNCHANGED <<row, agentUp, rpc>>
    BY <1>4, <2>1, <2>2 DEF CommitAdd
  <2>5. bound' = [p \in Routers |-> IF p \in {r} THEN [bound[p] EXCEPT ![a] = @ + 1] ELSE bound[p]]
    BY <1>0, <2>4, Types
  <2>6. (\A p \in Routers : OneRow(p)') /\ Hosting!Bind({r}, a)
    BY <2>2, <2>4, <2>5, BindRouters
  <2>7. OneTransaction' /\ ReadsHold'
    BY <2>2, <2>3, <2>4, CommitEnds
  <2>. QED
    BY <2>4, <2>6, <2>7 DEF HostInv, HostStep, Hosting!Next
<1>5. CASE Notify(w)
  <2>1. api' = [api EXCEPT ![w] = NoRequest] /\ UNCHANGED <<row, bound, agentUp, rpc>>
    BY <1>5 DEF Notify
  <2>2. NoneBegins
    BY <1>0, <2>1, Types DEF NoneBegins, Committing, Binding
  <2>. QED
    BY <2>1, <2>2, RowsStay DEF HostStep
<1>. QED
  BY <1>2, <1>3, <1>4, <1>5 DEF Finish

\* and so is the server's part of a call.
LEMMA AnswerHosts ==
  ASSUME HostInv, TypeInv', Serial, NEW a \in Agents, Answer(a)
  PROVE  HostInv' /\ HostStep
<1>0. TypeInv /\ rpc[a] \in CallType /\ \A r \in Routers : OneRow(r)
  BY Types DEF HostInv
<1>1. CASE Read(a)
  <2>1. PICK found : rpc' = [rpc EXCEPT ![a].pc = "replied", ![a].found = found]
    BY <1>1 DEF Read, ListRouters
  <2>2. UNCHANGED <<row, bound, agentUp, api>>
    BY <1>1 DEF Read, ListRouters
  <2>3. rpc'[a].pc # "bind" /\ \A b \in Agents \ {a} : rpc'[b] = rpc[b]
    <3> DEFINE c == [rpc[a] EXCEPT !.pc = "replied", !.found = found]
    <3>1. c.pc # "bind"
      BY <1>0 DEF CallType
    <3>2. rpc' = [rpc EXCEPT ![a] = c]
      BY <1>0, <2>1, Types
    <3>. HIDE DEF c
    <3>. QED
      BY <1>0, <3>1, <3>2, Types
  <2>4. NoneBegins
    BY <2>2, <2>3 DEF NoneBegins, Committing, Binding
  <2>. QED
    BY <2>2, <2>4, RowsStay DEF HostStep
<1>2. CASE AutoSchedule(a)
  <2> DEFINE unhosted == {r \in Routers : Here(r) /\ (IF rpc[a].ids = {} THEN Unbound(r)
                                           ELSE r \in rpc[a].ids /\ ~Hosted(r))}
             mine     == IF agentUp[a] THEN unhosted ELSE {}
             c        == [rpc[a] EXCEPT !.pc = IF mine = {} THEN "list" ELSE "bind", !.bind = mine]
  <2>1. c.bind = mine
    BY <1>0 DEF CallType
  <2>2. rpc' = [rpc EXCEPT ![a] = c]
    BY <1>0, <1>2, Types DEF AutoSchedule
  <2>3. MayBegin /\ UNCHANGED <<row, bound, agentUp, api>>
    BY <1>2 DEF AutoSchedule
  <2>4. ASSUME NEW r \in mine PROVE Here(r) /\ Unbound(r)
    <3>1. r \in Routers /\ Here(r) /\ (Unbound(r) \/ ~Hosted(r))
      BY <2>4
    <3>2. \A b \in Agents : bound[r][b] \in Nat
      BY <1>0, <3>1, Types
    <3>. QED
      BY <3>1, <3>2 DEF Hosted, SomeEnabled, Unbound, HostInv
  <2>. HIDE DEF mine, c
  <2>5. rpc'[a] = c /\ \A b \in Agents \ {a} : rpc'[b] = rpc[b]
    BY <1>0, <2>2, Types
  <2>6. \A w \in Workers : ~Committing(w)'
    BY <2>3, Serial DEF MayBegin, Committing
  <2>7. \A b \in Agents : Binding(b)' => b = a
    BY <2>3, <2>5, Serial DEF MayBegin, Binding
  <2>8. \A r \in mine : Here(r)' /\ Unbound(r)'
    BY <2>3, <2>4 DEF Here, Unbound
  <2>9. OneTransaction' /\ ReadsHold'
    BY <2>1, <2>5, <2>6, <2>7, <2>8 DEF OneTransaction, ReadsHold
  <2>10. UNCHANGED <<Lives, Hosts>> /\ \A r \in Routers : OneRow(r)'
    BY <1>0, <2>3 DEF Lives, Hosts, HostOf, OnlyRow, Unbound, OneRow, Here
  <2>. QED
    BY <2>3, <2>9, <2>10 DEF HostInv, HostStep
<1>3. CASE AutoBind(a)
  <2>1. PICK mine \in SUBSET Routers : mine = rpc[a].bind
    BY <1>0 DEF CallType
  <2>2. Binding(a) /\ \A r \in mine : Here(r) /\ Unbound(r)
    BY <1>3, <2>1 DEF AutoBind, Binding, HostInv, ReadsHold
  <2>3. /\ bound' = [r \in Routers |-> IF r \in mine THEN [bound[r] EXCEPT ![a] = @ + 1] ELSE bound[r]]
        /\ rpc' = [rpc EXCEPT ![a].pc = "list", ![a].bind = {}] /\ UNCHANGED <<row, agentUp, api>>
    BY <1>3, <2>1, <2>2 DEF AutoBind
  <2>4. (\A r \in Routers : OneRow(r)') /\ Hosting!Bind(mine, a)
    BY <2>2, <2>3, BindRouters
  <2>5. rpc'[a].pc = "list" /\ \A b \in Agents \ {a} : rpc'[b] = rpc[b]
    <3> DEFINE c == [rpc[a] EXCEPT !.pc = "list", !.bind = {}]
    <3>1. c.pc = "list"
      BY <1>0 DEF CallType
    <3>2. rpc' = [rpc EXCEPT ![a] = c]
      BY <1>0, <2>3, Types
    <3>. HIDE DEF c
    <3>. QED
      BY <1>0, <3>1, <3>2, Types
  <2>6. \A w \in Workers : ~Committing(w)'
    BY <2>2, <2>3 DEF HostInv, OneTransaction, Committing
  <2>7. \A b \in Agents : ~Binding(b)'
    BY <2>2, <2>5 DEF HostInv, OneTransaction, Binding
  <2>8. OneTransaction' /\ ReadsHold'
    BY <2>6, <2>7 DEF OneTransaction, ReadsHold
  <2>. QED
    BY <2>3, <2>4, <2>8 DEF HostInv, HostStep, Hosting!Next
<1>. QED
  BY <1>1, <1>2, <1>3, Zenon DEF Answer

\* Every step is one, or leaves lives and hosts alone.
LEMMA NextHosts ==
  ASSUME HostInv, Serial, "update_agent" \notin Operations, [Next]_vars
  PROVE  HostInv' /\ HostStep
<1>1. TypeInv'
  BY NextType DEF HostInv
<1>2. CASE Accepted \/ Served
  BY <1>1, <1>2, RequestHosts, FinishHosts, Zenon DEF Accepted, Served
<1>3. CASE Answered
  BY <1>1, <1>3, AnswerHosts DEF Answered
<1>4. ASSUME NEW a \in Agents, Run(a) \/ Fail(a) \/ LooksDown(a) PROVE HostInv' /\ HostStep
  BY <1>1, <1>4, AgentBeginsNone, RowsStay DEF HostStep
<1>5. CASE UNCHANGED vars
  <2>1. UNCHANGED <<row, bound, agentUp, api, rpc>>
    BY <1>5 DEF vars, serverVars
  <2>2. NoneBegins
    BY <2>1 DEF NoneBegins, Committing, Binding
  <2>. QED
    BY <1>1, <2>1, <2>2, RowsStay DEF HostStep
<1>. QED
  BY <1>2, <1>3, <1>4, <1>5, Zenon DEF Next

\* At the start no router exists.
LEMMA InitHosts == Init => HostInv /\ Hosting!Init
<1>. SUFFICES ASSUME Init PROVE HostInv /\ Hosting!Init
  OBVIOUS
<1>1. TypeInv
  BY InitType
<1>2. \A r \in Routers : Unbound(r) /\ row[r].life = "new"
  BY DEF Init, ServerInit, Unbound
<1>3. (\A w \in Workers : ~Committing(w)) /\ (\A a \in Agents : ~Binding(a) /\ agentUp[a])
  BY DEF Init, ServerInit, Committing, Binding, NoRequest, NoCall
<1>4. \A r \in Routers : HostOf(r) = None
  BY <1>2 DEF HostOf
<1>. QED
  BY <1>1, <1>2, <1>3, <1>4, NoTransaction DEF HostInv, OneRow, Hosting!Init

\* With one transaction at a time, and while no operator disables an agent, the routers
\* of the server and their hosts go as RouterHosting says: one is bound only when it
\* exists and has no host, to one agent, and its host goes with it, though a request and
\* the sync_routers of an agent may both be about to bind it.
THEOREM SerialFollowsHosting ==
  ASSUME Serial, "update_agent" \notin Operations
  PROVE  Spec => FollowsHosting
<1>1. HostInv /\ [Next]_vars => HostInv'
  BY NextHosts, Serial
<1>2. HostInv /\ [Next]_vars =>
        [Hosting!Next]_<<[r \in Routers |-> row[r].life], [r \in Routers |-> HostOf(r)]>>
  BY NextHosts, Serial DEF HostStep, Lives, Hosts
<1>. QED
  BY <1>1, <1>2, InitHosts, PTL DEF Spec, FollowsHosting, Hosting!Spec
=============================================================================
