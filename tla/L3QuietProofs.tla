---------------------------- MODULE L3QuietProofs ----------------------------
(***************************************************************************)
(* That every host forwards what the server lists when nothing is left to  *)
(* do (QuietIsHosted), for every number of routers, agents, requests,      *)
(* lost answers and crashes.                                               *)
(***************************************************************************)
EXTENDS L3RoutingProofs

\* What the proof needs of the system, and the run l3_serial gives its constants: one
\* transaction of the server at a time; no operator disables an agent or takes a router
\* from one; a router's configuration never fails; an agent that runs reports in time;
\* and namespaces from before a start are deleted.
Steady ==
  /\ Serial /\ CleanStale
  /\ "remove_from_agent" \notin Operations /\ "update_agent" \notin Operations
  /\ MaxConfigFailures = 0 /\ MaxLateHeartbeats = 0

-----------------------------------------------------------------------------
(* What is still to happen to a router on a host.                          *)

\* A message is in a queue.
Queued(m, q) == \E i \in 1..Len(q) : q[i] = m

\* What an agent is told when r has changed, and when it is gone.
UpdateOf(r)   == [kind |-> "updated", router |-> r]
DeletionOf(r) == [kind |-> "deleted", router |-> r]

\* The router is gone, or its deletion is about to commit.
Doomed(r) ==
  \/ row[r].life = "gone"
  \/ \E w \in Workers : Committing(w) /\ api[w].op = "delete" /\ api[w].router = r

\* What the host of a should forward for r when all is done.
Target(a, r) == IF Doomed(r) THEN 0 ELSE SyncData(a)[r]

\* What the task of an agent is at: its call was answered, it deletes r, it has the
\* answer of a sync or of an update of r, it has yet to get that.
Replied(a)     == rpc[a].pc = "replied"
Deleting(a, r) == loop[a].pc = "deleting" /\ r \in loop[a].ids
Syncing(a)     == loop[a].pc = "syncing" /\ Replied(a)
Updating(a, r) == loop[a].pc = "updating" /\ r \in loop[a].ids /\ Replied(a)
Asking(a, r)   == loop[a].pc = "updating" /\ r \in loop[a].ids /\ ~Replied(a)

\* What it will forward when the task under way is done.
Shown(a, r) ==
  IF Deleting(a, r) THEN 0
  ELSE IF Syncing(a) \/ Updating(a, r) THEN rpc[a].found[r] ELSE forwards[a][r]

\* The agent has still to read the server's data of the router.
WillRead(a, r) ==
  \/ ~running[a] \/ (fullsync[a] /\ ~Syncing(a)) \/ Asking(a, r)
  \/ r \in updated[a] \/ Queued(UpdateOf(r), inbox[a])

\* It has still to take up that the router is deleted.
WillDrop(a, r) == Queued(DeletionOf(r), inbox[a]) \/ (r \in removed[a] /\ ~Deleting(a, r))

\* A request has bound the router to the agent, and has still to tell it.
WillTell(a, r) ==
  \E w \in Workers : api[w].pc = "notify" /\ api[w].router = r /\ api[w].agent = a

\* The request changes what the agent is to be told of its router.
Concerns(q, a) == q.op = "change" /\ (q.agent = a \/ bound[q.router][a] > 0)

-----------------------------------------------------------------------------
(* The inductive invariant.                                                *)

\* Messages are of updates, or of routers that are deleted.
MessageOK(m) == m.kind = "updated" \/ (m.kind = "deleted" /\ Doomed(m.router))

\* An agent that runs is known to; a full sync comes when there are namespaces from before
\* the start or an answer that nobody will take; a task waits for any other answer, to a
\* call that binds only what it asks for.
AgentFacts(a) ==
  /\ running[a] => alive[a]
  /\ half[a] = {}
  /\ stale[a] => fullsync[a]
  /\ rpc[a].late => ~running[a] \/ fullsync[a]
  /\ rpc[a].pc # "idle" => rpc[a].late \/ loop[a].pc \in {"updating", "syncing"}
  /\ rpc[a].ids # {} => rpc[a].bind \subseteq rpc[a].ids
  /\ \A m \in Message : Queued(m, inbox[a]) => MessageOK(m)

\* A host forwards no router that its agent does not know, an answer brings only what was
\* asked for, a router leaves a host only when it is deleted or in the copy of the task;
\* and the host forwards what it should, or the agent will learn why not.
RouterFacts(a, r) ==
  /\ forwards[a][r] > 0 => r \in info[a] \/ stale[a] \/ ~running[a]
  /\ loop[a].pc = "updating" /\ Replied(a) /\ rpc[a].found[r] > 0 => r \in loop[a].ids
  /\ r \in removed[a] => Doomed(r) \/ Deleting(a, r)
  /\ Shown(a, r) = Target(a, r) \/ WillRead(a, r) \/ WillDrop(a, r) \/ WillTell(a, r)

\* Before a change commits, the agents it concerns are going to read it.
Expected(a) ==
  \A w \in Workers : Committing(w) /\ Concerns(api[w], a) => WillRead(a, api[w].router)

\* The only requests that tell after their commit are those that add a router.
OnlyAdds == \A w \in Workers : api[w].pc = "notify" => api[w].op = "add_to_agent"

\* The inductive invariant: this, and what the bindings and the tasks obey.
QuietInv ==
  /\ HostInv /\ TaskInv /\ OnlyAdds
  /\ \A a \in Agents : AgentFacts(a) /\ Expected(a) /\ \A r \in Routers : RouterFacts(a, r)

-----------------------------------------------------------------------------
(* Queues.                                                                 *)

\* A message is added at the end,
LEMMA QueuedAppend ==
  ASSUME NEW q \in Seq(Message), NEW m \in Message, NEW n
  PROVE  Queued(n, Append(q, m)) <=> Queued(n, q) \/ n = m
<1>1. /\ Len(Append(q, m)) = Len(q) + 1 /\ Append(q, m)[Len(q) + 1] = m /\ Len(q) \in Nat
      /\ \A i \in 1..Len(q) : Append(q, m)[i] = q[i]
  OBVIOUS
<1>. QED
  BY <1>1 DEF Queued

\* and taken at the head.
LEMMA QueuedTail ==
  ASSUME NEW q \in Seq(Message), q # <<>>, NEW n
  PROVE  Queued(n, q) <=> Queued(n, Tail(q)) \/ n = Head(q)
<1>1. /\ Len(Tail(q)) = Len(q) - 1 /\ Len(q) \in Nat \ {0} /\ Head(q) = q[1]
      /\ \A i \in 1..(Len(q) - 1) : Tail(q)[i] = q[i + 1]
  OBVIOUS
<1>2. ASSUME NEW i \in 1..Len(q), q[i] = n, i # 1 PROVE Queued(n, Tail(q))
  <2>1. i - 1 \in 1..(Len(q) - 1) /\ Tail(q)[i - 1] = n
    BY <1>1, <1>2
  <2>. QED
    BY <1>1, <2>1 DEF Queued
<1>3. ASSUME NEW i \in 1..Len(Tail(q)), Tail(q)[i] = n PROVE Queued(n, q)
  <2>1. i + 1 \in 1..Len(q) /\ q[i + 1] = n
    BY <1>1, <1>3
  <2>. QED
    BY <2>1 DEF Queued
<1>4. n = Head(q) => Queued(n, q)
  BY <1>1 DEF Queued
<1>. QED
  BY <1>1, <1>2, <1>3, <1>4 DEF Queued

\* What is left of a queue was in it.
LEMMA QueuedKept ==
  ASSUME NEW q \in Seq(Message), NEW n, Queued(n, NotFanout(q))
  PROVE  Queued(n, q)
<1> DEFINE S == {q[i] : i \in 1..Len(q)}
<1>1. q \in Seq(S)
  OBVIOUS
<1>2. NotFanout(q) \in Seq(S)
  <2>. HIDE DEF S
  <2>. QED
    BY <1>1, NotFanoutType
<1>3. \A i \in 1..Len(NotFanout(q)) : NotFanout(q)[i] \in S
  <2>. HIDE DEF S
  <2>. QED
    BY <1>2
<1>. QED
  BY <1>3 DEF Queued

\* A message that is cast reaches the queues it is cast to, and no other.
LEMMA QueuedCast ==
  ASSUME TypeInv, NEW m \in Message, NEW to, inbox' = Cast(m, to), NEW a \in Agents, NEW n
  PROVE  Queued(n, inbox'[a]) <=> Queued(n, inbox[a]) \/ (a \in to /\ n = m)
<1>1. inbox[a] \in Seq(Message)
  BY Types
<1>2. inbox'[a] = IF a \in to THEN Append(inbox[a], m) ELSE inbox[a]
  BY DEF Cast
<1>. QED
  BY <1>1, <1>2, QueuedAppend

-----------------------------------------------------------------------------
(* Steps of one agent.                                                     *)

\* All the invariant says of an agent depends on these.
Part(a) == <<running[a], alive[a], half[a], stale[a], fullsync[a], rpc[a], inbox[a], forwards[a],
             info[a], loop[a], removed[a], updated[a]>>

\* While the server's rows and requests stay, so does what they ask for.
LEMMA SameServer ==
  ASSUME UNCHANGED <<row, bound, agentUp, api>>
  PROVE  /\ \A r \in Routers : Doomed(r)' = Doomed(r)
         /\ \A a \in Agents, r \in Routers : /\ Target(a, r)' = Target(a, r)
                                             /\ WillTell(a, r)' = WillTell(a, r)
         /\ \A w \in Workers : Committing(w)' = Committing(w)
         /\ \A w \in Workers, a \in Agents : Concerns(api[w], a)' = Concerns(api[w], a)
         /\ \A m \in Message : MessageOK(m) => MessageOK(m)'
<1>1. \A r : Doomed(r)' = Doomed(r)
  BY DEF Doomed, Committing
<1>2. \A a \in Agents, r \in Routers : Target(a, r)' = Target(a, r)
  BY <1>1 DEF Target, SyncData, Here
<1>. QED
  BY <1>1, <1>2 DEF WillTell, Committing, Concerns, MessageOK

\* An agent of which nothing changes keeps what the invariant says of it.
LEMMA SameAgent ==
  ASSUME UNCHANGED <<row, bound, agentUp, api>>, NEW a \in Agents, Part(a)' = Part(a),
         AgentFacts(a), Expected(a), \A r \in Routers : RouterFacts(a, r),
         \A w \in Workers : Committing(w) => api[w].router \in Routers
  PROVE  AgentFacts(a)' /\ Expected(a)' /\ \A r \in Routers : RouterFacts(a, r)'
<1>1. /\ running'[a] = running[a] /\ alive'[a] = alive[a] /\ half'[a] = half[a]
      /\ stale'[a] = stale[a] /\ fullsync'[a] = fullsync[a] /\ rpc'[a] = rpc[a]
      /\ inbox'[a] = inbox[a] /\ forwards'[a] = forwards[a] /\ info'[a] = info[a]
      /\ loop'[a] = loop[a] /\ removed'[a] = removed[a] /\ updated'[a] = updated[a]
  BY DEF Part
<1>2. AgentFacts(a)'
  BY <1>1, SameServer DEF AgentFacts
<1>3. \A r \in Routers : /\ Shown(a, r)' = Shown(a, r) /\ WillRead(a, r)' = WillRead(a, r)
                         /\ WillDrop(a, r)' = WillDrop(a, r) /\ Deleting(a, r)' = Deleting(a, r)
                         /\ Replied(a)' = Replied(a)
  BY <1>1 DEF Shown, WillRead, WillDrop, Deleting, Syncing, Updating, Asking, Replied
<1>4. Expected(a)'
  BY <1>3, SameServer DEF Expected
<1>5. \A r \in Routers : RouterFacts(a, r)'
  BY <1>1, <1>3, SameServer DEF RouterFacts
<1>. QED
  BY <1>2, <1>4, <1>5

\* It is left to show what the step does to its own agent.
LEMMA AgentStep ==
  ASSUME QuietInv, NEW a \in Agents, UNCHANGED <<row, bound, agentUp, api>>, HostInv', TaskInv',
         \A b \in Agents \ {a} : Part(b)' = Part(b), AgentFacts(a)', \A r \in Routers : RouterFacts(a, r)',
         \/ \A w \in Workers : ~Committing(w)
         \/ \A r \in Routers : WillRead(a, r) => WillRead(a, r)'
  PROVE  QuietInv'
<1>1. \A w \in Workers : Committing(w) => api[w].router \in Routers
  BY DEF QuietInv, HostInv, TypeInv, RequestOK, Committing
<1>2. ASSUME NEW b \in Agents \ {a}
      PROVE  AgentFacts(b)' /\ Expected(b)' /\ \A r \in Routers : RouterFacts(b, r)'
  <2>1. Part(b)' = Part(b) /\ AgentFacts(b) /\ Expected(b) /\ \A r \in Routers : RouterFacts(b, r)
    BY DEF QuietInv
  <2>. QED
    BY <1>1, <2>1, SameAgent
<1>3. Expected(a)'
  <2>1. Expected(a)
    BY DEF QuietInv
  <2>. QED
    BY <1>1, <2>1, SameServer DEF Expected
<1>4. OnlyAdds'
  BY DEF QuietInv, OnlyAdds
<1>. QED
  BY <1>2, <1>3, <1>4 DEF QuietInv

\* A conjunct for the agent whose step it is.
LEMMA Mine ==
  ASSUME QuietInv, NEW a \in Agents
  PROVE  /\ TypeInv /\ TaskOf(a) /\ AgentFacts(a) /\ \A r \in Routers : RouterFacts(a, r)
         /\ inbox[a] \in Seq(Message) /\ rpc[a] \in CallType /\ loop[a] \in LoopType
         /\ removed[a] \in SUBSET Routers /\ updated[a] \in SUBSET Routers /\ info[a] \in SUBSET Routers
         /\ forwards[a] \in [Routers -> Nat] /\ rpc[a].found \in [Routers -> Nat]
         /\ fullsync[a] \in BOOLEAN /\ running[a] \in BOOLEAN /\ stale[a] \in BOOLEAN
         /\ rpc[a].late \in BOOLEAN
<1>1. TypeInv
  BY DEF QuietInv, HostInv
<1>. QED
  BY <1>1, Types, AgentTypes DEF QuietInv, TaskInv, CallType

\* No router fails to be configured.
LEMMA NeverFails ==
  ASSUME Steady, QuietInv, NEW a \in Agents
  PROVE  /\ ~Fault("config") /\ ~Fault("heartbeat")
         /\ \A bad, of : Failing(a, bad, of) => bad = {} /\ UNCHANGED faults
         /\ \A r \in Routers : ~DeleteFails(a, r)
         /\ \A r, done, made : ~AddFails(a, r, done, made)
<1>1. ~Fault("config") /\ ~Fault("heartbeat")
  <2>1. faults["config"] \in Nat /\ faults["heartbeat"] \in Nat
    BY AgentTypes DEF QuietInv, HostInv, FaultKinds
  <2>2. MaxFaults["config"] = 0 /\ MaxFaults["heartbeat"] = 0
    BY DEF MaxFaults, FaultKinds, Steady
  <2>. QED
    BY <2>1, <2>2 DEF Fault
<1>2. half[a] = {}
  BY DEF QuietInv, AgentFacts
<1>3. ASSUME NEW bad, NEW of, Failing(a, bad, of) PROVE bad = {} /\ UNCHANGED faults
  BY <1>1, <1>2, <1>3 DEF Failing
<1>4. \A r \in Routers : ~DeleteFails(a, r)
  BY <1>1, <1>2 DEF DeleteFails
<1>5. \A r, done, made : ~AddFails(a, r, done, made)
  BY <1>1 DEF AddFails
<1>. QED
  BY <1>1, <1>3, <1>4, <1>5

\* A message: an update stays among what the agent will read, a deletion among what it
\* will drop.
LEMMA DeliverQuiet ==
  ASSUME QuietInv, NEW a \in Agents, Deliver(a), HostInv', TaskInv'
  PROVE  QuietInv'
<1> DEFINE q == inbox[a]
<1>0. /\ TypeInv /\ AgentFacts(a) /\ (\A r \in Routers : RouterFacts(a, r)) /\ q \in Seq(Message)
      /\ q # <<>>
  BY Mine DEF Deliver
<1>1. PICK m : m = Head(q)
  OBVIOUS
<1>2. PICK r : r = m.router
  OBVIOUS
<1>3. PICK rest : rest = Tail(q)
  OBVIOUS
<1>4. m \in Message /\ Queued(m, q) /\ \A n : Queued(n, q) <=> Queued(n, rest) \/ n = m
  BY <1>0, <1>1, <1>3, HeadType, QueuedTail
<1>5. MessageOK(m)
  BY <1>0, <1>4 DEF AgentFacts
<1>6. /\ inbox' = [inbox EXCEPT ![a] = rest]
      /\ UNCHANGED <<row, bound, agentUp, alive, api, rpc, requests, info, half, forwards, stale,
                     loop, running, faults>>
  BY <1>0, <1>3, Types DEF Deliver
<1>7. inbox'[a] = rest
  BY <1>0, <1>6, Types
<1>8. UNCHANGED <<row, bound, agentUp, api>>
  BY <1>6
<1>9. ASSUME NEW b \in Agents \ {a} PROVE inbox'[b] = inbox[b]
  BY <1>0, <1>6, Types
<1>. HIDE DEF q
<1>10. CASE m.kind = "updated" /\ RoutersUpdated(a, r) /\ UNCHANGED fullsync
  <2>1. r \in Routers /\ m = UpdateOf(r)
    BY <1>2, <1>4, <1>10 DEF Message, UpdateOf
  <2>2. updated'[a] = updated[a] \cup {r} /\ UNCHANGED removed
    BY <1>0, <1>10, AgentTypes DEF RoutersUpdated
  <2>3. \A b \in Agents \ {a} : Part(b)' = Part(b)
    BY <1>0, <1>6, <1>9, <1>10, AgentTypes DEF Part, RoutersUpdated
  <2>4. AgentFacts(a)'
    BY <1>0, <1>4, <1>6, <1>7, <1>8, <1>10, SameServer DEF AgentFacts, q
  <2>5. ASSUME NEW p \in Routers PROVE WillRead(a, p) => WillRead(a, p)'
    <3>1. Queued(UpdateOf(p), inbox[a]) => p = r \/ Queued(UpdateOf(p), inbox'[a])
      BY <1>4, <1>7, <2>1 DEF UpdateOf, q
    <3>. QED
      BY <1>6, <1>10, <2>2, <3>1 DEF WillRead, Asking, Syncing, Replied
  <2>6. ASSUME NEW p \in Routers PROVE RouterFacts(a, p)'
    <3>1. Queued(DeletionOf(p), inbox[a]) => Queued(DeletionOf(p), inbox'[a])
      BY <1>4, <1>7, <2>1 DEF UpdateOf, DeletionOf, q
    <3>2. WillDrop(a, p) => WillDrop(a, p)'
      BY <1>6, <2>2, <3>1 DEF WillDrop, Deleting
    <3>3. Shown(a, p)' = Shown(a, p) /\ Deleting(a, p)' = Deleting(a, p) /\ Replied(a)' = Replied(a)
      BY <1>6 DEF Shown, Deleting, Updating, Syncing, Replied
    <3>. QED
      BY <1>0, <1>6, <1>8, <2>2, <2>5, <3>2, <3>3, SameServer DEF RouterFacts
  <2>. QED
    BY <1>8, <2>3, <2>4, <2>5, <2>6, AgentStep
<1>11. CASE /\ m.kind = "deleted" /\ removed' = [removed EXCEPT ![a] = @ \cup {r}]
            /\ UNCHANGED <<updated, fullsync, owed>>
  <2>1. r \in Routers /\ m = DeletionOf(r)
    BY <1>2, <1>4, <1>11 DEF Message, DeletionOf
  <2>2. removed'[a] = removed[a] \cup {r}
    BY <1>0, <1>11, AgentTypes
  <2>3. \A b \in Agents \ {a} : Part(b)' = Part(b)
    BY <1>0, <1>6, <1>9, <1>11, AgentTypes DEF Part
  <2>4. AgentFacts(a)'
    BY <1>0, <1>4, <1>6, <1>7, <1>8, <1>11, SameServer DEF AgentFacts, q
  <2>5. ASSUME NEW p \in Routers PROVE WillRead(a, p) => WillRead(a, p)'
    <3>1. Queued(UpdateOf(p), inbox[a]) => Queued(UpdateOf(p), inbox'[a])
      BY <1>4, <1>7, <2>1 DEF UpdateOf, DeletionOf, q
    <3>. QED
      BY <1>6, <1>11, <3>1 DEF WillRead, Asking, Syncing, Replied
  <2>6. ASSUME NEW p \in Routers PROVE RouterFacts(a, p)'
    <3>1. Queued(DeletionOf(p), inbox[a]) => p = r \/ Queued(DeletionOf(p), inbox'[a])
      BY <1>4, <1>7, <2>1 DEF DeletionOf, q
    <3>2. Doomed(r) /\ Doomed(r)'
      BY <1>2, <1>5, <1>8, <1>11, <2>1, SameServer DEF MessageOK
    <3>3. Shown(a, p)' = Shown(a, p) /\ Deleting(a, p)' = Deleting(a, p) /\ Replied(a)' = Replied(a)
      BY <1>6 DEF Shown, Deleting, Updating, Syncing, Replied
    <3>4. WillDrop(a, p) => WillDrop(a, p)' \/ (p = r /\ Deleting(a, p)')
      BY <1>6, <2>2, <3>1, <3>3 DEF WillDrop
    <3>5. p = r /\ Deleting(a, p)' => Shown(a, p)' = Target(a, p)'
      BY <3>2 DEF Shown, Target
    <3>. QED
      BY <1>0, <1>6, <1>8, <2>2, <2>5, <3>2, <3>3, <3>4, <3>5, SameServer DEF RouterFacts
  <2>. QED
    BY <1>8, <2>3, <2>4, <2>5, <2>6, AgentStep
<1>12. m.kind \in {"updated", "deleted"}
  BY <1>5 DEF MessageOK
<1>. QED
  BY <1>1, <1>2, <1>10, <1>11, <1>12, Zenon DEF Deliver, q

\* A task begins.  What it will ask for was reported, or is everything; what it copies
\* is doomed.
LEMMA BeginQuiet ==
  ASSUME QuietInv, NEW a \in Agents, StartUpdates(a) \/ StartDeletes(a) \/ StartSync(a), HostInv', TaskInv'
  PROVE  QuietInv'
<1>0. /\ TypeInv /\ AgentFacts(a) /\ (\A r \in Routers : RouterFacts(a, r)) /\ running[a]
      /\ loop[a].pc = "idle" /\ rpc[a].pc = "idle"
  BY Mine DEF StartUpdates, StartDeletes, StartSync, MayLoop
<1>1. ASSUME NEW ids, NEW ids2, NEW p \in {"updating", "syncing"}, Ask(a, ids2),
             loop' = [loop EXCEPT ![a] = [pc |-> p, ids |-> ids]]
      PROVE  /\ ~Replied(a)' /\ ~rpc'[a].late /\ rpc'[a].bind = {}
             /\ loop'[a].pc = p /\ loop'[a].ids = ids
             /\ \A b \in Agents \ {a} : rpc'[b] = rpc[b] /\ loop'[b] = loop[b]
  <2> DEFINE new == [pc |-> "asked", ids |-> ids2, bind |-> {}, found |-> Absent, late |-> FALSE]
  <2>1. rpc' = [rpc EXCEPT ![a] = new] /\ new.pc # "replied" /\ new.late = FALSE /\ new.bind = {}
    BY <1>1 DEF Ask
  <2>. HIDE DEF new
  <2>. QED
    BY <1>0, <1>1, <2>1, Types, AgentTypes DEF Replied
<1>2. CASE StartUpdates(a)
  <2>1. /\ loop' = [loop EXCEPT ![a] = [pc |-> "updating", ids |-> updated[a]]]
        /\ updated' = [updated EXCEPT ![a] = {}] /\ Ask(a, updated[a])
        /\ UNCHANGED <<row, bound, agentUp, alive, api, inbox, requests,
                       info, half, forwards, removed, fullsync, stale, running, faults, owed>>
    BY <1>2 DEF StartUpdates
  <2>2. /\ ~Replied(a)' /\ ~rpc'[a].late /\ rpc'[a].bind = {} /\ loop'[a].pc = "updating" /\ loop'[a].ids = updated[a]
        /\ \A b \in Agents \ {a} : rpc'[b] = rpc[b] /\ loop'[b] = loop[b]
    BY <1>1, <2>1
  <2>3. \A b \in Agents \ {a} : Part(b)' = Part(b)
    BY <1>0, <2>1, <2>2, AgentTypes DEF Part
  <2>4. UNCHANGED <<row, bound, agentUp, api>>
    BY <2>1
  <2>5. AgentFacts(a)'
    BY <1>0, <2>1, <2>2, <2>4, SameServer DEF AgentFacts
  <2>6. ASSUME NEW r \in Routers PROVE WillRead(a, r) => WillRead(a, r)'
    BY <1>0, <2>1, <2>2 DEF WillRead, Asking, Syncing, Replied
  <2>7. ASSUME NEW r \in Routers PROVE RouterFacts(a, r)'
    <3>1. Shown(a, r)' = Shown(a, r) /\ Deleting(a, r)' = Deleting(a, r)
      BY <1>0, <2>1, <2>2 DEF Shown, Deleting, Updating, Syncing, Replied
    <3>2. WillDrop(a, r)' = WillDrop(a, r)
      BY <2>1, <3>1 DEF WillDrop
    <3>. QED
      BY <1>0, <2>1, <2>2, <2>4, <2>6, <3>1, <3>2, SameServer DEF RouterFacts
  <2>. QED
    BY <2>3, <2>4, <2>5, <2>6, <2>7, AgentStep
<1>3. CASE StartDeletes(a)
  <2>1. /\ loop' = [loop EXCEPT ![a] = [pc |-> "deleting", ids |-> removed[a]]]
        /\ UNCHANGED <<row, bound, agentUp, alive, api, rpc, inbox, requests, info, half, forwards, updated,
                       removed, fullsync, stale, running, faults, owed>>
    BY <1>3 DEF StartDeletes, serverVars
  <2>2. /\ loop'[a].pc = "deleting" /\ loop'[a].ids = removed[a]
        /\ \A b \in Agents \ {a} : loop'[b] = loop[b]
    BY <1>0, <2>1, AgentTypes
  <2>3. \A b \in Agents \ {a} : Part(b)' = Part(b)
    BY <2>1, <2>2 DEF Part
  <2>4. UNCHANGED <<row, bound, agentUp, api>>
    BY <2>1
  <2>5. AgentFacts(a)'
    BY <1>0, <2>1, <2>4, SameServer DEF AgentFacts
  <2>6. ASSUME NEW r \in Routers PROVE WillRead(a, r) => WillRead(a, r)'
    BY <1>0, <2>1, <2>2 DEF WillRead, Asking, Syncing, Replied
  <2>7. ASSUME NEW r \in Routers PROVE RouterFacts(a, r)'
    <3>1. ~Deleting(a, r)
      BY <1>0 DEF Deleting
    <3>2. r \notin removed[a] => Shown(a, r)' = Shown(a, r) /\ WillDrop(a, r)' = WillDrop(a, r)
      BY <1>0, <2>1, <2>2 DEF Shown, Deleting, Updating, Syncing, Replied, WillDrop
    <3>3. r \in removed[a] => Doomed(r) /\ Deleting(a, r)'
      BY <1>0, <2>2, <3>1 DEF RouterFacts, Deleting
    <3>4. r \in removed[a] => Shown(a, r)' = Target(a, r)'
      BY <2>4, <3>3, SameServer DEF Shown, Target
    <3>. QED
      BY <1>0, <2>1, <2>2, <2>4, <2>6, <3>2, <3>3, <3>4, SameServer DEF RouterFacts
  <2>. QED
    BY <2>3, <2>4, <2>5, <2>6, <2>7, AgentStep
<1>4. CASE StartSync(a)
  <2>1. /\ loop' = [loop EXCEPT ![a] = [pc |-> "syncing", ids |-> {}]]
        /\ updated' = [updated EXCEPT ![a] = {}] /\ removed' = [removed EXCEPT ![a] = {}] /\ Ask(a, {})
        /\ UNCHANGED <<row, bound, agentUp, alive, api, inbox, requests,
                       info, half, forwards, fullsync, stale, running, faults, owed>>
        /\ fullsync[a]
    BY <1>4 DEF StartSync
  <2>2. /\ ~Replied(a)' /\ ~rpc'[a].late /\ rpc'[a].bind = {} /\ loop'[a].pc = "syncing"
        /\ \A b \in Agents \ {a} : rpc'[b] = rpc[b] /\ loop'[b] = loop[b]
    BY <1>1, <2>1
  <2>3. \A b \in Agents \ {a} : Part(b)' = Part(b)
    BY <1>0, <2>1, <2>2, AgentTypes DEF Part
  <2>4. UNCHANGED <<row, bound, agentUp, api>>
    BY <2>1
  <2>5. AgentFacts(a)'
    BY <1>0, <2>1, <2>2, <2>4, SameServer DEF AgentFacts
  <2>6. ASSUME NEW r \in Routers PROVE WillRead(a, r)'
    BY <2>1, <2>2 DEF WillRead, Syncing, Replied
  <2>7. ASSUME NEW r \in Routers PROVE RouterFacts(a, r)'
    <3>1. removed'[a] = {}
      BY <1>0, <2>1, AgentTypes
    <3>. QED
      BY <1>0, <2>1, <2>2, <2>6, <3>1 DEF RouterFacts
  <2>. QED
    BY <2>3, <2>4, <2>5, <2>6, <2>7, AgentStep
<1>. QED
  BY <1>2, <1>3, <1>4

\* The answer to _rpc_loop: what it brings is what the host was going to forward, and what
\* it does not bring goes with what is to be removed, all of which is doomed.
LEMMA FinishUpdatesQuiet ==
  ASSUME Steady, QuietInv, NEW a \in Agents, NEW bad, FinishUpdates(a, bad), HostInv', TaskInv'
  PROVE  QuietInv'
<1>0. /\ TypeInv /\ AgentFacts(a) /\ (\A r \in Routers : RouterFacts(a, r)) /\ TaskOf(a)
      /\ rpc[a].found \in [Routers -> Nat] /\ forwards[a] \in [Routers -> Nat]
  BY Mine
<1> DEFINE more  == removed[a] \cup Missing(a)
           l     == IF more = {} THEN Resting ELSE [pc |-> "deleting", ids |-> more]
           shown == [r \in Routers |-> IF r \in Fetched(a) \ bad THEN rpc[a].found[r] ELSE forwards[a][r]]
<1>1. /\ running[a] /\ loop[a].pc = "updating" /\ Replied(a) /\ ~rpc[a].late /\ bad = {}
      /\ forwards' = [forwards EXCEPT ![a] = shown]
      /\ info' = [info EXCEPT ![a] = @ \cup Fetched(a)]
      /\ removed' = [removed EXCEPT ![a] = more] /\ loop' = [loop EXCEPT ![a] = l]
      /\ rpc' = [rpc EXCEPT ![a] = NoCall]
      /\ UNCHANGED <<row, bound, agentUp, alive, api, inbox, requests,
                     half, updated, fullsync, stale, running, owed>>
  BY <1>0, AgentTypes, NeverFails DEF FinishUpdates, Replied
<1>2. \A r \in Routers : r \in Fetched(a) <=> rpc[a].found[r] > 0
  BY DEF Fetched
<1>3. /\ loop'[a] = l /\ removed'[a] = more /\ rpc'[a] = NoCall /\ forwards'[a] = shown
      /\ info'[a] = info[a] \cup Fetched(a)
      /\ \A b \in Agents \ {a} : Part(b)' = Part(b)
  BY <1>0, <1>1, Types, AgentTypes DEF Part
<1>4. ~Replied(a)' /\ ~rpc'[a].late /\ rpc'[a].pc = "idle" /\ rpc'[a].bind = {}
  BY <1>3 DEF Replied, NoCall
<1>5. \A r \in Routers : Deleting(a, r)' <=> r \in more
  BY <1>3 DEF Deleting, Resting
<1>6. loop'[a].pc \notin {"updating", "syncing"}
  BY <1>3 DEF Resting
<1>7. UNCHANGED <<row, bound, agentUp, api>>
  BY <1>1
<1>8. AgentFacts(a)'
  BY <1>0, <1>1, <1>4, <1>7, SameServer DEF AgentFacts
<1>9. ASSUME NEW r \in Routers PROVE WillRead(a, r) => WillRead(a, r)'
  BY <1>1, <1>6 DEF WillRead, Asking, Syncing
<1>10. ASSUME NEW r \in Routers PROVE RouterFacts(a, r)'
  <2>1. ~Deleting(a, r) /\ RouterFacts(a, r)
    BY <1>0, <1>1 DEF Deleting
  <2>2. Shown(a, r)' = IF r \in more THEN 0 ELSE shown[r]
    BY <1>3, <1>5, <1>6 DEF Shown, Updating, Syncing
  <2>3. shown[r] = IF rpc[a].found[r] > 0 THEN rpc[a].found[r] ELSE forwards[a][r]
    BY <1>1, <1>2
  <2>4. rpc[a].found[r] \in Nat /\ forwards[a][r] \in Nat
    BY <1>0
  <2>5. Shown(a, r) = IF r \in loop[a].ids THEN rpc[a].found[r] ELSE forwards[a][r]
    BY <1>1, <2>1 DEF Shown, Updating, Syncing
  <2>6. r \in Missing(a) <=> r \in loop[a].ids /\ rpc[a].found[r] = 0
    BY <1>2, <2>4 DEF Missing
  <2>7. rpc[a].found[r] > 0 => r \in loop[a].ids
    BY <1>1, <2>1 DEF RouterFacts
  <2>8. r \notin removed[a] => Shown(a, r)' = Shown(a, r) /\ (WillDrop(a, r) => WillDrop(a, r)')
    <3>1. r \notin removed[a] => Shown(a, r)' = Shown(a, r)
      BY <2>2, <2>3, <2>4, <2>5, <2>6, <2>7
    <3>2. r \notin removed[a] => (WillDrop(a, r) => WillDrop(a, r)')
      BY <1>1 DEF WillDrop
    <3>. QED
      BY <3>1, <3>2
  <2>9. r \in removed[a] => Shown(a, r)' = Target(a, r)'
    <3>1. r \in removed[a] => Doomed(r)
      BY <2>1 DEF RouterFacts
    <3>. QED
      BY <1>7, <2>2, <3>1, SameServer DEF Target
  <2>10. /\ Shown(a, r)' = Target(a, r)' \/ WillRead(a, r)' \/ WillDrop(a, r)' \/ WillTell(a, r)'
         /\ r \in removed'[a] => Deleting(a, r)'
    BY <1>3, <1>5, <1>7, <1>9, <2>1, <2>8, <2>9, SameServer DEF RouterFacts
  <2>11. forwards'[a][r] > 0 => r \in info'[a] \/ stale'[a] \/ ~running'[a]
    BY <1>1, <1>2, <1>3, <2>1, <2>3 DEF RouterFacts
  <2>. QED
    BY <1>4, <1>6, <2>10, <2>11 DEF RouterFacts
<1>. QED
  BY <1>3, <1>7, <1>8, <1>9, <1>10, AgentStep

\* A router of the copy is deleted, and its host forwards it no more.
LEMMA DeleteQuiet ==
  ASSUME QuietInv, NEW a \in Agents, NEW d \in Routers, DeleteOne(a, d), HostInv', TaskInv'
  PROVE  QuietInv'
<1>0. /\ TypeInv /\ AgentFacts(a) /\ (\A r \in Routers : RouterFacts(a, r)) /\ TaskOf(a)
      /\ forwards[a] \in [Routers -> Nat]
  BY Mine
<1> DEFINE l == IF loop[a].ids = {d} THEN Resting ELSE [pc |-> "deleting", ids |-> loop[a].ids \ {d}]
           x == IF d \in info[a] THEN 0 ELSE forwards[a][d]
<1>1. /\ running[a] /\ loop[a].pc = "deleting" /\ d \in loop[a].ids
      /\ info' = [info EXCEPT ![a] = @ \ {d}]
      /\ forwards' = [forwards EXCEPT ![a][d] = x]
      /\ removed' = [removed EXCEPT ![a] = @ \ {d}] /\ loop' = [loop EXCEPT ![a] = l]
      /\ UNCHANGED <<row, bound, agentUp, alive, api, rpc, inbox, requests,
                     half, updated, fullsync, stale, running, faults, owed>>
  BY <1>0, AgentTypes DEF DeleteOne, serverVars
<1>2. \/ l = Resting /\ loop[a].ids = {d}
      \/ l = [pc |-> "deleting", ids |-> loop[a].ids \ {d}]
  OBVIOUS
<1>. HIDE DEF l
<1>3. /\ loop'[a] = l /\ removed'[a] = removed[a] \ {d} /\ info'[a] = info[a] \ {d}
      /\ forwards'[a][d] = x /\ \A r \in Routers \ {d} : forwards'[a][r] = forwards[a][r]
      /\ \A b \in Agents \ {a} : Part(b)' = Part(b)
  BY <1>0, <1>1, AgentTypes DEF Part
<1>4. \A r \in Routers : Deleting(a, r)' <=> Deleting(a, r) /\ r # d
  BY <1>1, <1>2, <1>3 DEF Deleting, Resting
<1>5. loop'[a].pc \notin {"updating", "syncing"}
  BY <1>2, <1>3 DEF Resting
<1>6. UNCHANGED <<row, bound, agentUp, api>>
  BY <1>1
<1>7. AgentFacts(a)'
  BY <1>0, <1>1, <1>6, SameServer DEF AgentFacts
<1>8. ASSUME NEW r \in Routers PROVE WillRead(a, r) => WillRead(a, r)'
  BY <1>1, <1>5 DEF WillRead, Asking, Syncing
<1>9. ASSUME NEW r \in Routers \ {d} PROVE RouterFacts(a, r)'
  <2>1. RouterFacts(a, r)
    BY <1>0
  <2>2. Shown(a, r)' = Shown(a, r)
    BY <1>1, <1>3, <1>4, <1>5 DEF Shown, Updating, Syncing
  <2>3. WillDrop(a, r) => WillDrop(a, r)'
    BY <1>1, <1>3, <1>4 DEF WillDrop
  <2>. QED
    BY <1>1, <1>3, <1>4, <1>5, <1>6, <1>8, <2>1, <2>2, <2>3, SameServer DEF RouterFacts
<1>10. RouterFacts(a, d)'
  <2>1. RouterFacts(a, d) /\ Deleting(a, d)
    BY <1>0, <1>1 DEF Deleting
  <2>2. x = 0 \/ (stale[a] /\ fullsync[a])
    BY <1>0, <1>1, <2>1 DEF RouterFacts, AgentFacts
  <2>3. ~Deleting(a, d)' /\ Shown(a, d)' = x
    BY <1>3, <1>4, <1>5 DEF Shown, Updating, Syncing
  <2>4. Shown(a, d) = 0
    BY <2>1 DEF Shown
  <2>5. stale[a] /\ fullsync[a] => WillRead(a, d)'
    BY <1>1, <1>5 DEF WillRead, Syncing
  <2>6. WillDrop(a, d) => WillDrop(a, d)'
    BY <1>1, <2>1 DEF WillDrop
  <2>7. forwards'[a][d] > 0 => stale'[a]
    BY <1>1, <1>3, <2>2
  <2>. QED
    BY <1>3, <1>5, <1>6, <1>8, <2>1, <2>2, <2>3, <2>4, <2>5, <2>6, <2>7, SameServer DEF RouterFacts
<1>. QED
  BY <1>3, <1>6, <1>7, <1>8, <1>9, <1>10, AgentStep

\* The answer to a full sync is what the host forwards from then on.
LEMMA FinishSyncQuiet ==
  ASSUME Steady, QuietInv, NEW a \in Agents, NEW bad, FinishSync(a, bad), HostInv', TaskInv'
  PROVE  QuietInv'
<1>0. /\ TypeInv /\ AgentFacts(a) /\ (\A r \in Routers : RouterFacts(a, r)) /\ TaskOf(a)
      /\ rpc[a].found \in [Routers -> Nat] /\ forwards[a] \in [Routers -> Nat]
  BY Mine
<1> DEFINE gone  == info[a] \ Fetched(a)
           shown == [r \in Routers |-> IF r \in Fetched(a) THEN IF r \in bad THEN forwards[a][r] ELSE rpc[a].found[r]
                                       ELSE IF stale[a] \/ r \in gone \ bad THEN 0 ELSE forwards[a][r]]
<1>1. /\ running[a] /\ loop[a].pc = "syncing" /\ Replied(a) /\ ~rpc[a].late /\ bad = {}
      /\ info' = [info EXCEPT ![a] = Fetched(a) \cup (bad \cap gone)]
      /\ forwards' = [forwards EXCEPT ![a] = shown]
      /\ fullsync' = [fullsync EXCEPT ![a] = FALSE] /\ stale' = [stale EXCEPT ![a] = FALSE]
      /\ loop' = [loop EXCEPT ![a] = Resting] /\ rpc' = [rpc EXCEPT ![a] = NoCall]
      /\ UNCHANGED <<row, bound, agentUp, alive, api, inbox, requests, half, updated, removed, running, owed>>
  BY <1>0, AgentTypes, NeverFails DEF FinishSync, Replied
<1>2. /\ loop'[a] = Resting /\ rpc'[a] = NoCall /\ fullsync'[a] = FALSE /\ stale'[a] = FALSE
      /\ info'[a] = Fetched(a) /\ forwards'[a] = shown
      /\ \A b \in Agents \ {a} : Part(b)' = Part(b)
  BY <1>0, <1>1, Types, AgentTypes DEF Part
<1>3. \A r \in Routers : r \in Fetched(a) <=> rpc[a].found[r] > 0
  BY DEF Fetched
<1>4. ~Replied(a)' /\ ~rpc'[a].late /\ rpc'[a].pc = "idle" /\ rpc'[a].bind = {} /\ loop'[a].pc = "idle"
  BY <1>2 DEF Replied, NoCall, Resting
<1>5. UNCHANGED <<row, bound, agentUp, api>>
  BY <1>1
<1>6. AgentFacts(a)'
  BY <1>0, <1>1, <1>2, <1>4, <1>5, SameServer DEF AgentFacts
<1>7. Syncing(a)
  BY <1>1 DEF Syncing
<1>8. ASSUME NEW r \in Routers PROVE WillRead(a, r) => WillRead(a, r)'
  BY <1>1, <1>7 DEF WillRead, Asking
<1>9. ASSUME NEW r \in Routers PROVE RouterFacts(a, r)'
  <2>1. RouterFacts(a, r) /\ rpc[a].found[r] \in Nat /\ forwards[a][r] \in Nat
    BY <1>0
  <2>2. shown[r] = rpc[a].found[r]
    BY <1>1, <1>3, <2>1 DEF RouterFacts
  <2>3. ~Deleting(a, r) /\ ~Deleting(a, r)'
    BY <1>1, <1>4 DEF Deleting
  <2>4. Shown(a, r) = rpc[a].found[r] /\ Shown(a, r)' = shown[r]
    BY <1>2, <1>4, <1>7, <2>3 DEF Shown, Syncing, Updating
  <2>5. WillDrop(a, r)' = WillDrop(a, r)
    BY <1>1, <2>3 DEF WillDrop
  <2>6. forwards'[a][r] > 0 => r \in info'[a]
    BY <1>2, <1>3, <2>2
  <2>. QED
    BY <1>1, <1>4, <1>5, <1>8, <2>1, <2>2, <2>3, <2>4, <2>5, <2>6, SameServer DEF RouterFacts
<1>. QED
  BY <1>2, <1>5, <1>6, <1>8, <1>9, AgentStep

\* An agent that has stopped, or has to begin with a full sync, is going to read everything.
LEMMA ReadsAll ==
  ASSUME QuietInv, NEW a \in Agents, UNCHANGED <<row, bound, agentUp, api, forwards>>, HostInv', TaskInv',
         \A b \in Agents \ {a} : Part(b)' = Part(b), AgentFacts(a)',
         loop'[a] = Resting, ~running'[a] \/ fullsync'[a],
         removed'[a] \subseteq removed[a], \A r \in removed'[a] : ~Deleting(a, r) \/ Doomed(r),
         \A r \in Routers : forwards[a][r] > 0 => r \in info'[a] \/ stale'[a] \/ ~running'[a]
  PROVE  QuietInv'
<1>1. \A r \in Routers : WillRead(a, r)'
  BY DEF WillRead, Syncing, Resting
<1>2. ASSUME NEW r \in Routers PROVE RouterFacts(a, r)'
  <2>1. r \in removed'[a] => Doomed(r)'
    BY SameServer DEF QuietInv, RouterFacts
  <2>. QED
    BY <1>1, <2>1 DEF RouterFacts, Resting
<1>. QED
  BY <1>1, <1>2, AgentStep

\* A call that fails, a crash and a start: the agent will read everything.
LEMMA StopQuiet ==
  ASSUME Steady, QuietInv, NEW a \in Agents, CallFails(a) \/ Crash(a) \/ Start(a), HostInv', TaskInv'
  PROVE  QuietInv'
<1>0. /\ TypeInv /\ AgentFacts(a) /\ (\A r \in Routers : RouterFacts(a, r)) /\ TaskOf(a)
      /\ inbox[a] \in Seq(Message) /\ removed[a] \in SUBSET Routers /\ rpc[a] \in CallType
  BY Mine
<1>1. CASE CallFails(a)
  <2>1. PICK c : rpc' = [rpc EXCEPT ![a] = c] /\ (c = NoCall \/ c = [rpc[a] EXCEPT !.late = TRUE])
    BY <1>0, <1>1, Types DEF CallFails
  <2>a. (c.pc # "idle" => c.late) /\ (c.ids # {} => c.bind \subseteq c.ids)
    BY <1>0, <2>1 DEF NoCall, CallType, AgentFacts
  <2>2. /\ running[a] /\ loop[a].pc \in {"updating", "syncing"} /\ fullsync' = [fullsync EXCEPT ![a] = TRUE]
        /\ loop' = [loop EXCEPT ![a] = Resting]
        /\ UNCHANGED <<row, bound, agentUp, alive, api, inbox, requests, info, half, forwards, updated,
                       removed, stale, running, owed>>
    BY <1>1 DEF CallFails, Resync
  <2>3. loop'[a] = Resting /\ fullsync'[a] /\ rpc'[a] = c /\ \A b \in Agents \ {a} : Part(b)' = Part(b)
    BY <1>0, <2>1, <2>2, Types, AgentTypes DEF Part
  <2>4. UNCHANGED <<row, bound, agentUp, api, forwards>>
    BY <2>2
  <2>5. AgentFacts(a)'
    BY <1>0, <2>a, <2>2, <2>3, <2>4, SameServer DEF AgentFacts
  <2>6. \A r \in Routers : ~Deleting(a, r)
    BY <2>2 DEF Deleting
  <2>7. \A r \in Routers : forwards[a][r] > 0 => r \in info'[a] \/ stale'[a] \/ ~running'[a]
    BY <1>0, <2>2 DEF RouterFacts
  <2>8. removed'[a] = removed[a]
    BY <2>2
  <2>. QED
    BY <1>0, <2>3, <2>4, <2>5, <2>6, <2>7, <2>8, ReadsAll
<1>2. CASE Crash(a)
  <2>1. PICK c : rpc' = [rpc EXCEPT ![a] = c] /\ (c = NoCall \/ c = [rpc[a] EXCEPT !.late = TRUE])
    BY <1>0, <1>2, Types DEF Crash
  <2>a. (c.pc # "idle" => c.late) /\ (c.ids # {} => c.bind \subseteq c.ids)
    BY <1>0, <2>1 DEF NoCall, CallType, AgentFacts
  <2>2. /\ loop' = [loop EXCEPT ![a] = Resting] /\ running' = [running EXCEPT ![a] = FALSE]
        /\ info' = [info EXCEPT ![a] = {}] /\ half' = [half EXCEPT ![a] = {}]
        /\ updated' = [updated EXCEPT ![a] = {}] /\ removed' = [removed EXCEPT ![a] = {}]
        /\ UNCHANGED <<row, bound, agentUp, alive, api, inbox, requests, forwards, fullsync, stale>>
    BY <1>2 DEF Crash
  <2>3. /\ loop'[a] = Resting /\ ~running'[a] /\ half'[a] = {} /\ removed'[a] = {}
        /\ rpc'[a] = c /\ \A b \in Agents \ {a} : Part(b)' = Part(b)
    BY <1>0, <2>1, <2>2, Types, AgentTypes DEF Part
  <2>4. UNCHANGED <<row, bound, agentUp, api, forwards>>
    BY <2>2
  <2>5. AgentFacts(a)'
    BY <1>0, <2>a, <2>2, <2>3, <2>4, SameServer DEF AgentFacts
  <2>. QED
    BY <1>0, <2>3, <2>4, <2>5, ReadsAll
<1>3. CASE Start(a)
  <2>1. PICK rest : rest = NotFanout(inbox[a])
    OBVIOUS
  <2>2. /\ ~running[a] /\ running' = [running EXCEPT ![a] = TRUE] /\ alive' = [alive EXCEPT ![a] = TRUE]
        /\ inbox' = [inbox EXCEPT ![a] = rest] /\ fullsync' = [fullsync EXCEPT ![a] = TRUE]
        /\ stale' = [stale EXCEPT ![a] = TRUE]
        /\ UNCHANGED <<row, bound, agentUp, api, rpc, requests, info, half, forwards, updated, removed, loop,
                       faults, owed>>
    BY <1>0, <1>3, <2>1, CleanStaleAssumption, Types DEF Start, Steady
  <2>3. /\ alive'[a] /\ inbox'[a] = rest /\ fullsync'[a] /\ stale'[a]
        /\ \A b \in Agents \ {a} : Part(b)' = Part(b)
    BY <1>0, <2>2, Types, AgentTypes DEF Part
  <2>4. UNCHANGED <<row, bound, agentUp, api, forwards>>
    BY <2>2
  <2>5. \A m : Queued(m, rest) => Queued(m, inbox[a])
    BY <1>0, <2>1, QueuedKept
  <2>6. AgentFacts(a)'
    BY <1>0, <2>2, <2>3, <2>4, <2>5, SameServer DEF AgentFacts
  <2>7. loop[a] = Resting /\ \A r \in Routers : ~Deleting(a, r)
    BY <1>0, <2>2 DEF TaskOf, Deleting, Resting
  <2>8. loop'[a] = Resting /\ removed'[a] = removed[a]
    BY <2>2, <2>7
  <2>. QED
    BY <1>0, <2>3, <2>4, <2>6, <2>7, <2>8, ReadsAll
<1>. QED
  BY <1>1, <1>2, <1>3

\* What a call brings that timed out changes nothing, and neither does a report.
LEMMA IdleQuiet ==
  ASSUME Steady, QuietInv, NEW a \in Agents, DropAnswer(a) \/ LooksDown(a) \/ ReportState(a), HostInv', TaskInv'
  PROVE  QuietInv'
<1>0. /\ TypeInv /\ AgentFacts(a) /\ (\A r \in Routers : RouterFacts(a, r)) /\ TaskOf(a)
      /\ running[a] \in BOOLEAN
  BY Mine
<1>1. /\ UNCHANGED <<row, bound, agentUp, api, inbox, forwards, info, half, updated, removed, fullsync,
                     stale, loop, running>>
  BY DEF DropAnswer, LooksDown, ReportState, agentVars
<1>2. \/ UNCHANGED alive /\ rpc[a].late /\ rpc' = [rpc EXCEPT ![a] = NoCall]
      \/ UNCHANGED rpc /\ (running[a] => alive' = [alive EXCEPT ![a] = TRUE])
         /\ \E x : alive' = [alive EXCEPT ![a] = x]
  <2>1. ~Fault("heartbeat")
    BY NeverFails
  <2>. QED
    BY <2>1 DEF DropAnswer, LooksDown, ReportState
<1>3. \A b \in Agents \ {a} : Part(b)' = Part(b)
  BY <1>0, <1>1, <1>2, Types DEF Part
<1>4. \/ rpc[a].late /\ rpc'[a] = NoCall
      \/ UNCHANGED rpc
  BY <1>0, <1>2, Types
<1>5. rpc[a].late => loop[a].pc \notin {"updating", "syncing"}
  BY <1>0 DEF TaskOf, TaskOK, Waiting, Resting
<1>6. UNCHANGED <<row, bound, agentUp, api>>
  BY <1>1
<1>7. running'[a] => alive'[a]
  BY <1>0, <1>1, <1>2, Types DEF AgentFacts
<1>8. /\ rpc'[a].late => rpc[a].late
      /\ rpc'[a] = rpc[a] \/ (rpc'[a].pc = "idle" /\ rpc'[a].ids = {})
  BY <1>4 DEF NoCall
<1>9. AgentFacts(a)'
  BY <1>0, <1>1, <1>6, <1>7, <1>8, SameServer DEF AgentFacts
<1>10. ASSUME NEW r \in Routers
       PROVE  /\ WillRead(a, r)' = WillRead(a, r) /\ Shown(a, r)' = Shown(a, r)
              /\ WillDrop(a, r)' = WillDrop(a, r) /\ Deleting(a, r)' = Deleting(a, r)
  BY <1>1, <1>4, <1>5 DEF WillRead, Shown, WillDrop, Deleting, Asking, Syncing, Updating, Replied
<1>11. ASSUME NEW r \in Routers PROVE RouterFacts(a, r)'
  <2>1. RouterFacts(a, r)
    BY <1>0
  <2>2. loop'[a].pc = "updating" /\ Replied(a)' => Replied(a) /\ rpc'[a].found[r] = rpc[a].found[r]
    BY <1>1, <1>4, <1>5 DEF Replied
  <2>. QED
    BY <1>1, <1>6, <1>10, <2>1, <2>2, SameServer DEF RouterFacts
<1>. QED
  BY <1>3, <1>6, <1>9, <1>10, <1>11, AgentStep

\* An answer lists what the server has now, when no transaction is open: what the host
\* should forward.
LEMMA ReadQuiet ==
  ASSUME Steady, QuietInv, NEW a \in Agents, Read(a), HostInv', TaskInv'
  PROVE  QuietInv'
<1>0. /\ TypeInv /\ AgentFacts(a) /\ (\A r \in Routers : RouterFacts(a, r)) /\ TaskOf(a)
      /\ rpc[a] \in CallType /\ SyncData(a) \in [Routers -> Nat]
  BY Mine, SyncDataType
<1> DEFINE found == [r \in Routers |-> IF rpc[a].ids = {} \/ r \in rpc[a].ids THEN SyncData(a)[r] ELSE 0]
           c     == [rpc[a] EXCEPT !.pc = "replied", !.found = found]
<1>1. /\ rpc[a].pc = "list" /\ rpc' = [rpc EXCEPT ![a] = c] /\ MayBegin
      /\ UNCHANGED <<row, bound, agentUp, alive, api, inbox, requests, info, half, forwards, updated,
                     removed, fullsync, stale, loop, running, faults>>
  BY <1>0, Types DEF Read, ListRouters
<1>2. c.pc = "replied" /\ c.found = found /\ c.late = rpc[a].late /\ c.ids = rpc[a].ids
      /\ c.bind = rpc[a].bind
  BY <1>0 DEF CallType
<1>. HIDE DEF c
<1>3. rpc'[a] = c /\ \A b \in Agents \ {a} : Part(b)' = Part(b)
  BY <1>0, <1>1, Types DEF Part
<1>4. \A w \in Workers : ~Committing(w)
  BY <1>1 DEF MayBegin, Committing, Steady
<1>5. UNCHANGED <<row, bound, agentUp, api>>
  BY <1>1
<1>6. AgentFacts(a)'
  BY <1>0, <1>1, <1>2, <1>3, <1>5, SameServer DEF AgentFacts
<1>7. ASSUME NEW r \in Routers PROVE RouterFacts(a, r)'
  <2>1. RouterFacts(a, r) /\ ~Replied(a) /\ Replied(a)' /\ Deleting(a, r)' = Deleting(a, r)
    BY <1>0, <1>1, <1>2, <1>3 DEF Replied, Deleting
  <2>2. Target(a, r) = SyncData(a)[r]
    BY <1>4 DEF Target, Doomed, SyncData, Here
  <2>3. CASE loop[a].pc = "syncing" \/ (loop[a].pc = "updating" /\ r \in loop[a].ids)
    <3>1. rpc[a].ids = {} \/ r \in rpc[a].ids
      BY <1>0, <2>3 DEF TaskOf, TaskOK, Resting
    <3>2. found[r] = SyncData(a)[r]
      BY <3>1
    <3>3. ~Deleting(a, r)' /\ (Syncing(a)' \/ Updating(a, r)')
      BY <1>1, <2>1, <2>3 DEF Deleting, Syncing, Updating
    <3>4. Shown(a, r)' = Target(a, r)
      BY <1>2, <1>3, <2>2, <3>2, <3>3 DEF Shown
    <3>. QED
      BY <1>1, <1>2, <1>3, <1>5, <2>1, <2>3, <3>1, <3>4, SameServer DEF RouterFacts
  <2>4. CASE ~ (loop[a].pc = "syncing" \/ (loop[a].pc = "updating" /\ r \in loop[a].ids))
    <3>1. Shown(a, r)' = Shown(a, r)
      BY <1>1, <2>1, <2>4 DEF Shown, Syncing, Updating
    <3>2. WillRead(a, r)' = WillRead(a, r) /\ WillDrop(a, r)' = WillDrop(a, r)
      BY <1>1, <2>1, <2>4 DEF WillRead, WillDrop, Syncing, Asking
    <3>3. loop[a].pc = "updating" => rpc[a].ids = loop[a].ids /\ loop[a].ids # {} /\ found[r] = 0
      BY <1>0, <2>4 DEF TaskOf, TaskOK, Resting
    <3>. QED
      BY <1>1, <1>2, <1>3, <1>5, <2>1, <3>1, <3>2, <3>3, SameServer DEF RouterFacts
  <2>. QED
    BY <2>3, <2>4
<1>. QED
  BY <1>3, <1>4, <1>5, <1>6, <1>7, AgentStep

-----------------------------------------------------------------------------
(* Steps of the server.                                                    *)

\* A step of the server that adds messages and answers no call: what it changes for an agent
\* the agent will read, drop or be told.
LEMMA ServerStep ==
  ASSUME QuietInv, HostInv', TaskInv', OnlyAdds', UNCHANGED agentVars, UNCHANGED alive,
         \A a \in Agents : \/ rpc'[a] = rpc[a]
                           \/ /\ rpc[a].pc \notin {"idle", "replied"} /\ rpc'[a].pc # "replied"
                              /\ rpc'[a].late = rpc[a].late /\ rpc'[a].ids = rpc[a].ids
                              /\ rpc[a].ids # {} => rpc'[a].bind \subseteq rpc[a].ids,
         \A a \in Agents, m \in Message : Queued(m, inbox[a]) => Queued(m, inbox'[a]),
         \A a \in Agents, m \in Message : Queued(m, inbox'[a]) => Queued(m, inbox[a]) \/ MessageOK(m)',
         \A r \in Routers : Doomed(r) => Doomed(r)',
         \A a \in Agents, r \in Routers :
           \/ Target(a, r)' = Target(a, r)
           \/ WillRead(a, r)' \/ WillDrop(a, r)' \/ WillTell(a, r)',
         \A a \in Agents, r \in Routers : WillTell(a, r) => WillTell(a, r)' \/ WillRead(a, r)',
         \A a \in Agents : Expected(a)'
  PROVE  QuietInv'
<1>1. UNCHANGED <<info, half, forwards, updated, removed, fullsync, stale, loop, running>>
  BY DEF agentVars
<1>2. \A m \in Message : MessageOK(m) => MessageOK(m)'
  BY DEF MessageOK, Message
<1>3. ASSUME NEW a \in Agents PROVE AgentFacts(a)'
  BY <1>1, <1>2 DEF QuietInv, AgentFacts
<1>4. \A r \in Routers : UpdateOf(r) \in Message /\ DeletionOf(r) \in Message
  BY DEF UpdateOf, DeletionOf, Message
<1>5. ASSUME NEW a \in Agents, NEW r \in Routers PROVE RouterFacts(a, r)'
  <2>1. RouterFacts(a, r)
    BY DEF QuietInv
  <2>2. /\ Shown(a, r)' = Shown(a, r) /\ Deleting(a, r)' = Deleting(a, r)
        /\ Replied(a)' = Replied(a) /\ (Replied(a)' => rpc'[a] = rpc[a])
    BY <1>1 DEF Shown, Deleting, Syncing, Updating, Replied
  <2>3. (WillRead(a, r) => WillRead(a, r)') /\ (WillDrop(a, r) => WillDrop(a, r)')
    BY <1>1, <1>4, <2>2 DEF WillRead, WillDrop, Syncing, Asking
  <2>. QED
    BY <1>1, <2>1, <2>2, <2>3 DEF RouterFacts
<1>. QED
  BY <1>3, <1>5 DEF QuietInv

\* What is the same for an agent when the rows of a router are.
LEMMA SameTarget ==
  ASSUME NEW r \in Routers, row'[r] = row[r], bound'[r] = bound[r], UNCHANGED agentUp,
         Doomed(r)' = Doomed(r)
  PROVE  \A a \in Agents : Target(a, r)' = Target(a, r)
BY DEF Target, SyncData, Here

\* Of the requests, one that creates a router concerns no agent,
LEMMA CreateQuiet ==
  ASSUME Steady, QuietInv, NEW w \in Workers, NEW r \in Routers, CreateRouter(w, r), UNCHANGED agentVars,
         HostInv', TaskInv'
  PROVE  QuietInv'
<1>0. TypeInv /\ OneRow(r)
  BY DEF QuietInv, HostInv
<1>1. /\ row[r].life = "new" /\ row' = [row EXCEPT ![r] = [life |-> "here", up |-> TRUE, rev |-> 1]]
      /\ UNCHANGED <<bound, agentUp, alive, api, rpc, inbox>>
  BY <1>0, Types DEF CreateRouter
<1>2. ASSUME NEW q \in Routers PROVE Doomed(q)' = Doomed(q)
  BY <1>0, <1>1, Types DEF Doomed, Committing
<1>3. ASSUME NEW q \in Routers, NEW a \in Agents PROVE Target(a, q)' = Target(a, q)
  <2>1. CASE q # r
    BY <1>0, <1>1, <1>2, <2>1, SameTarget, Types
  <2>2. CASE q = r
    <3>1. bound[r][a] = 0 /\ bound'[r][a] = 0
      BY <1>0, <1>1 DEF OneRow, Unbound, Here
    <3>. QED
      BY <2>2, <3>1 DEF Target, SyncData
  <2>. QED
    BY <2>1, <2>2
<1>4. \A a \in Agents, q \in Routers : /\ WillTell(a, q)' = WillTell(a, q)
                                       /\ WillRead(a, q)' = WillRead(a, q)
  BY <1>1 DEF WillTell, WillRead, Asking, Syncing, Replied, agentVars
<1>5. \A a \in Agents : Expected(a)'
  <2>1. \A v \in Workers : Committing(v) => api[v].router \in Routers
    BY <1>0 DEF TypeInv, RequestOK, Committing
  <2>. QED
    BY <1>1, <1>4, <2>1 DEF QuietInv, Expected, Concerns, Committing
<1>6. OnlyAdds'
  BY <1>1 DEF QuietInv, OnlyAdds
<1>. QED
  BY <1>1, <1>2, <1>3, <1>4, <1>5, <1>6, ServerStep

\* one that deletes a router tells every agent,
LEMMA StartDeleteQuiet ==
  ASSUME Steady, QuietInv, NEW w \in Workers, NEW r \in Routers, StartDelete(w, r), UNCHANGED agentVars,
         HostInv', TaskInv'
  PROVE  QuietInv'
<1>0. TypeInv
  BY DEF QuietInv, HostInv
<1> DEFINE q == [pc |-> "commit", op |-> "delete", router |-> r, agent |-> None]
<1>1. /\ api[w].pc = "idle" /\ api' = [api EXCEPT ![w] = q] /\ MayBegin
      /\ inbox' = Cast(DeletionOf(r), Agents)
      /\ UNCHANGED <<row, bound, agentUp, alive, rpc>>
  BY DEF StartDelete, Accept, DeletionOf
<1>2. q.pc = "commit" /\ q.op = "delete" /\ q.router = r
  OBVIOUS
<1>. HIDE DEF q
<1>3. api'[w] = q /\ \A v \in Workers \ {w} : api'[v] = api[v]
  BY <1>0, <1>1, Types
<1>4. \A v \in Workers : ~Committing(v)
  BY <1>1 DEF MayBegin, Committing, Steady
<1>5. DeletionOf(r) \in Message /\ \A p \in Routers : DeletionOf(p).router = p /\ DeletionOf(p).kind = "deleted"
  BY DEF DeletionOf, Message
<1>6. \A a \in Agents : \A n : Queued(n, inbox'[a]) <=> Queued(n, inbox[a]) \/ n = DeletionOf(r)
  BY <1>0, <1>1, <1>5, QueuedCast
<1>7. Doomed(r)' /\ \A p \in Routers \ {r} : Doomed(p)' = Doomed(p)
  BY <1>1, <1>2, <1>3, <1>4 DEF Doomed, Committing
<1>8. \A a \in Agents, p \in Routers : Target(a, p)' = Target(a, p) \/ WillDrop(a, p)'
  <2>1. \A a \in Agents : WillDrop(a, r)'
    BY <1>6 DEF WillDrop
  <2>2. \A a \in Agents, p \in Routers \ {r} : Target(a, p)' = Target(a, p)
    BY <1>1, <1>7, SameTarget
  <2>. QED
    BY <2>1, <2>2
<1>9. \A a \in Agents, p \in Routers : WillTell(a, p) => WillTell(a, p)'
  BY <1>1, <1>3 DEF WillTell
<1>10. \A a \in Agents : Expected(a)'
  BY <1>2, <1>3, <1>4 DEF Expected, Concerns, Committing
<1>11. OnlyAdds'
  BY <1>2, <1>3 DEF QuietInv, OnlyAdds
<1>12. MessageOK(DeletionOf(r))'
  BY <1>5, <1>7 DEF MessageOK
<1>13. \A p \in Routers : Doomed(p) => Doomed(p)'
  BY <1>7
<1>. QED
  BY <1>1, <1>6, <1>8, <1>9, <1>10, <1>11, <1>12, <1>13, ServerStep

\* one that changes a router tells the agents it concerns: those that are not told do not run,
LEMMA StartChangeQuiet ==
  ASSUME Steady, QuietInv, NEW w \in Workers, NEW r \in Routers, NEW x \in Agents \cup {None},
         StartChange(w, r, x), UNCHANGED agentVars, HostInv', TaskInv'
  PROVE  QuietInv'
<1>0. TypeInv /\ \A a \in Agents : agentUp[a] /\ AgentFacts(a)
  BY DEF QuietInv, HostInv
<1> DEFINE q == [pc |-> "commit", op |-> "change", router |-> r, agent |-> x]
<1>1. /\ api[w].pc = "idle" /\ api' = [api EXCEPT ![w] = q] /\ MayBegin
      /\ inbox' = Cast(UpdateOf(r), Told(r, x))
      /\ UNCHANGED <<row, bound, agentUp, alive, rpc>>
  BY DEF StartChange, Accept, UpdateOf
<1>2. q.pc = "commit" /\ q.op = "change" /\ q.router = r /\ q.agent = x
  OBVIOUS
<1>. HIDE DEF q
<1>3. api'[w] = q /\ \A v \in Workers \ {w} : api'[v] = api[v]
  BY <1>0, <1>1, Types
<1>4. \A v \in Workers : ~Committing(v)
  BY <1>1 DEF MayBegin, Committing, Steady
<1>5. UpdateOf(r) \in Message /\ UpdateOf(r).kind = "updated"
  BY DEF UpdateOf, Message
<1>6. \A a \in Agents : \A n : Queued(n, inbox'[a]) <=> Queued(n, inbox[a]) \/ (a \in Told(r, x) /\ n = UpdateOf(r))
  BY <1>0, <1>1, <1>5, QueuedCast
<1>7. \A p \in Routers : Doomed(p)' = Doomed(p)
  BY <1>1, <1>2, <1>3, <1>4 DEF Doomed, Committing
<1>8. \A a \in Agents, p \in Routers : Target(a, p)' = Target(a, p)
  BY <1>1, <1>7, SameTarget
<1>9. \A a \in Agents, p \in Routers : WillTell(a, p) => WillTell(a, p)'
  BY <1>1, <1>3 DEF WillTell
<1>10. ASSUME NEW a \in Agents, Concerns(q, a)' PROVE WillRead(a, r)'
  <2>1. a = x \/ bound[r][a] > 0
    BY <1>1, <1>2, <1>10 DEF Concerns
  <2>2. CASE alive[a]
    <3>1. a \in Told(r, x)
      BY <1>0, <2>1, <2>2 DEF Told, SomeEnabled
    <3>. QED
      BY <1>6, <3>1 DEF WillRead
  <2>3. CASE ~alive[a]
    BY <1>0, <2>3 DEF AgentFacts, WillRead, agentVars
  <2>. QED
    BY <2>2, <2>3
<1>11. \A a \in Agents : Expected(a)'
  BY <1>2, <1>3, <1>4, <1>10 DEF Expected, Concerns, Committing
<1>12. OnlyAdds'
  BY <1>2, <1>3 DEF QuietInv, OnlyAdds
<1>13. MessageOK(UpdateOf(r))'
  BY <1>5 DEF MessageOK
<1>. QED
  BY <1>1, <1>6, <1>7, <1>8, <1>9, <1>11, <1>12, <1>13, ServerStep

\* and one that adds a router to an agent tells it after the commit.
LEMMA StartAddQuiet ==
  ASSUME Steady, QuietInv, NEW w \in Workers, NEW r \in Routers, NEW x \in Agents,
         StartAdd(w, r, x), UNCHANGED agentVars, HostInv', TaskInv'
  PROVE  QuietInv'
<1>0. TypeInv
  BY DEF QuietInv, HostInv
<1> DEFINE q == [pc |-> "commit", op |-> "add_to_agent", router |-> r, agent |-> x]
<1>1. /\ api[w].pc = "idle" /\ api' = [api EXCEPT ![w] = q] /\ MayBegin
      /\ UNCHANGED <<row, bound, agentUp, alive, rpc, inbox>>
  BY DEF StartAdd, Accept
<1>2. q.pc = "commit" /\ q.op = "add_to_agent"
  OBVIOUS
<1>. HIDE DEF q
<1>3. api'[w] = q /\ \A v \in Workers \ {w} : api'[v] = api[v]
  BY <1>0, <1>1, Types
<1>4. \A v \in Workers : ~Committing(v)
  BY <1>1 DEF MayBegin, Committing, Steady
<1>5. \A p \in Routers : Doomed(p)' = Doomed(p)
  BY <1>1, <1>2, <1>3, <1>4 DEF Doomed, Committing
<1>6. \A a \in Agents, p \in Routers : Target(a, p)' = Target(a, p)
  BY <1>1, <1>5, SameTarget
<1>7. \A a \in Agents, p \in Routers : WillTell(a, p) => WillTell(a, p)'
  BY <1>1, <1>3 DEF WillTell
<1>8. \A a \in Agents : Expected(a)'
  BY <1>2, <1>3, <1>4 DEF Expected, Concerns, Committing
<1>9. OnlyAdds'
  BY <1>2, <1>3 DEF QuietInv, OnlyAdds
<1>. QED
  BY <1>1, <1>5, <1>6, <1>7, <1>8, <1>9, ServerStep

\* A change commits: whom it concerns will read it.
LEMMA CommitChangeQuiet ==
  ASSUME QuietInv, NEW w \in Workers, NEW up \in BOOLEAN, CommitChange(w, up), UNCHANGED agentVars,
         HostInv', TaskInv'
  PROVE  QuietInv'
<1>0. TypeInv /\ OneTransaction /\ RequestOK(api[w]) /\ api[w] \in RequestType /\ \A a \in Agents : Expected(a)
  BY Types DEF QuietInv, HostInv, TypeInv
<1>1. PICK r \in Routers, x \in Agents \cup {None} : r = api[w].router /\ x = api[w].agent
  BY <1>0 DEF CommitChange, RequestOK, RequestType
<1>2. /\ Committing(w) /\ api[w].op = "change"
      /\ row' = [row EXCEPT ![r].up = up, ![r].rev = @ + 1]
      /\ bound' = IF x = None THEN bound ELSE [bound EXCEPT ![r][x] = @ + 1]
      /\ api' = [api EXCEPT ![w] = NoRequest]
      /\ UNCHANGED <<agentUp, alive, rpc, inbox>>
  BY <1>1 DEF CommitChange, Committing
<1>3. /\ \A q \in Routers : row'[q].life = row[q].life
      /\ \A q \in Routers \ {r} : row'[q] = row[q] /\ bound'[q] = bound[q]
      /\ \A a \in Agents : a # x => bound'[r][a] = bound[r][a]
      /\ \A a \in Agents : bound[r][a] \in Nat
      /\ api'[w] = NoRequest /\ \A v \in Workers \ {w} : api'[v] = api[v]
  BY <1>0, <1>2, NoneAssumption, Types
<1>4. \A v \in Workers : ~Committing(v)' /\ (Committing(v) => v = w)
  BY <1>0, <1>2, <1>3 DEF OneTransaction, Committing, NoRequest
<1>5. \A q \in Routers : Doomed(q)' = Doomed(q)
  BY <1>2, <1>3, <1>4 DEF Doomed
<1>6. \A a \in Agents, q \in Routers : WillRead(a, q) => WillRead(a, q)'
  BY <1>2 DEF WillRead, Asking, Syncing, Replied, agentVars
<1>7. ASSUME NEW a \in Agents, NEW q \in Routers PROVE Target(a, q)' = Target(a, q) \/ WillRead(a, q)'
  <2>1. CASE q # r
    BY <1>2, <1>3, <1>5, <2>1, SameTarget
  <2>2. CASE q = r /\ Concerns(api[w], a)
    BY <1>0, <1>1, <1>2, <1>6, <2>2 DEF Expected
  <2>3. CASE q = r /\ ~Concerns(api[w], a)
    <3>1. a # x /\ bound[r][a] = 0
      BY <1>1, <1>2, <1>3, <2>3 DEF Concerns
    <3>. QED
      BY <1>3, <2>3, <3>1 DEF Target, SyncData
  <2>. QED
    BY <2>1, <2>2, <2>3
<1>8. \A a \in Agents, q \in Routers : WillTell(a, q) => WillTell(a, q)'
  BY <1>2, <1>3 DEF WillTell, Committing
<1>9. \A a \in Agents : Expected(a)'
  BY <1>4 DEF Expected
<1>10. OnlyAdds'
  BY <1>3 DEF QuietInv, OnlyAdds, NoRequest
<1>. QED
  BY <1>2, <1>5, <1>7, <1>8, <1>9, <1>10, ServerStep

\* A deletion commits: the router was doomed, and is gone.
LEMMA CommitDeleteQuiet ==
  ASSUME QuietInv, NEW w \in Workers, CommitDelete(w), UNCHANGED agentVars, HostInv', TaskInv'
  PROVE  QuietInv'
<1>0. TypeInv /\ OneTransaction /\ RequestOK(api[w])
  BY DEF QuietInv, HostInv, TypeInv
<1>1. PICK r \in Routers : r = api[w].router
  BY <1>0 DEF CommitDelete, RequestOK
<1>2. /\ Committing(w) /\ api[w].op = "delete" /\ row' = [row EXCEPT ![r].life = "gone"]
      /\ bound' = [bound EXCEPT ![r] = [a \in Agents |-> 0]] /\ api' = [api EXCEPT ![w] = NoRequest]
      /\ UNCHANGED <<agentUp, alive, rpc, inbox>>
  BY <1>1 DEF CommitDelete, Committing
<1>3. /\ row'[r].life = "gone" /\ \A q \in Routers \ {r} : row'[q] = row[q] /\ bound'[q] = bound[q]
      /\ api'[w] = NoRequest /\ \A v \in Workers \ {w} : api'[v] = api[v]
  BY <1>0, <1>2, Types
<1>4. \A v \in Workers : ~Committing(v)' /\ (Committing(v) => v = w)
  BY <1>0, <1>2, <1>3 DEF OneTransaction, Committing, NoRequest
<1>5. \A q \in Routers : Doomed(q)' = Doomed(q)
  BY <1>1, <1>2, <1>3, <1>4 DEF Doomed
<1>6. ASSUME NEW a \in Agents, NEW q \in Routers PROVE Target(a, q)' = Target(a, q)
  <2>1. CASE q # r
    BY <1>2, <1>3, <1>5, <2>1, SameTarget
  <2>2. CASE q = r
    BY <1>3, <1>5, <2>2 DEF Target, Doomed
  <2>. QED
    BY <2>1, <2>2
<1>7. \A a \in Agents, q \in Routers : WillTell(a, q) => WillTell(a, q)'
  BY <1>2, <1>3 DEF WillTell, Committing
<1>8. \A a \in Agents : Expected(a)'
  BY <1>4 DEF Expected
<1>9. OnlyAdds'
  BY <1>3 DEF QuietInv, OnlyAdds, NoRequest
<1>. QED
  BY <1>2, <1>5, <1>6, <1>7, <1>8, <1>9, ServerStep

\* A router is added to an agent, which is to be told,
LEMMA CommitAddQuiet ==
  ASSUME QuietInv, NEW w \in Workers, CommitAdd(w), UNCHANGED agentVars, HostInv', TaskInv'
  PROVE  QuietInv'
<1>0. TypeInv /\ OneTransaction /\ ReadsHold /\ RequestOK(api[w]) /\ api[w] \in RequestType
  BY Types DEF QuietInv, HostInv, TypeInv
<1>1. PICK r \in Routers, x \in Agents : r = api[w].router /\ x = api[w].agent
  BY <1>0 DEF CommitAdd, RequestOK
<1> DEFINE q == [api[w] EXCEPT !.pc = "notify"]
<1>2. Committing(w) /\ api[w].op = "add_to_agent" /\ Here(r)
  BY <1>0, <1>1 DEF CommitAdd, Committing, ReadsHold
<1>3. /\ bound' = [bound EXCEPT ![r][x] = @ + 1] /\ api' = [api EXCEPT ![w] = q]
      /\ UNCHANGED <<row, agentUp, alive, rpc, inbox>>
  BY <1>0, <1>1, <1>2, Types DEF CommitAdd
<1>4. q.pc = "notify" /\ q.op = "add_to_agent" /\ q.router = r /\ q.agent = x
  BY <1>0, <1>1, <1>2 DEF RequestType
<1>. HIDE DEF q
<1>5. /\ \A p \in Routers \ {r} : bound'[p] = bound[p]
      /\ \A a \in Agents \ {x} : bound'[r][a] = bound[r][a]
      /\ api'[w] = q /\ \A v \in Workers \ {w} : api'[v] = api[v]
  BY <1>0, <1>3, Types
<1>6. \A v \in Workers : ~Committing(v)' /\ (Committing(v) => v = w)
  BY <1>0, <1>2, <1>4, <1>5 DEF OneTransaction, Committing
<1>7. \A p \in Routers : Doomed(p)' = Doomed(p)
  BY <1>2, <1>3, <1>5, <1>6 DEF Doomed
<1>8. ASSUME NEW a \in Agents, NEW p \in Routers PROVE Target(a, p)' = Target(a, p) \/ WillTell(a, p)'
  <2>1. CASE p # r
    BY <1>3, <1>5, <1>7, <2>1, SameTarget
  <2>2. CASE p = r /\ a # x
    BY <1>3, <1>5, <1>7, <2>2 DEF Target, SyncData, Here
  <2>3. CASE p = r /\ a = x
    BY <1>4, <1>5, <2>3 DEF WillTell
  <2>. QED
    BY <2>1, <2>2, <2>3
<1>9. \A a \in Agents, p \in Routers : WillTell(a, p) => WillTell(a, p)'
  BY <1>2, <1>5 DEF WillTell, Committing
<1>10. \A a \in Agents : Expected(a)'
  BY <1>6 DEF Expected
<1>11. OnlyAdds'
  BY <1>4, <1>5 DEF QuietInv, OnlyAdds
<1>. QED
  BY <1>3, <1>7, <1>8, <1>9, <1>10, <1>11, ServerStep

\* and is told.
LEMMA NotifyQuiet ==
  ASSUME QuietInv, NEW w \in Workers, Notify(w), UNCHANGED agentVars, HostInv', TaskInv'
  PROVE  QuietInv'
<1>0. TypeInv /\ RequestOK(api[w]) /\ OnlyAdds
  BY DEF QuietInv, HostInv, TypeInv
<1>1. PICK r \in Routers, x \in Agents : r = api[w].router /\ x = api[w].agent
  BY <1>0 DEF Notify, RequestOK, OnlyAdds
<1>2. NotificationOf(api[w]) = UpdateOf(r)
  BY <1>0, <1>1 DEF Notify, OnlyAdds, NotificationOf, UpdateOf
<1>3. /\ api[w].pc = "notify" /\ inbox' = Cast(UpdateOf(r), {x}) /\ api' = [api EXCEPT ![w] = NoRequest]
      /\ UNCHANGED <<row, bound, agentUp, alive, rpc>>
  BY <1>1, <1>2 DEF Notify
<1>4. api'[w] = NoRequest /\ \A v \in Workers \ {w} : api'[v] = api[v]
  BY <1>0, <1>3, Types
<1>5. UpdateOf(r) \in Message /\ MessageOK(UpdateOf(r))'
  BY DEF UpdateOf, Message, MessageOK
<1>6. \A a \in Agents : \A n : Queued(n, inbox'[a]) <=> Queued(n, inbox[a]) \/ (a \in {x} /\ n = UpdateOf(r))
  BY <1>0, <1>3, <1>5, QueuedCast
<1>7. \A v \in Workers : Committing(v)' => Committing(v) /\ api'[v] = api[v]
  BY <1>4 DEF Committing, NoRequest
<1>8. \A p \in Routers : Doomed(p)' = Doomed(p)
  BY <1>3, <1>4 DEF Doomed, Committing, NoRequest
<1>9. \A a \in Agents, p \in Routers : Target(a, p)' = Target(a, p)
  BY <1>3, <1>8, SameTarget
<1>10. WillRead(x, r)'
  BY <1>6 DEF WillRead
<1>11. \A a \in Agents, p \in Routers : WillTell(a, p) => WillTell(a, p)' \/ WillRead(a, p)'
  BY <1>1, <1>4, <1>10 DEF WillTell
<1>12. ASSUME NEW a \in Agents PROVE Expected(a)'
  <2>1. \A p : WillRead(a, p) => WillRead(a, p)'
    BY <1>3, <1>6 DEF WillRead, Asking, Syncing, Replied, agentVars
  <2>2. Expected(a)
    BY DEF QuietInv
  <2>. QED
    BY <1>3, <1>7, <2>1, <2>2 DEF Expected, Concerns
<1>13. OnlyAdds'
  BY <1>4 DEF QuietInv, OnlyAdds, NoRequest
<1>. QED
  BY <1>3, <1>5, <1>6, <1>8, <1>9, <1>11, <1>12, <1>13, ServerStep

\* A call reads what to bind,
LEMMA ScheduleQuiet ==
  ASSUME Steady, QuietInv, NEW c \in Agents, AutoSchedule(c), UNCHANGED agentVars, HostInv', TaskInv'
  PROVE  QuietInv'
<1>0. TypeInv /\ rpc[c] \in CallType
  BY Types DEF QuietInv, HostInv
<1>1. PICK p \in {"list", "bind"}, mine \in SUBSET Routers :
        /\ rpc' = [rpc EXCEPT ![c].pc = p, ![c].bind = mine]
        /\ rpc[c].ids # {} => mine \subseteq rpc[c].ids
  <2> DEFINE unhosted == {r \in Routers : Here(r) /\ (IF rpc[c].ids = {} THEN Unbound(r)
                                           ELSE r \in rpc[c].ids /\ ~Hosted(r))}
             mine     == IF agentUp[c] THEN unhosted ELSE {}
  <2>1. rpc' = [rpc EXCEPT ![c].pc = IF mine = {} THEN "list" ELSE "bind", ![c].bind = mine]
    BY DEF AutoSchedule
  <2>2. mine \in SUBSET Routers /\ (rpc[c].ids # {} => mine \subseteq rpc[c].ids)
    OBVIOUS
  <2>. HIDE DEF mine
  <2>. QED
    BY <2>1, <2>2
<1> DEFINE new == [rpc[c] EXCEPT !.pc = p, !.bind = mine]
<1>2. new.pc = p /\ new.bind = mine /\ new.ids = rpc[c].ids /\ new.late = rpc[c].late
  BY <1>0 DEF CallType
<1>3. /\ rpc' = [rpc EXCEPT ![c] = new] /\ rpc[c].pc = "asked"
      /\ UNCHANGED <<row, bound, agentUp, alive, api, inbox, requests>>
  BY <1>0, <1>1, Types DEF AutoSchedule
<1>. HIDE DEF new
<1>4. \A a \in Agents : \/ rpc'[a] = rpc[a]
                        \/ /\ rpc[a].pc \notin {"idle", "replied"} /\ rpc'[a].pc # "replied"
                           /\ rpc'[a].late = rpc[a].late /\ rpc'[a].ids = rpc[a].ids
                           /\ rpc[a].ids # {} => rpc'[a].bind \subseteq rpc[a].ids
  BY <1>0, <1>1, <1>2, <1>3, Types
<1>5. UNCHANGED <<row, bound, agentUp, api>>
  BY <1>3
<1>6. ASSUME NEW a \in Agents PROVE Expected(a)'
  <2>1. \A r : WillRead(a, r) => WillRead(a, r)'
    BY <1>3, <1>4 DEF WillRead, Asking, Syncing, Replied, agentVars
  <2>. QED
    BY <1>3, <2>1 DEF QuietInv, Expected, Concerns, Committing
<1>7. OnlyAdds'
  BY <1>3 DEF QuietInv, OnlyAdds
<1>. QED
  BY <1>3, <1>4, <1>5, <1>6, <1>7, SameServer, ServerStep

\* and binds it: its agent has still to take the answer, or will do without.
LEMMA BindQuiet ==
  ASSUME QuietInv, NEW c \in Agents, AutoBind(c), UNCHANGED agentVars, HostInv', TaskInv'
  PROVE  QuietInv'
<1>0. TypeInv /\ rpc[c] \in CallType /\ TaskOf(c) /\ AgentFacts(c) /\ OneTransaction /\ ReadsHold
  BY Mine DEF QuietInv, HostInv
<1>1. PICK mine \in SUBSET Routers : mine = rpc[c].bind
  BY <1>0 DEF CallType
<1>2. Binding(c) /\ \A r \in mine : Here(r)
  BY <1>0, <1>1 DEF AutoBind, Binding, ReadsHold
<1> DEFINE new == [rpc[c] EXCEPT !.pc = "list", !.bind = {}]
<1>3. new.pc = "list" /\ new.bind = {} /\ new.ids = rpc[c].ids /\ new.late = rpc[c].late
  BY <1>0 DEF CallType
<1>4. /\ bound' = [r \in Routers |-> IF r \in mine THEN [bound[r] EXCEPT ![c] = @ + 1] ELSE bound[r]]
      /\ rpc' = [rpc EXCEPT ![c] = new] /\ UNCHANGED <<row, agentUp, alive, api, inbox, requests>>
  BY <1>0, <1>1, <1>2, Types DEF AutoBind
<1>. HIDE DEF new
<1>5. /\ rpc'[c] = new /\ \A a \in Agents \ {c} : rpc'[a] = rpc[a]
      /\ \A r \in Routers : r \notin mine => bound'[r] = bound[r]
      /\ \A r \in Routers, a \in Agents : a # c => bound'[r][a] = bound[r][a]
  BY <1>0, <1>4, Types
<1>6. \A a \in Agents : \/ rpc'[a] = rpc[a]
                        \/ /\ rpc[a].pc \notin {"idle", "replied"} /\ rpc'[a].pc # "replied"
                           /\ rpc'[a].late = rpc[a].late /\ rpc'[a].ids = rpc[a].ids
                           /\ rpc[a].ids # {} => rpc'[a].bind \subseteq rpc[a].ids
  BY <1>2, <1>3, <1>5 DEF Binding
<1>7. ASSUME NEW r \in mine PROVE WillRead(c, r)'
  <2>1. rpc[c].pc = "bind" /\ ~Replied(c)'
    BY <1>2, <1>3, <1>5 DEF Binding, Replied
  <2>2. CASE ~running[c] \/ fullsync[c]
    BY <2>1, <2>2 DEF WillRead, Syncing, agentVars
  <2>3. CASE running[c] /\ ~fullsync[c]
    <3>1. loop[c].pc = "updating"
      BY <1>0, <2>1, <2>3 DEF AgentFacts, TaskOf, TaskOK
    <3>2. r \in loop[c].ids
      BY <1>0, <1>1, <2>3, <3>1 DEF AgentFacts, TaskOf, TaskOK
    <3>. QED
      BY <2>1, <3>1, <3>2 DEF WillRead, Asking, agentVars
  <2>. QED
    BY <2>2, <2>3, <1>0, Mine
<1>8. \A w \in Workers : ~Committing(w) /\ ~Committing(w)'
  BY <1>0, <1>2, <1>4 DEF OneTransaction, Committing
<1>9. \A r \in Routers : Doomed(r)' = Doomed(r)
  BY <1>4, <1>8 DEF Doomed
<1>10. ASSUME NEW a \in Agents, NEW r \in Routers PROVE Target(a, r)' = Target(a, r) \/ WillRead(a, r)'
  <2>1. CASE r \notin mine
    BY <1>4, <1>5, <1>9, <2>1, SameTarget
  <2>2. CASE r \in mine /\ a = c
    BY <1>7, <2>2
  <2>3. CASE a # c
    BY <1>4, <1>5, <1>9, <2>3 DEF Target, SyncData, Here
  <2>. QED
    BY <2>1, <2>2, <2>3
<1>11. \A a \in Agents : Expected(a)'
  BY <1>8 DEF Expected
<1>12. OnlyAdds' /\ \A a \in Agents, r \in Routers : WillTell(a, r)' = WillTell(a, r)
  BY <1>4 DEF QuietInv, OnlyAdds, WillTell
<1>. QED
  BY <1>4, <1>6, <1>9, <1>10, <1>11, <1>12, ServerStep

-----------------------------------------------------------------------------
(* The theorem.                                                            *)

\* Every step keeps the invariant.
LEMMA NextQuiet == ASSUME Steady, QuietInv, [Next]_vars PROVE QuietInv'
<1>0. HostInv' /\ TaskInv'
  BY NextHosts, NextTask DEF QuietInv, Steady
<1>1. ASSUME NEW w \in Workers, Request(w), UNCHANGED agentVars PROVE QuietInv'
  <2>1. \A r \in Routers, a \in Agents : ~StartRemove(w, r, a) /\ ~StartUpdateAgent(w, a)
    BY DEF StartRemove, StartUpdateAgent, Accept, Steady
  <2>. QED
    BY <1>0, <1>1, <2>1, CreateQuiet, StartDeleteQuiet, StartChangeQuiet, StartAddQuiet DEF Request,
       StartUpdateAgent, Accept, Steady
<1>2. ASSUME NEW w \in Workers, Finish(w), UNCHANGED agentVars PROVE QuietInv'
  BY <1>0, <1>2, CommitChangeQuiet, CommitDeleteQuiet, CommitAddQuiet, NotifyQuiet DEF Finish
<1>3. ASSUME NEW a \in Agents, Answer(a) PROVE QuietInv'
  BY <1>0, <1>3, ReadQuiet, ScheduleQuiet, BindQuiet DEF Answer
<1>4. ASSUME NEW a \in Agents, Run(a) \/ Fail(a) \/ LooksDown(a) PROVE QuietInv'
  <2>1. CASE Loop(a)
    BY <1>0, <2>1, BeginQuiet, DeleteQuiet, FinishUpdatesQuiet, FinishSyncQuiet, Zenon DEF Loop
  <2>2. CASE Deliver(a) \/ StartSync(a)
    BY <1>0, <2>2, DeliverQuiet, BeginQuiet, Zenon
  <2>3. CASE CallFails(a) \/ Crash(a) \/ Start(a)
    BY <1>0, <2>3, StopQuiet
  <2>4. CASE DropAnswer(a) \/ ReportState(a) \/ LooksDown(a)
    BY <1>0, <2>4, IdleQuiet
  <2>5. Fail(a) => CallFails(a) \/ Crash(a)
    BY NeverFails, Zenon DEF Fail
  <2>. QED
    BY <1>4, <2>1, <2>2, <2>3, <2>4, <2>5, Zenon DEF Run, Noticed
<1>5. CASE UNCHANGED vars
  <2>1. UNCHANGED <<row, bound, agentUp, alive, api, rpc, inbox, agentVars>>
    BY <1>5 DEF vars, serverVars
  <2>2. UNCHANGED <<row, bound, agentUp, api>>
    BY <2>1
  <2>3. \A a \in Agents : Part(a)' = Part(a)
    BY <2>1 DEF Part, agentVars
  <2>4. \A w \in Workers : Committing(w) => api[w].router \in Routers
    BY DEF QuietInv, HostInv, TypeInv, RequestOK, Committing
  <2>5. OnlyAdds'
    BY <2>1 DEF QuietInv, OnlyAdds
  <2>6. ASSUME NEW a \in Agents
        PROVE  AgentFacts(a)' /\ Expected(a)' /\ \A r \in Routers : RouterFacts(a, r)'
    BY <2>2, <2>3, <2>4, SameAgent DEF QuietInv
  <2>. QED
    BY <1>0, <2>5, <2>6 DEF QuietInv
<1>. QED
  BY <1>1, <1>2, <1>3, <1>4, <1>5, Zenon DEF Next, Accepted, Served, Answered

\* At the start a full sync is due for every agent.
LEMMA InitQuiet == ASSUME Steady PROVE Init => QuietInv
<1>. SUFFICES ASSUME Init PROVE QuietInv
  OBVIOUS
<1>1. HostInv /\ TaskInv /\ TypeInv
  BY InitHosts, InitTask DEF HostInv
<1>2. ASSUME NEW a \in Agents
      PROVE  /\ running[a] /\ alive[a] /\ half[a] = {} /\ fullsync[a] /\ inbox[a] = <<>> /\ rpc[a] = NoCall
             /\ loop[a] = Resting /\ removed[a] = {} /\ stale[a]
  BY DEF Init, ServerInit, AgentInit, Steady
<1>3. \A m : ~Queued(m, <<>>)
  BY DEF Queued
<1>4. \A a \in Agents : AgentFacts(a)
  BY <1>2, <1>3 DEF AgentFacts, NoCall, Resting
<1>5. \A w \in Workers : api[w] = NoRequest
  BY DEF Init, ServerInit
<1>6. OnlyAdds /\ \A a \in Agents : Expected(a)
  BY <1>5 DEF OnlyAdds, Expected, Committing, NoRequest
<1>7. \A a \in Agents, r \in Routers : RouterFacts(a, r)
  BY <1>2 DEF RouterFacts, WillRead, Syncing, Resting
<1>. QED
  BY <1>1, <1>4, <1>6, <1>7 DEF QuietInv

\* Nothing is left to read, drop or tell when all is quiet.
LEMMA QuietShows == QuietInv => QuietIsHosted
<1>. SUFFICES ASSUME QuietInv, Quiet, NEW a \in Agents PROVE forwards[a] = SyncData(a)
  BY DEF QuietIsHosted
<1>1. /\ forwards[a] \in [Routers -> Nat] /\ SyncData(a) \in [Routers -> Nat] /\ inbox[a] \in Seq(Message)
  BY Mine, SyncDataType
<1>2. /\ running[a] /\ loop[a].pc = "idle" /\ inbox[a] = <<>> /\ ~fullsync[a]
      /\ updated[a] = {} /\ removed[a] = {} /\ \A w \in Workers : api[w].pc = "idle"
  BY DEF Quiet
<1>3. \A m : ~Queued(m, inbox[a])
  BY <1>2 DEF Queued
<1>4. ASSUME NEW r \in Routers PROVE forwards[a][r] = SyncData(a)[r]
  <2>1. RouterFacts(a, r)
    BY DEF QuietInv
  <2>2. ~WillRead(a, r) /\ ~WillDrop(a, r) /\ ~WillTell(a, r)
    BY <1>2, <1>3 DEF WillRead, WillDrop, WillTell, Asking
  <2>3. Shown(a, r) = forwards[a][r]
    BY <1>2 DEF Shown, Deleting, Syncing, Updating
  <2>4. Target(a, r) = SyncData(a)[r]
    BY <1>2 DEF Target, Doomed, Committing, SyncData, Here
  <2>. QED
    BY <2>1, <2>2, <2>3, <2>4 DEF RouterFacts
<1>. QED
  BY <1>1, <1>4

\* In a steady system, when no request, message, call or task is left, every host forwards
\* just the routers the server lists for its agent, in their last revision: however requests,
\* messages and the two tasks interleaved, calls timed out and agents crashed on the way.
THEOREM SteadyIsHosted == ASSUME Steady PROVE Spec => []QuietIsHosted
<1>1. QuietInv /\ [Next]_vars => QuietInv'
  BY NextQuiet, Steady
<1>2. Init => QuietInv
  BY InitQuiet, Steady
<1>. QED
  BY <1>1, <1>2, QuietShows, PTL DEF Spec
=============================================================================
