---------------------------- MODULE FWaaSProofs -----------------------------
(***************************************************************************)
(* Proofs about FWaaS for every number of firewalls, agents and workers.   *)
(***************************************************************************)
EXTENDS FWaaS, FiniteSetTheorems, TLAPS

-----------------------------------------------------------------------------
(* Type correctness.                                                       *)

\* A cast carries a well-formed firewall dict.
LEMMA MessageOfType ==
  ASSUME NEW r \in Request, r.fw \in Firewall
  PROVE  MessageOf(r) \in Message
BY DEF MessageOf, Message, Request, Operation, Func

\* Accept adds a well-formed request.
LEMMA AcceptType ==
  ASSUME PluginTypeOK, NEW op \in Operation, NEW pc \in {"insert", "write", "edit"},
         NEW f \in Firewall \cup {None}, NEW up \in BOOLEAN,
         pc = "write" => f \in Firewall,
         Accept(op, pc, f, up)
  PROVE  /\ serving' \subseteq Request
         /\ \A r \in serving' : r.pc \in {"write", "read", "rules", "cast"} => r.fw \in Firewall
         /\ requests' \in 0..MaxRequests
<1> DEFINE new == [id |-> requests', op |-> op, pc |-> pc, fw |-> f,
                   up |-> up, rev |-> 0, todo |-> {}]
<1>1. requests' \in 1..MaxRequests
  BY PluginAssumption DEF PluginTypeOK, Accept
<1>2. new \in Request
  BY <1>1 DEF Request
<1>3. new.pc = pc /\ new.fw = f
  OBVIOUS
<1>4. serving' = serving \cup {new}
  BY DEF Accept
<1>. HIDE DEF new
<1>. QED
  BY <1>1, <1>2, <1>3, <1>4 DEF PluginTypeOK

\* A request that moves on stays well-formed.
LEMMA BecomeType ==
  ASSUME PluginTypeOK, NEW r \in serving, NEW next \in Request,
         next.pc \in {"write", "read", "rules", "cast"} => next.fw \in Firewall,
         Become(r, next)
  PROVE  /\ serving' \subseteq Request
         /\ \A s \in serving' : s.pc \in {"write", "read", "rules", "cast"} => s.fw \in Firewall
BY DEF PluginTypeOK, Become

\* A request that ends leaves the others as they are.
LEMMA EndType ==
  ASSUME PluginTypeOK, NEW r \in serving, End(r)
  PROVE  /\ serving' \subseteq Request
         /\ \A s \in serving' : s.pc \in {"write", "read", "rules", "cast"} => s.fw \in Firewall
BY DEF PluginTypeOK, End

\* So does one that goes on to the next firewall of its policy, which it has.
LEMMA PushNextType ==
  ASSUME PluginTypeOK, NEW r \in serving, NEW todo \in SUBSET Firewall, PushNext(r, todo)
  PROVE  /\ serving' \subseteq Request
         /\ \A s \in serving' : s.pc \in {"write", "read", "rules", "cast"} => s.fw \in Firewall
<1>1. CASE End(r)
  BY <1>1, EndType
<1>2. ASSUME NEW f \in todo,
             Become(r, [r EXCEPT !.pc = "write", !.fw = f, !.todo = todo \ {f}])
      PROVE  /\ serving' \subseteq Request
             /\ \A s \in serving' : s.pc \in {"write", "read", "rules", "cast"} => s.fw \in Firewall
  <2> DEFINE next == [r EXCEPT !.pc = "write", !.fw = f, !.todo = todo \ {f}]
  <2>1. next \in Request
    BY DEF PluginTypeOK, Request
  <2>2. next.fw \in Firewall
    BY DEF PluginTypeOK, Request
  <2>. QED
    BY <1>2, <2>1, <2>2, BecomeType
<1>. QED
  BY <1>1, <1>2 DEF PushNext

\* A transaction leaves a status the column may have.
LEMMA SetStatusType ==
  ASSUME PluginTypeOK, NEW f \in Firewall, NEW s \in Status, SetStatus(f, s)
  PROVE  /\ status' \in [Firewall -> Status]
         /\ deletion' \in [Firewall -> {"none", "asked", "lost"}]
BY DEF PluginTypeOK, SetStatus

\* The API requests and their transactions keep the types of the server's state.
LEMMA PluginStepType ==
  ASSUME PluginTypeOK, ApiRequest \/ \E r \in serving : Serve(r)
  PROVE  PluginTypeOK'
<1>1. ASSUME NEW up \in BOOLEAN, StartCreate(up) PROVE PluginTypeOK'
  BY <1>1, AcceptType DEF StartCreate, PluginTypeOK, Operation, dbVars
<1>2. ASSUME NEW f \in Firewall, NEW up \in BOOLEAN, StartUpdate(f, up) PROVE PluginTypeOK'
  BY <1>2, AcceptType DEF StartUpdate, PluginTypeOK, Operation, dbVars
<1>3. ASSUME NEW f \in Firewall, StartDelete(f) PROVE PluginTypeOK'
  BY <1>3, AcceptType DEF StartDelete, PluginTypeOK, Operation, dbVars
<1>4. CASE StartEditPolicy
  BY <1>4, AcceptType DEF StartEditPolicy, PluginTypeOK, Operation, dbVars
<1>5. ASSUME NEW r \in serving, Insert(r) PROVE PluginTypeOK'
  <2>1. PICK f \in Firewall :
          /\ SetStatus(f, "PENDING_CREATE")
          /\ adminUp' = [adminUp EXCEPT ![f] = r.up]
          /\ Become(r, [r EXCEPT !.pc = "read", !.fw = f])
    BY <1>5 DEF Insert
  <2> DEFINE next == [r EXCEPT !.pc = "read", !.fw = f]
  <2>2. next \in Request /\ next.fw \in Firewall /\ r.up \in BOOLEAN
    BY DEF PluginTypeOK, Request
  <2>3. /\ serving' \subseteq Request
        /\ \A s \in serving' : s.pc \in {"write", "read", "rules", "cast"} => s.fw \in Firewall
    BY <2>1, <2>2, BecomeType
  <2>4. /\ status' \in [Firewall -> Status] /\ adminUp' \in [Firewall -> BOOLEAN]
        /\ deletion' \in [Firewall -> {"none", "asked", "lost"}]
    <3>1. "PENDING_CREATE" \in Status
      BY DEF Status, RowStatus, Pending
    <3>. QED
      BY <2>1, <2>2, <3>1, SetStatusType DEF PluginTypeOK
  <2>. QED
    BY <1>5, <2>3, <2>4 DEF Insert, PluginTypeOK
<1>6. ASSUME NEW r \in serving, Write(r) PROVE PluginTypeOK'
  <2>1. r \in Request /\ r.fw \in Firewall /\ r.up \in BOOLEAN
    BY <1>6 DEF Write, PluginTypeOK, Request
  <2>2. /\ status' \in [Firewall -> Status] /\ adminUp' \in [Firewall -> BOOLEAN]
        /\ deletion' \in [Firewall -> {"none", "asked", "lost"}]
    <3>1. {"PENDING_UPDATE", "PENDING_DELETE"} \subseteq Status
      BY DEF Status, RowStatus, Pending
    <3>2. CASE InDb(r.fw)
      <4>1. PICK s \in {"PENDING_UPDATE", "PENDING_DELETE"} : SetStatus(r.fw, s)
        BY <1>6, <3>2 DEF Write
      <4>2. adminUp' \in [Firewall -> BOOLEAN]
        BY <1>6, <2>1, <3>2 DEF Write, PluginTypeOK
      <4>. QED
        BY <2>1, <3>1, <4>1, <4>2, SetStatusType
    <3>3. CASE ~InDb(r.fw)
      BY <1>6, <3>3 DEF Write, PluginTypeOK
    <3>. QED
      BY <3>2, <3>3
  <2> DEFINE next == [r EXCEPT !.pc = "read"]
  <2>3. next \in Request /\ next.fw \in Firewall
    BY <2>1 DEF Request
  <2>4. /\ serving' \subseteq Request
        /\ \A s \in serving' : s.pc \in {"write", "read", "rules", "cast"} => s.fw \in Firewall
    BY <1>6, <2>3, BecomeType, EndType DEF Write
  <2>. QED
    BY <1>6, <2>2, <2>4 DEF Write, PluginTypeOK
<1>7. ASSUME NEW r \in serving, EditPolicy(r) PROVE PluginTypeOK'
  <2> DEFINE next == [r EXCEPT !.pc = "list"]
  <2>1. next \in Request /\ next.pc = "list"
    BY DEF PluginTypeOK, Request
  <2>2. /\ serving' \subseteq Request
        /\ \A s \in serving' : s.pc \in {"write", "read", "rules", "cast"} => s.fw \in Firewall
    BY <1>7, <2>1, BecomeType DEF EditPolicy
  <2>. QED
    BY <1>7, <2>2 DEF EditPolicy, PluginTypeOK
<1>8. ASSUME NEW r \in serving, ListFirewalls(r) PROVE PluginTypeOK'
  <2>1. {f \in Firewall : InDb(f)} \in SUBSET Firewall
    OBVIOUS
  <2>. QED
    BY <1>8, <2>1, PushNextType DEF ListFirewalls, PluginTypeOK, dbVars
<1>9. ASSUME NEW r \in serving, ReadFirewallRow(r) PROVE PluginTypeOK'
  <2>1. r \in Request /\ r.fw \in Firewall
    BY <1>9 DEF ReadFirewallRow, PluginTypeOK
  <2> DEFINE next == [r EXCEPT !.pc = "rules", !.up = adminUp[r.fw]]
  <2>2. next \in Request /\ next.fw \in Firewall
    BY <2>1 DEF PluginTypeOK, Request
  <2>3. /\ serving' \subseteq Request
        /\ \A s \in serving' : s.pc \in {"write", "read", "rules", "cast"} => s.fw \in Firewall
    BY <1>9, <2>2, BecomeType, EndType DEF ReadFirewallRow
  <2>. QED
    BY <1>9, <2>3 DEF ReadFirewallRow, PluginTypeOK, dbVars
<1>11. ASSUME NEW r \in serving, ReadRules(r) PROVE PluginTypeOK'
  <2>1. r \in Request /\ r.fw \in Firewall
    BY <1>11 DEF ReadRules, PluginTypeOK
  <2> DEFINE next == [r EXCEPT !.pc = "cast", !.rev = rev]
  <2>2. next \in Request /\ next.fw \in Firewall
    BY <2>1 DEF PluginTypeOK, Request
  <2>3. /\ serving' \subseteq Request
        /\ \A s \in serving' : s.pc \in {"write", "read", "rules", "cast"} => s.fw \in Firewall
    BY <1>11, <2>2, BecomeType DEF ReadRules
  <2>. QED
    BY <1>11, <2>3 DEF ReadRules, PluginTypeOK, dbVars
<1>10. ASSUME NEW r \in serving, Cast(r) PROVE PluginTypeOK'
  <2>1. r \in Request /\ r.fw \in Firewall /\ r.todo \in SUBSET Firewall
    BY <1>10 DEF Cast, PluginTypeOK, Request
  <2>2. MessageOf(r) \in Message
    BY <2>1, MessageOfType
  <2>3. queue' \in [Agent -> Seq(Message)]
    BY <1>10, <2>2 DEF Cast, PluginTypeOK
  <2>4. /\ serving' \subseteq Request
        /\ \A s \in serving' : s.pc \in {"write", "read", "rules", "cast"} => s.fw \in Firewall
    BY <1>10, <2>1, PushNextType DEF Cast
  <2>. QED
    BY <1>10, <2>3, <2>4 DEF Cast, PluginTypeOK, dbVars
<1>. QED
  BY <1>1, <1>2, <1>3, <1>4, <1>5, <1>6, <1>7, <1>8, <1>9, <1>10, <1>11 DEF ApiRequest, Serve

\* A bounded counter of faults stays bounded.
LEMMA CountType ==
  ASSUME AgentTypeOK, NEW k \in Fault, Count(k)
  PROVE  /\ faults' \in [Fault -> Nat]
         /\ \A j \in Fault : faults'[j] <= MaxFaults(j)
         /\ faults'[k] \in 1..MaxFaults(k)
<1>1. MaxFaults(k) \in Nat
  BY AgentAssumption DEF MaxFaults, Fault
<1>2. faults' \in [Fault -> Nat] /\ faults'[k] \in 1..MaxFaults(k)
  BY <1>1 DEF AgentTypeOK, Count
<1>3. ASSUME NEW j \in Fault PROVE faults'[j] <= MaxFaults(j)
  BY <1>1, <1>2 DEF AgentTypeOK, Count
<1>. QED
  BY <1>2, <1>3

\* The driver keeps the types of what it changes.
LEMMA DriverType ==
  ASSUME AgentTypeOK, NEW a \in Agent, NEW f \in Firewall, NEW c \in Content \cup {None},
         DriverApplies(a, f, c) \/ DriverFails(a, f, c)
  PROVE  /\ installed' \in [Agent -> [Firewall -> Content \cup {None}]]
         /\ applied' \in [Firewall -> SUBSET BOOLEAN]
         /\ faults' \in [Fault -> Nat]
         /\ \A k \in Fault : faults'[k] <= MaxFaults(k)
<1>1. [installed EXCEPT ![a][f] = c] \in [Agent -> [Firewall -> Content \cup {None}]]
  BY DEF AgentTypeOK
<1>2. CASE DriverApplies(a, f, c)
  <2>1. c # None => c.up \in BOOLEAN
    BY DEF Content
  <2>. QED
    BY <1>1, <1>2, <2>1 DEF DriverApplies, AgentTypeOK
<1>3. CASE DriverFails(a, f, c)
  <2>1. "driver" \in Fault
    BY DEF Fault
  <2>. QED
    BY <1>1, <1>3, <2>1, CountType DEF DriverFails, AgentTypeOK
<1>. QED
  BY <1>2, <1>3

\* What a callback makes of a status it has read.
LEMMA OutcomeType ==
  ASSUME NEW c \in Call, c.seen # "unread"
  PROVE  /\ c.seen \in RowStatus
         /\ \/ Outcome(c) = c.seen
            \/ /\ Outcome(c) \in Settled /\ c.seen # "PENDING_DELETE"
               /\ Outcome(c) \in {"ACTIVE", "DOWN"} => Outcome(c) = c.report
            \/ /\ Outcome(c) = "gone" /\ c.seen = "PENDING_DELETE"
               /\ c.report = "DELETED" /\ AnswersDeleted(c.seen)
BY DEF Call, Seen, Outcome, FirewallDeleted, SetFirewallStatus, DeleteDbFirewallObject,
       AnswersDeleted, Settled, Report

\* The end of a callback keeps the types.
LEMMA CommitType ==
  ASSUME PluginTypeOK, AgentTypeOK, NEW c \in Call, CallCommits(c)
  PROVE  /\ status' \in [Firewall -> Status]
         /\ deletion' \in [Firewall -> {"none", "asked", "lost"}]
         /\ UNCHANGED <<adminUp, rev, serving, requests, alive>>
         /\ toldDeleted' \subseteq Firewall
<1>1. c.fw \in Firewall
  BY DEF Call
<1>2. /\ status' \in [Firewall -> Status]
      /\ deletion' \in [Firewall -> {"none", "asked", "lost"}]
  <2>1. CASE InDb(c.fw) /\ Outcome(c) # c.seen
    <3>1. Outcome(c) \in Status
      BY <2>1, OutcomeType DEF CallCommits, Status, RowStatus
    <3>. QED
      BY <1>1, <2>1, <3>1, SetStatusType DEF CallCommits
  <2>2. CASE ~(InDb(c.fw) /\ Outcome(c) # c.seen)
    BY <2>2 DEF CallCommits, PluginTypeOK
  <2>. QED
    BY <2>1, <2>2
<1>. QED
  BY <1>1, <1>2 DEF CallCommits, AgentTypeOK

\* So does a call, answered or not.
LEMMA CallType ==
  ASSUME PluginTypeOK, AgentTypeOK, NEW a \in Agent, NEW c \in Call,
         CallReads(c) \/ CallAnswered(a, c) \/ CallTimesOut(a, c)
  PROVE  /\ status' \in [Firewall -> Status]
         /\ deletion' \in [Firewall -> {"none", "asked", "lost"}]
         /\ UNCHANGED <<adminUp, rev, serving, requests, alive>>
         /\ toldDeleted' \subseteq Firewall
         /\ servicesSync' \in [Agent -> BOOLEAN]
         /\ late' \subseteq LateCall
         /\ faults' \in [Fault -> Nat]
         /\ \A k \in Fault : faults'[k] <= MaxFaults(k)
<1>1. CASE CallAnswered(a, c)
  BY <1>1, CommitType DEF CallAnswered, SyncLater, AgentTypeOK
<1>2. CASE CallTimesOut(a, c)
  <2>1. "rpc" \in Fault
    BY DEF Fault
  <2> DEFINE d == [c EXCEPT !.id = 0]
             l == [cause |-> "rpc", n |-> faults["rpc"], call |-> d]
  <2>2. d \in Call
    BY PluginAssumption DEF Call
  <2>3. l \in LateCall
    <3>. HIDE DEF d
    <3>. QED
      BY <2>1, <2>2 DEF LateCall, AgentTypeOK
  <2>4. late' \subseteq LateCall
    <3>1. late' \in {late, late \cup {l}}
      BY <1>2 DEF CallTimesOut
    <3>. HIDE DEF l
    <3>. QED
      BY <2>3, <3>1 DEF AgentTypeOK
  <2>. QED
    BY <1>2, <2>1, <2>4, CountType
    DEF CallTimesOut, SyncLater, AgentTypeOK, PluginTypeOK, dbVars
<1>3. CASE CallReads(c)
  BY <1>3 DEF CallReads, AgentTypeOK, PluginTypeOK, dbVars
<1>. QED
  BY <1>1, <1>2, <1>3

\* The call of a handler that reports is a call.
LEMMA CallOfType ==
  ASSUME AgentTypeOK, NEW h \in handler, h.pc \in Report
  PROVE  /\ CallOf(h) \in Call /\ h.agent \in Agent
         /\ CallOf(h).fw = h.msg.fw /\ CallOf(h).report = h.pc /\ CallOf(h).seen = h.seen
BY PluginAssumption DEF AgentTypeOK, Handler, Message, CallOf, Call

\* So is the call of a loop that does.
LEMMA TaskCallType ==
  ASSUME AgentTypeOK, NEW a \in Agent, task[a].pc \in Report
  PROVE  /\ TaskCall(a) \in Call
         /\ TaskCall(a).fw = task[a].fw /\ TaskCall(a).report = task[a].pc
         /\ TaskCall(a).seen = task[a].seen
BY PluginAssumption DEF AgentTypeOK, Task, TaskCall, Call

\* The handling of a fanout message keeps the types.
LEMMA HandlerStepType ==
  ASSUME TypeOK, NEW a \in Agent,
         Receive(a) \/ \E h \in handler : h.agent = a /\ Handle(h)
  PROVE  TypeOK'
<1>. USE DEF TypeOK
<1> DEFINE Fine(g) == g \in Handler /\ (g.pc \notin Report => g.seen = "unread")
<1>1. ASSUME NEW h \in handler, NEW pc \in {"routers", "driver"} \cup Report,
             h.pc \notin Report, HandlerTo(h, pc) \/ HandlerEnds(h)
      PROVE  \A g \in handler' : Fine(g)
  <2> DEFINE next == [h EXCEPT !.pc = pc]
  <2>1. next \in Handler /\ next.seen = "unread"
    BY <1>1 DEF AgentTypeOK, Handler
  <2>2. \A g \in handler' : g \in handler \/ g = next
    BY <1>1 DEF HandlerTo, HandlerEnds
  <2>. HIDE DEF next
  <2>. QED
    BY <2>1, <2>2 DEF AgentTypeOK
<1>2. CASE Receive(a)
  <2>1. Head(queue[a]) \in Message /\ Tail(queue[a]) \in Seq(Message)
    BY <1>2 DEF Receive, PluginTypeOK
  <2> DEFINE next == [agent |-> a, msg |-> Head(queue[a]), pc |-> "routers",
                      seen |-> "unread"]
  <2>2. next \in Handler /\ next.seen = "unread"
    BY <2>1 DEF Handler, Seen
  <2>3. /\ \A g \in handler' : Fine(g)
        /\ queue' \in [Agent -> Seq(Message)]
    <3>1. handler' = handler \cup {next}
      BY <1>2 DEF Receive
    <3>2. queue' = [queue EXCEPT ![a] = Tail(@)]
      BY <1>2 DEF Receive
    <3>. HIDE DEF next
    <3>. QED
      BY <2>1, <2>2, <3>1, <3>2 DEF PluginTypeOK, AgentTypeOK
  <2>. QED
    BY <1>2, <2>3 DEF Receive, PluginTypeOK, AgentTypeOK, dbVars
<1>3. ASSUME NEW h \in handler, GetRouters(h) PROVE TypeOK'
  <2>1. \A g \in handler' : Fine(g)
    BY <1>1, <1>3 DEF GetRouters, Report
  <2>. QED
    BY <1>3, <2>1 DEF GetRouters, PluginTypeOK, AgentTypeOK, pluginVars, dbVars
<1>4. ASSUME NEW h \in handler, GetRoutersFails(h) PROVE TypeOK'
  <2>1. \A g \in handler' : Fine(g)
    BY <1>1, <1>4 DEF GetRoutersFails, Report
  <2>2. /\ faults' \in [Fault -> Nat]
        /\ \A k \in Fault : faults'[k] <= MaxFaults(k)
    BY <1>4, CountType DEF GetRoutersFails, Fault
  <2>3. servicesSync' \in [Agent -> BOOLEAN]
    BY <1>4 DEF GetRoutersFails, SyncLater, AgentTypeOK
  <2>. QED
    BY <1>4, <2>1, <2>2, <2>3 DEF GetRoutersFails, PluginTypeOK, AgentTypeOK, pluginVars, dbVars
<1>5. ASSUME NEW h \in handler, InvokeDriver(h) PROVE TypeOK'
  <2> DEFINE del == h.msg.func = "delete_firewall"
             c   == IF del THEN None ELSE ContentOf(h.msg)
  <2>1. /\ h.agent \in Agent /\ h.msg.fw \in Firewall
        /\ h.msg.up \in BOOLEAN /\ h.msg.rev \in Nat
    BY DEF AgentTypeOK, Handler, Message
  <2>2. c \in Content \cup {None}
    BY <2>1 DEF Content, ContentOf
  <2>3. DriverApplies(h.agent, h.msg.fw, c) \/ DriverFails(h.agent, h.msg.fw, c)
    BY <1>5 DEF InvokeDriver
  <2>4. \A g \in handler' : Fine(g)
    <3>1. h.pc \notin Report
      BY <1>5 DEF InvokeDriver, Report
    <3>2. \E pc \in {"routers", "driver"} \cup Report : HandlerTo(h, pc) \/ HandlerEnds(h)
      BY <1>5, <2>1 DEF InvokeDriver, Report, UpStatus
    <3>. QED
      BY <1>1, <3>1, <3>2
  <2>5. /\ installed' \in [Agent -> [Firewall -> Content \cup {None}]]
        /\ applied' \in [Firewall -> SUBSET BOOLEAN]
        /\ faults' \in [Fault -> Nat]
        /\ \A k \in Fault : faults'[k] <= MaxFaults(k)
    <3>. HIDE DEF c
    <3>. QED
      BY <2>1, <2>2, <2>3, DriverType
  <2>. QED
    BY <1>5, <2>4, <2>5 DEF InvokeDriver, PluginTypeOK, AgentTypeOK, pluginVars, dbVars
<1>6. ASSUME NEW h \in handler, ReportBack(h) PROVE TypeOK'
  <2>1. h \in Handler /\ h.agent \in Agent /\ h.msg.fw \in Firewall /\ h.pc \in Report
    BY <1>6 DEF ReportBack, AgentTypeOK, Handler, Message
  <2>2. \A g \in handler' : Fine(g)
    <3>1. CASE HandlerEnds(h)
      BY <3>1 DEF HandlerEnds, AgentTypeOK
    <3>2. CASE CallReads(CallOf(h)) /\ handler' = (handler \ {h}) \cup
                                          {[h EXCEPT !.seen = status[h.msg.fw]]}
      <4> DEFINE next == [h EXCEPT !.seen = status[h.msg.fw]]
      <4>1. status[h.msg.fw] \in Seen
        BY <2>1, <3>2 DEF CallReads, CallOf, InDb, Seen
      <4>2. next \in Handler /\ next.pc \in Report
        BY <2>1, <4>1 DEF Handler
      <4>. HIDE DEF next
      <4>. QED
        BY <3>2, <4>2 DEF AgentTypeOK, next
    <3>. QED
      BY <1>6, <3>1, <3>2 DEF ReportBack
  <2>3. CallOf(h) \in Call
    BY <2>1, CallOfType
  <2>. QED
    BY <1>6, <2>1, <2>2, <2>3, CallType DEF ReportBack, PluginTypeOK, AgentTypeOK
<1>. QED
  BY <1>2, <1>3, <1>4, <1>5, <1>6 DEF Handle

\* The agent's own loop keeps the types.
LEMMA LoopStepType ==
  ASSUME TypeOK, NEW a \in Agent, Loop(a) \/ RouterAdded(a)
  PROVE  TypeOK'
<1>. USE DEF TypeOK
<1> DEFINE Fine(t) == t \in Task /\ IF t.pc \in Report THEN t.fw \in Firewall
                                                      ELSE t.seen = "unread"
<1>1. ASSUME NEW t, Fine(t), task' = [task EXCEPT ![a] = t]
      PROVE  task' \in [Agent -> Task] /\ \A b \in Agent : Fine(task'[b])
  BY <1>1 DEF AgentTypeOK
<1>2. Fine(Idle)
  BY DEF Idle, Task, Report, Seen
<1>3. Fine(task[a])
  BY DEF AgentTypeOK
<1>4. CASE RouterAdded(a)
  <2> DEFINE t == [task[a] EXCEPT !.kind = "add"]
  <2>1. Fine(t)
    BY <1>3 DEF Task
  <2>2. task' = [task EXCEPT ![a] = t]
    BY <1>4 DEF RouterAdded, AgentTypeOK
  <2>3. NoRules \in [Firewall -> Content \cup {None}]
    BY DEF NoRules
  <2>. HIDE DEF t
  <2>. QED
    BY <1>1, <1>4, <2>1, <2>2, <2>3
    DEF RouterAdded, PluginTypeOK, AgentTypeOK, pluginVars, dbVars
<1>5. CASE SyncStarts(a)
  <2> DEFINE t == [task[a] EXCEPT !.kind = "sync"]
  <2>1. Fine(t)
    BY <1>3 DEF Task
  <2>2. task' = [task EXCEPT ![a] = t]
    BY <1>5 DEF SyncStarts, AgentTypeOK
  <2>. HIDE DEF t
  <2>. QED
    BY <1>1, <1>5, <2>1, <2>2 DEF SyncStarts, PluginTypeOK, AgentTypeOK, pluginVars, dbVars
<1>6. CASE FetchFirewalls(a)
  <2> DEFINE t == [task[a] EXCEPT !.pc = "read",
                                  !.listed = {f \in Firewall : InDb(f)}]
  <2>1. task[a].pc \notin Report
    BY <1>6 DEF FetchFirewalls, Report
  <2>2. t \in Task /\ t.pc \notin Report /\ t.seen = "unread"
    BY <1>3, <2>1 DEF Task, Report
  <2>3. task' = [task EXCEPT ![a] = t]
    BY <1>6 DEF FetchFirewalls, AgentTypeOK
  <2>. HIDE DEF t
  <2>. QED
    BY <1>1, <1>6, <2>2, <2>3 DEF FetchFirewalls, PluginTypeOK, AgentTypeOK, pluginVars, dbVars
<1>7. ASSUME NEW f \in Firewall, ReadFirewall(a, f) PROVE TypeOK'
  <2>1. task[a].pc = "read" /\ task[a].pc \notin Report
    BY <1>7 DEF ReadFirewall, Report
  <2>2. CASE InDb(f)
    <3> DEFINE new == {s \in {[fw |-> f, up |-> adminUp[f], rev |-> rev,
                               status |-> status[f]]} :
                         task[a].kind = "sync" => s.status # "ACTIVE"}
               t   == [task[a] EXCEPT !.listed = @ \ {f}, !.todo = @ \cup new]
    <3>1. new \subseteq Snapshot
      BY <2>2 DEF Snapshot, InDb, PluginTypeOK
    <3>2. Fine(t)
      <4>. HIDE DEF new
      <4>. QED
        BY <1>3, <2>1, <3>1 DEF Task
    <3>3. task' = [task EXCEPT ![a] = t] /\ UNCHANGED servicesSync
      BY <1>7, <2>2 DEF ReadFirewall, AgentTypeOK
    <3>. HIDE DEF t
    <3>. QED
      BY <1>1, <1>7, <3>2, <3>3 DEF ReadFirewall, PluginTypeOK, AgentTypeOK, pluginVars, dbVars
  <2>3. CASE ~InDb(f)
    <3>1. task' = [task EXCEPT ![a] = Idle] /\ SyncLater(a)
      BY <1>7, <2>3 DEF ReadFirewall
    <3>. QED
      BY <1>1, <1>2, <1>7, <3>1
      DEF ReadFirewall, SyncLater, PluginTypeOK, AgentTypeOK, pluginVars, dbVars
  <2>. QED
    BY <2>2, <2>3
<1>8. CASE FirewallsFetched(a)
  <2> DEFINE t == [task[a] EXCEPT !.pc = "loop", !.todo = IF hosted[a] THEN @ ELSE {}]
  <2>1. task[a].pc \notin Report
    BY <1>8 DEF FirewallsFetched, Report
  <2>2. t \in Task /\ t.pc \notin Report /\ t.seen = "unread"
    BY <1>3, <2>1 DEF Task, Report
  <2>3. task' = [task EXCEPT ![a] = t]
    BY <1>8 DEF FirewallsFetched, AgentTypeOK
  <2>. HIDE DEF t
  <2>. QED
    BY <1>1, <1>8, <2>2, <2>3 DEF FirewallsFetched, PluginTypeOK, AgentTypeOK, pluginVars, dbVars
<1>9. CASE FetchFails(a)
  <2>1. /\ faults' \in [Fault -> Nat]
        /\ \A k \in Fault : faults'[k] <= MaxFaults(k)
    BY <1>9, CountType DEF FetchFails, Fault
  <2>. QED
    BY <1>1, <1>2, <1>9, <2>1
    DEF FetchFails, SyncLater, PluginTypeOK, AgentTypeOK, pluginVars, dbVars
<1>10. CASE SyncDriver(a)
  <2>1. PICK s \in task[a].todo :
          LET del == s.status = "PENDING_DELETE"
              c   == IF del THEN None ELSE ContentOf(s)
              to(p) == task' = [task EXCEPT ![a].pc = p, ![a].fw = s.fw,
                                            ![a].todo = @ \ {s}]
          IN \/ DriverApplies(a, s.fw, c) /\ to(IF del THEN "DELETED" ELSE UpStatus(s.up))
             \/ DriverFails(a, s.fw, c) /\ to("ERROR")
    BY <1>10 DEF SyncDriver
  <2> DEFINE c == IF s.status = "PENDING_DELETE" THEN None ELSE ContentOf(s)
             t(p) == [task[a] EXCEPT !.pc = p, !.fw = s.fw, !.todo = @ \ {s}]
  <2>2. s.fw \in Firewall /\ s.up \in BOOLEAN /\ s.rev \in Nat
    BY <1>3 DEF Task, Snapshot
  <2>3. c \in Content \cup {None}
    BY <2>2 DEF Content, ContentOf
  <2>4. DriverApplies(a, s.fw, c) \/ DriverFails(a, s.fw, c)
    BY <2>1
  <2>5. ASSUME NEW p \in Report PROVE Fine(t(p))
    BY <1>3, <2>2 DEF Task
  <2>6. PICK p \in Report : task' = [task EXCEPT ![a] = t(p)]
    BY <2>1, <2>2 DEF AgentTypeOK, Report, UpStatus
  <2>7. task' \in [Agent -> Task] /\ \A b \in Agent : Fine(task'[b])
    <3>1. Fine(t(p))
      BY <2>5
    <3>. HIDE DEF t
    <3>. QED
      BY <1>1, <2>6, <3>1
  <2>8. /\ installed' \in [Agent -> [Firewall -> Content \cup {None}]]
        /\ applied' \in [Firewall -> SUBSET BOOLEAN]
        /\ faults' \in [Fault -> Nat]
        /\ \A k \in Fault : faults'[k] <= MaxFaults(k)
    <3>. HIDE DEF c
    <3>. QED
      BY <2>2, <2>3, <2>4, DriverType
  <2>. QED
    BY <1>10, <2>7, <2>8 DEF SyncDriver, PluginTypeOK, AgentTypeOK, pluginVars, dbVars
<1>11. CASE SyncReport(a)
  <2>1. task[a].pc \in Report /\ TaskCall(a) \in Call
    BY <1>11, TaskCallType DEF SyncReport
  <2>2. task' \in [Agent -> Task] /\ \A b \in Agent : Fine(task'[b])
    <3>1. CASE task' = [task EXCEPT ![a] = Idle]
      BY <1>1, <1>2, <3>1
    <3>2. CASE task' = [task EXCEPT ![a] = [@ EXCEPT !.pc = "loop", !.fw = None,
                                                     !.seen = "unread"]]
      <4> DEFINE t == [task[a] EXCEPT !.pc = "loop", !.fw = None, !.seen = "unread"]
      <4>1. t \in Task /\ t.pc \notin Report /\ t.seen = "unread"
        BY <1>3 DEF Task, Report, Seen
      <4>2. task' = [task EXCEPT ![a] = t]
        BY <3>2 DEF AgentTypeOK
      <4>. HIDE DEF t
      <4>. QED
        BY <1>1, <4>1, <4>2
    <3>3. CASE CallReads(TaskCall(a)) /\ task' = [task EXCEPT ![a].seen = status[task[a].fw]]
      <4> DEFINE t == [task[a] EXCEPT !.seen = status[task[a].fw]]
      <4>1. status[task[a].fw] \in Seen
        BY <3>3 DEF CallReads, TaskCall, InDb, Seen
      <4>2. Fine(t)
        BY <1>3, <2>1, <4>1 DEF Task
      <4>3. task' = [task EXCEPT ![a] = t]
        BY <3>3 DEF AgentTypeOK
      <4>. HIDE DEF t
      <4>. QED
        BY <1>1, <4>2, <4>3
    <3>. QED
      BY <1>11, <3>1, <3>2, <3>3 DEF SyncReport
  <2>. QED
    BY <1>11, <2>1, <2>2, CallType DEF SyncReport, PluginTypeOK, AgentTypeOK
<1>12. CASE TaskEnds(a)
  BY <1>1, <1>2, <1>12 DEF TaskEnds, PluginTypeOK, AgentTypeOK, pluginVars, dbVars
<1>. QED
  BY <1>4, <1>5, <1>6, <1>7, <1>8, <1>9, <1>10, <1>11, <1>12 DEF Loop

\* Routers that leave, crashes and restarts keep the types.
LEMMA FaultStepType ==
  ASSUME TypeOK, NEW a \in Agent, Fail(a) \/ Start(a)
  PROVE  TypeOK'
<1>. USE DEF TypeOK
<1>1. CASE RouterRemoved(a)
  <2>1. NoRules \in [Firewall -> Content \cup {None}]
    BY DEF NoRules
  <2>2. /\ faults' \in [Fault -> Nat]
        /\ \A k \in Fault : faults'[k] <= MaxFaults(k)
    BY <1>1, CountType DEF RouterRemoved, Fault
  <2>. QED
    BY <1>1, <2>1, <2>2 DEF RouterRemoved, PluginTypeOK, AgentTypeOK, pluginVars, dbVars
<1>2. CASE Crash(a)
  <2>1. Idle \in Task /\ Idle.pc \notin Report /\ Idle.seen = "unread"
    BY DEF Idle, Task, Report, Seen
  <2>2. /\ faults' \in [Fault -> Nat]
        /\ \A k \in Fault : faults'[k] <= MaxFaults(k)
        /\ faults["crash"] \in Nat
    BY <1>2, CountType DEF Crash, Fault, AgentTypeOK
  <2>3. queue' \in [Agent -> Seq(Message)]
    BY <1>2 DEF Crash, PluginTypeOK
  <2>4. /\ task' \in [Agent -> Task]
        /\ \A b \in Agent : IF task'[b].pc \in Report THEN task'[b].fw \in Firewall
                                                      ELSE task'[b].seen = "unread"
    BY <1>2, <2>1 DEF Crash, AgentTypeOK
  <2>5. late' \subseteq LateCall
    <3>1. PICK kept \in SUBSET CallsOf(a) :
            late' = late \cup {[cause |-> "crash", n |-> faults["crash"], call |-> c] : c \in kept}
      BY <1>2 DEF Crash
    <3>2. kept \subseteq Call
      BY CallOfType, TaskCallType DEF CallsOf
    <3>. QED
      BY <2>2, <3>1, <3>2 DEF LateCall, AgentTypeOK
  <2>. QED
    BY <1>2, <2>2, <2>3, <2>4, <2>5 DEF Crash, PluginTypeOK, AgentTypeOK, dbVars
<1>3. CASE Start(a)
  BY <1>3 DEF Start, PluginTypeOK, AgentTypeOK, pluginVars, agentVars, dbVars
<1>. QED
  BY <1>1, <1>2, <1>3 DEF Fail

\* Every step keeps the types.
LEMMA TypeStep ==
  ASSUME TypeOK, [Next]_vars
  PROVE  TypeOK'
<1>1. CASE AcceptApi \/ ServeApi
  <2>1. PluginTypeOK'
    BY <1>1, PluginStepType DEF AcceptApi, ServeApi, TypeOK
  <2>2. AgentTypeOK'
    BY <1>1 DEF AcceptApi, ServeApi, TypeOK, AgentTypeOK, agentVars
  <2>. QED
    BY <2>1, <2>2 DEF TypeOK
<1>2. ASSUME NEW l \in late, RunLateCall(l) PROVE TypeOK'
  <2>1. l \in LateCall /\ l.call \in Call
    BY DEF TypeOK, AgentTypeOK, LateCall
  <2>2. CASE CallCommits(l.call) /\ late' = late \ {l}
    BY <1>2, <2>1, <2>2, CommitType DEF RunLateCall, TypeOK, PluginTypeOK, AgentTypeOK
  <2>3. CASE /\ InDb(l.call.fw)
             /\ late' = (late \ {l}) \cup {[l EXCEPT !.call.seen = status[l.call.fw]]}
             /\ UNCHANGED <<dbVars, serving, requests, alive, toldDeleted>>
    <3> DEFINE next == [l EXCEPT !.call.seen = status[l.call.fw]]
    <3>1. next \in LateCall
      BY <2>1, <2>3 DEF LateCall, Call, Seen, InDb
    <3>. HIDE DEF next
    <3>. QED
      BY <1>2, <2>3, <3>1 DEF next, RunLateCall, TypeOK, PluginTypeOK, AgentTypeOK, dbVars
  <2>. QED
    BY <1>2, <2>2, <2>3 DEF RunLateCall
<1>3. CASE UNCHANGED vars
  BY <1>3 DEF vars, pluginVars, agentVars, dbVars, TypeOK, PluginTypeOK, AgentTypeOK
<1>. QED
  BY <1>1, <1>2, <1>3, HandlerStepType, LoopStepType, FaultStepType
  DEF Next, HandleAt, LateCalls

\* Type correctness: every behaviour of plugin and agents stays within the types.
THEOREM TypeCorrect == Spec => []TypeOK
<1>1. Init => TypeOK
  <2>. SUFFICES ASSUME Init PROVE TypeOK
    OBVIOUS
  <2>1. PluginTypeOK
    BY PluginAssumption DEF Init, PluginInit, PluginTypeOK, Status
  <2>2. AgentTypeOK
    BY AgentAssumption
    DEF Init, AgentInit, AgentTypeOK, NoRules, Idle, Task, Report, Seen, MaxFaults, Fault
  <2>. QED
    BY <2>1, <2>2 DEF TypeOK
<1>. QED
  BY <1>1, TypeStep, PTL DEF Spec

-----------------------------------------------------------------------------
(* The callbacks, and who writes the status column.                        *)

\* The callbacks in progress are those that some handler, loop or late call holds.
LEMMA CallsHold ==
  ASSUME AgentTypeOK
  PROVE  /\ Calls \subseteq Call
         /\ \A h \in handler : h.pc \in Report => CallOf(h) \in Calls
         /\ \A a \in Agent : task[a].pc \in Report => TaskCall(a) \in Calls
         /\ \A l \in late : l.call \in Calls
<1>1. Calls \subseteq Call
  BY CallOfType, TaskCallType DEF Calls, AgentTypeOK, LateCall
<1>. QED
  BY <1>1 DEF Calls

\* So is a callback after a step.
LEMMA CallsAfter ==
  ASSUME NEW c \in Calls'
  PROVE  \/ \E h \in handler' : h.pc \in Report /\ c = CallOf(h)
         \/ \E a \in Agent : /\ task'[a].pc \in Report
                             /\ c = [id |-> 0, fw |-> task'[a].fw, report |-> task'[a].pc,
                                     seen |-> task'[a].seen]
         \/ \E l \in late' : c = l.call
BY DEF Calls, TaskCall

\* An agent has yet to apply a deletion of firewall f.
ToDelete(f) ==
  \/ \E h \in handler : h.pc \notin Report /\ h.msg.func = "delete_firewall" /\ h.msg.fw = f
  \/ \E a \in Agent : \E s \in task[a].todo : s.fw = f /\ s.status = "PENDING_DELETE"

\* The driver applied firewall f as status or report s says.
Earned(f, s) ==
  /\ s = "ACTIVE" => TRUE \in applied[f]
  /\ s = "DOWN"   => FALSE \in applied[f]

\* A callback on firewall f was in progress, and may have read the row in this step.
Continues(f, report, seen) ==
  \E b \in Calls : /\ b.fw = f /\ b.report = report
                   /\ \/ seen = b.seen
                      \/ /\ b.seen = "unread" /\ InDb(f) /\ seen = status[f]
                         /\ UNCHANGED <<status, deletion>>

\* A callback begins, after what it reports was done.
Begins(f, report, seen) ==
  /\ seen = "unread"
  /\ UNCHANGED <<status, deletion>>
  /\ Earned(f, report)'
  /\ report = "DELETED" => ToDelete(f)

\* What the driver applied is earned afterwards.
LEMMA DriverEarns ==
  ASSUME TypeOK, NEW a \in Agent, NEW f \in Firewall, NEW up \in BOOLEAN, NEW v \in Nat,
         DriverApplies(a, f, [up |-> up, rev |-> v])
  PROVE  Earned(f, UpStatus(up))'
<1> DEFINE c == [up |-> up, rev |-> v]
<1>1. c \in Content /\ c.up = up
  BY DEF Content
<1>2. c # None
  BY <1>1, NoneAssumption
<1>3. applied' = [applied EXCEPT ![f] = @ \cup {c.up}]
  BY <1>2 DEF DriverApplies
<1>4. up \in applied'[f]
  BY <1>1, <1>3 DEF TypeOK, AgentTypeOK
<1>. QED
  BY <1>4 DEF Earned, UpStatus

\* A handler that reports goes on with its call, or begins one.
LEMMA HandlersCall ==
  ASSUME TypeOK, [Next]_vars, NEW g \in handler', g.pc \in Report
  PROVE  Continues(g.msg.fw, g.pc, g.seen) \/ Begins(g.msg.fw, g.pc, g.seen)
<1>1. CASE g \in handler
  <2>1. CallOf(g) \in Calls
    BY <1>1, CallsHold DEF TypeOK
  <2>2. CallOf(g).fw = g.msg.fw /\ CallOf(g).report = g.pc /\ CallOf(g).seen = g.seen
    BY DEF CallOf
  <2>. QED
    BY <2>1, <2>2 DEF Continues
<1>2. CASE g \notin handler
  <2>1. PICK a \in Agent : HandleAt(a)
    BY <1>2 DEF Next, AcceptApi, ServeApi, LateCalls, RunLateCall, Loop, SyncStarts,
                FetchFirewalls, ReadFirewall, FirewallsFetched, FetchFails, SyncDriver,
                SyncReport, TaskEnds, RouterAdded, Start, Fail, RouterRemoved, Crash, vars,
                agentVars
  <2>2. ~Receive(a)
    BY <1>2 DEF Receive, Report
  <2>3. PICK h \in handler : Handle(h)
    BY <2>1, <2>2 DEF HandleAt
  <2>4. /\ h \in Handler /\ h.agent \in Agent /\ h.msg.fw \in Firewall
        /\ h.msg.up \in BOOLEAN /\ h.msg.rev \in Nat
        /\ h.pc \notin Report => h.seen = "unread"
    BY DEF TypeOK, AgentTypeOK, Handler, Message
  <2>5. CASE GetRouters(h)
    <3>1. /\ h.pc = "routers" /\ h.msg.func = "delete_firewall" /\ HandlerTo(h, "DELETED")
          /\ UNCHANGED <<status, deletion, applied>>
      BY <1>2, <2>4, <2>5 DEF GetRouters, HandlerTo, HandlerEnds, Report, Handler, pluginVars
    <3>2. g = [h EXCEPT !.pc = "DELETED"]
      BY <1>2, <3>1 DEF HandlerTo
    <3>3. g.msg = h.msg /\ g.pc = "DELETED" /\ g.seen = "unread" /\ h.pc \notin Report
      BY <2>4, <3>1, <3>2 DEF Handler, Report
    <3>. QED
      BY <3>1, <3>3 DEF Begins, Earned, ToDelete
  <2>6. CASE GetRoutersFails(h)
    BY <1>2, <2>6 DEF GetRoutersFails, HandlerEnds
  <2>7. CASE InvokeDriver(h)
    <3>1. h.pc = "driver" /\ h.pc \notin Report /\ UNCHANGED <<status, deletion>>
      BY <2>7 DEF InvokeDriver, Report, pluginVars
    <3>2. CASE /\ h.msg.func = "delete_firewall" /\ HandlerTo(h, "DELETED")
      <4>1. g = [h EXCEPT !.pc = "DELETED"]
        BY <1>2, <3>2 DEF HandlerTo
      <4>2. g.msg = h.msg /\ g.pc = "DELETED" /\ g.seen = "unread"
        BY <2>4, <3>1, <4>1 DEF Handler
      <4>. QED
        BY <3>1, <3>2, <4>2 DEF Begins, Earned, ToDelete
    <3>3. CASE HandlerTo(h, "ERROR")
      <4>1. g = [h EXCEPT !.pc = "ERROR"]
        BY <1>2, <3>3 DEF HandlerTo
      <4>2. g.msg = h.msg /\ g.pc = "ERROR" /\ g.seen = "unread"
        BY <2>4, <3>1, <4>1 DEF Handler
      <4>. QED
        BY <3>1, <4>2 DEF Begins, Earned
    <3>4. CASE /\ DriverApplies(h.agent, h.msg.fw, ContentOf(h.msg))
               /\ HandlerTo(h, UpStatus(h.msg.up))
      <4>1. g = [h EXCEPT !.pc = UpStatus(h.msg.up)]
        BY <1>2, <3>4 DEF HandlerTo
      <4>2. g.msg = h.msg /\ g.pc = UpStatus(h.msg.up) /\ g.seen = "unread"
        BY <2>4, <3>1, <4>1 DEF Handler
      <4>3. Earned(h.msg.fw, UpStatus(h.msg.up))'
        BY <2>4, <3>4, DriverEarns DEF ContentOf
      <4>4. g.pc # "DELETED"
        BY <4>2 DEF UpStatus
      <4>. QED
        BY <3>1, <4>2, <4>3, <4>4 DEF Begins
    <3>5. CASE HandlerEnds(h)
      BY <1>2, <3>5 DEF HandlerEnds
    <3>. QED
      BY <2>7, <3>2, <3>3, <3>4, <3>5 DEF InvokeDriver
  <2>8. CASE ReportBack(h)
    <3>1. /\ h.pc \in Report
          /\ CallReads(CallOf(h))
          /\ handler' = (handler \ {h}) \cup {[h EXCEPT !.seen = status[h.msg.fw]]}
      BY <1>2, <2>8 DEF ReportBack, HandlerEnds
    <3>2. g = [h EXCEPT !.seen = status[h.msg.fw]]
      BY <1>2, <3>1
    <3>3. g.msg = h.msg /\ g.pc = h.pc /\ g.seen = status[h.msg.fw]
      BY <2>4, <3>2 DEF Handler
    <3>4. CallOf(h) \in Calls
      BY <3>1, CallsHold DEF TypeOK
    <3>5. /\ CallOf(h).fw = h.msg.fw /\ CallOf(h).report = h.pc
          /\ CallOf(h).seen = "unread" /\ InDb(h.msg.fw) /\ UNCHANGED <<status, deletion>>
      BY <3>1 DEF CallReads, CallOf, dbVars
    <3>. QED
      BY <3>3, <3>4, <3>5 DEF Continues
  <2>. QED
    BY <2>3, <2>5, <2>6, <2>7, <2>8 DEF Handle
<1>. QED
  BY <1>1, <1>2

\* So does a loop.
LEMMA LoopsCall ==
  ASSUME TypeOK, [Next]_vars, NEW b \in Agent, NEW f, NEW report \in Report, NEW seen,
         task'[b].fw = f, task'[b].pc = report, task'[b].seen = seen
  PROVE  Continues(f, report, seen) \/ Begins(f, report, seen)
<1>1. CASE task'[b] = task[b]
  <2>1. TaskCall(b) \in Calls
    BY <1>1, CallsHold DEF TypeOK
  <2>2. /\ TaskCall(b).fw = task[b].fw /\ TaskCall(b).report = task[b].pc
        /\ TaskCall(b).seen = task[b].seen
    BY DEF TaskCall
  <2>. QED
    BY <1>1, <2>1, <2>2 DEF Continues
<1>2. CASE task'[b] # task[b]
  <2>0. task \in [Agent -> Task]
    BY DEF TypeOK, AgentTypeOK
  <2>1. PICK a \in Agent : Loop(a) \/ RouterAdded(a) \/ Fail(a)
    BY <1>2 DEF Next, AcceptApi, ServeApi, LateCalls, RunLateCall, HandleAt, Receive, Handle,
                GetRouters, GetRoutersFails, InvokeDriver, ReportBack, Start, vars, agentVars
  <2>2. ASSUME task' = [task EXCEPT ![a] = Idle] PROVE FALSE
    BY <1>2, <2>0, <2>2 DEF Idle, Report
  <2>3. CASE RouterAdded(a) \/ SyncStarts(a)
    BY <1>2, <2>0, <2>3 DEF RouterAdded, SyncStarts, Idle, Report, Task
  <2>4. CASE FetchFirewalls(a)
    <3>1. task'[a].pc = "read" /\ b = a
      BY <1>2, <2>0, <2>4 DEF FetchFirewalls, Task
    <3>. QED
      BY <3>1 DEF Report
  <2>5. ASSUME NEW g \in Firewall, ReadFirewall(a, g) PROVE FALSE
    <3>1. CASE InDb(g)
      <4>1. task'[a].pc = "read" /\ b = a
        BY <1>2, <2>0, <2>5, <3>1 DEF ReadFirewall, Task
      <4>. QED
        BY <4>1 DEF Report
    <3>2. CASE ~InDb(g)
      BY <2>2, <2>5, <3>2 DEF ReadFirewall
    <3>. QED
      BY <3>1, <3>2
  <2>6. CASE FirewallsFetched(a)
    <3>1. task'[a].pc = "loop" /\ b = a
      BY <1>2, <2>0, <2>6 DEF FirewallsFetched, Task
    <3>. QED
      BY <3>1 DEF Report
  <2>7. CASE FetchFails(a) \/ TaskEnds(a)
    BY <2>2, <2>7 DEF FetchFails, TaskEnds
  <2>8. CASE Fail(a)
    BY <1>2, <2>2, <2>8 DEF Fail, RouterRemoved, Crash
  <2>9. CASE SyncDriver(a)
    <3>1. PICK s \in task[a].todo :
            LET del == s.status = "PENDING_DELETE"
                c   == IF del THEN None ELSE ContentOf(s)
                to(p) == task' = [task EXCEPT ![a].pc = p, ![a].fw = s.fw,
                                              ![a].todo = @ \ {s}]
            IN \/ DriverApplies(a, s.fw, c) /\ to(IF del THEN "DELETED" ELSE UpStatus(s.up))
               \/ DriverFails(a, s.fw, c) /\ to("ERROR")
      BY <2>9 DEF SyncDriver
    <3>2. s.fw \in Firewall /\ s.up \in BOOLEAN /\ s.rev \in Nat
      BY <2>0 DEF Task, Snapshot
    <3>3. b = a
      BY <1>2, <2>0, <3>1
    <3>4. task[a].seen = "unread" /\ UNCHANGED <<status, deletion>>
      BY <2>9 DEF SyncDriver, TypeOK, AgentTypeOK, Report, pluginVars
    <3>5. /\ f = s.fw /\ seen = "unread"
          /\ \/ report = "DELETED" /\ s.status = "PENDING_DELETE"
             \/ report = "ERROR"
             \/ report = UpStatus(s.up) /\ DriverApplies(a, s.fw, ContentOf(s))
      BY <2>0, <3>1, <3>3, <3>4 DEF Task
    <3>6. report = "DELETED" => ToDelete(f)
      BY <3>5 DEF ToDelete, UpStatus
    <3>7. Earned(f, report)'
      <4>1. CASE report \in {"DELETED", "ERROR"}
        BY <4>1 DEF Earned
      <4>2. CASE report = UpStatus(s.up) /\ DriverApplies(a, s.fw, ContentOf(s))
        <5>1. DriverApplies(a, f, [up |-> s.up, rev |-> s.rev])
          BY <3>5, <4>2 DEF ContentOf
        <5>. QED
          BY <3>2, <3>5, <4>2, <5>1, DriverEarns
      <4>. QED
        BY <3>5, <4>1, <4>2
    <3>. QED
      BY <3>4, <3>5, <3>6, <3>7 DEF Begins
  <2>10. CASE SyncReport(a)
    <3>1. ASSUME task' = [task EXCEPT ![a] = [@ EXCEPT !.pc = "loop", !.fw = None,
                                                       !.seen = "unread"]]
          PROVE  FALSE
      <4>1. task'[a].pc = "loop" /\ b = a
        BY <1>2, <2>0, <3>1 DEF Task
      <4>. QED
        BY <4>1 DEF Report
    <3>2. /\ task[a].pc \in Report /\ CallReads(TaskCall(a))
          /\ task' = [task EXCEPT ![a].seen = status[task[a].fw]]
      <4>1. CASE CallAnswered(a, TaskCall(a))
        BY <2>2, <2>10, <3>1 DEF SyncReport
      <4>. QED
        BY <2>2, <2>10, <3>1 DEF SyncReport
    <3>3. /\ b = a /\ task'[a].fw = task[a].fw /\ task'[a].pc = task[a].pc
          /\ task'[a].seen = status[task[a].fw]
      BY <1>2, <2>0, <3>2 DEF Task
    <3>4. TaskCall(a) \in Calls
      BY <3>2, CallsHold DEF TypeOK
    <3>5. /\ TaskCall(a).fw = task[a].fw /\ TaskCall(a).report = task[a].pc
          /\ TaskCall(a).seen = "unread" /\ InDb(task[a].fw) /\ UNCHANGED <<status, deletion>>
      BY <3>2 DEF CallReads, TaskCall, dbVars
    <3>. QED
      BY <3>3, <3>4, <3>5 DEF Continues
  <2>. QED
    BY <2>1, <2>3, <2>4, <2>5, <2>6, <2>7, <2>8, <2>9, <2>10 DEF Loop
<1>. QED
  BY <1>1, <1>2

\* Every callback after a step goes on, or begins.
LEMMA CallsGoOn ==
  ASSUME TypeOK, [Next]_vars, NEW c \in Calls'
  PROVE  c \in Call /\ (Continues(c.fw, c.report, c.seen) \/ Begins(c.fw, c.report, c.seen))
<1>0. TypeOK'
  BY TypeStep
<1>1. ASSUME NEW h \in handler', h.pc \in Report, c = CallOf(h)
      PROVE  c \in Call /\ (Continues(c.fw, c.report, c.seen) \/ Begins(c.fw, c.report, c.seen))
  <2>1. c.fw = h.msg.fw /\ c.report = h.pc /\ c.seen = h.seen
    BY <1>1 DEF CallOf
  <2>2. c \in Call
    BY <1>0, <1>1, PluginAssumption DEF TypeOK, AgentTypeOK, Handler, Message, CallOf, Call
  <2>. QED
    BY <1>1, <2>1, <2>2, HandlersCall
<1>2. ASSUME NEW a \in Agent, task'[a].pc \in Report,
             c = [id |-> 0, fw |-> task'[a].fw, report |-> task'[a].pc, seen |-> task'[a].seen]
      PROVE  c \in Call /\ (Continues(c.fw, c.report, c.seen) \/ Begins(c.fw, c.report, c.seen))
  <2>1. task'[a].fw = c.fw /\ task'[a].pc = c.report /\ task'[a].seen = c.seen
    BY <1>2
  <2>2. task'[a] \in Task /\ task'[a].fw \in Firewall
    BY <1>0, <1>2 DEF TypeOK, AgentTypeOK
  <2>3. c \in Call /\ c.report \in Report
    BY <1>2, <2>2, PluginAssumption DEF Task, Call
  <2>. QED
    BY <2>1, <2>3, LoopsCall
<1>3. ASSUME NEW l \in late', c = l.call
      PROVE  c \in Call /\ (Continues(c.fw, c.report, c.seen) \/ Begins(c.fw, c.report, c.seen))
  <2>1. c \in Call
    BY <1>0, <1>3 DEF TypeOK, AgentTypeOK, LateCall
  <2>2. ASSUME NEW b \in Calls, b.fw = c.fw, b.report = c.report, b.seen = c.seen
        PROVE  Continues(c.fw, c.report, c.seen)
    BY <2>2 DEF Continues
  <2>3. CASE l \in late
    BY <1>3, <2>1, <2>2, <2>3, CallsHold DEF TypeOK
  <2>4. ASSUME NEW k \in late, RunLateCall(k), l \notin late
        PROVE  Continues(c.fw, c.report, c.seen)
    <3>1. /\ k.call.seen = "unread" /\ InDb(k.call.fw)
          /\ l = [k EXCEPT !.call.seen = status[k.call.fw]]
          /\ UNCHANGED <<status, deletion>>
      BY <2>4 DEF RunLateCall, dbVars
    <3>2. k.call \in Calls /\ k \in LateCall
      BY CallsHold DEF TypeOK, AgentTypeOK
    <3>3. c.fw = k.call.fw /\ c.report = k.call.report /\ c.seen = status[k.call.fw]
      BY <1>3, <3>1, <3>2 DEF LateCall, Call
    <3>. QED
      BY <3>1, <3>2, <3>3 DEF Continues
  <2>5. ASSUME NEW a, NEW b \in Calls, b \in Call, l \notin late,
               CallReads(b) \/ CallAnswered(a, b) \/ CallTimesOut(a, b)
        PROVE  Continues(c.fw, c.report, c.seen)
    <3>1. l = [cause |-> "rpc", n |-> faults["rpc"], call |-> [b EXCEPT !.id = 0]]
      BY <2>5 DEF CallReads, CallAnswered, CallTimesOut
    <3>2. c = [b EXCEPT !.id = 0]
      BY <1>3, <3>1
    <3>3. c.fw = b.fw /\ c.report = b.report /\ c.seen = b.seen
      BY <2>5, <3>2 DEF Call
    <3>. QED
      BY <2>2, <3>3
  <2>6. ASSUME NEW h \in handler, ReportBack(h), l \notin late
        PROVE  Continues(c.fw, c.report, c.seen)
    <3>1. CallOf(h) \in Calls /\ CallOf(h) \in Call
      BY <2>6, CallsHold DEF ReportBack, TypeOK
    <3>2. \/ CallReads(CallOf(h))
          \/ CallAnswered(h.agent, CallOf(h))
          \/ CallTimesOut(h.agent, CallOf(h))
      BY <2>6 DEF ReportBack
    <3>. QED
      BY <2>5, <2>6, <3>1, <3>2
  <2>7. ASSUME NEW a \in Agent, SyncReport(a), l \notin late
        PROVE  Continues(c.fw, c.report, c.seen)
    <3>1. TaskCall(a) \in Calls /\ TaskCall(a) \in Call
      BY <2>7, CallsHold DEF SyncReport, TypeOK
    <3>2. \/ CallReads(TaskCall(a)) \/ CallAnswered(a, TaskCall(a))
          \/ CallTimesOut(a, TaskCall(a))
      BY <2>7 DEF SyncReport
    <3>. QED
      BY <2>5, <2>7, <3>1, <3>2
  <2>8. ASSUME NEW a \in Agent, Crash(a), l \notin late
        PROVE  Continues(c.fw, c.report, c.seen)
    <3>1. PICK kept \in SUBSET CallsOf(a) :
            late' = late \cup {[cause |-> "crash", n |-> faults["crash"], call |-> d] : d \in kept}
      BY <2>8 DEF Crash
    <3>2. c \in CallsOf(a)
      BY <1>3, <2>8, <3>1
    <3>3. c \in Calls
      BY <3>2, CallsHold DEF CallsOf, TypeOK
    <3>. QED
      BY <2>2, <3>3
  <2>9. CASE l \notin late
    <3>1. ASSUME NEW a \in Agent, HandleAt(a)
          PROVE  Continues(c.fw, c.report, c.seen)
      BY <2>6, <2>9, <3>1 DEF HandleAt, Receive, Handle, GetRouters, GetRoutersFails, InvokeDriver
    <3>2. ASSUME NEW a \in Agent, Loop(a) \/ RouterAdded(a) \/ Start(a) \/ Fail(a)
          PROVE  Continues(c.fw, c.report, c.seen)
      BY <2>7, <2>8, <2>9, <3>2
      DEF Loop, SyncStarts, FetchFirewalls, ReadFirewall, FirewallsFetched, FetchFails,
          SyncDriver, TaskEnds, RouterAdded, Start, Fail, RouterRemoved, agentVars
    <3>3. CASE LateCalls
      <4>1. PICK k \in late : RunLateCall(k)
        BY <3>3 DEF LateCalls
      <4>. QED
        BY <2>1, <2>4, <2>9, <4>1
    <3>4. CASE AcceptApi \/ ServeApi \/ UNCHANGED vars
      BY <2>9, <3>4 DEF AcceptApi, ServeApi, vars, agentVars
    <3>5. \/ AcceptApi \/ ServeApi \/ UNCHANGED vars \/ LateCalls
          \/ \E a \in Agent : HandleAt(a) \/ Loop(a) \/ RouterAdded(a) \/ Start(a) \/ Fail(a)
      BY DEF Next
    <3>. QED
      BY <2>1, <3>1, <3>2, <3>3, <3>4, <3>5
  <2>. QED
    BY <2>1, <2>3, <2>9
<1>. QED
  BY <1>1, <1>2, <1>3, CallsAfter

\* Only create_firewall, the writes of the other requests and the ends of the agents'
\* callbacks touch the status column, what happened to a deletion, and what agents were
\* told.
LEMMA StatusWriters ==
  ASSUME TypeOK, [Next]_vars
  PROVE  \/ UNCHANGED <<status, deletion, toldDeleted>>
         \/ \E r \in serving : (Insert(r) \/ Write(r)) /\ UNCHANGED agentVars
         \/ \E c \in Calls : c \in Call /\ CallCommits(c)
<1>. USE DEF TypeOK
<1>1. CASE AcceptApi
  BY <1>1 DEF AcceptApi, ApiRequest, StartCreate, StartUpdate, StartDelete, StartEditPolicy,
              dbVars, agentVars
<1>2. CASE ServeApi
  BY <1>2 DEF ServeApi, Serve, EditPolicy, ListFirewalls, ReadFirewallRow, ReadRules, Cast,
              dbVars, agentVars
<1>3. CASE LateCalls
  BY <1>3, CallsHold DEF LateCalls, RunLateCall, dbVars
<1>4. ASSUME NEW a \in Agent, HandleAt(a)
      PROVE  \/ UNCHANGED <<status, deletion, toldDeleted>>
             \/ \E c \in Calls : c \in Call /\ CallCommits(c)
  <2>1. CASE Receive(a)
    BY <2>1 DEF Receive, dbVars
  <2>2. ASSUME NEW h \in handler, ReportBack(h)
        PROVE  \/ UNCHANGED <<status, deletion, toldDeleted>>
               \/ \E c \in Calls : c \in Call /\ CallCommits(c)
    <3>1. CallOf(h) \in Calls /\ CallOf(h) \in Call
      BY <2>2, CallsHold DEF ReportBack
    <3>. QED
      BY <2>2, <3>1 DEF ReportBack, CallReads, CallAnswered, CallTimesOut, dbVars
  <2>. QED
    BY <1>4, <2>1, <2>2
    DEF HandleAt, Handle, GetRouters, GetRoutersFails, InvokeDriver, pluginVars
<1>5. ASSUME NEW a \in Agent, Loop(a)
      PROVE  \/ UNCHANGED <<status, deletion, toldDeleted>>
             \/ \E c \in Calls : c \in Call /\ CallCommits(c)
  <2>1. CASE SyncReport(a)
    <3>1. TaskCall(a) \in Calls /\ TaskCall(a) \in Call
      BY <2>1, CallsHold DEF SyncReport
    <3>. QED
      BY <2>1, <3>1 DEF SyncReport, CallReads, CallAnswered, CallTimesOut, dbVars
  <2>. QED
    BY <1>5, <2>1
    DEF Loop, SyncStarts, FetchFirewalls, ReadFirewall, FirewallsFetched, FetchFails,
        SyncDriver, TaskEnds, pluginVars
<1>6. ASSUME NEW a \in Agent, RouterAdded(a) \/ Start(a) \/ Fail(a)
      PROVE  UNCHANGED <<status, deletion, toldDeleted>>
  BY <1>6 DEF RouterAdded, Start, Fail, RouterRemoved, Crash, pluginVars, dbVars, agentVars
<1>7. CASE UNCHANGED vars
  BY <1>7 DEF vars, pluginVars, agentVars
<1>. QED
  BY <1>1, <1>2, <1>3, <1>4, <1>5, <1>6, <1>7 DEF Next

\* A callback leaves rows that do not exist alone, takes a row away only if it saw it
\* PENDING_DELETE, and never makes one pending.
LEMMA CommitStatus ==
  ASSUME PluginTypeOK, NEW c \in Call, CallCommits(c)
  PROVE  \/ UNCHANGED <<status, deletion>>
         \/ /\ InDb(c.fw) /\ c.seen \in RowStatus \ {"PENDING_DELETE"}
            /\ \E s \in Settled : /\ SetStatus(c.fw, s)
                                  /\ s \in {"ACTIVE", "DOWN"} => s = c.report
         \/ /\ InDb(c.fw) /\ c.seen = "PENDING_DELETE" /\ c.report = "DELETED"
            /\ SetStatus(c.fw, "gone")
<1>1. CASE ~(InDb(c.fw) /\ Outcome(c) # c.seen)
  BY <1>1 DEF CallCommits
<1>2. CASE InDb(c.fw) /\ Outcome(c) # c.seen
  <2>1. c.seen # "unread"
    BY <1>2 DEF CallCommits
  <2>2. SetStatus(c.fw, Outcome(c))
    BY <1>2 DEF CallCommits
  <2>. QED
    BY <1>2, <2>1, <2>2, OutcomeType
<1>. QED
  BY <1>1, <1>2

\* What a transaction leaves in the rows.
LEMMA SetStatusIs ==
  ASSUME PluginTypeOK, NEW f \in Firewall, NEW s, SetStatus(f, s)
  PROVE  /\ status'[f] = s
         /\ \A g \in Firewall \ {f} : status'[g] = status[g] /\ deletion'[g] = deletion[g]
         /\ status[f] = "PENDING_DELETE" /\ s \notin {"PENDING_DELETE", "gone"}
              => deletion'[f] = "lost"
         /\ s = "PENDING_DELETE" => deletion'[f] # "none"
         /\ deletion[f] # "none" => deletion'[f] # "none"
         /\ deletion[f] = "lost" => deletion'[f] = "lost"
         /\ deletion'[f] = "asked" => \/ deletion[f] = "asked"
                                      \/ s = "PENDING_DELETE" /\ deletion[f] = "none"
         /\ s # "PENDING_DELETE" => deletion'[f] \in {deletion[f], "lost"}
         /\ deletion'[f] = "asked" /\ status[f] = "PENDING_DELETE" => s \in {"PENDING_DELETE", "gone"}
BY DEF SetStatus, PluginTypeOK

-----------------------------------------------------------------------------
(* A status is earned.                                                     *)

\* StatusIsEarned is not inductive: the report that will set a status has to be
\* earned while it is on its way.
EarnedInv ==
  /\ \A f \in Firewall : Earned(f, status[f])
  /\ \A c \in Calls : Earned(c.fw, c.report)

\* What was applied once stays in the history.
LEMMA AppliedGrows ==
  ASSUME TypeOK, [Next]_vars
  PROVE  \A f \in Firewall : applied[f] \subseteq applied'[f]
<1>1. ASSUME NEW a \in Agent, NEW f \in Firewall, NEW c,
             DriverApplies(a, f, c) \/ DriverFails(a, f, c)
      PROVE  \A g \in Firewall : applied[g] \subseteq applied'[g]
  BY <1>1 DEF DriverApplies, DriverFails, TypeOK, AgentTypeOK
<1>2. ASSUME NEW h \in handler, InvokeDriver(h)
      PROVE  \A g \in Firewall : applied[g] \subseteq applied'[g]
  <2>1. h.agent \in Agent /\ h.msg.fw \in Firewall
    BY DEF TypeOK, AgentTypeOK, Handler, Message
  <2>. QED
    BY <1>1, <1>2, <2>1 DEF InvokeDriver
<1>3. ASSUME NEW a \in Agent, SyncDriver(a)
      PROVE  \A g \in Firewall : applied[g] \subseteq applied'[g]
  <2>1. \A s \in task[a].todo : s.fw \in Firewall
    BY DEF TypeOK, AgentTypeOK, Task, Snapshot
  <2>. QED
    BY <1>1, <1>3, <2>1 DEF SyncDriver
<1>4. ASSUME NEW a \in Agent, Loop(a)
      PROVE  \A g \in Firewall : applied[g] \subseteq applied'[g]
  BY <1>3, <1>4 DEF Loop, SyncStarts, FetchFirewalls, ReadFirewall, FirewallsFetched, FetchFails,
                    SyncReport, TaskEnds
<1>5. ASSUME NEW h \in handler, Handle(h)
      PROVE  \A g \in Firewall : applied[g] \subseteq applied'[g]
  BY <1>2, <1>5 DEF Handle, GetRouters, GetRoutersFails, ReportBack
<1>6. ASSUME NEW a \in Agent, Receive(a) \/ RouterAdded(a) \/ Start(a) \/ Fail(a)
      PROVE  \A g \in Firewall : applied[g] \subseteq applied'[g]
  BY <1>6 DEF Receive, RouterAdded, Start, Fail, RouterRemoved, Crash, agentVars
<1>7. CASE AcceptApi \/ ServeApi \/ LateCalls \/ UNCHANGED vars
  BY <1>7 DEF AcceptApi, ServeApi, LateCalls, RunLateCall, vars, agentVars
<1>. QED
  BY <1>4, <1>5, <1>6, <1>7 DEF Next, HandleAt

\* Every step keeps the reports on their way, and the status column, earned.
LEMMA EarnedStep ==
  ASSUME TypeOK, EarnedInv, [Next]_vars
  PROVE  EarnedInv'
<1>1. \A f \in Firewall : applied[f] \subseteq applied'[f]
  BY AppliedGrows
<1>2. ASSUME NEW f \in Firewall, NEW s, Earned(f, s) PROVE Earned(f, s)'
  BY <1>1, <1>2 DEF Earned
<1>3. \A f \in Firewall : Earned(f, status[f])'
  <2>1. CASE UNCHANGED status
    BY <1>2, <2>1 DEF EarnedInv
  <2>2. ASSUME NEW r \in serving, Insert(r) \/ Write(r), UNCHANGED agentVars
        PROVE  \A f \in Firewall : Earned(f, status[f])'
    <3>1. \A f \in Firewall : status'[f] = status[f] \/ status'[f] \in Pending
      BY <2>2 DEF Insert, Write, SetStatus, Pending, TypeOK, PluginTypeOK
    <3>. QED
      BY <1>2, <3>1 DEF EarnedInv, Earned, Pending
  <2>3. ASSUME NEW c \in Calls, c \in Call, CallCommits(c)
        PROVE  \A g \in Firewall : Earned(g, status[g])'
    <3>1. Earned(c.fw, c.report) /\ c.fw \in Firewall
      BY <2>3 DEF EarnedInv, Call
    <3>2. \A g \in Firewall : \/ status'[g] = status[g]
                              \/ g = c.fw /\ status'[g] = c.report
                              \/ status'[g] \notin {"ACTIVE", "DOWN"}
      BY <2>3, <3>1, CommitStatus, SetStatusIs DEF TypeOK
    <3>. QED
      BY <1>2, <3>1, <3>2 DEF EarnedInv, Earned
  <2>. QED
    BY <2>1, <2>2, <2>3, StatusWriters
<1>4. ASSUME NEW c \in Calls' PROVE Earned(c.fw, c.report)'
  <2>1. c \in Call /\ c.fw \in Firewall
    BY <1>4, CallsGoOn DEF Call
  <2>2. CASE Continues(c.fw, c.report, c.seen)
    BY <1>2, <2>1, <2>2 DEF Continues, EarnedInv
  <2>3. CASE Begins(c.fw, c.report, c.seen)
    BY <2>3 DEF Begins
  <2>. QED
    BY <1>4, <2>2, <2>3, CallsGoOn
<1>. QED
  BY <1>3, <1>4 DEF EarnedInv

\* A firewall only reads as ACTIVE (DOWN) after a driver somewhere applied it with
\* admin_state_up true (false), whoever reported it and however late.
THEOREM StatusEarned == Spec => []StatusIsEarned
<1>1. Init => EarnedInv
  <2>1. Idle.pc \notin Report
    BY DEF Idle, Report
  <2>. QED
    BY <2>1 DEF Init, PluginInit, AgentInit, EarnedInv, Earned, Calls
<1>2. TypeOK /\ EarnedInv /\ [Next]_vars => EarnedInv'
  BY EarnedStep
<1>3. EarnedInv => StatusIsEarned
  BY DEF EarnedInv, Earned, StatusIsEarned
<1>. QED
  BY <1>1, <1>2, <1>3, TypeCorrect, PTL DEF Spec

-----------------------------------------------------------------------------
(* A deletion that was asked for.                                          *)

\* The deletion of firewall f was asked for, before a step and after it.
Asked(f)    == deletion[f] # "none"
AskedNow(f) == deletion'[f] # "none"

\* The requests, messages and snapshots that delete a firewall come from a deletion that
\* was asked for.
RequestsDelete == \A r \in serving : r.op = "delete_firewall" =>
  r.pc # "insert" /\ (r.pc \in {"read", "rules", "cast"} => Asked(r.fw))
MessagesDelete == \A a \in Agent : \A i \in 1..Len(queue[a]) :
  queue[a][i].func = "delete_firewall" => Asked(queue[a][i].fw)
HandlersDelete == \A h \in handler : h.msg.func = "delete_firewall" => Asked(h.msg.fw)
LoopsDelete == \A a \in Agent : \A s \in task[a].todo : s.status = "PENDING_DELETE" => Asked(s.fw)

\* So do the callbacks, and one that read anything but PENDING_DELETE came after the
\* deletion was undone.
CallsDelete == \A c \in Calls :
  /\ c.report = "DELETED" \/ c.seen = "PENDING_DELETE" => Asked(c.fw)
  /\ c.report = "DELETED" /\ c.seen \notin {"unread", "PENDING_DELETE"} => deletion[c.fw] = "lost"

\* The row agrees, until a deletion is undone.
RowsDelete == \A f \in Firewall :
  /\ status[f] = "PENDING_DELETE" => Asked(f)
  /\ deletion[f] = "asked" => status[f] \in {"PENDING_DELETE", "gone"}

\* A deletion is, in every stage of its way, only of rows whose deletion was asked for.
DeletionInv ==
  /\ RequestsDelete /\ MessagesDelete /\ HandlersDelete /\ LoopsDelete /\ CallsDelete
  /\ RowsDelete /\ DeletedAnswerIsTrue

\* That a deletion was asked for, or undone, stays in the history, and a row that is gone
\* never comes back.
LEMMA AskedLasts ==
  ASSUME TypeOK, [Next]_vars, NEW f \in Firewall
  PROVE  /\ Asked(f) => AskedNow(f)
         /\ deletion[f] = "lost" => deletion'[f] = "lost"
         /\ status[f] = "gone" => status'[f] = "gone"
<1>. USE DEF Asked, AskedNow
<1>1. ASSUME NEW g \in Firewall, NEW s, SetStatus(g, s), status[g] # "gone"
      PROVE  /\ deletion[f] # "none" => deletion'[f] # "none"
             /\ deletion[f] = "lost" => deletion'[f] = "lost"
             /\ status[f] = "gone" => status'[f] = "gone"
  <2>1. CASE f = g
    BY <1>1, <2>1, SetStatusIs DEF TypeOK
  <2>2. CASE f # g
    BY <1>1, <2>2, SetStatusIs DEF TypeOK
  <2>. QED
    BY <2>1, <2>2
<1>2. CASE UNCHANGED <<status, deletion>>
  BY <1>2
<1>3. ASSUME NEW r \in serving, Insert(r) \/ Write(r)
      PROVE  \/ UNCHANGED <<status, deletion>>
             \/ \E g \in Firewall, s \in Status : SetStatus(g, s) /\ status[g] # "gone"
  <2>1. CASE Insert(r)
    BY <2>1 DEF Insert, Status, RowStatus, Pending
  <2>2. CASE Write(r)
    <3>1. r.fw \in Firewall
      BY <2>2 DEF Write, TypeOK, PluginTypeOK
    <3>. QED
      BY <2>2, <3>1 DEF Write, InDb, Status, RowStatus, Pending, Settled
  <2>. QED
    BY <1>3, <2>1, <2>2
<1>4. ASSUME NEW c \in Call, CallCommits(c)
      PROVE  \/ UNCHANGED <<status, deletion>>
             \/ \E g \in Firewall, s \in Status : SetStatus(g, s) /\ status[g] # "gone"
  BY <1>4, CommitStatus DEF Call, InDb, Status, RowStatus, Pending, Settled, TypeOK
<1>. QED
  BY <1>1, <1>2, <1>3, <1>4, StatusWriters

\* The rows.
LEMMA RowsDeleteStep ==
  ASSUME TypeOK, RowsDelete, [Next]_vars
  PROVE  RowsDelete'
<1> DEFINE Fine(f) == /\ status'[f] = "PENDING_DELETE" => AskedNow(f)
                      /\ deletion'[f] = "asked" => status'[f] \in {"PENDING_DELETE", "gone"}
<1>. SUFFICES \A f \in Firewall : Fine(f)
  BY DEF RowsDelete, Asked, AskedNow
<1>1. ASSUME NEW g \in Firewall, NEW s, SetStatus(g, s), InDb(g) \/ deletion[g] = "none"
      PROVE  \A f \in Firewall : Fine(f)
  <2>1. Fine(g)
    BY <1>1, SetStatusIs
    DEF RowsDelete, Asked, AskedNow, InDb, RowStatus, Pending, Settled, TypeOK
  <2>2. \A f \in Firewall \ {g} : Fine(f)
    BY <1>1, SetStatusIs DEF RowsDelete, Asked, AskedNow, TypeOK
  <2>. QED
    BY <2>1, <2>2
<1>2. CASE UNCHANGED <<status, deletion>>
  BY <1>2 DEF RowsDelete, Asked, AskedNow
<1>3. ASSUME NEW r \in serving, Insert(r)
      PROVE  \A f \in Firewall : Fine(f)
  <2>1. PICK g \in Firewall : status[g] = "unborn" /\ SetStatus(g, "PENDING_CREATE")
    BY <1>3 DEF Insert
  <2>2. deletion[g] # "asked"
    BY <2>1 DEF RowsDelete
  <2>3. /\ \A f \in Firewall \ {g} : status'[f] = status[f] /\ deletion'[f] = deletion[f]
        /\ status'[g] = "PENDING_CREATE" /\ deletion'[g] # "asked"
    BY <2>1, <2>2, SetStatusIs DEF TypeOK
  <2>. QED
    BY <2>3 DEF RowsDelete, Asked, AskedNow
<1>. HIDE DEF Fine
<1>4. ASSUME NEW r \in serving, Write(r)
      PROVE  \A f \in Firewall : Fine(f)
  <2>1. r.fw \in Firewall
    BY <1>4 DEF Write, TypeOK, PluginTypeOK
  <2>. QED
    BY <1>1, <1>2, <1>4, <2>1 DEF Write
<1>5. ASSUME NEW c \in Call, CallCommits(c)
      PROVE  \A f \in Firewall : Fine(f)
  BY <1>1, <1>2, <1>5, CommitStatus DEF Call, TypeOK
<1>. QED
  BY <1>2, <1>3, <1>4, <1>5, StatusWriters

\* The callbacks.
LEMMA CallsDeleteStep ==
  ASSUME TypeOK, DeletionInv, [Next]_vars
  PROVE  CallsDelete'
<1>. SUFFICES ASSUME NEW c \in Calls'
              PROVE  /\ c.report = "DELETED" \/ c.seen = "PENDING_DELETE" => AskedNow(c.fw)
                     /\ c.report = "DELETED" /\ c.seen \notin {"unread", "PENDING_DELETE"}
                          => deletion'[c.fw] = "lost"
  BY DEF CallsDelete, Asked, AskedNow
<1>1. c.fw \in Firewall /\ (Continues(c.fw, c.report, c.seen) \/ Begins(c.fw, c.report, c.seen))
  BY CallsGoOn DEF Call
<1>2. /\ Asked(c.fw) => AskedNow(c.fw)
      /\ deletion[c.fw] = "lost" => deletion'[c.fw] = "lost"
  BY <1>1, AskedLasts
<1>3. CASE Begins(c.fw, c.report, c.seen)
  <2>1. c.seen = "unread" /\ (c.report = "DELETED" => ToDelete(c.fw))
    BY <1>3 DEF Begins
  <2>2. ToDelete(c.fw) => Asked(c.fw)
    BY DEF ToDelete, DeletionInv, HandlersDelete, LoopsDelete
  <2>. QED
    BY <1>2, <2>1, <2>2
<1>4. CASE Continues(c.fw, c.report, c.seen)
  <2>1. PICK b \in Calls : /\ b.fw = c.fw /\ b.report = c.report
                           /\ \/ c.seen = b.seen
                              \/ /\ b.seen = "unread" /\ InDb(c.fw) /\ c.seen = status[c.fw]
                                 /\ UNCHANGED <<status, deletion>>
    BY <1>4 DEF Continues
  <2>2. b.report = "DELETED" => Asked(b.fw)
    BY DEF DeletionInv, CallsDelete
  <2>3. CASE c.seen = b.seen
    BY <1>2, <2>1, <2>2, <2>3 DEF DeletionInv, CallsDelete
  <2>4. CASE InDb(c.fw) /\ c.seen = status[c.fw]
    <3>1. c.seen = "PENDING_DELETE" => Asked(c.fw)
      BY <1>1, <2>4 DEF DeletionInv, RowsDelete
    <3>2. c.seen # "PENDING_DELETE" => deletion[c.fw] # "asked"
      BY <1>1, <2>4 DEF DeletionInv, RowsDelete, InDb, RowStatus, Pending, Settled
    <3>3. deletion[c.fw] \in {"none", "asked", "lost"}
      BY <1>1 DEF TypeOK, PluginTypeOK
    <3>. QED
      BY <1>2, <2>1, <2>2, <3>1, <3>2, <3>3 DEF Asked
  <2>. QED
    BY <2>1, <2>3, <2>4
<1>. QED
  BY <1>1, <1>3, <1>4

\* A callback answers True only for a row that is gone by then, or whose deletion was
\* undone.
LEMMA AnswersDelete ==
  ASSUME TypeOK, DeletionInv, [Next]_vars
  PROVE  DeletedAnswerIsTrue'
<1>1. \A f \in toldDeleted : status'[f] = "gone" \/ deletion'[f] = "lost"
  BY AskedLasts DEF DeletionInv, DeletedAnswerIsTrue, TypeOK, AgentTypeOK
<1>2. CASE UNCHANGED toldDeleted
  BY <1>1, <1>2 DEF DeletedAnswerIsTrue
<1>3. ASSUME NEW c \in Calls, c \in Call, CallCommits(c)
      PROVE  DeletedAnswerIsTrue'
  <2>1. CASE c.report = "DELETED" /\ AnswersDeleted(c.seen) /\ ~Raises(c)
    <3>1. c.fw \in Firewall /\ c.seen # "unread"
      BY <1>3, <2>1 DEF Call, AnswersDeleted
    <3>2. CASE c.seen = "PENDING_DELETE"
      <4>1. Outcome(c) = "gone" /\ Outcome(c) # c.seen
        BY <2>1, <3>2 DEF Outcome, FirewallDeleted, DeleteDbFirewallObject
      <4>2. InDb(c.fw)
        BY <2>1, <3>1, <4>1 DEF Raises
      <4>3. status'[c.fw] = "gone"
        BY <1>3, <3>1, <4>1, <4>2, SetStatusIs DEF CallCommits, TypeOK
      <4>. QED
        BY <1>1, <1>3, <4>3 DEF CallCommits, DeletedAnswerIsTrue
    <3>3. CASE c.seen # "PENDING_DELETE"
      <4>1. deletion[c.fw] = "lost"
        BY <2>1, <3>1, <3>3 DEF DeletionInv, CallsDelete
      <4>2. deletion'[c.fw] = "lost"
        BY <3>1, <4>1, AskedLasts
      <4>. QED
        BY <1>1, <1>3, <4>2 DEF CallCommits, DeletedAnswerIsTrue
    <3>. QED
      BY <3>2, <3>3
  <2>2. CASE ~(c.report = "DELETED" /\ AnswersDeleted(c.seen) /\ ~Raises(c))
    BY <1>2, <1>3, <2>2 DEF CallCommits
  <2>. QED
    BY <2>1, <2>2
<1>4. ASSUME NEW r \in serving, UNCHANGED agentVars
      PROVE  DeletedAnswerIsTrue'
  BY <1>2, <1>4 DEF agentVars
<1>. QED
  BY <1>2, <1>3, <1>4, StatusWriters

\* Only requests touch the requests in progress.
LEMMA ServingWriters ==
  ASSUME [Next]_vars
  PROVE  UNCHANGED serving \/ AcceptApi \/ ServeApi
<1>1. ASSUME NEW a \in Agent, HandleAt(a) PROVE UNCHANGED serving
  BY <1>1 DEF HandleAt, Receive, Handle, GetRouters, GetRoutersFails, InvokeDriver, ReportBack,
              CallReads, CallAnswered, CallTimesOut, CallCommits, pluginVars
<1>2. ASSUME NEW a \in Agent, Loop(a) PROVE UNCHANGED serving
  BY <1>2 DEF Loop, SyncStarts, FetchFirewalls, ReadFirewall, FirewallsFetched, FetchFails, SyncDriver,
              SyncReport, TaskEnds, CallReads, CallAnswered, CallTimesOut, CallCommits, pluginVars
<1>3. ASSUME NEW a \in Agent, RouterAdded(a) \/ Start(a) \/ Fail(a) PROVE UNCHANGED serving
  BY <1>3 DEF RouterAdded, Start, Fail, RouterRemoved, Crash, pluginVars
<1>4. CASE LateCalls \/ UNCHANGED vars
  BY <1>4 DEF LateCalls, RunLateCall, CallCommits, vars, pluginVars
<1>. QED
  BY <1>1, <1>2, <1>3, <1>4 DEF Next

\* A request that pushes a policy is about to write.
LEMMA PushedWrites ==
  ASSUME NEW q \in Request, NEW todo, PushNext(q, todo)
  PROVE  \A r \in serving' \ serving : r.pc = "write"
<1>1. ASSUME NEW f, Become(q, [q EXCEPT !.pc = "write", !.fw = f, !.todo = todo \ {f}])
      PROVE  \A r \in serving' \ serving : r.pc = "write"
  <2> DEFINE next == [q EXCEPT !.pc = "write", !.fw = f, !.todo = todo \ {f}]
  <2>1. next.pc = "write"
    BY DEF Request
  <2>. HIDE DEF next
  <2>. QED
    BY <1>1, <2>1 DEF Become, next
<1>. QED
  BY <1>1 DEF PushNext, End

\* The requests: a deletion is cast after it was written.
LEMMA RequestsDeleteStep ==
  ASSUME TypeOK, DeletionInv, [Next]_vars
  PROVE  RequestsDelete'
<1> DEFINE Fine(r) == r.op = "delete_firewall" =>
                        /\ r.pc # "insert"
                        /\ r.pc \in {"read", "rules", "cast"} => AskedNow(r.fw)
<1>. SUFFICES \A r \in serving' : Fine(r)
  BY DEF RequestsDelete, Asked, AskedNow
<1>1. ASSUME NEW r \in serving' \cap serving PROVE Fine(r)
  BY <1>1, AskedLasts DEF DeletionInv, RequestsDelete, TypeOK, PluginTypeOK, Request
<1>2. CASE AcceptApi
  <2>1. \A r \in serving' \ serving : Fine(r)
    BY <1>2 DEF AcceptApi, ApiRequest, StartCreate, StartUpdate, StartDelete, StartEditPolicy, Accept
  <2>. QED
    BY <1>1, <2>1
<1>3. ASSUME NEW q \in serving, Serve(q), NEW r \in serving' \ serving PROVE Fine(r)
  <2>1. q \in Request
    BY DEF TypeOK, PluginTypeOK
  <2>2. q.op = "delete_firewall" =>
          /\ q.pc # "insert"
          /\ q.pc \in {"read", "rules", "cast"} => q.fw \in Firewall /\ AskedNow(q.fw)
    BY AskedLasts DEF DeletionInv, RequestsDelete, TypeOK, PluginTypeOK
  <2>3. CASE Insert(q)
    <3>1. PICK f \in Firewall : r = [q EXCEPT !.pc = "read", !.fw = f]
      BY <1>3, <2>3 DEF Insert, Become
    <3>2. r.op = q.op /\ q.pc = "insert"
      BY <2>1, <2>3, <3>1 DEF Insert, Request
    <3>. QED
      BY <2>2, <3>2
  <2>4. CASE EditPolicy(q)
    <3>1. r = [q EXCEPT !.pc = "list"]
      BY <1>3, <2>4 DEF EditPolicy, Become
    <3>2. r.pc = "list"
      BY <2>1, <3>1 DEF Request
    <3>. QED
      BY <3>2
  <2>5. CASE ListFirewalls(q) \/ Cast(q)
    BY <1>3, <2>1, <2>5, PushedWrites DEF ListFirewalls, Cast
  <2>6. CASE Write(q)
    <3>1. q.fw \in Firewall /\ InDb(q.fw) /\ Become(q, [q EXCEPT !.pc = "read"])
      BY <1>3, <2>6 DEF Write, End, TypeOK, PluginTypeOK
    <3>2. r.op = q.op /\ r.fw = q.fw /\ r.pc = "read"
      BY <1>3, <2>1, <3>1 DEF Become, Request
    <3>3. q.op = "delete_firewall" => AskedNow(q.fw)
      BY <2>6, <3>1, SetStatusIs DEF Write, AskedNow, TypeOK
    <3>. QED
      BY <3>2, <3>3
  <2>7. CASE ReadFirewallRow(q) \/ ReadRules(q)
    <3>1. /\ q.pc \in {"read", "rules"}
          /\ \/ Become(q, [q EXCEPT !.pc = "rules", !.up = adminUp[q.fw]])
             \/ Become(q, [q EXCEPT !.pc = "cast", !.rev = rev])
      BY <1>3, <2>7 DEF ReadFirewallRow, ReadRules, End
    <3>2. \/ r = [q EXCEPT !.pc = "rules", !.up = adminUp[q.fw]]
          \/ r = [q EXCEPT !.pc = "cast", !.rev = rev]
      BY <1>3, <3>1 DEF Become
    <3>3. r.op = q.op /\ r.fw = q.fw /\ r.pc \in {"rules", "cast"}
      BY <2>1, <3>2 DEF Request
    <3>. QED
      BY <2>2, <3>1, <3>3
  <2>. QED
    BY <1>3, <2>3, <2>4, <2>5, <2>6, <2>7 DEF Serve
<1>. HIDE DEF Fine
<1>. QED
  BY <1>1, <1>2, <1>3, ServingWriters DEF ServeApi

\* The messages.
LEMMA MessagesDeleteStep ==
  ASSUME TypeOK, DeletionInv, [Next]_vars
  PROVE  MessagesDelete'
<1>. SUFFICES \A b \in Agent : \A i \in 1..Len(queue'[b]) :
                queue'[b][i].func = "delete_firewall" => AskedNow(queue'[b][i].fw)
  BY DEF MessagesDelete, Asked, AskedNow
<1>1. queue \in [Agent -> Seq(Message)]
  BY DEF TypeOK, PluginTypeOK
<1>2. ASSUME NEW a \in Agent, NEW i \in 1..Len(queue[a]), queue[a][i].func = "delete_firewall"
      PROVE  AskedNow(queue[a][i].fw)
  <2>1. queue[a][i] \in Message
    BY <1>1
  <2>. QED
    BY <1>2, <2>1, AskedLasts DEF DeletionInv, MessagesDelete, Message
<1>3. CASE UNCHANGED queue
  BY <1>2, <1>3
<1>4. ASSUME NEW a \in Agent, Receive(a) \/ Crash(a)
      PROVE  \A b \in Agent : \A i \in 1..Len(queue'[b]) :
               queue'[b][i].func = "delete_firewall" => AskedNow(queue'[b][i].fw)
  <2>1. \A b \in Agent : \/ queue'[b] = queue[b]
                         \/ queue'[b] = <<>>
                         \/ queue[b] # <<>> /\ queue'[b] = Tail(queue[b])
    BY <1>1, <1>4 DEF Receive, Crash
  <2>2. ASSUME NEW b \in Agent, queue[b] # <<>>, queue'[b] = Tail(queue[b]), NEW i \in 1..Len(queue'[b])
        PROVE  i + 1 \in 1..Len(queue[b]) /\ queue'[b][i] = queue[b][i + 1]
    BY <1>1, <2>2
  <2>3. ASSUME NEW b \in Agent, NEW i \in 1..Len(queue'[b]),
               queue'[b][i].func = "delete_firewall"
        PROVE  AskedNow(queue'[b][i].fw)
    <3>1. CASE queue'[b] = queue[b]
      BY <1>2, <2>3, <3>1
    <3>2. CASE queue[b] # <<>> /\ queue'[b] = Tail(queue[b])
      <4>1. i + 1 \in 1..Len(queue[b]) /\ queue'[b][i] = queue[b][i + 1]
        BY <2>2, <3>2
      <4>. QED
        BY <1>2, <2>3, <4>1
    <3>3. queue'[b] # <<>>
      BY <2>3
    <3>. QED
      BY <2>1, <3>1, <3>2, <3>3
  <2>. QED
    BY <2>3
<1>5. ASSUME NEW r \in serving, Cast(r)
      PROVE  \A b \in Agent : \A i \in 1..Len(queue'[b]) :
               queue'[b][i].func = "delete_firewall" => AskedNow(queue'[b][i].fw)
  <2> DEFINE m == MessageOf(r)
  <2>1. r \in Request /\ r.fw \in Firewall /\ r.pc = "cast"
    BY <1>5 DEF Cast, TypeOK, PluginTypeOK
  <2>2. m.func = "delete_firewall" => r.op = "delete_firewall"
    BY DEF MessageOf
  <2>3. m.fw = r.fw
    BY DEF MessageOf
  <2>4. m.func = "delete_firewall" => AskedNow(m.fw)
    BY <2>1, <2>2, <2>3, AskedLasts DEF DeletionInv, RequestsDelete
  <2>5. \A b \in Agent : queue'[b] = queue[b] \/ queue'[b] = Append(queue[b], m)
    BY <1>1, <1>5 DEF Cast
  <2>6. m \in Message
    BY <2>1 DEF MessageOf, Message, Request, Operation, Func
  <2>. HIDE DEF m
  <2>7. ASSUME NEW b \in Agent, queue'[b] = Append(queue[b], m), NEW i \in 1..Len(queue'[b])
        PROVE  \/ i \in 1..Len(queue[b]) /\ queue'[b][i] = queue[b][i]
               \/ queue'[b][i] = m
    BY <1>1, <2>6, <2>7
  <2>. QED
    BY <1>2, <2>4, <2>5, <2>7
<1>6. CASE AcceptApi
  BY <1>3, <1>6 DEF AcceptApi, ApiRequest, StartCreate, StartUpdate, StartDelete, StartEditPolicy
<1>7. CASE ServeApi
  BY <1>3, <1>5, <1>7 DEF ServeApi, Serve, Insert, Write, EditPolicy, ListFirewalls,
                         ReadFirewallRow, ReadRules
<1>8. ASSUME NEW a \in Agent, HandleAt(a) \/ Loop(a) \/ RouterAdded(a) \/ Start(a) \/ Fail(a)
      PROVE  UNCHANGED queue \/ Receive(a) \/ Crash(a)
  BY <1>8 DEF HandleAt, Handle, GetRouters, GetRoutersFails, InvokeDriver, ReportBack,
              Loop, SyncStarts, FetchFirewalls, ReadFirewall, FirewallsFetched, FetchFails,
              SyncDriver, SyncReport, TaskEnds,
              RouterAdded, Start, Fail, RouterRemoved, pluginVars
<1>9. CASE LateCalls \/ UNCHANGED vars
  BY <1>3, <1>9 DEF LateCalls, RunLateCall, vars, pluginVars
<1>. QED
  BY <1>3, <1>4, <1>6, <1>7, <1>8, <1>9 DEF Next

\* The handlers.
LEMMA HandlersDeleteStep ==
  ASSUME TypeOK, DeletionInv, [Next]_vars
  PROVE  HandlersDelete'
<1>. SUFFICES ASSUME NEW h \in handler', h.msg.func = "delete_firewall"
              PROVE  AskedNow(h.msg.fw)
  BY DEF HandlersDelete, Asked, AskedNow
<1>1. ASSUME NEW g \in handler, g.msg = h.msg PROVE AskedNow(h.msg.fw)
  BY <1>1, AskedLasts DEF DeletionInv, HandlersDelete, TypeOK, AgentTypeOK, Handler, Message
<1>2. ASSUME NEW a \in Agent, Receive(a), h \notin handler PROVE AskedNow(h.msg.fw)
  <2>1. /\ queue[a] \in Seq(Message) /\ queue[a] # <<>>
        /\ h.msg = Head(queue[a])
    BY <1>2 DEF Receive, TypeOK, PluginTypeOK
  <2>2. Head(queue[a]) = queue[a][1] /\ 1 \in 1..Len(queue[a]) /\ queue[a][1] \in Message
    BY <2>1
  <2>. QED
    BY <2>1, <2>2, AskedLasts DEF DeletionInv, MessagesDelete, Message
<1>3. ASSUME NEW g \in handler, Handle(g), h \notin handler PROVE h.msg = g.msg
  <2>1. g \in Handler
    BY DEF TypeOK, AgentTypeOK
  <2>. QED
    BY <1>3, <2>1
    DEF Handle, GetRouters, GetRoutersFails, InvokeDriver, ReportBack, HandlerTo, HandlerEnds,
        Handler
<1>4. ASSUME NEW a \in Agent, Loop(a) \/ RouterAdded(a) \/ Start(a) \/ Fail(a)
      PROVE  handler' \subseteq handler
  BY <1>4 DEF Loop, SyncStarts, FetchFirewalls, ReadFirewall, FirewallsFetched, FetchFails,
              SyncDriver, SyncReport, TaskEnds, RouterAdded, Start, Fail, RouterRemoved, Crash,
              agentVars
<1>5. CASE AcceptApi \/ ServeApi \/ LateCalls \/ UNCHANGED vars
  BY <1>1, <1>5 DEF AcceptApi, ServeApi, LateCalls, RunLateCall, vars, agentVars
<1>. QED
  BY <1>1, <1>2, <1>3, <1>4, <1>5 DEF Next, HandleAt

\* The loops: what they are to delete was PENDING_DELETE when they read it.
LEMMA LoopsDeleteStep ==
  ASSUME TypeOK, DeletionInv, [Next]_vars
  PROVE  LoopsDelete'
<1> DEFINE Right(todo) == \A s \in todo : s.status = "PENDING_DELETE" => AskedNow(s.fw)
<1>. SUFFICES \A b \in Agent : Right(task'[b].todo)
  BY DEF LoopsDelete, Asked, AskedNow
<1>1. task \in [Agent -> Task]
  BY DEF TypeOK, AgentTypeOK
<1>2. ASSUME NEW a \in Agent PROVE Right(task[a].todo)
  BY <1>1, AskedLasts DEF DeletionInv, LoopsDelete, Task, Snapshot
<1>3. ASSUME NEW a \in Agent, FirewallsFetched(a)
      PROVE  \A b \in Agent : task'[b].todo \subseteq task[b].todo
  BY <1>1, <1>3 DEF FirewallsFetched, Task
<1>4. ASSUME NEW a \in Agent, SyncStarts(a) \/ RouterAdded(a) \/ FetchFirewalls(a)
      PROVE  \A b \in Agent : task'[b].todo = task[b].todo
  BY <1>1, <1>4 DEF SyncStarts, RouterAdded, FetchFirewalls, Task
<1>5. ASSUME NEW a \in Agent, NEW f \in Firewall, ReadFirewall(a, f)
      PROVE  \A b \in Agent : Right(task'[b].todo)
  <2>1. CASE ~InDb(f)
    <3>1. task' = [task EXCEPT ![a] = Idle] /\ Idle.todo = {}
      BY <1>5, <2>1 DEF ReadFirewall, Idle
    <3>. QED
      BY <1>1, <1>2, <3>1
  <2>2. CASE InDb(f)
    <3> DEFINE s == [fw |-> f, up |-> adminUp[f], rev |-> rev, status |-> status[f]]
    <3>1. s.fw = f /\ s.status = status[f]
      OBVIOUS
    <3>2. \A b \in Agent : task'[b].todo \subseteq task[b].todo \cup {s}
      BY <1>1, <1>5, <2>2 DEF ReadFirewall, Task
    <3>3. s.status = "PENDING_DELETE" => AskedNow(s.fw)
      BY <3>1, AskedLasts DEF DeletionInv, RowsDelete
    <3>. HIDE DEF s
    <3>. QED
      BY <1>2, <3>2, <3>3
  <2>. QED
    BY <2>1, <2>2
<1>6. ASSUME NEW a \in Agent, SyncDriver(a)
      PROVE  \A b \in Agent : task'[b].todo \subseteq task[b].todo
  BY <1>1, <1>6 DEF SyncDriver, Task
<1>7. ASSUME NEW a \in Agent, task' = [task EXCEPT ![a] = Idle]
      PROVE  \A b \in Agent : task'[b].todo \subseteq task[b].todo
  <2>1. Idle.todo = {}
    BY DEF Idle
  <2>. QED
    BY <1>1, <1>7, <2>1
<1>8. ASSUME NEW a \in Agent, SyncReport(a)
      PROVE  \A b \in Agent : task'[b].todo \subseteq task[b].todo
  <2>1. CASE task' = [task EXCEPT ![a].seen = status[task[a].fw]]
    BY <1>1, <2>1 DEF Task
  <2>2. CASE task' = [task EXCEPT ![a] = [@ EXCEPT !.pc = "loop", !.fw = None,
                                                   !.seen = "unread"]]
    BY <1>1, <2>2 DEF Task
  <2>. QED
    BY <1>7, <1>8, <2>1, <2>2 DEF SyncReport
<1>9. ASSUME NEW a \in Agent, FetchFails(a) \/ TaskEnds(a) \/ Fail(a) \/ Start(a)
      PROVE  \A b \in Agent : task'[b].todo \subseteq task[b].todo
  <2>1. UNCHANGED task \/ task' = [task EXCEPT ![a] = Idle]
    BY <1>9 DEF FetchFails, TaskEnds, Fail, RouterRemoved, Crash, Start, agentVars
  <2>. QED
    BY <1>7, <2>1
<1>10. ASSUME NEW a \in Agent, HandleAt(a) PROVE UNCHANGED task
  BY <1>10 DEF HandleAt, Receive, Handle, GetRouters, GetRoutersFails, InvokeDriver, ReportBack
<1>11. CASE AcceptApi \/ ServeApi \/ LateCalls \/ UNCHANGED vars
  BY <1>2, <1>11 DEF AcceptApi, ServeApi, LateCalls, RunLateCall, vars, agentVars
<1>12. ASSUME \A b \in Agent : task'[b].todo \subseteq task[b].todo
       PROVE  \A b \in Agent : Right(task'[b].todo)
  BY <1>2, <1>12
<1>. HIDE DEF Right
<1>. QED
  BY <1>3, <1>4, <1>5, <1>6, <1>8, <1>9, <1>10, <1>11, <1>12 DEF Next, Loop

\* Every step keeps the deletions right, whatever requests run side by side.
LEMMA DeletionStep ==
  ASSUME TypeOK, DeletionInv, [Next]_vars
  PROVE  DeletionInv'
<1>1. RowsDelete'
  BY RowsDeleteStep DEF DeletionInv
<1>. QED
  BY <1>1, RequestsDeleteStep, MessagesDeleteStep, HandlersDeleteStep, LoopsDeleteStep,
     CallsDeleteStep, AnswersDelete DEF DeletionInv

\* They are right to begin with.
LEMMA DeletionInit ==
  ASSUME Init
  PROVE  DeletionInv
<1>1. Idle.todo = {} /\ Idle.pc \notin Report
  BY DEF Idle, Report
<1>. QED
  BY <1>1 DEF Init, PluginInit, AgentInit, DeletionInv, RequestsDelete, MessagesDelete,
              HandlersDelete, LoopsDelete, CallsDelete, RowsDelete, DeletedAnswerIsTrue, Calls

\* A row goes away only once the user asked for it, and its uuid never comes back, however
\* many requests, handlers and late calls read and write the row side by side.
THEOREM DeletedRowsGo == Spec => OnlyDeletedRowsGo
<1> DEFINE Step == \A f \in Firewall :
                     /\ status'[f] = "gone" => status[f] = "gone" \/ deletion[f] # "none"
                     /\ status[f] = "gone"  => status'[f] = "gone"
<1>1. TypeOK /\ DeletionInv /\ [Next]_vars => [Step]_vars
  <2>. SUFFICES ASSUME TypeOK, DeletionInv, [Next]_vars PROVE Step
    OBVIOUS
  <2>1. \A f \in Firewall : status[f] = "gone" => status'[f] = "gone"
    BY AskedLasts
  <2>2. ASSUME NEW f \in Firewall, status'[f] = "gone", status[f] # "gone"
        PROVE  deletion[f] # "none"
    <3>1. ASSUME NEW r \in serving, Insert(r) \/ Write(r) PROVE FALSE
      BY <2>2, <3>1 DEF Insert, Write, SetStatus, TypeOK, PluginTypeOK
    <3>2. PICK c \in Calls : c \in Call /\ CallCommits(c)
      BY <2>2, <3>1, StatusWriters
    <3>3. c.seen = "PENDING_DELETE" /\ f = c.fw
      BY <2>2, <3>2, CommitStatus, SetStatusIs DEF Call, Settled, TypeOK
    <3>. QED
      BY <3>3 DEF DeletionInv, CallsDelete, Asked
  <2>. QED
    BY <2>1, <2>2
<1>2. Init => DeletionInv
  BY DeletionInit
<1>3. TypeOK /\ DeletionInv /\ [Next]_vars => DeletionInv'
  BY DeletionStep
<1>. QED
  BY <1>1, <1>2, <1>3, TypeCorrect, PTL DEF Spec, OnlyDeletedRowsGo

\* An agent that firewall_deleted answers True need not care for the row any more, though
\* it repeats the report, or it comes late: the row is gone, or a report that read it
\* before the deletion undid the deletion.
THEOREM DeletedAnswer == Spec => []DeletedAnswerIsTrue
<1>1. Init => DeletionInv
  BY DeletionInit
<1>2. TypeOK /\ DeletionInv /\ [Next]_vars => DeletionInv'
  BY DeletionStep
<1>3. DeletionInv => DeletedAnswerIsTrue
  BY DEF DeletionInv
<1>. QED
  BY <1>1, <1>2, <1>3, TypeCorrect, PTL DEF Spec

-----------------------------------------------------------------------------
(* With one API worker, the rows follow the life cycle.                    *)

\* What a request that is served alone may rely on: what it checked when it was
\* accepted still holds when it writes.
StillAllowed(r) ==
  /\ r.op = "create_firewall" => /\ r.pc \in {"insert", "read", "rules", "cast"}
                                 /\ r.pc = "insert" => \A f \in Firewall : ~InDb(f)
  /\ r.op = "update_firewall" => /\ r.pc \in {"write", "read", "rules", "cast"}
                                 /\ r.pc = "write" => status[r.fw] \notin Pending
  /\ r.op = "delete_firewall" => r.pc \in {"write", "read", "rules", "cast"}
  /\ r.op = "edit_policy"     => /\ r.pc # "insert" /\ r.fw \notin r.todo
                                 /\ \A f \in r.todo : status[f] \notin Pending
                                 /\ r.pc = "write" => status[r.fw] \notin Pending
                                 /\ r.pc \in {"edit", "list"} =>
                                      \A f \in Firewall : status[f] \notin Pending
  /\ r.op # "edit_policy"     => r.todo = {}

\* At most one request is in progress, and what it checked still holds.
SerialInv ==
  /\ serving = {} \/ \E r \in serving : serving = {r}
  /\ \A r \in serving : StillAllowed(r)

\* With one worker a request is accepted only once the one before it ended.
LEMMA AcceptedAlone ==
  ASSUME ApiWorkers = 1, SerialInv, NEW op, NEW pc, NEW f, NEW up, Accept(op, pc, f, up)
  PROVE  /\ serving = {}
         /\ serving' = {[id |-> requests', op |-> op, pc |-> pc, fw |-> f,
                         up |-> up, rev |-> 0, todo |-> {}]}
<1>1. serving = {}
  <2>1. ASSUME NEW r, serving = {r} PROVE FALSE
    <3>1. Cardinality(serving) = 1
      BY <2>1, FS_Singleton
    <3>. QED
      BY <3>1 DEF Accept
  <2>. QED
    BY <2>1 DEF SerialInv
<1>. QED
  BY <1>1 DEF Accept

\* Accepting a request establishes what it relies on.
LEMMA AcceptSerial ==
  ASSUME TypeOK, SerialInv, ApiWorkers = 1, ApiRequest
  PROVE  SerialInv'
<1>1. ASSUME NEW op \in Operation, NEW pc \in {"insert", "write", "edit"},
             NEW f \in Firewall \cup {None}, NEW up \in BOOLEAN, Accept(op, pc, f, up),
             \A r : r.op = op /\ r.pc = pc /\ r.fw = f /\ r.todo = {} => StillAllowed(r)'
      PROVE  SerialInv'
  <2> DEFINE r == [id |-> requests', op |-> op, pc |-> pc, fw |-> f,
                   up |-> up, rev |-> 0, todo |-> {}]
  <2>1. serving' = {r}
    BY <1>1, AcceptedAlone
  <2>2. r.op = op /\ r.pc = pc /\ r.fw = f /\ r.todo = {}
    OBVIOUS
  <2>. HIDE DEF r
  <2>. QED
    BY <1>1, <2>1, <2>2 DEF SerialInv
<1>2. ASSUME NEW up \in BOOLEAN, StartCreate(up) PROVE SerialInv'
  <2>1. \A r : r.op = "create_firewall" /\ r.pc = "insert" /\ r.todo = {} => StillAllowed(r)'
    BY <1>2 DEF StartCreate, StillAllowed, InDb, dbVars
  <2>. QED
    BY <1>1, <1>2, <2>1 DEF StartCreate, Operation
<1>3. ASSUME NEW f \in Firewall, NEW up \in BOOLEAN, StartUpdate(f, up) PROVE SerialInv'
  <2>1. \A r : r.op = "update_firewall" /\ r.pc = "write" /\ r.fw = f /\ r.todo = {}
                 => StillAllowed(r)'
    BY <1>3 DEF StartUpdate, StillAllowed, dbVars
  <2>. QED
    BY <1>1, <1>3, <2>1 DEF StartUpdate, Operation
<1>4. ASSUME NEW f \in Firewall, StartDelete(f) PROVE SerialInv'
  <2>1. \A r : r.op = "delete_firewall" /\ r.pc = "write" /\ r.todo = {} => StillAllowed(r)'
    BY DEF StillAllowed
  <2>. QED
    BY <1>1, <1>4, <2>1 DEF StartDelete, Operation
<1>5. CASE StartEditPolicy
  <2>1. \A r : r.op = "edit_policy" /\ r.pc = "edit" /\ r.todo = {} => StillAllowed(r)'
    BY <1>5 DEF StartEditPolicy, StillAllowed, dbVars
  <2>. QED
    BY <1>1, <1>5, <2>1 DEF StartEditPolicy, Operation
<1>. QED
  BY <1>2, <1>3, <1>4, <1>5 DEF ApiRequest

\* So does every step of its own.
LEMMA ServeSerial ==
  ASSUME TypeOK, SerialInv, NEW r \in serving, Serve(r)
  PROVE  SerialInv'
<1>1. serving = {r} /\ StillAllowed(r) /\ r \in Request
  BY DEF SerialInv, TypeOK, PluginTypeOK
<1>2. status \in [Firewall -> Status]
  BY DEF TypeOK, PluginTypeOK
<1>3. ASSUME NEW next, Become(r, next), StillAllowed(next)' PROVE SerialInv'
  BY <1>1, <1>3 DEF Become, SerialInv
<1>4. ASSUME End(r) PROVE SerialInv'
  BY <1>1, <1>4 DEF End, SerialInv
<1>5. ASSUME NEW todo \in SUBSET Firewall, PushNext(r, todo), UNCHANGED status,
             r.op = "edit_policy" \/ todo = {},
             \A f \in todo : status[f] \notin Pending
      PROVE  SerialInv'
  <2>1. ASSUME NEW f \in todo,
               Become(r, [r EXCEPT !.pc = "write", !.fw = f, !.todo = todo \ {f}])
        PROVE  SerialInv'
    <3> DEFINE next == [r EXCEPT !.pc = "write", !.fw = f, !.todo = todo \ {f}]
    <3>1. /\ next.op = "edit_policy" /\ next.pc = "write" /\ next.fw = f
          /\ next.todo = todo \ {f}
      BY <1>1, <1>5 DEF Request
    <3>2. StillAllowed(next)'
      <4>. HIDE DEF next
      <4>. QED
        BY <1>5, <3>1 DEF StillAllowed
    <3>. QED
      BY <1>3, <2>1, <3>2
  <2>. QED
    BY <1>4, <1>5, <2>1 DEF PushNext
<1>6. CASE Insert(r)
  <2>1. PICK f \in Firewall : Become(r, [r EXCEPT !.pc = "read", !.fw = f])
    BY <1>6 DEF Insert
  <2> DEFINE next == [r EXCEPT !.pc = "read", !.fw = f]
  <2>2. next.op = r.op /\ next.pc = "read" /\ next.todo = r.todo
    BY <1>1 DEF Request
  <2>3. r.op = "create_firewall"
    BY <1>1, <1>6 DEF Insert, StillAllowed, Request, Operation
  <2>4. StillAllowed(next)'
    BY <1>1, <2>2, <2>3 DEF StillAllowed
  <2>. QED
    BY <1>3, <2>1, <2>4
<1>7. CASE Write(r)
  <2>1. CASE ~InDb(r.fw)
    BY <1>4, <1>7, <2>1 DEF Write
  <2>2. CASE InDb(r.fw)
    <3> DEFINE next == [r EXCEPT !.pc = "read"]
    <3>1. next.op = r.op /\ next.pc = "read" /\ next.fw = r.fw /\ next.todo = r.todo
      BY <1>1 DEF Request
    <3>2. \A f \in r.todo : f # r.fw => status'[f] = status[f]
      BY <1>1, <1>2, <1>7, <2>2 DEF Write, SetStatus, Request
    <3>3. StillAllowed(next)'
      BY <1>1, <1>7, <3>1, <3>2 DEF StillAllowed, Write
    <3>. QED
      BY <1>3, <1>7, <2>2, <3>3 DEF Write
  <2>. QED
    BY <2>1, <2>2
<1>8. CASE EditPolicy(r)
  <2> DEFINE next == [r EXCEPT !.pc = "list"]
  <2>1. next.op = r.op /\ next.pc = "list" /\ next.fw = r.fw /\ next.todo = r.todo
    BY <1>1 DEF Request
  <2>2. StillAllowed(next)'
    BY <1>1, <1>8, <2>1 DEF StillAllowed, EditPolicy, Request, Operation
  <2>. QED
    BY <1>3, <1>8, <2>2 DEF EditPolicy
<1>9. CASE ListFirewalls(r)
  <2>1. r.op = "edit_policy" /\ \A f \in Firewall : status[f] \notin Pending
    BY <1>1, <1>9 DEF ListFirewalls, StillAllowed, Request, Operation
  <2>. QED
    BY <1>5, <1>9, <2>1 DEF ListFirewalls, dbVars
<1>10. ASSUME NEW next, Become(r, next), UNCHANGED status,
              next.op = r.op, next.pc \in {"rules", "cast"}, r.pc \in {"read", "rules"},
              next.fw = r.fw, next.todo = r.todo
       PROVE  SerialInv'
  <2>1. StillAllowed(next)'
    BY <1>1, <1>10 DEF StillAllowed
  <2>. QED
    BY <1>3, <1>10, <2>1
<1>11. CASE ReadFirewallRow(r)
  <2> DEFINE next == [r EXCEPT !.pc = "rules", !.up = adminUp[r.fw]]
  <2>1. next.op = r.op /\ next.pc = "rules" /\ next.fw = r.fw /\ next.todo = r.todo
    BY <1>1 DEF Request
  <2>2. r.pc = "read" /\ UNCHANGED status /\ (Become(r, next) \/ End(r))
    BY <1>11 DEF ReadFirewallRow, dbVars
  <2>. HIDE DEF next
  <2>. QED
    BY <1>4, <1>10, <2>1, <2>2
<1>12. CASE ReadRules(r)
  <2> DEFINE next == [r EXCEPT !.pc = "cast", !.rev = rev]
  <2>1. next.op = r.op /\ next.pc = "cast" /\ next.fw = r.fw /\ next.todo = r.todo
    BY <1>1 DEF Request
  <2>2. r.pc = "rules" /\ UNCHANGED status /\ Become(r, next)
    BY <1>12 DEF ReadRules, dbVars
  <2>. HIDE DEF next
  <2>. QED
    BY <1>10, <2>1, <2>2
<1>13. CASE Cast(r)
  <2>1. /\ r.todo \in SUBSET Firewall
        /\ r.op = "edit_policy" \/ r.todo = {}
        /\ \A f \in r.todo : status[f] \notin Pending
    BY <1>1 DEF StillAllowed, Request
  <2>. QED
    BY <1>5, <1>13, <2>1 DEF Cast, dbVars
<1>. QED
  BY <1>6, <1>7, <1>8, <1>9, <1>11, <1>12, <1>13 DEF Serve

\* Neither the agents nor late calls can spoil it.
LEMMA AgentsSerial ==
  ASSUME TypeOK, SerialInv, UNCHANGED serving,
         UNCHANGED status \/ \E c \in Calls : c \in Call /\ CallCommits(c)
  PROVE  SerialInv'
<1>1. \A f \in Firewall : /\ status[f] \notin Pending => status'[f] \notin Pending
                          /\ ~InDb(f) => ~InDb(f)'
  <2>1. ASSUME NEW c \in Call, CallCommits(c), NEW f \in Firewall
        PROVE  /\ status[f] \notin Pending => status'[f] \notin Pending
               /\ ~InDb(f) => ~InDb(f)'
    <3>1. CASE UNCHANGED status
      BY <3>1 DEF InDb
    <3>2. ASSUME NEW s \in Settled \cup {"gone"}, InDb(c.fw), SetStatus(c.fw, s)
          PROVE  /\ status[f] \notin Pending => status'[f] \notin Pending
                 /\ ~InDb(f) => ~InDb(f)'
      <4>1. status'[f] = IF f = c.fw THEN s ELSE status[f]
        BY <3>2, SetStatusIs DEF Call, TypeOK
      <4>. QED
        BY <3>2, <4>1 DEF InDb, RowStatus, Pending, Settled
    <3>. QED
      BY <2>1, <3>1, <3>2, CommitStatus DEF TypeOK
  <2>. QED
    BY <2>1 DEF InDb
<1>2. \A r \in serving : r.fw \notin Firewall => r.pc # "write"
  BY DEF TypeOK, PluginTypeOK
<1>3. ASSUME NEW r \in serving PROVE StillAllowed(r)'
  <2>1. StillAllowed(r) /\ r.todo \subseteq Firewall
    BY DEF SerialInv, TypeOK, PluginTypeOK, Request
  <2>. QED
    BY <1>1, <1>2, <2>1 DEF StillAllowed
<1>. QED
  BY <1>3 DEF SerialInv

\* Every step keeps that, whatever the agents report in between.
LEMMA SerialStep ==
  ASSUME ApiWorkers = 1, TypeOK, SerialInv, [Next]_vars
  PROVE  SerialInv'
<1>1. CASE AcceptApi
  BY <1>1, AcceptSerial DEF AcceptApi
<1>2. CASE ServeApi
  BY <1>2, ServeSerial DEF ServeApi
<1>3. CASE UNCHANGED serving
  <2>1. ASSUME NEW r \in serving, Insert(r) \/ Write(r) PROVE serving' # serving
    <3>1. r \in Request
      BY DEF TypeOK, PluginTypeOK
    <3>. QED
      BY <2>1, <3>1 DEF Insert, Write, Become, End, Request
  <2>. QED
    BY <1>3, <2>1, StatusWriters, AgentsSerial
<1>. QED
  BY <1>1, <1>2, <1>3, ServingWriters

\* The live statuses of the life cycle are those of a row.
LEMMA LiveIsRowStatus ==
  RowStatus = Lifecycle!Live /\ RowStatus \ Pending = Lifecycle!Changed
BY DEF RowStatus, Pending, Settled, Lifecycle!Live, Lifecycle!Changed

\* A transaction on status is a step of the life cycle of one firewall.
LEMMA LifecycleStep ==
  ASSUME TypeOK, SerialInv, DeletionInv, [Next]_vars
  PROVE  [Lifecycle!Next]_<<status, {f \in Firewall : deletion[f] # "none"}>>
<1>. USE LiveIsRowStatus DEF TypeOK
<1> DEFINE doomed == {f \in Firewall : deletion[f] # "none"}
<1>0. status \in [Firewall -> Status] /\ deletion \in [Firewall -> {"none", "asked", "lost"}]
  BY DEF PluginTypeOK
<1>1. ASSUME NEW f \in Firewall, NEW s, SetStatus(f, s)
      PROVE  /\ status' = [status EXCEPT ![f] = s]
             /\ s = "PENDING_DELETE" => doomed' = doomed \cup {f}
             /\ s # "PENDING_DELETE" => doomed' = doomed
  <2>1. \A g \in Firewall \ {f} : deletion'[g] = deletion[g]
    BY <1>1, SetStatusIs
  <2>2. s = "PENDING_DELETE" => deletion'[f] # "none"
    BY <1>1, SetStatusIs
  <2>3. s # "PENDING_DELETE" => (deletion'[f] # "none" <=> deletion[f] # "none")
    BY <1>0, <1>1 DEF SetStatus, DeletionInv, RowsDelete, Asked
  <2>. QED
    BY <1>1, <2>1, <2>2, <2>3 DEF SetStatus
<1>. HIDE DEF doomed
<1>2. ASSUME NEW r \in serving, Insert(r) PROVE Lifecycle!Next
  <2>1. \A f \in Firewall : ~InDb(f)
    BY <1>2 DEF Insert, SerialInv, StillAllowed, PluginTypeOK, Request, Operation
  <2>2. PICK f \in Firewall : status[f] = "unborn" /\ SetStatus(f, "PENDING_CREATE")
    BY <1>2 DEF Insert
  <2>3. status' = [status EXCEPT ![f] = "PENDING_CREATE"] /\ doomed' = doomed
    BY <1>1, <2>2
  <2>. QED
    BY <2>1, <2>2, <2>3 DEF doomed, InDb, Lifecycle!Next, Lifecycle!Create
<1>3. ASSUME NEW r \in serving, Write(r)
      PROVE  Lifecycle!Next \/ UNCHANGED <<status, doomed>>
  <2>1. r.fw \in Firewall
    BY <1>3 DEF Write, PluginTypeOK
  <2>2. CASE ~InDb(r.fw)
    BY <1>3, <2>2 DEF Write, doomed
  <2>3. CASE InDb(r.fw) /\ r.op = "delete_firewall"
    <3>1. SetStatus(r.fw, "PENDING_DELETE")
      BY <1>3, <2>3 DEF Write
    <3>2. status' = [status EXCEPT ![r.fw] = "PENDING_DELETE"] /\ doomed' = doomed \cup {r.fw}
      BY <1>1, <2>1, <3>1
    <3>. QED
      BY <2>1, <2>3, <3>2 DEF doomed, InDb, Lifecycle!Next, Lifecycle!Delete
  <2>4. CASE InDb(r.fw) /\ r.op # "delete_firewall"
    <3>1. SetStatus(r.fw, "PENDING_UPDATE")
      BY <1>3, <2>4 DEF Write
    <3>2. status' = [status EXCEPT ![r.fw] = "PENDING_UPDATE"] /\ doomed' = doomed
      BY <1>1, <2>1, <3>1
    <3>3. status[r.fw] \notin Pending
      BY <1>3, <2>4 DEF Write, SerialInv, StillAllowed, PluginTypeOK, Request, Operation
    <3>. QED
      BY <2>1, <2>4, <3>2, <3>3 DEF doomed, InDb, Lifecycle!Next, Lifecycle!Update
  <2>. QED
    BY <2>2, <2>3, <2>4
<1>4. ASSUME NEW c \in Calls, c \in Call, CallCommits(c)
      PROVE  Lifecycle!Next \/ UNCHANGED <<status, doomed>>
  <2>1. c.fw \in Firewall
    BY <1>4 DEF Call
  <2>2. ASSUME NEW s \in Settled, InDb(c.fw), SetStatus(c.fw, s) PROVE Lifecycle!Next
    <3>1. status' = [status EXCEPT ![c.fw] = s] /\ doomed' = doomed
      BY <1>1, <2>1, <2>2 DEF Settled
    <3>. QED
      BY <2>1, <2>2, <3>1
      DEF doomed, InDb, Settled, Lifecycle!Next, Lifecycle!Settle, Lifecycle!Changed
  <2>3. ASSUME InDb(c.fw), c.seen = "PENDING_DELETE", SetStatus(c.fw, "gone")
        PROVE  Lifecycle!Next
    <3>1. status' = [status EXCEPT ![c.fw] = "gone"] /\ doomed' = doomed
      BY <1>1, <2>1, <2>3
    <3>2. c.fw \in doomed
      BY <1>4, <2>1, <2>3 DEF DeletionInv, CallsDelete, Asked, doomed
    <3>. QED
      BY <2>1, <2>3, <3>1, <3>2 DEF doomed, InDb, Lifecycle!Next, Lifecycle!Remove
  <2>4. CASE UNCHANGED <<status, deletion>>
    BY <2>4 DEF doomed
  <2>. QED
    BY <1>4, <2>2, <2>3, <2>4, CommitStatus
<1>5. CASE UNCHANGED <<status, deletion>>
  BY <1>5
<1>. QED
  BY <1>2, <1>3, <1>4, <1>5, StatusWriters DEF doomed

\* With one API worker, whatever the agents, the network and the driver do, the rows
\* implement the life cycle that the API promises.
THEOREM SerialRefinement == ApiWorkers = 1 => (Spec => FollowsLifecycle)
<1>. SUFFICES ASSUME ApiWorkers = 1 PROVE Spec => FollowsLifecycle
  OBVIOUS
<1>1. Init => Lifecycle!Init
  BY DEF Init, PluginInit, Lifecycle!Init
<1>2. Init => SerialInv /\ DeletionInv
  BY DeletionInit DEF Init, PluginInit, SerialInv
<1>3. TypeOK /\ SerialInv /\ [Next]_vars => SerialInv'
  BY SerialStep
<1>4. TypeOK /\ DeletionInv /\ [Next]_vars => DeletionInv'
  BY DeletionStep
<1>5. TypeOK /\ SerialInv /\ DeletionInv /\ [Next]_vars
        => [Lifecycle!Next]_<<status, {f \in Firewall : deletion[f] # "none"}>>
  BY LifecycleStep
<1>. QED
  BY <1>1, <1>2, <1>3, <1>4, <1>5, TypeCorrect, PTL DEF Spec, FollowsLifecycle, Lifecycle!Spec

\* With one API worker, once the callbacks that read the row before its deletion was
\* accepted are over, nothing undoes the deletion: no request that was accepted before it,
\* and no report that is made, repeated or read after it.
THEOREM SerialDeletionLasts == ApiWorkers = 1 => (Spec => DeletionLasts)
<1>. SUFFICES ASSUME ApiWorkers = 1 PROVE Spec => DeletionLasts
  OBVIOUS
<1> DEFINE Step == \A f \in Firewall : Doomed(f) => Doomed(f)'
<1>1. Init => SerialInv
  BY DEF Init, PluginInit, SerialInv
<1>2. TypeOK /\ SerialInv /\ [Next]_vars => SerialInv'
  BY SerialStep
<1>3. TypeOK /\ SerialInv /\ [Next]_vars => [Step]_vars
  <2>. SUFFICES ASSUME TypeOK, SerialInv, [Next]_vars, NEW f \in Firewall, Doomed(f)
                PROVE  Doomed(f)'
    OBVIOUS
  <2>1. CASE status[f] = "gone"
    BY <2>1, AskedLasts DEF Doomed
  <2>2. CASE status[f] # "gone"
    <3>1. /\ status[f] = "PENDING_DELETE"
          /\ \A c \in Calls : c.fw = f => c.seen \in {"unread", "PENDING_DELETE"}
      BY <2>2 DEF Doomed
    <3>2. ASSUME NEW c \in Calls', c.fw = f PROVE c.seen \in {"unread", "PENDING_DELETE"}
      <4>1. Continues(c.fw, c.report, c.seen) \/ Begins(c.fw, c.report, c.seen)
        BY CallsGoOn
      <4>. QED
        BY <3>1, <3>2, <4>1 DEF Continues, Begins
    <3>3. status'[f] \in {"PENDING_DELETE", "gone"}
      <4>1. ASSUME NEW r \in serving, Insert(r) PROVE status'[f] = status[f]
        BY <3>1, <4>1, SetStatusIs DEF Insert, TypeOK
      <4>2. ASSUME NEW r \in serving, Write(r) PROVE status'[f] = "PENDING_DELETE"
        <5>1. r.fw \in Firewall /\ StillAllowed(r) /\ r \in Request
          BY <4>2 DEF Write, SerialInv, TypeOK, PluginTypeOK
        <5>2. CASE r.fw = f
          <6>1. r.op = "delete_firewall"
            BY <3>1, <4>2, <5>1, <5>2 DEF Write, StillAllowed, Request, Operation, Pending
          <6>2. InDb(r.fw)
            BY <3>1, <5>2 DEF InDb, RowStatus, Pending
          <6>. QED
            BY <4>2, <5>1, <5>2, <6>1, <6>2, SetStatusIs DEF Write, TypeOK
        <5>3. CASE r.fw # f
          BY <3>1, <4>2, <5>1, <5>3, SetStatusIs DEF Write, TypeOK
        <5>. QED
          BY <5>2, <5>3
      <4>3. ASSUME NEW c \in Calls, c \in Call, CallCommits(c)
            PROVE  status'[f] \in {status[f], "gone"}
        <5>1. c.fw \in Firewall
          BY <4>3 DEF Call
        <5>2. CASE c.fw = f
          <6>1. c.seen \in {"unread", "PENDING_DELETE"}
            BY <3>1, <4>3, <5>2
          <6>. QED
            BY <4>3, <5>1, <5>2, <6>1, CommitStatus, SetStatusIs
            DEF RowStatus, Pending, Settled, TypeOK
        <5>3. CASE c.fw # f
          BY <4>3, <5>1, <5>3, CommitStatus, SetStatusIs DEF TypeOK
        <5>. QED
          BY <5>2, <5>3
      <4>. QED
        BY <3>1, <4>1, <4>2, <4>3, StatusWriters
    <3>. QED
      BY <3>2, <3>3 DEF Doomed
  <2>. QED
    BY <2>1, <2>2
<1>. QED
  BY <1>1, <1>2, <1>3, TypeCorrect, PTL DEF Spec, DeletionLasts

-----------------------------------------------------------------------------
(* One firewall, no faults, and messages in order: at rest it is enforced. *)

\* What the proof needs of the system, and the run fwaas_fifo gives its constants: one
\* API worker, handlers one at a time, every agent with its router from the start, a
\* tenant with one firewall, and no fault.
Orderly ==
  /\ ApiWorkers = 1 /\ PoolSize = 1 /\ Hosting = Agent
  /\ \A f, g \in Firewall : f = g
  /\ MaxDriverErrors = 0 /\ MaxRpcFailures = 0 /\ MaxRemovals = 0 /\ MaxCrashes = 0

\* What the driver makes of a message, and what the row asks for.
Effect(m)  == IF m.func = "delete_firewall" THEN None ELSE ContentOf(m)
Current(f) == [up |-> adminUp[f], rev |-> rev]

\* The driver has not had it yet.
Unapplied(h) == h.pc \in {"routers", "driver"}

\* What the router of a enforces for f when the agent is done with all its messages.
Reaches(a, f, c) ==
  IF queue[a] # <<>> THEN Effect(queue[a][Len(queue[a])]) = c
  ELSE IF \E h \in handler : h.agent = a /\ Unapplied(h)
         THEN \A h \in handler : h.agent = a => Effect(h.msg) = c
         ELSE installed[a][f] = c

\* The last message that agent a has, if it has any, is a deletion.
Deletes(q)     == q[Len(q)].func = "delete_firewall"
DeleteLast(a) ==
  IF queue[a] # <<>> THEN Deletes(queue[a])
  ELSE \A h \in handler : h.agent = a => h.msg.func = "delete_firewall"

\* Handler h is yet to report a deletion, which a row that is not PENDING_DELETE takes
\* for an error.
Owing(h) == /\ h.msg.func = "delete_firewall"
            /\ Unapplied(h) \/ (h.pc = "DELETED" /\ h.seen # "ERROR")
Owes(a)  == \/ queue[a] # <<>> /\ Deletes(queue[a])
            \/ \E h \in handler : h.agent = a /\ Owing(h)

\* The request has f still to push.
Pushes(r, f) ==
  \/ r.pc \in {"read", "rules", "cast"} /\ r.fw = f
  \/ r.op = "edit_policy" /\ (r.pc = "list" \/ (r.pc = "write" /\ r.fw = f))

\* A deletion was cast.
DeletionCast ==
  \/ \E f \in Firewall : status[f] = "gone"
  \/ \E a \in Agent : \E i \in 1..Len(queue[a]) : queue[a][i].func = "delete_firewall"
  \/ \E h \in handler : h.msg.func = "delete_firewall"

\* A request that has written the row has what it read from it, and the row is as it
\* left it but for its status.
RequestFacts(r) ==
  /\ r.pc \in {"read", "rules", "cast"} =>
       /\ status[r.fw] # "unborn"
       /\ deletion[r.fw] = "asked" => r.op = "delete_firewall"
  /\ r.pc \in {"rules", "cast"} => r.up = adminUp[r.fw]
  /\ r.pc = "cast" => r.rev = rev

\* Agents keep their router; what the loop may find to sync is gone.
LoopFacts(a) ==
  /\ alive[a] /\ hosted[a]
  /\ task[a].kind # "add" /\ task[a].pc \in {"fetch", "read", "loop"}
  /\ task[a].listed = {} /\ task[a].todo = {}
  /\ servicesSync[a] \/ task[a].kind = "sync" => \A f \in Firewall : status[f] = "gone"

\* Handlers are one at a time, and report a deletion, and nothing else, for a deletion.
HandlerFacts ==
  /\ \A g, h \in handler : g.agent = h.agent => g = h
  /\ \A h \in handler : /\ h.pc = "DELETED" => h.msg.func = "delete_firewall"
                        /\ h.pc \in {"ACTIVE", "DOWN"} => h.msg.func # "delete_firewall"

\* The last message about a row brings what the row asks for, or is a deletion that was
\* undone, which will be reported to a row that says it is enforced.
RowFacts(f) ==
  /\ status[f] = "unborn" => /\ handler = {}
                             /\ \A a \in Agent : queue[a] = <<>> /\ installed[a][f] = None
  /\ deletion[f] = "asked" /\ DeletionCast => \A a \in Agent : Reaches(a, f, None)
  /\ InDb(f) /\ (\A r \in serving : ~Pushes(r, f)) =>
       \/ \A a \in Agent : Reaches(a, f, Current(f))
       \/ \A a \in Agent : DeleteLast(a)
  /\ status[f] \in {"ACTIVE", "DOWN"} /\ (\A r \in serving : ~Pushes(r, f)) =>
       \/ \A a \in Agent : Reaches(a, f, Current(f))
       \/ \E a \in Agent : Owes(a)

\* The inductive invariant, with SerialInv and DeletionInv.
OrderInv ==
  /\ late = {}
  /\ \A r \in serving : RequestFacts(r)
  /\ \A a \in Agent : LoopFacts(a)
  /\ HandlerFacts
  /\ \A f \in Firewall : RowFacts(f)

-----------------------------------------------------------------------------
(* What an agent does when nothing fails.                                  *)

\* A handler has found the router of the tenant, has had its message applied, has had its
\* row read by the server, or was answered.
Passed(h) ==
  /\ h.pc = "routers" /\ HandlerTo(h, "driver")
  /\ UNCHANGED <<pluginVars, alive, installed, hosted, servicesSync, task, late>>
Applied(h, p) ==
  /\ h.pc = "driver" /\ HandlerTo(h, p)
  /\ p = "DELETED" <=> h.msg.func = "delete_firewall"
  /\ installed' = [installed EXCEPT ![h.agent][h.msg.fw] = Effect(h.msg)]
  /\ UNCHANGED <<pluginVars, alive, hosted, servicesSync, task, late>>
Served(h) ==
  /\ h.pc \in Report /\ InDb(h.msg.fw)
  /\ handler' = (handler \ {h}) \cup {[h EXCEPT !.seen = status[h.msg.fw]]}
  /\ UNCHANGED <<pluginVars, alive, installed, hosted, servicesSync, task, late>>
Answered(h) ==
  /\ h.pc \in Report /\ CallCommits(CallOf(h)) /\ HandlerEnds(h)
  /\ InDb(h.msg.fw) => UNCHANGED servicesSync
  /\ \A a \in Agent \ {h.agent} : servicesSync'[a] = servicesSync[a]
  /\ UNCHANGED <<queue, installed, hosted, task, late>>

\* The loop comes by: it has nothing to sync but what is gone.
Looped(a) ==
  /\ SyncStarts(a) \/ FetchFirewalls(a) \/ FirewallsFetched(a) \/ TaskEnds(a)
  /\ UNCHANGED <<pluginVars, alive, handler, installed, hosted, late>>

\* A step of an agent.
Deed ==
  \/ \E a \in Agent : Receive(a) \/ Looped(a)
  \/ \E h \in handler : \/ Passed(h) \/ Served(h) \/ Answered(h)
                        \/ \E p \in Report : Applied(h, p)

\* No fault is left to happen.
LEMMA NoFaults ==
  ASSUME Orderly, TypeOK
  PROVE  \A k \in Fault : ~Count(k)
<1>1. \A k \in Fault : MaxFaults(k) = 0
  BY DEF Orderly, Fault, MaxFaults
<1>2. \A k \in Fault : ~(faults[k] < MaxFaults(k))
  BY <1>1 DEF TypeOK, AgentTypeOK
<1>. QED
  BY <1>2 DEF Count

\* So the server serves, or an agent does one of these.
LEMMA OrderlySteps ==
  ASSUME Orderly, TypeOK, OrderInv, [Next]_vars
  PROVE  AcceptApi \/ ServeApi \/ Deed \/ UNCHANGED vars
<1>1. late = {} /\ ~Count("driver") /\ ~Count("rpc") /\ ~Count("removal") /\ ~Count("crash")
  BY NoFaults DEF Fault, OrderInv
<1>2. ASSUME NEW h \in handler, Handle(h) PROVE Deed
  <2>1. h.agent \in Agent /\ hosted[h.agent] /\ h.msg.fw \in Firewall
    BY DEF OrderInv, LoopFacts, TypeOK, AgentTypeOK, Handler, Message
  <2>2. CASE GetRouters(h)
    BY <2>1, <2>2 DEF GetRouters, Deed, Passed
  <2>3. CASE InvokeDriver(h)
    <3> DEFINE p == IF h.msg.func = "delete_firewall" THEN "DELETED" ELSE UpStatus(h.msg.up)
    <3>1. p \in Report /\ (p = "DELETED" <=> h.msg.func = "delete_firewall")
      BY DEF UpStatus, Report
    <3>2. h.pc = "driver" /\ HandlerTo(h, p) /\ DriverApplies(h.agent, h.msg.fw, Effect(h.msg))
          /\ UNCHANGED <<pluginVars, alive, hosted, servicesSync, task, late>>
      BY <1>1, <2>1, <2>3 DEF InvokeDriver, DriverFails, Effect
    <3>3. Applied(h, p)
      BY <3>1, <3>2 DEF Applied, DriverApplies
    <3>. QED
      BY <3>1, <3>3 DEF Deed
  <2>4. CASE ReportBack(h)
    <3>1. h.pc \in Report /\ UNCHANGED <<queue, installed, hosted, task>>
      BY <2>4 DEF ReportBack
    <3>2. CASE /\ CallReads(CallOf(h))
               /\ handler' = (handler \ {h}) \cup {[h EXCEPT !.seen = status[h.msg.fw]]}
      <4>1. InDb(h.msg.fw)
        BY <3>2 DEF CallReads, CallOf
      <4>2. Served(h)
        BY <3>1, <3>2, <4>1 DEF Served, CallReads, pluginVars, dbVars
      <4>. QED
        BY <4>2 DEF Deed
    <3>3. CASE CallAnswered(h.agent, CallOf(h)) /\ HandlerEnds(h)
      <4>1. \A a \in Agent \ {h.agent} : servicesSync'[a] = servicesSync[a]
        BY <3>3 DEF CallAnswered, SyncLater, TypeOK, AgentTypeOK
      <4>2. InDb(h.msg.fw) => UNCHANGED servicesSync
        BY <3>3 DEF CallAnswered, Raises, CallOf
      <4>3. Answered(h)
        BY <3>1, <3>3, <4>1, <4>2 DEF Answered, CallAnswered
      <4>. QED
        BY <4>3 DEF Deed
    <3>. QED
      BY <1>1, <2>4, <3>2, <3>3 DEF ReportBack, CallTimesOut
  <2>5. CASE GetRoutersFails(h)
    BY <1>1, <2>5 DEF GetRoutersFails
  <2>. QED
    BY <1>2, <2>2, <2>3, <2>4, <2>5 DEF Handle
<1>3. ASSUME NEW a \in Agent, HandleAt(a) PROVE Deed
  BY <1>2, <1>3 DEF HandleAt, Deed
<1>4. ASSUME NEW a \in Agent, Loop(a) PROVE Deed
  <2>1. task[a].pc \notin Report /\ task[a].todo = {} /\ task[a].listed = {}
    BY DEF OrderInv, LoopFacts, Report
  <2>2. ~SyncReport(a) /\ ~SyncDriver(a) /\ ~FetchFails(a) /\ \A f \in Firewall : ~ReadFirewall(a, f)
    BY <1>1, <2>1 DEF SyncReport, SyncDriver, FetchFails, ReadFirewall
  <2>. QED
    BY <1>4, <2>2 DEF Loop, Looped, SyncStarts, FetchFirewalls, FirewallsFetched, TaskEnds, Deed
<1>5. ASSUME NEW a \in Agent, RouterAdded(a) \/ Start(a) \/ Fail(a) PROVE FALSE
  BY <1>1, <1>5 DEF RouterAdded, Start, Fail, RouterRemoved, Crash, OrderInv, LoopFacts
<1>6. ~LateCalls
  BY <1>1 DEF LateCalls
<1>. QED
  BY <1>3, <1>4, <1>5, <1>6 DEF Next

-----------------------------------------------------------------------------
(* An agent does not change what its router ends up to enforce.            *)

\* The handlers after a step of one of them: what it has become, and the others.
LEMMA HandlersAfter ==
  ASSUME TypeOK, OrderInv, NEW h \in handler, NEW p, HandlerTo(h, p)
  PROVE  \E g \in handler' : /\ g.agent = h.agent /\ g.msg = h.msg /\ g.pc = p /\ g.seen = h.seen
                             /\ handler' = (handler \ {h}) \cup {g}
                             /\ \A k \in handler \ {h} : k.agent # h.agent
<1> DEFINE g == [h EXCEPT !.pc = p]
<1>1. g.agent = h.agent /\ g.msg = h.msg /\ g.pc = p /\ g.seen = h.seen
  BY DEF TypeOK, AgentTypeOK, Handler
<1>2. handler' = (handler \ {h}) \cup {g}
  BY DEF HandlerTo
<1>3. \A k \in handler \ {h} : k.agent # h.agent
  BY DEF OrderInv, HandlerFacts
<1>. HIDE DEF g
<1>. QED
  BY <1>1, <1>2, <1>3

\* And after the server has read a row for one of them.
LEMMA HandlersServed ==
  ASSUME TypeOK, OrderInv, NEW h \in handler, Served(h)
  PROVE  \E g \in handler' : /\ g.agent = h.agent /\ g.msg = h.msg /\ g.pc = h.pc
                             /\ g.seen = status[h.msg.fw]
                             /\ handler' = (handler \ {h}) \cup {g}
                             /\ \A k \in handler \ {h} : k.agent # h.agent
<1> DEFINE g == [h EXCEPT !.seen = status[h.msg.fw]]
<1>1. g.agent = h.agent /\ g.msg = h.msg /\ g.pc = h.pc /\ g.seen = status[h.msg.fw]
  BY DEF TypeOK, AgentTypeOK, Handler
<1>2. handler' = (handler \ {h}) \cup {g}
  BY DEF Served
<1>3. \A k \in handler \ {h} : k.agent # h.agent
  BY DEF OrderInv, HandlerFacts
<1>. HIDE DEF g
<1>. QED
  BY <1>1, <1>2, <1>3


\* A message is only received when no other is handled.
LEMMA ReceivedAlone ==
  ASSUME Orderly, OrderInv, NEW a \in Agent, Receive(a)
  PROVE  \A h \in handler : h.agent # a
<1>. SUFFICES ASSUME NEW h \in handler, h.agent = a PROVE FALSE
  OBVIOUS
<1>1. {g \in handler : g.agent = a} = {h}
  BY DEF OrderInv, HandlerFacts
<1>2. Cardinality({g \in handler : g.agent = a}) = 1
  BY <1>1, FS_Singleton
<1>. QED
  BY <1>2 DEF Receive, Orderly


\* The first message of a queue, and the last of what is left.
LEMMA Received ==
  ASSUME NEW q \in Seq(Message), q # <<>>
  PROVE  /\ Head(q) = q[1] /\ 1 \in 1..Len(q)
         /\ Tail(q) = <<>> => Head(q) = q[Len(q)]
         /\ Tail(q) # <<>> => Tail(q)[Len(Tail(q))] = q[Len(q)]
         /\ \A i \in 1..Len(Tail(q)) : i + 1 \in 1..Len(q) /\ Tail(q)[i] = q[i + 1]
<1>1. Len(q) \in Nat \ {0} /\ Len(Tail(q)) = Len(q) - 1 /\ Tail(q) \in Seq(Message)
  OBVIOUS
<1>2. ASSUME Tail(q) = <<>> PROVE Len(q) = 1
  <2>1. \A t \in Seq(Message) : t = <<>> => Len(t) = 0
    OBVIOUS
  <2>2. Len(Tail(q)) = 0
    BY <1>1, <1>2, <2>1, Zenon
  <2>3. \A n \in Nat : 0 = n - 1 => n = 1
    OBVIOUS
  <2>. QED
    BY <1>1, <2>2, <2>3, Zenon
<1>3. \A i \in 1..Len(Tail(q)) : i + 1 \in 1..Len(q) /\ Tail(q)[i] = q[i + 1]
  BY <1>1
<1>4. Tail(q) # <<>> => Len(Tail(q)) \in 1..Len(Tail(q))
  BY <1>1
<1>. QED
  BY <1>1, <1>2, <1>3, <1>4


\* What an agent will have done for its messages stays the same as it handles them.
LEMMA ReachesKept ==
  ASSUME Orderly, TypeOK, OrderInv, Deed, NEW b \in Agent, NEW f \in Firewall, NEW c,
         Reaches(b, f, c)
  PROVE  Reaches(b, f, c)'
<1>1. queue \in [Agent -> Seq(Message)] /\ \A h \in handler : h.agent \in Agent
  BY DEF TypeOK, PluginTypeOK, AgentTypeOK, Handler
<1>2. ASSUME NEW a \in Agent, Receive(a) PROVE Reaches(b, f, c)'
  <2> DEFINE new == [agent |-> a, msg |-> Head(queue[a]), pc |-> "routers",
                    seen |-> "unread"]
  <2>1. new.agent = a /\ new.msg = Head(queue[a]) /\ Unapplied(new)
    BY DEF Unapplied
  <2>2. /\ queue[a] # <<>> /\ queue' = [queue EXCEPT ![a] = Tail(queue[a])]
        /\ handler' = handler \cup {new} /\ UNCHANGED installed
    BY <1>2 DEF Receive
  <2>. HIDE DEF new
  <2>3. \A h \in handler : h.agent # a
    BY <1>2, ReceivedAlone
  <2>4. CASE b # a
    <3>1. queue'[b] = queue[b] /\ \A h \in handler' : h.agent = b <=> h \in handler /\ h.agent = b
      BY <1>1, <2>1, <2>2, <2>4
    <3>. QED
      BY <2>2, <3>1 DEF Reaches
  <2>5. CASE b = a
    <3>1. queue'[b] = Tail(queue[b]) /\ queue[b] \in Seq(Message)
      BY <1>1, <2>2, <2>5
    <3>2. Effect(queue[b][Len(queue[b])]) = c
      BY <2>2, <2>5 DEF Reaches
    <3>3. CASE Tail(queue[b]) # <<>>
      BY <2>2, <2>5, <3>1, <3>2, <3>3, Received DEF Reaches
    <3>4. CASE Tail(queue[b]) = <<>>
      <4>1. Effect(new.msg) = c
        BY <2>1, <2>2, <2>5, <3>1, <3>2, <3>4, Received
      <4>. QED
        BY <2>1, <2>2, <2>3, <2>5, <3>1, <3>4, <4>1 DEF Reaches
    <3>. QED
      BY <3>3, <3>4
  <2>. QED
    BY <2>4, <2>5
<1>3. ASSUME NEW h \in handler, Passed(h) PROVE Reaches(b, f, c)'
  <2>1. PICK g \in handler' : /\ g.agent = h.agent /\ g.msg = h.msg /\ g.pc = "driver" /\ g.seen = h.seen
                              /\ handler' = (handler \ {h}) \cup {g}
                              /\ \A k \in handler \ {h} : k.agent # h.agent
    BY <1>3, HandlersAfter DEF Passed
  <2>2. UNCHANGED <<queue, installed>> /\ Unapplied(h) /\ Unapplied(g)
    BY <1>3, <2>1 DEF Passed, pluginVars, Unapplied
  <2>. QED
    BY <2>1, <2>2 DEF Reaches
<1>4. ASSUME NEW h \in handler, NEW p \in Report, Applied(h, p) PROVE Reaches(b, f, c)'
  <2>1. PICK g \in handler' : /\ g.agent = h.agent /\ g.msg = h.msg /\ g.pc = p /\ g.seen = h.seen
                              /\ handler' = (handler \ {h}) \cup {g}
                              /\ \A k \in handler \ {h} : k.agent # h.agent
    BY <1>4, HandlersAfter DEF Applied
  <2>2. UNCHANGED queue /\ Unapplied(h) /\ ~Unapplied(g)
    BY <1>4, <2>1 DEF Applied, pluginVars, Unapplied, Report
  <2>3. CASE b # h.agent
    <3>1. installed'[b] = installed[b]
      BY <1>1, <1>4, <2>3 DEF Applied, TypeOK, AgentTypeOK
    <3>2. \A k \in handler' : k.agent = b => k \in handler
      BY <2>1, <2>3
    <3>3. \A k \in handler : k.agent = b => k \in handler'
      BY <2>1, <2>3
    <3>. QED
      BY <2>2, <3>1, <3>2, <3>3 DEF Reaches
  <2>4. CASE b = h.agent /\ queue[b] # <<>>
    BY <2>2, <2>4 DEF Reaches
  <2>5. CASE b = h.agent /\ queue[b] = <<>>
    <3>1. Effect(h.msg) = c
      BY <2>2, <2>5 DEF Reaches
    <3>2. h.msg.fw = f
      BY DEF Orderly, TypeOK, AgentTypeOK, Handler, Message
    <3>3. installed'[b][f] = c
      BY <1>1, <1>4, <2>5, <3>1, <3>2 DEF Applied, TypeOK, AgentTypeOK
    <3>4. ~\E k \in handler' : k.agent = b /\ Unapplied(k)
      BY <2>1, <2>2, <2>5
    <3>. QED
      BY <2>2, <2>5, <3>3, <3>4 DEF Reaches
  <2>. QED
    BY <2>3, <2>4, <2>5
<1>5. ASSUME NEW h \in handler, Answered(h) PROVE Reaches(b, f, c)'
  <2>1. /\ handler' = handler \ {h} /\ ~Unapplied(h) /\ UNCHANGED <<queue, installed>>
        /\ \A k \in handler \ {h} : k.agent # h.agent
    BY <1>5 DEF Answered, HandlerEnds, Unapplied, Report, OrderInv, HandlerFacts
  <2>. QED
    BY <2>1 DEF Reaches
<1>6. ASSUME NEW h \in handler, Served(h) PROVE Reaches(b, f, c)'
  <2>1. PICK g \in handler' : /\ g.agent = h.agent /\ g.msg = h.msg /\ g.pc = h.pc
                              /\ g.seen = status[h.msg.fw]
                              /\ handler' = (handler \ {h}) \cup {g}
                              /\ \A k \in handler \ {h} : k.agent # h.agent
    BY <1>6, HandlersServed
  <2>2. UNCHANGED <<queue, installed>> /\ ~Unapplied(h) /\ ~Unapplied(g)
    BY <1>6, <2>1 DEF Served, pluginVars, Unapplied, Report
  <2>. QED
    BY <2>1, <2>2 DEF Reaches
<1>7. ASSUME NEW a \in Agent, Looped(a) PROVE Reaches(b, f, c)'
  BY <1>7 DEF Looped, pluginVars, Reaches
<1>. QED
  BY <1>2, <1>3, <1>4, <1>5, <1>6, <1>7 DEF Deed

-----------------------------------------------------------------------------
(* The steps of the agents.                                                *)

\* What the answer to a handler does to the row: a report of an enforced firewall comes from
\* a handler that enforced it, and that of a deletion never says so.
LEMMA AnsweredRow ==
  ASSUME Orderly, TypeOK, OrderInv, NEW h \in handler, Answered(h), NEW f \in Firewall
  PROVE  /\ status[f] # "unborn" /\ status'[f] # "unborn"
         /\ InDb(f)' => InDb(f)
         /\ status[f] = "gone" => status'[f] = "gone"
         /\ status'[f] = "gone" => status[f] = "gone" \/ h.msg.func = "delete_firewall"
         /\ deletion'[f] = "asked" => deletion[f] = "asked"
         /\ status'[f] \in {"ACTIVE", "DOWN"} =>
              /\ status'[f] = status[f] \/ h.pc \in {"ACTIVE", "DOWN"}
              /\ ~Owing(h)
<1> DEFINE c == CallOf(h)
<1>1. /\ c \in Call /\ c.fw = h.msg.fw /\ c.report = h.pc /\ c.seen = h.seen
      /\ CallCommits(c)
  BY CallOfType DEF Answered, TypeOK
<1>. HIDE DEF c
<1>2. c.fw = f /\ status[f] # "unborn" /\ status[f] \in Status
  BY <1>1 DEF Orderly, OrderInv, RowFacts, Call, TypeOK, PluginTypeOK
<1>3. h.pc = "DELETED" => h.msg.func = "delete_firewall"
  BY DEF OrderInv, HandlerFacts
<1>4. CASE UNCHANGED <<status, deletion>>
  <2>1. ASSUME status[f] \in {"ACTIVE", "DOWN"}, Owing(h) PROVE FALSE
    <3>1. h.pc = "DELETED" /\ h.seen # "ERROR"
      BY <2>1 DEF Owing, Unapplied, Answered, Report
    <3>2. InDb(f)
      BY <2>1 DEF InDb, RowStatus, Settled
    <3>3. c.seen # "unread"
      BY <1>1, <1>2, <3>2 DEF CallCommits
    <3>4. Outcome(c) \in {"gone", "ERROR"} /\ Outcome(c) # c.seen
      BY <1>1, <3>1 DEF Outcome, FirewallDeleted, AnswersDeleted, DeleteDbFirewallObject
    <3>5. SetStatus(f, Outcome(c))
      BY <1>1, <1>2, <3>2, <3>4 DEF CallCommits
    <3>6. status'[f] = Outcome(c)
      BY <3>5, SetStatusIs DEF TypeOK
    <3>. QED
      BY <1>4, <2>1, <3>4, <3>6
  <2>. QED
    BY <1>2, <1>4, <2>1 DEF InDb
<1>5. ASSUME NEW s \in Settled, InDb(f), SetStatus(f, s), s \in {"ACTIVE", "DOWN"} => s = c.report
      PROVE  /\ status'[f] = s /\ InDb(f) /\ (deletion'[f] = "asked" => deletion[f] = "asked")
             /\ s \in {"ACTIVE", "DOWN"} => h.pc = s
  BY <1>1, <1>5, SetStatusIs DEF TypeOK, Settled
<1>6. ASSUME NEW s \in Settled, InDb(f), status'[f] = s, s \in {"ACTIVE", "DOWN"} => h.pc = s
      PROVE  /\ status'[f] \notin {"unborn", "gone"} /\ status[f] # "gone"
             /\ status'[f] \in {"ACTIVE", "DOWN"} => h.pc \in {"ACTIVE", "DOWN"} /\ ~Owing(h)
  BY <1>6 DEF Settled, InDb, RowStatus, Pending, Owing, Unapplied
<1>7. CASE InDb(f) /\ c.report = "DELETED" /\ SetStatus(f, "gone")
  <2>1. status'[f] = "gone" /\ (deletion'[f] = "asked" => deletion[f] = "asked")
    BY <1>7, SetStatusIs DEF TypeOK
  <2>2. h.msg.func = "delete_firewall"
    BY <1>1, <1>3, <1>7
  <2>. QED
    BY <1>2, <1>7, <2>1, <2>2
<1>. QED
  BY <1>1, <1>2, <1>4, <1>5, <1>6, <1>7, CommitStatus DEF TypeOK

\* So what an agent does to a row.
LEMMA DeedStatus ==
  ASSUME Orderly, TypeOK, OrderInv, Deed, NEW f \in Firewall
  PROVE  /\ status'[f] = "unborn" <=> status[f] = "unborn"
         /\ InDb(f)' => InDb(f)
         /\ status[f] = "gone" => status'[f] = "gone"
         /\ status'[f] = "gone" => status[f] = "gone" \/ DeletionCast
         /\ deletion'[f] = "asked" => deletion[f] = "asked"
<1>1. ASSUME NEW h \in handler, Answered(h)
      PROVE  /\ status'[f] = "unborn" <=> status[f] = "unborn"
             /\ InDb(f)' => InDb(f)
             /\ status[f] = "gone" => status'[f] = "gone"
             /\ status'[f] = "gone" => status[f] = "gone" \/ DeletionCast
             /\ deletion'[f] = "asked" => deletion[f] = "asked"
  <2>1. h.msg.func = "delete_firewall" => DeletionCast
    BY DEF DeletionCast
  <2>. QED
    BY <1>1, <2>1, AnsweredRow
<1>2. CASE UNCHANGED <<status, deletion>>
  BY <1>2 DEF InDb
<1>3. ASSUME NEW h \in handler, Passed(h) \/ Served(h) \/ \E p \in Report : Applied(h, p)
      PROVE  UNCHANGED <<status, deletion>>
  BY <1>3 DEF Passed, Served, Applied, pluginVars
<1>4. ASSUME NEW a \in Agent, Receive(a) \/ Looped(a) PROVE UNCHANGED <<status, deletion>>
  BY <1>4 DEF Receive, Looped, pluginVars, dbVars
<1>. QED
  BY <1>1, <1>2, <1>3, <1>4 DEF Deed


\* The handlers of an agent were there, or have the message of one, or the first of a queue.
LEMMA DeedMessages ==
  ASSUME TypeOK, OrderInv, Deed
  PROVE  /\ \A a \in Agent : \A i \in 1..Len(queue'[a]) :
              \E j \in 1..Len(queue[a]) : queue'[a][i] = queue[a][j]
         /\ \A h \in handler' :
              \/ \E g \in handler : h.msg = g.msg
              \/ \E a \in Agent : queue[a] # <<>> /\ 1 \in 1..Len(queue[a]) /\ h.msg = queue[a][1]
<1>1. queue \in [Agent -> Seq(Message)]
  BY DEF TypeOK, PluginTypeOK
<1>2. ASSUME NEW a \in Agent, Receive(a)
      PROVE  /\ \A b \in Agent : \A i \in 1..Len(queue'[b]) :
                  \E j \in 1..Len(queue[b]) : queue'[b][i] = queue[b][j]
             /\ \A h \in handler' :
                  \/ \E g \in handler : h.msg = g.msg
                  \/ queue[a] # <<>> /\ 1 \in 1..Len(queue[a]) /\ h.msg = queue[a][1]
  <2> DEFINE new == [agent |-> a, msg |-> Head(queue[a]), pc |-> "routers",
                    seen |-> "unread"]
  <2>1. new.msg = Head(queue[a])
    OBVIOUS
  <2>2. /\ queue[a] # <<>> /\ queue' = [queue EXCEPT ![a] = Tail(queue[a])]
        /\ handler' = handler \cup {new}
    BY <1>2 DEF Receive
  <2>. HIDE DEF new
  <2>3. ASSUME NEW b \in Agent, NEW i \in 1..Len(queue'[b])
        PROVE  \E j \in 1..Len(queue[b]) : queue'[b][i] = queue[b][j]
    <3>1. CASE b = a
      <4>1. queue[a] \in Seq(Message) /\ queue'[b] = Tail(queue[a])
        BY <1>1, <2>2, <3>1
      <4>. QED
        BY <2>2, <2>3, <3>1, <4>1, Received
    <3>2. CASE b # a
      BY <1>1, <2>2, <2>3, <3>2
    <3>. QED
      BY <3>1, <3>2
  <2>4. queue[a] \in Seq(Message)
    BY <1>1
  <2>. QED
    BY <2>1, <2>2, <2>3, <2>4, Received
<1>3. ASSUME NEW h \in handler, NEW p, HandlerTo(h, p) PROVE \A k \in handler' : \E g \in handler : k.msg = g.msg
  BY <1>3, HandlersAfter
<1>4. CASE UNCHANGED queue /\ \A k \in handler' : \E g \in handler : k.msg = g.msg
  BY <1>4
<1>5. ASSUME NEW h \in handler, Passed(h) \/ Answered(h) \/ \E p \in Report : Applied(h, p)
      PROVE  UNCHANGED queue /\ \A k \in handler' : \E g \in handler : k.msg = g.msg
  BY <1>3, <1>5 DEF Passed, Applied, Answered, HandlerEnds, pluginVars
<1>6. ASSUME NEW h \in handler, Served(h)
      PROVE  UNCHANGED queue /\ \A k \in handler' : \E g \in handler : k.msg = g.msg
  BY <1>6, HandlersServed DEF Served, pluginVars
<1>7. ASSUME NEW a \in Agent, Looped(a) PROVE UNCHANGED <<queue, handler>>
  BY <1>7 DEF Looped, pluginVars
<1>. QED
  BY <1>2, <1>4, <1>5, <1>6, <1>7 DEF Deed

\* Agents cast no deletion.
LEMMA DeedCast ==
  ASSUME Orderly, TypeOK, OrderInv, Deed, DeletionCast'
  PROVE  DeletionCast
<1>1. CASE \E f \in Firewall : status'[f] = "gone"
  BY <1>1, DeedStatus DEF DeletionCast
<1>2. CASE \E a \in Agent : \E i \in 1..Len(queue'[a]) : queue'[a][i].func = "delete_firewall"
  BY <1>2, DeedMessages DEF DeletionCast
<1>3. CASE \E h \in handler' : h.msg.func = "delete_firewall"
  BY <1>3, DeedMessages DEF DeletionCast
<1>. QED
  BY <1>1, <1>2, <1>3 DEF DeletionCast

\* What is received is the first message of the queue.
LEMMA ReceivedHandler ==
  ASSUME Orderly, TypeOK, OrderInv, NEW a \in Agent, Receive(a)
  PROVE  \E g \in handler' :
           /\ g.agent = a /\ g.msg = Head(queue[a]) /\ g.pc = "routers" /\ g.seen = "unread"
           /\ handler' = handler \cup {g} /\ \A h \in handler : h.agent # a
           /\ queue[a] \in Seq(Message) /\ queue[a] # <<>> /\ queue'[a] = Tail(queue[a])
           /\ \A b \in Agent \ {a} : queue'[b] = queue[b]
<1> DEFINE g == [agent |-> a, msg |-> Head(queue[a]), pc |-> "routers", seen |-> "unread"]
<1>1. g.agent = a /\ g.msg = Head(queue[a]) /\ g.pc = "routers" /\ g.seen = "unread"
  OBVIOUS
<1>2. /\ queue[a] # <<>> /\ queue' = [queue EXCEPT ![a] = Tail(queue[a])]
      /\ handler' = handler \cup {g}
  BY DEF Receive
<1>. HIDE DEF g
<1>3. queue \in [Agent -> Seq(Message)]
  BY DEF TypeOK, PluginTypeOK
<1>. QED
  BY <1>1, <1>2, <1>3, ReceivedAlone

\* That an agent's last message is a deletion stays so as it handles it.
LEMMA DeleteLastKept ==
  ASSUME Orderly, TypeOK, OrderInv, Deed, NEW b \in Agent, DeleteLast(b)
  PROVE  DeleteLast(b)'
<1>1. ASSUME NEW a \in Agent, Receive(a) PROVE DeleteLast(b)'
  <2>1. PICK g \in handler' :
           /\ g.agent = a /\ g.msg = Head(queue[a]) /\ g.pc = "routers" /\ g.seen = "unread"
           /\ handler' = handler \cup {g} /\ \A h \in handler : h.agent # a
           /\ queue[a] \in Seq(Message) /\ queue[a] # <<>> /\ queue'[a] = Tail(queue[a])
           /\ \A c \in Agent \ {a} : queue'[c] = queue[c]
    BY <1>1, ReceivedHandler
  <2>2. CASE b = a
    BY <2>1, <2>2, Received DEF DeleteLast, Deletes
  <2>3. CASE b # a
    BY <2>1, <2>3 DEF DeleteLast, Deletes
  <2>. QED
    BY <2>2, <2>3
<1>2. CASE UNCHANGED queue /\ \A k \in handler' : \E g \in handler : k.agent = g.agent /\ k.msg = g.msg
  BY <1>2 DEF DeleteLast, Deletes
<1>3. ASSUME NEW h \in handler, Passed(h) \/ \E p \in Report : Applied(h, p)
      PROVE  UNCHANGED queue /\ \A k \in handler' : \E g \in handler : k.agent = g.agent /\ k.msg = g.msg
  BY <1>3, HandlersAfter DEF Passed, Applied, pluginVars
<1>4. ASSUME NEW h \in handler, Served(h)
      PROVE  UNCHANGED queue /\ \A k \in handler' : \E g \in handler : k.agent = g.agent /\ k.msg = g.msg
  BY <1>4, HandlersServed DEF Served, pluginVars
<1>5. ASSUME NEW h \in handler, Answered(h)
      PROVE  UNCHANGED queue /\ \A k \in handler' : \E g \in handler : k.agent = g.agent /\ k.msg = g.msg
  BY <1>5 DEF Answered, HandlerEnds
<1>6. ASSUME NEW a \in Agent, Looped(a)
      PROVE  UNCHANGED queue /\ \A k \in handler' : \E g \in handler : k.agent = g.agent /\ k.msg = g.msg
  BY <1>6 DEF Looped, pluginVars
<1>. QED
  BY <1>1, <1>2, <1>3, <1>4, <1>5, <1>6 DEF Deed

\* As long as a row says that it is enforced, a deletion that is on its way to be reported
\* stays so.
LEMMA OwesKept ==
  ASSUME Orderly, TypeOK, OrderInv, Deed, NEW f \in Firewall,
         status'[f] \in {"ACTIVE", "DOWN"}, NEW b \in Agent, Owes(b)
  PROVE  Owes(b)'
<1>1. ASSUME NEW a \in Agent, Receive(a) PROVE Owes(b)'
  <2>1. PICK g \in handler' :
           /\ g.agent = a /\ g.msg = Head(queue[a]) /\ g.pc = "routers" /\ g.seen = "unread"
           /\ handler' = handler \cup {g} /\ \A h \in handler : h.agent # a
           /\ queue[a] \in Seq(Message) /\ queue[a] # <<>> /\ queue'[a] = Tail(queue[a])
           /\ \A c \in Agent \ {a} : queue'[c] = queue[c]
    BY <1>1, ReceivedHandler
  <2>2. CASE b = a
    <3>1. queue[a][Len(queue[a])].func = "delete_firewall"
      BY <2>1, <2>2 DEF Owes, Deletes
    <3>2. CASE Tail(queue[a]) # <<>>
      BY <2>1, <2>2, <3>1, <3>2, Received DEF Owes, Deletes
    <3>3. CASE Tail(queue[a]) = <<>>
      <4>1. Owing(g)
        BY <2>1, <3>1, <3>3, Received DEF Owing, Unapplied
      <4>. QED
        BY <2>1, <2>2, <4>1 DEF Owes
    <3>. QED
      BY <3>2, <3>3
  <2>3. CASE b # a
    BY <2>1, <2>3 DEF Owes, Deletes
  <2>. QED
    BY <2>2, <2>3
<1>2. ASSUME NEW h \in handler, NEW g \in handler', UNCHANGED queue, g.agent = h.agent,
             handler' = (handler \ {h}) \cup {g}, Owing(h) => Owing(g)
      PROVE  Owes(b)'
  BY <1>2 DEF Owes, Deletes
<1>3. ASSUME NEW h \in handler, Passed(h) PROVE Owes(b)'
  <2>1. PICK g \in handler' : /\ g.agent = h.agent /\ g.msg = h.msg /\ g.pc = "driver"
                              /\ g.seen = h.seen
                              /\ handler' = (handler \ {h}) \cup {g}
                              /\ \A k \in handler \ {h} : k.agent # h.agent
    BY <1>3, HandlersAfter DEF Passed
  <2>. QED
    BY <1>2, <1>3, <2>1 DEF Passed, pluginVars, Owing, Unapplied
<1>4. ASSUME NEW h \in handler, NEW p \in Report, Applied(h, p) PROVE Owes(b)'
  <2>1. PICK g \in handler' : /\ g.agent = h.agent /\ g.msg = h.msg /\ g.pc = p
                              /\ g.seen = h.seen
                              /\ handler' = (handler \ {h}) \cup {g}
                              /\ \A k \in handler \ {h} : k.agent # h.agent
    BY <1>4, HandlersAfter DEF Applied
  <2>2. h.seen = "unread"
    BY <1>4 DEF Applied, TypeOK, AgentTypeOK, Report
  <2>3. Owing(h) => Owing(g)
    BY <1>4, <2>1, <2>2 DEF Applied, Owing
  <2>. QED
    BY <1>2, <1>4, <2>1, <2>3 DEF Applied, pluginVars
<1>5. ASSUME NEW h \in handler, Served(h) PROVE Owes(b)'
  <2>1. PICK g \in handler' : /\ g.agent = h.agent /\ g.msg = h.msg /\ g.pc = h.pc
                              /\ g.seen = status[h.msg.fw]
                              /\ handler' = (handler \ {h}) \cup {g}
                              /\ \A k \in handler \ {h} : k.agent # h.agent
    BY <1>5, HandlersServed
  <2>2. h.msg.fw = f /\ UNCHANGED <<status, queue>>
    BY <1>5 DEF Served, pluginVars, Orderly, TypeOK, AgentTypeOK, Handler, Message
  <2>3. Owing(h) => Owing(g)
    BY <2>1, <2>2 DEF Owing, Unapplied
  <2>. QED
    BY <1>2, <2>1, <2>2, <2>3
<1>6. ASSUME NEW h \in handler, Answered(h) PROVE Owes(b)'
  <2>1. ~Owing(h)
    BY <1>6, AnsweredRow
  <2>2. handler' = handler \ {h} /\ UNCHANGED queue
    BY <1>6 DEF Answered, HandlerEnds
  <2>. QED
    BY <2>1, <2>2 DEF Owes, Deletes
<1>7. ASSUME NEW a \in Agent, Looped(a) PROVE Owes(b)'
  BY <1>7 DEF Looped, pluginVars, Owes, Deletes
<1>. QED
  BY <1>1, <1>3, <1>4, <1>5, <1>6, <1>7 DEF Deed

\* An agent keeps what OrderInv says of rows: what it ends up with is what it was.
LEMMA DeedRows ==
  ASSUME Orderly, TypeOK, OrderInv, Deed, NEW f \in Firewall
  PROVE  RowFacts(f)'
<1>0. RowFacts(f) /\ status \in [Firewall -> Status]
  BY DEF OrderInv, TypeOK, PluginTypeOK
<1>1. UNCHANGED <<adminUp, rev, serving>>
  BY DEF Deed, Receive, Looped, Passed, Served, Applied, Answered, CallCommits, pluginVars, dbVars
<1>2. ASSUME status'[f] = "unborn"
      PROVE  handler' = {} /\ \A a \in Agent : queue'[a] = <<>> /\ installed'[a][f] = None
  <2>1. handler = {} /\ \A a \in Agent : queue[a] = <<>> /\ installed[a][f] = None
    BY <1>0, <1>2, DeedStatus DEF RowFacts
  <2>2. \E a \in Agent : Looped(a)
    BY <2>1 DEF Deed, Receive
  <2>. QED
    BY <2>1, <2>2 DEF Looped, pluginVars
<1>3. ASSUME deletion'[f] = "asked", DeletionCast', NEW a \in Agent PROVE Reaches(a, f, None)'
  BY <1>0, <1>3, DeedStatus, DeedCast, ReachesKept DEF RowFacts
<1>4. ASSUME \A a \in Agent : Reaches(a, f, Current(f)), NEW a \in Agent
      PROVE  Reaches(a, f, Current(f))'
  <2> DEFINE c == Current(f)
  <2>1. Reaches(a, f, c)
    BY <1>4
  <2>2. c' = c
    BY <1>1 DEF Current
  <2>. HIDE DEF c
  <2>3. PICK d : d = c
    OBVIOUS
  <2>4. Reaches(a, f, d)'
    BY <2>1, <2>3, ReachesKept
  <2>. QED
    BY <2>2, <2>3, <2>4 DEF c
<1>5. ASSUME InDb(f)', \A r \in serving' : ~Pushes(r, f)
      PROVE  \/ \A a \in Agent : Reaches(a, f, Current(f))'
             \/ \A a \in Agent : DeleteLast(a)'
  <2>1. \/ \A a \in Agent : Reaches(a, f, Current(f))
        \/ \A a \in Agent : DeleteLast(a)
    BY <1>0, <1>1, <1>5, DeedStatus DEF RowFacts
  <2>. QED
    BY <1>4, <2>1, DeleteLastKept
<1>6. ASSUME status'[f] \in {"ACTIVE", "DOWN"}, \A r \in serving' : ~Pushes(r, f)
      PROVE  \/ \A a \in Agent : Reaches(a, f, Current(f))'
             \/ \E a \in Agent : Owes(a)'
  <2>1. CASE status'[f] = status[f]
    <3>1. \/ \A a \in Agent : Reaches(a, f, Current(f))
          \/ \E a \in Agent : Owes(a)
      BY <1>0, <1>1, <1>6, <2>1 DEF RowFacts
    <3>. QED
      BY <1>4, <1>6, <3>1, OwesKept
  <2>2. ASSUME NEW h \in handler, Answered(h), status'[f] # status[f]
        PROVE  \/ \A a \in Agent : Reaches(a, f, Current(f))'
               \/ \E a \in Agent : Owes(a)'
    <3>1. InDb(f)' /\ h.pc \in {"ACTIVE", "DOWN"} /\ h.agent \in Agent
      BY <1>6, <2>2, AnsweredRow
      DEF InDb, RowStatus, Settled, TypeOK, AgentTypeOK, Handler
    <3>2. h.msg.func # "delete_firewall"
      BY <3>1 DEF OrderInv, HandlerFacts
    <3>3. DeleteLast(h.agent) => Owes(h.agent)
      BY <2>2, <3>2 DEF DeleteLast, Owes
    <3>4. \/ \A a \in Agent : Reaches(a, f, Current(f))
          \/ \A a \in Agent : DeleteLast(a)
      BY <1>0, <1>1, <1>6, <3>1, DeedStatus DEF RowFacts
    <3>. QED
      BY <1>4, <1>6, <3>1, <3>3, <3>4, OwesKept
  <2>3. ASSUME NEW h \in handler, Passed(h) \/ Served(h) \/ \E p \in Report : Applied(h, p)
        PROVE  UNCHANGED status
    BY <2>3 DEF Passed, Served, Applied, pluginVars
  <2>4. ASSUME NEW a \in Agent, Receive(a) \/ Looped(a) PROVE UNCHANGED status
    BY <2>4 DEF Receive, Looped, pluginVars, dbVars
  <2>. QED
    BY <2>1, <2>2, <2>3, <2>4 DEF Deed
<1>. QED
  BY <1>2, <1>3, <1>5, <1>6 DEF RowFacts

\* And what it says of requests, loops and handlers.
LEMMA DeedRest ==
  ASSUME Orderly, TypeOK, OrderInv, Deed
  PROVE  /\ late' = {}
         /\ \A r \in serving' : RequestFacts(r)'
         /\ \A a \in Agent : LoopFacts(a)'
         /\ HandlerFacts'
<1>0. /\ status \in [Firewall -> Status] /\ task \in [Agent -> Task]
      /\ queue \in [Agent -> Seq(Message)] /\ servicesSync \in [Agent -> BOOLEAN]
      /\ \A h \in handler : h \in Handler /\ h.msg.fw \in Firewall /\ h.agent \in Agent
  BY DEF TypeOK, PluginTypeOK, AgentTypeOK, Handler, Message
<1>1. UNCHANGED <<adminUp, rev, serving, alive, hosted, late>>
  BY DEF Deed, Receive, Looped, Passed, Served, Applied, Answered, CallCommits, pluginVars, dbVars
<1>2. \A f \in Firewall : /\ status'[f] = "unborn" <=> status[f] = "unborn"
                          /\ deletion'[f] = "asked" => deletion[f] = "asked"
                          /\ status[f] = "gone" => status'[f] = "gone"
  BY DeedStatus
<1>3. ASSUME NEW r \in serving' PROVE RequestFacts(r)'
  <2>1. RequestFacts(r) /\ (r.pc \in {"read", "rules", "cast"} => r.fw \in Firewall)
    BY <1>1 DEF OrderInv, TypeOK, PluginTypeOK
  <2>. QED
    BY <1>1, <1>2, <2>1 DEF RequestFacts
<1>4. ASSUME NEW a \in Agent PROVE LoopFacts(a)'
  <2>1. LoopFacts(a)
    BY DEF OrderInv
  <2>2. alive'[a] /\ hosted'[a]
    BY <1>1, <2>1 DEF LoopFacts
  <2>3. ASSUME UNCHANGED task, servicesSync'[a] = servicesSync[a] PROVE LoopFacts(a)'
    BY <1>2, <2>1, <2>2, <2>3 DEF LoopFacts
  <2>4. ASSUME NEW b \in Agent, Receive(b) PROVE UNCHANGED <<task, servicesSync>>
    BY <2>4 DEF Receive
  <2>5. ASSUME NEW h \in handler, Passed(h) \/ Served(h) \/ \E p \in Report : Applied(h, p)
        PROVE  UNCHANGED <<task, servicesSync>>
    BY <2>5 DEF Passed, Served, Applied
  <2>6. ASSUME NEW h \in handler, Answered(h) PROVE LoopFacts(a)'
    <3>1. h.msg.fw \in Firewall /\ status[h.msg.fw] # "unborn"
      BY <1>0 DEF OrderInv, RowFacts
    <3>2. CASE InDb(h.msg.fw)
      BY <2>3, <2>6, <3>2 DEF Answered
    <3>3. CASE ~InDb(h.msg.fw)
      <4>1. \A f \in Firewall : status[f] = "gone"
        BY <1>0, <3>1, <3>3 DEF InDb, Status, Orderly
      <4>. QED
        BY <1>2, <2>1, <2>2, <2>6, <4>1 DEF LoopFacts, Answered
    <3>. QED
      BY <3>2, <3>3
  <2>7. ASSUME NEW b \in Agent, Looped(b), b # a PROVE LoopFacts(a)'
    <3>1. task'[a] = task[a] /\ servicesSync'[a] = servicesSync[a]
      BY <1>0, <2>7 DEF Looped, SyncStarts, FetchFirewalls, FirewallsFetched, TaskEnds
    <3>. QED
      BY <1>2, <2>1, <2>2, <3>1 DEF LoopFacts
  <2>8. CASE SyncStarts(a)
    <3>1. /\ task'[a].kind = "sync" /\ task'[a].pc = "fetch" /\ task'[a].todo = {}
          /\ task'[a].listed = {} /\ UNCHANGED servicesSync /\ servicesSync[a]
      BY <1>0, <2>8 DEF SyncStarts, Task, Idle
    <3>. QED
      BY <1>2, <2>1, <2>2, <3>1 DEF LoopFacts
  <2>9. CASE FetchFirewalls(a)
    <3>1. /\ task'[a].kind = task[a].kind /\ task'[a].pc = "read"
          /\ task'[a].todo = task[a].todo /\ UNCHANGED servicesSync
          /\ task'[a].listed = {f \in Firewall : InDb(f)}
          /\ task[a].kind # "idle"
      BY <1>0, <2>9 DEF FetchFirewalls, Task
    <3>2. \A f \in Firewall : ~InDb(f)
      BY <1>0, <2>1, <3>1 DEF LoopFacts, Task, InDb, RowStatus, Pending, Settled
    <3>3. task'[a].listed = {}
      BY <3>1, <3>2
    <3>. QED
      BY <1>2, <2>1, <2>2, <3>1, <3>3 DEF LoopFacts
  <2>10. CASE FirewallsFetched(a)
    <3>1. /\ task'[a].kind = task[a].kind /\ task'[a].pc = "loop"
          /\ task'[a].todo = {} /\ task'[a].listed = task[a].listed
          /\ UNCHANGED servicesSync
      BY <1>0, <2>1, <2>10 DEF FirewallsFetched, LoopFacts, Task
    <3>. QED
      BY <1>2, <2>1, <2>2, <3>1 DEF LoopFacts
  <2>11. CASE TaskEnds(a)
    <3>1. task'[a] = Idle /\ (servicesSync'[a] => servicesSync[a])
      BY <1>0, <2>11 DEF TaskEnds
    <3>. QED
      BY <1>2, <2>1, <2>2, <3>1 DEF LoopFacts, Idle
  <2>12. ASSUME NEW b \in Agent, Looped(b) PROVE LoopFacts(a)'
    BY <2>7, <2>8, <2>9, <2>10, <2>11, <2>12 DEF Looped
  <2>. QED
    BY <2>3, <2>4, <2>5, <2>6, <2>12 DEF Deed
<1>5. HandlerFacts'
  <2>1. HandlerFacts
    BY DEF OrderInv
  <2>2. CASE UNCHANGED handler
    BY <2>1, <2>2 DEF HandlerFacts
  <2>3. ASSUME NEW a \in Agent, Receive(a) PROVE HandlerFacts'
    BY <2>1, <2>3, ReceivedHandler DEF HandlerFacts
  <2>4. ASSUME NEW h \in handler, NEW g \in handler', g.agent = h.agent, g.msg = h.msg,
               handler' = (handler \ {h}) \cup {g}, \A k \in handler \ {h} : k.agent # h.agent,
               g.pc = "DELETED" => h.msg.func = "delete_firewall",
               g.pc \in {"ACTIVE", "DOWN"} => h.msg.func # "delete_firewall"
        PROVE  HandlerFacts'
    BY <2>1, <2>4 DEF HandlerFacts
  <2>5. ASSUME NEW h \in handler, Served(h) PROVE HandlerFacts'
    BY <2>1, <2>4, <2>5, HandlersServed DEF HandlerFacts
  <2>6. ASSUME NEW h \in handler, Passed(h) PROVE HandlerFacts'
    <3>1. HandlerTo(h, "driver")
      BY <2>6 DEF Passed
    <3>. QED
      BY <2>4, <3>1, HandlersAfter
  <2>7. ASSUME NEW h \in handler, NEW p \in Report, Applied(h, p) PROVE HandlerFacts'
    <3>1. HandlerTo(h, p) /\ (p = "DELETED" <=> h.msg.func = "delete_firewall")
      BY <2>7 DEF Applied
    <3>. QED
      BY <2>4, <3>1, HandlersAfter
  <2>8. ASSUME NEW h \in handler, Answered(h) PROVE HandlerFacts'
    BY <2>1, <2>8 DEF Answered, HandlerEnds, HandlerFacts
  <2>. QED
    BY <2>2, <2>3, <2>5, <2>6, <2>7, <2>8 DEF Deed, Looped
<1>6. late' = {}
  BY <1>1 DEF OrderInv
<1>. QED
  BY <1>3, <1>4, <1>5, <1>6

-----------------------------------------------------------------------------
(* The steps of the server.                                                *)

\* A step that leaves agents and messages alone keeps what is said of them.
LEMMA AgentsUntouched ==
  ASSUME TypeOK, OrderInv, UNCHANGED <<agentVars, alive>>,
         \A f \in Firewall : status[f] = "gone" => status'[f] = "gone"
  PROVE  /\ late' = {}
         /\ \A a \in Agent : LoopFacts(a)'
         /\ HandlerFacts'
BY DEF OrderInv, LoopFacts, HandlerFacts, agentVars

\* So does a step of the server on rows without messages of their own.
LEMMA RowsWithin ==
  ASSUME TypeOK, OrderInv, UNCHANGED <<agentVars, queue>>, NEW f \in Firewall,
         status'[f] = "unborn" => status[f] = "unborn",
         \A g \in Firewall : status'[g] = "gone" => status[g] = "gone",
         deletion'[f] = "asked" => deletion[f] = "asked" \/ ~DeletionCast,
         \/ ~InDb(f)' \/ \E r \in serving' : Pushes(r, f)
         \/ /\ UNCHANGED <<status, adminUp, rev>>
            /\ \A r \in serving : ~Pushes(r, f)
  PROVE  RowFacts(f)'
<1>1. RowFacts(f)
  BY DEF OrderInv
<1>2. DeletionCast' => DeletionCast
  BY DEF DeletionCast, agentVars
<1>3. ASSUME NEW a \in Agent, NEW c, Reaches(a, f, c) PROVE Reaches(a, f, c)'
  BY <1>3 DEF Reaches, agentVars
<1>4. deletion'[f] = "asked" /\ DeletionCast' => \A a \in Agent : Reaches(a, f, None)'
  BY <1>1, <1>2, <1>3 DEF RowFacts
<1>5. ASSUME InDb(f)', \A r \in serving' : ~Pushes(r, f)
      PROVE  UNCHANGED <<status, adminUp, rev>> /\ \A r \in serving : ~Pushes(r, f)
  BY <1>5
<1>6. ASSUME UNCHANGED <<adminUp, rev>>, \A a \in Agent : Reaches(a, f, Current(f)), NEW a \in Agent
      PROVE  Reaches(a, f, Current(f))'
  <2> DEFINE c == Current(f)
  <2>1. Reaches(a, f, c)
    BY <1>6
  <2>2. c' = c
    BY <1>6 DEF Current
  <2>. HIDE DEF c
  <2>3. PICK d : d = c
    OBVIOUS
  <2>4. Reaches(a, f, d)'
    BY <2>1, <2>3, <1>3
  <2>. QED
    BY <2>2, <2>3, <2>4 DEF c
<1>7. ASSUME NEW a \in Agent
      PROVE  (DeleteLast(a) => DeleteLast(a)') /\ (Owes(a) => Owes(a)')
  BY DEF DeleteLast, Owes, Deletes, agentVars
<1>8. ASSUME InDb(f)', \A r \in serving' : ~Pushes(r, f)
      PROVE  \/ \A a \in Agent : Reaches(a, f, Current(f))'
             \/ \A a \in Agent : DeleteLast(a)'
  <2>1. \/ \A a \in Agent : Reaches(a, f, Current(f))
        \/ \A a \in Agent : DeleteLast(a)
    BY <1>1, <1>5, <1>8 DEF RowFacts, InDb
  <2>. QED
    BY <1>5, <1>6, <1>7, <1>8, <2>1
<1>9. ASSUME status'[f] \in {"ACTIVE", "DOWN"}, \A r \in serving' : ~Pushes(r, f)
      PROVE  \/ \A a \in Agent : Reaches(a, f, Current(f))'
             \/ \E a \in Agent : Owes(a)'
  <2>1. InDb(f)'
    BY <1>9 DEF InDb, RowStatus, Settled
  <2>2. \/ \A a \in Agent : Reaches(a, f, Current(f))
        \/ \E a \in Agent : Owes(a)
    BY <1>1, <1>5, <1>9, <2>1 DEF RowFacts
  <2>. QED
    BY <1>5, <1>6, <1>7, <1>9, <2>1, <2>2
<1>. QED
  BY <1>1, <1>4, <1>8, <1>9 DEF RowFacts, agentVars

\* A request is accepted.
LEMMA AcceptOrder ==
  ASSUME Orderly, TypeOK, SerialInv, OrderInv, AcceptApi
  PROVE  OrderInv'
<1>1. UNCHANGED <<agentVars, queue, alive, status, deletion, adminUp, rev>>
  BY DEF AcceptApi, ApiRequest, StartCreate, StartUpdate, StartDelete, StartEditPolicy, dbVars
<1>2. ASSUME NEW op, NEW pc \in {"insert", "write", "edit"}, NEW f, NEW up, Accept(op, pc, f, up)
      PROVE  serving = {} /\ \A r \in serving' : r.pc \notin {"read", "rules", "cast"}
  <2> DEFINE new == [id |-> requests', op |-> op, pc |-> pc, fw |-> f,
                     up |-> up, rev |-> 0, todo |-> {}]
  <2>1. serving = {} /\ serving' = {new} /\ new.pc = pc
    BY <1>2, AcceptedAlone DEF Orderly
  <2>. HIDE DEF new
  <2>. QED
    BY <1>2, <2>1
<1>3. serving = {} /\ \A r \in serving' : r.pc \notin {"read", "rules", "cast"}
  BY <1>2 DEF AcceptApi, ApiRequest, StartCreate, StartUpdate, StartDelete, StartEditPolicy
<1>4. ASSUME NEW r \in serving' PROVE RequestFacts(r)'
  BY <1>3, <1>4 DEF RequestFacts
<1>5. ASSUME NEW f \in Firewall PROVE RowFacts(f)'
  BY <1>1, <1>3, RowsWithin
<1>6. late' = {} /\ \A a \in Agent : LoopFacts(a)'
  BY <1>1, AgentsUntouched
<1>7. HandlerFacts'
  BY <1>1, AgentsUntouched
<1>. QED
  BY <1>4, <1>5, <1>6, <1>7 DEF OrderInv


\* What is pushed next, by a request that has nothing else to do for other firewalls.
LEMMA PushedNext ==
  ASSUME NEW r \in serving, serving = {r}, r \in Request, NEW todo, PushNext(r, todo)
  PROVE  \/ todo = {} /\ serving' = {}
         \/ \E f \in todo : \E n \in serving' : /\ serving' = {n} /\ n.op = r.op
                                                /\ n.pc = "write" /\ n.fw = f
<1>1. CASE todo = {} /\ End(r)
  BY <1>1 DEF End
<1>2. ASSUME NEW f \in todo, Become(r, [r EXCEPT !.pc = "write", !.fw = f, !.todo = todo \ {f}])
      PROVE  \E n \in serving' : serving' = {n} /\ n.op = r.op /\ n.pc = "write" /\ n.fw = f
  <2> DEFINE n == [r EXCEPT !.pc = "write", !.fw = f, !.todo = todo \ {f}]
  <2>1. n.op = r.op /\ n.pc = "write" /\ n.fw = f
    BY DEF Request
  <2>2. serving' = {n}
    BY <1>2 DEF Become
  <2>. HIDE DEF n
  <2>. QED
    BY <2>1, <2>2
<1>. QED
  BY <1>1, <1>2 DEF PushNext

\* What was cast for a deletion came from one that was asked for.
LEMMA CastAsked ==
  ASSUME TypeOK, DeletionInv, DeletionCast, NEW f \in Firewall, \A g \in Firewall : g = f, InDb(f)
  PROVE  deletion[f] # "none"
<1>1. ASSUME NEW a \in Agent, NEW i \in 1..Len(queue[a]), queue[a][i].func = "delete_firewall"
      PROVE  deletion[f] # "none"
  <2>1. queue[a] \in Seq(Message)
    BY DEF TypeOK, PluginTypeOK
  <2>2. queue[a][i] \in Message
    BY <2>1
  <2>3. queue[a][i].fw \in Firewall
    BY <2>2 DEF Message
  <2>. QED
    BY <1>1, <2>3 DEF DeletionInv, MessagesDelete, Asked
<1>2. ASSUME NEW h \in handler, h.msg.func = "delete_firewall" PROVE deletion[f] # "none"
  BY <1>2 DEF DeletionInv, HandlersDelete, Asked, TypeOK, AgentTypeOK, Handler, Message
<1>3. \A g \in Firewall : status[g] # "gone"
  BY DEF InDb, RowStatus, Pending, Settled
<1>. QED
  BY <1>1, <1>2, <1>3 DEF DeletionCast

\* The row is written, new or not: the request will push it.
LEMMA WriteOrder ==
  ASSUME Orderly, TypeOK, SerialInv, DeletionInv, OrderInv, NEW r \in serving,
         Insert(r) \/ Write(r), UNCHANGED agentVars
  PROVE  OrderInv'
<1>0. /\ serving = {r} /\ StillAllowed(r) /\ r \in Request
      /\ status \in [Firewall -> Status] /\ adminUp \in [Firewall -> BOOLEAN]
  BY DEF SerialInv, TypeOK, PluginTypeOK
<1>1. UNCHANGED <<rev, queue, alive>>
  BY DEF Insert, Write
<1>2. CASE Write(r) /\ ~InDb(r.fw)
  <2>1. serving' = {} /\ UNCHANGED <<status, adminUp, deletion>>
    BY <1>0, <1>2 DEF Write, End
  <2>2. ASSUME NEW f \in Firewall PROVE RowFacts(f)'
    <3>1. f = r.fw /\ ~InDb(f)'
      BY <1>2, <2>1 DEF Write, Orderly, TypeOK, PluginTypeOK, InDb
    <3>. QED
      BY <1>1, <2>1, <3>1, RowsWithin
  <2>3. late' = {} /\ (\A a \in Agent : LoopFacts(a)') /\ HandlerFacts'
    BY <1>1, <2>1, AgentsUntouched
  <2>. QED
    BY <2>1, <2>2, <2>3 DEF OrderInv
<1>3. ASSUME NEW f \in Firewall, NEW n, Become(r, n), n.pc = "read", n.fw = f, n.op = r.op,
             status[f] # "gone", status'[f] \in Pending,
             deletion'[f] = "asked" => r.op = "delete_firewall",
             deletion'[f] = "asked" => deletion[f] = "asked" \/ ~DeletionCast
      PROVE  OrderInv'
  <2>1. serving' = {n} /\ \A g \in Firewall : g = f
    BY <1>0, <1>3 DEF Become, Orderly
  <2>2. status'[f] \notin {"unborn", "gone"}
    BY <1>3 DEF Pending
  <2>3. RequestFacts(n)'
    BY <1>3, <2>2 DEF RequestFacts
  <2>4. Pushes(n, f)
    BY <1>3 DEF Pushes
  <2>5. ASSUME NEW g \in Firewall PROVE RowFacts(g)'
    BY <1>1, <1>3, <2>1, <2>2, <2>4, RowsWithin
  <2>6. late' = {} /\ (\A a \in Agent : LoopFacts(a)') /\ HandlerFacts'
    BY <1>1, <1>3, <2>1, AgentsUntouched
  <2>. QED
    BY <2>1, <2>3, <2>5, <2>6 DEF OrderInv
<1>4. CASE Write(r) /\ InDb(r.fw)
  <2> DEFINE n == [r EXCEPT !.pc = "read"]
             s == IF r.op = "delete_firewall" THEN "PENDING_DELETE" ELSE "PENDING_UPDATE"
  <2>1. n.pc = "read" /\ n.fw = r.fw /\ n.op = r.op /\ Become(r, n) /\ r.fw \in Firewall
    BY <1>0, <1>4 DEF Write, Request, TypeOK, PluginTypeOK
  <2>2. SetStatus(r.fw, s)
    BY <1>4 DEF Write
  <2>3. status[r.fw] # "gone"
    BY <1>4 DEF InDb, RowStatus, Pending, Settled
  <2>4. status'[r.fw] = s /\ s \in Pending
    BY <2>1, <2>2, SetStatusIs DEF TypeOK, Pending
  <2>5. deletion'[r.fw] = "asked" => r.op = "delete_firewall"
    <3>. SUFFICES ASSUME r.op # "delete_firewall", deletion'[r.fw] = "asked" PROVE FALSE
      OBVIOUS
    <3>1. deletion[r.fw] = "asked" /\ status[r.fw] # "PENDING_DELETE"
      BY <2>1, <2>2, SetStatusIs DEF TypeOK
    <3>. QED
      BY <1>4, <2>1, <2>3, <3>1 DEF DeletionInv, RowsDelete
  <2>6. deletion'[r.fw] = "asked" => deletion[r.fw] = "asked" \/ ~DeletionCast
    <3>1. deletion'[r.fw] = "asked" => deletion[r.fw] = "asked" \/ deletion[r.fw] = "none"
      BY <2>1, <2>2, SetStatusIs DEF TypeOK
    <3>. QED
      BY <1>4, <2>1, <3>1, CastAsked DEF Orderly
  <2>. HIDE DEF n, s
  <2>. QED
    BY <1>3, <2>1, <2>3, <2>4, <2>5, <2>6
<1>5. CASE Insert(r)
  <2>1. PICK f \in Firewall : /\ status[f] = "unborn"
                              /\ SetStatus(f, "PENDING_CREATE")
                              /\ Become(r, [r EXCEPT !.pc = "read", !.fw = f])
    BY <1>5 DEF Insert
  <2> DEFINE n == [r EXCEPT !.pc = "read", !.fw = f]
  <2>2. n.pc = "read" /\ n.fw = f /\ n.op = r.op /\ Become(r, n)
    BY <1>0, <2>1 DEF Request
  <2>3. status'[f] = "PENDING_CREATE" /\ deletion'[f] # "asked"
    BY <2>1, SetStatusIs DEF TypeOK, DeletionInv, RowsDelete
  <2>. HIDE DEF n
  <2>. QED
    BY <1>3, <2>1, <2>2, <2>3 DEF Pending
<1>. QED
  BY <1>2, <1>4, <1>5

\* The policy changes: the request will push every firewall.
LEMMA EditOrder ==
  ASSUME Orderly, TypeOK, SerialInv, OrderInv, NEW r \in serving, EditPolicy(r) \/ ListFirewalls(r),
         UNCHANGED agentVars
  PROVE  OrderInv'
<1>0. serving = {r} /\ StillAllowed(r) /\ r \in Request /\ status \in [Firewall -> Status]
  BY DEF SerialInv, TypeOK, PluginTypeOK
<1>1. UNCHANGED <<status, deletion, queue, alive>> /\ r.op = "edit_policy"
  BY <1>0 DEF EditPolicy, ListFirewalls, StillAllowed, Request, Operation, dbVars
<1>2. late' = {} /\ (\A a \in Agent : LoopFacts(a)') /\ HandlerFacts'
  BY <1>1, AgentsUntouched
<1>3. CASE EditPolicy(r)
  <2> DEFINE n == [r EXCEPT !.pc = "list"]
  <2>1. n.pc = "list" /\ n.op = "edit_policy" /\ serving' = {n}
    BY <1>0, <1>1, <1>3 DEF EditPolicy, Become, Request
  <2>. HIDE DEF n
  <2>2. RequestFacts(n)'
    BY <2>1 DEF RequestFacts
  <2>3. ASSUME NEW f \in Firewall PROVE RowFacts(f)'
    <3>1. Pushes(n, f)
      BY <2>1 DEF Pushes
    <3>. QED
      BY <1>1, <2>1, <3>1, RowsWithin
  <2>. QED
    BY <1>2, <2>1, <2>2, <2>3 DEF OrderInv
<1>4. CASE ListFirewalls(r)
  <2> DEFINE todo == {f \in Firewall : InDb(f)}
  <2>1. PushNext(r, todo) /\ UNCHANGED <<adminUp, rev>>
    BY <1>4 DEF ListFirewalls, dbVars
  <2>2. \A f \in todo : InDb(f) /\ f \in Firewall
    OBVIOUS
  <2>3. todo = {} => \A f \in Firewall : ~InDb(f)
    OBVIOUS
  <2>. HIDE DEF todo
  <2>4. CASE todo = {} /\ serving' = {}
    <3>1. ASSUME NEW f \in Firewall PROVE RowFacts(f)'
      <4>1. ~InDb(f)'
        BY <1>1, <2>3, <2>4 DEF InDb
      <4>. QED
        BY <1>1, <2>4, <4>1, RowsWithin
    <3>. QED
      BY <1>2, <2>4, <3>1 DEF OrderInv
  <2>5. ASSUME NEW f \in todo, NEW n, serving' = {n}, n.op = "edit_policy", n.pc = "write", n.fw = f
        PROVE  OrderInv'
    <3>1. RequestFacts(n)'
      BY <2>5 DEF RequestFacts
    <3>2. Pushes(n, f) /\ \A g \in Firewall : g = f
      BY <2>2, <2>5 DEF Pushes, Orderly
    <3>3. ASSUME NEW g \in Firewall PROVE RowFacts(g)'
      BY <1>1, <2>5, <3>2, RowsWithin
    <3>. QED
      BY <1>2, <2>5, <3>1, <3>3 DEF OrderInv
  <2>. QED
    BY <1>0, <1>1, <2>1, <2>4, <2>5, PushedNext
<1>. QED
  BY <1>3, <1>4

\* The row and the rules are read: what will be cast is what they say.
LEMMA ReadOrder ==
  ASSUME Orderly, TypeOK, SerialInv, OrderInv, NEW r \in serving,
         ReadFirewallRow(r) \/ ReadRules(r), UNCHANGED agentVars
  PROVE  OrderInv'
<1>0. /\ serving = {r} /\ r \in Request /\ r.fw \in Firewall /\ \A f \in Firewall : f = r.fw
      /\ RequestFacts(r)
  BY DEF SerialInv, TypeOK, PluginTypeOK, ReadFirewallRow, ReadRules, Orderly, OrderInv
<1>1. UNCHANGED <<status, deletion, adminUp, rev, queue, alive>>
  BY DEF ReadFirewallRow, ReadRules, dbVars
<1>2. late' = {} /\ (\A a \in Agent : LoopFacts(a)') /\ HandlerFacts'
  BY <1>1, AgentsUntouched
<1>3. CASE ReadFirewallRow(r) /\ ~InDb(r.fw)
  <2>1. serving' = {}
    BY <1>0, <1>3 DEF ReadFirewallRow, End
  <2>2. ASSUME NEW f \in Firewall PROVE RowFacts(f)'
    <3>1. ~InDb(f)'
      BY <1>0, <1>1, <1>3 DEF InDb
    <3>. QED
      BY <1>1, <2>1, <3>1, RowsWithin
  <2>. QED
    BY <1>2, <2>1, <2>2 DEF OrderInv
<1>4. ASSUME NEW n, serving' = {n}, n.fw = r.fw, n.op = r.op, r.pc \in {"read", "rules"},
             n.pc \in {"rules", "cast"}, n.up = adminUp[r.fw], n.pc = "cast" => n.rev = rev
      PROVE  OrderInv'
  <2>1. RequestFacts(n)'
    BY <1>0, <1>1, <1>4 DEF RequestFacts
  <2>2. ASSUME NEW f \in Firewall PROVE RowFacts(f)'
    <3>1. Pushes(n, f)
      BY <1>0, <1>4 DEF Pushes
    <3>. QED
      BY <1>1, <1>4, <3>1, RowsWithin
  <2>. QED
    BY <1>2, <1>4, <2>1, <2>2 DEF OrderInv
<1>5. CASE ReadFirewallRow(r) /\ InDb(r.fw)
  <2> DEFINE n == [r EXCEPT !.pc = "rules", !.up = adminUp[r.fw]]
  <2>1. n.pc = "rules" /\ n.up = adminUp[r.fw] /\ n.fw = r.fw /\ n.op = r.op /\ r.pc = "read"
    BY <1>0, <1>5 DEF ReadFirewallRow, Request
  <2>2. serving' = {n}
    BY <1>0, <1>5 DEF ReadFirewallRow, Become
  <2>. HIDE DEF n
  <2>. QED
    BY <1>4, <2>1, <2>2
<1>6. CASE ReadRules(r)
  <2> DEFINE n == [r EXCEPT !.pc = "cast", !.rev = rev]
  <2>1. n.pc = "cast" /\ n.up = r.up /\ n.rev = rev /\ n.fw = r.fw /\ n.op = r.op /\ r.pc = "rules"
    BY <1>0, <1>6 DEF ReadRules, Request
  <2>2. serving' = {n}
    BY <1>0, <1>6 DEF ReadRules, Become
  <2>3. r.up = adminUp[r.fw]
    BY <1>0, <2>1 DEF RequestFacts
  <2>. HIDE DEF n
  <2>. QED
    BY <1>4, <2>1, <2>2, <2>3
<1>. QED
  BY <1>3, <1>5, <1>6

\* It is cast: whatever else an agent has, this is the last.
LEMMA CastOrder ==
  ASSUME Orderly, TypeOK, SerialInv, OrderInv, NEW r \in serving, Cast(r),
         UNCHANGED agentVars
  PROVE  OrderInv'
<1>0. /\ serving = {r} /\ r \in Request /\ r.fw \in Firewall /\ r.pc = "cast"
      /\ \A f \in Firewall : f = r.fw
      /\ queue \in [Agent -> Seq(Message)] /\ StillAllowed(r) /\ RequestFacts(r)
  BY DEF SerialInv, TypeOK, PluginTypeOK, Cast, Orderly, OrderInv
<1>1. UNCHANGED <<status, deletion, adminUp, rev, alive>> /\ PushNext(r, r.todo)
  BY DEF Cast, dbVars
<1>2. late' = {} /\ (\A a \in Agent : LoopFacts(a)') /\ HandlerFacts'
  BY <1>1, AgentsUntouched
<1>3. serving' = {}
  <2>1. r.todo = {}
    BY <1>0 DEF StillAllowed, Request
  <2>. QED
    BY <1>0, <1>1, <2>1, PushedNext
<1> DEFINE m == MessageOf(r)
<1>4. /\ m \in Message
      /\ Effect(m) = IF r.op = "delete_firewall" THEN None ELSE Current(r.fw)
      /\ m.func = "delete_firewall" <=> r.op = "delete_firewall"
  <2>1. m \in Message
    BY <1>0, MessageOfType
  <2>2. m.up = adminUp[r.fw] /\ m.rev = rev
    BY <1>0 DEF RequestFacts, MessageOf
  <2>3. m.func = "delete_firewall" <=> r.op = "delete_firewall"
    BY DEF MessageOf
  <2>. QED
    BY <2>1, <2>2, <2>3 DEF Effect, ContentOf, Current
<1>5. \A a \in Agent : queue'[a] = Append(queue[a], m)
  BY DEF Cast, OrderInv, LoopFacts
<1>. HIDE DEF m
<1>6. ASSUME NEW a \in Agent PROVE queue'[a] # <<>> /\ queue'[a][Len(queue'[a])] = m
  <2>1. queue[a] \in Seq(Message)
    BY <1>0
  <2>. QED
    BY <1>4, <1>5, <2>1
<1>7. ASSUME NEW a \in Agent, NEW f \in Firewall, NEW c, Effect(m) = c PROVE Reaches(a, f, c)'
  BY <1>6, <1>7 DEF Reaches
<1>8. status'[r.fw] # "unborn"
  BY <1>0, <1>1 DEF RequestFacts
<1>9. CASE r.op = "delete_firewall"
  <2>1. ASSUME NEW a \in Agent PROVE DeleteLast(a)' /\ Owes(a)'
    BY <1>4, <1>6, <1>9 DEF DeleteLast, Owes, Deletes
  <2>2. ASSUME NEW f \in Firewall PROVE RowFacts(f)'
    BY <1>0, <1>4, <1>7, <1>8, <1>9, <2>1 DEF RowFacts
  <2>. QED
    BY <1>2, <1>3, <2>2 DEF OrderInv
<1>10. CASE r.op # "delete_firewall"
  <2>1. deletion'[r.fw] # "asked"
    BY <1>0, <1>1, <1>10 DEF RequestFacts
  <2>2. Current(r.fw)' = Current(r.fw)
    BY <1>1 DEF Current
  <2>3. ASSUME NEW f \in Firewall, NEW a \in Agent PROVE Reaches(a, f, Current(f))'
    <3>1. PICK d : d = Current(r.fw)
      OBVIOUS
    <3>2. Reaches(a, f, d)'
      BY <1>4, <1>7, <1>10, <3>1
    <3>3. f = r.fw
      BY <1>0
    <3>4. Reaches(a, f, Current(r.fw))'
      BY <2>2, <3>1, <3>2
    <3>. QED
      BY <3>3, <3>4
  <2>4. ASSUME NEW f \in Firewall PROVE RowFacts(f)'
    BY <1>0, <1>8, <2>1, <2>3 DEF RowFacts
  <2>. QED
    BY <1>2, <1>3, <2>4 DEF OrderInv
<1>. QED
  BY <1>9, <1>10

\* Every step keeps the invariant.
LEMMA OrderStep ==
  ASSUME Orderly, TypeOK, SerialInv, DeletionInv, OrderInv, [Next]_vars
  PROVE  OrderInv'
<1>1. CASE Deed
  <2>1. /\ late' = {} /\ \A r \in serving' : RequestFacts(r)'
        /\ (\A a \in Agent : LoopFacts(a)') /\ HandlerFacts'
    BY <1>1, DeedRest
  <2>2. \A f \in Firewall : RowFacts(f)'
    BY <1>1, DeedRows
  <2>. QED
    BY <2>1, <2>2 DEF OrderInv
<1>2. CASE ServeApi
  BY <1>2, WriteOrder, EditOrder, ReadOrder, CastOrder DEF ServeApi, Serve
<1>3. CASE UNCHANGED vars
  BY <1>3 DEF OrderInv, RequestFacts, LoopFacts, HandlerFacts, RowFacts, Reaches, Current, Pushes,
              DeleteLast, Owes, Deletes, DeletionCast, InDb, vars, pluginVars, agentVars
<1>. QED
  BY <1>1, <1>2, <1>3, OrderlySteps, AcceptOrder

\* The invariant holds at the start.
LEMMA OrderInit ==
  ASSUME Orderly, Init
  PROVE  OrderInv
BY DEF Orderly, Init, PluginInit, AgentInit, OrderInv, RequestFacts, LoopFacts, HandlerFacts,
       RowFacts, Reaches, DeletionCast, NoRules, Idle, InDb, RowStatus, Pending, Settled

\* The invariants together hold of an orderly system.
LEMMA AlwaysOrder == ASSUME Orderly PROVE Spec => [](TypeOK /\ SerialInv /\ DeletionInv /\ OrderInv)
<1>1. Init => SerialInv /\ DeletionInv /\ OrderInv
  BY OrderInit, DeletionInit DEF Init, PluginInit, SerialInv
<1>2. TypeOK /\ SerialInv /\ DeletionInv /\ OrderInv /\ [Next]_vars
        => SerialInv' /\ DeletionInv' /\ OrderInv'
  BY SerialStep, DeletionStep, OrderStep DEF Orderly
<1>. QED
  BY <1>1, <1>2, TypeCorrect, PTL DEF Spec

\* At rest what an agent ends up with is what its router enforces, and nothing is owed.
LEMMA RestReaches ==
  ASSUME Quiet, NEW a \in Agent, NEW f, NEW c
  PROVE  ~Owes(a) /\ (Reaches(a, f, c) => installed[a][f] = c)
BY DEF Quiet, Reaches, Owes

\* One firewall, nothing that fails, and handlers that do not overlap: at rest every
\* router enforces the firewall as the row says, however requests and reports went, and
\* even if a report undid a deletion.
THEOREM OrderlyIsEnforced == ASSUME Orderly PROVE Spec => []QuietIsEnforced
<1>1. TypeOK /\ OrderInv => QuietIsEnforced
  <2>. SUFFICES ASSUME OrderInv, Quiet, NEW f \in Firewall, NEW a \in Agent,
                       status[f] \in {"ACTIVE", "DOWN"}
                PROVE  installed[a][f] = Current(f)
    BY DEF QuietIsEnforced, Current
  <2>1. Reaches(a, f, Current(f))
    BY RestReaches DEF OrderInv, RowFacts, Quiet
  <2>. QED
    BY <2>1, RestReaches
<1>. QED
  BY <1>1, AlwaysOrder, PTL

\* And once its row is gone no router enforces it, if no report undid its deletion: no
\* agent is left with a message from before the deletion.
THEOREM OrderlyIsUninstalled == ASSUME Orderly PROVE Spec => []GoneIsUninstalled
<1>1. TypeOK /\ OrderInv => GoneIsUninstalled
  <2>. SUFFICES ASSUME OrderInv, Quiet, NEW f \in Firewall, NEW a \in Agent, status[f] = "gone",
                       deletion[f] = "asked"
                PROVE  installed[a][f] = None
    BY DEF GoneIsUninstalled
  <2>1. Reaches(a, f, None)
    BY DEF OrderInv, RowFacts, DeletionCast
  <2>. QED
    BY <2>1, RestReaches
<1>. QED
  BY <1>1, AlwaysOrder, PTL

=============================================================================
