---------------------------- MODULE OvsAgentProofs ----------------------------
(***************************************************************************)
(* Proofs about OvsAgent for every number of ports, networks and VLANs, of *)
(* events, failed calls and restarts.                                      *)
(***************************************************************************)
EXTENDS OvsAgent, TLAPS

\* The row says that the port is to be up.
Up(p) == rows[p].here /\ rows[p].admin

\* The last scan saw the port, and its details were not skipped since.
Looked(p) == IF loop.pc = "idle" THEN p \in known ELSE p \in loop.current \ loop.skipped

\* The loop will ask for the port again, or has an answer that says that it is up.
Coming(p) ==
  \/ sync \/ loop.failed \/ ~canary
  \/ p \in portUpdates \cup updated \cup loop.ask
  \/ ~Looked(p)
  \/ \E d \in loop.read : d.port = p /\ d.here /\ d.admin

\* A port that is to be up is bound to its network, or will be looked at.
PortsAreBound == \A p \in Ports : Up(p) => p \in lvm[rows[p].net].ports \/ Coming(p)

\* An answer that is not true any more is followed by a port_update.
ReadIsTrue ==
  \A d \in loop.read : (d.here /\ d.admin) \/ ~Up(d.port) \/ d.port \in portUpdates \cup updated

\* What a pass has to do goes with how far it is.
PassIsRight ==
  /\ loop.pc = "idle" => loop.ask = {} /\ loop.read = {} /\ ~loop.failed
  /\ loop.pc \notin {"idle", "asking"} => loop.ask = {} \/ loop.failed
  /\ loop.pc = "removing" => loop.read = {}
  /\ loop.removed \cap loop.current = {}
  /\ loop.pc \in {"tagging", "reporting"} => loop.now \in InHand
  /\ loop.pc # "idle" => ~sync

\* No two networks have one local VLAN.
VlansAreApart == \A m, n \in Nets : lvm[m].vlan = lvm[n].vlan /\ lvm[m].vlan # None => m = n

\* A network is deleted when it has no ports left, so that losing its mapping loses none.
DeletedNets == \A n \in netDeletes : \A p \in Ports : rows[p].net = n => ~rows[p].here

\* What is inductive with the types.
PassInv == PortsAreBound /\ ReadIsTrue /\ PassIsRight /\ VlansAreApart /\ DeletedNets

-----------------------------------------------------------------------------
(* Type correctness.                                                       *)

\* The types hold at the start.
LEMMA InitType == OvsInit => OvsTypeOK
<1>. SUFFICES ASSUME OvsInit PROVE OvsTypeOK
  OBVIOUS
<1>1. loop \in PassState
  BY DEF OvsInit, Idle, PassState
<1>2. /\ rows \in [Ports -> PortRow]
      /\ tag \in [Ports -> Vlans \cup {None, Dead, "unplugged"}]
      /\ lvm \in [Nets -> [vlan : Vlans \cup {None}, ports : SUBSET Ports]]
  BY DEF OvsInit, NoMapping, PortRow
<1>. QED
  BY <1>1, <1>2 DEF OvsInit, OvsTypeOK

\* What happens outside of the agent keeps them,
LEMMA EnvironmentType == ASSUME OvsTypeOK, Environment PROVE OvsTypeOK'
<1>1. ASSUME NEW p \in Ports, Plug(p) \/ Unplug(p) PROVE OvsTypeOK'
  BY <1>1 DEF Plug, Unplug, OvsTypeOK, serverVars, agentVars
<1>2. ASSUME NEW p \in Ports, UpdateAdmin(p) \/ DeletePort(p) PROVE OvsTypeOK'
  <2>1. \E x \in BOOLEAN : \/ rows' = [rows EXCEPT ![p].admin = x]
                          \/ rows' = [rows EXCEPT ![p].here = x]
    <3>1. CASE UpdateAdmin(p)
      <4>1. (~rows[p].admin) \in BOOLEAN
        OBVIOUS
      <4>2. rows' = [rows EXCEPT ![p].admin = ~rows[p].admin]
        BY <3>1, Zenon DEF UpdateAdmin
      <4>. QED
        BY <4>1, <4>2, Zenon
    <3>2. CASE DeletePort(p)
      BY <3>2, Zenon DEF DeletePort
    <3>. QED
      BY <1>2, <3>1, <3>2
  <2>2. rows' \in [Ports -> PortRow]
    <3>1. ASSUME NEW x \in BOOLEAN, rows' = [rows EXCEPT ![p].admin = x]
          PROVE  rows' \in [Ports -> PortRow]
      BY <3>1 DEF OvsTypeOK, PortRow
    <3>2. ASSUME NEW x \in BOOLEAN, rows' = [rows EXCEPT ![p].here = x]
          PROVE  rows' \in [Ports -> PortRow]
      BY <3>2 DEF OvsTypeOK, PortRow
    <3>. QED
      BY <2>1, <3>1, <3>2, Zenon
  <2>. QED
    BY <1>2, <2>2 DEF UpdateAdmin, DeletePort, OvsTypeOK, bridgeVars, agentVars
<1>3. ASSUME NEW n \in Nets, DeleteNetwork(n) PROVE OvsTypeOK'
  BY <1>3 DEF DeleteNetwork, OvsTypeOK, bridgeVars, agentVars
<1>4. CASE OvsRestarts
  BY <1>4 DEF OvsRestarts, OvsTypeOK, serverVars, agentVars
<1>5. CASE AgentRestarts
  <2>1. Idle \in PassState
    BY DEF Idle, PassState
  <2>. QED
    BY <1>5, <2>1 DEF AgentRestarts, OvsTypeOK, NoMapping
<1>. QED
  BY <1>1, <1>2, <1>3, <1>4, <1>5 DEF Environment

\* as do its handlers,
LEMMA HandlersType == ASSUME OvsTypeOK, Handlers PROVE OvsTypeOK'
<1>1. ASSUME NEW p \in Ports, PortUpdate(p) PROVE OvsTypeOK'
  BY <1>1 DEF PortUpdate, OvsTypeOK, bridgeVars
<1>2. ASSUME NEW n \in Nets, NetworkDelete(n) PROVE OvsTypeOK'
  BY <1>2 DEF NetworkDelete, Reclaim, NoMapping, OvsTypeOK
<1>. QED
  BY <1>1, <1>2 DEF Handlers

\* Parts of the state of a pass.
LEMMA PassParts ==
  ASSUME NEW l \in PassState, NEW s \in SUBSET Ports, NEW r \in SUBSET Details, NEW x \in BOOLEAN,
         NEW pc \in {"asking", "wiring", "reporting", "removing"}
  PROVE  /\ [l EXCEPT !.pc = pc] \in PassState
         /\ [l EXCEPT !.ask = s, !.read = r] \in PassState
         /\ [l EXCEPT !.pc = pc, !.now = None] \in PassState
         /\ [l EXCEPT !.read = r, !.skipped = s] \in PassState
         /\ [l EXCEPT !.removed = s] \in PassState
         /\ [l EXCEPT !.removed = s, !.failed = x] \in PassState
         /\ [l EXCEPT !.pc = pc, !.read = r, !.failed = x] \in PassState
<1>1. [l EXCEPT !.pc = pc] \in PassState
  BY DEF PassState
<1>2. [l EXCEPT !.ask = s, !.read = r] \in PassState
  BY DEF PassState
<1>3. [l EXCEPT !.pc = pc, !.now = None] \in PassState
  BY DEF PassState
<1>4. [l EXCEPT !.read = r, !.skipped = s] \in PassState
  BY DEF PassState
<1>5. [l EXCEPT !.removed = s] \in PassState
  BY DEF PassState
<1>6. [l EXCEPT !.removed = s, !.failed = x] \in PassState
  BY DEF PassState
<1>7. [l EXCEPT !.pc = pc, !.read = r, !.failed = x] \in PassState
  BY DEF PassState
<1>. QED
  BY <1>1, <1>2, <1>3, <1>4, <1>5, <1>6, <1>7

\* a pass that is given up,
LEMMA AbandonType ==
  ASSUME OvsTypeOK, Abandon
  PROVE  updated' \subseteq Ports /\ sync' \in BOOLEAN /\ loop' \in PassState
BY DEF Abandon, OvsTypeOK, Idle, PassState

\* the scan,
LEMMA ScanType == ASSUME OvsTypeOK, Scan PROVE OvsTypeOK'
<1>1. Base \subseteq Ports /\ Plugged \subseteq Ports
  BY DEF Base, Plugged, OvsTypeOK
<1>2. /\ loop'.pc = "asking" /\ loop' \in PassState
      /\ known' = Base /\ sync' = FALSE /\ updated' = {} /\ SetUp
      /\ UNCHANGED <<serverVars, tag, lvm>>
  <2> DEFINE seen == IF canary THEN Base ELSE {}
             changed == (updated \cup Changed(seen)) \cap Plugged
             off == ~canary
  <2>1. changed \subseteq Ports /\ seen \subseteq Ports /\ off \in BOOLEAN
    BY <1>1
  <2>2. loop' = [Idle EXCEPT !.pc = "asking", !.current = Plugged, !.copy = changed,
                             !.ask = (Plugged \ seen) \cup changed,
                             !.removed = seen \ Plugged, !.restarted = off]
    BY Zenon DEF Scan
  <2>. HIDE DEF seen, changed, off
  <2>3. loop' = [pc |-> "asking", current |-> Plugged, copy |-> changed,
                 ask |-> (Plugged \ seen) \cup changed, read |-> {}, now |-> None,
                 removed |-> seen \ Plugged, skipped |-> {}, restarted |-> off, failed |-> FALSE]
    BY <2>2 DEF Idle
  <2>4. loop' \in PassState /\ loop'.pc = "asking"
    BY <1>1, <2>1, <2>3 DEF PassState
  <2>. QED
    BY <2>4 DEF Scan
<1>. QED
  BY <1>1, <1>2 DEF SetUp, serverVars, OvsTypeOK

\* the calls for details, answered or not,
LEMMA AskType == ASSUME OvsTypeOK, NEW p \in Ports, Ask(p) \/ AskFails(p) PROVE OvsTypeOK'
<1>1. rows' \in [Ports -> PortRow]
  BY DEF Ask, AskFails, Answer, OvsTypeOK, PortRow
<1>2. loop' \in PassState
  <2>1. [port |-> p, here |-> rows[p].here, admin |-> rows[p].admin] \in Details
    BY DEF OvsTypeOK, Details, PortRow
  <2>2. loop \in PassState /\ loop.ask \subseteq Ports /\ loop.read \subseteq Details
    BY DEF OvsTypeOK, PassState
  <2>3. CASE Ask(p)
    <3>1. loop.ask \ {p} \subseteq Ports
          /\ loop.read \cup {[port |-> p, here |-> rows[p].here, admin |-> rows[p].admin]} \subseteq Details
      BY <2>1, <2>2
    <3>. QED
      BY <2>2, <2>3, <3>1, PassParts DEF Ask
  <2>4. CASE AskFails(p)
    BY <2>2, <2>4, PassParts DEF AskFails
  <2>. QED
    BY <2>3, <2>4
<1>. QED
  BY <1>1, <1>2 DEF Ask, AskFails, OvsTypeOK, bridgeVars

\* the wiring,
LEMMA WiringType ==
  ASSUME OvsTypeOK, NEW pc \in {"reporting", "tagging"}, NEW d \in Details,
         NEW vlan \in Vlans \cup {None}
  PROVE  Wiring(pc, d, vlan) \in PassState
BY DEF Wiring, PassState, OvsTypeOK, InHand

\* step by step,
LEMMA WireType ==
  ASSUME OvsTypeOK, NEW d \in loop.read, Skip(d) \/ Kill(d) \/ BindPort(d)
  PROVE  OvsTypeOK'
<1>1. d \in Details /\ d.port \in Ports
  BY DEF OvsTypeOK, PassState, Details, InHand
<1>2. CASE Skip(d)
  <2>1. loop' \in PassState
    BY <1>1, <1>2 DEF Skip, PassState, OvsTypeOK
  <2>. QED
    BY <1>2, <2>1 DEF Skip, OvsTypeOK, serverVars, bridgeVars
<1>3. CASE Kill(d)
  <2>1. loop' \in PassState
    BY <1>1, <1>3, WiringType DEF Kill, PassState, OvsTypeOK
  <2>2. tag' \in [Ports -> Vlans \cup {None, Dead, "unplugged"}]
    BY <1>1, <1>3 DEF Kill, OvsTypeOK
  <2>. QED
    BY <1>3, <2>1, <2>2 DEF Kill, OvsTypeOK, serverVars
<1>4. CASE BindPort(d)
  <2> DEFINE n == rows[d.port].net
  <2>1. n \in Nets
    BY <1>1 DEF OvsTypeOK, PortRow
  <2>2. ASSUME NEW vlan \in Vlans, Bind(d.port, n, vlan), loop' = Wiring("tagging", d, vlan),
               UNCHANGED <<updated, sync>>
        PROVE  OvsTypeOK'
    <3>1. loop' \in PassState
      BY <1>1, <2>2, WiringType
    <3>2. lvm' \in [Nets -> [vlan : Vlans \cup {None}, ports : SUBSET Ports]]
      BY <1>1, <2>1, <2>2 DEF Bind, OvsTypeOK
    <3>3. flows' \subseteq [net : Nets, vlan : Vlans]
      BY <2>1, <2>2 DEF Bind, OvsTypeOK
    <3>. QED
      BY <1>4, <2>2, <3>1, <3>2, <3>3 DEF BindPort, OvsTypeOK, serverVars
  <2>3. CASE Abandon /\ UNCHANGED <<lvm, flows>>
    BY <1>4, <2>3, AbandonType DEF BindPort, OvsTypeOK, serverVars
  <2>. QED
    BY <1>4, <2>2, <2>3, Zenon DEF BindPort
<1>. QED
  BY <1>2, <1>3, <1>4

\* the status the server writes,
LEMMA StatusType ==
  ASSUME OvsTypeOK, NEW p \in Ports, NEW status \in {"ACTIVE", "BUILD", "DOWN"}, SetStatus(p, status)
  PROVE  rows' \in [Ports -> PortRow]
BY DEF SetStatus, OvsTypeOK, PortRow

\* when a port was wired,
LEMMA ReportStatusType ==
  ASSUME OvsTypeOK, loop.now \in InHand, ReportStatus
  PROVE  rows' \in [Ports -> PortRow]
<1>1. loop.now.details.port \in Ports
  BY DEF OvsTypeOK, PassState, Details, InHand
<1>. QED
  BY <1>1, StatusType DEF ReportStatus

\* reported or not,
LEMMA ReportType ==
  ASSUME OvsTypeOK, PassIsRight, SetTag \/ Report \/ ReportFails
  PROVE  OvsTypeOK'
<1>1. loop.now \in InHand
  BY DEF PassIsRight, SetTag, Report, ReportFails
<1>2. loop.now.details.port \in Ports /\ loop.now.vlan \in Vlans \cup {None}
  BY <1>1 DEF OvsTypeOK, PassState, Details, InHand
<1>3. CASE SetTag
  <2>1. loop' \in PassState
    BY <1>3 DEF SetTag, PassState, OvsTypeOK
  <2>2. tag' \in [Ports -> Vlans \cup {None, Dead, "unplugged"}]
    BY <1>2, <1>3 DEF SetTag, OvsTypeOK
  <2>. QED
    BY <1>3, <2>1, <2>2 DEF SetTag, OvsTypeOK, serverVars
<1>4. CASE Report
  <2>1. loop' \in PassState
    BY <1>4 DEF Report, PassState, OvsTypeOK
  <2>. QED
    BY <1>1, <1>4, <2>1, ReportStatusType DEF Report, OvsTypeOK, bridgeVars
<1>5. CASE ReportFails
  BY <1>1, <1>5, ReportStatusType, AbandonType DEF ReportFails, OvsTypeOK, bridgeVars
<1>. QED
  BY <1>3, <1>4, <1>5

\* the removals,
LEMMA RemoveType ==
  ASSUME OvsTypeOK, NEW p \in Ports, Remove(p) \/ RemoveFails(p)
  PROVE  OvsTypeOK'
<1>1. loop' \in PassState
  <2>1. loop \in PassState /\ loop.removed \ {p} \subseteq Ports
    BY DEF OvsTypeOK, PassState
  <2>. QED
    BY <2>1, PassParts DEF Remove, RemoveFails
<1>2. rows' \in [Ports -> PortRow]
  BY StatusType DEF Remove, RemoveFails, OvsTypeOK
<1>3. CASE RemoveFails(p)
  BY <1>1, <1>2, <1>3 DEF RemoveFails, OvsTypeOK, bridgeVars
<1>4. CASE Remove(p)
  <2>1. /\ lvm' \in [Nets -> [vlan : Vlans \cup {None}, ports : SUBSET Ports]]
        /\ flows' \subseteq [net : Nets, vlan : Vlans]
    <3>1. CASE UNCHANGED <<lvm, flows>>
      BY <3>1 DEF OvsTypeOK
    <3>2. ASSUME NEW n \in Nets, Reclaim(n)
          PROVE  /\ lvm' \in [Nets -> [vlan : Vlans \cup {None}, ports : SUBSET Ports]]
                 /\ flows' \subseteq [net : Nets, vlan : Vlans]
      BY <3>2 DEF Reclaim, NoMapping, OvsTypeOK
    <3>3. ASSUME NEW n \in Nets, lvm' = [lvm EXCEPT ![n].ports = @ \ {p}], UNCHANGED flows
          PROVE  /\ lvm' \in [Nets -> [vlan : Vlans \cup {None}, ports : SUBSET Ports]]
                 /\ flows' \subseteq [net : Nets, vlan : Vlans]
      BY <3>3 DEF OvsTypeOK
    <3>4. \/ UNCHANGED <<lvm, flows>>
          \/ \E n \in Nets : Reclaim(n) \/ (lvm' = [lvm EXCEPT ![n].ports = @ \ {p}] /\ UNCHANGED flows)
      BY <1>4 DEF Remove, PortUnbound
    <3>. QED
      BY <3>1, <3>2, <3>3, <3>4, Zenon
  <2>. QED
    BY <1>1, <1>2, <1>4, <2>1 DEF Remove, OvsTypeOK
<1>. QED
  BY <1>3, <1>4

\* and the steps from one part of a pass to the next.
LEMMA AskedWiredType ==
  ASSUME OvsTypeOK, Asked \/ Wired \/ EndPass
  PROVE  OvsTypeOK'
<1>1. loop' \in PassState
  <2>1. Idle \in PassState /\ loop \in PassState
    BY DEF Idle, PassState, OvsTypeOK
  <2>. QED
    BY <2>1, PassParts DEF Asked, Wired, EndPass
<1>2. CASE Asked \/ Wired
  BY <1>1, <1>2 DEF Asked, Wired, OvsTypeOK, serverVars, bridgeVars
<1>3. CASE EndPass
  <2>1. known' \subseteq Ports /\ sync' \in BOOLEAN
    BY <1>3 DEF EndPass, OvsTypeOK, PassState
  <2>. QED
    BY <1>1, <1>3, <2>1 DEF EndPass, OvsTypeOK, serverVars, bridgeVars
<1>. QED
  BY <1>2, <1>3

-----------------------------------------------------------------------------
(* What a pass has still to do.                                            *)

\* It holds before the first pass.
LEMMA InitPass == OvsInit => PassInv
BY DEF OvsInit, PassInv, PortsAreBound, ReadIsTrue, PassIsRight, VlansAreApart, DeletedNets,
       Coming, Looked, Idle, NoMapping

\* The agent is left alone.
LEMMA SameAgent ==
  ASSUME PassInv, UNCHANGED <<rows, portUpdates, netDeletes, agentVars>>, canary' = canary \/ ~canary'
  PROVE  PassInv'
BY DEF PassInv, PortsAreBound, ReadIsTrue, PassIsRight, VlansAreApart, DeletedNets, Coming,
       Looked, Up, agentVars

\* What happens outside of the agent: a port that changes has a port_update.
LEMMA EnvironmentPass ==
  ASSUME OvsTypeOK, PassInv, Environment
  PROVE  PassInv'
<1>1. ASSUME NEW p \in Ports, Plug(p) \/ Unplug(p) PROVE PassInv'
  BY <1>1, SameAgent DEF Plug, Unplug, serverVars
<1>2. CASE OvsRestarts
  BY <1>2, SameAgent DEF OvsRestarts, serverVars
<1>3. ASSUME NEW p \in Ports, UpdateAdmin(p) PROVE PassInv'
  <2>1. /\ \A q \in Ports : rows'[q].net = rows[q].net /\ rows'[q].here = rows[q].here
        /\ \A q \in Ports \ {p} : rows'[q] = rows[q]
    BY <1>3 DEF UpdateAdmin, OvsTypeOK, PortRow
  <2>2. /\ portUpdates' = portUpdates \cup {p}
        /\ UNCHANGED <<netDeletes, canary, lvm, updated, known, sync, loop>>
    BY <1>3 DEF UpdateAdmin, bridgeVars, agentVars
  <2>3. \A q \in Ports : Coming(q) \/ q = p => Coming(q)'
    BY <2>2 DEF Coming, Looked
  <2>4. PortsAreBound'
    BY <2>1, <2>2, <2>3 DEF PassInv, PortsAreBound, Up
  <2>5. ReadIsTrue'
    BY <2>1, <2>2 DEF PassInv, ReadIsTrue, Up, OvsTypeOK, PassState, Details, InHand
  <2>. QED
    BY <2>1, <2>2, <2>4, <2>5 DEF PassInv, PassIsRight, VlansAreApart, DeletedNets, OvsTypeOK
<1>4. ASSUME NEW p \in Ports, DeletePort(p) PROVE PassInv'
  <2>1. /\ \A q \in Ports : rows'[q].net = rows[q].net /\ rows'[q].admin = rows[q].admin
        /\ \A q \in Ports \ {p} : rows'[q] = rows[q]
        /\ ~rows'[p].here
    BY <1>4 DEF DeletePort, OvsTypeOK, PortRow
  <2>2. UNCHANGED <<portUpdates, netDeletes, canary, lvm, updated, known, sync, loop>>
    BY <1>4 DEF DeletePort, bridgeVars, agentVars
  <2>3. \A q \in Ports : Coming(q) => Coming(q)'
    BY <2>2 DEF Coming, Looked
  <2>4. PortsAreBound'
    BY <2>1, <2>2, <2>3 DEF PassInv, PortsAreBound, Up
  <2>5. ReadIsTrue'
    BY <2>1, <2>2 DEF PassInv, ReadIsTrue, Up, OvsTypeOK, PassState, Details, InHand
  <2>. QED
    BY <2>1, <2>2, <2>4, <2>5 DEF PassInv, PassIsRight, VlansAreApart, DeletedNets, OvsTypeOK
<1>5. ASSUME NEW n \in Nets, DeleteNetwork(n) PROVE PassInv'
  <2>1. /\ UNCHANGED <<rows, portUpdates, canary, lvm, updated, known, sync, loop>>
        /\ netDeletes' = netDeletes \cup {n}
        /\ \A p \in Ports : rows[p].net = n => ~rows[p].here
    BY <1>5 DEF DeleteNetwork, bridgeVars, agentVars
  <2>2. \A q \in Ports : Coming(q) => Coming(q)'
    BY <2>1 DEF Coming, Looked
  <2>. QED
    BY <2>1, <2>2 DEF PassInv, PortsAreBound, ReadIsTrue, PassIsRight, VlansAreApart, DeletedNets, Up
<1>6. CASE AgentRestarts
  <2>1. sync' /\ loop' = Idle /\ netDeletes' = {} /\ lvm' = [n \in Nets |-> NoMapping]
    BY <1>6 DEF AgentRestarts
  <2>. QED
    BY <2>1 DEF PassInv, PortsAreBound, ReadIsTrue, PassIsRight, VlansAreApart, DeletedNets, Coming,
                Idle, NoMapping
<1>. QED
  BY <1>1, <1>2, <1>3, <1>4, <1>5, <1>6 DEF Environment

\* A handler puts the port among the updated; a network that goes has no ports.
LEMMA HandlersPass ==
  ASSUME OvsTypeOK, PassInv, Handlers
  PROVE  PassInv'
<1>1. ASSUME NEW p \in Ports, PortUpdate(p) PROVE PassInv'
  <2>1. /\ portUpdates' \cup updated' = portUpdates \cup updated
        /\ UNCHANGED <<rows, netDeletes, canary, lvm, known, sync, loop>>
    BY <1>1 DEF PortUpdate, bridgeVars
  <2>2. \A q \in Ports : Coming(q) => Coming(q)'
    BY <2>1 DEF Coming, Looked
  <2>. QED
    BY <2>1, <2>2 DEF PassInv, PortsAreBound, ReadIsTrue, PassIsRight, VlansAreApart, DeletedNets, Up
<1>2. ASSUME NEW n \in Nets, NetworkDelete(n) PROVE PassInv'
  <2>1. /\ n \in netDeletes /\ netDeletes' = netDeletes \ {n}
        /\ lvm' = [lvm EXCEPT ![n] = NoMapping]
        /\ UNCHANGED <<rows, portUpdates, canary, updated, known, sync, loop>>
    BY <1>2 DEF NetworkDelete, Reclaim
  <2>2. \A q \in Ports : Coming(q) => Coming(q)'
    BY <2>1 DEF Coming, Looked
  <2>3. \A q \in Ports : Up(q) => rows[q].net # n /\ rows[q].net \in Nets
    BY <2>1 DEF PassInv, DeletedNets, Up, OvsTypeOK, PortRow
  <2>4. PortsAreBound'
    BY <2>1, <2>2, <2>3 DEF PassInv, PortsAreBound, Up, OvsTypeOK
  <2>5. VlansAreApart'
    BY <2>1 DEF PassInv, VlansAreApart, NoMapping, OvsTypeOK
  <2>. QED
    BY <2>1, <2>4, <2>5 DEF PassInv, ReadIsTrue, PassIsRight, DeletedNets, Up
<1>. QED
  BY <1>1, <1>2 DEF Handlers

\* A step of the pass that leaves the networks of the ports and the local VLANs alone.
SameRows ==
  \A p \in Ports : /\ rows'[p].net = rows[p].net
                   /\ rows'[p].here = rows[p].here /\ rows'[p].admin = rows[p].admin

\* A step that keeps all that the invariant is about.
LEMMA PassStep ==
  ASSUME PassInv, SameRows, UNCHANGED <<lvm, netDeletes>>,
         \A p \in Ports : Up(p) /\ Coming(p) => Coming(p)', ReadIsTrue', PassIsRight',
         netDeletes \subseteq Nets
  PROVE  PassInv'
BY DEF PassInv, PortsAreBound, VlansAreApart, DeletedNets, SameRows, Up

\* The status is all the server changes of a row,
LEMMA StatusRows ==
  ASSUME OvsTypeOK, NEW p \in Ports, NEW status, SetStatus(p, status)
  PROVE  SameRows
BY DEF SameRows, SetStatus, OvsTypeOK, PortRow

\* also when a port was wired.
LEMMA ReportRows ==
  ASSUME OvsTypeOK, PassIsRight, loop.pc = "reporting", ReportStatus
  PROVE  SameRows
<1>1. loop.now.details.port \in Ports
  BY DEF OvsTypeOK, PassState, Details, InHand, PassIsRight
<1>. QED
  BY <1>1, StatusRows DEF ReportStatus

\* A pass that is given up leaves all to the next.
LEMMA AbandonPass ==
  ASSUME OvsTypeOK, PassInv, SameRows, UNCHANGED <<lvm, netDeletes>>, Abandon
  PROVE  PassInv'
<1>1. sync' /\ loop' = Idle
  BY DEF Abandon
<1>2. ReadIsTrue' /\ PassIsRight' /\ \A p \in Ports : Coming(p)'
  BY <1>1 DEF ReadIsTrue, PassIsRight, Coming, Idle
<1>. QED
  BY <1>2, PassStep DEF OvsTypeOK

\* What the pass looks at is what is on the bridge; what it asks for is what it did not
\* know, and what was updated.
LEMMA ScanPass == ASSUME OvsTypeOK, PassInv, Scan PROVE PassInv'
<1> DEFINE seen == IF canary THEN Base ELSE {}
           changed == (updated \cup Changed(seen)) \cap Plugged
<1>1. /\ loop.pc = "idle" /\ canary'
      /\ known' = Base /\ sync' = FALSE /\ updated' = {}
      /\ UNCHANGED <<rows, portUpdates, netDeletes, lvm>>
  BY DEF Scan, SetUp, serverVars
<1>2. /\ loop'.pc = "asking" /\ loop'.current = Plugged /\ loop'.skipped = {} /\ loop'.read = {}
      /\ loop'.ask = (Plugged \ seen) \cup changed /\ loop'.removed = seen \ Plugged
  BY DEF Scan, Idle
<1>3. \A p \in Ports : p \in updated => p \notin Plugged \/ p \in loop'.ask
  BY <1>2
<1>4. seen \subseteq known /\ (~canary \/ sync => seen = {})
  BY DEF Base
<1>. HIDE DEF seen, changed
<1>5. ASSUME NEW p \in Ports, Up(p), Coming(p) PROVE Coming(p)'
  <2>1. CASE p \notin Plugged
    BY <1>2, <2>1 DEF Coming, Looked
  <2>2. CASE p \in Plugged /\ (sync \/ ~canary \/ p \notin known \/ p \in updated)
    <3>1. p \in loop'.ask
      BY <1>2, <1>3, <1>4, <2>2
    <3>. QED
      BY <3>1 DEF Coming
  <2>3. CASE p \in portUpdates
    BY <1>1, <2>3 DEF Coming
  <2>. QED
    BY <1>1, <1>5, <2>1, <2>2, <2>3 DEF Coming, Looked, PassInv, PassIsRight
<1>6. ReadIsTrue' /\ PassIsRight'
  BY <1>1, <1>2 DEF ReadIsTrue, PassIsRight
<1>7. SameRows
  BY <1>1 DEF SameRows
<1>. QED
  BY <1>1, <1>5, <1>6, <1>7, PassStep DEF OvsTypeOK

\* An answer is what the row says, or a port_update follows.
LEMMA AskPass ==
  ASSUME OvsTypeOK, PassInv, NEW p \in Ports, Ask(p) \/ AskFails(p)
  PROVE  PassInv'
<1>1. SameRows /\ UNCHANGED <<portUpdates, netDeletes, canary, lvm, updated, known, sync>>
  BY DEF Ask, AskFails, Answer, SameRows, OvsTypeOK, PortRow, bridgeVars
<1>2. CASE Ask(p)
  <2> DEFINE d == [port |-> p, here |-> rows[p].here, admin |-> rows[p].admin]
  <2>1. /\ loop.pc = "asking" /\ loop'.pc = "asking"
        /\ loop'.ask = loop.ask \ {p} /\ loop'.read = loop.read \cup {d}
        /\ loop'.current = loop.current /\ loop'.skipped = loop.skipped
        /\ loop'.removed = loop.removed /\ loop'.failed = loop.failed
    BY <1>2 DEF Ask, OvsTypeOK, PassState
  <2>2. d.port = p /\ d.here = rows[p].here /\ d.admin = rows[p].admin
    OBVIOUS
  <2>. HIDE DEF d
  <2>3. ASSUME NEW q \in Ports, Up(q), Coming(q) PROVE Coming(q)'
    BY <1>1, <2>1, <2>2, <2>3 DEF Coming, Looked, Up
  <2>4. ReadIsTrue'
    BY <1>1, <2>1, <2>2 DEF PassInv, ReadIsTrue, SameRows, Up, OvsTypeOK, PassState, Details, InHand
  <2>5. PassIsRight'
    BY <1>1, <1>2, <2>1 DEF PassInv, PassIsRight
  <2>. QED
    BY <1>1, <2>3, <2>4, <2>5, PassStep DEF OvsTypeOK
<1>3. CASE AskFails(p)
  <2>1. /\ loop'.pc = "removing" /\ loop'.read = {} /\ loop'.failed
        /\ loop'.current = loop.current /\ loop'.removed = loop.removed
    BY <1>3 DEF AskFails, OvsTypeOK, PassState
  <2>2. ReadIsTrue' /\ PassIsRight' /\ \A q \in Ports : Coming(q)'
    BY <1>1, <1>3, <2>1 DEF AskFails, PassInv, ReadIsTrue, PassIsRight, Coming
  <2>. QED
    BY <1>1, <2>2, PassStep DEF OvsTypeOK
<1>. QED
  BY <1>2, <1>3

\* The steps between the parts of a pass, and the tag and status of a port.
LEMMA BetweenPass ==
  ASSUME OvsTypeOK, PassInv, Asked \/ SetTag \/ Report \/ Wired
  PROVE  PassInv'
<1>1. /\ SameRows
      /\ UNCHANGED <<portUpdates, netDeletes, canary, lvm, updated, known, sync>>
  <2>1. CASE Report
    <3>1. SameRows
      BY <2>1, ReportRows DEF Report, PassInv
    <3>. QED
      BY <2>1, <3>1 DEF Report, bridgeVars
  <2>2. CASE Asked \/ SetTag \/ Wired
    BY <2>2 DEF Asked, SetTag, Wired, SameRows, serverVars, bridgeVars
  <2>. QED
    BY <2>1, <2>2
<1>2. /\ loop'.ask = loop.ask /\ loop'.read = loop.read
      /\ loop'.current = loop.current /\ loop'.skipped = loop.skipped
      /\ loop'.removed = loop.removed /\ loop'.failed = loop.failed
      /\ \/ loop.pc = "asking" /\ loop'.pc = "wiring" /\ loop.ask = {}
         \/ loop.pc = "tagging" /\ loop'.pc = "reporting" /\ loop'.now = loop.now
         \/ loop.pc = "reporting" /\ loop'.pc = "wiring"
         \/ loop.pc = "wiring" /\ loop'.pc = "removing" /\ loop.read = {}
  BY DEF Asked, SetTag, Report, Wired, OvsTypeOK, PassState
<1>3. ASSUME NEW q \in Ports, Coming(q) PROVE Coming(q)'
  BY <1>1, <1>2, <1>3 DEF Coming, Looked
<1>4. ReadIsTrue'
  BY <1>1, <1>2 DEF PassInv, ReadIsTrue, SameRows, Up, OvsTypeOK, PassState, Details, InHand
<1>5. PassIsRight'
  BY <1>1, <1>2 DEF PassInv, PassIsRight
<1>. QED
  BY <1>1, <1>3, <1>4, <1>5, PassStep DEF OvsTypeOK

\* A port that was answered as up is bound before it is forgotten.
LEMMA WirePass ==
  ASSUME OvsTypeOK, PassInv, NEW d \in loop.read, Skip(d) \/ Kill(d) \/ BindPort(d)
  PROVE  PassInv'
<1>1. d \in Details /\ d.port \in Ports /\ loop.pc = "wiring" /\ UNCHANGED <<rows, portUpdates, netDeletes, canary, known>>
  BY DEF Skip, Kill, BindPort, OvsTypeOK, PassState, Details, InHand, serverVars, bridgeVars
<1>2. SameRows
  BY <1>1 DEF SameRows
<1>3. CASE Skip(d)
  <2>1. /\ loop'.pc = "wiring" /\ loop'.read = loop.read \ {d} /\ loop'.skipped = loop.skipped \cup {d.port}
        /\ loop'.ask = loop.ask /\ loop'.current = loop.current
        /\ loop'.removed = loop.removed /\ loop'.failed = loop.failed
        /\ UNCHANGED <<lvm, updated, sync>>
    BY <1>1, <1>3 DEF Skip, OvsTypeOK, PassState
  <2>2. ASSUME NEW q \in Ports, Coming(q) PROVE Coming(q)'
    BY <1>1, <2>1, <2>2 DEF Coming, Looked
  <2>3. ReadIsTrue' /\ PassIsRight'
    BY <1>1, <2>1 DEF PassInv, ReadIsTrue, PassIsRight, Up
  <2>. QED
    BY <1>1, <1>2, <2>1, <2>2, <2>3, PassStep DEF OvsTypeOK
<1>4. CASE Kill(d)
  <2>1. /\ loop'.pc = "wiring" \/ (loop'.pc = "reporting" /\ loop'.now \in InHand)
        /\ loop'.read = loop.read \ {d} /\ loop'.skipped = loop.skipped
        /\ loop'.ask = loop.ask /\ loop'.current = loop.current
        /\ loop'.removed = loop.removed /\ loop'.failed = loop.failed
        /\ ~(d.here /\ d.admin) /\ UNCHANGED <<lvm, updated, sync>>
    BY <1>1, <1>4 DEF Kill, Wiring, OvsTypeOK, PassState, InHand
  <2>2. ASSUME NEW q \in Ports, Coming(q) PROVE Coming(q)'
    BY <1>1, <2>1, <2>2 DEF Coming, Looked
  <2>3. ReadIsTrue' /\ PassIsRight'
    BY <1>1, <2>1 DEF PassInv, ReadIsTrue, PassIsRight, Up
  <2>. QED
    BY <1>1, <1>2, <2>1, <2>2, <2>3, PassStep DEF OvsTypeOK
<1>5. ASSUME NEW vlan \in Vlans, Bind(d.port, rows[d.port].net, vlan), loop' = Wiring("tagging", d, vlan),
             UNCHANGED <<updated, sync>>
      PROVE  PassInv'
  <2> DEFINE n == rows[d.port].net
  <2>1. n \in Nets
    BY <1>1 DEF OvsTypeOK, PortRow
  <2>2. /\ loop'.pc = "tagging" /\ loop'.now \in InHand
        /\ loop'.read = loop.read \ {d} /\ loop'.skipped = loop.skipped
        /\ loop'.ask = loop.ask /\ loop'.current = loop.current
        /\ loop'.removed = loop.removed /\ loop'.failed = loop.failed
    BY <1>1, <1>5 DEF Wiring, OvsTypeOK, PassState, InHand
  <2>3. /\ lvm'[n] = [vlan |-> vlan, ports |-> lvm[n].ports \cup {d.port}]
        /\ \A m \in Nets \ {n} : lvm'[m] = lvm[m]
        /\ IF lvm[n].vlan = None THEN vlan \in Free ELSE vlan = lvm[n].vlan
    BY <1>5, <2>1 DEF Bind, OvsTypeOK
  <2>. HIDE DEF n
  <2>4. ASSUME NEW q \in Ports, Up(q), Coming(q) PROVE q = d.port \/ Coming(q)'
    BY <1>1, <1>5, <2>2, <2>4 DEF Coming, Looked
  <2>5. PortsAreBound'
    BY <1>1, <2>1, <2>3, <2>4 DEF PassInv, PortsAreBound, Up, n, OvsTypeOK, PortRow
  <2>6. VlansAreApart'
    BY <2>1, <2>3 DEF PassInv, VlansAreApart, Free, OvsTypeOK
  <2>7. ReadIsTrue' /\ PassIsRight'
    BY <1>1, <1>5, <2>2 DEF PassInv, ReadIsTrue, PassIsRight, Up
  <2>. QED
    BY <1>1, <2>5, <2>6, <2>7 DEF PassInv, DeletedNets
<1>6. CASE Abandon /\ UNCHANGED <<lvm, flows>>
  BY <1>1, <1>2, <1>6, AbandonPass
<1>. QED
  BY <1>3, <1>4, <1>5, <1>6, Zenon DEF BindPort

\* A removal takes a port off its network that the scan did not see.
LEMMA RemovePass ==
  ASSUME OvsTypeOK, PassInv, NEW p \in Ports, Remove(p) \/ RemoveFails(p)
  PROVE  PassInv'
<1>1. /\ SameRows /\ loop.pc = "removing" /\ p \in loop.removed
      /\ UNCHANGED <<portUpdates, netDeletes, canary, updated, known, sync>>
  <2>1. SameRows
    BY StatusRows DEF Remove, RemoveFails, SameRows
  <2>. QED
    BY <2>1 DEF Remove, RemoveFails, bridgeVars
<1>2. /\ loop'.pc = "removing" /\ loop'.removed = loop.removed \ {p}
      /\ loop'.ask = loop.ask /\ loop'.read = loop.read
      /\ loop'.current = loop.current /\ loop'.skipped = loop.skipped
      /\ loop.failed => loop'.failed
  BY DEF Remove, RemoveFails, OvsTypeOK, PassState
<1>3. ASSUME NEW q \in Ports, Coming(q) PROVE Coming(q)'
  BY <1>1, <1>2, <1>3 DEF Coming, Looked
<1>4. ReadIsTrue' /\ PassIsRight'
  BY <1>1, <1>2 DEF PassInv, ReadIsTrue, PassIsRight, SameRows, Up, OvsTypeOK, PassState, Details, InHand
<1>5. CASE UNCHANGED lvm
  BY <1>1, <1>3, <1>4, <1>5, PassStep DEF OvsTypeOK
<1>6. ASSUME NEW n \in Nets,
             \/ Reclaim(n) /\ lvm[n].ports = {p}
             \/ lvm' = [lvm EXCEPT ![n].ports = @ \ {p}]
      PROVE  PassInv'
  <2>1. /\ \A m \in Nets : lvm[m].ports \ {p} \subseteq lvm'[m].ports
        /\ \A m \in Nets : lvm'[m].vlan \in {lvm[m].vlan, None}
    BY <1>6 DEF Reclaim, NoMapping, OvsTypeOK
  <2>2. Coming(p)'
    BY <1>1, <1>2 DEF PassInv, PassIsRight, Coming, Looked
  <2>3. PortsAreBound'
    BY <1>1, <1>3, <2>1, <2>2 DEF PassInv, PortsAreBound, SameRows, Up, OvsTypeOK, PortRow
  <2>4. VlansAreApart'
    BY <2>1 DEF PassInv, VlansAreApart
  <2>5. DeletedNets'
    BY <1>1 DEF PassInv, DeletedNets, SameRows
  <2>. QED
    BY <1>4, <2>3, <2>4, <2>5 DEF PassInv
<1>7. \/ UNCHANGED lvm
      \/ \E n \in Nets : \/ Reclaim(n) /\ lvm[n].ports = {p}
                        \/ lvm' = [lvm EXCEPT ![n].ports = @ \ {p}]
  BY DEF Remove, RemoveFails, PortUnbound
<1>. QED
  BY <1>5, <1>6, <1>7

\* At the end of a pass what it saw is known.
LEMMA EndPassPass == ASSUME OvsTypeOK, PassInv, EndPass PROVE PassInv'
<1>1. /\ loop.pc = "removing" /\ known' = loop.current \ loop.skipped /\ sync' = loop.failed
      /\ loop' = Idle /\ UNCHANGED <<rows, portUpdates, netDeletes, canary, lvm, updated>>
  BY DEF EndPass, serverVars, bridgeVars
<1>2. ASSUME NEW q \in Ports, Coming(q) PROVE Coming(q)'
  BY <1>1, <1>2 DEF PassInv, PassIsRight, Coming, Looked, Idle
<1>3. ReadIsTrue' /\ PassIsRight' /\ SameRows
  BY <1>1 DEF ReadIsTrue, PassIsRight, Idle, SameRows
<1>. QED
  BY <1>1, <1>2, <1>3, PassStep DEF OvsTypeOK

\* A report that fails gives up the pass.
LEMMA ReportFailsPass == ASSUME OvsTypeOK, PassInv, ReportFails PROVE PassInv'
<1>1. SameRows
  BY ReportRows DEF ReportFails, PassInv, SameRows
<1>2. Abandon /\ UNCHANGED <<lvm, netDeletes>>
  BY DEF ReportFails
<1>. QED
  BY <1>1, <1>2, AbandonPass

-----------------------------------------------------------------------------
(* The inductive invariant, and the theorems.                              *)

OvsInv == OvsTypeOK /\ PassInv

\* Every step keeps the invariant.
LEMMA NextInv == OvsInv /\ [OvsNext]_ovsVars => OvsInv'
<1>. SUFFICES ASSUME OvsTypeOK, PassInv, [OvsNext]_ovsVars PROVE OvsTypeOK' /\ PassInv'
  BY DEF OvsInv
<1>1. CASE Environment
  BY <1>1, EnvironmentType, EnvironmentPass
<1>2. CASE Handlers
  BY <1>2, HandlersType, HandlersPass
<1>3. CASE Pass
  <2>1. CASE Scan
    BY <2>1, ScanType, ScanPass
  <2>2. CASE Asked \/ SetTag \/ Report \/ Wired
    BY <2>2, AskedWiredType, ReportType, BetweenPass DEF PassInv
  <2>3. CASE EndPass
    BY <2>3, AskedWiredType, EndPassPass
  <2>4. ASSUME NEW p \in Ports, Ask(p) \/ Remove(p) PROVE OvsTypeOK' /\ PassInv'
    BY <2>4, AskType, AskPass, RemoveType, RemovePass
  <2>5. ASSUME NEW d \in loop.read, Skip(d) \/ Kill(d) \/ BindPort(d) PROVE OvsTypeOK' /\ PassInv'
    BY <2>5, WireType, WirePass
  <2>. QED
    BY <1>3, <2>1, <2>2, <2>3, <2>4, <2>5 DEF Pass
<1>4. CASE Failure
  <2>1. CASE ReportFails
    BY <2>1, ReportType, ReportFailsPass DEF PassInv
  <2>2. ASSUME NEW p \in Ports, AskFails(p) \/ RemoveFails(p) PROVE OvsTypeOK' /\ PassInv'
    BY <2>2, AskType, AskPass, RemoveType, RemovePass
  <2>. QED
    BY <1>4, <2>1, <2>2 DEF Failure
<1>5. CASE UNCHANGED ovsVars
  <2>1. OvsTypeOK'
    BY <1>5 DEF OvsTypeOK, ovsVars, serverVars, bridgeVars, agentVars
  <2>2. PassInv'
    BY <1>5, SameAgent DEF ovsVars, serverVars, bridgeVars
  <2>. QED
    BY <2>1, <2>2
<1>. QED
  BY <1>1, <1>2, <1>3, <1>4, <1>5 DEF OvsNext

\* The invariant holds.
LEMMA AlwaysInv == OvsSpec => []OvsInv
<1>1. OvsInit => OvsInv
  BY InitType, InitPass DEF OvsInv
<1>. QED
  BY <1>1, NextInv, PTL DEF OvsSpec

\* The rows of the plugin, the bridge and what the agent keeps have their types: a port
\* never reads as anything but ACTIVE, BUILD or DOWN, whatever fails and restarts.
THEOREM TypeCorrect == OvsSpec => []OvsTypeOK
BY AlwaysInv, PTL DEF OvsInv

\* A port without the VLAN of its network is one the loop will look at again.
LEMMA BoundOrNoticed ==
  ASSUME OvsInv, NEW p \in Ports, Active(p), ~Noticed(p)
  PROVE  OnItsVlan(p)
<1>1. OvsTypeOK /\ PortsAreBound
  BY DEF OvsInv, PassInv
<1>2. ~Coming(p)
  BY DEF Noticed, Coming, Looked
<1>3. rows[p].net \in Nets /\ p \in lvm[rows[p].net].ports
  BY <1>1, <1>2 DEF PortsAreBound, Up, Active, OvsTypeOK, PortRow
<1>4. tag[p] = lvm[rows[p].net].vlan
  BY <1>3 DEF Noticed, Changed, Active
<1>. QED
  BY <1>3, <1>4 DEF OnItsVlan

\* A port that is plugged and up is on the local VLAN of its network, or the loop will
\* look at it again, whatever comes in, fails or restarts while a pass goes on
\* (rpc_loop, process_network_ports and port_update of ovs_neutron_agent.py).
THEOREM PortsAreKept == OvsSpec => []NothingForgotten
<1>1. OvsInv => NothingForgotten
  BY BoundOrNoticed DEF NothingForgotten
<1>. QED
  BY <1>1, AlwaysInv, PTL

\* Two ports of different networks share a local VLAN only while the loop has one of
\* them to look at: provision_local_vlan gives each network one of its own.
THEOREM NetsAreApart == OvsSpec => []Isolation
<1>1. OvsInv => Isolation
  <2>. SUFFICES ASSUME OvsInv, NEW p \in Ports, NEW q \in Ports, Active(p), Active(q), tag[p] = tag[q],
                       rows[p].net # rows[q].net, ~Noticed(p), ~Noticed(q)
                PROVE  tag[p] \notin Vlans
    BY DEF Isolation
  <2>1. OnItsVlan(p) /\ OnItsVlan(q)
    BY BoundOrNoticed
  <2>2. rows[p].net \in Nets /\ rows[q].net \in Nets /\ VlansAreApart
    BY DEF OvsInv, PassInv, OvsTypeOK, PortRow
  <2>. QED
    BY <2>1, <2>2, OvsConstants DEF OnItsVlan, VlansAreApart
<1>. QED
  BY <1>1, AlwaysInv, PTL
==============================================================================
