------------------------------- MODULE OvsAgent -------------------------------
(***************************************************************************)
(* The loop of the Open vSwitch agent of a host (plugins/openvswitch/      *)
(* agent/ovs_neutron_agent.py), which wires the ports it finds on the      *)
(* integration bridge to the local VLAN of their network, with the RPC     *)
(* server of ML2 it asks and reports to (plugins/ml2/rpc.py), the bridge,  *)
(* and those who plug ports into it and change them.                       *)
(*                                                                         *)
(* A pass of rpc_loop scans the bridge, asks for the details of the ports  *)
(* that are new or were updated, wires one after the other, and reports    *)
(* each; then it reports and unbinds those that are gone.  Between two of  *)
(* its calls the green threads of port_update and network_delete run.      *)
(* `faults` counts failed calls and restarts of the agent or of OVS; no    *)
(* more than MaxFaults happen in a behaviour, and MaxEvents events.        *)
(***************************************************************************)
EXTENDS Naturals, FiniteSets

CONSTANTS Ports, Nets, Vlans, None, Dead, MaxEvents, MaxFaults

ASSUME OvsConstants ==
  /\ None \notin Vlans \cup Ports /\ Dead \notin Vlans \cup {None}
  /\ {MaxEvents, MaxFaults} \subseteq Nat

VARIABLES
  rows,          \* the ports as the plugin has them
  portUpdates,   \* the ports with a port_update on its way
  netDeletes,    \* the networks with a network_delete on its way
  tag,           \* the tag of each port on the bridge, "unplugged" when it is not there
  flows,         \* the networks connected to a local VLAN
  canary,        \* the flow that is lost when OVS restarts
  lvm,           \* local_vlan_map
  updated,       \* updated_ports
  known,         \* `ports` of rpc_loop
  sync,
  loop,          \* the pass of rpc_loop
  events, faults

serverVars == <<rows, portUpdates, netDeletes>>
bridgeVars == <<tag, flows, canary>>
agentVars  == <<lvm, updated, known, sync, loop>>
ovsVars    == <<serverVars, bridgeVars, agentVars, events, faults>>

Details   == [port : Ports, here : BOOLEAN, admin : BOOLEAN]
Idle      == [pc |-> "idle", current |-> {}, copy |-> {}, ask |-> {}, read |-> {}, now |-> None,
              removed |-> {}, skipped |-> {}, restarted |-> FALSE, failed |-> FALSE]
NoMapping == [vlan |-> None, ports |-> {}]

PortRow ==
  [net : Nets, here : BOOLEAN, admin : BOOLEAN, status : {"ACTIVE", "BUILD", "DOWN"}]
InHand  == [details : Details, vlan : Vlans \cup {None}]
PassState ==
  [pc : {"idle", "asking", "wiring", "tagging", "reporting", "removing"},
   current : SUBSET Ports, copy : SUBSET Ports, ask : SUBSET Ports, read : SUBSET Details,
   now : InHand \cup {None},
   removed : SUBSET Ports, skipped : SUBSET Ports, restarted : BOOLEAN, failed : BOOLEAN]

OvsTypeOK ==
  /\ rows \in [Ports -> PortRow]
  /\ portUpdates \subseteq Ports /\ netDeletes \subseteq Nets
  /\ tag \in [Ports -> Vlans \cup {None, Dead, "unplugged"}]
  /\ flows \subseteq [net : Nets, vlan : Vlans] /\ canary \in BOOLEAN
  /\ lvm \in [Nets -> [vlan : Vlans \cup {None}, ports : SUBSET Ports]]
  /\ updated \subseteq Ports /\ known \subseteq Ports /\ sync \in BOOLEAN
  /\ loop \in PassState

Plugged == {p \in Ports : tag[p] # "unplugged"}

OvsInit ==
  /\ rows \in [Ports -> [net : Nets, here : {TRUE}, admin : {TRUE}, status : {"DOWN"}]]
  /\ portUpdates = {} /\ netDeletes = {}
  /\ tag = [p \in Ports |-> "unplugged"]
  /\ flows = {} /\ canary = TRUE
  /\ lvm = [n \in Nets |-> NoMapping]
  /\ updated = {} /\ known = {} /\ sync = TRUE
  /\ loop = Idle
  /\ events = 0 /\ faults = 0

Event == events < MaxEvents /\ events' = events + 1 /\ UNCHANGED faults
Fault == faults < MaxFaults /\ faults' = faults + 1 /\ UNCHANGED events
Quiet == UNCHANGED <<events, faults>>

-----------------------------------------------------------------------------
(* What happens to ports outside of the agent.                             *)

Plug(p) ==
  /\ Event
  /\ tag[p] = "unplugged"
  /\ tag' = [tag EXCEPT ![p] = None]
  /\ UNCHANGED <<serverVars, flows, canary, agentVars>>

Unplug(p) ==
  /\ Event
  /\ tag[p] # "unplugged"
  /\ tag' = [tag EXCEPT ![p] = "unplugged"]
  /\ UNCHANGED <<serverVars, flows, canary, agentVars>>

\* update_port of ML2, and its port_update.
UpdateAdmin(p) ==
  /\ Event
  /\ rows[p].here
  /\ rows' = [rows EXCEPT ![p].admin = ~@]
  /\ portUpdates' = portUpdates \cup {p}
  /\ UNCHANGED <<netDeletes, bridgeVars, agentVars>>

\* A port is deleted, with no word to the agent, ...
DeletePort(p) ==
  /\ Event
  /\ rows[p].here
  /\ rows' = [rows EXCEPT ![p].here = FALSE]
  /\ UNCHANGED <<portUpdates, netDeletes, bridgeVars, agentVars>>

\* ... and a network that has no port any more.
DeleteNetwork(n) ==
  /\ Event
  /\ \A p \in Ports : rows[p].net = n => ~rows[p].here
  /\ \E p \in Ports : rows[p].net = n
  /\ netDeletes' = netDeletes \cup {n}
  /\ UNCHANGED <<rows, portUpdates, bridgeVars, agentVars>>

\* OVS restarts: the ports keep their tags, the flows are lost.
OvsRestarts ==
  /\ Fault
  /\ flows' = {} /\ canary' = FALSE
  /\ UNCHANGED <<serverVars, tag, agentVars>>

\* The agent restarts and sets the bridges up anew; what was on its way to it is lost.
AgentRestarts ==
  /\ Fault
  /\ flows' = {} /\ canary' = TRUE
  /\ lvm' = [n \in Nets |-> NoMapping]
  /\ updated' = {} /\ known' = {} /\ sync' = TRUE /\ loop' = Idle
  /\ portUpdates' = {} /\ netDeletes' = {}
  /\ UNCHANGED <<rows, tag>>

-----------------------------------------------------------------------------
(* The handlers of the agent, and its map of local VLANs.                  *)

PortUpdate(p) ==
  /\ p \in portUpdates
  /\ portUpdates' = portUpdates \ {p}
  /\ updated' = updated \cup {p}
  /\ UNCHANGED <<rows, netDeletes, bridgeVars, lvm, known, sync, loop>> /\ Quiet

\* Mutant: a local VLAN is given out again.
Free_All == Vlans

Free == Vlans \ {lvm[n].vlan : n \in Nets}

\* reclaim_local_vlan
Reclaim(n) ==
  /\ lvm' = [lvm EXCEPT ![n] = NoMapping]
  /\ flows' = {f \in flows : f.net # n}

NetworkDelete(n) ==
  /\ n \in netDeletes
  /\ netDeletes' = netDeletes \ {n}
  /\ Reclaim(n)
  /\ UNCHANGED <<rows, portUpdates, tag, canary, updated, known, sync, loop>> /\ Quiet

\* port_unbound: the network loses its local VLAN with the last of its ports.
PortUnbound(p) ==
  LET nets == {n \in Nets : p \in lvm[n].ports}
  IN  IF nets = {}
        THEN UNCHANGED <<lvm, flows>>
        ELSE \E n \in nets :
               IF lvm[n].ports = {p}
                 THEN Reclaim(n)
                 ELSE lvm' = [lvm EXCEPT ![n].ports = @ \ {p}] /\ UNCHANGED flows

\* port_bound provisions a network without a mapping, and any when OVS restarted.
Provisions(n) == lvm[n].vlan = None \/ loop.restarted

\* The agent records the port, and connects its network to a local VLAN if need be.
Bind(p, n, vlan) ==
  /\ IF lvm[n].vlan = None THEN vlan \in Free ELSE vlan = lvm[n].vlan
  /\ lvm' = [lvm EXCEPT ![n] = [vlan |-> vlan, ports |-> @.ports \cup {p}]]
  /\ flows' = IF Provisions(n)
                THEN flows \cup {[net |-> n, vlan |-> vlan]} ELSE flows

-----------------------------------------------------------------------------
(* A pass of rpc_loop.                                                     *)

Base == IF sync THEN {} ELSE known

\* check_changed_vlans
Changed(ports) ==
  {p \in ports \cap Plugged : \E n \in Nets : p \in lvm[n].ports /\ tag[p] # lvm[n].vlan}

\* The bridges are set up anew when the canary is gone.
SetUp ==
  /\ canary' = TRUE
  /\ flows' = IF canary THEN flows ELSE {}

Scan ==
  LET registered == IF canary THEN Base ELSE {}
      changed == (updated \cup Changed(registered)) \cap Plugged
  IN  /\ loop.pc = "idle"
      /\ SetUp
      /\ known' = Base /\ sync' = FALSE /\ updated' = {}
      /\ loop' = [Idle EXCEPT !.pc = "asking", !.current = Plugged, !.copy = changed,
                              !.ask = (Plugged \ registered) \cup changed,
                              !.removed = registered \ Plugged, !.restarted = ~canary]
      /\ UNCHANGED <<serverVars, tag, lvm>> /\ Quiet

\* An exception in a pass: the next starts from nothing.
Abandon ==
  /\ updated' = updated \cup loop.copy
  /\ sync' = TRUE
  /\ loop' = Idle

\* get_device_details, and the status it sets.
Answer(p) ==
  rows' = IF rows[p].here
            THEN [rows EXCEPT ![p].status = IF rows[p].admin THEN "BUILD" ELSE "DOWN"]
            ELSE rows

Ask(p) ==
  /\ loop.pc = "asking" /\ p \in loop.ask
  /\ Answer(p)
  /\ loop' = [loop EXCEPT !.ask = @ \ {p},
                          !.read = @ \cup {[port |-> p, here |-> rows[p].here, admin |-> rows[p].admin]}]
  /\ UNCHANGED <<portUpdates, netDeletes, bridgeVars, lvm, updated, known, sync>> /\ Quiet

\* Mutant: the pass ends as if the details had come.
AskFails_Ignored(p) ==
  /\ loop.pc = "asking" /\ p \in loop.ask
  /\ Fault
  /\ loop' = [loop EXCEPT !.pc = "removing", !.read = {}]
  /\ UNCHANGED <<serverVars, bridgeVars, lvm, updated, known, sync>>

\* DeviceListRetrievalError: no port is wired.  The call may be lost, or its answer.
AskFails(p) ==
  /\ loop.pc = "asking" /\ p \in loop.ask
  /\ Fault
  /\ Answer(p) \/ UNCHANGED rows
  /\ loop' = [loop EXCEPT !.pc = "removing", !.read = {}, !.failed = TRUE]
  /\ UNCHANGED <<portUpdates, netDeletes, bridgeVars, lvm, updated, known, sync>>

Asked ==
  /\ loop.pc = "asking" /\ loop.ask = {}
  /\ loop' = [loop EXCEPT !.pc = "wiring"]
  /\ UNCHANGED <<serverVars, bridgeVars, lvm, updated, known, sync>> /\ Quiet

Wiring(pc, d, vlan) == [loop EXCEPT !.pc = pc, !.read = @ \ {d},
                                    !.now = [details |-> d, vlan |-> vlan]]

\* The port is gone from the bridge, ...
Skip(d) ==
  /\ loop.pc = "wiring" /\ d \in loop.read
  /\ d.port \notin Plugged
  /\ loop' = [loop EXCEPT !.read = @ \ {d}, !.skipped = @ \cup {d.port}]
  /\ UNCHANGED <<serverVars, bridgeVars, lvm, updated, known, sync>> /\ Quiet

\* ... or is down, or not there any more: port_dead.
Kill(d) ==
  /\ loop.pc = "wiring" /\ d \in loop.read
  /\ d.port \in Plugged /\ ~(d.here /\ d.admin)
  /\ tag' = [tag EXCEPT ![d.port] = Dead]
  /\ loop' = IF d.here THEN Wiring("reporting", d, None) ELSE [loop EXCEPT !.read = @ \ {d}]
  /\ UNCHANGED <<serverVars, flows, canary, lvm, updated, known, sync>> /\ Quiet

\* port_bound; without a local VLAN it raises.
BindPort(d) ==
  LET n == rows[d.port].net
  IN  /\ loop.pc = "wiring" /\ d \in loop.read
      /\ d.port \in Plugged /\ d.here /\ d.admin
      /\ \/ \E vlan \in Vlans :
              /\ Bind(d.port, n, vlan)
              /\ loop' = Wiring("tagging", d, vlan)
              /\ UNCHANGED <<updated, sync>>
         \/ /\ lvm[n].vlan = None /\ Free = {}
            /\ Abandon
            /\ UNCHANGED <<lvm, flows>>
      /\ UNCHANGED <<serverVars, tag, canary, known>> /\ Quiet

\* The tag of a port that is gone meanwhile is not set, and no error.
SetTag ==
  LET p == loop.now.details.port
  IN  /\ loop.pc = "tagging"
      /\ tag' = IF p \in Plugged THEN [tag EXCEPT ![p] = loop.now.vlan] ELSE tag
      /\ loop' = [loop EXCEPT !.pc = "reporting"]
      /\ UNCHANGED <<serverVars, flows, canary, lvm, updated, known, sync>> /\ Quiet

\* update_device_up and update_device_down, which set the status of a port that is there.
SetStatus(p, status) ==
  rows' = IF rows[p].here THEN [rows EXCEPT ![p].status = status] ELSE rows

\* Mutant: the status is written as the device is.
ReportStatus_Raw ==
  LET d == loop.now.details
  IN  SetStatus(d.port, IF d.admin THEN "UP" ELSE "DOWN")

ReportStatus ==
  LET d == loop.now.details
  IN  SetStatus(d.port, IF d.admin THEN "ACTIVE" ELSE "DOWN")

Report ==
  /\ loop.pc = "reporting"
  /\ ReportStatus
  /\ loop' = [loop EXCEPT !.pc = "wiring", !.now = None]
  /\ UNCHANGED <<portUpdates, netDeletes, bridgeVars, lvm, updated, known, sync>> /\ Quiet

ReportFails ==
  /\ loop.pc = "reporting"
  /\ Fault
  /\ ReportStatus \/ UNCHANGED rows
  /\ Abandon
  /\ UNCHANGED <<portUpdates, netDeletes, bridgeVars, lvm, known>>

Wired ==
  /\ loop.pc = "wiring" /\ loop.read = {}
  /\ loop' = [loop EXCEPT !.pc = "removing"]
  /\ UNCHANGED <<serverVars, bridgeVars, lvm, updated, known, sync>> /\ Quiet

\* treat_devices_removed
Remove(p) ==
  /\ loop.pc = "removing" /\ p \in loop.removed
  /\ SetStatus(p, "DOWN")
  /\ PortUnbound(p)
  /\ loop' = [loop EXCEPT !.removed = @ \ {p}]
  /\ UNCHANGED <<portUpdates, netDeletes, tag, canary, updated, known, sync>> /\ Quiet

RemoveFails(p) ==
  /\ loop.pc = "removing" /\ p \in loop.removed
  /\ Fault
  /\ SetStatus(p, "DOWN") \/ UNCHANGED rows
  /\ loop' = [loop EXCEPT !.removed = @ \ {p}, !.failed = TRUE]
  /\ UNCHANGED <<portUpdates, netDeletes, bridgeVars, lvm, updated, known, sync>>

\* Mutant: what came in during the pass is cleared with what the pass handled.
EndPass_Clears ==
  /\ loop.pc = "removing" /\ loop.removed = {}
  /\ known' = loop.current \ loop.skipped
  /\ sync' = loop.failed
  /\ loop' = Idle
  /\ updated' = {}
  /\ UNCHANGED <<serverVars, bridgeVars, lvm>> /\ Quiet

\* Mutant: the ports that are there at the end of the pass are known.
EndPass_Rescans ==
  /\ loop.pc = "removing" /\ loop.removed = {}
  /\ known' = Plugged
  /\ sync' = loop.failed
  /\ loop' = Idle
  /\ UNCHANGED <<serverVars, bridgeVars, lvm, updated>> /\ Quiet

EndPass ==
  /\ loop.pc = "removing" /\ loop.removed = {}
  /\ known' = loop.current \ loop.skipped
  /\ sync' = loop.failed
  /\ loop' = Idle
  /\ UNCHANGED <<serverVars, bridgeVars, lvm, updated>> /\ Quiet

-----------------------------------------------------------------------------
(* The specification, and what holds of it.                                *)

Environment ==
  \/ \E p \in Ports : Plug(p) \/ Unplug(p) \/ UpdateAdmin(p) \/ DeletePort(p)
  \/ \E n \in Nets : DeleteNetwork(n)
  \/ OvsRestarts \/ AgentRestarts

Pass ==
  \/ Scan \/ Asked \/ SetTag \/ Report \/ Wired \/ EndPass
  \/ \E p \in Ports : Ask(p) \/ Remove(p)
  \/ \E d \in loop.read : Skip(d) \/ Kill(d) \/ BindPort(d)

Failure == ReportFails \/ \E p \in Ports : AskFails(p) \/ RemoveFails(p)

Handlers == (\E p \in Ports : PortUpdate(p)) \/ (\E n \in Nets : NetworkDelete(n))

OvsNext == Environment \/ Pass \/ Failure \/ Handlers

OvsSpec == OvsInit /\ [][OvsNext]_ovsVars

\* The loop goes on, and messages arrive; nobody has to plug or change a port.
OvsFairSpec == OvsSpec /\ WF_ovsVars(Pass) /\ WF_ovsVars(Handlers)

Active(p) == p \in Plugged /\ rows[p].here /\ rows[p].admin
OnItsVlan(p) == LET n == rows[p].net IN tag[p] = lvm[n].vlan /\ p \in lvm[n].ports

\* Something will make the agent look at the port again.
Noticed(p) ==
  \/ sync \/ loop.failed \/ ~canary
  \/ p \in portUpdates \cup updated
  \/ p \notin (IF loop.pc = "idle" THEN known ELSE loop.current \ loop.skipped)
  \/ p \in loop.ask \cup Changed(Ports)
  \/ \E d \in loop.read : d.port = p /\ d.here /\ d.admin
  \/ loop.pc = "tagging" /\ loop.now.details.port = p

\* A port that should be up and is not on the local VLAN of its network is on its way
\* to be wired, whatever came in during the pass that looked at it.
NothingForgotten == \A p \in Ports : Active(p) => OnItsVlan(p) \/ Noticed(p)

\* Ports of different networks the plugin has are not left on one local VLAN.
Isolation ==
  \A p, q \in Ports : Active(p) /\ Active(q) /\ tag[p] = tag[q] /\ rows[p].net # rows[q].net
    => tag[p] \notin Vlans \/ Noticed(p) \/ Noticed(q)

\* In the end a port that is plugged and up is on its VLAN, and reads as ACTIVE.
Settles == <>[](\A p \in Ports : Active(p) => OnItsVlan(p) /\ rows[p].status = "ACTIVE")

\* In the end, when no call failed and nothing restarted, a port that was unplugged, at
\* whatever point of a pass, does not read as ACTIVE.
GoneIsNotActive ==
  <>[](faults = 0 => \A p \in Ports \ Plugged : rows[p].here => rows[p].status # "ACTIVE")
=============================================================================
