----------------------------- MODULE PanRouter ------------------------------
(***************************************************************************)
(* Routers on PAN firewalls: services/l3_router/l3_router_plugin.py with   *)
(* services/l3_router/drivers/pan/driver.py and db.py.                     *)
(*                                                                         *)
(* A request of the API is one database transaction, in which the driver   *)
(* writes to the candidate configuration of a device, and a commit of that *)
(* configuration after the transaction.  A write is not undone when the    *)
(* transaction rolls back.  Rows that a transaction writes stay locked     *)
(* until it ends.                                                          *)
(***************************************************************************)
EXTENDS PanConnector

CONSTANTS
  Router,        \* uuids that create_router may generate
  ApiWorkers,    \* how many API requests are served at the same time
  MaxRequests,   \* bound: API requests in a behaviour
  MaxFaults      \* bound: XML API calls and transactions that fail

ASSUME RouterAssumption ==
  /\ None \notin Router
  /\ {ApiWorkers, MaxRequests, MaxFaults} \subseteq Nat

VARIABLES
  router,        \* each router: "unborn", "exists" or "gone"
  name,          \* its name
  gateway,       \* its external network, or None
  reserved,      \* pan_device_reservations: the router of each device, or None
  portOf,        \* the router each port is an interface of, or None
  serving,       \* the API requests in progress
  requests,      \* how many requests were accepted so far
  faults         \* how many faults happened so far

dbVars == <<router, name, gateway, reserved, portOf>>
vars   == <<connectorVars, dbVars, serving, requests, faults>>

\* The order of the steps of a request; the first two are only for some.
Pc == {"reserve", "list", "write1", "write2", "commit", "publish"}

Operation == {"create_router", "delete_router", "rename", "set_gateway", "clear_gateway",
              "add_interface", "remove_interface"}

Request == [id : 1..MaxRequests, op : Operation, pc : Pc, router : Router,
            device : Device, port : Port \cup {None}, net : Net \cup {None},
            name : Name \cup {None}, unit : Nat \cup {None}]

\* Which steps an operation has, and which arguments.
WellFormed(q) ==
  /\ q.pc = "reserve" => q.op = "create_router"
  /\ q.pc = "list"    => q.op \in {"add_interface", "remove_interface"}
  /\ q.op = "rename"  => q.pc = "commit"
  /\ q.op \in {"create_router", "rename"} => q.name \in Name
  /\ q.op = "set_gateway" => q.net \in Net
  /\ q.op \in {"add_interface", "remove_interface"} => q.port \in Port
  /\ q.op \in {"add_interface", "remove_interface"} /\ q.pc \in {"write1", "write2"}
       => q.unit \in Nat

TypeOK ==
  /\ ConnectorTypeOK
  /\ router   \in [Router -> {"unborn", "exists", "gone"}]
  /\ name     \in [Router -> Name \cup {None}]
  /\ gateway  \in [Router -> Net \cup {None}]
  /\ reserved \in [Device -> Router \cup {None}]
  /\ portOf   \in [Port -> Router \cup {None}]
  /\ serving  \subseteq Request
  /\ \A q \in serving : WellFormed(q)
  /\ requests \in 0..MaxRequests
  /\ faults   \in 0..MaxFaults

Init ==
  /\ ConnectorInit
  /\ router   = [r \in Router |-> "unborn"]
  /\ name     = [r \in Router |-> None]
  /\ gateway  = [r \in Router |-> None]
  /\ reserved = [d \in Device |-> None]
  /\ portOf   = [p \in Port |-> None]
  /\ serving  = {}
  /\ requests = 0
  /\ faults   = 0

-----------------------------------------------------------------------------
(* Requests and the rows they lock.                                        *)

\* The transaction of q is open.
Open(q) == q.pc # "publish"

\* A row that another open transaction writes cannot be written.
RouterLocked(r) ==
  \E q \in serving : /\ Open(q) /\ q.router = r
                     /\ q.op \notin {"add_interface", "remove_interface"}
PortLocked(p) == \E q \in serving : Open(q) /\ q.port = p

\* The reservation row of d is inserted or deleted by an open transaction.
DeviceLocked(d) ==
  \E q \in serving : /\ Open(q) /\ q.device = d /\ q.pc # "reserve"
                     /\ q.op \in {"create_router", "delete_router"}

Accept(op, pc, r, d, p, n, nm) ==
  /\ Cardinality(serving) < ApiWorkers
  /\ requests < MaxRequests
  /\ requests' = requests + 1
  /\ serving' = serving \cup {[id |-> requests', op |-> op, pc |-> pc, router |-> r,
                               device |-> d, port |-> p, net |-> n, name |-> nm,
                               unit |-> None]}
  /\ UNCHANGED <<connectorVars, dbVars, faults>>

To(q, pc)  == serving' = (serving \ {q}) \cup {[q EXCEPT !.pc = pc]}
End(q)     == serving' = serving \ {q}

\* A call to the XML API or the transaction fails: the handler raises, an open
\* transaction rolls back and the configurations stay as they are.
Fails(q) ==
  /\ faults < MaxFaults
  /\ faults' = faults + 1
  /\ End(q)
  /\ UNCHANGED <<connectorVars, dbVars, requests>>

-----------------------------------------------------------------------------
(* The first step of each request: what it reads and checks.               *)

\* create_router_precommit picks any device without a reservation.
StartCreate(r, n, nm) ==
  /\ router[r] = "unborn"
  /\ ~RouterLocked(r)
  /\ \E d \in Device : reserved[d] = None
                       /\ Accept("create_router", "reserve", r, d, None, n, nm)

\* delete_router: not with interfaces.
StartDelete(r) ==
  /\ router[r] = "exists" /\ ~RouterLocked(r)
  /\ \A p \in Port : portOf[p] # r
  /\ \E d \in Device : reserved[d] = r
                       /\ Accept("delete_router", "write1", r, d, None, None, name[r])

\* update_router without a gateway: the driver has nothing to do, and its postcommit
\* raises for want of parameters.
StartRename(r, nm) ==
  /\ router[r] = "exists" /\ ~RouterLocked(r) /\ nm # name[r]
  /\ \E d \in Device : reserved[d] = r /\ Accept("rename", "commit", r, d, None, None, nm)

\* update_router with external_gateway_info.
StartSetGateway(r, n) ==
  /\ router[r] = "exists" /\ ~RouterLocked(r)
  /\ \E d \in Device : reserved[d] = r
                       /\ Accept("set_gateway", "write1", r, d, None, n, None)

StartClearGateway(r) ==
  /\ router[r] = "exists" /\ ~RouterLocked(r)
  /\ \E d \in Device : reserved[d] = r
                       /\ Accept("clear_gateway", "write1", r, d, None, None, None)

StartAddInterface(r, p) ==
  /\ router[r] = "exists"
  /\ portOf[p] = None /\ ~PortLocked(p)
  /\ \E d \in Device : reserved[d] = r
                       /\ Accept("add_interface", "list", r, d, p, None, None)

StartRemoveInterface(r, p) ==
  /\ portOf[p] = r /\ ~PortLocked(p)
  /\ \E d \in Device : reserved[d] = r
                       /\ Accept("remove_interface", "list", r, d, p, None, None)

ApiRequest ==
  \E r \in Router :
    \/ \E n \in Net \cup {None}, nm \in Name : StartCreate(r, n, nm)
    \/ StartDelete(r)
    \/ \E nm \in Name : StartRename(r, nm)
    \/ \E n \in Net : StartSetGateway(r, n)
    \/ StartClearGateway(r)
    \/ \E p \in Port : StartAddInterface(r, p) \/ StartRemoveInterface(r, p)

-----------------------------------------------------------------------------
(* The steps of the transaction.                                           *)

\* Mutant: device_sn is no key.
Reserve_NoKey(q) ==
  /\ q.pc = "reserve"
  /\ To(q, "write1")
  /\ UNCHANGED <<connectorVars, dbVars, requests, faults>>

\* reserve_pan_device inserts under the primary key device_sn: it waits for the
\* transaction that locks the row, and raises when the row exists.
Reserve(q) ==
  /\ q.pc = "reserve"
  /\ ~DeviceLocked(q.device)
  /\ IF reserved[q.device] = None THEN To(q, "write1") ELSE End(q)
  /\ UNCHANGED <<connectorVars, dbVars, requests, faults>>

\* What the units are read for: the number of a new one, or the unit of the port.
Found(q, units) ==
  IF q.op = "add_interface" THEN {NewUnit(units)} ELSE UnitsOf(units, q.port)

WithUnit(q, n) == serving' = (serving \ {q}) \cup {[q EXCEPT !.pc = "write1", !.unit = n]}

\* Mutant: remove_vlan_iface does not return when it finds no unit.
GoOnWith_NoCheck(q, units) ==
  \/ \E n \in Found(q, units) : WithUnit(q, n)
  \/ Found(q, units) = {} /\ To(q, "write1")

GoOnWith(q, units) ==
  \/ \E n \in Found(q, units) : WithUnit(q, n)
  \/ Found(q, units) = {} /\ To(q, "commit")

\* _list_vlan_interfaces: an error of the XML API reads as "no units".
List(q) ==
  /\ q.pc = "list"
  /\ \/ /\ GoOnWith(q, running[q.device].units)
        /\ UNCHANGED faults
     \/ /\ faults < MaxFaults
        /\ faults' = faults + 1
        /\ GoOnWith(q, {})
  /\ UNCHANGED <<connectorVars, dbVars, requests>>

\* The first of the writes of the driver's precommit, and the second.
Write1(q) ==
  /\ q.pc = "write1"
  /\ CASE q.op = "create_router"    -> AddDeviceTag(q.device, Tenant)
       [] q.op = "delete_router"    -> RemoveDeviceTag(q.device, Tenant)
       [] q.op = "set_gateway"      -> AddExternalIp(q.device, q.net)
       [] q.op = "clear_gateway"    -> SetExternalNat(q.device, None)
       [] q.op = "add_interface"    -> SetUnit(q.device, q.unit, q.port)
       [] q.op = "remove_interface" -> UnrouteUnit(q.device, q.unit)
  /\ To(q, "write2")
  /\ UNCHANGED <<dbVars, requests, faults>>

Write2(q) ==
  /\ q.pc = "write2"
  /\ CASE q.op = "create_router"    -> AddDeviceTag(q.device, q.name)
       [] q.op = "delete_router"    -> RemoveDeviceTag(q.device, q.name)
       [] q.op = "set_gateway"      -> SetExternalNat(q.device, q.net)
       [] q.op = "clear_gateway"    -> RemoveExternalIp(q.device)
       [] q.op = "add_interface"    -> RouteUnit(q.device, q.unit)
       [] q.op = "remove_interface" -> DeleteUnit(q.device, q.unit)
  /\ To(q, "commit")
  /\ UNCHANGED <<dbVars, requests, faults>>

\* What each transaction makes of the tables.
Commit(q) ==
  LET r == q.router
  IN /\ q.pc = "commit"
     /\ router'   = CASE q.op = "create_router" -> [router EXCEPT ![r] = "exists"]
                      [] q.op = "delete_router" -> [router EXCEPT ![r] = "gone"]
                      [] OTHER                  -> router
     /\ reserved' = CASE q.op = "create_router" -> [reserved EXCEPT ![q.device] = r]
                      [] q.op = "delete_router" -> [reserved EXCEPT ![q.device] = None]
                      [] OTHER                  -> reserved
     /\ name'     = IF q.op \in {"create_router", "rename"}
                      THEN [name EXCEPT ![r] = q.name] ELSE name
     /\ gateway'  = IF q.op \in {"create_router", "delete_router", "set_gateway",
                                 "clear_gateway"}
                      THEN [gateway EXCEPT ![r] = q.net] ELSE gateway
     /\ portOf'   = CASE q.op = "add_interface"    -> [portOf EXCEPT ![q.port] = r]
                      [] q.op = "remove_interface" -> [portOf EXCEPT ![q.port] = None]
                      [] OTHER                     -> portOf
     /\ IF q.op = "rename" THEN End(q) ELSE To(q, "publish")
     /\ UNCHANGED <<connectorVars, requests, faults>>

\* The postcommit.
Publish(q) ==
  /\ q.pc = "publish"
  /\ IF q.op \in {"create_router", "delete_router"} THEN CommitPanorama
                                                    ELSE CommitDevice(q.device)
  /\ End(q)
  /\ UNCHANGED <<dbVars, requests, faults>>

Serve(q) ==
  \/ Reserve(q) \/ List(q) \/ Write1(q) \/ Write2(q) \/ Commit(q) \/ Publish(q)
  \/ q.pc # "list" /\ Fails(q)

Next == ApiRequest \/ \E q \in serving : Serve(q)

Spec == Init /\ [][Next]_vars

-----------------------------------------------------------------------------
(* Safety.                                                                 *)

\* create_router and delete_router: a router exists just when one device, and only
\* one, is reserved for it, whatever fails and whoever else picks a device.
RouterHasItsDevice ==
  /\ \A r \in Router : router[r] = "exists" <=> \E d \in Device : reserved[d] = r
  /\ \A c, d \in Device : reserved[c] = reserved[d] /\ reserved[c] # None => c = d

\* Nothing is in progress and nothing ever failed.
CalmRest == serving = {} /\ faults = 0

\* add_device_tags and remove_device_tags: at rest just the devices that are reserved
\* carry the tag of the tenant.
TenantTagIsReservation ==
  CalmRest => \A d \in Device : Tenant \in runningTags[d] <=> reserved[d] # None

\* The same for the tag with the name of the router, which update_router leaves as it is.
NameTagIsReservation ==
  CalmRest => \A d \in Device :
    runningTags[d] \ {Tenant} = IF reserved[d] = None THEN {} ELSE {name[reserved[d]]}

\* The postcommits: at rest the devices run everything that was written for them.
RestIsCommitted == CalmRest => running = candidate /\ runningTags = tags

\* remove_vlan_iface: no interface outlives its port, and none is on a device of
\* another router.
NoStaleInterface ==
  CalmRest => \A d \in Device : \A u \in running[d].units :
    reserved[d] # None /\ portOf[u.port] = reserved[d]

\* add_vlan_iface: every interface of a router has its unit on the router's device.
EveryPortHasItsUnit ==
  CalmRest => \A d \in Device, p \in Port :
    portOf[p] # None /\ portOf[p] = reserved[d]
      => \E u \in running[d].units : u.port = p /\ u.number \in running[d].routed

\* remove_external_nat denies internet access: without a gateway, there is no rule.
NoGatewayNoNat ==
  CalmRest => \A d \in Device :
    reserved[d] # None /\ gateway[reserved[d]] = None => running[d].nat = None

=============================================================================
