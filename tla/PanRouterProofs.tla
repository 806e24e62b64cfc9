-------------------------- MODULE PanRouterProofs ---------------------------
(***************************************************************************)
(* Proofs about PanRouter for every number of routers, devices, ports and  *)
(* API workers, and any number of failures.                                *)
(***************************************************************************)
EXTENDS PanRouter, FiniteSetTheorems, TLAPS

-----------------------------------------------------------------------------
(* Type correctness.                                                       *)

\* The units of a device are finitely many: their number is a number.
FiniteUnits == \A d \in Device : IsFiniteSet(candidate[d].units) /\ IsFiniteSet(running[d].units)

\* The type invariant, and finite sets of units, which are counted.
TypeInv == TypeOK /\ FiniteUnits

\* A request is accepted with well-formed arguments.
LEMMA AcceptType ==
  ASSUME TypeInv, NEW op \in Operation, NEW pc \in Pc, NEW r \in Router, NEW d \in Device,
         NEW p \in Port \cup {None}, NEW n \in Net \cup {None}, NEW nm \in Name \cup {None},
         Accept(op, pc, r, d, p, n, nm),
         \A q : /\ q.op = op /\ q.pc = pc /\ q.port = p /\ q.net = n /\ q.name = nm
                => WellFormed(q)
  PROVE  TypeInv'
<1> DEFINE new == [id |-> requests', op |-> op, pc |-> pc, router |-> r, device |-> d,
                   port |-> p, net |-> n, name |-> nm, unit |-> None]
<1>1. requests' \in 1..MaxRequests
  BY RouterAssumption DEF TypeInv, TypeOK, Accept
<1>2. new \in Request
  BY <1>1 DEF Request
<1>3. new.op = op /\ new.pc = pc /\ new.port = p /\ new.net = n /\ new.name = nm
  OBVIOUS
<1>4. serving' = serving \cup {new}
  BY DEF Accept
<1>. HIDE DEF new
<1>5. serving' \subseteq Request /\ \A q \in serving' : WellFormed(q)
  BY <1>2, <1>3, <1>4 DEF TypeInv, TypeOK
<1>. QED
  BY <1>1, <1>5
  DEF TypeInv, TypeOK, ConnectorTypeOK, FiniteUnits, Accept, connectorVars, dbVars, WellFormed

\* So the first step of every request keeps the types.
LEMMA ApiRequestType ==
  ASSUME TypeInv, ApiRequest
  PROVE  TypeInv'
<1>. USE DEF Operation, Pc, WellFormed
<1>1. \A r \in Router : name[r] \in Name \cup {None}
  BY DEF TypeInv, TypeOK
<1>2. ASSUME NEW r \in Router, NEW n \in Net \cup {None}, NEW nm \in Name, StartCreate(r, n, nm)
      PROVE  TypeInv'
  BY <1>2, AcceptType DEF StartCreate
<1>3. ASSUME NEW r \in Router, StartDelete(r) PROVE TypeInv'
  BY <1>1, <1>3, AcceptType DEF StartDelete
<1>4. ASSUME NEW r \in Router, NEW nm \in Name, StartRename(r, nm) PROVE TypeInv'
  BY <1>4, AcceptType DEF StartRename
<1>5. ASSUME NEW r \in Router, NEW n \in Net, StartSetGateway(r, n) PROVE TypeInv'
  BY <1>5, AcceptType DEF StartSetGateway
<1>6. ASSUME NEW r \in Router, StartClearGateway(r) PROVE TypeInv'
  BY <1>6, AcceptType DEF StartClearGateway
<1>7. ASSUME NEW r \in Router, NEW p \in Port, StartAddInterface(r, p) PROVE TypeInv'
  BY <1>7, AcceptType DEF StartAddInterface
<1>8. ASSUME NEW r \in Router, NEW p \in Port, StartRemoveInterface(r, p) PROVE TypeInv'
  BY <1>8, AcceptType DEF StartRemoveInterface
<1>. QED
  BY <1>2, <1>3, <1>4, <1>5, <1>6, <1>7, <1>8 DEF ApiRequest

\* A request that moves on stays well-formed.
LEMMA MovesOn ==
  ASSUME TypeInv, NEW q \in serving, NEW next \in Request, WellFormed(next),
         serving' = (serving \ {q}) \cup {next}
  PROVE  serving' \subseteq Request /\ \A s \in serving' : WellFormed(s)
BY DEF TypeInv, TypeOK

\* A request that moves on keeps its arguments.
LEMMA ToType ==
  ASSUME TypeInv, NEW q \in serving, q.op # "rename",
         NEW pc \in {"write1", "write2", "commit", "publish"},
         To(q, pc),
         pc \in {"write1", "write2"} => q.pc = "write1" \/ q.op = "create_router"
  PROVE  serving' \subseteq Request /\ \A s \in serving' : WellFormed(s)
<1> DEFINE next == [q EXCEPT !.pc = pc]
<1>1. q \in Request /\ WellFormed(q)
  BY DEF TypeInv, TypeOK
<1>2. next \in Request
  BY <1>1 DEF Request, Pc
<1>3. /\ next.pc = pc /\ next.op = q.op /\ next.name = q.name /\ next.net = q.net
      /\ next.port = q.port /\ next.unit = q.unit
  BY <1>1 DEF Request
<1>. HIDE DEF next
<1>4. WellFormed(next)
  BY <1>1, <1>3 DEF WellFormed
<1>5. serving' = (serving \ {q}) \cup {next}
  BY DEF To, next
<1>. QED
  BY <1>2, <1>4, <1>5, MovesOn

\* A request that ends leaves the others as they are.
LEMMA EndType ==
  ASSUME TypeInv, NEW q \in serving, End(q)
  PROVE  serving' \subseteq Request /\ \A s \in serving' : WellFormed(s)
BY DEF TypeInv, TypeOK, End

\* A write keeps the configurations well-formed.
LEMMA WriteConfigType ==
  ASSUME ConnectorTypeOK, FiniteUnits, NEW d \in Device, NEW c \in Config,
         IsFiniteSet(c.units), WriteConfig(d, c)
  PROVE  ConnectorTypeOK' /\ FiniteUnits'
BY DEF ConnectorTypeOK, FiniteUnits, WriteConfig

\* The writes to the units of a device,
LEMMA UnitWriteType ==
  ASSUME ConnectorTypeOK, FiniteUnits, NEW d \in Device, NEW n \in Nat, NEW p \in Port,
         SetUnit(d, n, p) \/ DeleteUnit(d, n) \/ RouteUnit(d, n) \/ UnrouteUnit(d, n)
  PROVE  ConnectorTypeOK' /\ FiniteUnits'
<1> DEFINE old  == candidate[d].units
           kept == {u \in old : u.number # n}
<1>1. candidate[d] \in Config /\ IsFiniteSet(old)
  BY DEF ConnectorTypeOK, FiniteUnits
<1>2. IsFiniteSet(kept) /\ IsFiniteSet(kept \cup {[number |-> n, port |-> p]})
  <2>1. kept \subseteq old
    OBVIOUS
  <2>. HIDE DEF kept, old
  <2>. QED
    BY <1>1, <2>1, FS_Subset, FS_AddElement
<1>3. CASE SetUnit(d, n, p)
  <2> DEFINE c == [candidate[d] EXCEPT !.units = kept \cup {[number |-> n, port |-> p]}]
  <2>1. c \in Config /\ c.units = kept \cup {[number |-> n, port |-> p]}
    BY <1>1 DEF Config
  <2>2. WriteConfig(d, c)
    BY <1>3 DEF SetUnit
  <2>. QED
    BY <1>2, <2>1, <2>2, WriteConfigType
<1>4. CASE DeleteUnit(d, n)
  <2> DEFINE c == [candidate[d] EXCEPT !.units = kept]
  <2>1. c \in Config /\ c.units = kept
    BY <1>1 DEF Config
  <2>2. WriteConfig(d, c)
    BY <1>4 DEF DeleteUnit
  <2>. QED
    BY <1>2, <2>1, <2>2, WriteConfigType
<1>5. CASE RouteUnit(d, n)
  <2> DEFINE c == [candidate[d] EXCEPT !.routed = @ \cup {n}]
  <2>1. c \in Config /\ c.units = old
    BY <1>1 DEF Config
  <2>2. WriteConfig(d, c)
    BY <1>5 DEF RouteUnit
  <2>. QED
    BY <1>1, <2>1, <2>2, WriteConfigType
<1>6. CASE UnrouteUnit(d, n)
  <2> DEFINE c == [candidate[d] EXCEPT !.routed = @ \ {n}]
  <2>1. c \in Config /\ c.units = old
    BY <1>1 DEF Config
  <2>2. WriteConfig(d, c)
    BY <1>6 DEF UnrouteUnit
  <2>. QED
    BY <1>1, <2>1, <2>2, WriteConfigType
<1>. QED
  BY <1>3, <1>4, <1>5, <1>6

\* to its external address and translation,
LEMMA ExternalWriteType ==
  ASSUME ConnectorTypeOK, FiniteUnits, NEW d \in Device, NEW n \in Net,
         \/ AddExternalIp(d, n) \/ RemoveExternalIp(d)
         \/ SetExternalNat(d, n) \/ SetExternalNat(d, None)
  PROVE  ConnectorTypeOK' /\ FiniteUnits'
<1>1. candidate[d] \in Config /\ IsFiniteSet(candidate[d].units)
  BY DEF ConnectorTypeOK, FiniteUnits
<1>2. ASSUME NEW c \in Config, c.units = candidate[d].units, WriteConfig(d, c)
      PROVE  ConnectorTypeOK' /\ FiniteUnits'
  BY <1>1, <1>2, WriteConfigType
<1>3. ASSUME NEW ips \in SUBSET Net, NEW nat \in Net \cup {None}
      PROVE  /\ [candidate[d] EXCEPT !.ips = ips] \in Config
             /\ [candidate[d] EXCEPT !.ips = ips].units = candidate[d].units
             /\ [candidate[d] EXCEPT !.nat = nat] \in Config
             /\ [candidate[d] EXCEPT !.nat = nat].units = candidate[d].units
  BY <1>1 DEF Config
<1>4. candidate[d].ips \cup {n} \in SUBSET Net
  BY <1>1 DEF Config
<1>. QED
  BY <1>2, <1>3, <1>4 DEF AddExternalIp, RemoveExternalIp, SetExternalNat

\* and to the tags keep the types of the connector.
LEMMA TagWriteType ==
  ASSUME ConnectorTypeOK, FiniteUnits, NEW d \in Device,
         \/ \E t \in Tag : AddDeviceTag(d, t)
         \/ \E t : RemoveDeviceTag(d, t)
  PROVE  ConnectorTypeOK' /\ FiniteUnits'
BY DEF ConnectorTypeOK, FiniteUnits, AddDeviceTag, RemoveDeviceTag

\* ClearGateway has no network: the writes of a request that need one have it.
LEMMA WriteStepType ==
  ASSUME TypeInv, NEW q \in serving, Write1(q) \/ Write2(q)
  PROVE  TypeInv'
<1>. USE DEF TypeInv, TypeOK
<1>1. q \in Request /\ WellFormed(q) /\ q.device \in Device /\ q.op \in Operation
  BY DEF Request
<1>2. q.op # "rename" /\ q.pc \in {"write1", "write2"}
  BY <1>1 DEF WellFormed, Write1, Write2
<1>3. serving' \subseteq Request /\ \A s \in serving' : WellFormed(s)
  BY <1>2, ToType DEF Write1, Write2
<1>4. ConnectorTypeOK' /\ FiniteUnits'
  <2>1. CASE q.op \in {"create_router", "delete_router"}
    <3>1. q.op = "create_router" => q.name \in Tag
      BY <1>1 DEF WellFormed, Tag
    <3>2. Tenant \in Tag
      BY DEF Tag
    <3>. QED
      BY <1>1, <2>1, <3>1, <3>2, TagWriteType DEF Write1, Write2
  <2>2. CASE q.op = "set_gateway"
    <3>1. q.net \in Net
      BY <1>1, <2>2 DEF WellFormed
    <3>. QED
      BY <1>1, <2>2, <3>1, ExternalWriteType DEF Write1, Write2
  <2>3. CASE q.op = "clear_gateway"
    <3>1. RemoveExternalIp(q.device) \/ SetExternalNat(q.device, None)
      BY <2>3 DEF Write1, Write2
    <3>2. candidate[q.device] \in Config /\ IsFiniteSet(candidate[q.device].units)
      BY <1>1 DEF ConnectorTypeOK, FiniteUnits
    <3>3. /\ [candidate[q.device] EXCEPT !.ips = {}] \in Config
          /\ [candidate[q.device] EXCEPT !.ips = {}].units = candidate[q.device].units
          /\ [candidate[q.device] EXCEPT !.nat = None] \in Config
          /\ [candidate[q.device] EXCEPT !.nat = None].units = candidate[q.device].units
      BY <3>2 DEF Config
    <3>. QED
      BY <1>1, <3>1, <3>2, <3>3, WriteConfigType DEF RemoveExternalIp, SetExternalNat
  <2>4. CASE q.op \in {"add_interface", "remove_interface"}
    <3>1. q.port \in Port /\ q.unit \in Nat
      BY <1>1, <1>2, <2>4 DEF WellFormed
    <3>. QED
      BY <1>1, <2>4, <3>1, UnitWriteType DEF Write1, Write2
  <2>. QED
    BY <1>1, <1>2, <2>1, <2>2, <2>3, <2>4 DEF Operation
<1>. QED
  BY <1>3, <1>4 DEF Write1, Write2, dbVars, WellFormed

\* A failed listing is counted within the bound.
LEMMA ListFaults ==
  ASSUME faults \in 0..MaxFaults, NEW q, List(q)
  PROVE  faults' \in 0..MaxFaults
<1>1. CASE UNCHANGED faults
  BY <1>1
<1>2. CASE faults < MaxFaults /\ faults' = faults + 1
  BY <1>2, RouterAssumption
<1>. QED
  BY <1>1, <1>2, Zenon DEF List

\* A request that lists the units notes the number of one, or of a new one.
LEMMA ListStepType ==
  ASSUME TypeInv, NEW q \in serving, List(q)
  PROVE  TypeInv'
<1>. USE DEF TypeInv, TypeOK
<1>1. /\ q \in Request /\ WellFormed(q) /\ q.pc = "list" /\ q.port \in Port
      /\ q.op \in {"add_interface", "remove_interface"} /\ q.device \in Device
  BY DEF List, WellFormed, Request
<1>2. ASSUME NEW n \in Nat,
             serving' = (serving \ {q}) \cup {[q EXCEPT !.pc = "write1", !.unit = n]}
      PROVE  serving' \subseteq Request /\ \A s \in serving' : WellFormed(s)
  <2> DEFINE next == [q EXCEPT !.pc = "write1", !.unit = n]
  <2>1. next \in Request
    BY <1>1 DEF Request, Pc
  <2>2. /\ next.pc = "write1" /\ next.op = q.op /\ next.unit = n
        /\ next.port = q.port
    BY <1>1 DEF Request
  <2>3. WellFormed(next)
    BY <1>1, <2>2 DEF WellFormed
  <2>. QED
    BY <1>2, <2>1, <2>3, MovesOn
<1>3. To(q, "commit") => serving' \subseteq Request /\ \A s \in serving' : WellFormed(s)
  BY <1>1, ToType
<1>4. ASSUME NEW units \in SUBSET [number : Nat, port : Port], IsFiniteSet(units)
      PROVE  NewUnit(units) \in Nat /\ UnitsOf(units, q.port) \subseteq Nat
  BY <1>4, FS_CardinalityType DEF NewUnit, UnitsOf
<1>5. IsFiniteSet({}) /\ {} \in SUBSET [number : Nat, port : Port]
  BY FS_EmptySet
<1>6. /\ IsFiniteSet(running[q.device].units)
      /\ running[q.device].units \in SUBSET [number : Nat, port : Port]
  BY <1>1 DEF FiniteUnits, ConnectorTypeOK, Config
<1>7. serving' \subseteq Request /\ \A s \in serving' : WellFormed(s)
  BY <1>1, <1>2, <1>3, <1>4, <1>5, <1>6 DEF List, GoOnWith, Found, WithUnit
<1>8. faults' \in 0..MaxFaults
  BY ListFaults
<1>. QED
  BY <1>7, <1>8 DEF List, connectorVars, dbVars, ConnectorTypeOK, FiniteUnits, WellFormed

\* A commit keeps the types of the rows.
LEMMA CommitStepType ==
  ASSUME TypeInv, NEW q \in serving, Commit(q)
  PROVE  TypeInv'
<1>. USE DEF TypeInv, TypeOK
<1>1. q \in Request /\ WellFormed(q)
  OBVIOUS
<1>2. serving' \subseteq Request /\ \A s \in serving' : WellFormed(s)
  BY ToType, EndType DEF Commit
<1>3. /\ router' \in [Router -> {"unborn", "exists", "gone"}]
      /\ reserved' \in [Device -> Router \cup {None}]
  BY <1>1 DEF Commit, Request
<1>4. name' \in [Router -> Name \cup {None}]
  BY <1>1 DEF Commit, Request
<1>5. gateway' \in [Router -> Net \cup {None}]
  BY <1>1 DEF Commit, Request
<1>6. portOf' \in [Port -> Router \cup {None}]
  BY <1>1 DEF Commit, Request, WellFormed
<1>. QED
  BY <1>2, <1>3, <1>4, <1>5, <1>6
  DEF Commit, connectorVars, ConnectorTypeOK, FiniteUnits, WellFormed

\* So do the reservation, the postcommit, and a request that fails.
LEMMA OtherStepType ==
  ASSUME TypeInv, NEW q \in serving, Reserve(q) \/ Publish(q) \/ Fails(q)
  PROVE  TypeInv'
<1>. USE DEF TypeInv, TypeOK
<1>1. q \in Request /\ WellFormed(q)
  OBVIOUS
<1>2. CASE Reserve(q)
  <2>1. q.op = "create_router"
    BY <1>1, <1>2 DEF Reserve, WellFormed
  <2>2. serving' \subseteq Request /\ \A s \in serving' : WellFormed(s)
    BY <1>2, <2>1, ToType, EndType DEF Reserve
  <2>. QED
    BY <1>2, <2>2 DEF Reserve, connectorVars, dbVars, ConnectorTypeOK, FiniteUnits, WellFormed
<1>3. CASE Publish(q)
  <2>1. ConnectorTypeOK' /\ FiniteUnits'
    BY <1>3 DEF Publish, CommitPanorama, CommitDevice, ConnectorTypeOK, FiniteUnits
  <2>. QED
    BY <1>3, <2>1, EndType DEF Publish, dbVars, WellFormed
<1>4. CASE Fails(q)
  <2>1. faults' \in 0..MaxFaults
    BY <1>4, RouterAssumption DEF Fails
  <2>. QED
    BY <1>4, <2>1, EndType
    DEF Fails, connectorVars, dbVars, ConnectorTypeOK, FiniteUnits, WellFormed
<1>. QED
  BY <1>2, <1>3, <1>4

\* The types hold at the start,
LEMMA InitType ==
  ASSUME Init
  PROVE  TypeInv
<1>1. IsFiniteSet({}) /\ EmptyConfig \in Config /\ EmptyConfig.units = {}
  BY FS_EmptySet DEF EmptyConfig, Config
<1>2. ConnectorTypeOK /\ FiniteUnits
  BY <1>1 DEF Init, ConnectorInit, ConnectorTypeOK, FiniteUnits
<1>3. 0 \in 0..MaxRequests /\ 0 \in 0..MaxFaults
  BY RouterAssumption
<1>. QED
  BY <1>2, <1>3 DEF Init, TypeInv, TypeOK

\* and every step keeps them.
LEMMA NextType ==
  ASSUME TypeInv, [Next]_vars
  PROVE  TypeInv'
<1>1. CASE UNCHANGED vars
  BY <1>1 DEF vars, connectorVars, dbVars, TypeInv, TypeOK, ConnectorTypeOK, FiniteUnits, WellFormed
<1>. QED
  BY <1>1, ApiRequestType, WriteStepType, ListStepType, CommitStepType, OtherStepType
  DEF Next, Serve

\* Type correctness: database, requests and configurations keep their types.
THEOREM TypeCorrect == Spec => []TypeOK
<1>1. TypeInv => TypeOK
  BY DEF TypeInv
<1>. QED
  BY <1>1, InitType, NextType, PTL DEF Spec

-----------------------------------------------------------------------------
(* A router and its device.                                                *)

\* The requests that write the row of their router.
WritesRouter(q) == Open(q) /\ q.op \notin {"add_interface", "remove_interface"}

\* The requests that hold the reservation row of their device.
HoldsDevice(q) ==
  Open(q) /\ q.pc # "reserve" /\ q.op \in {"create_router", "delete_router"}

\* RouterHasItsDevice is not inductive: what an open transaction has read has to
\* hold until it commits, which the locks see to.
ReservationInv ==
  /\ RouterHasItsDevice
  /\ \A q \in serving : WritesRouter(q) /\ q.op = "create_router" => router[q.router] = "unborn"
  /\ \A q \in serving : HoldsDevice(q) /\ q.op = "create_router" => reserved[q.device] = None
  /\ \A q \in serving : HoldsDevice(q) /\ q.op = "delete_router" => reserved[q.device] = q.router
  /\ \A p, q \in serving : WritesRouter(p) /\ WritesRouter(q) /\ p # q => p.router # q.router
  /\ \A p, q \in serving : HoldsDevice(p) /\ HoldsDevice(q) /\ p # q => p.device # q.device

\* A request that moves on inside its transaction, or ends, breaks nothing, as long as
\* it only takes the lock of a device that no other transaction holds.
LEMMA SameDb ==
  ASSUME TypeInv, ReservationInv, NEW q \in serving, UNCHANGED dbVars,
         \/ End(q)
         \/ \E next : /\ serving' = (serving \ {q}) \cup {next}
                      /\ next.op = q.op /\ next.router = q.router /\ next.device = q.device
                      /\ WritesRouter(next) => WritesRouter(q)
                      /\ HoldsDevice(next) /\ ~HoldsDevice(q) =>
                           ~DeviceLocked(q.device) /\ reserved[q.device] = None
                             /\ q.op = "create_router"
  PROVE  ReservationInv'
<1>1. RouterHasItsDevice'
  BY DEF ReservationInv, RouterHasItsDevice, dbVars
<1>2. CASE End(q)
  BY <1>1, <1>2
  DEF ReservationInv, End, WritesRouter, HoldsDevice, Open, dbVars
<1>3. ASSUME NEW next, serving' = (serving \ {q}) \cup {next},
             next.op = q.op, next.router = q.router, next.device = q.device,
             WritesRouter(next) => WritesRouter(q),
             HoldsDevice(next) /\ ~HoldsDevice(q) =>
               ~DeviceLocked(q.device) /\ reserved[q.device] = None /\ q.op = "create_router"
      PROVE  ReservationInv'
  <2>1. \A p \in serving : HoldsDevice(next) /\ ~HoldsDevice(q) =>
          ~(HoldsDevice(p) /\ p.device = q.device)
    BY <1>3 DEF DeviceLocked, HoldsDevice
  <2>2. \A p : /\ WritesRouter(p)' = WritesRouter(p)
               /\ HoldsDevice(p)' = HoldsDevice(p)
    BY DEF WritesRouter, HoldsDevice, Open
  <2>3. UNCHANGED <<router, reserved>>
    BY DEF dbVars
  <2>. QED
    BY <1>1, <1>3, <2>1, <2>2, <2>3 DEF ReservationInv
<1>. QED
  BY <1>2, <1>3

\* The first step of a request reads what it relies on.
LEMMA AcceptReservation ==
  ASSUME TypeInv, ReservationInv, ApiRequest
  PROVE  ReservationInv'
<1>1. ASSUME NEW new, serving' = serving \cup {new}, UNCHANGED dbVars,
             WritesRouter(new) => ~RouterLocked(new.router),
             new.op = "create_router" => new.pc = "reserve" /\ router[new.router] = "unborn",
             new.op = "delete_router" => reserved[new.device] = new.router
                                         /\ new.router \in Router
      PROVE  ReservationInv'
  <2>1. RouterHasItsDevice'
    BY <1>1 DEF ReservationInv, RouterHasItsDevice, dbVars
  <2>2. \A p \in serving : WritesRouter(p) /\ WritesRouter(new) => p.router # new.router
    BY <1>1 DEF RouterLocked, WritesRouter
  <2>3. \A p \in serving : HoldsDevice(p) /\ HoldsDevice(new) => p.device # new.device
    <3>1. ASSUME NEW p \in serving, HoldsDevice(p), HoldsDevice(new), p.device = new.device
          PROVE  FALSE
      <4>1. new.op = "delete_router" /\ WritesRouter(new) /\ WritesRouter(p)
        BY <1>1, <3>1 DEF HoldsDevice, WritesRouter
      <4>2. reserved[p.device] # None
        BY <1>1, <3>1, <4>1, RouterAssumption
      <4>3. p.op = "delete_router"
        BY <3>1, <4>2 DEF ReservationInv, HoldsDevice
      <4>4. p.router = new.router
        BY <1>1, <3>1, <4>1, <4>3 DEF ReservationInv
      <4>. QED
        BY <2>2, <4>1, <4>4
    <3>. QED
      BY <3>1
  <2>4. \A p : /\ WritesRouter(p)' = WritesRouter(p)
               /\ HoldsDevice(p)' = HoldsDevice(p)
    BY DEF WritesRouter, HoldsDevice, Open
  <2>5. HoldsDevice(new) => new.op = "delete_router"
    BY <1>1 DEF HoldsDevice
  <2>6. UNCHANGED <<router, reserved>>
    BY <1>1 DEF dbVars
  <2>. QED
    BY <1>1, <2>1, <2>2, <2>3, <2>4, <2>5, <2>6 DEF ReservationInv
<1>2. ASSUME NEW op, NEW pc, NEW r \in Router, NEW d, NEW p, NEW n, NEW nm,
             Accept(op, pc, r, d, p, n, nm),
             op \notin {"add_interface", "remove_interface"} => ~RouterLocked(r),
             op = "create_router" => pc = "reserve" /\ router[r] = "unborn",
             op = "delete_router" => reserved[d] = r
      PROVE  ReservationInv'
  <2> DEFINE new == [id |-> requests', op |-> op, pc |-> pc, router |-> r, device |-> d,
                     port |-> p, net |-> n, name |-> nm, unit |-> None]
  <2>1. new.op = op /\ new.pc = pc /\ new.router = r /\ new.device = d
    OBVIOUS
  <2>2. serving' = serving \cup {new} /\ UNCHANGED dbVars
    BY <1>2 DEF Accept
  <2>. HIDE DEF new
  <2>3. WritesRouter(new) => ~RouterLocked(new.router)
    BY <1>2, <2>1 DEF WritesRouter
  <2>. QED
    BY <1>1, <1>2, <2>1, <2>2, <2>3
<1>3. ASSUME NEW r \in Router, NEW n \in Net \cup {None}, NEW nm \in Name, StartCreate(r, n, nm)
      PROVE  ReservationInv'
  BY <1>2, <1>3 DEF StartCreate
<1>4. ASSUME NEW r \in Router, StartDelete(r) PROVE ReservationInv'
  BY <1>2, <1>4 DEF StartDelete
<1>5. ASSUME NEW r \in Router, NEW nm \in Name, StartRename(r, nm) PROVE ReservationInv'
  BY <1>2, <1>5 DEF StartRename
<1>6. ASSUME NEW r \in Router, NEW n \in Net, StartSetGateway(r, n) PROVE ReservationInv'
  BY <1>2, <1>6 DEF StartSetGateway
<1>7. ASSUME NEW r \in Router, StartClearGateway(r) PROVE ReservationInv'
  BY <1>2, <1>7 DEF StartClearGateway
<1>8. ASSUME NEW r \in Router, NEW p \in Port, StartAddInterface(r, p) PROVE ReservationInv'
  BY <1>2, <1>8 DEF StartAddInterface
<1>9. ASSUME NEW r \in Router, NEW p \in Port, StartRemoveInterface(r, p) PROVE ReservationInv'
  BY <1>2, <1>9 DEF StartRemoveInterface
<1>. QED
  BY <1>3, <1>4, <1>5, <1>6, <1>7, <1>8, <1>9 DEF ApiRequest

\* The steps of the transaction before it commits, and the postcommit.
LEMMA StepReservation ==
  ASSUME TypeInv, ReservationInv, NEW q \in serving,
         \/ Reserve(q) \/ List(q) \/ Write1(q) \/ Write2(q) \/ Publish(q) \/ Fails(q)
  PROVE  ReservationInv'
<1>1. q \in Request /\ WellFormed(q)
  BY DEF TypeInv, TypeOK
<1>2. ASSUME NEW pc, To(q, pc), UNCHANGED dbVars, Open(q),
             HoldsDevice(q) \/ q.op \notin {"create_router", "delete_router"}
      PROVE  ReservationInv'
  <2> DEFINE next == [q EXCEPT !.pc = pc]
  <2>1. next.op = q.op /\ next.router = q.router /\ next.device = q.device
    BY <1>1 DEF Request
  <2>2. serving' = (serving \ {q}) \cup {next}
    BY <1>2 DEF To
  <2>. HIDE DEF next
  <2>3. WritesRouter(next) => WritesRouter(q)
    BY <1>2, <2>1 DEF WritesRouter
  <2>4. HoldsDevice(next) => HoldsDevice(q)
    BY <1>2, <2>1 DEF HoldsDevice
  <2>. QED
    BY <1>2, <2>1, <2>2, <2>3, <2>4, SameDb
<1>3. CASE Reserve(q)
  <2>1. q.op = "create_router" /\ Open(q)
    BY <1>1, <1>3 DEF Reserve, WellFormed, Open
  <2>2. CASE reserved[q.device] = None
    <3> DEFINE next == [q EXCEPT !.pc = "write1"]
    <3>1. next.op = q.op /\ next.router = q.router /\ next.device = q.device
      BY <1>1 DEF Request
    <3>2. serving' = (serving \ {q}) \cup {next}
      BY <1>3, <2>2 DEF Reserve, To
    <3>. HIDE DEF next
    <3>3. WritesRouter(next) => WritesRouter(q)
      BY <2>1, <3>1 DEF WritesRouter
    <3>. QED
      BY <1>3, <2>1, <2>2, <3>1, <3>2, <3>3, SameDb DEF Reserve
  <2>3. CASE reserved[q.device] # None
    BY <1>3, <2>3, SameDb DEF Reserve
  <2>. QED
    BY <2>2, <2>3
<1>4. CASE List(q)
  <2>1. /\ q.op \in {"add_interface", "remove_interface"} /\ Open(q) /\ UNCHANGED dbVars
        /\ \/ To(q, "commit")
           \/ \E n : serving' = (serving \ {q}) \cup {[q EXCEPT !.pc = "write1", !.unit = n]}
    BY <1>1, <1>4 DEF List, GoOnWith, Found, WithUnit, WellFormed, Open
  <2>2. ASSUME NEW n,
               serving' = (serving \ {q}) \cup {[q EXCEPT !.pc = "write1", !.unit = n]}
        PROVE  ReservationInv'
    <3> DEFINE next == [q EXCEPT !.pc = "write1", !.unit = n]
    <3>1. next.op = q.op /\ next.router = q.router /\ next.device = q.device
      BY <1>1 DEF Request
    <3>. HIDE DEF next
    <3>2. ~WritesRouter(next) /\ ~HoldsDevice(next)
      BY <2>1, <3>1 DEF WritesRouter, HoldsDevice
    <3>3. serving' = (serving \ {q}) \cup {next}
      BY <2>2 DEF next
    <3>. QED
      BY <2>1, <3>1, <3>2, <3>3, SameDb
  <2>. QED
    BY <1>2, <2>1, <2>2
<1>5. CASE Write1(q) \/ Write2(q)
  <2>1. /\ UNCHANGED dbVars /\ Open(q) /\ q.pc # "reserve"
        /\ To(q, "write2") \/ To(q, "commit")
    BY <1>5 DEF Write1, Write2, Open
  <2>. QED
    BY <1>2, <2>1 DEF HoldsDevice
<1>6. CASE Publish(q) \/ Fails(q)
  BY <1>6, SameDb DEF Publish, Fails
<1>. QED
  BY <1>3, <1>4, <1>5, <1>6

\* The commit of a transaction.
LEMMA CommitReservation ==
  ASSUME TypeInv, ReservationInv, NEW q \in serving, Commit(q)
  PROVE  ReservationInv'
<1>1. q \in Request /\ q.router \in Router /\ q.device \in Device
  BY DEF TypeInv, TypeOK, Request
<1>2. /\ router \in [Router -> {"unborn", "exists", "gone"}]
      /\ reserved \in [Device -> Router \cup {None}]
  BY DEF TypeInv, TypeOK
<1>3. Open(q) /\ q.pc # "reserve"
  BY DEF Commit, Open
<1>4. /\ \A p \in serving' : p \in serving \ {q} \/ ~Open(p)
      /\ \A p : WritesRouter(p) => Open(p)
      /\ \A p : HoldsDevice(p) => Open(p)
      /\ \A p : /\ WritesRouter(p)' = WritesRouter(p)
                /\ HoldsDevice(p)' = HoldsDevice(p)
  <2>1. [q EXCEPT !.pc = "publish"].pc = "publish"
    BY <1>1 DEF Request
  <2>2. \A p \in serving' : p \in serving \ {q} \/ p = [q EXCEPT !.pc = "publish"]
    BY DEF Commit, To, End
  <2>. QED
    BY <2>1, <2>2 DEF WritesRouter, HoldsDevice, Open
<1>5. CASE q.op \notin {"create_router", "delete_router"}
  <2>1. UNCHANGED <<router, reserved>>
    BY <1>5 DEF Commit
  <2>2. RouterHasItsDevice'
    BY <2>1 DEF ReservationInv, RouterHasItsDevice
  <2>. QED
    BY <1>4, <2>1, <2>2 DEF ReservationInv
<1>6. CASE q.op \in {"create_router", "delete_router"}
  <2>1. WritesRouter(q) /\ HoldsDevice(q)
    BY <1>3, <1>6 DEF WritesRouter, HoldsDevice
  <2>2. /\ \A p \in serving \ {q} : WritesRouter(p) => p.router # q.router
        /\ \A p \in serving \ {q} : HoldsDevice(p) => p.device # q.device
    BY <2>1 DEF ReservationInv
  <2>3. /\ \A r \in Router \ {q.router} : router'[r] = router[r]
        /\ \A d \in Device \ {q.device} : reserved'[d] = reserved[d]
    BY <1>1, <1>2, <1>6 DEF Commit
  <2>4. RouterHasItsDevice'
    <3>1. CASE q.op = "create_router"
      <4>1. router[q.router] = "unborn" /\ reserved[q.device] = None
        BY <2>1, <3>1 DEF ReservationInv
      <4>2. router'[q.router] = "exists" /\ reserved'[q.device] = q.router
        BY <1>1, <1>2, <3>1 DEF Commit
      <4>3. \A d \in Device : reserved[d] # q.router
        BY <1>1, <4>1 DEF ReservationInv, RouterHasItsDevice
      <4>. QED
        BY <1>1, <1>2, <2>3, <4>1, <4>2, <4>3, RouterAssumption
        DEF ReservationInv, RouterHasItsDevice
    <3>2. CASE q.op = "delete_router"
      <4>1. reserved[q.device] = q.router
        BY <2>1, <3>2 DEF ReservationInv
      <4>2. router'[q.router] = "gone" /\ reserved'[q.device] = None
        BY <1>1, <1>2, <3>2 DEF Commit
      <4>3. \A d \in Device \ {q.device} : reserved[d] # q.router
        BY <1>1, <4>1, RouterAssumption DEF ReservationInv, RouterHasItsDevice
      <4>. QED
        BY <1>1, <1>2, <2>3, <4>1, <4>2, <4>3, RouterAssumption
        DEF ReservationInv, RouterHasItsDevice
    <3>. QED
      BY <1>6, <3>1, <3>2
  <2>5. \A p \in serving' : (WritesRouter(p) \/ HoldsDevice(p)) =>
          p \in serving \ {q} /\ p.router \in Router /\ p.device \in Device
    BY <1>4 DEF TypeInv, TypeOK, Request
  <2>. QED
    BY <1>4, <2>2, <2>3, <2>4, <2>5 DEF ReservationInv
<1>. QED
  BY <1>5, <1>6

\* Every step keeps what the open transactions have locked.
LEMMA ReservationStep ==
  ASSUME TypeInv, ReservationInv, [Next]_vars
  PROVE  ReservationInv'
<1>1. CASE UNCHANGED vars
  BY <1>1 DEF vars, dbVars, ReservationInv, RouterHasItsDevice, WritesRouter, HoldsDevice, Open
<1>. QED
  BY <1>1, AcceptReservation, StepReservation, CommitReservation DEF Next, Serve

\* Whatever fails, and however many requests pick devices at the same time, a router
\* exists just when one device, and only one, is reserved for it.
THEOREM RouterAndDevice == Spec => []RouterHasItsDevice
<1>1. Init => TypeInv /\ ReservationInv
  <2>1. Init => ReservationInv
    BY RouterAssumption DEF Init, ReservationInv, RouterHasItsDevice
  <2>. QED
    BY <2>1, InitType
<1>2. TypeInv /\ [Next]_vars => TypeInv'
  BY NextType
<1>3. TypeInv /\ ReservationInv /\ [Next]_vars => ReservationInv'
  BY ReservationStep
<1>4. ReservationInv => RouterHasItsDevice
  BY DEF ReservationInv
<1>. QED
  BY <1>1, <1>2, <1>3, <1>4, PTL DEF Spec

-----------------------------------------------------------------------------
(* What is written is published, and the tags follow the reservations.     *)

\* The request has written to a device or a tag, and has not published.
Wrote(q) == q.pc \in {"write2", "commit", "publish"}

\* The requests that publish the configuration of a device, and those that publish
\* tags.
DeviceOps == {"set_gateway", "clear_gateway", "add_interface", "remove_interface"}
TagOps    == {"create_router", "delete_router"}

\* What is not committed yet is the work of a request that has its postcommit before it.
PublishInv ==
  faults = 0 =>
    /\ \A d \in Device : candidate[d] # running[d] =>
         \E q \in serving : q.device = d /\ q.op \in DeviceOps /\ Wrote(q)
    /\ tags # runningTags => \E q \in serving : q.op \in TagOps /\ Wrote(q)

\* The device of a request that holds it has the tag as far as the request has come, and
\* any other just when it is reserved.
TagInv ==
  faults = 0 =>
    /\ \A q \in serving : HoldsDevice(q) =>
         (Tenant \in tags[q.device] <=> (q.op = "create_router" <=> q.pc # "write1"))
    /\ \A d \in Device :
         \/ \E q \in serving : HoldsDevice(q) /\ q.device = d
         \/ Tenant \in tags[d] <=> reserved[d] # None

\* A new request has written nothing, and holds a device only to delete its router.
LEMMA AcceptedHolds ==
  ASSUME TypeInv, ApiRequest
  PROVE  /\ serving \subseteq serving'
         /\ UNCHANGED <<connectorVars, dbVars, faults>>
         /\ \A new \in serving' \ serving : HoldsDevice(new) =>
              /\ new.op = "delete_router" /\ new.pc = "write1" /\ new.device \in Device
              /\ reserved[new.device] \in Router
<1>1. ASSUME NEW op, NEW pc, NEW r \in Router, NEW d \in Device, NEW p, NEW n, NEW nm,
             Accept(op, pc, r, d, p, n, nm),
             op = "create_router" => pc = "reserve",
             op = "delete_router" => pc = "write1" /\ reserved[d] = r
      PROVE  /\ serving \subseteq serving'
             /\ UNCHANGED <<connectorVars, dbVars, faults>>
             /\ \A new \in serving' \ serving : HoldsDevice(new) =>
                  /\ new.op = "delete_router" /\ new.pc = "write1" /\ new.device \in Device
                  /\ reserved[new.device] \in Router
  <2> DEFINE new == [id |-> requests', op |-> op, pc |-> pc, router |-> r, device |-> d,
                     port |-> p, net |-> n, name |-> nm, unit |-> None]
  <2>1. new.op = op /\ new.pc = pc /\ new.device = d
    OBVIOUS
  <2>2. serving' = serving \cup {new} /\ UNCHANGED <<connectorVars, dbVars, faults>>
    BY <1>1 DEF Accept
  <2>. HIDE DEF new
  <2>. QED
    BY <1>1, <2>1, <2>2 DEF HoldsDevice
<1>2. ASSUME NEW r \in Router, NEW n \in Net \cup {None}, NEW nm \in Name, StartCreate(r, n, nm)
      PROVE  \E d \in Device : Accept("create_router", "reserve", r, d, None, n, nm)
  BY <1>2 DEF StartCreate
<1>3. ASSUME NEW r \in Router, StartDelete(r)
      PROVE  \E d \in Device : /\ reserved[d] = r
                               /\ Accept("delete_router", "write1", r, d, None, None, name[r])
  BY <1>3 DEF StartDelete
<1>4. ASSUME NEW r \in Router,
             \/ \E nm \in Name : StartRename(r, nm)
             \/ \E n \in Net : StartSetGateway(r, n)
             \/ StartClearGateway(r)
             \/ \E p \in Port : StartAddInterface(r, p) \/ StartRemoveInterface(r, p)
      PROVE  \E op, pc, p, n, nm : \E d \in Device :
               op \notin {"create_router", "delete_router"} /\ Accept(op, pc, r, d, p, n, nm)
  BY <1>4 DEF StartRename, StartSetGateway, StartClearGateway, StartAddInterface, StartRemoveInterface
<1>. QED
  BY <1>1, <1>2, <1>3, <1>4 DEF ApiRequest

\* A failure is not forgotten.
LEMMA FaultsGrow ==
  ASSUME TypeInv, [Next]_vars, faults' = 0
  PROVE  faults = 0 /\ ~\E q \in serving : Fails(q)
<1>1. faults \in Nat
  BY DEF TypeInv, TypeOK
<1>2. ASSUME NEW q \in serving, Fails(q) PROVE faults' > 0
  BY <1>1, <1>2 DEF Fails
<1>3. ASSUME ApiRequest PROVE faults = 0
  <2>1. UNCHANGED <<connectorVars, dbVars, faults>>
    BY <1>3, AcceptedHolds
  <2>. QED
    BY <2>1
<1>4. ASSUME NEW q \in serving, Serve(q) PROVE faults = 0
  <2>1. CASE Reserve(q) \/ Write1(q) \/ Write2(q) \/ Commit(q) \/ Publish(q)
    <3>1. faults' = faults
      BY <2>1 DEF Reserve, Write1, Write2, Commit, Publish
    <3>. QED
      BY <3>1
  <2>2. CASE List(q)
    <3>1. faults' = faults \/ faults' = faults + 1
      BY <2>2 DEF List
    <3>. QED
      BY <1>1, <3>1
  <2>. QED
    BY <1>2, <1>4, <2>1, <2>2 DEF Serve
<1>5. faults = 0
  BY <1>3, <1>4 DEF Next, vars
<1>6. ~\E q \in serving : Fails(q)
  BY <1>1, <1>2
<1>. QED
  BY <1>5, <1>6

\* The steps of the transaction, before it ends, keep what a request is about.
LEMMA StepsOn ==
  ASSUME NEW q \in Request, NEW pc \in Pc, To(q, pc)
  PROVE  \E next : /\ serving' = (serving \ {q}) \cup {next}
                   /\ next.op = q.op /\ next.device = q.device /\ next.pc = pc
                   /\ next.router = q.router /\ next.port = q.port /\ next.unit = q.unit
<1> DEFINE next == [q EXCEPT !.pc = pc]
<1>1. /\ next.op = q.op /\ next.device = q.device /\ next.pc = pc
      /\ next.router = q.router /\ next.port = q.port /\ next.unit = q.unit
  BY DEF Request
<1>2. serving' = (serving \ {q}) \cup {next}
  BY DEF To
<1>. HIDE DEF next
<1>. QED
  BY <1>1, <1>2

\* Every step leaves a request behind each change that is not published.
LEMMA PublishStep ==
  ASSUME TypeInv, PublishInv, [Next]_vars
  PROVE  PublishInv'
<1>. SUFFICES ASSUME faults' = 0 PROVE PublishInv'
  BY DEF PublishInv
<1>0. /\ faults = 0 /\ ~\E q \in serving : Fails(q)
      /\ \A q \in serving : q \in Request
  BY FaultsGrow DEF TypeInv, TypeOK
<1> DEFINE DeviceWork(d, s) == \E q \in s : q.device = d /\ q.op \in DeviceOps /\ Wrote(q)
           TagWork(s)       == \E q \in s : q.op \in TagOps /\ Wrote(q)
<1>1. /\ \A d \in Device : candidate[d] # running[d] => DeviceWork(d, serving)
      /\ tags # runningTags => TagWork(serving)
  BY <1>0 DEF PublishInv
<1>2. ASSUME \A d \in Device : candidate'[d] # running'[d] => DeviceWork(d, serving'),
             tags' # runningTags' => TagWork(serving')
      PROVE  PublishInv'
  BY <1>2 DEF PublishInv, Wrote
<1>3. CASE serving \subseteq serving' /\ UNCHANGED connectorVars
  BY <1>1, <1>2, <1>3 DEF connectorVars
<1>4. CASE ApiRequest
  BY <1>3, <1>4, AcceptedHolds
<1>5. ASSUME NEW q \in serving, UNCHANGED connectorVars, ~Wrote(q),
             serving \ {q} \subseteq serving'
      PROVE  PublishInv'
  BY <1>1, <1>2, <1>5 DEF connectorVars, Wrote
<1>6. ASSUME NEW q \in serving, Reserve(q) \/ List(q) PROVE PublishInv'
  BY <1>5, <1>6 DEF Reserve, List, GoOnWith, WithUnit, To, End, Wrote
<1>7. ASSUME NEW q \in serving, Write1(q) \/ Write2(q) \/ Commit(q) PROVE PublishInv'
  <2>1. q \in Request /\ WellFormed(q) /\ q.op \in Operation /\ q.device \in Device
    BY DEF TypeInv, TypeOK, Request
  <2>2. CASE q.op = "rename"
    BY <1>7, <2>1, <2>2, <1>1, <1>2
    DEF Write1, Write2, Commit, WellFormed, End, DeviceOps, TagOps, connectorVars
  <2>3. CASE q.op # "rename"
    <3>1. PICK next : /\ serving' = (serving \ {q}) \cup {next}
                      /\ next.op = q.op /\ next.device = q.device /\ Wrote(next)
      <4>1. \E pc \in {"write2", "commit", "publish"} : To(q, pc)
        BY <1>7, <2>3 DEF Write1, Write2, Commit
      <4>. QED
        BY <2>1, <4>1, StepsOn DEF Wrote, Pc
    <3>2. /\ \A d \in Device : DeviceWork(d, serving) => DeviceWork(d, serving')
          /\ TagWork(serving) => TagWork(serving')
      BY <3>1
    <3>3. /\ running' = running /\ runningTags' = runningTags
          /\ \/ candidate' = candidate
             \/ q.op \in DeviceOps /\ \E c : candidate' = [candidate EXCEPT ![q.device] = c]
          /\ tags' = tags \/ q.op \in TagOps
      <4>1. CASE Commit(q)
        BY <4>1 DEF Commit, connectorVars
      <4>2. CASE q.op \in TagOps
        BY <1>7, <4>1, <4>2 DEF Write1, Write2, TagOps, AddDeviceTag, RemoveDeviceTag
      <4>3. CASE q.op \notin TagOps /\ (Write1(q) \/ Write2(q))
        BY <2>1, <2>3, <4>3
        DEF Write1, Write2, TagOps, DeviceOps, Operation, AddExternalIp, SetExternalNat, SetUnit,
            UnrouteUnit, RemoveExternalIp, RouteUnit, DeleteUnit, WriteConfig
      <4>. QED
        BY <1>7, <4>1, <4>2, <4>3
    <3>4. \A d \in Device : candidate'[d] # running'[d] => DeviceWork(d, serving')
      <4>1. ASSUME NEW d \in Device, d # q.device \/ candidate' = candidate
            PROVE  candidate'[d] = candidate[d]
        <5>1. candidate \in [Device -> Config]
          BY DEF TypeInv, TypeOK, ConnectorTypeOK
        <5>. QED
          BY <3>3, <4>1, <5>1
      <4>2. CASE candidate' = candidate
        BY <1>1, <3>2, <3>3, <4>2
      <4>3. CASE q.op \in DeviceOps
        BY <1>1, <3>1, <3>2, <3>3, <4>1, <4>3
      <4>. QED
        BY <3>3, <4>2, <4>3
    <3>5. tags' # runningTags' => TagWork(serving')
      BY <1>1, <3>1, <3>2, <3>3
    <3>. QED
      BY <1>2, <3>4, <3>5
  <2>. QED
    BY <2>2, <2>3
<1>8. ASSUME NEW q \in serving, Publish(q) PROVE PublishInv'
  <2>1. CASE q.op \in TagOps
    <3>1. /\ tags' = runningTags' /\ UNCHANGED <<candidate, running>> /\ serving' = serving \ {q}
      BY <1>8, <2>1 DEF Publish, CommitPanorama, TagOps, End
    <3>. QED
      BY <1>1, <1>2, <2>1, <3>1 DEF TagOps, DeviceOps
  <2>2. CASE q.op \notin TagOps
    <3>1. /\ UNCHANGED <<candidate, tags, runningTags>> /\ serving' = serving \ {q}
          /\ running' = [running EXCEPT ![q.device] = candidate[q.device]]
      BY <1>8, <2>2 DEF Publish, CommitDevice, TagOps, End
    <3>2. running \in [Device -> Config]
      BY DEF TypeInv, TypeOK, ConnectorTypeOK
    <3>3. \A d \in Device : candidate'[d] # running'[d] => d # q.device /\ running'[d] = running[d]
      BY <3>1, <3>2
    <3>. QED
      BY <1>1, <1>2, <2>2, <3>1, <3>3
  <2>. QED
    BY <2>1, <2>2
<1>9. CASE UNCHANGED vars
  BY <1>3, <1>9 DEF vars
<1>. QED
  BY <1>0, <1>4, <1>6, <1>7, <1>8, <1>9 DEF Next, Serve

\* The tag of a device is that of its reservation, but for the request that holds it.
LEMMA TagStep ==
  ASSUME TypeInv, ReservationInv, ReservationInv', TagInv, [Next]_vars
  PROVE  TagInv'
<1>. SUFFICES ASSUME faults' = 0 PROVE TagInv'
  BY DEF TagInv
<1>0. /\ faults = 0 /\ ~\E q \in serving : Fails(q)
      /\ \A q \in serving : q \in Request /\ WellFormed(q) /\ q.device \in Device
  BY FaultsGrow DEF TypeInv, TypeOK, Request
<1> DEFINE TagOf(q) == q.op = "create_router" <=> q.pc # "write1"
           Held(d, s) == \E q \in s : HoldsDevice(q) /\ q.device = d
<1>1. /\ \A q \in serving : HoldsDevice(q) => (Tenant \in tags[q.device] <=> TagOf(q))
      /\ \A d \in Device : Held(d, serving) \/ (Tenant \in tags[d] <=> reserved[d] # None)
  BY <1>0 DEF TagInv
<1>2. ASSUME \A q \in serving' : HoldsDevice(q) => (Tenant \in tags'[q.device] <=> TagOf(q)),
             \A d \in Device : Held(d, serving') \/ (Tenant \in tags'[d] <=> reserved'[d] # None)
      PROVE  TagInv'
  BY <1>2 DEF TagInv, HoldsDevice, Open
<1>3. \A p, q \in serving : HoldsDevice(p) /\ HoldsDevice(q) /\ p # q => p.device # q.device
  BY DEF ReservationInv
<1>4. \A p, q \in serving' : HoldsDevice(p) /\ HoldsDevice(q) /\ p # q => p.device # q.device
  BY DEF ReservationInv, HoldsDevice, Open
<1>5. CASE ApiRequest
  <2>1. /\ serving \subseteq serving' /\ UNCHANGED <<tags, reserved>>
        /\ \A new \in serving' \ serving : HoldsDevice(new) =>
             /\ new.op = "delete_router" /\ new.pc = "write1" /\ new.device \in Device
             /\ reserved[new.device] # None
    BY <1>5, AcceptedHolds, RouterAssumption DEF connectorVars, dbVars
  <2>2. ASSUME NEW new \in serving' \ serving, HoldsDevice(new)
        PROVE  Tenant \in tags'[new.device] <=> TagOf(new)
    <3>1. ~Held(new.device, serving)
      BY <1>4, <2>1, <2>2
    <3>. QED
      BY <1>1, <2>1, <2>2, <3>1
  <2>. QED
    BY <1>1, <1>2, <2>1, <2>2
<1>6. ASSUME NEW q \in serving, ~HoldsDevice(q), UNCHANGED <<tags, reserved>>,
             \A p \in serving' : p \in serving \/ ~HoldsDevice(p), serving \ {q} \subseteq serving'
      PROVE  TagInv'
  BY <1>1, <1>2, <1>6
<1>7. ASSUME NEW q \in serving, Reserve(q) PROVE TagInv'
  <2>1. q.pc = "reserve" /\ q.op = "create_router" /\ ~HoldsDevice(q) /\ UNCHANGED <<tags, reserved>>
    BY <1>0, <1>7 DEF Reserve, WellFormed, HoldsDevice, connectorVars, dbVars
  <2>2. CASE End(q)
    BY <1>6, <2>1, <2>2 DEF End
  <2>3. CASE To(q, "write1") /\ reserved[q.device] = None
    <3>1. PICK next : /\ serving' = (serving \ {q}) \cup {next}
                      /\ next.op = q.op /\ next.device = q.device /\ next.pc = "write1"
      BY <1>0, <2>3, StepsOn DEF Pc
    <3>2. ~Held(q.device, serving)
      BY <1>7 DEF Reserve, DeviceLocked, HoldsDevice
    <3>3. Tenant \notin tags[q.device]
      BY <1>0, <1>1, <2>3, <3>2
    <3>. QED
      BY <1>1, <1>2, <2>1, <3>1, <3>3
  <2>. QED
    BY <1>7, <2>2, <2>3 DEF Reserve
<1>8. ASSUME NEW q \in serving, List(q) PROVE TagInv'
  <2>1. /\ q.op \in {"add_interface", "remove_interface"} /\ ~HoldsDevice(q)
        /\ UNCHANGED <<tags, reserved>>
    BY <1>0, <1>8 DEF List, WellFormed, HoldsDevice, connectorVars, dbVars
  <2>2. \E next : serving' = (serving \ {q}) \cup {next} /\ next.op = q.op
    <3>1. ASSUME NEW n, WithUnit(q, n)
          PROVE  \E next : serving' = (serving \ {q}) \cup {next} /\ next.op = q.op
      <4> DEFINE next == [q EXCEPT !.pc = "write1", !.unit = n]
      <4>1. next.op = q.op
        BY <1>0 DEF Request
      <4>2. serving' = (serving \ {q}) \cup {next}
        BY <3>1 DEF WithUnit
      <4>. HIDE DEF next
      <4>. QED
        BY <4>1, <4>2
    <3>2. To(q, "commit") \/ \E n : WithUnit(q, n)
      BY <1>8 DEF List, GoOnWith
    <3>. QED
      BY <1>0, <3>1, <3>2, StepsOn DEF Pc
  <2>. QED
    BY <1>6, <2>1, <2>2 DEF HoldsDevice
<1>9. ASSUME NEW q \in serving, q.op \notin TagOps, Write1(q) \/ Write2(q) \/ Commit(q) \/ Publish(q)
      PROVE  TagInv'
  <2>1. ~HoldsDevice(q)
    BY <1>9 DEF HoldsDevice, TagOps
  <2>2. UNCHANGED <<tags, reserved>>
    <3>1. CASE Write1(q) \/ Write2(q)
      <4>1. q.op \in DeviceOps
        BY <1>0, <1>9, <3>1 DEF Request, Operation, TagOps, DeviceOps, WellFormed, Write1, Write2
      <4>. QED
        BY <3>1, <4>1
        DEF Write1, Write2, DeviceOps, AddExternalIp, SetExternalNat, SetUnit, dbVars,
            UnrouteUnit, RemoveExternalIp, RouteUnit, DeleteUnit, WriteConfig
    <3>2. CASE Commit(q) \/ Publish(q)
      BY <1>9, <3>2 DEF Commit, Publish, CommitDevice, TagOps, connectorVars, dbVars
    <3>. QED
      BY <1>9, <3>1, <3>2
  <2>3. End(q) \/ \E pc \in Pc : To(q, pc)
    BY <1>9 DEF Pc, Write1, Write2, Commit, Publish
  <2>4. \/ serving' = serving \ {q}
        \/ \E next : serving' = (serving \ {q}) \cup {next} /\ next.op = q.op
    BY <1>0, <2>3, StepsOn DEF End
  <2>. QED
    BY <1>6, <1>9, <2>1, <2>2, <2>4 DEF HoldsDevice, TagOps
<1>10. ASSUME NEW q \in serving, q.op \in TagOps, Write1(q) \/ Write2(q) PROVE TagInv'
  <2>1. PICK next : /\ serving' = (serving \ {q}) \cup {next}
                    /\ next.op = q.op /\ next.device = q.device
                    /\ next.pc = IF q.pc = "write1" THEN "write2" ELSE "commit"
    <3>1. CASE Write1(q)
      <4>1. q.pc = "write1" /\ To(q, "write2")
        BY <3>1 DEF Write1
      <4>. QED
        BY <1>0, <4>1, StepsOn DEF Pc
    <3>2. CASE Write2(q)
      <4>1. q.pc = "write2" /\ To(q, "commit")
        BY <3>2 DEF Write2
      <4>. QED
        BY <1>0, <4>1, StepsOn DEF Pc
    <3>. QED
      BY <1>10, <3>1, <3>2
  <2>2. HoldsDevice(q) /\ HoldsDevice(next) /\ UNCHANGED reserved
    BY <1>10, <2>1 DEF HoldsDevice, TagOps, Open, Write1, Write2, dbVars
  <2>3. /\ \A d \in Device \ {q.device} : tags'[d] = tags[d]
        /\ Tenant \in tags'[q.device] <=> q.op = "create_router"
    <3>1. tags \in [Device -> SUBSET Tag]
      BY DEF TypeInv, TypeOK, ConnectorTypeOK
    <3>2. CASE Write1(q)
      BY <1>0, <1>10, <3>1, <3>2 DEF Write1, TagOps, AddDeviceTag, RemoveDeviceTag
    <3>3. CASE Write2(q)
      <4>1. (q.pc = "write2" /\ q.name # Tenant) \/ q.op = "delete_router"
        BY <1>0, <3>3, <1>10, ConnectorAssumption DEF Write2, WellFormed, TagOps
      <4>2. Tenant \in tags[q.device] <=> q.op = "create_router"
        BY <1>1, <2>2, <3>3 DEF Write2
      <4>. QED
        BY <1>0, <1>10, <3>1, <3>3, <4>1, <4>2
        DEF Write2, TagOps, AddDeviceTag, RemoveDeviceTag
    <3>. QED
      BY <1>10, <3>2, <3>3
  <2>4. TagOf(next) <=> q.op = "create_router"
    BY <2>1
  <2>. QED
    BY <1>0, <1>1, <1>2, <1>3, <2>1, <2>2, <2>3, <2>4
<1>11. ASSUME NEW q \in serving, q.op \in TagOps, Commit(q) PROVE TagInv'
  <2>1. PICK next : /\ serving' = (serving \ {q}) \cup {next} /\ next.pc = "publish"
    BY <1>0, <1>11, StepsOn DEF Commit, TagOps, Pc
  <2>2. HoldsDevice(q) /\ ~HoldsDevice(next) /\ q.pc = "commit" /\ UNCHANGED tags
    BY <1>11, <2>1 DEF HoldsDevice, TagOps, Open, Commit, connectorVars
  <2>3. /\ \A d \in Device \ {q.device} : reserved'[d] = reserved[d]
        /\ reserved'[q.device] # None <=> q.op = "create_router"
    BY <1>0, <1>11, RouterAssumption DEF Commit, TagOps, TypeInv, TypeOK, Request
  <2>4. Tenant \in tags[q.device] <=> q.op = "create_router"
    BY <1>1, <2>2
  <2>. QED
    BY <1>0, <1>1, <1>2, <2>1, <2>2, <2>3, <2>4
<1>12. ASSUME NEW q \in serving, q.op \in TagOps, Publish(q) PROVE TagInv'
  BY <1>6, <1>12 DEF Publish, TagOps, CommitPanorama, HoldsDevice, Open, End, dbVars
<1>13. CASE UNCHANGED vars
  BY <1>1, <1>2, <1>13 DEF vars, connectorVars, dbVars
<1>. QED
  BY <1>0, <1>5, <1>7, <1>8, <1>9, <1>10, <1>11, <1>12, <1>13 DEF Next, Serve

\* The invariants so far, together.
LEMMA AlwaysPublished == Spec => [](TypeInv /\ ReservationInv /\ PublishInv /\ TagInv)
<1>1. Init => TypeInv /\ ReservationInv /\ PublishInv /\ TagInv
  <2>1. Init => ReservationInv
    BY RouterAssumption DEF Init, ReservationInv, RouterHasItsDevice
  <2>2. Init => PublishInv /\ TagInv
    BY DEF Init, ConnectorInit, PublishInv, TagInv
  <2>. QED
    BY <2>1, <2>2, InitType
<1>2. TypeInv /\ [Next]_vars => TypeInv'
  BY NextType
<1>3. TypeInv /\ ReservationInv /\ [Next]_vars => ReservationInv'
  BY ReservationStep
<1>. QED
  BY <1>1, <1>2, <1>3, PublishStep, TagStep, PTL DEF Spec

\* When no request is in progress and nothing ever failed, the devices and Panorama run
\* all that the requests have written, however these interleaved: no postcommit is missed.
THEOREM AllIsCommitted == Spec => []RestIsCommitted
<1>1. TypeInv /\ PublishInv => RestIsCommitted
  BY DEF TypeInv, TypeOK, ConnectorTypeOK, PublishInv, RestIsCommitted, CalmRest
<1>. QED
  BY <1>1, AlwaysPublished, PTL

\* At such a moment just the devices that are reserved carry the tag of the tenant.
THEOREM TagIsReservation == Spec => []TenantTagIsReservation
<1>1. PublishInv /\ TagInv => TenantTagIsReservation
  BY DEF PublishInv, TagInv, TenantTagIsReservation, CalmRest
<1>. QED
  BY <1>1, AlwaysPublished, PTL

-----------------------------------------------------------------------------
(* One request at a time: the units are those of the interfaces.           *)

\* One worker serves one request.
Alone == \E q : serving \subseteq {q}

\* What a request found when it began, or wrote, is still so.
RightTo(q) ==
  /\ q.op \in {"add_interface", "remove_interface", "delete_router"} /\ Open(q) =>
       reserved[q.device] = q.router
  /\ q.op = "create_router" /\ Open(q) => reserved[q.device] = None
  /\ q.op = "delete_router" /\ Open(q) => \A p \in Port : portOf[p] # q.router
  /\ q.op = "add_interface" /\ Open(q) => portOf[q.port] = None
  /\ q.op = "remove_interface" /\ Open(q) => portOf[q.port] = q.router
  /\ q.op = "remove_interface" /\ q.pc \in {"write1", "write2"} =>
       \E u \in candidate[q.device].units : u.number = q.unit /\ u.port = q.port
  /\ q.op = "remove_interface" /\ q.pc = "commit" =>
       \A u \in candidate[q.device].units : u.port # q.port

\* A unit is that of an interface of the router, or of the one that is being added.
Backed(d, u) ==
  \/ reserved[d] # None /\ portOf[u.port] = reserved[d]
  \/ \E q \in serving : /\ q.op = "add_interface" /\ q.pc \in {"write2", "commit"}
                        /\ q.device = d /\ q.port = u.port

\* A number, and a port, has one unit.
Keyed(units) == \A u, v \in units : u.number = v.number \/ u.port = v.port => u = v

\* While nothing failed: the request relies on what is so, and units are those of
\* interfaces.
UnitInv ==
  faults = 0 =>
    /\ \A q \in serving : RightTo(q)
    /\ \A d \in Device : Keyed(candidate[d].units)
    /\ \A d \in Device : \A u \in candidate[d].units : Backed(d, u)

\* A request begins when none is in progress, and is then the only one.
LEMMA AloneStep ==
  ASSUME ApiWorkers = 1, TypeInv, Alone, [Next]_vars
  PROVE  Alone' /\ (ApiRequest => serving = {} /\ \E new : serving' = {new})
<1>1. serving = {} \/ Cardinality(serving) = 1
  <2>1. PICK q : serving \subseteq {q}
    BY DEF Alone
  <2>2. serving = {} \/ serving = {q}
    BY <2>1
  <2>. QED
    BY <2>2, FS_Singleton
<1>2. ASSUME NEW op, NEW pc, NEW r, NEW d, NEW p, NEW n, NEW nm, Accept(op, pc, r, d, p, n, nm)
      PROVE  serving = {} /\ \E new : serving' = {new}
  <2>1. Cardinality(serving) < 1
    BY <1>2 DEF Accept
  <2>2. serving = {}
    BY <1>1, <2>1
  <2>. QED
    BY <1>2, <2>2 DEF Accept
<1>3. CASE ApiRequest
  <2>1. \E op, pc, r, d, p, n, nm : Accept(op, pc, r, d, p, n, nm)
    BY <1>3 DEF ApiRequest, StartCreate, StartDelete, StartRename, StartSetGateway,
                StartClearGateway, StartAddInterface, StartRemoveInterface
  <2>. QED
    BY <1>2, <2>1 DEF Alone
<1>4. ASSUME NEW q \in serving, Serve(q) PROVE \E new : serving' \subseteq {new}
  <2>1. serving = {q}
    BY DEF Alone
  <2>2. \E new : serving' \subseteq (serving \ {q}) \cup {new}
    BY <1>4 DEF Serve, Reserve, List, GoOnWith, WithUnit, Write1, Write2, Commit, Publish, Fails, To, End
  <2>. QED
    BY <2>1, <2>2
<1>5. ASSUME UNCHANGED vars PROVE Alone'
  BY <1>5 DEF vars, Alone
<1>6. Alone'
  BY <1>3, <1>4, <1>5 DEF Next, Alone
<1>. QED
  BY <1>3, <1>6

\* A new request: what it found is so, and nothing has changed.
LEMMA AcceptedUnits ==
  ASSUME TypeInv, UnitInv, faults = 0, serving = {}, Alone', ApiRequest
  PROVE  UnitInv'
<1>1. /\ \A d \in Device : Keyed(candidate[d].units)
      /\ \A d \in Device : \A u \in candidate[d].units :
           reserved[d] # None /\ portOf[u.port] = reserved[d]
  BY DEF UnitInv, Backed
<1>2. ASSUME NEW op, NEW pc, NEW r \in Router, NEW d \in Device, NEW p, NEW n, NEW nm,
             Accept(op, pc, r, d, p, n, nm),
             \/ op = "create_router" /\ pc = "reserve" /\ reserved[d] = None
             \/ op = "delete_router" /\ pc = "write1" /\ reserved[d] = r /\ (\A i \in Port : portOf[i] # r)
             \/ op \in {"rename", "set_gateway", "clear_gateway"}
             \/ op = "add_interface" /\ pc = "list" /\ reserved[d] = r /\ portOf[p] = None
             \/ op = "remove_interface" /\ pc = "list" /\ reserved[d] = r /\ portOf[p] = r
      PROVE  UnitInv'
  <2>1. PICK new : /\ serving' = {new} /\ new.op = op /\ new.pc = pc
                   /\ new.router = r /\ new.device = d /\ new.port = p
    <3> DEFINE q == [id |-> requests', op |-> op, pc |-> pc, router |-> r, device |-> d,
                     port |-> p, net |-> n, name |-> nm, unit |-> None]
    <3>1. q.op = op /\ q.pc = pc /\ q.router = r /\ q.device = d /\ q.port = p
      OBVIOUS
    <3>2. serving' = {q}
      BY <1>2 DEF Accept
    <3>. HIDE DEF q
    <3>. QED
      BY <3>1, <3>2
  <2>2. UNCHANGED <<candidate, reserved, portOf, faults>>
    BY <1>2 DEF Accept, connectorVars, dbVars
  <2>3. RightTo(new)'
    BY <1>2, <2>1, <2>2 DEF RightTo, Open
  <2>. QED
    BY <1>1, <2>1, <2>2, <2>3 DEF UnitInv, Keyed, Backed
<1>3. ASSUME NEW r \in Router, \E n \in Net \cup {None}, nm \in Name : StartCreate(r, n, nm)
      PROVE  UnitInv'
  BY <1>2, <1>3 DEF StartCreate
<1>4. ASSUME NEW r \in Router, StartDelete(r) PROVE UnitInv'
  BY <1>2, <1>4 DEF StartDelete
<1>5. ASSUME NEW r \in Router,
             \/ \E nm \in Name : StartRename(r, nm)
             \/ \E n \in Net : StartSetGateway(r, n)
             \/ StartClearGateway(r)
      PROVE  UnitInv'
  BY <1>2, <1>5 DEF StartRename, StartSetGateway, StartClearGateway
<1>6. ASSUME NEW r \in Router, NEW p \in Port, StartAddInterface(r, p) PROVE UnitInv'
  BY <1>2, <1>6 DEF StartAddInterface
<1>7. ASSUME NEW r \in Router, NEW p \in Port, StartRemoveInterface(r, p) PROVE UnitInv'
  <2>1. portOf[p] = r
    BY <1>7 DEF StartRemoveInterface
  <2>. QED
    BY <1>2, <1>7, <2>1 DEF StartRemoveInterface
<1>. QED
  BY <1>3, <1>4, <1>5, <1>6, <1>7 DEF ApiRequest

\* A step that leaves units and rows.
LEMMA SameUnits ==
  ASSUME UnitInv, faults = 0, NEW q \in serving, serving = {q},
         \A d \in Device : candidate'[d].units = candidate[d].units,
         UNCHANGED <<reserved, portOf>>,
         \A next \in serving' :
           /\ RightTo(next)'
           /\ next.op = q.op /\ next.device = q.device /\ next.port = q.port
           /\ q.op = "add_interface" /\ q.pc \in {"write2", "commit"} =>
                next.pc \in {"write2", "commit"},
         q.op = "add_interface" /\ q.pc \in {"write2", "commit"} => serving' # {}
  PROVE  UnitInv'
<1>1. \A d \in Device : Keyed(candidate'[d].units)
  BY DEF UnitInv
<1>2. ASSUME NEW d \in Device, NEW u \in candidate'[d].units PROVE Backed(d, u)'
  <2>1. Backed(d, u)
    BY DEF UnitInv
  <2>. QED
    BY <2>1 DEF Backed
<1>. QED
  BY <1>1, <1>2 DEF UnitInv, Keyed

\* The steps of a transaction.
LEMMA UnitStep ==
  ASSUME ApiWorkers = 1, TypeInv, ReservationInv, PublishInv, Alone, UnitInv, [Next]_vars
  PROVE  UnitInv'
<1>. SUFFICES ASSUME faults' = 0 PROVE UnitInv'
  BY DEF UnitInv
<1>0. /\ faults = 0 /\ ~\E q \in serving : Fails(q)
      /\ \A q \in serving : q \in Request /\ WellFormed(q) /\ q.device \in Device /\ serving = {q}
      /\ candidate \in [Device -> Config]
  BY FaultsGrow DEF TypeInv, TypeOK, ConnectorTypeOK, Request, Alone
<1>1. /\ \A q \in serving : RightTo(q)
      /\ \A d \in Device : Keyed(candidate[d].units)
      /\ \A d \in Device : \A u \in candidate[d].units : Backed(d, u)
  BY <1>0 DEF UnitInv
<1>2. CASE ApiRequest
  BY <1>0, <1>2, AloneStep, AcceptedUnits
<1>3. CASE UNCHANGED vars
  BY <1>3 DEF vars, dbVars, connectorVars, UnitInv, RightTo, Open, Backed, Keyed
<1>4. ASSUME NEW q \in serving, Reserve(q) PROVE UnitInv'
  <2>1. q.op = "create_router" /\ UNCHANGED <<candidate, reserved, portOf>>
    BY <1>0, <1>4 DEF Reserve, WellFormed, dbVars, connectorVars
  <2>2. CASE serving' = {}
    BY <1>0, <2>1, <2>2, SameUnits
  <2>3. CASE To(q, "write1") /\ reserved[q.device] = None
    <3>1. PICK next : /\ serving' = (serving \ {q}) \cup {next}
                      /\ next.op = q.op /\ next.device = q.device /\ next.port = q.port
      BY <1>0, <2>3, StepsOn DEF Pc
    <3>2. RightTo(next)'
      BY <2>1, <2>3, <3>1 DEF RightTo
    <3>. QED
      BY <1>0, <2>1, <3>1, <3>2, SameUnits
  <2>. QED
    BY <1>0, <1>4, <2>2, <2>3 DEF Reserve, End
<1>5. ASSUME NEW q \in serving, List(q) PROVE UnitInv'
  <2>1. /\ q.op \in {"add_interface", "remove_interface"} /\ q.pc = "list" /\ Open(q)
        /\ UNCHANGED <<candidate, reserved, portOf>> /\ GoOnWith(q, running[q.device].units)
    BY <1>0, <1>5 DEF List, WellFormed, Open, dbVars, connectorVars
  <2>2. running[q.device] = candidate[q.device]
    BY <1>0, <2>1 DEF PublishInv, Wrote
  <2>3. ASSUME NEW next, serving' = {next}, next.op = q.op, next.device = q.device,
               next.port = q.port, next.router = q.router, RightTo(next)'
        PROVE  UnitInv'
    BY <1>0, <2>1, <2>3, SameUnits
  <2>4. ASSUME NEW n \in Found(q, candidate[q.device].units), WithUnit(q, n) PROVE UnitInv'
    <3> DEFINE new == [q EXCEPT !.pc = "write1", !.unit = n]
    <3>1. /\ new.op = q.op /\ new.device = q.device /\ new.port = q.port /\ new.router = q.router
          /\ new.pc = "write1" /\ new.unit = n
      BY <1>0 DEF Request
    <3>2. serving' = {new}
      BY <1>0, <2>4 DEF WithUnit
    <3>3. PICK next : /\ serving' = {next} /\ next.op = q.op /\ next.device = q.device
                      /\ next.port = q.port /\ next.router = q.router
                      /\ next.pc = "write1" /\ next.unit = n
      <4>. HIDE DEF new
      <4>. QED
        BY <3>1, <3>2
    <3>4. next.op = "remove_interface" =>
            \E u \in candidate[next.device].units : u.number = next.unit /\ u.port = next.port
      BY <2>1, <2>4, <3>3 DEF Found, UnitsOf
    <3>5. RightTo(next)'
      BY <1>1, <2>1, <3>3, <3>4 DEF RightTo, Open
    <3>. QED
      BY <2>3, <3>3, <3>5
  <2>5. CASE Found(q, candidate[q.device].units) = {} /\ To(q, "commit")
    <3>1. PICK next : /\ serving' = (serving \ {q}) \cup {next} /\ next.op = q.op
                      /\ next.device = q.device /\ next.port = q.port /\ next.router = q.router
                      /\ next.pc = "commit"
      BY <1>0, <2>5, StepsOn DEF Pc
    <3>2. q.op = "remove_interface" /\ \A u \in candidate[q.device].units : u.port # q.port
      BY <2>1, <2>5 DEF Found, UnitsOf
    <3>3. RightTo(next)'
      BY <1>1, <2>1, <3>1, <3>2 DEF RightTo, Open
    <3>. QED
      BY <1>0, <2>3, <3>1, <3>3
  <2>. QED
    BY <2>1, <2>2, <2>4, <2>5 DEF GoOnWith
<1>6. ASSUME NEW q \in serving, Write1(q) \/ Write2(q) PROVE UnitInv'
  <2>1. PICK next : /\ serving' = {next} /\ next.op = q.op
                    /\ next.device = q.device /\ next.port = q.port /\ next.router = q.router
                    /\ next.unit = q.unit
                    /\ next.pc = IF q.pc = "write1" THEN "write2" ELSE "commit"
    <3>1. CASE Write1(q)
      <4>1. q.pc = "write1" /\ To(q, "write2")
        BY <3>1 DEF Write1
      <4>. QED
        BY <1>0, <4>1, StepsOn DEF Pc
    <3>2. CASE Write2(q)
      <4>1. q.pc = "write2" /\ To(q, "commit")
        BY <3>2 DEF Write2
      <4>. QED
        BY <1>0, <4>1, StepsOn DEF Pc
    <3>. QED
      BY <1>6, <3>1, <3>2
  <2>2. /\ UNCHANGED <<reserved, portOf>> /\ Open(q) /\ q.op \in Operation /\ q.op # "rename"
        /\ \/ q.pc = "write1" /\ Write1(q)
           \/ q.pc = "write2" /\ Write2(q)
    <3>1. UNCHANGED dbVars
      BY <1>6 DEF Write1, Write2
    <3>2. \/ q.pc = "write1" /\ Write1(q)
          \/ q.pc = "write2" /\ Write2(q)
      <4>1. Write1(q) => q.pc = "write1"
        BY DEF Write1
      <4>2. Write2(q) => q.pc = "write2"
        BY DEF Write2
      <4>. QED
        BY <1>6, <4>1, <4>2
    <3>3. q.op \in Operation /\ q.op # "rename"
      BY <1>0, <3>2 DEF Request, WellFormed
    <3>. QED
      BY <3>1, <3>2, <3>3 DEF dbVars, Open
  <2>3. CASE ~(q.op = "add_interface" /\ q.pc = "write1") /\ ~(q.op = "remove_interface" /\ q.pc = "write2")
    <3>1. \A d \in Device : candidate'[d].units = candidate[d].units
      <4>1. ASSUME NEW c, WriteConfig(q.device, c), c.units = candidate[q.device].units
            PROVE  \A d \in Device : candidate'[d].units = candidate[d].units
        BY <1>0, <4>1 DEF WriteConfig
      <4>2. candidate[q.device] \in Config
        BY <1>0
      <4>3. CASE q.op \in TagOps
        BY <2>2, <4>3 DEF Write1, Write2, TagOps, AddDeviceTag, RemoveDeviceTag
      <4>4. CASE q.op = "set_gateway"
        BY <2>2, <4>1, <4>2, <4>4 DEF Write1, Write2, AddExternalIp, SetExternalNat, Config
      <4>5. CASE q.op = "clear_gateway"
        BY <2>2, <4>1, <4>2, <4>5 DEF Write1, Write2, RemoveExternalIp, SetExternalNat, Config
      <4>6. CASE q.op = "add_interface"
        BY <2>2, <2>3, <4>1, <4>2, <4>6 DEF Write2, RouteUnit, Config
      <4>7. CASE q.op = "remove_interface"
        BY <2>2, <2>3, <4>1, <4>2, <4>7 DEF Write1, UnrouteUnit, Config
      <4>. QED
        BY <2>2, <4>3, <4>4, <4>5, <4>6, <4>7 DEF Operation, TagOps
    <3>2. RightTo(next)'
      <4>1. next.pc \in {"write2", "commit"} /\ (q.op = "remove_interface" => next.pc = "write2")
        BY <2>1, <2>2, <2>3
      <4>2. RightTo(q) /\ candidate'[q.device].units = candidate[q.device].units
        BY <1>0, <1>1, <3>1
      <4>. QED
        BY <2>1, <2>2, <2>3, <4>1, <4>2 DEF RightTo, Open
    <3>3. q.op = "add_interface" => next.pc \in {"write2", "commit"}
      BY <2>1
    <3>. QED
      BY <1>0, <2>1, <2>2, <3>1, <3>2, <3>3, SameUnits
  <2>4. CASE q.op = "add_interface" /\ q.pc = "write1"
    <3> DEFINE old == candidate[q.device].units
               new == [number |-> q.unit, port |-> q.port]
    <3>1. /\ candidate'[q.device].units = {u \in old : u.number # q.unit} \cup {new}
          /\ \A d \in Device \ {q.device} : candidate'[d] = candidate[d]
      <4>1. candidate[q.device] \in Config
        BY <1>0
      <4>. QED
        BY <1>0, <2>2, <2>4, <4>1 DEF Write1, SetUnit, WriteConfig, Config
    <3>2. reserved[q.device] = q.router /\ portOf[q.port] = None
      BY <1>1, <2>2, <2>4 DEF RightTo
    <3>3. \A u \in old : u.port # q.port
      BY <1>0, <1>1, <2>4, <3>2 DEF Backed
    <3>4. new.number = q.unit /\ new.port = q.port
      OBVIOUS
    <3>. HIDE DEF new
    <3>5. \A d \in Device : Keyed(candidate'[d].units)
      BY <1>0, <1>1, <3>1, <3>3, <3>4 DEF Keyed
    <3>6. ASSUME NEW d \in Device, NEW u \in candidate'[d].units PROVE Backed(d, u)'
      <4>1. CASE u \in candidate[d].units
        <5>1. reserved[d] # None /\ portOf[u.port] = reserved[d]
          BY <1>0, <1>1, <2>4, <4>1 DEF Backed
        <5>. QED
          BY <2>2, <5>1 DEF Backed
      <4>2. CASE u \notin candidate[d].units
        <5>1. d = q.device /\ u.port = q.port
          BY <3>1, <3>4, <3>6, <4>2
        <5>. QED
          BY <2>1, <2>4, <5>1 DEF Backed
      <4>. QED
        BY <4>1, <4>2
    <3>7. RightTo(next)'
      BY <2>1, <2>2, <2>4, <3>2 DEF RightTo
    <3>. QED
      BY <2>1, <3>5, <3>6, <3>7 DEF UnitInv
  <2>5. CASE q.op = "remove_interface" /\ q.pc = "write2"
    <3> DEFINE old == candidate[q.device].units
    <3>1. /\ candidate'[q.device].units = {u \in old : u.number # q.unit}
          /\ \A d \in Device \ {q.device} : candidate'[d] = candidate[d]
      <4>1. candidate[q.device] \in Config
        BY <1>0
      <4>. QED
        BY <1>0, <2>2, <2>5, <4>1 DEF Write2, DeleteUnit, WriteConfig, Config
    <3>2. PICK u \in old : u.number = q.unit /\ u.port = q.port
      BY <1>1, <2>5 DEF RightTo
    <3>3. \A v \in candidate'[q.device].units : v.port # q.port
      BY <1>0, <1>1, <3>1, <3>2 DEF Keyed
    <3>4. \A d \in Device : candidate'[d].units \subseteq candidate[d].units
      BY <3>1
    <3>5. \A d \in Device : Keyed(candidate'[d].units)
      BY <1>1, <3>4 DEF Keyed
    <3>6. ASSUME NEW d \in Device, NEW v \in candidate'[d].units PROVE Backed(d, v)'
      <4>1. reserved[d] # None /\ portOf[v.port] = reserved[d]
        BY <1>0, <1>1, <2>5, <3>4, <3>6 DEF Backed
      <4>. QED
        BY <2>2, <4>1 DEF Backed
    <3>7. RightTo(next)'
      <4>1. reserved[q.device] = q.router /\ portOf[q.port] = q.router
        BY <1>1, <2>2, <2>5 DEF RightTo
      <4>. QED
        BY <2>1, <2>2, <2>5, <3>3, <4>1 DEF RightTo
    <3>. QED
      BY <2>1, <3>5, <3>6, <3>7 DEF UnitInv
  <2>. QED
    BY <2>3, <2>4, <2>5
<1>7. ASSUME NEW q \in serving, Commit(q) PROVE UnitInv'
  <2>1. /\ q.pc = "commit" /\ Open(q) /\ UNCHANGED candidate
        /\ q.op \in Operation /\ q.router \in Router
    BY <1>0, <1>7 DEF Commit, connectorVars, Open, Request
  <2>2. \A next \in serving' : next.op = q.op /\ next.pc = "publish"
    <3>1. CASE serving' = serving \ {q}
      BY <1>0, <3>1
    <3>2. CASE To(q, "publish")
      <4>1. \E next : serving' = (serving \ {q}) \cup {next} /\ next.op = q.op /\ next.pc = "publish"
        BY <1>0, <3>2, StepsOn DEF Pc
      <4>. QED
        BY <1>0, <4>1
    <3>. QED
      BY <1>7, <3>1, <3>2 DEF Commit, End
  <2>3. \A next \in serving' : RightTo(next)'
    BY <2>2 DEF RightTo, Open
  <2>4. /\ reserved \in [Device -> Router \cup {None}]
        /\ portOf \in [Port -> Router \cup {None}]
    BY DEF TypeInv, TypeOK
  <2>5. /\ \A r \in Router : r # None
        /\ RouterHasItsDevice /\ RightTo(q)
    BY <1>1, RouterAssumption DEF ReservationInv
  <2>6. ASSUME NEW d \in Device, NEW u \in candidate[d].units
        PROVE  reserved'[d] # None /\ portOf'[u.port] = reserved'[d]
    <3>1. u.port \in Port
      BY <1>0 DEF Config
    <3>2. CASE q.op \notin {"create_router", "delete_router", "add_interface", "remove_interface"}
      <4>1. UNCHANGED <<reserved, portOf>>
        BY <1>7, <3>2 DEF Commit
      <4>. QED
        BY <1>0, <1>1, <2>6, <3>2, <4>1 DEF Backed
    <3>3. CASE q.op \in {"create_router", "delete_router"}
      <4>1. reserved[d] # None /\ portOf[u.port] = reserved[d]
        BY <1>0, <1>1, <2>6, <3>3 DEF Backed
      <4>2. d # q.device
        BY <2>1, <2>5, <3>1, <3>3, <4>1 DEF RightTo
      <4>3. reserved'[d] = reserved[d] /\ UNCHANGED portOf
        BY <1>7, <2>4, <3>3, <4>2 DEF Commit
      <4>. QED
        BY <4>1, <4>3
    <3>4. CASE q.op = "add_interface"
      <4>1. UNCHANGED reserved /\ portOf' = [portOf EXCEPT ![q.port] = q.router]
        BY <1>7, <3>4 DEF Commit
      <4>2. reserved[q.device] = q.router /\ portOf[q.port] = None
        BY <2>1, <2>5, <3>4 DEF RightTo
      <4>3. CASE u.port = q.port
        <5>1. d = q.device
          BY <1>0, <1>1, <2>6, <4>2, <4>3 DEF Backed
        <5>. QED
          BY <2>1, <2>4, <2>5, <3>1, <4>1, <4>2, <4>3, <5>1
      <4>4. CASE u.port # q.port
        <5>1. reserved[d] # None /\ portOf[u.port] = reserved[d]
          BY <1>0, <1>1, <2>6, <4>4 DEF Backed
        <5>. QED
          BY <2>4, <3>1, <4>1, <4>4, <5>1
      <4>. QED
        BY <4>3, <4>4
    <3>5. CASE q.op = "remove_interface"
      <4>1. UNCHANGED reserved /\ portOf' = [portOf EXCEPT ![q.port] = None]
        BY <1>7, <3>5 DEF Commit
      <4>2. /\ reserved[q.device] = q.router /\ portOf[q.port] = q.router
            /\ \A v \in candidate[q.device].units : v.port # q.port
        BY <2>1, <2>5, <3>5 DEF RightTo
      <4>3. reserved[d] # None /\ portOf[u.port] = reserved[d]
        BY <1>0, <1>1, <2>6, <3>5 DEF Backed
      <4>4. u.port # q.port
        <5>1. SUFFICES ASSUME u.port = q.port PROVE FALSE
          OBVIOUS
        <5>2. d = q.device
          BY <1>0, <2>1, <2>5, <4>2, <4>3, <5>1 DEF RouterHasItsDevice
        <5>. QED
          BY <2>6, <4>2, <5>1, <5>2
      <4>. QED
        BY <2>4, <3>1, <4>1, <4>3, <4>4
    <3>. QED
      BY <3>2, <3>3, <3>4, <3>5
  <2>. QED
    BY <1>1, <2>1, <2>3, <2>6 DEF UnitInv, Backed
<1>8. ASSUME NEW q \in serving, Publish(q) PROVE UnitInv'
  <2>1. /\ q.pc = "publish" /\ serving' = {} /\ UNCHANGED <<candidate, reserved, portOf>>
    BY <1>0, <1>8 DEF Publish, End, CommitPanorama, CommitDevice, dbVars
  <2>. QED
    BY <1>0, <2>1, SameUnits
<1>. QED
  BY <1>0, <1>2, <1>3, <1>4, <1>5, <1>6, <1>7, <1>8 DEF Next, Serve

\* When requests are served one at a time and none fails, every unit of a device is that
\* of an interface of the router the device is reserved for, though units are found by
\* what a comment says and are numbered by how many there are.
THEOREM SerialUnits == ApiWorkers = 1 => (Spec => []NoStaleInterface)
<1>. SUFFICES ASSUME ApiWorkers = 1 PROVE Spec => []NoStaleInterface
  OBVIOUS
<1>1. Init => Alone /\ UnitInv
  BY DEF Init, ConnectorInit, EmptyConfig, Alone, UnitInv, Keyed
<1>2. TypeInv /\ Alone /\ [Next]_vars => Alone'
  BY AloneStep
<1>3. TypeInv /\ ReservationInv /\ PublishInv /\ Alone /\ UnitInv /\ [Next]_vars => UnitInv'
  BY UnitStep
<1>4. TypeInv /\ PublishInv /\ UnitInv => NoStaleInterface
  BY DEF TypeInv, TypeOK, ConnectorTypeOK, PublishInv, UnitInv, NoStaleInterface, CalmRest, Backed
<1>. QED
  BY <1>1, <1>2, <1>3, <1>4, AlwaysPublished, PTL DEF Spec

=============================================================================
