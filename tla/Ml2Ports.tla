------------------------------- MODULE Ml2Ports -------------------------------
(***************************************************************************)
(* Ports as ML2 makes them (plugins/ml2/plugin.py) with the mechanism      *)
(* driver for the firewalls (plugins/ml2/drivers/mech_panorama.py): a      *)
(* compute port is registered, by its address, with the tags of its        *)
(* instance at the device of each router that has a port on the network,   *)
(* and a router interface registers the ports that are there.  Addresses   *)
(* come from IpAllocation.  Some requests change ports, or the ports of    *)
(* routers, where the driver has no hook.                                  *)
(*                                                                         *)
(* A network has one subnet, a port one address, and a device is the       *)
(* router it is reserved for.  The driver keeps the devices a deletion has *)
(* to commit in `params`, one field for all requests.  A compute port is   *)
(* told of after the transaction that makes it; an interface comes and     *)
(* goes inside the transaction of L3RouterPlugin.add_router_interface and  *)
(* remove_router_interface, which ends after.                              *)
(***************************************************************************)
EXTENDS IpAllocation

CONSTANTS
  Routers,
  FaultyOps,       \* the requests some call of which may fail
  MaxFaults

ASSUME MlConstants ==
  /\ None \notin Routers
  /\ FaultyOps \subseteq {"compute", "interface", "delete"}
  /\ MaxFaults \in Nat

VARIABLES
  owner,        \* device_owner of each port
  device,       \* its device_id: the router, when it is a router's
  tagged,       \* the ports with rows of port_metadata
  registered,   \* the addresses registered at the device of each router
  dirty,        \* the devices that were told something that is not committed
  params,       \* PanoramaMechanismDriver._params
  call,         \* the request each worker serves
  changed,      \* history: the ports whose device_owner was updated
  untold,       \* history: the addresses each device was not told of, or not told had
                \* gone, by a request no hook runs in
  faults

portVars   == <<owner, device, tagged, changed>>
driverVars == <<portVars, registered, dirty, params, call, untold, faults>>
mlVars == <<ipVars, driverVars>>

Address == [subnet : Subnets, ip : Net]
Notice  == [router : Routers, address : Address]
NoCall  == [pc |-> "idle", op |-> "none", port |-> None, router |-> None,
            routers |-> {}, todo |-> {}]

MlTypeOK ==
  /\ IpTypeOK
  /\ owner \in [Ports -> {"none", "compute", "interface", "gateway"}]
  /\ device \in [Ports -> Routers \cup {None}]
  /\ tagged \subseteq Ports
  /\ registered \in [Routers -> SUBSET Address]
  /\ dirty \subseteq Routers /\ params \subseteq Routers
  /\ \A w \in Workers :
       /\ call[w].pc \in {"idle", "allocating", "created", "saving", "registering",
                          "undo", "unregistering", "deleted", "committing", "removing"}
       /\ call[w].op \in {"none", "compute", "other", "gateway", "interface", "update", "delete"}
       /\ call[w].port \in Ports \cup {None} /\ call[w].router \in Routers \cup {None}
       /\ call[w].routers \subseteq Routers /\ call[w].todo \subseteq Notice
  /\ changed \subseteq Ports /\ untold \subseteq Notice
  /\ faults \in 0..MaxFaults

MlInit ==
  /\ IpInit
  /\ owner = [p \in Ports |-> "none"]
  /\ device = [p \in Ports |-> None]
  /\ tagged = {}
  /\ registered = [r \in Routers |-> {}]
  /\ dirty = {} /\ params = {}
  /\ call = [w \in Workers |-> NoCall]
  /\ changed = {} /\ untold = {}
  /\ faults = 0

AddressOf(p) == [subnet |-> ports[p], ip |-> CHOOSE ip \in AddressesOf(p) : TRUE]

\* Mutant: the routers with a port on any network.
Attached_Anywhere(s) == {device[p] : p \in {q \in Ports : ports[q] # None}} \ {None}

\* _get_routers: those with a port on the network, be it interface or gateway.
Attached(s) == {device[p] : p \in {q \in Ports : ports[q] = s}} \ {None}

\* The ports of the network that have tags, and those of instances.
TaggedOn(s)    == {AddressOf(p) : p \in {q \in tagged : ports[q] = s}}
InstancesOn(s) == {AddressOf(p) : p \in {q \in Ports : ports[q] = s /\ owner[q] = "compute"}}

Notices(routers, addresses) == [router : routers, address : addresses]

\* Address by address, each at all the routers.
Turn(w) ==
  LET begun == {n \in call[w].todo : \E r \in call[w].routers :
                  [n EXCEPT !.router = r] \notin call[w].todo}
  IN  IF begun = {} THEN call[w].todo ELSE begun

Goto(w, pc) == call' = [call EXCEPT ![w].pc = pc]
Idle(w) == call[w].pc = "idle"

-----------------------------------------------------------------------------
(* Creation of a port.                                                     *)

\* A port of an instance (op is "compute"), or one that is nobody's yet ("other"), with
\* any address or the one the user asks for.
CreatePort(w, op, p, s, want) ==
  /\ Idle(w)
  /\ StartCreate(w, p, s, <<want>>)
  /\ call' = [call EXCEPT ![w] = [NoCall EXCEPT !.pc = "allocating", !.op = op, !.port = p]]
  /\ UNCHANGED <<portVars, registered, dirty, params, untold, faults>>

\* add_router_interface by subnet: a port with the address of the gateway.
AddInterface(w, r, p, s) ==
  /\ Idle(w)
  /\ subnets[s].gateway # None /\ r \notin Attached(s)
  /\ StartCreate(w, p, s, <<subnets[s].gateway>>)
  /\ call' = [call EXCEPT ![w] = [NoCall EXCEPT !.pc = "allocating", !.op = "interface",
                                                !.port = p, !.router = r]]
  /\ UNCHANGED <<portVars, registered, dirty, params, untold, faults>>

\* _create_router_gw_port: a port with any address.
SetGateway(w, r, p, s) ==
  /\ Idle(w)
  /\ r \notin Attached(s) /\ \A q \in Ports : device[q] = r => owner[q] # "gateway"
  /\ StartCreate(w, p, s, <<AnyIp>>)
  /\ call' = [call EXCEPT ![w] = [NoCall EXCEPT !.pc = "allocating", !.op = "gateway",
                                                !.port = p, !.router = r]]
  /\ UNCHANGED <<portVars, registered, dirty, params, untold, faults>>

AllocateAddress(w) == Allocate(w) /\ UNCHANGED driverVars

\* No address, or the transaction fails.
Refused(w) ==
  /\ RebuildFails(w) \/ CommitFails(w) \/ WaitsTooLong(w)
  /\ call' = [call EXCEPT ![w] = NoCall]
  /\ UNCHANGED <<portVars, registered, dirty, params, untold, faults>>

CommitCompute(w) ==
  /\ call[w].pc = "allocating" /\ call[w].op = "compute"
  /\ Commit(w)
  /\ owner' = [owner EXCEPT ![call[w].port] = "compute"]
  /\ Goto(w, "created")
  /\ UNCHANGED <<device, tagged, changed, registered, dirty, params, untold, faults>>

\* create_port_postcommit for a compute port: the routers are read ...
ReadRouters(w) ==
  /\ call[w].pc = "created"
  /\ call' = [call EXCEPT ![w].pc = "saving", ![w].routers = Attached(ports[call[w].port])]
  /\ UNCHANGED <<ipVars, portVars, registered, dirty, params, untold, faults>>

\* Mutant: the tags are not saved.
SaveTags_Unsaved(w) ==
  /\ call[w].pc = "saving" /\ ports[call[w].port] # None
  /\ call' = [call EXCEPT ![w].pc = "registering",
                          ![w].todo = Notices(call[w].routers, {AddressOf(call[w].port)})]
  /\ UNCHANGED <<ipVars, portVars, registered, dirty, params, untold, faults>>

\* ... and the tags are saved, unless the port is gone.
SaveTags(w) ==
  LET p == call[w].port
  IN  /\ call[w].pc = "saving"
      /\ IF ports[p] = None
           THEN Goto(w, "undo") /\ UNCHANGED tagged
           ELSE /\ tagged' = tagged \cup {p}
                /\ call' = [call EXCEPT ![w].pc = "registering",
                                        ![w].todo = Notices(call[w].routers, {AddressOf(p)})]
      /\ UNCHANGED <<ipVars, owner, device, changed, registered, dirty, params, untold, faults>>

\* Mutant: the router is read from the row of the interface, which is not committed yet.
ReadPorts_FromRow(w) ==
  LET routers == Attached(tx[w].subnet) \cup {device[call[w].port]}
  IN  /\ call[w].pc = "allocating" /\ call[w].op = "interface"
      /\ Done(w) /\ KeysAreFree(w)
      /\ call' = [call EXCEPT ![w].pc = "registering", ![w].routers = routers,
                              ![w].todo = Notices(routers, TaggedOn(tx[w].subnet))]
      /\ UNCHANGED <<ipVars, portVars, registered, dirty, params, untold, faults>>

\* create_port_postcommit for an interface: its own row is not committed yet.
ReadPorts(w) ==
  LET routers == Attached(tx[w].subnet) \cup {call[w].router}
  IN  /\ call[w].pc = "allocating" /\ call[w].op = "interface"
      /\ Done(w) /\ KeysAreFree(w)
      /\ call' = [call EXCEPT ![w].pc = "registering", ![w].routers = routers,
                              ![w].todo = Notices(routers, TaggedOn(tx[w].subnet))]
      /\ UNCHANGED <<ipVars, portVars, registered, dirty, params, untold, faults>>

\* _add_address_for_dynamic_group: register, and commit; the latter may fail alone.
Register(w, committed) ==
  /\ call[w].pc = "registering"
  /\ committed \/ (faults < MaxFaults /\ call[w].op = "compute" /\ "compute" \in FaultyOps)
  /\ \E n \in Turn(w) :
       /\ registered' = [registered EXCEPT ![n.router] = @ \cup {n.address}]
       /\ dirty' = IF committed THEN dirty \ {n.router} ELSE dirty \cup {n.router}
       /\ call' = [call EXCEPT ![w].pc = IF committed THEN @ ELSE "undo", ![w].todo = @ \ {n}]
  /\ faults' = IF committed THEN faults ELSE faults + 1
  /\ UNCHANGED <<ipVars, portVars, params, untold>>

Registered(w) == call[w].pc = "registering" /\ call[w].todo = {}

CreateEnds(w) ==
  /\ Registered(w) /\ call[w].op = "compute"
  /\ call' = [call EXCEPT ![w] = NoCall]
  /\ UNCHANGED <<ipVars, portVars, registered, dirty, params, untold, faults>>

\* The port becomes a router's, in the end of its transaction.
BecomesRouterPort(w, what) ==
  /\ Commit(w)
  /\ owner' = [owner EXCEPT ![call[w].port] = what]
  /\ device' = [device EXCEPT ![call[w].port] = call[w].router]
  /\ call' = [call EXCEPT ![w] = NoCall]
  /\ UNCHANGED <<tagged, changed, registered, dirty, params, faults>>

\* What devices are not told of these addresses.
Untold(routers, addresses) == untold' = untold \cup Notices(routers, addresses)

\* The transaction of add_router_interface ends.  What the devices were told is of the
\* ports with tags, whoever owns them now.
CommitInterface(w) ==
  LET s == tx[w].subnet
  IN  /\ Registered(w) /\ call[w].op = "interface"
      /\ BecomesRouterPort(w, "interface")
      /\ Untold(call[w].routers, {AddressOf(p) : p \in {q \in changed : ports[q] = s}})

-----------------------------------------------------------------------------
(* Requests that make and change ports where the driver has no hook.       *)

\* create_port of a port that is nobody's.
CommitOther(w) ==
  /\ call[w].pc = "allocating" /\ call[w].op = "other"
  /\ Commit(w)
  /\ call' = [call EXCEPT ![w] = NoCall]
  /\ UNCHANGED <<portVars, registered, dirty, params, untold, faults>>

\* A router gets its gateway: _get_routers finds it from then on.
CommitGateway(w) ==
  /\ call[w].pc = "allocating" /\ call[w].op = "gateway"
  /\ BecomesRouterPort(w, "gateway")
  /\ Untold({call[w].router}, InstancesOn(tx[w].subnet))

\* The row of the port is not locked by its deletion.
Undisturbed(p) ==
  ports[p] # None /\ ~Busy(p) /\ \A v \in Workers : call[v].op = "delete" => call[v].port # p

\* add_router_interface by port: the row of a port that is nobody's is changed, and no
\* port is created.
AddInterfaceByPort(w, r, p) ==
  /\ Idle(w) /\ Request(w)
  /\ Undisturbed(p) /\ owner[p] = "none" /\ r \notin Attached(ports[p])
  /\ owner' = [owner EXCEPT ![p] = "interface"]
  /\ device' = [device EXCEPT ![p] = r]
  /\ Untold({r}, InstancesOn(ports[p]))
  /\ UNCHANGED <<subnets, ranges, allocations, ports, tx, tagged, changed, registered, dirty,
                 params, call, faults>>

\* update_port with another address.
UpdateFixedIps(w, p, want) ==
  /\ Idle(w) /\ Undisturbed(p)
  /\ StartUpdate(w, p, {}, <<want>>)
  /\ call' = [call EXCEPT ![w] = [NoCall EXCEPT !.pc = "allocating", !.op = "update", !.port = p]]
  /\ UNCHANGED <<portVars, registered, dirty, params, untold, faults>>

CommitUpdate(w) ==
  LET p == call[w].port
      s == tx[w].subnet
      addresses == [subnet : {s}, ip : tx[w].freed \cup Elements(tx[w].got)]
  IN  /\ call[w].pc = "allocating" /\ call[w].op = "update"
      /\ Commit(w)
      /\ Untold(IF owner[p] = "compute" THEN Attached(s) ELSE {}, addresses)
      /\ call' = [call EXCEPT ![w] = NoCall]
      /\ UNCHANGED <<portVars, registered, dirty, params, faults>>

\* update_port with another device_owner: an instance is given a port that is there, or
\* leaves it.
UpdateOwner(w, p, what) ==
  /\ Idle(w) /\ Request(w)
  /\ Undisturbed(p) /\ {owner[p], what} = {"none", "compute"}
  /\ owner' = [owner EXCEPT ![p] = what]
  /\ changed' = changed \cup {p}
  /\ Untold(Attached(ports[p]), {AddressOf(p)})
  /\ UNCHANGED <<subnets, ranges, allocations, ports, tx, device, tagged, registered, dirty,
                 params, call, faults>>

-----------------------------------------------------------------------------
(* Deletion of a port.                                                     *)

\* delete_port: prevent_l3_port_deletion lets interfaces be removed by
\* remove_router_interface alone; the lock 'db-access' is taken.
Deletable(p) ==
  /\ ports[p] # None /\ ~Busy(p)
  /\ \A v \in Workers : call[v].pc # "unregistering" /\ ~(call[v].op = "delete" /\ call[v].port = p)

\* delete_port_precommit up to its loop; a compute port without routers has no devices,
\* and of a gateway, or a port that is nobody's, no device is told.
BeginDelete(w, p) ==
  LET s == ports[p]
      routers == Attached(s)
      addresses == CASE owner[p] = "compute"   -> {AddressOf(p)}
                     [] owner[p] = "interface" -> TaggedOn(s)
                     [] OTHER                  -> {}
  IN  /\ Deletable(p)
      /\ call' = [call EXCEPT ![w] = [NoCall EXCEPT
                    !.pc = "unregistering", !.op = "delete", !.port = p, !.router = device[p],
                    !.routers = routers, !.todo = Notices(routers, addresses)]]
      /\ params' = IF owner[p] = "compute" /\ routers = {} THEN {} ELSE params

Delete(w, p) ==
  /\ Idle(w)
  /\ Request(w)
  /\ BeginDelete(w, p)
  /\ UNCHANGED <<subnets, ranges, allocations, ports, tx, portVars, registered, dirty,
                 untold, faults>>

\* create_port: the postcommit failed, and the port is deleted, as by a request.
UndoCreate(w) ==
  /\ call[w].pc = "undo"
  /\ IF ports[call[w].port] = None
       THEN call' = [call EXCEPT ![w] = NoCall] /\ UNCHANGED params
       ELSE BeginDelete(w, call[w].port)
  /\ UNCHANGED <<ipVars, portVars, registered, dirty, untold, faults>>

\* Mutant: the devices are not kept for the postcommit.
Unregister_NotKept(w) ==
  /\ call[w].pc = "unregistering"
  /\ \E n \in Turn(w) :
       /\ registered' = [registered EXCEPT ![n.router] = @ \ {n.address}]
       /\ dirty' = dirty \cup {n.router}
       /\ call' = [call EXCEPT ![w].todo = @ \ {n}]
  /\ UNCHANGED <<ipVars, portVars, params, untold, faults>>

\* _remove_address_from_dynamic_group; the devices are kept when an address is done.
Unregister(w) ==
  /\ call[w].pc = "unregistering"
  /\ \E n \in Turn(w) :
       /\ registered' = [registered EXCEPT ![n.router] = @ \ {n.address}]
       /\ dirty' = dirty \cup {n.router}
       /\ call' = [call EXCEPT ![w].todo = @ \ {n}]
       /\ params' = IF \E m \in call[w].todo \ {n} : m.address = n.address
                      THEN params ELSE call[w].routers
  /\ UNCHANGED <<ipVars, portVars, untold, faults>>

\* The row goes, with its addresses and its tags.
Gone(p) ==
  /\ RemovePort(p)
  /\ owner' = [owner EXCEPT ![p] = "none"]
  /\ device' = [device EXCEPT ![p] = None]
  /\ tagged' = tagged \ {p} /\ changed' = changed \ {p}

\* The lock is released; of a router's port the transaction goes on.
CommitDelete(w) ==
  /\ call[w].pc = "unregistering" /\ call[w].todo = {}
  /\ IF call[w].router = None
       THEN Gone(call[w].port) ELSE UNCHANGED <<ports, allocations, portVars>>
  /\ Goto(w, "deleted")
  /\ UNCHANGED <<subnets, ranges, tx, requests, registered, dirty, params, untold, faults>>

\* delete_port_postcommit commits the devices of params.
TakeParams(w) ==
  /\ call[w].pc = "deleted"
  /\ call' = [call EXCEPT ![w].pc = "committing", ![w].routers = params]
  /\ UNCHANGED <<ipVars, portVars, registered, dirty, params, untold, faults>>

CommitDevice(w) ==
  /\ call[w].pc = "committing"
  /\ \E r \in call[w].routers :
       /\ dirty' = dirty \ {r}
       /\ call' = [call EXCEPT ![w].routers = @ \ {r}]
  /\ UNCHANGED <<ipVars, portVars, registered, params, untold, faults>>

DeleteEnds(w) ==
  /\ call[w].pc = "committing" /\ call[w].routers = {}
  /\ params' = {}
  /\ call' = [call EXCEPT ![w] = IF @.router = None THEN NoCall ELSE [@ EXCEPT !.pc = "removing"]]
  /\ UNCHANGED <<ipVars, portVars, registered, dirty, untold, faults>>

\* The transaction of remove_router_interface ends, or that of update_router, which takes
\* a gateway away.  An interface that goes has every router of its network forget the
\* instances there, and a gateway none.
CommitRemoval(w) ==
  LET p == call[w].port
      s == ports[p]
  IN  /\ call[w].pc = "removing"
      /\ Gone(p)
      /\ Untold(IF owner[p] = "gateway" THEN {call[w].router} ELSE Attached(s) \ {call[w].router},
                InstancesOn(s))
      /\ call' = [call EXCEPT ![w] = NoCall]
      /\ UNCHANGED <<subnets, ranges, tx, requests, registered, dirty, params, faults>>

-----------------------------------------------------------------------------
(* Failures.                                                               *)

\* A call to Nova or to a device, or the rest of the transaction of an interface.
MayFail(c) ==
  \/ c.pc \in {"created", "removing"}
  \/ c.pc \in {"registering", "unregistering"} /\ c.todo # {}
  \/ c.pc = "registering" /\ c.op = "interface"
  \/ c.pc = "committing" /\ c.routers # {}

\* A port of an instance is deleted, a transaction that has not ended is rolled back, and
\* delete_port goes on without the rest of its postcommit.
AfterFailure(c) ==
  IF c.op = "compute"
    THEN [c EXCEPT !.pc = "undo", !.todo = {}]
    ELSE IF c.pc = "committing" /\ c.router # None
           THEN [c EXCEPT !.pc = "removing", !.routers = {}]
           ELSE NoCall

Fails(w) ==
  /\ faults < MaxFaults /\ call[w].op \in FaultyOps /\ MayFail(call[w])
  /\ call' = [call EXCEPT ![w] = AfterFailure(@)]
  /\ tx' = [tx EXCEPT ![w] = NoTx]
  /\ faults' = faults + 1
  /\ UNCHANGED <<subnets, ranges, allocations, ports, requests,
                 portVars, registered, dirty, params, untold>>

-----------------------------------------------------------------------------
(* The specification, and what holds of it.                                *)

SubnetRequest(w, s) ==
  /\ Idle(w) /\ UNCHANGED driverVars
  /\ DeleteSubnet(w, s) \/ \E g \in Hosts \cup {None} : CreateSubnet(w, s, g, DefaultPools(g))

UpdatePort(w, p) ==
  (\E want \in Hosts \cup {AnyIp} : UpdateFixedIps(w, p, want))
    \/ \E what \in {"none", "compute"} : UpdateOwner(w, p, what)

RouterRequest(w, r, p) ==
  AddInterfaceByPort(w, r, p) \/ \E s \in Subnets : AddInterface(w, r, p, s) \/ SetGateway(w, r, p, s)

MlRequest(w) ==
  \/ \E s \in Subnets : SubnetRequest(w, s)
  \/ \E p \in Ports : \/ \E s \in Subnets, op \in {"compute", "other"}, want \in Hosts \cup {AnyIp} :
                           CreatePort(w, op, p, s, want)
                      \/ UpdatePort(w, p) \/ Delete(w, p)
                      \/ \E r \in Routers : RouterRequest(w, r, p)

CreateStep(w) ==
  \/ AllocateAddress(w) \/ Refused(w) \/ CommitCompute(w) \/ ReadRouters(w) \/ SaveTags(w)
  \/ ReadPorts(w) \/ Register(w, TRUE) \/ Register(w, FALSE) \/ CreateEnds(w) \/ CommitInterface(w)
  \/ CommitOther(w) \/ CommitGateway(w) \/ CommitUpdate(w)

DeleteStep(w) ==
  \/ UndoCreate(w) \/ Unregister(w) \/ CommitDelete(w) \/ TakeParams(w) \/ CommitDevice(w)
  \/ DeleteEnds(w) \/ CommitRemoval(w)

MlNext == \E w \in Workers : MlRequest(w) \/ CreateStep(w) \/ DeleteStep(w) \/ Fails(w)

MlSpec == MlInit /\ [][MlNext]_mlVars

Quiet == \A w \in Workers : Idle(w)

\* The addresses of instances' ports on the networks of a router.
Known(r) == UNION {InstancesOn(s) : s \in {t \in Subnets : r \in Attached(t)}}

UntoldTo(r) == {n.address : n \in {m \in untold : m.router = r}}

\* At rest a device knows no address but those of instances on the networks of its
\* router, whichever calls failed, and those it was not told had gone: an address that
\* is free again does not keep the tags of the instance that had it.
NoStaleTag == Quiet => \A r \in Routers : registered[r] \subseteq Known(r) \cup UntoldTo(r)

\* At rest, when no call failed, a device knows them all, whether the port or the
\* interface came first, but for those it was not told of.
EveryPortIsKnown == Quiet /\ faults = 0 => \A r \in Routers : Known(r) \subseteq registered[r] \cup UntoldTo(r)

\* At rest, when no call failed, whatever the devices were told is committed: the
\* devices of a deletion reach its postcommit through params.
NothingUncommitted == Quiet /\ faults = 0 => dirty = {}
=============================================================================
