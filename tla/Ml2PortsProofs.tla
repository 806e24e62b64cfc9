---------------------------- MODULE Ml2PortsProofs ----------------------------
(***************************************************************************)
(* Proofs about Ml2Ports for every number of subnets, ports and routers.   *)
(***************************************************************************)
EXTENDS Ml2Ports, IpAllocationProofs

-----------------------------------------------------------------------------
(* Type correctness, however many workers there are.                       *)

\* What a worker is doing.
Call ==
  [pc : {"idle", "allocating", "created", "saving", "registering",
         "undo", "unregistering", "deleted", "committing", "removing"},
   op : {"none", "compute", "other", "gateway", "interface", "update", "delete"}, port : Ports \cup {None},
   router : Routers \cup {None}, routers : SUBSET Routers, todo : SUBSET Notice]

\* The transaction of a port goes on: that of an interface while ports are registered.
InTx(c) == c.pc = "allocating" \/ (c.pc = "registering" /\ c.op = "interface")

\* How far a call is says what it is about, and whether its transaction goes on: that of
\* one port, with one address, taken or not yet (any one when the ranges are rebuilt).
CallOK(c, t) ==
  /\ c.pc = "idle" => c = NoCall
  /\ c.pc # "idle" => c.port \in Ports
  /\ c.op \in {"interface", "gateway"} \/ c.pc = "removing" => c.router \in Routers
  /\ c.pc \in {"created", "saving", "undo"} => c.op = "compute"
  /\ c.pc = "allocating" => c.op \in {"compute", "other", "gateway", "interface", "update"}
  /\ c.pc = "registering" => c.op \in {"compute", "interface"}
  /\ c.pc \in {"unregistering", "deleted", "committing", "removing"} => c.op = "delete"
  /\ t.pc # "idle" <=> InTx(c)
  /\ t.pc # "idle" => /\ t.port = c.port
                      /\ t.op = IF c.op = "update" THEN "update" ELSE "create"
                      /\ c.op # "update" => t.freed = {}
                      /\ \/ t.todo = <<>> /\ Len(t.got) = 1
                         \/ t.got = <<>> /\ Len(t.todo) = 1
  /\ t.pc = "rebuilding" => Head(t.todo) = AnyIp

\* A port that is there has an address, and one that is not is nobody's.
PortsOK == \A p \in Ports : IF ports[p] = None THEN owner[p] = "none" ELSE AddressesOf(p) # {}

\* The types of what the driver keeps.
DriverOK ==
  /\ owner \in [Ports -> {"none", "compute", "interface", "gateway"}]
  /\ device \in [Ports -> Routers \cup {None}]
  /\ tagged \subseteq Ports /\ changed \subseteq Ports /\ untold \subseteq Notice
  /\ registered \in [Routers -> SUBSET Address]
  /\ dirty \subseteq Routers /\ params \subseteq Routers
  /\ faults \in 0..MaxFaults

\* The inductive invariant of MlTypeOK.
MlTypeInv ==
  /\ IpTypeInv
  /\ PortsOK
  /\ DriverOK
  /\ call \in [Workers -> Call]
  /\ \A w \in Workers : CallOK(call[w], tx[w])

\* The invariant has the types.
LEMMA TypeOfInv == MlTypeInv => MlTypeOK
BY DEF MlTypeInv, MlTypeOK, DriverOK, IpTypeInv, Call

\* What a step does to the call of one worker.
LEMMA OneCall ==
  ASSUME MlTypeInv, NEW w \in Workers, NEW c \in Call, call' = [call EXCEPT ![w] = c],
         \A v \in Workers : v # w => tx'[v] = tx[v], CallOK(c, tx'[w])
  PROVE  call' \in [Workers -> Call] /\ \A v \in Workers : CallOK(call[v], tx[v])'
<1>1. call \in [Workers -> Call]
  BY DEF MlTypeInv
<1>2. call' \in [Workers -> Call] /\ \A v \in Workers : call'[v] = IF v = w THEN c ELSE call[v]
  BY <1>1
<1>3. ASSUME NEW v \in Workers PROVE CallOK(call'[v], tx'[v])
  <2>1. CASE v = w
    BY <1>2, <2>1
  <2>2. CASE v # w
    BY <1>2, <2>2 DEF MlTypeInv
  <2>. QED
    BY <2>1, <2>2
<1>. QED
  BY <1>2, <1>3 DEF CallOK, InTx

\* The address of a port that is there.
LEMMA AddressType ==
  ASSUME MlTypeInv, NEW p \in Ports, ports[p] # None
  PROVE  /\ AddressOf(p) \in Address /\ AddressOf(p).subnet = ports[p]
         /\ AddressOf(p).ip \in AddressesOf(p)
<1>1. ports[p] \in Subnets /\ AddressesOf(p) # {} /\ AddressesOf(p) \subseteq Hosts
  BY AddressesType DEF MlTypeInv, IpTypeInv, IpTypeOK, PortsOK
<1>2. (CHOOSE ip \in AddressesOf(p) : TRUE) \in AddressesOf(p)
  BY <1>1
<1>3. Hosts \subseteq Net
  BY LastAssumption DEF Hosts, Net
<1>. QED
  BY <1>1, <1>2, <1>3 DEF AddressOf, Address

\* The routers with a port on a network are routers.
LEMMA AttachedType ==
  ASSUME MlTypeInv
  PROVE  \A s : Attached(s) \subseteq Routers
BY DEF MlTypeInv, DriverOK, Attached

\* The addresses of ports on a subnet are addresses of it.
LEMMA SubnetType ==
  ASSUME MlTypeInv, NEW s \in Subnets, NEW Q \in SUBSET Ports
  PROVE  LET on == {AddressOf(p) : p \in {q \in Q : ports[q] = s}}
         IN  on \subseteq Address /\ \A a \in on : a.subnet = s
<1>1. ASSUME NEW p \in Q, ports[p] = s PROVE AddressOf(p) \in Address /\ AddressOf(p).subnet = s
  BY <1>1, AddressType, IpNoneAssumption
<1>. QED
  BY <1>1

\* The addresses with a tag there are.
LEMMA TaggedType ==
  ASSUME MlTypeInv, NEW s \in Subnets
  PROVE  TaggedOn(s) \subseteq Address /\ \A a \in TaggedOn(s) : a.subnet = s
BY SubnetType DEF MlTypeInv, DriverOK, TaggedOn

\* So are those of instances; where no subnet is, there are none.
LEMMA InstancesType ==
  ASSUME MlTypeInv, NEW s \in Subnets \cup {None}
  PROVE  InstancesOn(s) \subseteq Address /\ \A a \in InstancesOn(s) : a.subnet = s
<1>1. ASSUME NEW p \in Ports, owner[p] = "compute"
      PROVE  AddressOf(p) \in Address /\ AddressOf(p).subnet = ports[p]
  BY <1>1, AddressType DEF MlTypeInv, PortsOK
<1>. QED
  BY <1>1 DEF InstancesOn

\* What is still to be told to which devices.
LEMMA NoticesType ==
  ASSUME NEW routers \in SUBSET Routers, NEW addresses \in SUBSET Address
  PROVE  Notices(routers, addresses) \subseteq Notice
BY DEF Notices, Notice

-----------------------------------------------------------------------------
(* Addresses and ports, as the steps of ML2 change them.                   *)

\* The one address that is wanted, taken.
LEMMA OneTaken ==
  ASSUME NEW S, NEW todo \in Seq(S), Len(todo) = 1, NEW ip
  PROVE  Tail(todo) = <<>> /\ Append(<<>>, ip) = <<ip>>
<1>1. Tail(todo) \in Seq(S) /\ Len(Tail(todo)) = 0
  BY HeadTailProperties, EmptySeq
<1>2. Tail(todo) = <<>>
  BY <1>1, EmptySeq
<1>3. Append(<<>>, ip) = <<ip>>
  OBVIOUS
<1>. QED
  BY <1>2, <1>3

\* An address taken for a transaction that wants one.
LEMMA TakeOne ==
  ASSUME MlTypeInv, NEW w \in Workers, tx[w].pc # "idle", tx[w].todo # <<>>,
         NEW rows, NEW row, NEW ip, Take(w, rows, row, ip)
  PROVE  /\ tx'[w].pc = "allocating" /\ tx'[w].todo = <<>> /\ tx'[w].got = <<ip>>
         /\ tx'[w].port = tx[w].port /\ tx'[w].op = tx[w].op
         /\ tx'[w].freed = tx[w].freed /\ tx'[w].subnet = tx[w].subnet
         /\ \A v \in Workers : v # w => tx'[v] = tx[v]
<1>1. /\ tx \in [Workers -> Transaction] /\ tx[w] \in Transaction
      /\ tx[w].todo \in Seq(Hosts \cup {AnyIp}) /\ tx[w].got = <<>> /\ Len(tx[w].todo) = 1
  BY DEF MlTypeInv, IpTypeInv, IpTypeOK, CallOK, Transaction
<1>2. Tail(tx[w].todo) = <<>> /\ Append(tx[w].got, ip) = <<ip>>
  BY <1>1, OneTaken
<1>3. tx' = [tx EXCEPT ![w].pc = "allocating", ![w].todo = <<>>, ![w].got = <<ip>>,
                       ![w].locked = TRUE, ![w].draft = (rows \ {row}) \cup Split(row, ip)]
  BY <1>2 DEF Take
<1>. QED
  BY <1>1, <1>3 DEF Transaction

\* An allocation goes on with its transaction, for the port and the address it is for.
LEMMA AllocateTx ==
  ASSUME MlTypeInv, NEW w \in Workers, Allocate(w)
  PROVE  /\ UNCHANGED <<subnets, ranges, allocations, ports, requests>>
         /\ tx[w].pc # "idle" /\ tx'[w].pc # "idle"
         /\ tx'[w].port = tx[w].port /\ tx'[w].op = tx[w].op
         /\ tx'[w].freed = tx[w].freed /\ tx'[w].subnet = tx[w].subnet
         /\ \A v \in Workers : v # w => tx'[v] = tx[v]
         /\ tx[w].todo # <<>>
         /\ tx'[w].pc = "rebuilding" => Head(tx'[w].todo) = AnyIp
         /\ \/ tx'[w].todo = tx[w].todo /\ tx'[w].got = tx[w].got
            \/ \E ip : /\ tx'[w].todo = <<>> /\ tx'[w].got = <<ip>>
                       /\ Head(tx[w].todo) # AnyIp => ip = Head(tx[w].todo)
<1>0. /\ tx[w].pc # "idle" /\ UNCHANGED <<subnets, ranges, allocations, ports, requests>>
      /\ tx[w].todo # <<>>
  BY DEF Allocate, AllocateSpecific, Generate, ReadAllocations, Rebuild, MlTypeInv, IpTypeInv, TxOK
<1>1. /\ tx \in [Workers -> Transaction] /\ tx[w] \in Transaction
      /\ tx[w].todo \in Seq(Hosts \cup {AnyIp}) /\ tx[w].got = <<>> /\ Len(tx[w].todo) = 1
  BY <1>0 DEF MlTypeInv, IpTypeInv, IpTypeOK, CallOK, Transaction
<1>2. CASE AllocateSpecific(w)
  <2>1. CASE \E row \in View(w) : Take(w, View(w), row, Head(tx[w].todo))
    BY <1>0, <2>1, TakeOne
  <2>2. CASE tx' = [tx EXCEPT ![w].todo = Tail(@), ![w].got = Append(@, Head(tx[w].todo)),
                              ![w].locked = @ \/ View(w) # {}, ![w].draft = View(w)]
    <3>1. Tail(tx[w].todo) = <<>> /\ Append(tx[w].got, Head(tx[w].todo)) = <<Head(tx[w].todo)>>
      BY <1>1, OneTaken
    <3>2. tx' = [tx EXCEPT ![w].todo = <<>>, ![w].got = <<Head(tx[w].todo)>>,
                           ![w].locked = @ \/ View(w) # {}, ![w].draft = View(w)]
      BY <2>2, <3>1
    <3>3. /\ tx'[w].port = tx[w].port /\ tx'[w].op = tx[w].op /\ tx'[w].pc = tx[w].pc
          /\ tx'[w].freed = tx[w].freed /\ tx'[w].subnet = tx[w].subnet
          /\ tx'[w].todo = <<>> /\ tx'[w].got = <<Head(tx[w].todo)>>
          /\ \A v \in Workers : v # w => tx'[v] = tx[v]
      BY <1>1, <3>2 DEF Transaction
    <3>4. tx[w].pc = "allocating"
      BY <1>2 DEF AllocateSpecific
    <3>. QED
      BY <1>0, <3>3, <3>4
  <2>. QED
    BY <1>2, <2>1, <2>2, Zenon DEF AllocateSpecific
<1>3. CASE Generate(w)
  <2>1. PICK row \in View(w) : Take(w, View(w), row, row.first)
    BY <1>3 DEF Generate
  <2>2. Head(tx[w].todo) = AnyIp
    BY <1>3 DEF Generate
  <2>. QED
    BY <1>0, <2>1, <2>2, TakeOne
<1>4. CASE ReadAllocations(w)
  BY <1>0, <1>1, <1>4 DEF ReadAllocations, Transaction
<1>5. CASE Rebuild(w)
  <2>1. PICK row \in View(w) \cup Rebuilt(w) : Take(w, View(w) \cup Rebuilt(w), row, row.first)
    BY <1>5 DEF Rebuild
  <2>2. Head(tx[w].todo) = AnyIp
    BY <1>5 DEF Rebuild, MlTypeInv, CallOK
  <2>. QED
    BY <1>0, <2>1, <2>2, TakeOne
<1>. QED
  BY <1>2, <1>3, <1>4, <1>5 DEF Allocate

\* A transaction that commits gives its port the one address it took, for those it freed.
LEMMA CommitOne ==
  ASSUME MlTypeInv, NEW w \in Workers, Commit(w)
  PROVE  /\ InTx(call[w]) /\ call[w].port \in Ports /\ tx[w].port = call[w].port
         /\ tx[w].subnet \in Subnets
         /\ \E ip \in Hosts :
              /\ tx[w].got = <<ip>> /\ Elements(tx[w].got) = {ip}
              /\ allocations' = {a \in allocations : ~(a.port = call[w].port /\ a.ip \in tx[w].freed)}
                                  \cup {[subnet |-> tx[w].subnet, ip |-> ip, port |-> call[w].port]}
         /\ ports' = [ports EXCEPT ![call[w].port] = tx[w].subnet]
         /\ tx' = [tx EXCEPT ![w] = NoTx] /\ UNCHANGED <<subnets, requests>>
<1>1. /\ tx[w] \in Transaction /\ tx[w].port \in Ports /\ tx[w].subnet \in Subnets
      /\ tx[w].pc # "idle" /\ tx[w].todo = <<>>
  BY DEF MlTypeInv, IpTypeInv, IpTypeOK, TxOK, Commit, Done
<1>2. /\ InTx(call[w]) /\ tx[w].port = call[w].port
      /\ tx[w].got \in Seq(Hosts) /\ Len(tx[w].got) = 1
  BY <1>1 DEF MlTypeInv, CallOK, Transaction
<1>3. PICK ip \in Hosts : tx[w].got = <<ip>>
  <2>1. tx[w].got[1] \in Hosts /\ tx[w].got = <<tx[w].got[1]>>
    BY <1>2
  <2>. QED
    BY <2>1
<1>4. Elements(tx[w].got) = {ip}
  BY <1>3 DEF Elements
<1>5. allocations' = {a \in allocations : ~(a.port = call[w].port /\ a.ip \in tx[w].freed)}
                       \cup {[subnet |-> tx[w].subnet, ip |-> ip, port |-> call[w].port]}
  BY <1>2, <1>4 DEF Commit
<1>. QED
  BY <1>1, <1>2, <1>3, <1>4, <1>5 DEF Commit

\* A request for one address.
LEMMA WantOne ==
  ASSUME NEW ip, Wanted(<<ip>>)
  PROVE  <<ip>> \in Wants
<1>1. Specific(<<ip>>) \subseteq Hosts /\ 1 \in 1..MaxFixedIps
  <2>1. Len(<<ip>>) = 1 /\ 1 <= MaxFixedIps
    BY DEF Wanted
  <2>. QED
    BY <2>1, IpBoundAssumption DEF Wanted
<1>2. ip \in Hosts \cup {AnyIp}
  <2>1. ip \in Elements(<<ip>>)
    BY DEF Elements
  <2>. QED
    BY <1>1, <2>1 DEF Specific
<1>3. <<ip>> \in [1..1 -> Hosts \cup {AnyIp}]
  BY <1>2
<1>. QED
  BY <1>1, <1>3 DEF Wants

\* A port that is created starts a transaction for its address.
LEMMA StartOne ==
  ASSUME MlTypeInv, NEW w \in Workers, NEW p \in Ports, NEW s \in Subnets, NEW ip,
         StartCreate(w, p, s, <<ip>>)
  PROVE  /\ IpRequest(w)
         /\ tx'[w].pc = "allocating" /\ tx'[w].op = "create" /\ tx'[w].port = p
         /\ tx'[w].subnet = s /\ tx'[w].todo = <<ip>> /\ tx'[w].got = <<>> /\ tx'[w].freed = {}
         /\ tx' = [tx EXCEPT ![w] = tx'[w]]
         /\ UNCHANGED <<subnets, ranges, allocations, ports>>
<1>1. <<ip>> \in Wants
  BY WantOne DEF StartCreate
<1>2. IpRequest(w)
  BY <1>1 DEF IpRequest
<1>3. tx \in [Workers -> Transaction]
  BY DEF MlTypeInv, IpTypeInv, IpTypeOK
<1>. QED
  BY <1>2, <1>3 DEF StartCreate, Begin, NoTx

\* A port that is given another address starts one that frees what it has.
LEMMA StartAnother ==
  ASSUME MlTypeInv, NEW w \in Workers, NEW p \in Ports, NEW ip, StartUpdate(w, p, {}, <<ip>>)
  PROVE  /\ IpRequest(w)
         /\ tx'[w].pc = "allocating" /\ tx'[w].op = "update" /\ tx'[w].port = p
         /\ tx'[w].subnet = ports[p] /\ tx'[w].todo = <<ip>> /\ tx'[w].got = <<>>
         /\ tx'[w].freed = AddressesOf(p)
         /\ tx' = [tx EXCEPT ![w] = tx'[w]]
         /\ ports[p] # None
         /\ UNCHANGED <<subnets, ranges, allocations, ports>>
<1>1. <<ip>> \in Wants
  BY WantOne DEF StartUpdate
<1>2. IpRequest(w)
  BY <1>1 DEF IpRequest
<1>3. tx \in [Workers -> Transaction]
  BY DEF MlTypeInv, IpTypeInv, IpTypeOK
<1>. QED
  BY <1>2, <1>3 DEF StartUpdate, Begin, NoTx

\* A port that is being deleted is there until its row goes.
Deleting(c) == c.pc = "unregistering" \/ (c.op = "delete" /\ c.router # None)

\* What is left for a step of ML2 that is none of IpAllocation: a request is counted, a
\* port that is being deleted goes, or a transaction is rolled back.
OtherStep ==
  \/ /\ requests' \in 0..MaxRequests
     /\ UNCHANGED <<subnets, ranges, allocations, ports, tx>>
  \/ \E w \in Workers : /\ tx[w].pc = "idle" /\ Deleting(call[w])
                        /\ RemovePort(call[w].port) /\ call[w].port \in Ports
                        /\ UNCHANGED <<subnets, ranges, tx, requests>>
  \/ \E w \in Workers : /\ tx' = [tx EXCEPT ![w] = NoTx]
                        /\ UNCHANGED <<subnets, ranges, allocations, ports, requests>>

\* A step of this specification is one of IpAllocation, or one of these.
LEMMA IpPart ==
  ASSUME MlTypeInv, [MlNext]_mlVars
  PROVE  [IpNext]_ipVars \/ OtherStep
<1>1. ASSUME NEW w \in Workers, MlRequest(w) PROVE [IpNext]_ipVars \/ OtherStep
  <2>1. ASSUME NEW s \in Subnets, DeleteSubnet(w, s) PROVE IpNext
    BY <2>1 DEF IpNext, IpRequest
  <2>2. ASSUME NEW s \in Subnets, NEW g \in Hosts \cup {None}, CreateSubnet(w, s, g, DefaultPools(g))
        PROVE  IpNext
    <3>1. g \in Net \cup {None}
      BY LastAssumption DEF Hosts, Net
    <3>2. DefaultPools(g) \in Pools
      BY <3>1 DEF Pools
    <3>. QED
      BY <2>2, <3>1, <3>2 DEF IpNext, IpRequest
  <2>3. ASSUME Request(w), UNCHANGED <<subnets, ranges, allocations, ports, tx>> PROVE OtherStep
    BY <2>3, IpBoundAssumption DEF Request, OtherStep, MlTypeInv, IpTypeInv, IpTypeOK
  <2>4. ASSUME NEW p \in Ports, NEW s \in Subnets, NEW ip, StartCreate(w, p, s, <<ip>>)
        PROVE  IpNext
    BY <2>4, StartOne DEF IpNext
  <2>5. ASSUME NEW p \in Ports, NEW ip, StartUpdate(w, p, {}, <<ip>>) PROVE IpNext
    BY <2>5, StartAnother DEF IpNext
  <2>6. ASSUME NEW p \in Ports, UpdatePort(w, p) PROVE IpNext \/ OtherStep
    BY <2>3, <2>5, <2>6 DEF UpdatePort, UpdateFixedIps, UpdateOwner
  <2>7. ASSUME NEW p \in Ports, NEW r \in Routers, RouterRequest(w, r, p) PROVE IpNext \/ OtherStep
    BY <2>3, <2>4, <2>7 DEF RouterRequest, AddInterfaceByPort, AddInterface, SetGateway
  <2>8. ASSUME NEW p \in Ports, Delete(w, p) PROVE OtherStep
    BY <2>3, <2>8 DEF Delete
  <2>. QED
    BY <1>1, <2>1, <2>2, <2>4, <2>6, <2>7, <2>8 DEF MlRequest, SubnetRequest, CreatePort
<1>2. ASSUME NEW w \in Workers, CreateStep(w) PROVE [IpNext]_ipVars \/ OtherStep
  <2>1. CASE \/ AllocateAddress(w) \/ Refused(w) \/ CommitCompute(w) \/ CommitInterface(w)
             \/ CommitOther(w) \/ CommitGateway(w) \/ CommitUpdate(w)
    BY <2>1 DEF AllocateAddress, Refused, CommitCompute, CommitInterface, CommitOther,
                CommitGateway, CommitUpdate, BecomesRouterPort, IpNext
  <2>2. CASE \/ ReadRouters(w) \/ SaveTags(w) \/ ReadPorts(w)
             \/ Register(w, TRUE) \/ Register(w, FALSE) \/ CreateEnds(w)
    BY <2>2 DEF ReadRouters, SaveTags, ReadPorts, Register, CreateEnds
  <2>. QED
    BY <1>2, <2>1, <2>2 DEF CreateStep
<1>3. ASSUME NEW w \in Workers, DeleteStep(w) PROVE [IpNext]_ipVars \/ OtherStep
  <2>0. CallOK(call[w], tx[w])
    BY DEF MlTypeInv
  <2>1. CASE UndoCreate(w) \/ Unregister(w) \/ TakeParams(w) \/ CommitDevice(w) \/ DeleteEnds(w)
    BY <2>1 DEF UndoCreate, Unregister, TakeParams, CommitDevice, DeleteEnds
  <2>2. CASE CommitDelete(w)
    <3>1. tx[w].pc = "idle" /\ call[w].port \in Ports /\ Deleting(call[w])
      BY <2>0, <2>2 DEF CommitDelete, CallOK, InTx, Deleting
    <3>2. CASE call[w].router = None
      BY <2>2, <3>1, <3>2 DEF CommitDelete, Gone, OtherStep
    <3>3. CASE call[w].router # None
      BY <2>2, <3>3 DEF CommitDelete, ipVars
    <3>. QED
      BY <3>2, <3>3
  <2>3. CASE CommitRemoval(w)
    <3>1. tx[w].pc = "idle" /\ call[w].port \in Ports /\ Deleting(call[w])
      BY <2>0, <2>3, MlConstants DEF CommitRemoval, CallOK, InTx, Deleting
    <3>. QED
      BY <2>3, <3>1 DEF CommitRemoval, Gone, OtherStep
  <2>. QED
    BY <1>3, <2>1, <2>2, <2>3 DEF DeleteStep
<1>4. ASSUME NEW w \in Workers, Fails(w) PROVE OtherStep
  BY <1>4 DEF Fails, OtherStep
<1>5. CASE UNCHANGED mlVars
  BY <1>5 DEF mlVars
<1>. QED
  BY <1>1, <1>2, <1>3, <1>4, <1>5 DEF MlNext

\* Subnets, ranges, ports and transactions keep their types.
LEMMA IpPartType ==
  ASSUME MlTypeInv, [MlNext]_mlVars
  PROVE  IpTypeInv'
<1>0. IpTypeInv
  BY DEF MlTypeInv
<1>1. CASE [IpNext]_ipVars
  BY <1>0, <1>1, NextType
<1>2. CASE requests' \in 0..MaxRequests /\ UNCHANGED <<subnets, ranges, allocations, ports, tx>>
  BY <1>0, <1>2 DEF IpTypeInv, IpTypeOK
<1>3. ASSUME NEW p, RemovePort(p), UNCHANGED <<subnets, ranges, tx, requests>> PROVE IpTypeInv'
  BY <1>0, <1>3 DEF IpTypeInv, IpTypeOK, RemovePort
<1>4. ASSUME NEW w \in Workers, tx' = [tx EXCEPT ![w] = NoTx],
             UNCHANGED <<subnets, ranges, allocations, ports, requests>>
      PROVE  IpTypeInv'
  BY <1>0, <1>4, EndType
<1>. QED
  BY <1>1, <1>2, <1>3, <1>4, IpPart DEF OtherStep

\* Ports and their addresses stay,
LEMMA SamePorts ==
  ASSUME PortsOK, UNCHANGED <<ports, allocations>>,
         \A p \in Ports : ports[p] = None => owner'[p] = owner[p]
  PROVE  PortsOK'
BY DEF PortsOK, AddressesOf

\* one gets an address,
LEMMA CommitPorts ==
  ASSUME MlTypeInv, NEW w \in Workers, Commit(w),
         \A p \in Ports : p # call[w].port => owner'[p] = owner[p]
  PROVE  PortsOK'
<1>1. PICK p \in Ports : p = call[w].port
  BY CommitOne
<1>2. PICK ip : allocations' = {a \in allocations : ~(a.port = p /\ a.ip \in tx[w].freed)}
                                 \cup {[subnet |-> tx[w].subnet, ip |-> ip, port |-> p]}
  BY <1>1, CommitOne
<1>3. ports' = [ports EXCEPT ![p] = tx[w].subnet] /\ tx[w].subnet # None
  BY <1>1, CommitOne, IpNoneAssumption
<1>4. ports \in [Ports -> Subnets \cup {None}] /\ PortsOK
  BY DEF MlTypeInv, IpTypeInv, IpTypeOK
<1>5. AddressesOf(p)' # {}
  <2>1. [subnet |-> tx[w].subnet, ip |-> ip, port |-> p] \in {a \in allocations' : a.port = p}
    BY <1>2
  <2>. QED
    BY <2>1 DEF AddressesOf
<1>6. ASSUME NEW q \in Ports, q # p PROVE AddressesOf(q)' = AddressesOf(q) /\ ports'[q] = ports[q]
  <2>1. {a \in allocations' : a.port = q} = {a \in allocations : a.port = q}
    BY <1>2, <1>6
  <2>. QED
    BY <1>3, <1>4, <1>6, <2>1 DEF AddressesOf
<1>. QED
  BY <1>1, <1>3, <1>4, <1>5, <1>6 DEF PortsOK

\* or loses all it has.
LEMMA GonePorts ==
  ASSUME MlTypeInv, NEW p \in Ports, Gone(p)
  PROVE  PortsOK'
<1>1. ports \in [Ports -> Subnets \cup {None}] /\ PortsOK /\ DriverOK
  BY DEF MlTypeInv, IpTypeInv, IpTypeOK
<1>2. ports'[p] = None /\ owner'[p] = "none"
  BY <1>1 DEF Gone, RemovePort, DriverOK
<1>3. ASSUME NEW q \in Ports, q # p
      PROVE  ports'[q] = ports[q] /\ owner'[q] = owner[q] /\ AddressesOf(q)' = AddressesOf(q)
  <2>1. {a \in allocations' : a.port = q} = {a \in allocations : a.port = q}
    BY <1>3 DEF Gone, RemovePort
  <2>. QED
    BY <1>1, <1>3, <2>1 DEF Gone, RemovePort, AddressesOf, DriverOK
<1>. QED
  BY <1>1, <1>2, <1>3 DEF PortsOK

\* What devices were not told of are addresses.
LEMMA UntoldType ==
  ASSUME DriverOK, NEW routers \in SUBSET Routers, NEW addresses \in SUBSET Address,
         Untold(routers, addresses)
  PROVE  untold' \subseteq Notice
BY NoticesType DEF Untold, DriverOK

\* What is left to show of a step of a worker.
LEMMA StepType ==
  ASSUME MlTypeInv, IpTypeInv', PortsOK', DriverOK', NEW w \in Workers, NEW c \in Call,
         call' = [call EXCEPT ![w] = c],
         \A v \in Workers : v # w => tx'[v] = tx[v], CallOK(c, tx'[w])
  PROVE  MlTypeInv'
BY OneCall DEF MlTypeInv

\* A request that is refused, or a call that has ended.
LEMMA NoCallType == NoCall \in Call /\ CallOK(NoCall, NoTx)
BY DEF NoCall, Call, CallOK, InTx, NoTx

\* A transaction that is none is NoTx, after a step that ends it too.
LEMMA EndOthers ==
  ASSUME MlTypeInv, NEW w \in Workers, tx' = [tx EXCEPT ![w] = NoTx]
  PROVE  tx'[w] = NoTx /\ \A v \in Workers : v # w => tx'[v] = tx[v]
BY DEF MlTypeInv, IpTypeInv, IpTypeOK

\* A step that leaves the call of each worker, its transaction and the ports.
LEMMA NoCallStepType ==
  ASSUME MlTypeInv, IpTypeInv', DriverOK', UNCHANGED <<ports, allocations, tx, call>>,
         \A p \in Ports : ports[p] = None => owner'[p] = owner[p]
  PROVE  MlTypeInv'
BY SamePorts DEF MlTypeInv

\* A step of a call that has no transaction, and leaves ports and addresses.
LEMMA QuietStepType ==
  ASSUME MlTypeInv, IpTypeInv', DriverOK', NEW w \in Workers, NEW c \in Call,
         call' = [call EXCEPT ![w] = c], UNCHANGED <<ports, allocations, tx, owner>>,
         CallOK(c, tx[w])
  PROVE  MlTypeInv'
<1>1. PortsOK'
  BY SamePorts DEF MlTypeInv
<1>. QED
  BY <1>1, StepType

\* A request for a port that starts a transaction.
LEMMA BeginsType ==
  ASSUME MlTypeInv, IpTypeInv', NEW w \in Workers, NEW c \in Call, NEW p \in Ports, NEW ip,
         c.pc = "allocating", c.port = p,
         c.op \in {"compute", "other", "gateway", "interface", "update"},
         c.op \in {"interface", "gateway"} => c.router \in Routers,
         \/ c.op = "update" /\ StartUpdate(w, p, {}, <<ip>>)
         \/ c.op # "update" /\ \E s \in Subnets : StartCreate(w, p, s, <<ip>>),
         call' = [call EXCEPT ![w] = c],
         UNCHANGED <<portVars, registered, dirty, params, untold, faults>>
  PROVE  MlTypeInv'
<1>1. /\ tx'[w].pc = "allocating" /\ tx'[w].port = p
      /\ tx'[w].op = IF c.op = "update" THEN "update" ELSE "create"
      /\ tx'[w].todo = <<ip>> /\ tx'[w].got = <<>>
      /\ c.op # "update" => tx'[w].freed = {}
      /\ tx' = [tx EXCEPT ![w] = tx'[w]]
      /\ UNCHANGED <<allocations, ports>>
  BY StartOne, StartAnother
<1>2. CallOK(c, tx'[w])
  <2>1. Len(tx'[w].todo) = 1
    BY <1>1
  <2>. QED
    BY <1>1, <2>1 DEF CallOK, InTx
<1>3. PortsOK' /\ DriverOK'
  BY <1>1, SamePorts DEF MlTypeInv, DriverOK, portVars
<1>4. \A v \in Workers : v # w => tx'[v] = tx[v]
  BY <1>1 DEF MlTypeInv, IpTypeInv, IpTypeOK
<1>. QED
  BY <1>2, <1>3, <1>4, StepType

\* A deletion begins with what the devices have to forget.
LEMMA BeginCall ==
  ASSUME MlTypeInv, NEW w \in Workers, NEW p \in Ports, BeginDelete(w, p)
  PROVE  /\ ports[p] \in Subnets /\ params' \subseteq params
         /\ \E c \in Call, addresses \in SUBSET Address :
              /\ call' = [call EXCEPT ![w] = c]
              /\ c.pc = "unregistering" /\ c.op = "delete" /\ c.port = p /\ c.router = device[p]
              /\ c.routers = Attached(ports[p]) /\ c.todo = Notices(Attached(ports[p]), addresses)
              /\ owner[p] = "compute" => addresses = {AddressOf(p)}
              /\ owner[p] = "interface" => addresses = TaggedOn(ports[p])
              /\ owner[p] \notin {"compute", "interface"} => addresses = {}
<1>. DEFINE addresses == CASE owner[p] = "compute"   -> {AddressOf(p)}
                           [] owner[p] = "interface" -> TaggedOn(ports[p])
                           [] OTHER                  -> {}
            c == [NoCall EXCEPT !.pc = "unregistering", !.op = "delete", !.port = p,
                                !.router = device[p], !.routers = Attached(ports[p]),
                                !.todo = Notices(Attached(ports[p]), addresses)]
<1>1. ports[p] \in Subnets /\ ports[p] # None
  BY DEF BeginDelete, Deletable, MlTypeInv, IpTypeInv, IpTypeOK
<1>2. call' = [call EXCEPT ![w] = c] /\ params' \subseteq params
  BY DEF BeginDelete
<1>3. addresses \in SUBSET Address
  BY <1>1, AddressType, TaggedType
<1>4. Attached(ports[p]) \in SUBSET Routers /\ device[p] \in Routers \cup {None}
  BY AttachedType DEF MlTypeInv, DriverOK
<1>5. owner[p] = "compute" => addresses = {AddressOf(p)}
  OBVIOUS
<1>6. owner[p] = "interface" => addresses = TaggedOn(ports[p])
  OBVIOUS
<1>9. owner[p] \notin {"compute", "interface"} => addresses = {}
  OBVIOUS
<1>. HIDE DEF addresses
<1>7. Notices(Attached(ports[p]), addresses) \subseteq Notice
  BY <1>3, <1>4, NoticesType
<1>8. /\ c \in Call /\ c.pc = "unregistering" /\ c.op = "delete" /\ c.port = p /\ c.router = device[p]
      /\ c.routers = Attached(ports[p]) /\ c.todo = Notices(Attached(ports[p]), addresses)
  BY <1>4, <1>7 DEF NoCall, Call
<1>. HIDE DEF c
<1>. QED
  BY <1>1, <1>2, <1>3, <1>5, <1>6, <1>8, <1>9

\* Requests keep the types.
LEMMA MlRequestType ==
  ASSUME MlTypeInv, IpTypeInv', NEW w \in Workers, MlRequest(w)
  PROVE  MlTypeInv'
<1>0. /\ DriverOK /\ PortsOK /\ call \in [Workers -> Call] /\ CallOK(call[w], tx[w])
      /\ None \notin Routers
  BY MlConstants DEF MlTypeInv
<1>1. ASSUME NEW s \in Subnets, SubnetRequest(w, s) PROVE MlTypeInv'
  <2>1. UNCHANGED <<driverVars, tx, allocations, ports>>
    BY <1>1 DEF SubnetRequest, CreateSubnet, DeleteSubnet
  <2>. QED
    BY <1>0, <2>1, NoCallStepType DEF driverVars, portVars, DriverOK
<1>2. ASSUME NEW p \in Ports, Delete(w, p) PROVE MlTypeInv'
  <2>1. /\ BeginDelete(w, p) /\ call[w].pc = "idle"
        /\ UNCHANGED <<tx, allocations, ports, portVars, registered, dirty, untold, faults>>
    BY <1>2 DEF Delete, Idle
  <2>2. PICK c \in Call : /\ call' = [call EXCEPT ![w] = c] /\ c.port = p
                          /\ c.pc = "unregistering" /\ c.op = "delete"
    BY <2>1, BeginCall
  <2>3. CallOK(c, tx[w])
    BY <1>0, <2>1, <2>2 DEF CallOK, InTx
  <2>4. params' \subseteq params
    BY <2>1, BeginCall
  <2>. QED
    BY <1>0, <2>1, <2>2, <2>3, <2>4, QuietStepType DEF DriverOK, portVars
<1>3. ASSUME NEW p \in Ports, NEW s \in Subnets, NEW op \in {"compute", "other"}, NEW ip,
             CreatePort(w, op, p, s, ip)
      PROVE  MlTypeInv'
  <2> DEFINE c == [NoCall EXCEPT !.pc = "allocating", !.op = op, !.port = p]
  <2>1. c \in Call /\ c.pc = "allocating" /\ c.op = op /\ c.port = p
    BY DEF NoCall, Call
  <2>2. call' = [call EXCEPT ![w] = c] /\ StartCreate(w, p, s, <<ip>>)
        /\ UNCHANGED <<portVars, registered, dirty, params, untold, faults>>
    BY <1>3 DEF CreatePort
  <2>. HIDE DEF c
  <2>. QED
    BY <2>1, <2>2, BeginsType
<1>4. ASSUME NEW p \in Ports, NEW s \in Subnets, NEW r \in Routers, AddInterface(w, r, p, s)
      PROVE  MlTypeInv'
  <2> DEFINE c == [NoCall EXCEPT !.pc = "allocating", !.op = "interface", !.port = p, !.router = r]
  <2>1. c \in Call /\ c.pc = "allocating" /\ c.op = "interface" /\ c.port = p /\ c.router = r
    BY DEF NoCall, Call
  <2>2. call' = [call EXCEPT ![w] = c] /\ StartCreate(w, p, s, <<subnets[s].gateway>>)
        /\ UNCHANGED <<portVars, registered, dirty, params, untold, faults>>
    BY <1>4 DEF AddInterface
  <2>. HIDE DEF c
  <2>. QED
    BY <2>1, <2>2, BeginsType
<1>5. ASSUME NEW p \in Ports, NEW s \in Subnets, NEW r \in Routers, SetGateway(w, r, p, s)
      PROVE  MlTypeInv'
  <2> DEFINE c == [NoCall EXCEPT !.pc = "allocating", !.op = "gateway", !.port = p, !.router = r]
  <2>1. c \in Call /\ c.pc = "allocating" /\ c.op = "gateway" /\ c.port = p /\ c.router = r
    BY DEF NoCall, Call
  <2>2. call' = [call EXCEPT ![w] = c] /\ StartCreate(w, p, s, <<AnyIp>>)
        /\ UNCHANGED <<portVars, registered, dirty, params, untold, faults>>
    BY <1>5 DEF SetGateway
  <2>. HIDE DEF c
  <2>. QED
    BY <2>1, <2>2, BeginsType
<1>6. ASSUME NEW p \in Ports, NEW ip, UpdateFixedIps(w, p, ip) PROVE MlTypeInv'
  <2> DEFINE c == [NoCall EXCEPT !.pc = "allocating", !.op = "update", !.port = p]
  <2>1. c \in Call /\ c.pc = "allocating" /\ c.op = "update" /\ c.port = p
    BY DEF NoCall, Call
  <2>2. call' = [call EXCEPT ![w] = c] /\ StartUpdate(w, p, {}, <<ip>>)
        /\ UNCHANGED <<portVars, registered, dirty, params, untold, faults>>
    BY <1>6 DEF UpdateFixedIps
  <2>. HIDE DEF c
  <2>. QED
    BY <2>1, <2>2, BeginsType
<1>7. ASSUME NEW p \in Ports, NEW r \in Routers, AddInterfaceByPort(w, r, p) PROVE MlTypeInv'
  <2>1. /\ ports[p] # None /\ ports[p] \in Subnets
        /\ owner' = [owner EXCEPT ![p] = "interface"] /\ device' = [device EXCEPT ![p] = r]
        /\ Untold({r}, InstancesOn(ports[p]))
        /\ UNCHANGED <<ports, allocations, tx, call, tagged, changed, registered, dirty, params, faults>>
    BY <1>7 DEF AddInterfaceByPort, Undisturbed, MlTypeInv, IpTypeInv, IpTypeOK
  <2>2. untold' \subseteq Notice
    BY <1>0, <2>1, InstancesType, UntoldType
  <2>3. DriverOK'
    BY <1>0, <2>1, <2>2 DEF DriverOK
  <2>. QED
    BY <1>0, <2>1, <2>3, NoCallStepType DEF DriverOK
<1>8. ASSUME NEW p \in Ports, NEW what \in {"none", "compute"}, UpdateOwner(w, p, what)
      PROVE  MlTypeInv'
  <2>1. /\ ports[p] # None
        /\ owner' = [owner EXCEPT ![p] = what] /\ changed' = changed \cup {p}
        /\ Untold(Attached(ports[p]), {AddressOf(p)})
        /\ UNCHANGED <<ports, allocations, tx, call, device, tagged, registered, dirty, params, faults>>
    BY <1>8 DEF UpdateOwner, Undisturbed
  <2>2. untold' \subseteq Notice
    BY <1>0, <2>1, AddressType, AttachedType, UntoldType
  <2>3. DriverOK'
    BY <1>0, <2>1, <2>2 DEF DriverOK
  <2>. QED
    BY <1>0, <2>1, <2>3, NoCallStepType DEF DriverOK
<1>9. ASSUME NEW p \in Ports, NEW r \in Routers, RouterRequest(w, r, p) PROVE MlTypeInv'
  BY <1>4, <1>5, <1>7, <1>9 DEF RouterRequest
<1>10. ASSUME NEW p \in Ports, UpdatePort(w, p) PROVE MlTypeInv'
  BY <1>6, <1>8, <1>10 DEF UpdatePort
<1>. QED
  BY <1>1, <1>2, <1>3, <1>9, <1>10 DEF MlRequest

\* Steps of the creation of a port, or of its change, keep the types.
LEMMA CreateStepType ==
  ASSUME MlTypeInv, IpTypeInv', NEW w \in Workers, CreateStep(w)
  PROVE  MlTypeInv'
<1>0. /\ DriverOK /\ PortsOK /\ call \in [Workers -> Call] /\ CallOK(call[w], tx[w])
      /\ call[w] \in Call /\ None \notin Routers /\ MaxFaults \in Nat
  BY MlConstants DEF MlTypeInv
<1>1. CASE AllocateAddress(w)
  <2>1. UNCHANGED driverVars /\ Allocate(w)
    BY <1>1 DEF AllocateAddress
  <2>2. CallOK(call[w], tx'[w])
    <3>1. PICK t : t = tx'[w]
      OBVIOUS
    <3>2. /\ tx[w].pc # "idle" /\ t.pc # "idle" /\ t.port = tx[w].port /\ t.op = tx[w].op
          /\ t.freed = tx[w].freed /\ tx[w].todo # <<>>
          /\ t.pc = "rebuilding" => Head(t.todo) = AnyIp
          /\ \/ t.todo = tx[w].todo /\ t.got = tx[w].got
             \/ \E ip : t.todo = <<>> /\ t.got = <<ip>>
      BY <2>1, <3>1, AllocateTx
    <3>3. (t.todo = <<>> /\ Len(t.got) = 1) \/ (t.got = <<>> /\ Len(t.todo) = 1)
      BY <1>0, <3>2 DEF CallOK
    <3>. QED
      BY <1>0, <3>1, <3>2, <3>3 DEF CallOK, InTx
  <2>3. UNCHANGED <<ports, allocations>> /\ \A v \in Workers : v # w => tx'[v] = tx[v]
    BY <2>1, AllocateTx
  <2>4. PortsOK' /\ DriverOK' /\ call' = [call EXCEPT ![w] = call[w]]
    BY <1>0, <2>1, <2>3, SamePorts DEF DriverOK, driverVars, portVars
  <2>. QED
    BY <1>0, <2>2, <2>3, <2>4, StepType
<1>2. CASE Refused(w)
  <2>1. /\ tx' = [tx EXCEPT ![w] = NoTx] /\ UNCHANGED <<ports, allocations>>
        /\ call' = [call EXCEPT ![w] = NoCall]
        /\ UNCHANGED <<portVars, registered, dirty, params, untold, faults>>
    BY <1>2 DEF Refused, RebuildFails, CommitFails, WaitsTooLong
  <2>2. PortsOK' /\ DriverOK'
    BY <1>0, <2>1, SamePorts DEF DriverOK, portVars
  <2>. QED
    BY <2>1, <2>2, EndOthers, NoCallType, StepType
<1>3. CASE CommitCompute(w)
  <2> DEFINE c == [call[w] EXCEPT !.pc = "created"]
  <2>1. /\ Commit(w) /\ call[w].pc = "allocating" /\ call[w].op = "compute"
        /\ owner' = [owner EXCEPT ![call[w].port] = "compute"] /\ call' = [call EXCEPT ![w] = c]
        /\ UNCHANGED <<device, tagged, changed, registered, dirty, params, untold, faults>>
    BY <1>0, <1>3 DEF CommitCompute, Goto
  <2>2. tx'[w] = NoTx /\ \A v \in Workers : v # w => tx'[v] = tx[v]
    BY <2>1, EndOthers DEF Commit
  <2>3. c \in Call /\ c.pc = "created" /\ c.op = "compute" /\ c.port = call[w].port
    BY <1>0, <2>1 DEF Call
  <2>4. PortsOK' /\ DriverOK'
    BY <1>0, <2>1, CommitPorts DEF DriverOK
  <2>. HIDE DEF c
  <2>5. CallOK(c, NoTx)
    BY <1>0, <2>1, <2>3 DEF CallOK, InTx, NoTx
  <2>. QED
    BY <2>1, <2>2, <2>3, <2>4, <2>5, StepType
<1>4. CASE ReadRouters(w)
  <2> DEFINE c == [call[w] EXCEPT !.pc = "saving", !.routers = Attached(ports[call[w].port])]
  <2>1. /\ call[w].pc = "created" /\ call' = [call EXCEPT ![w] = c]
        /\ UNCHANGED <<ipVars, portVars, registered, dirty, params, untold, faults>>
    BY <1>0, <1>4 DEF ReadRouters
  <2>2. c \in Call /\ c.pc = "saving" /\ c.op = call[w].op /\ c.port = call[w].port
    BY <1>0, AttachedType DEF Call
  <2>. HIDE DEF c
  <2>. QED
    BY <1>0, <2>1, <2>2, QuietStepType DEF CallOK, InTx, ipVars, portVars, DriverOK
<1>5. CASE SaveTags(w)
  <2>1. /\ call[w].pc = "saving" /\ call[w].op = "compute" /\ call[w].port \in Ports
        /\ UNCHANGED <<ipVars, owner, device, changed, registered, dirty, params, untold, faults>>
    BY <1>0, <1>5 DEF SaveTags, CallOK
  <2>2. CASE ports[call[w].port] = None
    <3> DEFINE c == [call[w] EXCEPT !.pc = "undo"]
    <3>1. call' = [call EXCEPT ![w] = c] /\ UNCHANGED tagged
      BY <1>0, <1>5, <2>2 DEF SaveTags, Goto
    <3>2. c \in Call /\ c.pc = "undo" /\ c.op = call[w].op /\ c.port = call[w].port
      BY <1>0 DEF Call
    <3>. HIDE DEF c
    <3>. QED
      BY <1>0, <2>1, <3>1, <3>2, QuietStepType DEF CallOK, InTx, ipVars, DriverOK
  <2>3. CASE ports[call[w].port] # None
    <3> DEFINE todo == Notices(call[w].routers, {AddressOf(call[w].port)})
               c == [call[w] EXCEPT !.pc = "registering", !.todo = todo]
    <3>1. call' = [call EXCEPT ![w] = c] /\ tagged' = tagged \cup {call[w].port}
      BY <1>0, <1>5, <2>3 DEF SaveTags
    <3>2. todo \subseteq Notice
      BY <1>0, <2>1, <2>3, AddressType, NoticesType DEF Call
    <3>3. c \in Call /\ c.pc = "registering" /\ c.op = call[w].op /\ c.port = call[w].port
      BY <1>0, <3>2 DEF Call
    <3>. HIDE DEF c
    <3>. QED
      BY <1>0, <2>1, <3>1, <3>3, QuietStepType DEF CallOK, InTx, ipVars, DriverOK
  <2>. QED
    BY <2>2, <2>3
<1>6. CASE ReadPorts(w)
  <2> DEFINE routers == Attached(tx[w].subnet) \cup {call[w].router}
             c == [call[w] EXCEPT !.pc = "registering", !.routers = routers,
                                  !.todo = Notices(routers, TaggedOn(tx[w].subnet))]
  <2>1. /\ call[w].pc = "allocating" /\ call[w].op = "interface" /\ call' = [call EXCEPT ![w] = c]
        /\ UNCHANGED <<ipVars, portVars, registered, dirty, params, untold, faults>>
    BY <1>0, <1>6 DEF ReadPorts
  <2>2. tx[w].subnet \in Subnets /\ call[w].router \in Routers
    BY <1>0, <2>1 DEF CallOK, InTx, MlTypeInv, IpTypeInv, TxOK
  <2>3. routers \in SUBSET Routers
    BY <2>2, AttachedType
  <2>4. Notices(routers, TaggedOn(tx[w].subnet)) \subseteq Notice
    BY <2>2, <2>3, TaggedType, NoticesType
  <2>5. /\ c \in Call /\ c.pc = "registering" /\ c.op = "interface"
        /\ c.port = call[w].port /\ c.router = call[w].router
    BY <1>0, <2>1, <2>3, <2>4 DEF Call
  <2>. HIDE DEF c, routers
  <2>. QED
    BY <1>0, <2>1, <2>5, QuietStepType DEF CallOK, InTx, ipVars, portVars, DriverOK
<1>7. ASSUME NEW committed \in BOOLEAN, Register(w, committed) PROVE MlTypeInv'
  <2>0. committed \/ (faults < MaxFaults /\ call[w].op = "compute")
    BY <1>7 DEF Register
  <2>1. PICK n \in Turn(w) :
          /\ registered' = [registered EXCEPT ![n.router] = @ \cup {n.address}]
          /\ dirty' = IF committed THEN dirty \ {n.router} ELSE dirty \cup {n.router}
          /\ call' = [call EXCEPT ![w].pc = IF committed THEN @ ELSE "undo", ![w].todo = @ \ {n}]
    BY <1>7 DEF Register
  <2>2. /\ call[w].pc = "registering" /\ UNCHANGED <<ipVars, portVars, params, untold>>
        /\ faults' = IF committed THEN faults ELSE faults + 1
    BY <1>7 DEF Register
  <2>3. n \in call[w].todo /\ n \in Notice /\ n.router \in Routers /\ n.address \in Address
    BY <1>0, <2>1 DEF Turn, Call, Notice
  <2> DEFINE c == [call[w] EXCEPT !.pc = IF committed THEN @ ELSE "undo", !.todo = @ \ {n}]
  <2>4. c \in Call /\ c.op = call[w].op /\ c.port = call[w].port /\ c.router = call[w].router
        /\ c.pc = IF committed THEN "registering" ELSE "undo"
    BY <1>0, <2>2 DEF Call
  <2>5. call' = [call EXCEPT ![w] = c]
    BY <1>0, <2>1
  <2>. HIDE DEF c
  <2>6. DriverOK'
    <3>1. registered' \in [Routers -> SUBSET Address] /\ dirty' \subseteq Routers
      BY <1>0, <2>1, <2>3 DEF DriverOK
    <3>2. faults' \in 0..MaxFaults
      BY <1>0, <2>0, <2>2 DEF DriverOK
    <3>. QED
      BY <1>0, <2>2, <3>1, <3>2 DEF DriverOK, portVars
  <2>. QED
    BY <1>0, <2>0, <2>2, <2>4, <2>5, <2>6, QuietStepType DEF CallOK, InTx, ipVars, portVars
<1>8. CASE CreateEnds(w)
  <2>1. /\ call' = [call EXCEPT ![w] = NoCall] /\ UNCHANGED <<ports, allocations, tx>>
        /\ UNCHANGED <<portVars, registered, dirty, params, untold, faults>>
        /\ call[w].pc = "registering" /\ call[w].op = "compute"
    BY <1>8 DEF CreateEnds, Registered, ipVars
  <2>2. tx[w] = NoTx
    BY <1>0, <2>1 DEF CallOK, InTx, MlTypeInv, IpTypeInv, TxOK
  <2>. QED
    BY <1>0, <2>1, <2>2, NoCallType, QuietStepType DEF DriverOK, portVars
<1>9. ASSUME Commit(w), call' = [call EXCEPT ![w] = NoCall], DriverOK',
             \A p \in Ports : p # call[w].port => owner'[p] = owner[p]
      PROVE  MlTypeInv'
  <2>1. tx'[w] = NoTx /\ \A v \in Workers : v # w => tx'[v] = tx[v]
    BY <1>9, EndOthers DEF Commit
  <2>. QED
    BY <1>9, <2>1, CommitPorts, NoCallType, StepType
<1>10. ASSUME NEW what \in {"interface", "gateway"}, BecomesRouterPort(w, what), call[w].op = what,
              NEW routers \in SUBSET Routers, NEW addresses \in SUBSET Address,
              Untold(routers, addresses)
       PROVE  MlTypeInv'
  <2>1. /\ Commit(w) /\ call' = [call EXCEPT ![w] = NoCall]
        /\ owner' = [owner EXCEPT ![call[w].port] = what]
        /\ device' = [device EXCEPT ![call[w].port] = call[w].router]
        /\ UNCHANGED <<tagged, changed, registered, dirty, params, faults>>
    BY <1>10 DEF BecomesRouterPort
  <2>2. call[w].port \in Ports /\ call[w].router \in Routers
    BY <1>0, <1>10, <2>1, CommitOne DEF CallOK
  <2>3. untold' \subseteq Notice
    BY <1>0, <1>10, UntoldType
  <2>4. DriverOK'
    BY <1>0, <2>1, <2>2, <2>3 DEF DriverOK
  <2>. QED
    BY <1>0, <1>9, <2>1, <2>4 DEF DriverOK
<1>11. CASE CommitInterface(w)
  <2>1. BecomesRouterPort(w, "interface") /\ call[w].op = "interface" /\ call[w].routers \in SUBSET Routers
    BY <1>0, <1>11 DEF CommitInterface, Call
  <2>2. tx[w].subnet \in Subnets
    BY <2>1, CommitOne DEF BecomesRouterPort
  <2>3. {AddressOf(p) : p \in {q \in changed : ports[q] = tx[w].subnet}} \in SUBSET Address
    BY <1>0, <2>2, SubnetType DEF DriverOK
  <2>. QED
    BY <1>10, <1>11, <2>1, <2>3 DEF CommitInterface
<1>12. CASE CommitGateway(w)
  <2>1. BecomesRouterPort(w, "gateway") /\ call[w].op = "gateway"
    BY <1>12 DEF CommitGateway
  <2>2. tx[w].subnet \in Subnets /\ {call[w].router} \in SUBSET Routers
    BY <1>0, <2>1, CommitOne DEF BecomesRouterPort, CallOK
  <2>3. InstancesOn(tx[w].subnet) \in SUBSET Address
    BY <2>2, InstancesType
  <2>. QED
    BY <1>10, <1>12, <2>1, <2>2, <2>3 DEF CommitGateway
<1>13. CASE CommitOther(w)
  <2>1. /\ Commit(w) /\ call' = [call EXCEPT ![w] = NoCall]
        /\ UNCHANGED <<portVars, registered, dirty, params, untold, faults>>
    BY <1>13 DEF CommitOther
  <2>. QED
    BY <1>0, <1>9, <2>1 DEF DriverOK, portVars
<1>14. CASE CommitUpdate(w)
  <2> DEFINE addresses == [subnet : {tx[w].subnet}, ip : tx[w].freed \cup Elements(tx[w].got)]
             routers == IF owner[call[w].port] = "compute" THEN Attached(tx[w].subnet) ELSE {}
  <2>1. /\ Commit(w) /\ call' = [call EXCEPT ![w] = NoCall] /\ Untold(routers, addresses)
        /\ UNCHANGED <<portVars, registered, dirty, params, faults>>
    BY <1>14 DEF CommitUpdate
  <2>2. tx[w].subnet \in Subnets /\ tx[w].freed \subseteq Hosts /\ Elements(tx[w].got) \subseteq Hosts
    <3>1. tx[w].freed \subseteq Hosts
      BY DEF MlTypeInv, IpTypeInv, IpTypeOK, Transaction
    <3>. QED
      BY <2>1, <3>1, CommitOne
  <2>3. addresses \in SUBSET Address
    BY <2>2, LastAssumption DEF Address, Hosts, Net
  <2>4. routers \in SUBSET Routers
    BY AttachedType
  <2>. HIDE DEF addresses, routers
  <2>5. untold' \subseteq Notice
    BY <1>0, <2>1, <2>3, <2>4, UntoldType
  <2>. QED
    BY <1>0, <1>9, <2>1, <2>5 DEF DriverOK, portVars
<1>. QED
  BY <1>1, <1>2, <1>3, <1>4, <1>5, <1>6, <1>7, <1>8, <1>11, <1>12, <1>13, <1>14 DEF CreateStep

\* Steps of the deletion of a port keep the types.
LEMMA DeleteStepType ==
  ASSUME MlTypeInv, IpTypeInv', NEW w \in Workers, DeleteStep(w)
  PROVE  MlTypeInv'
<1>0. /\ DriverOK /\ PortsOK /\ call \in [Workers -> Call] /\ CallOK(call[w], tx[w])
      /\ call[w] \in Call /\ None \notin Routers
  BY MlConstants DEF MlTypeInv
<1>1. CASE UndoCreate(w)
  <2>0. /\ call[w].pc = "undo" /\ tx[w] = NoTx /\ call[w].port \in Ports
        /\ UNCHANGED <<ipVars, portVars, registered, dirty, untold, faults>>
    BY <1>0, <1>1 DEF UndoCreate, CallOK, InTx, MlTypeInv, IpTypeInv, TxOK
  <2>1. CASE ports[call[w].port] = None
    BY <1>0, <1>1, <2>0, <2>1, NoCallType, QuietStepType DEF UndoCreate, DriverOK, ipVars, portVars
  <2>2. CASE ports[call[w].port] # None
    <3>1. BeginDelete(w, call[w].port)
      BY <1>1, <2>2 DEF UndoCreate
    <3>2. PICK c \in Call : /\ call' = [call EXCEPT ![w] = c] /\ c.port = call[w].port
                            /\ c.pc = "unregistering" /\ c.op = "delete"
      BY <2>0, <3>1, BeginCall
    <3>3. CallOK(c, tx[w])
      BY <2>0, <3>2 DEF CallOK, InTx, NoTx
    <3>4. params' \subseteq params
      BY <2>0, <3>1, BeginCall
    <3>. QED
      BY <1>0, <2>0, <3>2, <3>3, <3>4, QuietStepType DEF DriverOK, ipVars, portVars
  <2>. QED
    BY <2>1, <2>2
<1>2. CASE Unregister(w)
  <2>1. PICK n \in Turn(w) :
          /\ registered' = [registered EXCEPT ![n.router] = @ \ {n.address}]
          /\ dirty' = dirty \cup {n.router}
          /\ call' = [call EXCEPT ![w].todo = @ \ {n}]
          /\ params' = IF \E m \in call[w].todo \ {n} : m.address = n.address
                         THEN params ELSE call[w].routers
    BY <1>2 DEF Unregister
  <2>2. call[w].pc = "unregistering" /\ UNCHANGED <<ipVars, portVars, untold, faults>>
    BY <1>2 DEF Unregister
  <2>3. n \in call[w].todo /\ n \in Notice /\ n.router \in Routers /\ call[w].routers \subseteq Routers
    BY <1>0, <2>1 DEF Turn, Call, Notice
  <2> DEFINE c == [call[w] EXCEPT !.todo = @ \ {n}]
  <2>4. c \in Call /\ c.op = call[w].op /\ c.port = call[w].port /\ c.router = call[w].router
        /\ c.pc = "unregistering"
    BY <1>0, <2>2 DEF Call
  <2>5. call' = [call EXCEPT ![w] = c]
    BY <1>0, <2>1
  <2>. HIDE DEF c
  <2>6. DriverOK'
    <3>1. registered' \in [Routers -> SUBSET Address] /\ dirty' \subseteq Routers
      BY <1>0, <2>1, <2>3 DEF DriverOK
    <3>2. params' \subseteq Routers
      BY <1>0, <2>1, <2>3 DEF DriverOK
    <3>. QED
      BY <1>0, <2>2, <3>1, <3>2 DEF DriverOK, portVars
  <2>. QED
    BY <1>0, <2>2, <2>4, <2>5, <2>6, QuietStepType DEF CallOK, InTx, ipVars, portVars
<1>3. CASE CommitDelete(w)
  <2> DEFINE c == [call[w] EXCEPT !.pc = "deleted"]
  <2>1. /\ call[w].pc = "unregistering" /\ call' = [call EXCEPT ![w] = c]
        /\ UNCHANGED <<tx, registered, dirty, params, untold, faults>>
        /\ \/ Gone(call[w].port) \/ UNCHANGED <<ports, allocations, portVars>>
    BY <1>0, <1>3 DEF CommitDelete, Goto
  <2>2. c \in Call /\ c.op = call[w].op /\ c.port = call[w].port /\ c.pc = "deleted"
    BY <1>0, <2>1 DEF Call
  <2>. HIDE DEF c
  <2>3. PortsOK'
    BY <1>0, <2>1, SamePorts, GonePorts DEF CallOK, portVars
  <2>4. DriverOK'
    BY <1>0, <2>1 DEF Gone, DriverOK, portVars
  <2>. QED
    BY <1>0, <2>1, <2>2, <2>3, <2>4, StepType DEF CallOK, InTx
<1>4. CASE TakeParams(w)
  <2> DEFINE c == [call[w] EXCEPT !.pc = "committing", !.routers = params]
  <2>1. /\ call[w].pc = "deleted" /\ call' = [call EXCEPT ![w] = c]
        /\ UNCHANGED <<ipVars, portVars, registered, dirty, params, untold, faults>>
    BY <1>0, <1>4 DEF TakeParams
  <2>2. c \in Call /\ c.op = call[w].op /\ c.port = call[w].port /\ c.pc = "committing"
    BY <1>0, <2>1 DEF Call, DriverOK
  <2>. HIDE DEF c
  <2>. QED
    BY <1>0, <2>1, <2>2, QuietStepType DEF CallOK, InTx, DriverOK, ipVars, portVars
<1>5. CASE CommitDevice(w)
  <2>1. PICK r \in call[w].routers :
          dirty' = dirty \ {r} /\ call' = [call EXCEPT ![w].routers = @ \ {r}]
    BY <1>5 DEF CommitDevice
  <2> DEFINE c == [call[w] EXCEPT !.routers = @ \ {r}]
  <2>2. /\ call[w].pc = "committing" /\ call' = [call EXCEPT ![w] = c]
        /\ UNCHANGED <<ipVars, portVars, registered, params, untold, faults>>
    BY <1>0, <1>5, <2>1 DEF CommitDevice
  <2>3. c \in Call /\ c.op = call[w].op /\ c.port = call[w].port /\ c.pc = "committing"
    BY <1>0, <2>2 DEF Call
  <2>. HIDE DEF c
  <2>4. CallOK(c, tx[w])
    BY <1>0, <2>2, <2>3 DEF CallOK, InTx
  <2>5. DriverOK'
    BY <1>0, <2>1, <2>2 DEF DriverOK, portVars
  <2>. QED
    BY <2>2, <2>3, <2>4, <2>5, QuietStepType DEF ipVars, portVars
<1>6. CASE DeleteEnds(w)
  <2>1. /\ call[w].pc = "committing" /\ tx[w] = NoTx /\ params' = {}
        /\ UNCHANGED <<ipVars, portVars, registered, dirty, untold, faults>>
    BY <1>0, <1>6 DEF DeleteEnds, CallOK, InTx, MlTypeInv, IpTypeInv, TxOK
  <2>2. CASE call[w].router = None
    <3>1. call' = [call EXCEPT ![w] = NoCall]
      BY <1>6, <2>2 DEF DeleteEnds
    <3>. QED
      BY <1>0, <2>1, <3>1, NoCallType, QuietStepType DEF DriverOK, ipVars, portVars
  <2>3. CASE call[w].router # None
    <3> DEFINE c == [call[w] EXCEPT !.pc = "removing"]
    <3>1. call' = [call EXCEPT ![w] = c]
      BY <1>6, <2>3 DEF DeleteEnds
    <3>2. c \in Call /\ c.op = call[w].op /\ c.port = call[w].port /\ c.pc = "removing"
          /\ c.router \in Routers
      BY <1>0, <2>1, <2>3 DEF Call
    <3>. HIDE DEF c
    <3>. QED
      BY <1>0, <2>1, <3>1, <3>2, QuietStepType DEF CallOK, InTx, DriverOK, ipVars, portVars
  <2>. QED
    BY <2>2, <2>3
<1>7. CASE CommitRemoval(w)
  <2> DEFINE p == call[w].port
             routers == IF owner[p] = "gateway" THEN {call[w].router}
                                                ELSE Attached(ports[p]) \ {call[w].router}
  <2>1. /\ call[w].pc = "removing" /\ tx[w] = NoTx /\ Gone(p) /\ Untold(routers, InstancesOn(ports[p]))
        /\ call' = [call EXCEPT ![w] = NoCall] /\ UNCHANGED <<tx, registered, dirty, params, faults>>
    BY <1>0, <1>7 DEF CommitRemoval, CallOK, InTx, MlTypeInv, IpTypeInv, TxOK
  <2>2. p \in Ports /\ ports[p] \in Subnets \cup {None} /\ call[w].router \in Routers
    BY <1>0, <2>1 DEF CallOK, MlTypeInv, IpTypeInv, IpTypeOK
  <2>3. InstancesOn(ports[p]) \in SUBSET Address
    BY <2>2, InstancesType
  <2>4. routers \in SUBSET Routers
    BY <2>2, AttachedType
  <2>. HIDE DEF p, routers
  <2>5. untold' \subseteq Notice
    BY <1>0, <2>1, <2>3, <2>4, UntoldType
  <2>6. PortsOK'
    BY <2>1, <2>2, GonePorts
  <2>7. DriverOK'
    BY <1>0, <2>1, <2>5 DEF Gone, DriverOK
  <2>. QED
    BY <2>1, <2>6, <2>7, NoCallType, StepType
<1>. QED
  BY <1>1, <1>2, <1>3, <1>4, <1>5, <1>6, <1>7 DEF DeleteStep

\* So do failures.
LEMMA FailsType ==
  ASSUME MlTypeInv, IpTypeInv', NEW w \in Workers, Fails(w)
  PROVE  MlTypeInv'
<1>0. /\ DriverOK /\ PortsOK /\ call \in [Workers -> Call] /\ CallOK(call[w], tx[w])
      /\ call[w] \in Call
  BY DEF MlTypeInv
<1>1. /\ tx' = [tx EXCEPT ![w] = NoTx] /\ UNCHANGED <<ports, allocations>>
      /\ call' = [call EXCEPT ![w] = AfterFailure(call[w])] /\ MayFail(call[w])
      /\ UNCHANGED <<portVars, registered, dirty, params, untold>>
      /\ faults < MaxFaults /\ faults' = faults + 1
  BY DEF Fails
<1>2. AfterFailure(call[w]) \in Call /\ CallOK(AfterFailure(call[w]), NoTx)
  <2>1. CASE call[w].op = "compute"
    <3> DEFINE c == [call[w] EXCEPT !.pc = "undo", !.todo = {}]
    <3>1. c \in Call /\ c.pc = "undo" /\ c.op = call[w].op /\ c.port = call[w].port
      BY <1>0 DEF Call
    <3>2. AfterFailure(call[w]) = c
      BY <2>1 DEF AfterFailure
    <3>3. call[w].port \in Ports
      BY <1>0, <1>1 DEF CallOK, MayFail
    <3>. HIDE DEF c
    <3>. QED
      BY <2>1, <3>1, <3>2, <3>3 DEF CallOK, InTx, NoTx
  <2>2. CASE call[w].pc = "committing" /\ call[w].router # None
    <3> DEFINE c == [call[w] EXCEPT !.pc = "removing", !.routers = {}]
    <3>1. c \in Call /\ c.pc = "removing" /\ c.op = call[w].op /\ c.port = call[w].port
          /\ c.router \in Routers
      BY <1>0, <2>2 DEF Call
    <3>2. AfterFailure(call[w]) = c
      BY <1>0, <2>2 DEF AfterFailure, CallOK
    <3>. HIDE DEF c
    <3>. QED
      BY <1>0, <2>2, <3>1, <3>2 DEF CallOK, InTx, NoTx
  <2>3. CASE call[w].op # "compute" /\ ~(call[w].pc = "committing" /\ call[w].router # None)
    BY <2>3, NoCallType DEF AfterFailure
  <2>. QED
    BY <2>1, <2>2, <2>3
<1>3. PortsOK' /\ DriverOK'
  BY <1>0, <1>1, SamePorts, MlConstants DEF DriverOK, portVars
<1>. QED
  BY <1>1, <1>2, <1>3, EndOthers, StepType

\* Every step keeps the types.
LEMMA MlNextType == MlTypeInv /\ [MlNext]_mlVars => MlTypeInv'
<1>. SUFFICES ASSUME MlTypeInv, [MlNext]_mlVars PROVE MlTypeInv'
  OBVIOUS
<1>1. IpTypeInv'
  BY IpPartType
<1>2. CASE UNCHANGED mlVars
  <2>1. UNCHANGED <<ports, allocations, tx, portVars, registered, dirty, params, call, untold, faults>>
    BY <1>2 DEF mlVars, ipVars, driverVars
  <2>. QED
    BY <1>1, <2>1, NoCallStepType DEF MlTypeInv, DriverOK, portVars
<1>. QED
  BY <1>1, <1>2, MlRequestType, CreateStepType, DeleteStepType, FailsType DEF MlNext

\* The types hold at the start.
LEMMA MlInitType == MlInit => MlTypeInv
<1>1. MlInit => PortsOK
  BY DEF MlInit, IpInit, PortsOK
<1>2. MlInit => DriverOK
  BY MlConstants DEF MlInit, DriverOK
<1>3. MlInit => call \in [Workers -> Call] /\ \A w \in Workers : CallOK(call[w], tx[w])
  BY NoCallType DEF MlInit, IpInit
<1>. QED
  BY <1>1, <1>2, <1>3, InitType DEF MlInit, MlTypeInv

\* Every behaviour keeps the types, however many workers run at once and whatever fails:
\* a port that is there has an address of its network, so what the devices are told to
\* register or to drop is always an address.
THEOREM PortsTypeCorrect == MlSpec => []MlTypeOK
<1>1. MlSpec => []MlTypeInv
  BY MlInitType, MlNextType, PTL DEF MlSpec
<1>. QED
  BY <1>1, TypeOfInv, PTL

-----------------------------------------------------------------------------
(* An address has one port, and what the ranges say, with ML2 on top.      *)

\* A port that is being deleted is not given another address.
Apart ==
  \A v, w \in Workers : Deleting(call[v]) /\ tx[w].op = "update" => tx[w].port # call[v].port

\* A deletion goes on, or begins with a port no transaction is for.
LEMMA DeletingBefore ==
  ASSUME MlTypeInv, NEW u \in Workers,
         MlRequest(u) \/ CreateStep(u) \/ DeleteStep(u) \/ Fails(u), Deleting(call'[u])
  PROVE  \/ Deleting(call[u]) /\ call'[u].port = call[u].port
         \/ UNCHANGED tx /\ ~Busy(call'[u].port)
<1>0. /\ call \in [Workers -> Call] /\ call[u] \in Call /\ CallOK(call[u], tx[u])
      /\ ~Deleting(NoCall) /\ None \notin Routers
  BY MlConstants DEF MlTypeInv, Deleting, NoCall
<1>1. ASSUME NEW p \in Ports, BeginDelete(u, p), UNCHANGED tx PROVE UNCHANGED tx /\ ~Busy(call'[u].port)
  <2>1. PICK c \in Call : call' = [call EXCEPT ![u] = c] /\ c.port = p
    BY <1>1, BeginCall
  <2>2. call'[u].port = p
    BY <1>0, <2>1
  <2>3. ~Busy(p)
    BY <1>1 DEF BeginDelete, Deletable
  <2>. QED
    BY <1>1, <2>2, <2>3
<1>2. CASE MlRequest(u)
  <2>1. CASE \E p \in Ports : Delete(u, p)
    BY <1>1, <2>1 DEF Delete
  <2>2. CASE UNCHANGED call
    BY <2>2
  <2>3. CASE call'[u].pc = "allocating" /\ call'[u].op # "delete"
    BY <2>3 DEF Deleting
  <2>4. ASSUME NEW p \in Ports, NEW r \in Routers, RouterRequest(u, r, p)
        PROVE  UNCHANGED call \/ (call'[u].pc = "allocating" /\ call'[u].op # "delete")
    BY <1>0, <2>4 DEF RouterRequest, AddInterfaceByPort, AddInterface, SetGateway, NoCall
  <2>5. ASSUME NEW p \in Ports, UpdatePort(u, p)
        PROVE  UNCHANGED call \/ (call'[u].pc = "allocating" /\ call'[u].op # "delete")
    BY <1>0, <2>5 DEF UpdatePort, UpdateFixedIps, UpdateOwner, NoCall
  <2>6. ASSUME NEW p, NEW s, NEW op \in {"compute", "other"}, NEW ip, CreatePort(u, op, p, s, ip)
        PROVE  call'[u].pc = "allocating" /\ call'[u].op # "delete"
    BY <1>0, <2>6 DEF CreatePort, NoCall
  <2>7. ASSUME NEW s \in Subnets, SubnetRequest(u, s) PROVE UNCHANGED call
    BY <2>7 DEF SubnetRequest, driverVars
  <2>. QED
    BY <1>2, <2>1, <2>2, <2>3, <2>4, <2>5, <2>6, <2>7 DEF MlRequest
<1>3. CASE CreateStep(u)
  <2>1. CASE call'[u] = NoCall \/ call'[u] = call[u]
    BY <1>0, <2>1
  <2>2. AllocateAddress(u) \/ Refused(u) \/ CreateEnds(u) \/ CommitInterface(u) \/ CommitOther(u)
          \/ CommitGateway(u) \/ CommitUpdate(u) => call'[u] = NoCall \/ call'[u] = call[u]
    BY <1>0 DEF AllocateAddress, driverVars, Refused, CreateEnds, CommitInterface, CommitOther,
       CommitGateway, CommitUpdate, BecomesRouterPort
  <2>3. CASE CommitCompute(u) \/ ReadRouters(u) \/ SaveTags(u) \/ ReadPorts(u)
    BY <1>0, <2>3 DEF CommitCompute, ReadRouters, SaveTags, ReadPorts, Goto, Call, CallOK, Deleting
  <2>4. CASE Register(u, TRUE) \/ Register(u, FALSE)
    BY <1>0, <2>4 DEF Register, Call, CallOK, Deleting
  <2>. QED
    BY <1>3, <2>1, <2>2, <2>3, <2>4 DEF CreateStep
<1>4. CASE DeleteStep(u)
  <2>1. CASE UndoCreate(u)
    <3>1. call[u].port \in Ports
      BY <1>0, <2>1 DEF UndoCreate, CallOK
    <3>2. call'[u] = NoCall \/ (BeginDelete(u, call[u].port) /\ UNCHANGED tx)
      BY <1>0, <2>1 DEF UndoCreate, ipVars
    <3>. QED
      BY <1>0, <1>1, <3>1, <3>2
  <2>2. CASE Unregister(u) \/ CommitDelete(u) \/ TakeParams(u) \/ CommitDevice(u)
    BY <1>0, <2>2 DEF Unregister, CommitDelete, TakeParams, CommitDevice, Goto, Call, CallOK, Deleting
  <2>3. CASE DeleteEnds(u)
    BY <1>0, <2>3 DEF DeleteEnds, Call, CallOK, Deleting
  <2>4. CASE CommitRemoval(u)
    BY <1>0, <2>4 DEF CommitRemoval
  <2>. QED
    BY <1>4, <2>1, <2>2, <2>3, <2>4 DEF DeleteStep
<1>5. CASE Fails(u)
  <2>1. call'[u] = AfterFailure(call[u])
    BY <1>0, <1>5 DEF Fails
  <2>. QED
    BY <1>0, <2>1 DEF AfterFailure, Call, CallOK, Deleting
<1>. QED
  BY <1>2, <1>3, <1>4, <1>5

\* A transaction that gives a port another address goes on, or begins with one that is
\* not being deleted.
LEMMA UpdatingBefore ==
  ASSUME MlTypeInv, NEW u \in Workers,
         MlRequest(u) \/ CreateStep(u) \/ DeleteStep(u) \/ Fails(u), tx'[u].op = "update"
  PROVE  \/ tx[u].op = "update" /\ tx'[u].port = tx[u].port
         \/ Undisturbed(tx'[u].port) /\ ~Deleting(call'[u])
<1>0. /\ tx \in [Workers -> Transaction] /\ NoTx.op # "update" /\ call \in [Workers -> Call]
  BY DEF MlTypeInv, IpTypeInv, IpTypeOK, NoTx
<1>1. CASE MlRequest(u)
  <2>1. ASSUME NEW p \in Ports, NEW s \in Subnets, NEW ip, StartCreate(u, p, s, <<ip>>) PROVE FALSE
    BY <2>1, StartOne
  <2>2. ASSUME NEW p \in Ports, UpdatePort(u, p)
        PROVE  \/ UNCHANGED tx
               \/ Undisturbed(tx'[u].port) /\ ~Deleting(call'[u])
    <3>1. ASSUME NEW ip, UpdateFixedIps(u, p, ip) PROVE Undisturbed(tx'[u].port) /\ ~Deleting(call'[u])
      <4>1. tx'[u].port = p
        BY <3>1, StartAnother DEF UpdateFixedIps
      <4>2. ~Deleting(call'[u])
        BY <1>0, <3>1 DEF UpdateFixedIps, Deleting, NoCall
      <4>. QED
        BY <3>1, <4>1, <4>2 DEF UpdateFixedIps
    <3>2. ASSUME NEW what, UpdateOwner(u, p, what) PROVE UNCHANGED tx
      BY <3>2 DEF UpdateOwner
    <3>. QED
      BY <2>2, <3>1, <3>2 DEF UpdatePort
  <2>3. ASSUME NEW p \in Ports, NEW r \in Routers, RouterRequest(u, r, p) PROVE UNCHANGED tx
    BY <2>1, <2>3 DEF RouterRequest, AddInterfaceByPort, AddInterface, SetGateway
  <2>4. ASSUME NEW s \in Subnets, SubnetRequest(u, s) PROVE UNCHANGED tx
    BY <2>4 DEF SubnetRequest, CreateSubnet, DeleteSubnet
  <2>5. ASSUME NEW p \in Ports, Delete(u, p) PROVE UNCHANGED tx
    BY <2>5 DEF Delete
  <2>. QED
    BY <1>1, <2>1, <2>2, <2>3, <2>4, <2>5 DEF MlRequest, CreatePort
<1>2. CASE CreateStep(u)
  <2>1. CASE Allocate(u)
    BY <2>1, AllocateTx
  <2>2. CASE tx' = [tx EXCEPT ![u] = NoTx] \/ UNCHANGED tx
    BY <1>0, <2>2
  <2>. QED
    BY <1>2, <2>1, <2>2 DEF CreateStep, AllocateAddress, Refused, RebuildFails, CommitFails,
       WaitsTooLong, CommitCompute, ReadRouters, SaveTags, ReadPorts, Register, CreateEnds,
       CommitInterface, CommitOther, CommitGateway, CommitUpdate, BecomesRouterPort, Commit, ipVars
<1>3. CASE DeleteStep(u)
  BY <1>3 DEF DeleteStep, UndoCreate, Unregister, CommitDelete, TakeParams, CommitDevice,
     DeleteEnds, CommitRemoval, ipVars
<1>4. CASE Fails(u)
  BY <1>0, <1>4 DEF Fails
<1>. QED
  BY <1>1, <1>2, <1>3, <1>4

\* What one worker does leaves the calls and transactions of the others.
LEMMA OthersStay ==
  ASSUME MlTypeInv, NEW u \in Workers,
         MlRequest(u) \/ CreateStep(u) \/ DeleteStep(u) \/ Fails(u),
         NEW v \in Workers, v # u
  PROVE  call'[v] = call[v] /\ tx'[v] = tx[v]
<1>0. call \in [Workers -> Call] /\ tx \in [Workers -> Transaction]
  BY DEF MlTypeInv, IpTypeInv, IpTypeOK
<1>1. ASSUME NEW p \in Ports, NEW s \in Subnets, NEW ip, StartCreate(u, p, s, <<ip>>)
      PROVE  tx'[v] = tx[v]
  BY <1>0, <1>1 DEF StartCreate, Begin
<1>2. ASSUME NEW p \in Ports, NEW ip, StartUpdate(u, p, {}, <<ip>>) PROVE tx'[v] = tx[v]
  BY <1>0, <1>2 DEF StartUpdate, Begin
<1>3. ASSUME NEW p \in Ports, BeginDelete(u, p) PROVE call'[v] = call[v]
  BY <1>0, <1>3 DEF BeginDelete
<1>4. CASE MlRequest(u)
  <2>1. ASSUME NEW p \in Ports, UpdatePort(u, p) PROVE call'[v] = call[v] /\ tx'[v] = tx[v]
    BY <1>0, <1>2, <2>1 DEF UpdatePort, UpdateFixedIps, UpdateOwner
  <2>2. ASSUME NEW p \in Ports, NEW r \in Routers, RouterRequest(u, r, p)
        PROVE  call'[v] = call[v] /\ tx'[v] = tx[v]
    BY <1>0, <1>1, <2>2 DEF RouterRequest, AddInterfaceByPort, AddInterface, SetGateway
  <2>3. ASSUME NEW s \in Subnets, SubnetRequest(u, s) PROVE call'[v] = call[v] /\ tx'[v] = tx[v]
    BY <2>3 DEF SubnetRequest, CreateSubnet, DeleteSubnet, driverVars
  <2>4. ASSUME NEW p \in Ports, Delete(u, p) PROVE call'[v] = call[v] /\ tx'[v] = tx[v]
    BY <1>3, <2>4 DEF Delete
  <2>5. ASSUME NEW p \in Ports, NEW s \in Subnets, NEW op, NEW ip, CreatePort(u, op, p, s, ip)
        PROVE  call'[v] = call[v] /\ tx'[v] = tx[v]
    BY <1>0, <1>1, <2>5 DEF CreatePort
  <2>. QED
    BY <1>4, <2>1, <2>2, <2>3, <2>4, <2>5 DEF MlRequest
<1>5. CASE CreateStep(u)
  <2>1. CASE AllocateAddress(u)
    BY <2>1, AllocateTx DEF AllocateAddress, driverVars
  <2>2. CASE Refused(u)
    BY <1>0, <2>2 DEF Refused, RebuildFails, CommitFails, WaitsTooLong
  <2>3. CASE CommitCompute(u) \/ CommitInterface(u) \/ CommitOther(u) \/ CommitGateway(u) \/ CommitUpdate(u)
    BY <1>0, <2>3 DEF CommitCompute, CommitInterface, CommitOther, CommitGateway, CommitUpdate,
       BecomesRouterPort, Commit, Goto
  <2>4. CASE ReadRouters(u) \/ SaveTags(u) \/ ReadPorts(u) \/ CreateEnds(u)
    BY <1>0, <2>4 DEF ReadRouters, SaveTags, ReadPorts, CreateEnds, Goto, ipVars
  <2>5. CASE Register(u, TRUE) \/ Register(u, FALSE)
    BY <1>0, <2>5 DEF Register, ipVars
  <2>. QED
    BY <1>5, <2>1, <2>2, <2>3, <2>4, <2>5 DEF CreateStep
<1>6. CASE DeleteStep(u)
  BY <1>0, <1>3, <1>6 DEF DeleteStep, UndoCreate, Unregister, CommitDelete, TakeParams,
     CommitDevice, DeleteEnds, CommitRemoval, Goto, ipVars, MlTypeInv, CallOK
<1>7. CASE Fails(u)
  BY <1>0, <1>7 DEF Fails
<1>. QED
  BY <1>4, <1>5, <1>6, <1>7

\* Every step keeps the two apart.
LEMMA NextApart ==
  ASSUME MlTypeInv, Apart, [MlNext]_mlVars
  PROVE  Apart'
<1>1. CASE UNCHANGED mlVars
  BY <1>1 DEF mlVars, ipVars, driverVars, Apart
<1>2. ASSUME NEW u \in Workers, MlRequest(u) \/ CreateStep(u) \/ DeleteStep(u) \/ Fails(u)
      PROVE  Apart'
  <2>. SUFFICES ASSUME NEW v \in Workers, NEW w \in Workers,
                       Deleting(call'[v]), tx'[w].op = "update"
                PROVE  tx'[w].port # call'[v].port
    BY DEF Apart, Deleting
  <2>1. \/ Deleting(call[v]) /\ call'[v].port = call[v].port
        \/ v = u /\ UNCHANGED tx /\ ~Busy(call'[v].port)
    BY <1>2, DeletingBefore, OthersStay
  <2>2. \/ tx[w].op = "update" /\ tx'[w].port = tx[w].port
        \/ w = u /\ Undisturbed(tx'[w].port) /\ ~Deleting(call'[u])
    BY <1>2, UpdatingBefore, OthersStay
  <2>3. CASE v = u /\ UNCHANGED tx /\ ~Busy(call'[v].port)
    BY <2>3 DEF Busy
  <2>4. CASE w = u /\ Undisturbed(tx'[w].port) /\ ~Deleting(call'[u])
    <3>1. v # u /\ call'[v] = call[v]
      BY <1>2, <2>4, OthersStay
    <3>2. call[v].op = "delete"
      BY <3>1 DEF Deleting, MlTypeInv, CallOK
    <3>. QED
      BY <2>4, <3>1, <3>2 DEF Undisturbed
  <2>. QED
    BY <2>1, <2>2, <2>3, <2>4 DEF Apart
<1>. QED
  BY <1>1, <1>2 DEF MlNext

\* A port that goes was in no transaction that has something of it.
LEMMA RemoveUnique ==
  ASSUME MlTypeInv, AddressInv, IpTypeInv', NEW p, RemovePort(p), UNCHANGED tx,
         \A v \in Workers : tx[v].op = "update" => tx[v].port # p
  PROVE  AddressInv'
<1>1. /\ ports' = [ports EXCEPT ![p] = None]
      /\ allocations' = {a \in allocations : a.port # p}
  BY DEF RemovePort
<1>2. ASSUME NEW v \in Workers PROVE TxOfPort(tx[v])'
  <2>1. CASE tx[v].pc = "idle"
    <3>1. tx[v] = NoTx
      BY <2>1 DEF AddressInv, IpTypeInv, TxOK
    <3>. QED
      BY <3>1 DEF TxOfPort, NoTx
  <2>2. CASE tx[v].pc # "idle" /\ tx[v].op = "create"
    <3>1. tx[v].op = "create" /\ tx[v].freed = {} /\ tx[v].port \in Ports
      BY <2>2 DEF MlTypeInv, CallOK, AddressInv, IpTypeInv, TxOK
    <3>2. ports[tx[v].port] = None
      BY <3>1 DEF AddressInv, TxOfPort
    <3>. QED
      BY <1>1, <3>1, <3>2 DEF TxOfPort, AddressInv, IpTypeInv, IpTypeOK
  <2>3. CASE tx[v].pc # "idle" /\ tx[v].op = "update"
    <3>1. tx[v].port # p /\ tx[v].port \in Ports
      BY <2>3 DEF AddressInv, IpTypeInv, TxOK
    <3>2. TxOfPort(tx[v]) /\ ports \in [Ports -> Subnets \cup {None}]
      BY DEF AddressInv, IpTypeInv, IpTypeOK
    <3>. QED
      BY <1>1, <2>3, <3>1, <3>2 DEF TxOfPort
  <2>4. tx[v].pc # "idle" => tx[v].op \in {"create", "update"}
    BY DEF MlTypeInv, CallOK
  <2>. QED
    BY <2>1, <2>2, <2>3, <2>4
<1>3. \A a \in allocations' : ports'[a.port] = a.subnet
  BY <1>1 DEF AddressInv, IpTypeInv, IpTypeOK
<1>. QED
  BY <1>1, <1>2, <1>3 DEF AddressInv, OneTxPerPort, AddressHasOnePort

\* The invariant of ports: their types, their addresses, and what keeps requests apart.
PortsInv == MlTypeInv /\ AddressInv /\ Apart

\* Every step keeps it.
LEMMA NextPorts == PortsInv /\ [MlNext]_mlVars => PortsInv'
<1>. SUFFICES ASSUME MlTypeInv, AddressInv, Apart, [MlNext]_mlVars PROVE PortsInv'
  BY DEF PortsInv
<1>0. MlTypeInv' /\ IpTypeInv' /\ Apart'
  BY MlNextType, IpPartType, NextApart
<1>1. CASE [IpNext]_ipVars
  BY <1>0, <1>1, NextUnique DEF PortsInv
<1>2. CASE UNCHANGED <<subnets, ranges, allocations, ports, tx>>
  BY <1>0, <1>2 DEF PortsInv, AddressInv, OneTxPerPort, TxOfPort, AddressHasOnePort
<1>3. ASSUME NEW w \in Workers, tx' = [tx EXCEPT ![w] = NoTx],
             UNCHANGED <<subnets, ranges, allocations, ports, requests>>
      PROVE  PortsInv'
  BY <1>0, <1>3, EndUnique DEF PortsInv
<1>4. ASSUME NEW w \in Workers, Deleting(call[w]), RemovePort(call[w].port), UNCHANGED tx
      PROVE  PortsInv'
  BY <1>0, <1>4, RemoveUnique DEF PortsInv, Apart
<1>. QED
  BY <1>1, <1>2, <1>3, <1>4, IpPart DEF OtherStep

\* It holds at the start.
LEMMA InitPorts == MlInit => PortsInv
<1>1. MlInit => Apart
  BY DEF MlInit, IpInit, Apart, NoTx
<1>. QED
  BY <1>1, MlInitType, InitUnique DEF MlInit, PortsInv

\* No two ports of a network ever have one address, in every interleaving of the requests
\* of ML2: creations whose second part fails and is undone, interfaces whose transaction
\* stays open while devices are called, ports that are given another address, deletions
\* that stop half way.
THEOREM PortAddressUnique == MlSpec => []AddressHasOnePort
<1>1. MlSpec => []PortsInv
  BY InitPorts, NextPorts, PTL DEF MlSpec
<1>. QED
  BY <1>1, PTL DEF PortsInv, AddressInv

\* The invariant of RangesAreFree, when no port is in two transactions.
MlRangesInv == PortsInv /\ RangesInv

\* One request at a time: every step keeps it.
LEMMA MlNextRanges ==
  ASSUME Serial, MlRangesInv, [MlNext]_mlVars
  PROVE  MlRangesInv'
<1>0. PortsInv' /\ AddressInv' /\ MlTypeInv /\ RangesInv
  BY NextPorts DEF MlRangesInv, PortsInv
<1>1. CASE [IpNext]_ipVars
  BY <1>0, <1>1, NextRanges DEF MlRangesInv
<1>2. CASE UNCHANGED <<subnets, ranges, allocations, ports, tx>>
  <2>1. \A w \in Workers : FreeView(w)'
    BY <1>0, <1>2 DEF RangesInv, FreeView, View, AllocationsSeen, Allocated, PoolOf,
                      Disjoint, Covered, Elements
  <2>. QED
    BY <1>0, <1>2, <2>1 DEF MlRangesInv, RangesInv, RangesAreFree, PoolOf, Allocated, Disjoint
<1>3. ASSUME NEW w \in Workers, tx[w].pc = "idle", NEW p, RemovePort(p),
             UNCHANGED <<subnets, ranges, tx, requests>>
      PROVE  MlRangesInv'
  <2>1. allocations' \subseteq allocations
    BY <1>3 DEF RemovePort
  <2>2. \A v \in Workers : FreeView(v)'
    BY <1>3 DEF Serial, FreeView
  <2>3. \A q \in Subnets : Allocated(q)' \subseteq Allocated(q) /\ PoolOf(q)' = PoolOf(q)
    BY <1>3, <2>1 DEF Allocated, PoolOf
  <2>4. \A q \in Subnets : Covered(ranges[q]) \subseteq PoolOf(q) \ Allocated(q)
    BY <1>0 DEF RangesInv, RangesAreFree
  <2>5. \A q \in Subnets : /\ Covered(ranges'[q]) \subseteq PoolOf(q)' \ Allocated(q)'
                           /\ ~subnets'[q].here => Allocated(q)' = {}
    BY <1>0, <1>3, <2>3, <2>4 DEF RangesInv
  <2>. QED
    BY <1>0, <1>3, <2>2, <2>5 DEF MlRangesInv, RangesInv, RangesAreFree, Disjoint
<1>4. ASSUME NEW w \in Workers, tx' = [tx EXCEPT ![w] = NoTx],
             UNCHANGED <<subnets, ranges, allocations, ports, requests>>
      PROVE  MlRangesInv'
  BY <1>0, <1>4, EndRanges DEF MlRangesInv
<1>. QED
  BY <1>0, <1>1, <1>2, <1>3, <1>4, IpPart DEF OtherStep

\* It holds from the start on.
LEMMA MlRangesAlways ==
  ASSUME Serial
  PROVE  MlSpec => []MlRangesInv
<1>1. MlInit => MlRangesInv
  BY InitPorts, InitRanges DEF MlInit, MlRangesInv
<1>. QED
  BY <1>1, MlNextRanges, PTL DEF MlSpec

\* One request at a time: the ranges of a subnet lie in its pools, do not overlap, and have
\* no address that a port has, also when a creation is undone after its commit and when
\* the transaction of an interface is rolled back after its address was taken.
THEOREM PortRangesAreFree ==
  ASSUME Serial
  PROVE  MlSpec => []RangesAreFree
<1>1. MlRangesInv => RangesAreFree
  BY DEF MlRangesInv, RangesInv
<1>. QED
  BY <1>1, MlRangesAlways, PTL

\* One request at a time: a port is refused an address only when every address of the
\* pools is taken.
THEOREM PortRefusedMeansFull ==
  ASSUME Serial
  PROVE  MlSpec => RefusedMeansFull
<1>1. MlRangesInv /\ [MlNext]_mlVars
        => [\A w \in Workers :
              RebuildFails(w)
                => PoolOf(tx[w].subnet) \subseteq Allocated(tx[w].subnet) \cup Elements(tx[w].got)]_ipVars
  BY RefusedFull DEF MlRangesInv
<1>. QED
  BY <1>1, MlRangesAlways, PTL DEF MlSpec, RefusedMeansFull

-----------------------------------------------------------------------------
(* What devices are told is committed, one request at a time.              *)

\* One request at a time.
OneWorker == \E w \in Workers : Workers = {w}

\* What is not committed yet, as far as the call of a worker is: nothing but on the devices
\* of a deletion, which are all in params once the last address is done.
Uncommitted(c) ==
  faults = 0 =>
    /\ c.pc = "unregistering" => /\ dirty \subseteq c.routers
                                 /\ \A n \in c.todo : n.router \in c.routers
                                 /\ c.todo = {} => dirty \subseteq params
    /\ c.pc = "deleted" => dirty \subseteq params
    /\ c.pc = "committing" => dirty \subseteq c.routers
    /\ c.pc \notin {"unregistering", "deleted", "committing"} => dirty = {}

\* The inductive invariant of NothingUncommitted.
UncommittedInv == MlTypeInv /\ \A w \in Workers : Uncommitted(call[w])

\* Every step keeps it.
LEMMA NextUncommitted ==
  ASSUME OneWorker, UncommittedInv, [MlNext]_mlVars
  PROVE  UncommittedInv'
<1>0. MlTypeInv' /\ MlTypeInv
  BY MlNextType DEF UncommittedInv
<1>1. CASE UNCHANGED mlVars
  BY <1>0, <1>1 DEF mlVars, driverVars, UncommittedInv, Uncommitted
<1>. SUFFICES ASSUME NEW w \in Workers, MlRequest(w) \/ CreateStep(w) \/ DeleteStep(w) \/ Fails(w)
              PROVE  Uncommitted(call[w])'
  BY <1>0, <1>1 DEF MlNext, OneWorker, UncommittedInv
<1>2. /\ Uncommitted(call[w]) /\ call \in [Workers -> Call] /\ call[w] \in Call
      /\ CallOK(call[w], tx[w]) /\ faults \in Nat
  BY <1>0, MlConstants DEF UncommittedInv, MlTypeInv, DriverOK
<1>3. ASSUME UNCHANGED <<dirty, faults>>, call[w].pc \notin {"unregistering", "deleted", "committing"},
             call'[w].pc \notin {"unregistering", "deleted", "committing"}
      PROVE  Uncommitted(call[w])'
  BY <1>2, <1>3 DEF Uncommitted
<1>4. ASSUME NEW p \in Ports, BeginDelete(w, p), UNCHANGED <<dirty, faults>>,
             call[w].pc \notin {"unregistering", "deleted", "committing"}
      PROVE  Uncommitted(call[w])'
  <2>1. /\ call'[w].pc = "unregistering"
        /\ \E addresses : call'[w].todo = Notices(call'[w].routers, addresses)
    BY <1>2, <1>4 DEF BeginDelete, NoCall
  <2>2. \A n \in call'[w].todo : n.router \in call'[w].routers
    BY <2>1 DEF Notices
  <2>. QED
    BY <1>2, <1>4, <2>1, <2>2 DEF Uncommitted
<1>5. CASE MlRequest(w)
  <2>1. CASE \E p \in Ports : Delete(w, p)
    BY <1>2, <1>4, <2>1 DEF Delete, Idle
  <2>2. CASE UNCHANGED <<call, dirty, params, faults>>
    BY <1>2, <2>2 DEF Uncommitted
  <2>3. CASE Idle(w) /\ call'[w].pc = "allocating" /\ UNCHANGED <<dirty, faults>>
    BY <1>3, <2>3 DEF Idle
  <2>4. ASSUME NEW p \in Ports, NEW r \in Routers, RouterRequest(w, r, p)
        PROVE  \/ UNCHANGED <<call, dirty, params, faults>>
               \/ Idle(w) /\ call'[w].pc = "allocating" /\ UNCHANGED <<dirty, faults>>
    BY <1>2, <2>4 DEF RouterRequest, AddInterfaceByPort, AddInterface, SetGateway, NoCall
  <2>5. ASSUME NEW p \in Ports, UpdatePort(w, p)
        PROVE  \/ UNCHANGED <<call, dirty, params, faults>>
               \/ Idle(w) /\ call'[w].pc = "allocating" /\ UNCHANGED <<dirty, faults>>
    BY <1>2, <2>5 DEF UpdatePort, UpdateFixedIps, UpdateOwner, NoCall
  <2>6. ASSUME NEW s \in Subnets, SubnetRequest(w, s) PROVE UNCHANGED <<call, dirty, params, faults>>
    BY <2>6 DEF SubnetRequest, driverVars
  <2>7. ASSUME NEW p, NEW s, NEW op, NEW ip, CreatePort(w, op, p, s, ip)
        PROVE  Idle(w) /\ call'[w].pc = "allocating" /\ UNCHANGED <<dirty, faults>>
    BY <1>2, <2>7 DEF CreatePort, NoCall
  <2>. QED
    BY <1>5, <2>1, <2>2, <2>3, <2>4, <2>5, <2>6, <2>7 DEF MlRequest
<1>6. CASE CreateStep(w)
  <2>1. CASE AllocateAddress(w)
    BY <1>2, <2>1 DEF AllocateAddress, driverVars, Uncommitted
  <2>2. CASE Refused(w)
    <3>1. tx[w].pc # "idle"
      BY <2>2 DEF Refused, RebuildFails, CommitFails, WaitsTooLong, Done
    <3>. QED
      BY <1>2, <1>3, <2>2, <3>1 DEF Refused, NoCall, CallOK, InTx
  <2>3. CASE \/ CommitCompute(w) \/ ReadRouters(w) \/ SaveTags(w) \/ ReadPorts(w) \/ CreateEnds(w)
             \/ CommitInterface(w) \/ CommitOther(w) \/ CommitGateway(w) \/ CommitUpdate(w)
    BY <1>2, <1>3, <2>3 DEF CommitCompute, ReadRouters, SaveTags, ReadPorts, CreateEnds,
       CommitInterface, CommitOther, CommitGateway, CommitUpdate, BecomesRouterPort, Goto,
       Registered, NoCall, Call
  <2>4. CASE Register(w, TRUE)
    BY <1>2, <2>4 DEF Register, Uncommitted, Call
  <2>5. CASE Register(w, FALSE)
    BY <1>2, <2>5 DEF Register, Uncommitted
  <2>. QED
    BY <1>6, <2>1, <2>2, <2>3, <2>4, <2>5 DEF CreateStep
<1>7. CASE DeleteStep(w)
  <2>1. CASE UndoCreate(w)
    BY <1>2, <1>3, <1>4, <2>1 DEF UndoCreate, NoCall, CallOK
  <2>2. CASE Unregister(w)
    <3>1. PICK n \in Turn(w) :
            /\ dirty' = dirty \cup {n.router}
            /\ call' = [call EXCEPT ![w].todo = @ \ {n}]
            /\ params' = IF \E m \in call[w].todo \ {n} : m.address = n.address
                           THEN params ELSE call[w].routers
      BY <2>2 DEF Unregister
    <3>2. n \in call[w].todo /\ call[w].pc = "unregistering" /\ faults' = faults
      BY <2>2 DEF Turn, Unregister
    <3>3. /\ call'[w].pc = "unregistering" /\ call'[w].routers = call[w].routers
          /\ call'[w].todo = call[w].todo \ {n}
      BY <1>2, <3>1, <3>2 DEF Call
    <3>. QED
      BY <1>2, <3>1, <3>2, <3>3 DEF Uncommitted
  <2>3. CASE CommitDelete(w)
    BY <1>2, <2>3 DEF CommitDelete, Goto, Uncommitted, Call
  <2>4. CASE TakeParams(w)
    BY <1>2, <2>4 DEF TakeParams, Uncommitted, Call
  <2>5. CASE CommitDevice(w)
    BY <1>2, <2>5 DEF CommitDevice, Uncommitted, Call
  <2>6. CASE DeleteEnds(w)
    BY <1>2, <2>6 DEF DeleteEnds, Uncommitted, Call, NoCall
  <2>7. CASE CommitRemoval(w)
    BY <1>2, <1>3, <2>7 DEF CommitRemoval, NoCall
  <2>. QED
    BY <1>7, <2>1, <2>2, <2>3, <2>4, <2>5, <2>6, <2>7 DEF DeleteStep
<1>8. CASE Fails(w)
  BY <1>2, <1>8 DEF Fails, Uncommitted
<1>. QED
  BY <1>5, <1>6, <1>7, <1>8

\* One request at a time, for any network: when no call failed, whatever the devices were
\* told is committed once the request is over: the devices of a deletion get from its
\* transaction to its postcommit.
THEOREM SerialCommitted ==
  ASSUME OneWorker
  PROVE  MlSpec => []NothingUncommitted
<1>1. MlInit => UncommittedInv
  BY MlInitType DEF MlInit, UncommittedInv, Uncommitted, NoCall
<1>2. MlSpec => []UncommittedInv
  BY <1>1, NextUncommitted, PTL DEF MlSpec
<1>3. UncommittedInv => NothingUncommitted
  BY DEF OneWorker, UncommittedInv, Uncommitted, NothingUncommitted, Quiet, Idle
<1>. QED
  BY <1>2, <1>3, PTL

-----------------------------------------------------------------------------
(* What a call knows of ports and routers, one request at a time.          *)

\* Ports of routers have a device, and a router has one port on a network; a port with
\* tags is an instance's, unless that was changed.
Home ==
  /\ \A p \in Ports : ports[p] = None => device[p] = None
  /\ \A p \in Ports : device[p] # None <=> owner[p] \in {"interface", "gateway"}
  /\ \A p \in tagged : ports[p] # None /\ (p \notin changed => owner[p] = "compute")
  /\ \A p, q \in Ports : device[p] # None /\ device[p] = device[q] /\ ports[p] = ports[q] => p = q

\* An interface that registers the ports of its network will not be refused.
Joining(c, t) ==
  /\ t.pc = "allocating" /\ t.todo = <<>>
  /\ Elements(t.got) \cap Allocated(t.subnet) = {} /\ Distinct(t.got)
  /\ c.routers = Attached(t.subnet) \cup {c.router}
  /\ c.todo \subseteq Notices(c.routers, TaggedOn(t.subnet))

\* A compute port that is told to the devices.
Telling(c) ==
  /\ c.routers = Attached(ports[c.port]) /\ c.port \in tagged
  /\ c.todo \subseteq Notices(c.routers, {AddressOf(c.port)})

\* A port that is deleted: its address, or those of its network, are dropped.
Dropping(c) ==
  \A n \in c.todo : \/ n.address = AddressOf(c.port)
                    \/ owner[c.port] = "interface" /\ n.address.subnet = ports[c.port]

\* What was read when the call began is still so.
About(c, t) ==
  /\ InTx(c) /\ c.op \in {"interface", "gateway"}
       => c.router \notin Attached(t.subnet) /\ subnets[t.subnet].here
  /\ InTx(c) /\ c.pc = "registering" => Joining(c, t)
  /\ c.op = "compute" /\ ~InTx(c) => ports[c.port] # None /\ owner[c.port] = "compute"
  /\ c.pc = "saving" => c.routers = Attached(ports[c.port])
  /\ c.pc = "registering" /\ ~InTx(c) => Telling(c)
  /\ InTx(c) /\ c.op = "update" => t.freed = AddressesOf(c.port)
  /\ Deleting(c) => ports[c.port] # None /\ device[c.port] = c.router
  /\ c.pc = "unregistering" => Dropping(c)
  /\ c.pc \in {"deleted", "committing", "removing"} => c.todo = {}

\* The invariant of ports and calls.
HomeInv ==
  /\ PortsInv
  /\ Home
  /\ \A w \in Workers : About(call[w], tx[w])

\* What stays when ports, addresses, devices and tags do.
LEMMA SameTables ==
  ASSUME UNCHANGED <<ports, allocations, device, tagged>>
  PROVE  /\ \A s : Attached(s)' = Attached(s) /\ TaggedOn(s)' = TaggedOn(s)
                   /\ Allocated(s)' = Allocated(s)
         /\ \A p : AddressOf(p)' = AddressOf(p) /\ AddressesOf(p)' = AddressesOf(p)
BY DEF Attached, TaggedOn, Allocated, AddressOf, AddressesOf

\* The routers of a network are those that some port there is of.
LEMMA AttachedMeans ==
  ASSUME DriverOK, NEW s
  PROVE  /\ Attached(s) \subseteq Routers
         /\ \A r \in Routers : r \in Attached(s) <=> \E i \in Ports : device[i] = r /\ ports[i] = s
BY MlConstants DEF DriverOK, Attached

\* A call goes on with what it knows, when a step leaves the tables.
LEMMA SameAbout ==
  ASSUME HomeInv, NEW w \in Workers, UNCHANGED <<subnets, ports, allocations, portVars, tx>>,
         About(call'[w], tx[w])
  PROVE  Home' /\ About(call[w], tx[w])'
<1>1. PICK c, t : c = call'[w] /\ t = tx[w]
  OBVIOUS
<1>2. UNCHANGED <<ports, allocations, owner, device, tagged, changed>>
  BY DEF portVars
<1>3. Joining(c, t)' = Joining(c, t) /\ Telling(c)' = Telling(c) /\ Dropping(c)' = Dropping(c)
  BY <1>2, SameTables DEF Joining, Telling, Dropping
<1>4. About(c, t)'
  BY <1>1, <1>2, <1>3, SameTables DEF About
<1>5. Home'
  BY <1>2 DEF HomeInv, Home
<1>. QED
  BY <1>1, <1>4, <1>5

\* A call that has ended is about nothing.
LEMMA AboutNothing ==
  ASSUME NEW w \in Workers, call'[w] = NoCall
  PROVE  About(call[w], tx[w])'
BY DEF About, NoCall, InTx, Deleting

\* What a commit leaves of the other ports, and what it makes of its own.
LEMMA CommitOthers ==
  ASSUME PortsInv, NEW w \in Workers, Commit(w), NEW p, p = call[w].port
  PROVE  /\ p \in Ports /\ ports'[p] = tx[w].subnet /\ tx[w].subnet \in Subnets
         /\ call[w].op # "update" => ports[p] = None
         /\ call[w].op = "update" => ports' = ports /\ ports[p] = tx[w].subnet
         /\ \A q \in Ports : q # p => /\ ports'[q] = ports[q] /\ AddressesOf(q)' = AddressesOf(q)
                                      /\ AddressOf(q)' = AddressOf(q)
         /\ AddressesOf(p)' \subseteq (AddressesOf(p) \ tx[w].freed) \cup Elements(tx[w].got)
         /\ UNCHANGED subnets
<1>0. MlTypeInv /\ AddressInv /\ ports \in [Ports -> Subnets \cup {None}]
  BY DEF PortsInv, MlTypeInv, IpTypeInv, IpTypeOK
<1>1. PICK ip : /\ Elements(tx[w].got) = {ip}
                /\ allocations' = {a \in allocations : ~(a.port = p /\ a.ip \in tx[w].freed)}
                                    \cup {[subnet |-> tx[w].subnet, ip |-> ip, port |-> p]}
  <2>1. \E ip \in Hosts :
          /\ tx[w].got = <<ip>> /\ Elements(tx[w].got) = {ip}
          /\ allocations' = {a \in allocations : ~(a.port = call[w].port /\ a.ip \in tx[w].freed)}
                              \cup {[subnet |-> tx[w].subnet, ip |-> ip, port |-> call[w].port]}
    BY <1>0, CommitOne
  <2>. QED
    BY <2>1, Zenon
<1>2. /\ p \in Ports /\ tx[w].subnet \in Subnets /\ ports' = [ports EXCEPT ![p] = tx[w].subnet]
      /\ tx[w].port = p /\ InTx(call[w]) /\ UNCHANGED subnets
  BY <1>0, CommitOne
<1>3. TxOfPort(tx[w]) /\ CallOK(call[w], tx[w])
  BY <1>0 DEF AddressInv, MlTypeInv
<1>4. call[w].op # "update" => ports[p] = None
  BY <1>2, <1>3 DEF TxOfPort, CallOK
<1>5. call[w].op = "update" => ports' = ports /\ ports[p] = tx[w].subnet
  BY <1>0, <1>2, <1>3 DEF TxOfPort, CallOK
<1>6. ASSUME NEW q \in Ports, q # p
      PROVE  /\ ports'[q] = ports[q] /\ AddressesOf(q)' = AddressesOf(q)
             /\ AddressOf(q)' = AddressOf(q)
  <2>1. {a \in allocations' : a.port = q} = {a \in allocations : a.port = q}
    BY <1>1, <1>6
  <2>2. ports'[q] = ports[q] /\ AddressesOf(q)' = AddressesOf(q)
    BY <1>0, <1>2, <1>6, <2>1 DEF AddressesOf
  <2>. QED
    BY <2>2 DEF AddressOf
<1>7. AddressesOf(p)' \subseteq (AddressesOf(p) \ tx[w].freed) \cup Elements(tx[w].got)
  BY <1>1 DEF AddressesOf
<1>. QED
  BY <1>0, <1>2, <1>4, <1>5, <1>6, <1>7

\* What a port that goes leaves of the others.
LEMMA GoneOthers ==
  ASSUME HomeInv, NEW p \in Ports, Gone(p), ports[p] # None
  PROVE  /\ ports'[p] = None /\ owner'[p] = "none" /\ device'[p] = None
         /\ tagged' = tagged \ {p} /\ changed' = changed \ {p}
         /\ \A q \in Ports : q # p => /\ ports'[q] = ports[q] /\ AddressOf(q)' = AddressOf(q)
                                      /\ owner'[q] = owner[q] /\ device'[q] = device[q]
         /\ \A s \in Subnets : Attached(s)' = IF s = ports[p] THEN Attached(s) \ {device[p]}
                                                             ELSE Attached(s)
<1>1. ports \in [Ports -> Subnets \cup {None}] /\ DriverOK
  BY DEF HomeInv, PortsInv, MlTypeInv, IpTypeInv, IpTypeOK
<1>2. /\ ports'[p] = None /\ owner'[p] = "none" /\ device'[p] = None
      /\ tagged' = tagged \ {p} /\ changed' = changed \ {p}
  BY <1>1 DEF Gone, RemovePort, DriverOK
<1>3. ASSUME NEW q \in Ports, q # p
      PROVE  /\ ports'[q] = ports[q] /\ AddressOf(q)' = AddressOf(q)
             /\ owner'[q] = owner[q] /\ device'[q] = device[q]
  <2>1. {a \in allocations' : a.port = q} = {a \in allocations : a.port = q}
    BY <1>3 DEF Gone, RemovePort
  <2>2. ports'[q] = ports[q] /\ owner'[q] = owner[q] /\ device'[q] = device[q]
    BY <1>1, <1>3 DEF Gone, RemovePort, DriverOK
  <2>. QED
    BY <2>1, <2>2 DEF AddressOf, AddressesOf
<1>4. ASSUME NEW s \in Subnets
      PROVE  Attached(s)' = IF s = ports[p] THEN Attached(s) \ {device[p]} ELSE Attached(s)
  <2>1. Attached(s) = {device[i] : i \in {j \in Ports : ports[j] = s}} \ {None}
    BY DEF Attached
  <2>2. Attached(s)' = {device'[i] : i \in {j \in Ports : ports'[j] = s}} \ {None}
    BY DEF Attached
  <2>3. {j \in Ports : ports'[j] = s} = {j \in Ports : ports[j] = s} \ {p}
    BY <1>1, <1>2, <1>3, <1>4, IpNoneAssumption
  <2>4. Attached(s)' = {device[i] : i \in {j \in Ports : ports[j] = s} \ {p}} \ {None}
    BY <1>3, <2>2, <2>3
  <2>5. \A i, j \in Ports : device[i] # None /\ device[i] = device[j] /\ ports[i] = ports[j] => i = j
    BY DEF HomeInv, Home
  <2>. QED
    BY <2>1, <2>4, <2>5
<1>. QED
  BY <1>2, <1>3, <1>4

\* The routers of a network stay, unless a port becomes a router's.
LEMMA KeepAttached ==
  ASSUME HomeInv, NEW w \in Workers, Commit(w), UNCHANGED device
  PROVE  \A s \in Subnets : Attached(s)' = Attached(s)
<1>. SUFFICES ASSUME NEW s \in Subnets PROVE Attached(s)' = Attached(s)
  OBVIOUS
<1>1. PICK p : p = call[w].port
  OBVIOUS
<1>2. /\ p \in Ports /\ \A q \in Ports : q # p => ports'[q] = ports[q]
      /\ call[w].op # "update" => ports[p] = None
      /\ call[w].op = "update" => ports' = ports
  BY <1>1, CommitOthers DEF HomeInv
<1>3. CASE call[w].op = "update"
  BY <1>2, <1>3 DEF Attached
<1>4. CASE ports[p] = None /\ device[p] = None
  <2>1. \A i \in Ports : device[i] # None => (ports'[i] = s <=> ports[i] = s)
    BY <1>2, <1>4
  <2>. QED
    BY <2>1 DEF Attached
<1>. QED
  BY <1>2, <1>3, <1>4 DEF HomeInv, Home

\* When one does, its network gets the router.
LEMMA JoinAttached ==
  ASSUME HomeInv, NEW w \in Workers, NEW what \in {"interface", "gateway"},
         BecomesRouterPort(w, what), call[w].op = what
  PROVE  /\ Commit(w) /\ call[w].router \in Routers
         /\ \A s \in Subnets : Attached(s)' = IF s = tx[w].subnet
                                                THEN Attached(s) \cup {call[w].router} ELSE Attached(s)
<1>1. PICK p, r : p = call[w].port /\ r = call[w].router
  OBVIOUS
<1>2. Commit(w) /\ device' = [device EXCEPT ![p] = r] /\ DriverOK
  BY <1>1 DEF BecomesRouterPort, HomeInv, PortsInv, MlTypeInv
<1>3. /\ p \in Ports /\ \A q \in Ports : q # p => ports'[q] = ports[q]
      /\ ports[p] = None /\ ports'[p] = tx[w].subnet
  BY <1>1, <1>2, CommitOthers DEF HomeInv
<1>4. r \in Routers /\ None \notin Routers
  BY <1>1, MlConstants DEF HomeInv, PortsInv, MlTypeInv, CallOK
<1>5. device[p] = None /\ device'[p] = r /\ \A q \in Ports : q # p => device'[q] = device[q]
  BY <1>2, <1>3 DEF HomeInv, Home, DriverOK
<1>6. ASSUME NEW s \in Subnets
      PROVE  Attached(s)' = IF s = tx[w].subnet THEN Attached(s) \cup {r} ELSE Attached(s)
  <2>1. Attached(s) = {device[i] : i \in {j \in Ports : ports[j] = s}} \ {None}
    BY DEF Attached
  <2>2. Attached(s)' = {device'[i] : i \in {j \in Ports : ports'[j] = s}} \ {None}
    BY DEF Attached
  <2>3. CASE s = tx[w].subnet
    <3>1. {j \in Ports : ports'[j] = s} = {j \in Ports : ports[j] = s} \cup {p}
      BY <1>3, <2>3
    <3>. QED
      BY <1>3, <1>4, <1>5, <2>1, <2>2, <2>3, <3>1, IpNoneAssumption
  <2>4. CASE s # tx[w].subnet
    <3>1. {j \in Ports : ports'[j] = s} = {j \in Ports : ports[j] = s}
      BY <1>3, <2>4, IpNoneAssumption
    <3>2. p \notin {j \in Ports : ports[j] = s}
      BY <1>3, IpNoneAssumption
    <3>. QED
      BY <1>3, <1>5, <2>1, <2>2, <2>4, <3>1, <3>2
  <2>. QED
    BY <2>3, <2>4
<1>. QED
  BY <1>1, <1>2, <1>4, <1>6

\* A deletion begins with what the tables say.
LEMMA BeginAbout ==
  ASSUME HomeInv, NEW w \in Workers, NEW p \in Ports, BeginDelete(w, p),
         UNCHANGED <<subnets, ports, allocations, portVars, tx>>
  PROVE  Home' /\ About(call[w], tx[w])'
<1>0. call \in [Workers -> Call] /\ MlTypeInv /\ ports[p] # None /\ ports[p] \in Subnets
  BY BeginCall, IpNoneAssumption DEF HomeInv, PortsInv, MlTypeInv
<1>1. PICK c \in Call, addresses \in SUBSET Address :
        /\ call' = [call EXCEPT ![w] = c]
        /\ c.pc = "unregistering" /\ c.op = "delete" /\ c.port = p /\ c.router = device[p]
        /\ c.todo = Notices(Attached(ports[p]), addresses)
        /\ owner[p] = "compute" => addresses = {AddressOf(p)}
        /\ owner[p] = "interface" => addresses = TaggedOn(ports[p])
        /\ owner[p] \notin {"compute", "interface"} => addresses = {}
  BY <1>0, BeginCall
<1>2. \A n \in c.todo : n.address \in addresses
  BY <1>1 DEF Notices
<1>3. Dropping(c)
  BY <1>0, <1>1, <1>2, TaggedType DEF Dropping
<1>4. About(c, tx[w])
  BY <1>0, <1>1, <1>3 DEF About, InTx, Deleting
<1>5. call'[w] = c
  BY <1>0, <1>1
<1>. QED
  BY <1>4, <1>5, SameAbout

\* Requests begin with what the tables say.
LEMMA RequestHome ==
  ASSUME HomeInv, NEW w \in Workers, MlRequest(w)
  PROVE  Home' /\ About(call[w], tx[w])'
<1>0. /\ call \in [Workers -> Call] /\ DriverOK /\ CallOK(call[w], tx[w]) /\ MlTypeInv /\ Home
      /\ call[w].pc = "idle" => call[w] = NoCall
  BY DEF HomeInv, PortsInv, MlTypeInv, CallOK
<1>1. ASSUME UNCHANGED <<ports, portVars>> PROVE Home'
  BY <1>0, <1>1 DEF Home, portVars
<1>2. ASSUME NEW s \in Subnets, SubnetRequest(w, s) PROVE Home' /\ About(call[w], tx[w])'
  <2>1. UNCHANGED <<ports, portVars, call>> /\ call[w].pc = "idle"
    BY <1>2 DEF SubnetRequest, CreateSubnet, DeleteSubnet, driverVars, Idle
  <2>. QED
    BY <1>0, <1>1, <2>1, AboutNothing
<1>3. ASSUME NEW p \in Ports, Delete(w, p) PROVE Home' /\ About(call[w], tx[w])'
  BY <1>3, BeginAbout DEF Delete, ipVars
<1>4. ASSUME NEW p \in Ports, NEW s \in Subnets, NEW op \in {"compute", "other"}, NEW ip,
             CreatePort(w, op, p, s, ip)
      PROVE  Home' /\ About(call[w], tx[w])'
  <2>1. UNCHANGED <<ports, portVars>> /\ call'[w].pc = "allocating" /\ call'[w].op = op
    BY <1>0, <1>4 DEF CreatePort, StartCreate, NoCall
  <2>. QED
    BY <1>1, <2>1 DEF About, InTx, Deleting
<1>5. ASSUME NEW p \in Ports, NEW s \in Subnets, NEW r \in Routers, NEW ip, StartCreate(w, p, s, <<ip>>),
             call'[w].pc = "allocating", call'[w].op \in {"interface", "gateway"}, call'[w].router = r,
             r \notin Attached(s), UNCHANGED portVars
      PROVE  Home' /\ About(call[w], tx[w])'
  <2>1. /\ UNCHANGED <<subnets, ports, allocations>> /\ subnets[s].here /\ tx'[w].subnet = s
    BY <1>0, <1>5, StartOne DEF StartCreate
  <2>2. Attached(s)' = Attached(s)
    BY <1>5, <2>1 DEF Attached, portVars
  <2>. QED
    BY <1>1, <1>5, <2>1, <2>2 DEF About, InTx, Deleting
<1>6. ASSUME NEW p \in Ports, NEW s \in Subnets, NEW r \in Routers,
             AddInterface(w, r, p, s) \/ SetGateway(w, r, p, s)
      PROVE  Home' /\ About(call[w], tx[w])'
  <2>1. /\ call'[w].pc = "allocating" /\ call'[w].op \in {"interface", "gateway"}
        /\ call'[w].router = r /\ r \notin Attached(s) /\ UNCHANGED portVars
        /\ \E ip : StartCreate(w, p, s, <<ip>>)
    BY <1>0, <1>6 DEF AddInterface, SetGateway, NoCall
  <2>. QED
    BY <1>5, <2>1
<1>7. ASSUME NEW p \in Ports, NEW ip, UpdateFixedIps(w, p, ip) PROVE Home' /\ About(call[w], tx[w])'
  <2>1. /\ StartUpdate(w, p, {}, <<ip>>) /\ UNCHANGED portVars
        /\ call'[w].pc = "allocating" /\ call'[w].op = "update" /\ call'[w].port = p
    BY <1>0, <1>7 DEF UpdateFixedIps, NoCall
  <2>2. tx'[w].freed = AddressesOf(p) /\ UNCHANGED <<ports, allocations>>
    BY <1>0, <2>1, StartAnother
  <2>3. AddressesOf(p)' = AddressesOf(p)
    BY <2>2 DEF AddressesOf
  <2>. QED
    BY <1>1, <2>1, <2>2, <2>3 DEF About, InTx, Deleting
<1>8. ASSUME NEW p \in Ports, NEW r \in Routers, AddInterfaceByPort(w, r, p)
      PROVE  Home' /\ About(call[w], tx[w])'
  <2>1. /\ ports[p] # None /\ owner[p] = "none" /\ r \notin Attached(ports[p])
        /\ owner' = [owner EXCEPT ![p] = "interface"] /\ device' = [device EXCEPT ![p] = r]
        /\ UNCHANGED <<ports, tagged, changed, call>> /\ call[w].pc = "idle"
    BY <1>8 DEF AddInterfaceByPort, Undisturbed, Idle
  <2>2. r # None /\ \A q \in Ports : device[q] = r => ports[q] # ports[p]
    BY <1>0, <2>1, AttachedMeans, MlConstants
  <2>3. Home'
    BY <1>0, <2>1, <2>2 DEF Home, DriverOK
  <2>. QED
    BY <1>0, <2>1, <2>3, AboutNothing
<1>9. ASSUME NEW p \in Ports, NEW what \in {"none", "compute"}, UpdateOwner(w, p, what)
      PROVE  Home' /\ About(call[w], tx[w])'
  <2>1. /\ ports[p] # None /\ owner[p] \in {"none", "compute"}
        /\ owner' = [owner EXCEPT ![p] = what] /\ changed' = changed \cup {p}
        /\ UNCHANGED <<ports, tagged, device, call>> /\ call[w].pc = "idle"
    BY <1>9 DEF UpdateOwner, Undisturbed, Idle
  <2>2. Home'
    BY <1>0, <2>1 DEF Home, DriverOK
  <2>. QED
    BY <1>0, <2>1, <2>2, AboutNothing
<1>10. ASSUME NEW p \in Ports, NEW r \in Routers, RouterRequest(w, r, p)
       PROVE  Home' /\ About(call[w], tx[w])'
  BY <1>6, <1>8, <1>10 DEF RouterRequest
<1>11. ASSUME NEW p \in Ports, UpdatePort(w, p) PROVE Home' /\ About(call[w], tx[w])'
  BY <1>7, <1>9, <1>11 DEF UpdatePort
<1>. QED
  BY <1>2, <1>3, <1>4, <1>10, <1>11 DEF MlRequest

\* An allocation goes on for the subnet it is for.
LEMMA AllocateAbout ==
  ASSUME HomeInv, NEW w \in Workers, AllocateAddress(w)
  PROVE  /\ Home' /\ About(call[w], tx[w])' /\ call[w].pc = "allocating"
         /\ UNCHANGED <<ports, allocations, driverVars>>
<1>1. Allocate(w) /\ UNCHANGED driverVars /\ MlTypeInv
  BY DEF AllocateAddress, HomeInv, PortsInv
<1>2. /\ UNCHANGED <<subnets, ports, allocations>> /\ tx[w].todo # <<>> /\ tx[w].pc # "idle"
      /\ tx'[w].subnet = tx[w].subnet /\ tx'[w].freed = tx[w].freed
  BY <1>1, AllocateTx
<1>3. PICK c, t, u : c = call[w] /\ t = tx[w] /\ u = tx'[w]
  OBVIOUS
<1>4. /\ About(c, t) /\ CallOK(c, t) /\ call'[w] = c /\ u.subnet = t.subnet /\ u.freed = t.freed
      /\ t.todo # <<>> /\ t.pc # "idle"
  BY <1>1, <1>2, <1>3 DEF HomeInv, MlTypeInv, driverVars
<1>5. c.pc = "allocating"
  BY <1>4 DEF CallOK, About, InTx, Joining
<1>6. \A s : Attached(s)' = Attached(s) /\ \A p : AddressesOf(p)' = AddressesOf(p)
  BY <1>1, <1>2 DEF Attached, AddressesOf, driverVars, portVars
<1>7. About(c, u)'
  BY <1>2, <1>4, <1>5, <1>6 DEF About, InTx, CallOK, Deleting
<1>8. Home'
  BY <1>1, <1>2 DEF HomeInv, Home, driverVars, portVars
<1>. QED
  BY <1>1, <1>2, <1>3, <1>4, <1>5, <1>7, <1>8

\* So do the steps of a creation.
LEMMA CreateHome ==
  ASSUME HomeInv, NEW w \in Workers, CreateStep(w)
  PROVE  Home' /\ About(call[w], tx[w])'
<1>0. /\ call \in [Workers -> Call] /\ call[w] \in Call /\ DriverOK /\ PortsOK
      /\ CallOK(call[w], tx[w]) /\ About(call[w], tx[w]) /\ MlTypeInv /\ Home
  BY DEF HomeInv, PortsInv, MlTypeInv
<1>1. CASE AllocateAddress(w)
  BY <1>1, AllocateAbout
<1>2. CASE Refused(w)
  <2>1. call'[w] = NoCall /\ UNCHANGED <<ports, portVars>>
    BY <1>0, <1>2 DEF Refused, RebuildFails, CommitFails, WaitsTooLong
  <2>. QED
    BY <1>0, <2>1, AboutNothing DEF Home, portVars
<1>3. CASE CommitCompute(w)
  <2>1. PICK p : p = call[w].port
    OBVIOUS
  <2>2. /\ Commit(w) /\ call[w].op = "compute" /\ owner' = [owner EXCEPT ![p] = "compute"]
        /\ call'[w] = [call[w] EXCEPT !.pc = "created"]
        /\ UNCHANGED <<device, tagged, changed>>
    BY <1>0, <1>3, <2>1 DEF CommitCompute, Goto
  <2>3. /\ call'[w].pc = "created" /\ call'[w].op = "compute" /\ call'[w].port = p
    BY <1>0, <2>1, <2>2 DEF Call
  <2>4. /\ p \in Ports /\ ports[p] = None /\ ports'[p] # None
        /\ \A q \in Ports : q # p => ports'[q] = ports[q]
    BY <2>1, <2>2, CommitOthers, IpNoneAssumption DEF HomeInv
  <2>5. Home'
    BY <1>0, <2>2, <2>4 DEF Home, DriverOK
  <2>6. owner'[p] = "compute"
    BY <1>0, <2>2, <2>4 DEF DriverOK
  <2>. QED
    BY <2>3, <2>4, <2>5, <2>6 DEF About, InTx, Deleting
<1>4. CASE ReadRouters(w)
  <2>1. /\ call[w].pc = "created" /\ UNCHANGED <<subnets, ports, allocations, portVars, tx>>
        /\ call'[w] = [call[w] EXCEPT !.pc = "saving", !.routers = Attached(ports[call[w].port])]
    BY <1>0, <1>4 DEF ReadRouters, ipVars
  <2>2. /\ call'[w].pc = "saving" /\ call'[w].op = call[w].op /\ call'[w].port = call[w].port
        /\ call'[w].routers = Attached(ports[call[w].port])
    BY <1>0, <2>1 DEF Call
  <2>3. About(call'[w], tx[w])
    BY <1>0, <2>1, <2>2 DEF About, InTx, Deleting, CallOK
  <2>. QED
    BY <2>1, <2>3, SameAbout
<1>5. CASE SaveTags(w)
  <2>1. PICK p : p = call[w].port
    OBVIOUS
  <2>2. /\ call[w].pc = "saving" /\ p \in Ports /\ ports[p] # None /\ owner[p] = "compute"
        /\ call[w].op = "compute" /\ call[w].routers = Attached(ports[p])
    BY <1>0, <1>5, <2>1 DEF SaveTags, About, CallOK, InTx
  <2>3. /\ tagged' = tagged \cup {p} /\ UNCHANGED <<ipVars, owner, device, changed>>
        /\ call'[w] = [call[w] EXCEPT !.pc = "registering",
                                      !.todo = Notices(call[w].routers, {AddressOf(p)})]
    BY <1>0, <1>5, <2>1, <2>2 DEF SaveTags
  <2>4. /\ call'[w].pc = "registering" /\ call'[w].op = "compute" /\ call'[w].port = p
        /\ call'[w].routers = call[w].routers /\ call'[w].todo = Notices(call[w].routers, {AddressOf(p)})
    BY <1>0, <2>1, <2>2, <2>3 DEF Call
  <2>5. UNCHANGED <<ports, allocations>> /\ AddressOf(p)' = AddressOf(p) /\ Attached(ports[p])' = Attached(ports[p])
    BY <2>3 DEF ipVars, AddressOf, AddressesOf, Attached
  <2>6. Home'
    BY <1>0, <2>2, <2>3, <2>5 DEF Home
  <2>7. Telling(call[w])'
    BY <2>2, <2>3, <2>4, <2>5 DEF Telling
  <2>. QED
    BY <2>2, <2>3, <2>4, <2>5, <2>6, <2>7 DEF About, InTx, Deleting
<1>6. CASE ReadPorts(w)
  <2>1. PICK c, t : c = call'[w] /\ t = tx[w]
    OBVIOUS
  <2> DEFINE routers == Attached(t.subnet) \cup {call[w].router}
  <2>2. /\ call[w].pc = "allocating" /\ call[w].op = "interface" /\ Done(w) /\ KeysAreFree(w)
        /\ UNCHANGED <<subnets, ports, allocations, portVars, tx>>
        /\ c = [call[w] EXCEPT !.pc = "registering", !.routers = routers,
                               !.todo = Notices(routers, TaggedOn(t.subnet))]
    BY <1>0, <1>6, <2>1 DEF ReadPorts, ipVars
  <2>3. /\ c.pc = "registering" /\ c.op = "interface" /\ c.router = call[w].router
        /\ c.routers = routers /\ c.todo = Notices(routers, TaggedOn(t.subnet))
    BY <1>0, <2>2 DEF Call
  <2>4. /\ c.router \notin Attached(t.subnet) /\ subnets[t.subnet].here /\ t.freed = {}
    BY <1>0, <2>1, <2>2, <2>3 DEF About, InTx, CallOK
  <2>5. /\ t.pc = "allocating" /\ t.todo = <<>> /\ Distinct(t.got)
        /\ Elements(t.got) \cap Allocated(t.subnet) = {}
    BY <2>1, <2>2, <2>4 DEF Done, KeysAreFree
  <2>6. Joining(c, t)
    BY <2>3, <2>5 DEF Joining
  <2>7. About(c, t)
    BY <2>3, <2>4, <2>6 DEF About, InTx, Deleting
  <2>. QED
    BY <2>1, <2>2, <2>7, SameAbout
<1>7. ASSUME NEW committed \in BOOLEAN, Register(w, committed) PROVE Home' /\ About(call[w], tx[w])'
  <2>0. PICK n \in Turn(w) :
          call' = [call EXCEPT ![w].pc = IF committed THEN @ ELSE "undo", ![w].todo = @ \ {n}]
    BY <1>7 DEF Register
  <2>1. PICK c, b, t : c = call'[w] /\ b = call[w] /\ t = tx[w]
    OBVIOUS
  <2>2. b.pc = "registering" /\ (committed \/ b.op = "compute")
    BY <1>7, <2>1 DEF Register
  <2>3. /\ c.pc = (IF committed THEN "registering" ELSE "undo") /\ c.op = b.op /\ c.port = b.port
        /\ c.router = b.router /\ c.routers = b.routers /\ c.todo = b.todo \ {n}
    BY <1>0, <2>0, <2>1, <2>2 DEF Call
  <2>4. UNCHANGED <<subnets, ports, allocations, portVars, tx>>
    BY <1>7 DEF Register, ipVars
  <2>5. (Joining(b, t) => Joining(c, t)) /\ (Telling(b) => Telling(c))
    BY <2>3 DEF Joining, Telling
  <2>6. CallOK(b, t) /\ About(b, t)
    BY <1>0, <2>1
  <2>7. About(c, t)
    BY <2>2, <2>3, <2>5, <2>6 DEF About, InTx, Deleting, CallOK
  <2>. QED
    BY <2>1, <2>4, <2>7, SameAbout
<1>8. CASE CreateEnds(w)
  <2>1. call'[w] = NoCall /\ UNCHANGED <<ports, portVars>>
    BY <1>0, <1>8 DEF CreateEnds, ipVars
  <2>. QED
    BY <1>0, <2>1, AboutNothing DEF Home, portVars
<1>9. ASSUME NEW what \in {"interface", "gateway"}, BecomesRouterPort(w, what), call[w].op = what
      PROVE  Home' /\ About(call[w], tx[w])'
  <2>1. PICK p, r : p = call[w].port /\ r = call[w].router
    OBVIOUS
  <2>2. /\ Commit(w) /\ call'[w] = NoCall /\ owner' = [owner EXCEPT ![p] = what]
        /\ device' = [device EXCEPT ![p] = r] /\ UNCHANGED <<tagged, changed>>
    BY <1>0, <1>9, <2>1 DEF BecomesRouterPort
  <2>3. /\ p \in Ports /\ ports[p] = None /\ ports'[p] = tx[w].subnet /\ ports'[p] # None
        /\ \A q \in Ports : q # p => ports'[q] = ports[q]
    BY <1>9, <2>1, <2>2, CommitOthers, IpNoneAssumption DEF HomeInv
  <2>4. r \in Routers /\ r \notin Attached(tx[w].subnet) /\ r # None
    BY <1>0, <1>9, <2>1, <2>2, CommitOne, MlConstants DEF About, CallOK
  <2>5. \A q \in Ports : device[q] = r => ports[q] # tx[w].subnet
    BY <1>0, <2>4, AttachedMeans
  <2>6. /\ owner'[p] = what /\ device'[p] = r
        /\ \A q \in Ports : q # p => owner'[q] = owner[q] /\ device'[q] = device[q]
    BY <1>0, <2>2, <2>3 DEF DriverOK
  <2>7. Home'
    <3>1. /\ \A q \in Ports : ports'[q] = None => device'[q] = None
          /\ \A q \in Ports : device'[q] # None <=> owner'[q] \in {"interface", "gateway"}
      BY <1>0, <2>3, <2>4, <2>6 DEF Home
    <3>2. \A q \in tagged' : ports'[q] # None /\ (q \notin changed' => owner'[q] = "compute")
      BY <1>0, <2>2, <2>3, <2>6 DEF Home, DriverOK
    <3>3. \A q, i \in Ports : device'[q] # None /\ device'[q] = device'[i] /\ ports'[q] = ports'[i] => q = i
      BY <1>0, <2>3, <2>4, <2>5, <2>6 DEF Home
    <3>. QED
      BY <3>1, <3>2, <3>3 DEF Home
  <2>. QED
    BY <2>2, <2>7, AboutNothing
<1>10. CASE CommitInterface(w) \/ CommitGateway(w)
  BY <1>9, <1>10 DEF CommitInterface, CommitGateway
<1>11. CASE CommitOther(w) \/ CommitUpdate(w)
  <2>1. Commit(w) /\ call'[w] = NoCall /\ UNCHANGED portVars
    BY <1>0, <1>11 DEF CommitOther, CommitUpdate
  <2>2. \A q \in Ports : ports'[q] = ports[q] \/ (q = call[w].port /\ ports[q] = None /\ ports'[q] # None)
    BY <2>1, CommitOthers, IpNoneAssumption DEF HomeInv
  <2>3. Home'
    BY <1>0, <2>1, <2>2 DEF Home, portVars, DriverOK
  <2>. QED
    BY <2>1, <2>3, AboutNothing
<1>. QED
  BY <1>1, <1>2, <1>3, <1>4, <1>5, <1>6, <1>7, <1>8, <1>10, <1>11 DEF CreateStep


\* And those of a deletion,
LEMMA DeleteHome ==
  ASSUME HomeInv, NEW w \in Workers, DeleteStep(w)
  PROVE  Home' /\ About(call[w], tx[w])'
<1>0. /\ call \in [Workers -> Call] /\ call[w] \in Call /\ DriverOK /\ PortsOK
      /\ CallOK(call[w], tx[w]) /\ About(call[w], tx[w]) /\ MlTypeInv /\ Home /\ None \notin Routers
  BY MlConstants DEF HomeInv, PortsInv, MlTypeInv
<1>1. ASSUME call'[w] = NoCall, UNCHANGED <<ports, portVars>> PROVE Home' /\ About(call[w], tx[w])'
  BY <1>0, <1>1, AboutNothing DEF Home, portVars
<1>2. ASSUME NEW c, c = call'[w], c.op = call[w].op, c.port = call[w].port, c.router = call[w].router,
             Deleting(c) => Deleting(call[w]),
             c.pc = "unregistering" => call[w].pc = "unregistering" /\ c.todo \subseteq call[w].todo,
             c.pc \in {"unregistering", "deleted", "committing", "removing"},
             c.pc # "unregistering" => c.todo = {},
             UNCHANGED <<subnets, ports, allocations, portVars, tx>>, c.op = "delete"
      PROVE  Home' /\ About(call[w], tx[w])'
  <2>1. PICK b : b = call[w]
    OBVIOUS
  <2>2. b.pc = "unregistering" => Dropping(b)
    BY <1>0, <2>1 DEF About
  <2>3. c.pc = "unregistering" => Dropping(c)
    BY <1>2, <2>1, <2>2 DEF Dropping
  <2>4. About(c, tx[w])
    BY <1>0, <1>2, <2>1, <2>3 DEF About, InTx
  <2>. QED
    BY <1>2, <2>4, SameAbout
<1>3. ASSUME Gone(call[w].port), UNCHANGED <<subnets, tx>>, Deleting(call[w]) PROVE Home'
  <2>1. PICK p : p = call[w].port
    OBVIOUS
  <2>2. p \in Ports /\ ports[p] # None
    BY <1>0, <1>3, <2>1 DEF About, Deleting, CallOK, NoCall
  <2>3. /\ ports'[p] = None /\ owner'[p] = "none" /\ device'[p] = None
        /\ tagged' = tagged \ {p} /\ changed' = changed \ {p}
        /\ \A q \in Ports : q # p => /\ ports'[q] = ports[q]
                                     /\ owner'[q] = owner[q] /\ device'[q] = device[q]
    BY <1>3, <2>1, <2>2, GoneOthers
  <2>4. tagged \subseteq Ports
    BY <1>0 DEF DriverOK
  <2>. QED
    BY <1>0, <2>2, <2>3, <2>4 DEF Home
<1>4. CASE UndoCreate(w)
  <2>1. CASE ports[call[w].port] = None
    BY <1>0, <1>1, <1>4, <2>1 DEF UndoCreate, ipVars
  <2>2. CASE ports[call[w].port] # None
    <3>1. call[w].port \in Ports /\ BeginDelete(w, call[w].port)
          /\ UNCHANGED <<subnets, ports, allocations, portVars, tx>>
      BY <1>0, <1>4, <2>2 DEF UndoCreate, ipVars, CallOK
    <3>. QED
      BY <3>1, BeginAbout
  <2>. QED
    BY <2>1, <2>2
<1>5. CASE Unregister(w)
  <2>1. PICK n \in Turn(w) : call' = [call EXCEPT ![w].todo = @ \ {n}]
    BY <1>5 DEF Unregister
  <2>2. call[w].pc = "unregistering" /\ UNCHANGED <<subnets, ports, allocations, portVars, tx>>
    BY <1>5 DEF Unregister, ipVars
  <2>3. PICK c : c = call'[w]
    OBVIOUS
  <2>4. /\ c.pc = "unregistering" /\ c.op = call[w].op /\ c.port = call[w].port
        /\ c.router = call[w].router /\ c.todo = call[w].todo \ {n}
    BY <1>0, <2>1, <2>2, <2>3 DEF Call
  <2>5. c.op = "delete" /\ Deleting(call[w])
    BY <1>0, <2>2, <2>4 DEF CallOK, Deleting
  <2>. QED
    BY <1>2, <2>2, <2>3, <2>4, <2>5
<1>6. CASE CommitDelete(w)
  <2>1. PICK c : c = call'[w]
    OBVIOUS
  <2>2. /\ call[w].pc = "unregistering" /\ call[w].todo = {} /\ c = [call[w] EXCEPT !.pc = "deleted"]
        /\ UNCHANGED <<subnets, tx>>
    BY <1>0, <1>6, <2>1 DEF CommitDelete, Goto
  <2>3. /\ c.pc = "deleted" /\ c.op = "delete" /\ call[w].op = "delete" /\ c.port = call[w].port /\ c.router = call[w].router
        /\ c.todo = {} /\ Deleting(call[w])
    BY <1>0, <2>2 DEF Call, CallOK, Deleting
  <2>4. CASE call[w].router = None
    <3>1. Gone(call[w].port)
      BY <1>6, <2>4 DEF CommitDelete
    <3>2. About(c, tx[w])'
      BY <2>3, <2>4 DEF About, InTx, Deleting
    <3>. QED
      BY <1>3, <2>1, <2>2, <2>3, <3>1, <3>2
  <2>5. CASE call[w].router # None
    <3>1. UNCHANGED <<ports, allocations, portVars>>
      BY <1>6, <2>5 DEF CommitDelete
    <3>. QED
      BY <1>2, <2>1, <2>2, <2>3, <3>1
  <2>. QED
    BY <2>4, <2>5
<1>7. CASE TakeParams(w) \/ CommitDevice(w)
  <2>1. PICK c : c = call'[w]
    OBVIOUS
  <2>2. UNCHANGED <<subnets, ports, allocations, portVars, tx>>
    BY <1>7 DEF TakeParams, CommitDevice, ipVars
  <2>3. /\ call[w].pc \in {"deleted", "committing"} /\ c.pc = "committing" /\ c.op = call[w].op
        /\ c.port = call[w].port /\ c.router = call[w].router /\ c.todo = call[w].todo
    BY <1>0, <1>7, <2>1 DEF TakeParams, CommitDevice, Call
  <2>4. c.op = "delete" /\ c.todo = {} /\ (Deleting(c) => Deleting(call[w]))
    BY <1>0, <2>3 DEF CallOK, About, Deleting
  <2>. QED
    BY <1>2, <2>1, <2>2, <2>3, <2>4
<1>8. CASE DeleteEnds(w)
  <2>1. CASE call[w].router = None
    BY <1>0, <1>1, <1>8, <2>1 DEF DeleteEnds, ipVars
  <2>2. CASE call[w].router # None
    <3>1. PICK c : c = call'[w]
      OBVIOUS
    <3>2. /\ UNCHANGED <<subnets, ports, allocations, portVars, tx>> /\ call[w].pc = "committing"
          /\ c = [call[w] EXCEPT !.pc = "removing"]
      BY <1>0, <1>8, <2>2, <3>1 DEF DeleteEnds, ipVars
    <3>3. /\ c.pc = "removing" /\ c.op = "delete" /\ call[w].op = "delete" /\ c.port = call[w].port
          /\ c.router = call[w].router /\ c.todo = {} /\ Deleting(call[w])
      BY <1>0, <2>2, <3>2 DEF Call, CallOK, About, Deleting
    <3>. QED
      BY <1>2, <3>1, <3>2, <3>3
  <2>. QED
    BY <2>1, <2>2
<1>9. CASE CommitRemoval(w)
  <2>1. Gone(call[w].port) /\ UNCHANGED <<subnets, tx>> /\ call'[w] = NoCall /\ Deleting(call[w])
    BY <1>0, <1>9 DEF CommitRemoval, CallOK, Deleting
  <2>. QED
    BY <1>3, <2>1, AboutNothing
<1>. QED
  BY <1>4, <1>5, <1>6, <1>7, <1>8, <1>9 DEF DeleteStep

\* and a failure.
LEMMA FailsHome ==
  ASSUME HomeInv, NEW w \in Workers, Fails(w)
  PROVE  Home' /\ About(call[w], tx[w])'
<1>0. /\ call \in [Workers -> Call] /\ call[w] \in Call /\ CallOK(call[w], tx[w])
      /\ About(call[w], tx[w]) /\ Home /\ None \notin Routers
  BY MlConstants DEF HomeInv, PortsInv, MlTypeInv
<1>1. PICK b, c : b = call[w] /\ c = call'[w]
  OBVIOUS
<1>2. /\ c = AfterFailure(b) /\ MayFail(b) /\ UNCHANGED <<subnets, ports, allocations, portVars>>
  BY <1>0, <1>1 DEF Fails
<1>3. Home'
  BY <1>0, <1>2 DEF Home, portVars
<1>4. CASE b.op = "compute"
  <2>1. c.pc = "undo" /\ c.op = "compute" /\ c.port = b.port /\ c.todo = {} /\ b.pc # "allocating"
    BY <1>0, <1>1, <1>2, <1>4 DEF AfterFailure, MayFail, Call
  <2>2. ports[c.port] # None /\ owner[c.port] = "compute"
    BY <1>0, <1>1, <1>4, <2>1 DEF About, InTx
  <2>3. About(c, tx[w])'
    BY <1>2, <2>1, <2>2 DEF About, InTx, Deleting, portVars
  <2>. QED
    BY <1>1, <1>3, <2>3
<1>5. CASE b.op # "compute" /\ b.pc = "committing" /\ b.router # None
  <2>1. /\ c.pc = "removing" /\ c.op = b.op /\ c.port = b.port /\ c.router = b.router
        /\ c.todo = b.todo /\ b.op = "delete"
    BY <1>0, <1>1, <1>2, <1>5 DEF AfterFailure, Call, CallOK
  <2>2. ports[c.port] # None /\ device[c.port] = c.router /\ c.todo = {}
    BY <1>0, <1>1, <1>5, <2>1 DEF About, Deleting
  <2>3. About(c, tx[w])'
    BY <1>2, <2>1, <2>2 DEF About, InTx, Deleting, portVars
  <2>. QED
    BY <1>1, <1>3, <2>3
<1>6. CASE b.op # "compute" /\ ~(b.pc = "committing" /\ b.router # None)
  BY <1>1, <1>2, <1>3, <1>6, AboutNothing DEF AfterFailure
<1>. QED
  BY <1>4, <1>5, <1>6

\* One request at a time, every step keeps what calls know.
LEMMA NextHome ==
  ASSUME OneWorker, HomeInv, [MlNext]_mlVars
  PROVE  HomeInv'
<1>0. PortsInv'
  BY NextPorts DEF HomeInv
<1>1. CASE UNCHANGED mlVars
  <2>1. Home' /\ UNCHANGED <<subnets, ports, allocations, portVars, tx, call>>
    BY <1>1 DEF mlVars, ipVars, driverVars, portVars, HomeInv, Home
  <2>2. \A w \in Workers : About(call[w], tx[w])'
    BY <2>1, SameAbout DEF HomeInv
  <2>. QED
    BY <1>0, <2>1, <2>2 DEF HomeInv
<1>2. ASSUME NEW w \in Workers, MlRequest(w) \/ CreateStep(w) \/ DeleteStep(w) \/ Fails(w)
      PROVE  HomeInv'
  <2>1. Home' /\ About(call[w], tx[w])'
    BY <1>2, RequestHome, CreateHome, DeleteHome, FailsHome
  <2>2. \A v \in Workers : v = w
    BY <1>2 DEF OneWorker
  <2>. QED
    BY <1>0, <2>1, <2>2 DEF HomeInv
<1>. QED
  BY <1>1, <1>2 DEF MlNext

\* It holds at first.
LEMMA InitHome == MlInit => HomeInv
BY InitPorts DEF MlInit, HomeInv, Home, About, NoCall, InTx, Deleting

-----------------------------------------------------------------------------
(* The instances a device should know of, and the steps that change them.  *)

\* An instance has the port, on a network of the router.
Needs(r, p) == owner[p] = "compute" /\ r \in Attached(ports[p])

\* What the device of a router is told of a port.
Note(r, p) == [router |-> r, address |-> AddressOf(p)]

\* Two ports of a network that have an address in common are one.
LEMMA OneOwner ==
  ASSUME AddressInv, NEW p \in Ports, NEW q \in Ports, ports[p] = ports[q],
         NEW ip \in AddressesOf(p), ip \in AddressesOf(q)
  PROVE  p = q
<1>1. PICK a \in allocations : a.port = p /\ a.ip = ip
  BY DEF AddressesOf
<1>2. PICK b \in allocations : b.port = q /\ b.ip = ip
  BY DEF AddressesOf
<1>3. a.subnet = b.subnet
  BY <1>1, <1>2 DEF AddressInv
<1>. QED
  BY <1>1, <1>2, <1>3 DEF AddressInv, AddressHasOnePort

\* So their addresses differ.
LEMMA OneAddress ==
  ASSUME HomeInv, NEW p \in Ports, NEW q \in Ports, ports[p] # None, ports[q] # None,
         AddressOf(p) = AddressOf(q)
  PROVE  p = q
<1>1. MlTypeInv /\ AddressInv
  BY DEF HomeInv, PortsInv
<1>2. /\ AddressOf(p).subnet = ports[p] /\ AddressOf(p).ip \in AddressesOf(p)
      /\ AddressOf(q).subnet = ports[q] /\ AddressOf(q).ip \in AddressesOf(q)
  BY <1>1, AddressType
<1>. QED
  BY <1>1, <1>2, OneOwner

\* A port of an instance is there, and so is one with tags.
LEMMA InstanceIsThere ==
  ASSUME HomeInv, NEW p \in Ports, owner[p] = "compute" \/ p \in tagged
  PROVE  ports[p] # None /\ ports[p] \in Subnets
BY DEF HomeInv, Home, PortsInv, MlTypeInv, PortsOK, IpTypeInv, IpTypeOK

\* What steps that leave ports and routers leave.
LEMMA SameNeeds ==
  ASSUME UNCHANGED <<ports, allocations, owner, device>>
  PROVE  \A r, p : (Needs(r, p)' <=> Needs(r, p)) /\ AddressOf(p)' = AddressOf(p)
BY DEF Needs, Attached, AddressOf, AddressesOf

\* A port is made that no router has: only its own instance is new.
LEMMA MadeNeeds ==
  ASSUME HomeInv, NEW w \in Workers, CommitCompute(w) \/ CommitOther(w), NEW p, p = call[w].port
  PROVE  /\ p \in Ports /\ p \notin tagged /\ owner[p] = "none"
         /\ CommitOther(w) => owner' = owner
         /\ \A q \in Ports : q # p => owner'[q] = owner[q] /\ AddressOf(q)' = AddressOf(q)
         /\ \A q \in Ports, r \in Routers : q # p => (Needs(r, q)' <=> Needs(r, q))
<1>1. /\ Commit(w) /\ call[w].op # "update" /\ UNCHANGED device
      /\ owner' = [owner EXCEPT ![p] = "compute"] \/ owner' = owner
      /\ CommitOther(w) => owner' = owner
  BY DEF CommitCompute, CommitOther, portVars
<1>2. /\ p \in Ports /\ ports[p] = None
      /\ \A q \in Ports : q # p => ports'[q] = ports[q] /\ AddressOf(q)' = AddressOf(q)
  BY <1>1, CommitOthers DEF HomeInv
<1>3. p \notin tagged /\ owner[p] = "none"
  BY <1>2 DEF HomeInv, Home, PortsInv, MlTypeInv, PortsOK
<1>4. \A q \in Ports : q # p => owner'[q] = owner[q]
  BY <1>1 DEF HomeInv, PortsInv, MlTypeInv, DriverOK
<1>5. ASSUME NEW q \in Ports, NEW r \in Routers, q # p PROVE Needs(r, q)' <=> Needs(r, q)
  <2>1. CASE owner[q] = "compute"
    <3>1. ports[q] \in Subnets /\ ports'[q] = ports[q]
      BY <1>2, <1>5, <2>1, InstanceIsThere
    <3>2. Attached(ports[q])' = Attached(ports[q])
      BY <1>1, <3>1, KeepAttached
    <3>. QED
      BY <1>4, <1>5, <3>2 DEF Needs
  <2>2. CASE owner[q] # "compute"
    BY <1>4, <1>5, <2>2 DEF Needs
  <2>. QED
    BY <2>1, <2>2
<1>. QED
  BY <1>1, <1>2, <1>3, <1>4, <1>5

\* A router comes to a network: its device should know the instances there.
LEMMA JoinedNeeds ==
  ASSUME HomeInv, NEW w \in Workers, NEW what \in {"interface", "gateway"},
         BecomesRouterPort(w, what), call[w].op = what
  PROVE  /\ \A q \in Ports : owner'[q] = "compute" => owner[q] = "compute"
         /\ \A q \in Ports : owner[q] = "compute" => owner'[q] = "compute" /\ AddressOf(q)' = AddressOf(q)
         /\ \A q \in Ports, r \in Routers :
              Needs(r, q)' <=> \/ Needs(r, q)
                               \/ owner[q] = "compute" /\ ports[q] = tx[w].subnet /\ r = call[w].router
<1>1. PICK p : p = call[w].port
  OBVIOUS
<1>2. /\ Commit(w) /\ owner' = [owner EXCEPT ![p] = what]
  BY <1>1 DEF BecomesRouterPort
<1>3. /\ p \in Ports /\ ports[p] = None
      /\ \A q \in Ports : q # p => ports'[q] = ports[q] /\ AddressOf(q)' = AddressOf(q)
  BY <1>1, <1>2, CommitOthers DEF HomeInv
<1>4. \A s \in Subnets : Attached(s)' = IF s = tx[w].subnet
                                          THEN Attached(s) \cup {call[w].router} ELSE Attached(s)
  BY JoinAttached
<1>5. owner'[p] = what /\ owner[p] = "none" /\ \A q \in Ports : q # p => owner'[q] = owner[q]
  BY <1>2, <1>3 DEF HomeInv, PortsInv, MlTypeInv, DriverOK, PortsOK
<1>6. ASSUME NEW q \in Ports, owner[q] = "compute"
      PROVE  /\ owner'[q] = "compute" /\ AddressOf(q)' = AddressOf(q)
             /\ \A r \in Routers : Needs(r, q)' <=> \/ Needs(r, q)
                                                    \/ ports[q] = tx[w].subnet /\ r = call[w].router
  <2>1. q # p /\ ports[q] \in Subnets /\ ports'[q] = ports[q]
    BY <1>3, <1>5, <1>6, InstanceIsThere
  <2>2. \A r \in Routers : r \in Attached(ports[q])' <=>
                               \/ r \in Attached(ports[q])
                               \/ ports[q] = tx[w].subnet /\ r = call[w].router
    BY <1>4, <2>1
  <2>. QED
    BY <1>3, <1>5, <1>6, <2>1, <2>2 DEF Needs
<1>7. \A q \in Ports : owner'[q] = "compute" => owner[q] = "compute"
  BY <1>5
<1>. QED
  BY <1>6, <1>7 DEF Needs

\* The same, by port.
LEMMA JoinedByPort ==
  ASSUME HomeInv, NEW w \in Workers, NEW p \in Ports, NEW r \in Routers, AddInterfaceByPort(w, r, p)
  PROVE  /\ \A q \in Ports : AddressOf(q)' = AddressOf(q) /\ (owner'[q] = "compute" <=> owner[q] = "compute")
         /\ \A q \in Ports, i \in Routers :
              Needs(i, q)' <=> Needs(i, q) \/ (owner[q] = "compute" /\ ports[q] = ports[p] /\ i = r)
<1>1. /\ ports[p] # None /\ owner[p] = "none"
      /\ owner' = [owner EXCEPT ![p] = "interface"] /\ device' = [device EXCEPT ![p] = r]
      /\ UNCHANGED <<ports, allocations>>
  BY DEF AddInterfaceByPort, Undisturbed
<1>2. DriverOK /\ DriverOK' /\ device[p] = None
  <2>1. MlTypeInv'
    BY NextPorts DEF HomeInv, PortsInv, MlNext, MlRequest, RouterRequest
  <2>. QED
    BY <1>1, <2>1 DEF HomeInv, PortsInv, MlTypeInv, Home
<1>3. \A q \in Ports : AddressOf(q)' = AddressOf(q) /\ (owner'[q] = "compute" <=> owner[q] = "compute")
  BY <1>1, <1>2 DEF AddressOf, AddressesOf, DriverOK
<1>4. /\ \A i \in Routers, s \in Subnets : i \in Attached(s) <=> \E j \in Ports : device[j] = i /\ ports[j] = s
      /\ \A i \in Routers, s \in Subnets : i \in Attached(s)' <=> \E j \in Ports : device'[j] = i /\ ports'[j] = s
  BY <1>2, MlConstants DEF Attached
<1>5. device'[p] = r /\ \A q \in Ports : q # p => device'[q] = device[q]
  BY <1>1, <1>2 DEF DriverOK
<1>6. \A i \in Routers, s \in Subnets : i \in Attached(s)' <=> i \in Attached(s) \/ (s = ports[p] /\ i = r)
  BY <1>1, <1>2, <1>4, <1>5, MlConstants
<1>7. \A q \in Ports : owner[q] = "compute" => ports[q] \in Subnets
  BY InstanceIsThere
<1>. QED
  BY <1>1, <1>3, <1>6, <1>7 DEF Needs

\* A port gets another address for the one it has.
LEMMA UpdatedNeeds ==
  ASSUME HomeInv, NEW w \in Workers, CommitUpdate(w), NEW p, p = call[w].port
  PROVE  /\ p \in Ports /\ UNCHANGED owner
         /\ \A q \in Ports, r \in Routers : Needs(r, q)' <=> Needs(r, q)
         /\ \A q \in Ports : q # p => AddressOf(q)' = AddressOf(q)
         /\ \A r \in Routers : Needs(r, p) => Note(r, p) \in untold' /\ Note(r, p)' \in untold'
<1>1. /\ Commit(w) /\ call[w].op = "update" /\ call[w].pc = "allocating" /\ UNCHANGED portVars
  BY DEF CommitUpdate
<1>2. PICK t : t = tx[w]
  OBVIOUS
<1>3. /\ p \in Ports /\ ports' = ports /\ ports[p] = t.subnet /\ t.subnet \in Subnets
      /\ \A q \in Ports : q # p => AddressOf(q)' = AddressOf(q)
      /\ AddressesOf(p)' \subseteq (AddressesOf(p) \ t.freed) \cup Elements(t.got)
  BY <1>1, <1>2, CommitOthers DEF HomeInv
<1>4. t.freed = AddressesOf(p)
  BY <1>1, <1>2 DEF HomeInv, About, InTx
<1>5. MlTypeInv /\ MlTypeInv'
  BY NextPorts DEF HomeInv, PortsInv, MlNext, CreateStep
<1>6. /\ AddressOf(p) = [subnet |-> t.subnet, ip |-> AddressOf(p).ip]
      /\ AddressOf(p)' = [subnet |-> t.subnet, ip |-> AddressOf(p)'.ip]
  BY <1>3 DEF AddressOf
<1>7. ports[p] # None
  BY <1>3, IpNoneAssumption
<1>8. AddressOf(p).ip \in AddressesOf(p)
  BY <1>3, <1>5, <1>7, AddressType
<1>9. AddressOf(p)'.ip \in AddressesOf(p)'
  <2>1. AddressesOf(p)' # {}
    BY <1>3, <1>5, <1>7 DEF MlTypeInv, PortsOK
  <2>. QED
    BY <2>1 DEF AddressOf
<1> DEFINE addresses == [subnet : {t.subnet}, ip : t.freed \cup Elements(t.got)]
<1>10. AddressOf(p) \in addresses /\ AddressOf(p)' \in addresses
  BY <1>3, <1>4, <1>6, <1>8, <1>9
<1>11. UNCHANGED <<owner, device>>
  BY <1>1 DEF portVars
<1>12. \A s : Attached(s)' = Attached(s)
  BY <1>3, <1>11 DEF Attached
<1>13. \A q \in Ports, r \in Routers : Needs(r, q)' <=> Needs(r, q)
  BY <1>3, <1>11, <1>12 DEF Needs
<1>14. owner[p] = "compute" => untold' = untold \cup Notices(Attached(t.subnet), addresses)
  BY <1>2 DEF CommitUpdate, Untold
<1>15. ASSUME NEW r \in Routers, Needs(r, p) PROVE Note(r, p) \in untold' /\ Note(r, p)' \in untold'
  <2> HIDE DEF addresses
  <2>1. /\ [router |-> r, address |-> AddressOf(p)] \in Notices(Attached(t.subnet), addresses)
        /\ [router |-> r, address |-> AddressOf(p)'] \in Notices(Attached(t.subnet), addresses)
    BY <1>3, <1>10, <1>15 DEF Notices, Needs
  <2>. QED
    BY <1>14, <1>15, <2>1 DEF Note, Needs
<1>. QED
  BY <1>3, <1>11, <1>13, <1>15

\* An instance is given a port, or leaves it.
LEMMA OwnedNeeds ==
  ASSUME HomeInv, NEW w \in Workers, NEW p \in Ports, NEW what \in {"none", "compute"},
         UpdateOwner(w, p, what)
  PROVE  /\ \A q \in Ports : AddressOf(q)' = AddressOf(q)
         /\ \A q \in Ports : q # p => owner'[q] = owner[q]
         /\ \A q \in Ports, r \in Routers : q # p => (Needs(r, q)' <=> Needs(r, q))
         /\ \A r \in Routers : Needs(r, p) \/ Needs(r, p)' => Note(r, p) \in untold'
<1>1. /\ owner' = [owner EXCEPT ![p] = what] /\ UNCHANGED <<ports, allocations, device>>
      /\ untold' = untold \cup Notices(Attached(ports[p]), {AddressOf(p)})
  BY DEF UpdateOwner, Untold
<1>2. \A q \in Ports : q # p => owner'[q] = owner[q]
  BY <1>1 DEF HomeInv, PortsInv, MlTypeInv, DriverOK
<1>3. /\ \A q : AddressOf(q)' = AddressOf(q)
      /\ \A s : Attached(s)' = Attached(s)
  BY <1>1 DEF AddressOf, AddressesOf, Attached
<1>4. \A r \in Routers : Needs(r, p) \/ Needs(r, p)' => r \in Attached(ports[p])
  BY <1>1, <1>3 DEF Needs
<1>. QED
  BY <1>1, <1>2, <1>3, <1>4 DEF Needs, Note, Notices

\* A port goes that is no router's.
LEMMA GoneNeeds ==
  ASSUME HomeInv, NEW p \in Ports, Gone(p), ports[p] # None, device[p] = None
  PROVE  /\ \A q \in Ports : q # p => owner'[q] = owner[q] /\ AddressOf(q)' = AddressOf(q)
         /\ \A q \in Ports, r \in Routers : Needs(r, q)' <=> q # p /\ Needs(r, q)
         /\ owner'[p] = "none" /\ tagged' = tagged \ {p} /\ changed' = changed \ {p}
<1>1. /\ ports'[p] = None /\ owner'[p] = "none"
      /\ tagged' = tagged \ {p} /\ changed' = changed \ {p}
      /\ \A q \in Ports : q # p => /\ ports'[q] = ports[q] /\ AddressOf(q)' = AddressOf(q)
                                   /\ owner'[q] = owner[q]
      /\ \A s \in Subnets : Attached(s)' = IF s = ports[p] THEN Attached(s) \ {device[p]}
                                                           ELSE Attached(s)
  BY GoneOthers
<1>2. \A s \in Subnets : Attached(s)' = Attached(s)
  BY <1>1 DEF Attached
<1>3. ASSUME NEW q \in Ports, NEW r \in Routers, q # p PROVE Needs(r, q)' <=> Needs(r, q)
  <2>1. owner[q] = "compute" => ports[q] \in Subnets
    BY InstanceIsThere
  <2>. QED
    BY <1>1, <1>2, <1>3, <2>1 DEF Needs
<1>. QED
  BY <1>1, <1>3 DEF Needs

\* A router leaves a network.
LEMMA LeftNeeds ==
  ASSUME HomeInv, NEW w \in Workers, CommitRemoval(w), NEW p, p = call[w].port
  PROVE  /\ p \in Ports /\ owner[p] # "compute"
         /\ owner'[p] = "none" /\ tagged' = tagged \ {p} /\ changed' = changed \ {p}
         /\ \A q \in Ports : q # p => owner'[q] = owner[q] /\ AddressOf(q)' = AddressOf(q)
         /\ \A q \in Ports, r \in Routers :
              Needs(r, q)' <=> Needs(r, q) /\ ~(ports[q] = ports[p] /\ r = device[p])
         /\ \A q \in Ports, r \in Routers :
              /\ Needs(r, q) /\ ports[q] = ports[p]
              /\ IF owner[p] = "gateway" THEN r = device[p] ELSE r # device[p]
              => Note(r, q) \in untold'
<1>1. CallOK(call[w], tx[w]) /\ About(call[w], tx[w]) /\ call[w].pc = "removing" /\ Gone(p)
      /\ untold' = untold \cup Notices(IF owner[p] = "gateway" THEN {call[w].router}
                                         ELSE Attached(ports[p]) \ {call[w].router}, InstancesOn(ports[p]))
  BY DEF CommitRemoval, Untold, HomeInv, PortsInv, MlTypeInv
<1>2. p \in Ports /\ ports[p] # None /\ device[p] = call[w].router /\ device[p] # None
  BY <1>1, MlConstants DEF CallOK, About, Deleting
<1>3. owner[p] \in {"interface", "gateway"}
  BY <1>2 DEF HomeInv, Home
<1>4. /\ ports'[p] = None /\ owner'[p] = "none"
      /\ tagged' = tagged \ {p} /\ changed' = changed \ {p}
      /\ \A q \in Ports : q # p => /\ ports'[q] = ports[q] /\ AddressOf(q)' = AddressOf(q)
                                   /\ owner'[q] = owner[q]
      /\ \A s \in Subnets : Attached(s)' = IF s = ports[p] THEN Attached(s) \ {device[p]}
                                                           ELSE Attached(s)
  BY <1>1, <1>2, GoneOthers
<1>5. ASSUME NEW q \in Ports, NEW r \in Routers
      PROVE  Needs(r, q)' <=> Needs(r, q) /\ ~(ports[q] = ports[p] /\ r = device[p])
  <2>1. owner[q] = "compute" => ports[q] \in Subnets
    BY InstanceIsThere
  <2>. QED
    BY <1>3, <1>4, <1>5, <2>1 DEF Needs
<1>6. ASSUME NEW q \in Ports, NEW r \in Routers, Needs(r, q), ports[q] = ports[p],
             IF owner[p] = "gateway" THEN r = device[p] ELSE r # device[p]
      PROVE  Note(r, q) \in untold'
  <2>1. AddressOf(q) \in InstancesOn(ports[p]) /\ r \in Attached(ports[p])
    BY <1>6 DEF InstancesOn, Needs
  <2>. QED
    BY <1>1, <1>2, <1>6, <2>1 DEF Note, Notices
<1>. QED
  BY <1>2, <1>3, <1>4, <1>5, <1>6

-----------------------------------------------------------------------------
(* No stale tag, one request at a time.                                    *)

\* An instance with tags accounts for what a device knows.
Founded(r, a) == \E p \in tagged : Needs(r, p) /\ AddressOf(p) = a

\* An interface that is not committed yet.
Joins(c) == c.pc = "registering" /\ c.op = "interface"

\* A device knows of instances with tags, of what it was not told had gone, and of the
\* ports of a network its router comes to.
Explained(c, t) ==
  \A r \in Routers : \A a \in registered[r] :
    \/ Founded(r, a)
    \/ [router |-> r, address |-> a] \in untold
    \/ Joins(c) /\ r \in c.routers /\ a \in TaggedOn(t.subnet)

\* The ports that no device needs to know of, or not the router's, after a deletion.
Drops(c, p) == p = c.port \/ (owner[c.port] = "interface" /\ ports[p] = ports[c.port])

\* A deletion is to tell what the devices still know of those.
Forgetting(c) ==
  Deleting(c) => \A r \in Routers : \A p \in tagged :
    Drops(c, p) /\ Needs(r, p) /\ AddressOf(p) \in registered[r] => Note(r, p) \in c.todo

\* The inductive invariant of NoStaleTag.
StaleInv ==
  /\ HomeInv
  /\ \A w \in Workers : Explained(call[w], tx[w]) /\ Forgetting(call[w])

\* A step that does not register keeps the account, where instances stay known, or the
\* device is told, or it is on record that it is not.
LEMMA KeepExplained ==
  ASSUME NEW b, NEW t, NEW c, NEW u, Explained(b, t), ~Joins(b), untold \subseteq untold',
         \A r \in Routers : registered'[r] \subseteq registered[r],
         \A r \in Routers, p \in tagged :
           Needs(r, p) => \/ p \in tagged' /\ Needs(r, p)' /\ AddressOf(p)' = AddressOf(p)
                          \/ Note(r, p) \in untold'
                          \/ AddressOf(p) \notin registered'[r]
  PROVE  Explained(c, u)'
<1>. SUFFICES ASSUME NEW r \in Routers, NEW a \in registered'[r]
              PROVE  Founded(r, a)' \/ [router |-> r, address |-> a] \in untold'
  BY DEF Explained
<1>1. Founded(r, a) \/ [router |-> r, address |-> a] \in untold
  BY DEF Explained
<1>2. ASSUME NEW p \in tagged, Needs(r, p), AddressOf(p) = a
      PROVE  Founded(r, a)' \/ [router |-> r, address |-> a] \in untold'
  BY <1>2 DEF Founded, Note
<1>. QED
  BY <1>1, <1>2 DEF Founded

\* A step that leaves tables and devices.
LEMMA SameExplained ==
  ASSUME NEW b, NEW t, NEW c, NEW u, Explained(b, t), ~Joins(b),
         UNCHANGED <<ports, allocations, portVars, registered, untold>>
  PROVE  Explained(c, u)'
<1>1. UNCHANGED <<ports, allocations, owner, device, tagged>>
  BY DEF portVars
<1>. QED
  BY <1>1, SameNeeds, KeepExplained

\* A deletion that goes on, or a call that is none, forgets as before.
LEMMA SameForgetting ==
  ASSUME NEW b, NEW c, Forgetting(b),
         Deleting(c) => Deleting(b) /\ c.port = b.port /\ c.todo = b.todo,
         UNCHANGED <<ports, allocations, portVars, registered>>
  PROVE  Forgetting(c)'
<1>1. UNCHANGED <<ports, allocations, owner, device, tagged>>
  BY DEF portVars
<1>2. CASE Deleting(c)
  BY <1>1, <1>2, SameNeeds DEF Forgetting, Drops, Note
<1>3. CASE ~Deleting(c)
  BY <1>3 DEF Forgetting, Deleting
<1>. QED
  BY <1>2, <1>3

\* A deletion that begins forgets all it should.
LEMMA BeginForgetting ==
  ASSUME HomeInv, NEW w \in Workers, NEW p \in Ports, BeginDelete(w, p),
         UNCHANGED <<ports, allocations, portVars>>
  PROVE  Forgetting(call[w])'
<1>0. call \in [Workers -> Call] /\ MlTypeInv
  BY DEF HomeInv, PortsInv, MlTypeInv
<1>1. PICK c \in Call, addresses \in SUBSET Address :
        /\ call' = [call EXCEPT ![w] = c] /\ c.port = p
        /\ c.todo = Notices(Attached(ports[p]), addresses)
        /\ owner[p] = "compute" => addresses = {AddressOf(p)}
        /\ owner[p] = "interface" => addresses = TaggedOn(ports[p])
  BY <1>0, BeginCall
<1>2. UNCHANGED <<ports, allocations, owner, device, tagged>> /\ call'[w] = c
  BY <1>0, <1>1 DEF portVars
<1>3. ASSUME NEW r \in Routers, NEW q \in tagged, Needs(r, q),
             q = p \/ (owner[p] = "interface" /\ ports[q] = ports[p])
      PROVE  Note(r, q) \in c.todo
  <2>1. r \in Attached(ports[p]) /\ AddressOf(q) \in addresses
    <3>1. CASE q = p
      BY <1>1, <1>3, <3>1 DEF Needs
    <3>2. CASE owner[p] = "interface" /\ ports[q] = ports[p]
      BY <1>1, <1>3, <3>2 DEF Needs, TaggedOn
    <3>. QED
      BY <1>3, <3>1, <3>2
  <2>. QED
    BY <1>1, <2>1 DEF Note, Notices
<1>4. Forgetting(c)'
  BY <1>1, <1>2, <1>3, SameNeeds DEF Forgetting, Drops, Note
<1>. QED
  BY <1>2, <1>4

\* Requests keep the account.
LEMMA RequestStale ==
  ASSUME StaleInv, NEW w \in Workers, MlRequest(w)
  PROVE  Explained(call[w], tx[w])' /\ Forgetting(call[w])'
<1>0. PICK b, t, c, u : b = call[w] /\ t = tx[w] /\ c = call'[w] /\ u = tx'[w]
  OBVIOUS
<1>1. Explained(b, t) /\ Forgetting(b) /\ HomeInv /\ call \in [Workers -> Call]
  BY <1>0 DEF StaleInv, HomeInv, PortsInv, MlTypeInv
<1>2. ~Deleting(NoCall) /\ ~Joins(NoCall)
  BY DEF NoCall, Deleting, Joins
<1>3. b.pc = "idle"
  BY <1>0 DEF MlRequest, SubnetRequest, CreatePort, UpdatePort, UpdateFixedIps, UpdateOwner, Delete,
     RouterRequest, AddInterfaceByPort, AddInterface, SetGateway, Idle
<1>4. ~Joins(b) /\ ~Deleting(b)
  BY <1>0, <1>1, <1>2, <1>3 DEF HomeInv, PortsInv, MlTypeInv, CallOK
<1>5. ASSUME UNCHANGED <<ports, allocations, portVars, registered, untold>>, ~Deleting(c)
      PROVE  Explained(c, u)' /\ Forgetting(c)'
  BY <1>1, <1>4, <1>5, SameExplained, SameForgetting
<1>6. ASSUME NEW p \in Ports, Delete(w, p) PROVE Explained(c, u)' /\ Forgetting(c)'
  <2>1. BeginDelete(w, p) /\ UNCHANGED <<ports, allocations, portVars, registered, untold>>
    BY <1>6 DEF Delete
  <2>2. Forgetting(call[w])'
    BY <1>1, <2>1, BeginForgetting
  <2>3. Forgetting(c)'
    BY <1>0, <2>2
  <2>. QED
    BY <1>1, <1>4, <2>1, <2>3, SameExplained
<1>7. ASSUME NEW s \in Subnets, SubnetRequest(w, s) PROVE Explained(c, u)' /\ Forgetting(c)'
  <2>1. UNCHANGED <<ports, allocations, portVars, registered, untold>> /\ c = b
    BY <1>0, <1>7 DEF SubnetRequest, CreateSubnet, DeleteSubnet, driverVars
  <2>. QED
    BY <1>4, <1>5, <2>1
<1>8. ASSUME NEW p, NEW s, NEW op \in {"compute", "other"}, NEW ip, CreatePort(w, op, p, s, ip)
      PROVE  Explained(c, u)' /\ Forgetting(c)'
  <2>1. /\ UNCHANGED <<ports, allocations, portVars, registered, untold>>
        /\ c.pc = "allocating" /\ c.op = op
    BY <1>0, <1>1, <1>8 DEF CreatePort, StartCreate, NoCall
  <2>. QED
    BY <1>5, <2>1 DEF Deleting
<1>9. ASSUME NEW p, NEW s, NEW r, AddInterface(w, r, p, s) \/ SetGateway(w, r, p, s)
      PROVE  Explained(c, u)' /\ Forgetting(c)'
  <2>1. /\ UNCHANGED <<ports, allocations, portVars, registered, untold>>
        /\ c.pc = "allocating" /\ c.op # "delete"
    <3>1. CASE AddInterface(w, r, p, s)
      BY <1>0, <1>1, <3>1 DEF AddInterface, StartCreate, NoCall
    <3>2. CASE SetGateway(w, r, p, s)
      BY <1>0, <1>1, <3>2 DEF SetGateway, StartCreate, NoCall
    <3>. QED
      BY <1>9, <3>1, <3>2
  <2>. QED
    BY <1>5, <2>1 DEF Deleting
<1>10. ASSUME NEW p, NEW ip, UpdateFixedIps(w, p, ip) PROVE Explained(c, u)' /\ Forgetting(c)'
  <2>1. /\ UNCHANGED <<ports, allocations, portVars, registered, untold>>
        /\ c.pc = "allocating" /\ c.op # "delete"
    BY <1>0, <1>1, <1>10 DEF UpdateFixedIps, StartUpdate, NoCall
  <2>. QED
    BY <1>5, <2>1 DEF Deleting
<1>11. ASSUME NEW p \in Ports, NEW r \in Routers, AddInterfaceByPort(w, r, p)
       PROVE  Explained(c, u)' /\ Forgetting(c)'
  <2>1. /\ untold \subseteq untold' /\ UNCHANGED <<tagged, registered, call>>
    BY <1>11 DEF AddInterfaceByPort, Untold
  <2>2. \A q \in Ports, i \in Routers : Needs(i, q) => Needs(i, q)' /\ AddressOf(q)' = AddressOf(q)
    BY <1>1, <1>11, JoinedByPort
  <2>3. tagged \subseteq Ports
    BY <1>1 DEF HomeInv, PortsInv, MlTypeInv, DriverOK
  <2>4. Explained(c, u)'
    BY <1>1, <1>4, <2>1, <2>2, <2>3, KeepExplained
  <2>5. Forgetting(c)'
    BY <1>0, <1>4, <2>1 DEF Forgetting, Deleting
  <2>. QED
    BY <2>4, <2>5
<1>12. ASSUME NEW p \in Ports, NEW what \in {"none", "compute"}, UpdateOwner(w, p, what)
       PROVE  Explained(c, u)' /\ Forgetting(c)'
  <2>1. /\ untold \subseteq untold' /\ UNCHANGED <<tagged, registered, call>>
    BY <1>12 DEF UpdateOwner, Untold
  <2>2. \A q \in Ports, i \in Routers :
          Needs(i, q) => \/ Needs(i, q)' /\ AddressOf(q)' = AddressOf(q)
                         \/ Note(i, q) \in untold'
    BY <1>1, <1>12, OwnedNeeds
  <2>3. tagged \subseteq Ports
    BY <1>1 DEF HomeInv, PortsInv, MlTypeInv, DriverOK
  <2>4. Explained(c, u)'
    BY <1>1, <1>4, <2>1, <2>2, <2>3, KeepExplained
  <2>5. Forgetting(c)'
    BY <1>0, <1>4, <2>1 DEF Forgetting, Deleting
  <2>. QED
    BY <2>4, <2>5
<1>13. Explained(c, u)' /\ Forgetting(c)'
  BY <1>6, <1>7, <1>8, <1>9, <1>10, <1>11, <1>12 DEF MlRequest, RouterRequest, UpdatePort
<1>. QED
  BY <1>0, <1>13

\* Steps of a creation keep the account: an interface that registers goes on.
LEMMA CreateStale ==
  ASSUME StaleInv, OneWorker, NEW w \in Workers, CreateStep(w)
  PROVE  Explained(call[w], tx[w])' /\ Forgetting(call[w])'
<1>0. PICK b, t, c, u : b = call[w] /\ t = tx[w] /\ c = call'[w] /\ u = tx'[w]
  OBVIOUS
<1>1. /\ Explained(b, t) /\ Forgetting(b) /\ HomeInv /\ Home /\ call \in [Workers -> Call] /\ b \in Call
      /\ CallOK(b, t) /\ About(b, t) /\ tagged \subseteq Ports /\ None \notin Routers
      /\ registered \in [Routers -> SUBSET Address] /\ DriverOK
  BY <1>0, MlConstants DEF StaleInv, HomeInv, PortsInv, MlTypeInv, DriverOK
<1>2. ~Deleting(c) => Forgetting(c)'
  BY DEF Forgetting, Deleting
<1>3. ~Deleting(NoCall) /\ ~Joins(NoCall)
  BY DEF NoCall, Deleting, Joins
<1>4. ASSUME UNCHANGED <<ports, allocations, portVars, registered, untold>>, ~Joins(b), ~Deleting(c)
      PROVE  Explained(c, u)' /\ Forgetting(c)'
  BY <1>1, <1>2, <1>4, SameExplained
<1>5. ASSUME ~Joins(b), ~Deleting(c), untold \subseteq untold', UNCHANGED <<tagged, registered>>,
             \A q \in tagged, r \in Routers :
               Needs(r, q) => \/ Needs(r, q)' /\ AddressOf(q)' = AddressOf(q)
                              \/ Note(r, q) \in untold'
      PROVE  Explained(c, u)' /\ Forgetting(c)'
  <2>1. \A r \in Routers, p \in tagged :
          Needs(r, p) => \/ p \in tagged' /\ Needs(r, p)' /\ AddressOf(p)' = AddressOf(p)
                         \/ Note(r, p) \in untold'
                         \/ AddressOf(p) \notin registered'[r]
    BY <1>5
  <2>2. Explained(c, u)'
    BY <1>1, <1>5, <2>1, KeepExplained
  <2>. QED
    BY <1>2, <1>5, <2>2
<1>6. CASE AllocateAddress(w)
  <2>1. b.pc = "allocating" /\ c = b /\ UNCHANGED <<ports, allocations, driverVars>>
    BY <1>0, <1>1, <1>6, AllocateAbout DEF driverVars
  <2>2. UNCHANGED <<portVars, registered, untold>> /\ ~Joins(b) /\ ~Deleting(c)
    BY <1>1, <2>1 DEF driverVars, Joins, Deleting, CallOK
  <2>. QED
    BY <1>0, <1>4, <2>1, <2>2
<1>7. CASE Refused(w)
  <2>1. c = NoCall /\ UNCHANGED <<ports, allocations, portVars, registered, untold>>
    BY <1>0, <1>1, <1>7 DEF Refused, RebuildFails, CommitFails, WaitsTooLong
  <2>2. ASSUME Joins(b) PROVE FALSE
    <3>1. Joining(b, t) /\ subnets[t.subnet].here /\ t.freed = {}
      BY <1>1, <2>2 DEF Joins, About, InTx, CallOK
    <3>2. ~RebuildFails(w) /\ ~CommitFails(w)
      BY <1>0, <3>1 DEF Joining, RebuildFails, CommitFails, KeysAreFree
    <3>3. ~WaitsTooLong(w)
      BY DEF OneWorker, WaitsTooLong
    <3>. QED
      BY <1>7, <3>2, <3>3 DEF Refused
  <2>. QED
    BY <1>0, <1>3, <1>4, <2>1, <2>2
<1>8. CASE CommitCompute(w) \/ CommitOther(w)
  <2>1. \A q \in tagged, r \in Routers : Needs(r, q) => Needs(r, q)' /\ AddressOf(q)' = AddressOf(q)
    BY <1>1, <1>8, MadeNeeds
  <2>2. ~Joins(b) /\ ~Deleting(c) /\ UNCHANGED <<tagged, registered, untold>>
    BY <1>0, <1>1, <1>3, <1>8 DEF CommitCompute, CommitOther, Goto, Call, Joins, Deleting, portVars
  <2>. QED
    BY <1>0, <1>5, <2>1, <2>2
<1>9. CASE ReadRouters(w) \/ CreateEnds(w)
  <2>1. UNCHANGED <<ports, allocations, portVars, registered, untold>> /\ ~Joins(b) /\ ~Deleting(c)
    BY <1>0, <1>1, <1>3, <1>9 DEF ReadRouters, CreateEnds, Registered, ipVars, Call, CallOK, Joins, Deleting
  <2>. QED
    BY <1>0, <1>4, <2>1
<1>10. CASE SaveTags(w)
  <2>1. /\ b.pc = "saving" /\ UNCHANGED <<ports, allocations, owner, device, registered, untold>>
        /\ tagged \subseteq tagged'
    BY <1>0, <1>10 DEF SaveTags, ipVars
  <2>2. b.op = "compute" /\ ports[b.port] # None
    BY <1>1, <2>1 DEF CallOK, About, InTx
  <2>3. ~Joins(b) /\ ~Deleting(c)
    BY <1>0, <1>1, <1>10, <2>1, <2>2 DEF SaveTags, Call, Joins, Deleting
  <2>4. Explained(c, u)'
    BY <1>1, <2>1, <2>3, SameNeeds, KeepExplained
  <2>. QED
    BY <1>0, <1>2, <2>3, <2>4
<1>11. CASE ReadPorts(w)
  <2>1. UNCHANGED <<ports, allocations, portVars, registered, untold>> /\ ~Joins(b) /\ ~Deleting(c)
    BY <1>0, <1>1, <1>11 DEF ReadPorts, ipVars, Call, Joins, Deleting
  <2>. QED
    BY <1>0, <1>4, <2>1
<1>12. ASSUME NEW committed \in BOOLEAN, Register(w, committed)
       PROVE  Explained(c, u)' /\ Forgetting(c)'
  <2>1. PICK n \in Turn(w) :
          /\ registered' = [registered EXCEPT ![n.router] = @ \cup {n.address}]
          /\ call' = [call EXCEPT ![w].pc = IF committed THEN @ ELSE "undo", ![w].todo = @ \ {n}]
    BY <1>12 DEF Register
  <2>2. /\ b.pc = "registering" /\ (committed \/ b.op = "compute")
        /\ n \in b.todo /\ n \in Notice
        /\ UNCHANGED <<ports, allocations, portVars, tx, untold>>
    BY <1>0, <1>1, <1>12, <2>1 DEF Register, Turn, ipVars, Call
  <2>3. /\ c.pc = (IF committed THEN "registering" ELSE "undo") /\ c.op = b.op
        /\ c.routers = b.routers /\ t = u
    BY <1>0, <1>1, <2>1, <2>2 DEF Call
  <2>4. ~Deleting(c) /\ (Joins(c) <=> Joins(b))
    BY <1>1, <2>2, <2>3 DEF CallOK, Deleting, Joins
  <2>5. UNCHANGED <<ports, allocations, owner, device, tagged>>
    BY <2>2 DEF portVars
  <2>6. \A r, a : Founded(r, a)' <=> Founded(r, a)
    BY <2>5, SameNeeds DEF Founded
  <2>7. \A s : TaggedOn(s)' = TaggedOn(s)
    BY <2>5, SameTables
  <2>8. /\ n.router \in Routers
        /\ \A r \in Routers : \A a \in registered'[r] :
             a \in registered[r] \/ (r = n.router /\ a = n.address)
    BY <1>1, <2>1, <2>2 DEF Notice
  <2>9. \/ Founded(n.router, n.address)
        \/ Joins(b) /\ n.router \in b.routers /\ n.address \in TaggedOn(t.subnet)
    <3>1. CASE Joins(b)
      BY <1>1, <2>2, <3>1 DEF About, InTx, Joining, Joins, Notices
    <3>2. CASE ~Joins(b)
      <4>1. b.op = "compute" /\ ~InTx(b)
        BY <1>1, <2>2, <3>2 DEF CallOK, InTx, Joins
      <4>2. Telling(b) /\ owner[b.port] = "compute"
        BY <1>1, <2>2, <4>1 DEF About
      <4>3. n.router \in Attached(ports[b.port]) /\ n.address = AddressOf(b.port) /\ b.port \in tagged
        BY <2>2, <4>2 DEF Telling, Notices
      <4>. QED
        BY <4>2, <4>3 DEF Founded, Needs
    <3>. QED
      BY <3>1, <3>2
  <2>10. Explained(c, u)'
    <3>. SUFFICES ASSUME NEW r \in Routers, NEW a \in registered'[r]
                  PROVE  \/ Founded(r, a)' \/ [router |-> r, address |-> a] \in untold'
                         \/ Joins(c) /\ r \in c.routers /\ a \in TaggedOn(u.subnet)'
      BY DEF Explained, Joins
    <3>1. CASE a \in registered[r]
      BY <1>1, <2>2, <2>3, <2>4, <2>6, <2>7, <3>1 DEF Explained
    <3>2. CASE r = n.router /\ a = n.address
      BY <2>3, <2>4, <2>6, <2>7, <2>9, <3>2
    <3>. QED
      BY <2>8, <3>1, <3>2
  <2>. QED
    BY <1>0, <1>2, <2>4, <2>10
<1>13. CASE CommitInterface(w)
  <2>1. /\ BecomesRouterPort(w, "interface") /\ b.op = "interface" /\ b.pc = "registering"
        /\ untold' = untold \cup Notices(b.routers, {AddressOf(p) : p \in {q \in changed : ports[q] = t.subnet}})
    BY <1>0, <1>13 DEF CommitInterface, Registered, Untold
  <2>2. c = NoCall /\ UNCHANGED <<tagged, registered>>
    BY <1>0, <1>1, <2>1 DEF BecomesRouterPort
  <2>3. b.routers = Attached(t.subnet) \cup {b.router}
    BY <1>1, <2>1 DEF About, InTx, Joining
  <2>4. /\ \A q \in Ports : owner[q] = "compute" => owner'[q] = "compute" /\ AddressOf(q)' = AddressOf(q)
        /\ \A q \in Ports, r \in Routers :
             Needs(r, q)' <=> \/ Needs(r, q)
                              \/ owner[q] = "compute" /\ ports[q] = t.subnet /\ r = b.router
    <3>1. /\ \A q \in Ports : owner[q] = "compute" => owner'[q] = "compute" /\ AddressOf(q)' = AddressOf(q)
          /\ \A q \in Ports, r \in Routers :
               Needs(r, q)' <=> \/ Needs(r, q)
                                \/ owner[q] = "compute" /\ ports[q] = tx[w].subnet /\ r = call[w].router
      BY <1>0, <1>1, <2>1, JoinedNeeds
    <3>. QED
      BY <1>0, <3>1, Zenon
  <2>5. ASSUME NEW r \in Routers, NEW a \in registered'[r]
        PROVE  Founded(r, a)' \/ [router |-> r, address |-> a] \in untold'
    <3>1. CASE Founded(r, a)
      <4>1. PICK p \in tagged : Needs(r, p) /\ AddressOf(p) = a
        BY <3>1 DEF Founded
      <4>2. owner[p] = "compute" /\ p \in Ports
        BY <1>1, <4>1 DEF Needs
      <4>. QED
        BY <2>2, <2>4, <4>1, <4>2 DEF Founded
    <3>2. CASE [router |-> r, address |-> a] \in untold
      BY <2>1, <3>2
    <3>3. CASE r \in b.routers /\ a \in TaggedOn(t.subnet)
      <4>1. PICK p \in tagged : ports[p] = t.subnet /\ a = AddressOf(p)
        BY <3>3 DEF TaggedOn
      <4>2. CASE p \in changed
        BY <2>1, <3>3, <4>1, <4>2 DEF Notices
      <4>3. CASE p \notin changed
        <5>1. owner[p] = "compute" /\ p \in Ports
          BY <1>1, <4>1, <4>3 DEF Home
        <5>2. Needs(r, p)'
          BY <2>3, <2>4, <3>3, <4>1, <5>1 DEF Needs
        <5>. QED
          BY <2>2, <2>4, <4>1, <5>1, <5>2 DEF Founded
      <4>. QED
        BY <4>2, <4>3
    <3>. QED
      BY <1>1, <2>2, <3>1, <3>2, <3>3 DEF Explained
  <2>6. Explained(c, u)'
    BY <2>5 DEF Explained
  <2>. QED
    BY <1>0, <1>2, <1>3, <2>2, <2>6
<1>14. CASE CommitGateway(w)
  <2>1. BecomesRouterPort(w, "gateway") /\ call[w].op = "gateway" /\ b.pc = "allocating" /\ untold \subseteq untold'
    BY <1>0, <1>14 DEF CommitGateway, Untold
  <2>2. c = NoCall /\ UNCHANGED <<tagged, registered>>
    BY <1>0, <1>1, <2>1 DEF BecomesRouterPort
  <2>3. \A q \in Ports, r \in Routers : Needs(r, q) => Needs(r, q)' /\ AddressOf(q)' = AddressOf(q)
    BY <1>1, <2>1, JoinedNeeds DEF Needs
  <2>. QED
    BY <1>0, <1>1, <1>3, <1>5, <2>1, <2>2, <2>3 DEF Joins
<1>15. CASE CommitUpdate(w)
  <2>1. /\ b.pc = "allocating" /\ c = NoCall /\ untold \subseteq untold' /\ UNCHANGED <<tagged, registered>>
    BY <1>0, <1>1, <1>15 DEF CommitUpdate, Untold, portVars
  <2>2. PICK p : p = call[w].port
    OBVIOUS
  <2>3. /\ \A q \in Ports, r \in Routers : Needs(r, q)' <=> Needs(r, q)
        /\ \A q \in Ports : q # p => AddressOf(q)' = AddressOf(q)
        /\ \A r \in Routers : Needs(r, p) => Note(r, p) \in untold'
    BY <1>1, <1>15, <2>2, UpdatedNeeds
  <2>. QED
    BY <1>0, <1>1, <1>3, <1>5, <2>1, <2>3 DEF Joins
<1>16. CASE Register(w, TRUE) \/ Register(w, FALSE)
  BY <1>0, <1>12, <1>16
<1>. QED
  BY <1>6, <1>7, <1>8, <1>9, <1>10, <1>11, <1>13, <1>14, <1>15, <1>16 DEF CreateStep

\* Steps of a deletion keep the account: a router that leaves is forgotten first.
LEMMA DeleteStale ==
  ASSUME StaleInv, NEW w \in Workers, DeleteStep(w)
  PROVE  Explained(call[w], tx[w])' /\ Forgetting(call[w])'
<1>0. PICK b, t, c, u : b = call[w] /\ t = tx[w] /\ c = call'[w] /\ u = tx'[w]
  OBVIOUS
<1>1. /\ Explained(b, t) /\ Forgetting(b) /\ HomeInv /\ Home /\ call \in [Workers -> Call] /\ b \in Call
      /\ CallOK(b, t) /\ About(b, t) /\ tagged \subseteq Ports /\ None \notin Routers
      /\ registered \in [Routers -> SUBSET Address] /\ DriverOK
  BY <1>0, MlConstants DEF StaleInv, HomeInv, PortsInv, MlTypeInv, DriverOK
<1>2. ~Deleting(c) => Forgetting(c)'
  BY DEF Forgetting, Deleting
<1>3. ~Deleting(NoCall) /\ ~Joins(NoCall)
  BY DEF NoCall, Deleting, Joins
<1>4. ASSUME UNCHANGED <<ports, allocations, portVars, registered, untold>>,
             b.pc \in {"deleted", "committing"} \/ (b.pc = "unregistering" /\ b.todo = {}),
             c = NoCall \/ (c.pc # "unregistering" /\ c.op = b.op /\ c.router = b.router
                              /\ c.port = b.port /\ c.todo = b.todo)
      PROVE  Explained(c, u)' /\ Forgetting(c)'
  <2>1. ~Joins(b)
    BY <1>4 DEF Joins
  <2>2. Deleting(c) => Deleting(b) /\ c.port = b.port /\ c.todo = b.todo
    BY <1>3, <1>4 DEF Deleting
  <2>. QED
    BY <1>1, <1>4, <2>1, <2>2, SameExplained, SameForgetting
<1>5. CASE UndoCreate(w)
  <2>1. b.pc = "undo" /\ b.port \in Ports /\ UNCHANGED <<ports, allocations, portVars, registered, untold>>
    BY <1>0, <1>1, <1>5 DEF UndoCreate, ipVars, CallOK
  <2>2. Explained(c, u)'
    BY <1>1, <2>1, SameExplained DEF Joins
  <2>3. CASE BeginDelete(w, b.port)
    <3>1. Forgetting(call[w])'
      BY <1>1, <2>1, <2>3, BeginForgetting
    <3>. QED
      BY <1>0, <2>2, <3>1
  <2>4. CASE c = NoCall
    BY <1>0, <1>2, <1>3, <2>2, <2>4
  <2>. QED
    BY <1>0, <1>1, <1>5, <2>3, <2>4 DEF UndoCreate
<1>6. CASE Unregister(w)
  <2>1. PICK n \in Turn(w) :
          /\ registered' = [registered EXCEPT ![n.router] = @ \ {n.address}]
          /\ call' = [call EXCEPT ![w].todo = @ \ {n}]
    BY <1>6 DEF Unregister
  <2>2. /\ b.pc = "unregistering" /\ n \in Notice /\ UNCHANGED <<ports, allocations, portVars, untold>>
    BY <1>0, <1>1, <1>6, <2>1 DEF Unregister, Turn, ipVars, Call
  <2>3. /\ c.pc = b.pc /\ c.port = b.port /\ c.todo = b.todo \ {n}
    BY <1>0, <1>1, <2>1 DEF Call
  <2>4. UNCHANGED <<ports, allocations, owner, device, tagged>>
    BY <2>2 DEF portVars
  <2>5. /\ n.router \in Routers /\ n = [router |-> n.router, address |-> n.address]
        /\ \A r \in Routers : \A a \in registered'[r] :
             a \in registered[r] /\ ~(r = n.router /\ a = n.address)
    BY <1>1, <2>1, <2>2 DEF Notice
  <2>6. Explained(c, u)'
    BY <1>1, <2>2, <2>4, <2>5, SameNeeds, KeepExplained DEF Joins
  <2>7. ASSUME NEW r \in Routers, NEW p \in tagged, Drops(b, p), Needs(r, p), AddressOf(p) \in registered'[r]
        PROVE  Note(r, p) \in c.todo
    <3>1. Note(r, p) \in b.todo
      BY <1>1, <2>2, <2>5, <2>7 DEF Forgetting, Deleting
    <3>2. Note(r, p) # n
      BY <2>5, <2>7 DEF Note
    <3>. QED
      BY <2>3, <3>1, <3>2
  <2>8. Forgetting(c)'
    BY <2>3, <2>4, <2>7, SameNeeds DEF Forgetting, Drops, Note
  <2>. QED
    BY <1>0, <2>6, <2>8
<1>7. CASE CommitDelete(w)
  <2>1. /\ b.pc = "unregistering" /\ b.todo = {} /\ c = [b EXCEPT !.pc = "deleted"]
        /\ UNCHANGED <<registered, untold>>
    BY <1>0, <1>1, <1>7 DEF CommitDelete, Goto
  <2>2. /\ c.pc = "deleted" /\ c.op = b.op /\ c.router = b.router /\ c.port = b.port /\ c.todo = b.todo
    BY <1>1, <2>1 DEF Call
  <2>3. CASE b.router # None
    <3>1. UNCHANGED <<ports, allocations, portVars>>
      BY <1>0, <1>7, <2>3 DEF CommitDelete
    <3>. QED
      BY <1>0, <1>4, <2>1, <2>2, <3>1
  <2>4. CASE b.router = None
    <3>1. PICK p : p = b.port
      OBVIOUS
    <3>2. Gone(p)
      BY <1>0, <1>7, <2>4, <3>1 DEF CommitDelete
    <3>3. p \in Ports /\ ports[p] # None /\ device[p] = None
      BY <1>1, <2>1, <2>4, <3>1 DEF About, CallOK, Deleting
    <3>4. /\ tagged' = tagged \ {p}
          /\ \A q \in Ports : q # p => AddressOf(q)' = AddressOf(q)
          /\ \A q \in Ports, r \in Routers : Needs(r, q)' <=> q # p /\ Needs(r, q)
      BY <1>1, <3>2, <3>3, GoneNeeds
    <3>5. \A r \in Routers : p \in tagged /\ Needs(r, p) => AddressOf(p) \notin registered'[r]
      BY <1>1, <2>1, <3>1 DEF Forgetting, Deleting, Drops
    <3>6. \A r \in Routers, q \in tagged :
            Needs(r, q) => \/ q \in tagged' /\ Needs(r, q)' /\ AddressOf(q)' = AddressOf(q)
                           \/ AddressOf(q) \notin registered'[r]
      BY <1>1, <3>4, <3>5
    <3>7. Explained(c, u)'
      BY <1>1, <2>1, <3>6, KeepExplained DEF Joins
    <3>8. ~Deleting(c)
      BY <2>2, <2>4 DEF Deleting
    <3>. QED
      BY <1>0, <1>2, <3>7, <3>8
  <2>. QED
    BY <2>3, <2>4
<1>8. CASE TakeParams(w) \/ CommitDevice(w)
  <2>1. UNCHANGED <<ports, allocations, portVars, registered, untold>>
    BY <1>8 DEF TakeParams, CommitDevice, ipVars
  <2>2. /\ b.pc \in {"deleted", "committing"} /\ c.pc = "committing" /\ c.op = b.op
        /\ c.router = b.router /\ c.port = b.port /\ c.todo = b.todo
    BY <1>0, <1>1, <1>8 DEF TakeParams, CommitDevice, Call
  <2>. QED
    BY <1>0, <1>4, <2>1, <2>2
<1>9. CASE DeleteEnds(w)
  <2>1. UNCHANGED <<ports, allocations, portVars, registered, untold>>
    BY <1>9 DEF DeleteEnds, ipVars
  <2>2. b.pc = "committing" /\ (c = NoCall \/ c = [b EXCEPT !.pc = "removing"])
    BY <1>0, <1>1, <1>9 DEF DeleteEnds
  <2>3. c # NoCall => c.pc = "removing" /\ c.op = b.op /\ c.router = b.router /\ c.port = b.port
                        /\ c.todo = b.todo
    BY <1>1, <2>2 DEF Call
  <2>. QED
    BY <1>0, <1>4, <2>1, <2>2, <2>3
<1>10. CASE CommitRemoval(w)
  <2>1. /\ b.pc = "removing" /\ c = NoCall /\ untold \subseteq untold' /\ UNCHANGED registered
    BY <1>0, <1>1, <1>10 DEF CommitRemoval, Untold
  <2>2. PICK p : p = b.port
    OBVIOUS
  <2>3. b.todo = {} /\ Deleting(b) /\ device[p] # None
    BY <1>1, <2>1, <2>2 DEF About, CallOK, Deleting
  <2>4. /\ p \in Ports /\ owner[p] # "compute" /\ tagged' = tagged \ {p}
        /\ \A q \in Ports : q # p => AddressOf(q)' = AddressOf(q)
        /\ \A q \in Ports, r \in Routers :
             Needs(r, q)' <=> Needs(r, q) /\ ~(ports[q] = ports[p] /\ r = device[p])
        /\ \A q \in Ports, r \in Routers :
             /\ Needs(r, q) /\ ports[q] = ports[p]
             /\ IF owner[p] = "gateway" THEN r = device[p] ELSE r # device[p]
             => Note(r, q) \in untold'
    BY <1>0, <1>1, <1>10, <2>2, LeftNeeds
  <2>5. owner[p] \in {"interface", "gateway"}
    BY <1>1, <2>3, <2>4 DEF Home
  <2>6. ASSUME NEW r \in Routers, NEW q \in tagged, Needs(r, q)
        PROVE  \/ q \in tagged' /\ Needs(r, q)' /\ AddressOf(q)' = AddressOf(q)
               \/ Note(r, q) \in untold'
               \/ AddressOf(q) \notin registered'[r]
    <3>1. q # p /\ q \in Ports /\ q \in tagged'
      BY <1>1, <2>4, <2>6 DEF Needs
    <3>2. CASE ~(ports[q] = ports[p] /\ r = device[p])
      BY <2>4, <2>6, <3>1, <3>2
    <3>3. CASE ports[q] = ports[p] /\ r = device[p] /\ owner[p] = "gateway"
      BY <2>4, <2>6, <3>1, <3>3
    <3>4. CASE ports[q] = ports[p] /\ r = device[p] /\ owner[p] = "interface"
      BY <1>1, <2>1, <2>2, <2>3, <2>6, <3>4 DEF Forgetting, Drops
    <3>. QED
      BY <2>5, <3>2, <3>3, <3>4
  <2>7. Explained(c, u)'
    BY <1>1, <2>1, <2>6, KeepExplained DEF Joins
  <2>. QED
    BY <1>0, <1>2, <1>3, <2>1, <2>7
<1>. QED
  BY <1>5, <1>6, <1>7, <1>8, <1>9, <1>10 DEF DeleteStep

\* A failure keeps the account, unless it takes away an interface that was told of.
LEMMA FailsStale ==
  ASSUME StaleInv, "interface" \notin FaultyOps, NEW w \in Workers, Fails(w)
  PROVE  Explained(call[w], tx[w])' /\ Forgetting(call[w])'
<1>0. PICK b, t, c, u : b = call[w] /\ t = tx[w] /\ c = call'[w] /\ u = tx'[w]
  OBVIOUS
<1>1. /\ Explained(b, t) /\ Forgetting(b) /\ call \in [Workers -> Call] /\ b \in Call
      /\ CallOK(b, t) /\ About(b, t)
  BY <1>0 DEF StaleInv, HomeInv, PortsInv, MlTypeInv
<1>2. /\ c = AfterFailure(b) /\ MayFail(b) /\ b.op \in FaultyOps
      /\ UNCHANGED <<ports, allocations, portVars, registered, untold>>
  BY <1>0, <1>1 DEF Fails
<1>3. ~Joins(b)
  BY <1>2 DEF Joins
<1>4. Deleting(c) => Deleting(b) /\ c.port = b.port /\ c.todo = b.todo
  BY <1>1, <1>2 DEF AfterFailure, Deleting, NoCall, Call
<1>5. Explained(c, u)' /\ Forgetting(c)'
  BY <1>1, <1>2, <1>3, <1>4, SameExplained, SameForgetting
<1>. QED
  BY <1>0, <1>5

\* One request at a time, every step keeps the account.
LEMMA NextStale ==
  ASSUME OneWorker, "interface" \notin FaultyOps, StaleInv, [MlNext]_mlVars
  PROVE  StaleInv'
<1>0. HomeInv'
  BY NextHome DEF StaleInv
<1>1. CASE UNCHANGED mlVars
  <2>1. UNCHANGED <<ports, allocations, owner, device, tagged, registered, untold, tx, call>>
    BY <1>1 DEF mlVars, ipVars, driverVars, portVars
  <2>2. ASSUME NEW c, NEW t, Explained(c, t), Forgetting(c) PROVE Explained(c, t)' /\ Forgetting(c)'
    BY <2>1, <2>2, SameNeeds, SameTables DEF Explained, Forgetting, Founded, Drops, Note, Joins, Deleting
  <2>3. ASSUME NEW w \in Workers PROVE Explained(call[w], tx[w])' /\ Forgetting(call[w])'
    <3>1. PICK c, t : c = call[w] /\ t = tx[w]
      OBVIOUS
    <3>2. Explained(c, t)' /\ Forgetting(c)'
      BY <2>2, <3>1 DEF StaleInv
    <3>. QED
      BY <2>1, <3>1, <3>2
  <2>. QED
    BY <1>0, <2>3 DEF StaleInv
<1>2. ASSUME NEW w \in Workers, MlRequest(w) \/ CreateStep(w) \/ DeleteStep(w) \/ Fails(w)
      PROVE  StaleInv'
  <2>1. Explained(call[w], tx[w])' /\ Forgetting(call[w])'
    BY <1>2, RequestStale, CreateStale, DeleteStale, FailsStale
  <2>2. \A v \in Workers : v = w
    BY <1>2 DEF OneWorker
  <2>. QED
    BY <1>0, <2>1, <2>2 DEF StaleInv
<1>. QED
  BY <1>1, <1>2 DEF MlNext

\* What a device should know are the instances' ports on the networks of its router.
LEMMA KnownMeans ==
  ASSUME HomeInv, NEW r \in Routers
  PROVE  Known(r) = {AddressOf(p) : p \in {q \in Ports : Needs(r, q)}}
<1>1. \A p \in Ports : Needs(r, p) => ports[p] \in Subnets
  BY InstanceIsThere DEF Needs
<1>. QED
  BY <1>1 DEF Known, InstancesOn, Needs

\* One request at a time, for any networks, ports and routers, and whichever calls of a
\* deletion or of a port's creation fail: a device keeps no address of an instance that
\* is gone, or that is no longer behind its router, but for those no hook told it of.
THEOREM SerialNoStaleTag ==
  ASSUME OneWorker, "interface" \notin FaultyOps
  PROVE  MlSpec => []NoStaleTag
<1>1. MlInit => StaleInv
  BY InitHome DEF MlInit, StaleInv, Explained, Forgetting, Deleting, NoCall
<1>2. MlSpec => []StaleInv
  BY <1>1, NextStale, PTL DEF MlSpec
<1>3. ASSUME StaleInv, Quiet, NEW r \in Routers, NEW a \in registered[r]
      PROVE  a \in Known(r) \cup UntoldTo(r)
  <2>1. PICK w \in Workers : TRUE
    BY DEF OneWorker
  <2>2. PICK c, t : c = call[w] /\ t = tx[w]
    OBVIOUS
  <2>3. Explained(c, t) /\ HomeInv /\ ~Joins(c) /\ tagged \subseteq Ports
    BY <1>3, <2>2 DEF StaleInv, Quiet, Idle, Joins, HomeInv, PortsInv, MlTypeInv, DriverOK
  <2>4. Founded(r, a) \/ [router |-> r, address |-> a] \in untold
    BY <1>3, <2>3 DEF Explained
  <2>5. Founded(r, a) => a \in Known(r)
    BY <2>3, KnownMeans DEF Founded
  <2>6. [router |-> r, address |-> a] \in untold => a \in UntoldTo(r)
    <3>1. ASSUME NEW n \in untold, n = [router |-> r, address |-> a] PROVE a \in UntoldTo(r)
      BY <3>1 DEF UntoldTo
    <3>. QED
      BY <3>1
  <2>. QED
    BY <2>4, <2>5, <2>6
<1>4. StaleInv => NoStaleTag
  BY <1>3 DEF NoStaleTag
<1>. QED
  BY <1>2, <1>4, PTL

-----------------------------------------------------------------------------
(* Every port is known, one request at a time.                             *)

\* The port of an instance that is made now, before it has tags.
Making(c, p) == c.op = "compute" /\ c.pc \in {"created", "saving"} /\ p = c.port

\* What a device need not know of a port yet, or any more.
Excused(c, r, p) ==
  \/ Making(c, p)
  \/ c.op = "compute" /\ c.pc = "registering" /\ Note(r, p) \in c.todo
  \/ Deleting(c) /\ Drops(c, p)

\* It knows of it, or was not told, or will be.
Fine(c, r, p) == AddressOf(p) \in registered[r] \/ Note(r, p) \in untold \/ Excused(c, r, p)

\* It is so of every instance behind its router,
Served(c) == \A r \in Routers, p \in Ports : Needs(r, p) => Fine(c, r, p)

\* each with tags, unless it was given a port that was there,
Tagging(c) == \A p \in Ports \ changed : owner[p] = "compute" => p \in tagged \/ Making(c, p)

\* and of those on the network a router is about to come to.
Gathering(c, t) ==
  Joins(c) => \A p \in tagged, r \in c.routers :
    ports[p] = t.subnet => AddressOf(p) \in registered[r] \/ Note(r, p) \in c.todo

\* All that, when no call failed.
ToldOf(c, t) == c.pc # "undo" /\ Served(c) /\ Tagging(c) /\ Gathering(c, t)

\* The inductive invariant of EveryPortIsKnown.
KnownInv == HomeInv /\ \A w \in Workers : faults = 0 => ToldOf(call[w], tx[w])

\* A step that forgets nothing serves the same, but for what is new and what was excused.
LEMMA KeepServed ==
  ASSUME NEW b, NEW c, Served(b), untold \subseteq untold',
         \A r \in Routers : registered[r] \subseteq registered'[r],
         \A r \in Routers, p \in Ports :
           Needs(r, p)' => \/ Fine(c, r, p)'
                           \/ Needs(r, p) /\ AddressOf(p)' = AddressOf(p) /\ ~Excused(b, r, p)
  PROVE  Served(c)'
<1>. SUFFICES ASSUME NEW r \in Routers, NEW p \in Ports, Needs(r, p)' PROVE Fine(c, r, p)'
  BY DEF Served
<1>1. ASSUME Needs(r, p), AddressOf(p)' = AddressOf(p), ~Excused(b, r, p) PROVE Fine(c, r, p)'
  <2>1. AddressOf(p) \in registered[r] \/ Note(r, p) \in untold
    BY <1>1 DEF Served, Fine
  <2>2. Note(r, p)' = Note(r, p)
    BY <1>1 DEF Note
  <2>. QED
    BY <1>1, <2>1, <2>2 DEF Fine
<1>. QED
  BY <1>1

\* A step that leaves the tables, and whose call is excused as before.
LEMMA SameServed ==
  ASSUME NEW b, NEW c, Served(b), UNCHANGED <<ports, allocations, owner, device, untold>>,
         \A r \in Routers : registered[r] \subseteq registered'[r],
         \A r \in Routers, p \in Ports : Excused(b, r, p) => Fine(c, r, p)'
  PROVE  Served(c)'
BY SameNeeds, KeepServed

\* Most calls excuse nothing.
LEMMA NoExcuse ==
  ASSUME NEW c, ~Deleting(c), c.op # "compute" \/ c.pc \notin {"created", "saving", "registering"}
  PROVE  \A r, p : ~Excused(c, r, p)
BY DEF Excused, Making

\* Of a call that does no more than begin, or end, nothing is excused.
LEMMA PlainTold ==
  ASSUME NEW b, NEW t, NEW c, NEW u, ToldOf(b, t), c.pc # "undo", ~Joins(c),
         untold \subseteq untold', UNCHANGED <<tagged, registered>>,
         \A r, p : ~Excused(b, r, p),
         \A p \in Ports \ changed' : owner'[p] = "compute" => p \in Ports \ changed /\ owner[p] = "compute",
         \A r \in Routers, p \in Ports :
           Needs(r, p)' => \/ Note(r, p)' \in untold'
                           \/ Needs(r, p) /\ AddressOf(p)' = AddressOf(p)
  PROVE  ToldOf(c, u)'
<1>1. Served(c)'
  BY KeepServed DEF ToldOf, Fine
<1>2. \A p : ~Making(b, p)
  BY DEF Excused
<1>3. Tagging(c)'
  BY <1>2 DEF ToldOf, Tagging
<1>. QED
  BY <1>1, <1>3 DEF ToldOf, Gathering, Joins

\* Steps that leave the tables and devices, where the call is excused as before.
LEMMA SameTold ==
  ASSUME NEW b, NEW t, NEW c, NEW u, ToldOf(b, t), c.pc # "undo", ~Joins(c),
         UNCHANGED <<ports, allocations, portVars, registered, untold>>,
         \A p \in Ports : Making(b, p) => Making(c, p),
         \A r \in Routers, p \in Ports : Excused(b, r, p) => Fine(c, r, p)'
  PROVE  ToldOf(c, u)'
<1>1. UNCHANGED <<owner, device, tagged, changed>>
  BY DEF portVars
<1>2. Served(c)'
  BY <1>1, SameServed DEF ToldOf
<1>3. Tagging(c)'
  BY <1>1 DEF ToldOf, Tagging, Making
<1>. QED
  BY <1>2, <1>3 DEF ToldOf, Gathering, Joins

\* Requests keep it.
LEMMA RequestKnown ==
  ASSUME KnownInv, NEW w \in Workers, MlRequest(w), faults' = 0
  PROVE  ToldOf(call[w], tx[w])'
<1>0. PICK b, t, c, u : b = call[w] /\ t = tx[w] /\ c = call'[w] /\ u = tx'[w]
  OBVIOUS
<1>1. HomeInv /\ MlTypeInv /\ call \in [Workers -> Call]
  BY DEF KnownInv, HomeInv, PortsInv, MlTypeInv
<1>2. ~Deleting(NoCall) /\ ~Joins(NoCall)
  BY DEF NoCall, Deleting, Joins
<1>3. b.pc = "idle" /\ faults' = faults
  BY <1>0 DEF MlRequest, SubnetRequest, CreatePort, UpdatePort, UpdateFixedIps, UpdateOwner, Delete,
     RouterRequest, AddInterfaceByPort, AddInterface, SetGateway, Idle, driverVars
<1>4. ToldOf(b, t) /\ b = NoCall
  BY <1>0, <1>1, <1>3 DEF KnownInv, MlTypeInv, CallOK
<1>5. \A r, p : ~Excused(b, r, p) /\ ~Making(b, p)
  BY <1>2, <1>3, <1>4, NoExcuse DEF Making
<1>6. ASSUME UNCHANGED <<ports, allocations, portVars, registered, untold>>, c.pc # "undo", ~Joins(c)
      PROVE  ToldOf(c, u)'
  BY <1>4, <1>5, <1>6, SameTold
<1>7. ASSUME NEW p \in Ports, Delete(w, p) PROVE ToldOf(c, u)'
  <2>1. BeginDelete(w, p) /\ UNCHANGED <<ports, allocations, portVars, registered, untold>>
    BY <1>7 DEF Delete
  <2>2. c.pc = "unregistering"
    BY <1>0, <1>1, <2>1, BeginCall
  <2>. QED
    BY <1>6, <2>1, <2>2 DEF Joins
<1>8. ASSUME NEW s \in Subnets, SubnetRequest(w, s) PROVE ToldOf(c, u)'
  <2>1. UNCHANGED <<ports, allocations, portVars, registered, untold>> /\ c = b
    BY <1>0, <1>8 DEF SubnetRequest, CreateSubnet, DeleteSubnet, driverVars
  <2>. QED
    BY <1>3, <1>6, <2>1 DEF Joins
<1>9. ASSUME NEW p, NEW s, NEW op, NEW ip, CreatePort(w, op, p, s, ip) PROVE ToldOf(c, u)'
  <2>1. UNCHANGED <<ports, allocations, portVars, registered, untold>> /\ c.pc = "allocating"
    BY <1>0, <1>1, <1>9 DEF CreatePort, StartCreate, NoCall
  <2>. QED
    BY <1>6, <2>1 DEF Joins
<1>10. ASSUME NEW p, NEW s, NEW r, AddInterface(w, r, p, s) PROVE ToldOf(c, u)'
  <2>1. UNCHANGED <<ports, allocations, portVars, registered, untold>> /\ c.pc = "allocating"
    BY <1>0, <1>1, <1>10 DEF AddInterface, StartCreate, NoCall
  <2>. QED
    BY <1>6, <2>1 DEF Joins
<1>11. ASSUME NEW p, NEW s, NEW r, SetGateway(w, r, p, s) PROVE ToldOf(c, u)'
  <2>1. UNCHANGED <<ports, allocations, portVars, registered, untold>> /\ c.pc = "allocating"
    BY <1>0, <1>1, <1>11 DEF SetGateway, StartCreate, NoCall
  <2>. QED
    BY <1>6, <2>1 DEF Joins
<1>12. ASSUME NEW p, NEW ip, UpdateFixedIps(w, p, ip) PROVE ToldOf(c, u)'
  <2>1. UNCHANGED <<ports, allocations, portVars, registered, untold>> /\ c.pc = "allocating"
    BY <1>0, <1>1, <1>12 DEF UpdateFixedIps, StartUpdate, NoCall
  <2>. QED
    BY <1>6, <2>1 DEF Joins
<1>13. ASSUME NEW p \in Ports, NEW r \in Routers, AddInterfaceByPort(w, r, p) PROVE ToldOf(c, u)'
  <2>1. /\ untold' = untold \cup Notices({r}, InstancesOn(ports[p]))
        /\ UNCHANGED <<tagged, changed, registered, call>> /\ c = NoCall
    BY <1>0, <1>4, <1>13 DEF AddInterfaceByPort, Untold
  <2>2. /\ \A q \in Ports : AddressOf(q)' = AddressOf(q) /\ (owner'[q] = "compute" <=> owner[q] = "compute")
        /\ \A q \in Ports, i \in Routers :
             Needs(i, q)' <=> Needs(i, q) \/ (owner[q] = "compute" /\ ports[q] = ports[p] /\ i = r)
    BY <1>1, <1>13, JoinedByPort
  <2>3. ASSUME NEW q \in Ports, owner[q] = "compute", ports[q] = ports[p] PROVE Note(r, q)' \in untold'
    <3>1. AddressOf(q)' \in InstancesOn(ports[p])
      BY <2>2, <2>3 DEF InstancesOn
    <3>. QED
      BY <2>1, <3>1 DEF Note, Notices
  <2>4. c.pc # "undo"
    BY <2>1 DEF NoCall
  <2>. QED
    BY <1>2, <1>4, <1>5, <2>1, <2>2, <2>3, <2>4, PlainTold
<1>14. ASSUME NEW p \in Ports, NEW what \in {"none", "compute"}, UpdateOwner(w, p, what)
       PROVE  ToldOf(c, u)'
  <2>1. /\ untold \subseteq untold' /\ changed' = changed \cup {p}
        /\ UNCHANGED <<tagged, registered, call>> /\ c = NoCall
    BY <1>0, <1>4, <1>14 DEF UpdateOwner, Untold
  <2>2. /\ \A q \in Ports : AddressOf(q)' = AddressOf(q)
        /\ \A q \in Ports : q # p => owner'[q] = owner[q]
        /\ \A q \in Ports, r \in Routers : q # p => (Needs(r, q)' <=> Needs(r, q))
        /\ \A r \in Routers : Needs(r, p)' => Note(r, p) \in untold'
    BY <1>1, <1>14, OwnedNeeds
  <2>3. \A r : Note(r, p)' = Note(r, p)
    BY <2>2 DEF Note
  <2>4. c.pc # "undo"
    BY <2>1 DEF NoCall
  <2>. QED
    BY <1>2, <1>4, <1>5, <2>1, <2>2, <2>3, <2>4, PlainTold
<1>15. ToldOf(c, u)'
  BY <1>7, <1>8, <1>9, <1>10, <1>11, <1>12, <1>13, <1>14 DEF MlRequest, RouterRequest, UpdatePort
<1>. QED
  BY <1>0, <1>15

\* The steps of a creation keep it.
LEMMA CreateKnown ==
  ASSUME KnownInv, NEW w \in Workers, CreateStep(w), faults' = 0
  PROVE  ToldOf(call[w], tx[w])'
<1>0. PICK b, t, c, u : b = call[w] /\ t = tx[w] /\ c = call'[w] /\ u = tx'[w]
  OBVIOUS
<1>1. /\ HomeInv /\ MlTypeInv /\ call \in [Workers -> Call] /\ b \in Call /\ CallOK(b, t) /\ About(b, t)
      /\ Home /\ DriverOK /\ tagged \subseteq Ports /\ faults \in Nat
      /\ registered \in [Routers -> SUBSET Address] /\ None \notin Routers
  BY <1>0, MlConstants DEF KnownInv, HomeInv, PortsInv, MlTypeInv, DriverOK
<1>2. ~Deleting(NoCall) /\ ~Joins(NoCall) /\ NoCall.pc # "undo"
  BY DEF NoCall, Deleting, Joins
<1>3. CASE AllocateAddress(w)
  <2>1. /\ b.pc = "allocating" /\ c = b /\ UNCHANGED <<ports, allocations, driverVars>>
    BY <1>0, <1>1, <1>3, AllocateAbout DEF driverVars
  <2>2. UNCHANGED <<portVars, registered, untold, faults>>
    BY <2>1 DEF driverVars
  <2>3. ToldOf(b, t) /\ ~Joins(b) /\ \A r, p : ~Excused(b, r, p) /\ ~Making(b, p)
    BY <1>0, <1>1, <2>1, <2>2 DEF KnownInv, Joins, Excused, Making, Deleting, CallOK
  <2>. QED
    BY <1>0, <2>1, <2>2, <2>3, SameTold
<1>4. CASE Refused(w)
  <2>1. c = NoCall /\ UNCHANGED <<ports, allocations, portVars, registered, untold, faults>>
    BY <1>0, <1>1, <1>4 DEF Refused, RebuildFails, CommitFails, WaitsTooLong
  <2>2. t.pc # "idle"
    BY <1>0, <1>4 DEF Refused, RebuildFails, CommitFails, WaitsTooLong, Done
  <2>3. ToldOf(b, t) /\ \A r, p : ~Excused(b, r, p) /\ ~Making(b, p)
    BY <1>0, <1>1, <2>1, <2>2 DEF KnownInv, InTx, Excused, Making, Deleting, CallOK
  <2>. QED
    BY <1>0, <1>2, <2>1, <2>3, SameTold
<1>5. CASE CommitCompute(w)
  <2>1. PICK p : p = call[w].port
    OBVIOUS
  <2>2. /\ b.pc = "allocating" /\ b.op = "compute" /\ b.port = p
        /\ c = [b EXCEPT !.pc = "created"] /\ UNCHANGED <<tagged, changed, registered, untold, faults>>
    BY <1>0, <1>1, <1>5, <2>1 DEF CommitCompute, Goto
  <2>3. c.pc = "created" /\ c.op = "compute" /\ c.port = p
    BY <1>1, <2>2 DEF Call
  <2>4. /\ \A q \in Ports : q # p => owner'[q] = owner[q] /\ AddressOf(q)' = AddressOf(q)
        /\ \A q \in Ports, r \in Routers : q # p => (Needs(r, q)' <=> Needs(r, q))
    BY <1>1, <1>5, <2>1, MadeNeeds
  <2>5. ToldOf(b, t) /\ \A r, q : ~Excused(b, r, q) /\ ~Making(b, q)
    BY <1>0, <1>1, <2>2 DEF KnownInv, Excused, Making, Deleting
  <2>6. \A r \in Routers : Fine(c, r, p)'
    BY <2>3 DEF Fine, Excused, Making
  <2>7. Served(c)'
    BY <2>2, <2>4, <2>5, <2>6, KeepServed DEF ToldOf
  <2>8. Tagging(c)'
    BY <2>2, <2>3, <2>4, <2>5 DEF ToldOf, Tagging, Making
  <2>9. ToldOf(c, u)'
    BY <2>3, <2>7, <2>8 DEF ToldOf, Gathering, Joins
  <2>. QED
    BY <1>0, <2>9
<1>6. CASE CommitOther(w)
  <2>1. PICK p : p = call[w].port
    OBVIOUS
  <2>2. b.pc = "allocating" /\ c = NoCall /\ UNCHANGED <<tagged, changed, registered, untold, faults>>
        /\ b.op = "other"
    BY <1>0, <1>1, <1>6 DEF CommitOther, portVars
  <2>3. /\ owner[p] = "none" /\ owner' = owner
        /\ \A q \in Ports : q # p => AddressOf(q)' = AddressOf(q)
        /\ \A q \in Ports, r \in Routers : q # p => (Needs(r, q)' <=> Needs(r, q))
    BY <1>1, <1>6, <2>1, MadeNeeds
  <2>4. \A r : ~Needs(r, p)'
    BY <2>3 DEF Needs
  <2>5. ToldOf(b, t) /\ \A r, q : ~Excused(b, r, q)
    BY <1>0, <1>1, <2>2 DEF KnownInv, Excused, Making, Deleting
  <2>6. ToldOf(c, u)'
    BY <1>2, <2>2, <2>3, <2>4, <2>5, PlainTold
  <2>. QED
    BY <1>0, <2>6
<1>7. CASE ReadRouters(w)
  <2>1. /\ b.pc = "created" /\ UNCHANGED <<ports, allocations, portVars, registered, untold, faults>>
        /\ c = [b EXCEPT !.pc = "saving", !.routers = Attached(ports[b.port])]
    BY <1>0, <1>1, <1>7 DEF ReadRouters, ipVars
  <2>2. c.pc = "saving" /\ c.op = "compute" /\ b.op = "compute" /\ c.port = b.port
    BY <1>1, <2>1 DEF Call, CallOK
  <2>3. /\ \A p : Making(b, p) => Making(c, p)
        /\ \A r, p : Excused(b, r, p) => Making(c, p)
    BY <2>1, <2>2 DEF Making, Excused, Deleting
  <2>4. \A r, p : Excused(b, r, p) => Fine(c, r, p)'
    BY <2>3 DEF Fine, Excused, Making
  <2>5. ToldOf(b, t)
    BY <1>0, <2>1 DEF KnownInv
  <2>. QED
    BY <1>0, <2>1, <2>2, <2>3, <2>4, <2>5, SameTold DEF Joins
<1>8. CASE SaveTags(w)
  <2>1. PICK p : p = b.port
    OBVIOUS
  <2>2. b.pc = "saving" /\ b.op = "compute" /\ p \in Ports /\ ports[p] # None
    BY <1>0, <1>1, <1>8, <2>1 DEF SaveTags, CallOK, About, InTx
  <2>3. /\ UNCHANGED <<ports, allocations, owner, device, changed, registered, untold, faults>>
        /\ tagged' = tagged \cup {p}
        /\ c = [b EXCEPT !.pc = "registering", !.todo = Notices(b.routers, {AddressOf(p)})]
    BY <1>0, <1>1, <1>8, <2>1, <2>2 DEF SaveTags, ipVars
  <2>4. c.pc = "registering" /\ c.op = "compute" /\ c.todo = Notices(b.routers, {AddressOf(p)})
    BY <1>1, <2>2, <2>3 DEF Call
  <2>5. ToldOf(b, t) /\ b.routers = Attached(ports[p])
    BY <1>0, <1>1, <2>1, <2>2, <2>3 DEF KnownInv, About
  <2>6. \A r, q : Excused(b, r, q) => q = p
    BY <2>1, <2>2 DEF Excused, Making, Deleting
  <2>7. ASSUME NEW r \in Routers, Needs(r, p) PROVE Fine(c, r, p)'
    <3>1. Note(r, p) \in c.todo /\ Note(r, p)' = Note(r, p)
      BY <2>3, <2>4, <2>5, <2>7, SameNeeds DEF Needs, Note, Notices
    <3>. QED
      BY <2>4, <3>1 DEF Fine, Excused
  <2>8. Served(c)'
    BY <2>3, <2>5, <2>6, <2>7, SameNeeds, KeepServed DEF ToldOf
  <2>9. Tagging(c)'
    BY <2>1, <2>3, <2>5 DEF ToldOf, Tagging, Making
  <2>10. ToldOf(c, u)'
    BY <2>4, <2>8, <2>9 DEF ToldOf, Gathering, Joins
  <2>. QED
    BY <1>0, <2>10
<1>9. CASE ReadPorts(w)
  <2>1. /\ b.pc = "allocating" /\ b.op = "interface"
        /\ UNCHANGED <<ports, allocations, portVars, registered, untold, faults, tx>>
        /\ c = [b EXCEPT !.pc = "registering", !.routers = Attached(t.subnet) \cup {b.router},
                         !.todo = Notices(Attached(t.subnet) \cup {b.router}, TaggedOn(t.subnet))]
    BY <1>0, <1>1, <1>9 DEF ReadPorts, ipVars
  <2>2. c.pc = "registering" /\ c.op = "interface" /\ c.todo = Notices(c.routers, TaggedOn(t.subnet))
    BY <1>1, <2>1 DEF Call
  <2>3. ToldOf(b, t) /\ (\A r, q : ~Excused(b, r, q) /\ ~Making(b, q)) /\ u = t
    BY <1>0, <1>1, <2>1 DEF KnownInv, Excused, Making, Deleting
  <2>4. UNCHANGED <<owner, device, tagged, changed>>
    BY <2>1 DEF portVars
  <2>5. Served(c)'
    BY <2>1, <2>3, <2>4, SameServed DEF ToldOf
  <2>6. Tagging(c)'
    BY <2>3, <2>4 DEF ToldOf, Tagging
  <2>7. ASSUME NEW p \in tagged, NEW r \in c.routers, ports[p] = t.subnet PROVE Note(r, p) \in c.todo
    BY <2>2, <2>7 DEF Note, Notices, TaggedOn
  <2>8. Gathering(c, u)'
    BY <2>1, <2>3, <2>4, <2>7, SameNeeds DEF Gathering, Note
  <2>9. ToldOf(c, u)'
    BY <2>2, <2>5, <2>6, <2>8 DEF ToldOf
  <2>. QED
    BY <1>0, <2>9
<1>10. ASSUME NEW committed \in BOOLEAN, Register(w, committed) PROVE ToldOf(c, u)'
  <2>1. PICK n \in Turn(w) :
          /\ registered' = [registered EXCEPT ![n.router] = @ \cup {n.address}]
          /\ call' = [call EXCEPT ![w].pc = IF committed THEN @ ELSE "undo", ![w].todo = @ \ {n}]
    BY <1>10 DEF Register
  <2>2. faults = 0 /\ committed
    BY <1>1, <1>10 DEF Register
  <2>3. /\ b.pc = "registering" /\ n \in b.todo /\ n \in Notice
        /\ UNCHANGED <<ports, allocations, portVars, tx, untold>>
    BY <1>0, <1>1, <1>10, <2>1 DEF Register, Turn, ipVars, Call
  <2>4. /\ c.pc = "registering" /\ c.op = b.op /\ c.port = b.port /\ c.routers = b.routers
        /\ c.todo = b.todo \ {n} /\ t = u
    BY <1>0, <1>1, <2>1, <2>2, <2>3 DEF Call
  <2>5. UNCHANGED <<owner, device, tagged, changed>>
    BY <2>3 DEF portVars
  <2>6. /\ n.router \in Routers /\ n = [router |-> n.router, address |-> n.address]
        /\ \A r \in Routers : registered[r] \subseteq registered'[r]
        /\ n.address \in registered'[n.router]
    BY <1>1, <2>1, <2>3 DEF Notice
  <2>7. ToldOf(b, t)
    BY <1>0, <2>2 DEF KnownInv
  <2>8. \A r, p : Note(r, p)' = Note(r, p) /\ AddressOf(p)' = AddressOf(p)
    BY <2>3, <2>5, SameNeeds DEF Note
  <2>9. \A r, p : r \in Routers /\ Note(r, p) = n => AddressOf(p)' \in registered'[r]
    BY <2>6, <2>8 DEF Note
  <2>10. ASSUME NEW r \in Routers, NEW p \in Ports, Excused(b, r, p) PROVE Fine(c, r, p)'
    <3>1. b.op = "compute" /\ Note(r, p) \in b.todo
      BY <1>1, <2>3, <2>10 DEF Excused, Making, Deleting, CallOK
    <3>2. CASE Note(r, p) = n
      BY <2>9, <3>2 DEF Fine
    <3>3. CASE Note(r, p) # n
      BY <2>4, <2>8, <3>1, <3>3 DEF Fine, Excused
    <3>. QED
      BY <3>2, <3>3
  <2>11. Served(c)'
    BY <2>3, <2>5, <2>6, <2>7, <2>10, SameServed DEF ToldOf
  <2>12. Tagging(c)'
    BY <2>3, <2>4, <2>5, <2>7 DEF ToldOf, Tagging, Making
  <2>13. Gathering(c, u)'
    <3>. SUFFICES ASSUME Joins(c), NEW p \in tagged, NEW r \in c.routers, ports[p] = u.subnet
                  PROVE  AddressOf(p)' \in registered'[r] \/ Note(r, p)' \in c.todo
      BY <2>3, <2>5 DEF Gathering, Joins
    <3>1. Joins(b) /\ r \in b.routers /\ ports[p] = t.subnet /\ r \in Routers
      BY <1>1, <2>3, <2>4 DEF Joins, Call
    <3>2. AddressOf(p) \in registered[r] \/ Note(r, p) \in b.todo
      BY <2>7, <3>1 DEF ToldOf, Gathering
    <3>. QED
      BY <2>4, <2>6, <2>8, <2>9, <3>1, <3>2
  <2>. QED
    BY <2>4, <2>11, <2>12, <2>13 DEF ToldOf
<1>11. CASE CreateEnds(w)
  <2>1. /\ b.pc = "registering" /\ b.op = "compute" /\ b.todo = {} /\ c = NoCall
        /\ UNCHANGED <<ports, allocations, portVars, registered, untold, faults>>
    BY <1>0, <1>1, <1>11 DEF CreateEnds, Registered, ipVars
  <2>2. ToldOf(b, t) /\ \A r, p : ~Excused(b, r, p) /\ ~Making(b, p)
    BY <1>0, <2>1 DEF KnownInv, Excused, Making, Deleting
  <2>. QED
    BY <1>0, <1>2, <2>1, <2>2, SameTold
<1>12. ASSUME NEW what \in {"interface", "gateway"}, BecomesRouterPort(w, what), b.op = what,
              untold \subseteq untold', faults = 0,
              \A r \in Routers, q \in Ports :
                owner[q] = "compute" /\ ports[q] = t.subnet /\ r = b.router
                  => AddressOf(q) \in registered[r] \/ Note(r, q) \in untold'
       PROVE  ToldOf(c, u)'
  <2>1. c = NoCall /\ UNCHANGED <<tagged, changed, registered>>
    BY <1>0, <1>1, <1>12 DEF BecomesRouterPort
  <2>2. /\ \A q \in Ports : owner'[q] = "compute" => owner[q] = "compute"
        /\ \A q \in Ports : owner[q] = "compute" => owner'[q] = "compute" /\ AddressOf(q)' = AddressOf(q)
        /\ \A q \in Ports, r \in Routers :
             Needs(r, q)' <=> \/ Needs(r, q)
                              \/ owner[q] = "compute" /\ ports[q] = t.subnet /\ r = b.router
    <3>1. /\ \A q \in Ports : owner'[q] = "compute" => owner[q] = "compute"
          /\ \A q \in Ports : owner[q] = "compute" => owner'[q] = "compute" /\ AddressOf(q)' = AddressOf(q)
          /\ \A q \in Ports, r \in Routers :
               Needs(r, q)' <=> \/ Needs(r, q)
                                \/ owner[q] = "compute" /\ ports[q] = tx[w].subnet /\ r = call[w].router
      BY <1>0, <1>1, <1>12, JoinedNeeds
    <3>. QED
      BY <1>0, <3>1, Zenon
  <2>3. ToldOf(b, t) /\ \A r, q : ~Excused(b, r, q) /\ ~Making(b, q)
    BY <1>0, <1>1, <1>12 DEF KnownInv, Excused, Making, Deleting, CallOK
  <2>4. ASSUME NEW r \in Routers, NEW q \in Ports, Needs(r, q)'
        PROVE  Fine(c, r, q)' \/ (Needs(r, q) /\ AddressOf(q)' = AddressOf(q) /\ ~Excused(b, r, q))
    <3>1. owner[q] = "compute" /\ AddressOf(q)' = AddressOf(q) /\ Note(r, q)' = Note(r, q)
      BY <2>2, <2>4 DEF Needs, Note
    <3>2. CASE ports[q] = t.subnet /\ r = b.router
      BY <1>12, <2>1, <3>1, <3>2 DEF Fine
    <3>. QED
      BY <2>2, <2>3, <2>4, <3>1, <3>2
  <2>5. Served(c)'
    BY <1>12, <2>1, <2>3, <2>4, KeepServed DEF ToldOf
  <2>6. Tagging(c)'
    BY <2>1, <2>2, <2>3 DEF ToldOf, Tagging
  <2>. QED
    BY <1>2, <2>1, <2>5, <2>6 DEF ToldOf, Gathering
<1>13. CASE CommitInterface(w)
  <2>1. /\ BecomesRouterPort(w, "interface") /\ b.op = "interface" /\ b.pc = "registering" /\ b.todo = {}
        /\ untold' = untold \cup Notices(b.routers, {AddressOf(p) : p \in {q \in changed : ports[q] = t.subnet}})
    BY <1>0, <1>13 DEF CommitInterface, Registered, Untold
  <2>2. faults = 0 /\ ToldOf(b, t) /\ b.router \in b.routers
    BY <1>0, <1>1, <2>1 DEF BecomesRouterPort, KnownInv, About, InTx, Joining
  <2>3. ASSUME NEW q \in Ports, owner[q] = "compute", ports[q] = t.subnet
        PROVE  AddressOf(q) \in registered[b.router] \/ Note(b.router, q) \in untold'
    <3>1. CASE q \in changed
      BY <2>1, <2>2, <2>3, <3>1 DEF Note, Notices
    <3>2. CASE q \notin changed
      <4>1. q \in tagged
        BY <2>1, <2>2, <2>3, <3>2 DEF ToldOf, Tagging, Making
      <4>. QED
        BY <2>1, <2>2, <2>3, <4>1 DEF ToldOf, Gathering, Joins
    <3>. QED
      BY <3>1, <3>2
  <2>4. ToldOf(c, u)'
    BY <1>12, <2>1, <2>2, <2>3
  <2>. QED
    BY <1>0, <2>4
<1>14. CASE CommitGateway(w)
  <2>1. /\ BecomesRouterPort(w, "gateway") /\ b.op = "gateway"
        /\ untold' = untold \cup Notices({b.router}, InstancesOn(t.subnet))
    BY <1>0, <1>14 DEF CommitGateway, Untold
  <2>2. faults = 0
    BY <2>1 DEF BecomesRouterPort
  <2>3. ASSUME NEW q \in Ports, owner[q] = "compute", ports[q] = t.subnet
        PROVE  Note(b.router, q) \in untold'
    BY <2>1, <2>3 DEF Note, Notices, InstancesOn
  <2>4. ToldOf(c, u)'
    BY <1>12, <2>1, <2>2, <2>3
  <2>. QED
    BY <1>0, <2>4
<1>15. CASE CommitUpdate(w)
  <2>1. /\ b.pc = "allocating" /\ b.op = "update" /\ c = NoCall /\ untold \subseteq untold'
        /\ UNCHANGED <<tagged, changed, registered, faults>>
    BY <1>0, <1>1, <1>15 DEF CommitUpdate, Untold, portVars
  <2>2. PICK p : p = call[w].port
    OBVIOUS
  <2>3. /\ UNCHANGED owner
        /\ \A q \in Ports, r \in Routers : Needs(r, q)' <=> Needs(r, q)
        /\ \A q \in Ports : q # p => AddressOf(q)' = AddressOf(q)
        /\ \A r \in Routers : Needs(r, p) => Note(r, p)' \in untold'
    BY <1>1, <1>15, <2>2, UpdatedNeeds
  <2>4. ToldOf(b, t) /\ \A r, q : ~Excused(b, r, q)
    BY <1>0, <2>1 DEF KnownInv, Excused, Making, Deleting
  <2>5. ToldOf(c, u)'
    BY <1>2, <2>1, <2>3, <2>4, PlainTold
  <2>. QED
    BY <1>0, <2>5
<1>16. CASE Register(w, TRUE) \/ Register(w, FALSE)
  BY <1>0, <1>10, <1>16
<1>. QED
  BY <1>3, <1>4, <1>5, <1>6, <1>7, <1>8, <1>9, <1>11, <1>13, <1>14, <1>15, <1>16 DEF CreateStep

\* The steps of a deletion keep it: what they forget is excused.
LEMMA DeleteKnown ==
  ASSUME KnownInv, NEW w \in Workers, DeleteStep(w), faults' = 0
  PROVE  ToldOf(call[w], tx[w])'
<1>0. PICK b, t, c, u : b = call[w] /\ t = tx[w] /\ c = call'[w] /\ u = tx'[w]
  OBVIOUS
<1>1. /\ HomeInv /\ MlTypeInv /\ call \in [Workers -> Call] /\ b \in Call /\ CallOK(b, t) /\ About(b, t)
      /\ Home /\ DriverOK /\ tagged \subseteq Ports
      /\ registered \in [Routers -> SUBSET Address] /\ None \notin Routers
  BY <1>0, MlConstants DEF KnownInv, HomeInv, PortsInv, MlTypeInv, DriverOK
<1>2. ~Deleting(NoCall) /\ ~Joins(NoCall) /\ NoCall.pc # "undo"
  BY DEF NoCall, Deleting, Joins
<1>3. faults = 0 /\ ToldOf(b, t)
  BY <1>0 DEF KnownInv, DeleteStep, UndoCreate, Unregister, CommitDelete, TakeParams, CommitDevice,
     DeleteEnds, CommitRemoval
<1>4. b.op # "compute" /\ \A p : ~Making(b, p)
  BY <1>0, <1>1, <1>3 DEF ToldOf, DeleteStep, UndoCreate, Unregister, CommitDelete, TakeParams,
     CommitDevice, DeleteEnds, CommitRemoval, CallOK, Making
<1>5. ASSUME UNCHANGED <<ports, allocations, portVars, registered, untold>>, c.pc # "undo", ~Joins(c),
             Deleting(b) => Deleting(c) /\ c.port = b.port
      PROVE  ToldOf(c, u)'
  <2>1. UNCHANGED <<ports, owner>>
    BY <1>5 DEF portVars
  <2>2. \A r, p : Excused(b, r, p) => Fine(c, r, p)'
    BY <1>4, <1>5, <2>1 DEF Excused, Fine, Drops, Deleting
  <2>. QED
    BY <1>3, <1>4, <1>5, <2>2, SameTold
<1>6. CASE UndoCreate(w)
  BY <1>0, <1>3, <1>6 DEF UndoCreate, ToldOf
<1>7. CASE Unregister(w)
  <2>1. PICK n \in Turn(w) :
          /\ registered' = [registered EXCEPT ![n.router] = @ \ {n.address}]
          /\ call' = [call EXCEPT ![w].todo = @ \ {n}]
    BY <1>7 DEF Unregister
  <2>2. /\ b.pc = "unregistering" /\ n \in b.todo /\ n \in Notice
        /\ UNCHANGED <<ports, allocations, portVars, untold>>
    BY <1>0, <1>1, <1>7, <2>1 DEF Unregister, Turn, ipVars, Call
  <2>3. c.pc = b.pc /\ c.port = b.port /\ Deleting(c)
    BY <1>0, <1>1, <2>1, <2>2 DEF Call, Deleting
  <2>4. UNCHANGED <<owner, device, tagged, changed>>
    BY <2>2 DEF portVars
  <2>5. \A r \in Routers : \A a \in registered[r] : a \in registered'[r] \/ a = n.address
    BY <1>1, <2>1
  <2>6. \A r, p : Note(r, p)' = Note(r, p) /\ AddressOf(p)' = AddressOf(p) /\ (Needs(r, p)' <=> Needs(r, p))
    BY <2>2, <2>4, SameNeeds DEF Note
  <2>7. Dropping(b) /\ b.port \in Ports /\ ports[b.port] # None
    BY <1>1, <2>2 DEF About, CallOK, Deleting
  <2>8. ASSUME NEW p \in Ports, AddressOf(p) = n.address, owner[p] = "compute" PROVE Drops(b, p)
    <3>1. ports[p] # None /\ ports[p] \in Subnets /\ AddressOf(p).subnet = ports[p]
      BY <1>1, <2>8, InstanceIsThere, AddressType
    <3>2. CASE n.address = AddressOf(b.port)
      BY <1>1, <2>7, <2>8, <3>1, <3>2, OneAddress DEF Drops
    <3>3. CASE owner[b.port] = "interface" /\ n.address.subnet = ports[b.port]
      BY <2>8, <3>1, <3>3 DEF Drops
    <3>. QED
      BY <2>2, <2>7, <3>2, <3>3 DEF Dropping
  <2>9. ASSUME NEW r \in Routers, NEW p \in Ports, Needs(r, p) PROVE Fine(c, r, p)'
    <3>1. CASE Drops(b, p)
      BY <2>2, <2>3, <2>4, <3>1 DEF Fine, Excused, Drops, Deleting
    <3>2. CASE ~Drops(b, p)
      <4>1. ~Excused(b, r, p) /\ AddressOf(p) # n.address
        BY <1>4, <2>8, <2>9, <3>2 DEF Excused, Needs
      <4>2. AddressOf(p) \in registered[r] \/ Note(r, p) \in untold
        BY <1>3, <2>9, <4>1 DEF ToldOf, Served, Fine
      <4>. QED
        BY <2>2, <2>5, <2>6, <4>1, <4>2 DEF Fine
    <3>. QED
      BY <3>1, <3>2
  <2>10. Served(c)'
    BY <2>6, <2>9 DEF Served
  <2>11. Tagging(c)'
    BY <1>3, <1>4, <2>4 DEF ToldOf, Tagging
  <2>12. ToldOf(c, u)'
    BY <2>2, <2>3, <2>10, <2>11 DEF ToldOf, Gathering, Joins
  <2>. QED
    BY <1>0, <2>12
<1>8. CASE CommitDelete(w)
  <2>1. /\ b.pc = "unregistering" /\ c = [b EXCEPT !.pc = "deleted"] /\ UNCHANGED <<registered, untold>>
    BY <1>0, <1>1, <1>8 DEF CommitDelete, Goto
  <2>2. c.pc = "deleted" /\ c.op = b.op /\ b.op = "delete" /\ c.router = b.router /\ c.port = b.port
    BY <1>1, <2>1 DEF Call, CallOK
  <2>3. CASE b.router # None
    <3>1. UNCHANGED <<ports, allocations, portVars>>
      BY <1>0, <1>8, <2>3 DEF CommitDelete
    <3>2. ToldOf(c, u)'
      BY <1>5, <2>1, <2>2, <2>3, <3>1 DEF Deleting, Joins
    <3>. QED
      BY <1>0, <3>2
  <2>4. CASE b.router = None
    <3>1. PICK p : p = b.port
      OBVIOUS
    <3>2. Gone(p)
      BY <1>0, <1>8, <2>4, <3>1 DEF CommitDelete
    <3>3. p \in Ports /\ ports[p] # None /\ device[p] = None
      BY <1>1, <2>1, <2>4, <3>1 DEF About, CallOK, Deleting
    <3>4. /\ tagged' = tagged \ {p} /\ changed' = changed \ {p} /\ owner'[p] = "none"
          /\ \A q \in Ports : q # p => owner'[q] = owner[q] /\ AddressOf(q)' = AddressOf(q)
          /\ \A q \in Ports, r \in Routers : Needs(r, q)' <=> q # p /\ Needs(r, q)
      BY <1>1, <3>2, <3>3, GoneNeeds
    <3>5. owner[p] # "interface"
      BY <1>1, <3>3 DEF Home
    <3>6. \A r, q : Excused(b, r, q) => q = p
      BY <1>4, <3>1, <3>5 DEF Excused, Drops
    <3>7. Served(c)'
      BY <1>3, <2>1, <3>4, <3>6, KeepServed DEF ToldOf
    <3>8. Tagging(c)'
      BY <1>3, <1>4, <3>4 DEF ToldOf, Tagging
    <3>9. ToldOf(c, u)'
      BY <2>2, <3>7, <3>8 DEF ToldOf, Gathering, Joins
    <3>. QED
      BY <1>0, <3>9
  <2>. QED
    BY <2>3, <2>4
<1>9. CASE TakeParams(w) \/ CommitDevice(w)
  <2>1. UNCHANGED <<ports, allocations, portVars, registered, untold>>
    BY <1>9 DEF TakeParams, CommitDevice, ipVars
  <2>2. /\ b.pc \in {"deleted", "committing"} /\ c.pc = "committing" /\ c.op = b.op
        /\ c.router = b.router /\ c.port = b.port
    BY <1>0, <1>1, <1>9 DEF TakeParams, CommitDevice, Call
  <2>3. ToldOf(c, u)'
    BY <1>5, <2>1, <2>2 DEF Deleting, Joins
  <2>. QED
    BY <1>0, <2>3
<1>10. CASE DeleteEnds(w)
  <2>1. UNCHANGED <<ports, allocations, portVars, registered, untold>> /\ b.pc = "committing"
    BY <1>0, <1>10 DEF DeleteEnds, ipVars
  <2>2. IF b.router = None THEN c = NoCall ELSE c = [b EXCEPT !.pc = "removing"]
    BY <1>0, <1>1, <1>10 DEF DeleteEnds
  <2>3. CASE b.router = None
    <3>1. ~Deleting(b) /\ c = NoCall
      BY <2>1, <2>2, <2>3 DEF Deleting
    <3>2. ToldOf(c, u)'
      BY <1>2, <1>5, <2>1, <3>1
    <3>. QED
      BY <1>0, <3>2
  <2>4. CASE b.router # None
    <3>1. c.pc = "removing" /\ c.op = b.op /\ c.router = b.router /\ c.port = b.port
      BY <1>1, <2>2, <2>4 DEF Call
    <3>2. ToldOf(c, u)'
      BY <1>5, <2>1, <3>1 DEF Deleting, Joins
    <3>. QED
      BY <1>0, <3>2
  <2>. QED
    BY <2>3, <2>4
<1>11. CASE CommitRemoval(w)
  <2>1. /\ b.pc = "removing" /\ c = NoCall /\ untold \subseteq untold' /\ UNCHANGED registered
    BY <1>0, <1>1, <1>11 DEF CommitRemoval, Untold
  <2>2. PICK p : p = b.port
    OBVIOUS
  <2>3. /\ owner[p] # "compute" /\ owner'[p] = "none"
        /\ tagged' = tagged \ {p} /\ changed' = changed \ {p}
        /\ \A q \in Ports : q # p => owner'[q] = owner[q] /\ AddressOf(q)' = AddressOf(q)
        /\ \A q \in Ports, r \in Routers :
             Needs(r, q)' <=> Needs(r, q) /\ ~(ports[q] = ports[p] /\ r = device[p])
        /\ \A q \in Ports, r \in Routers :
             /\ Needs(r, q) /\ ports[q] = ports[p]
             /\ IF owner[p] = "gateway" THEN r = device[p] ELSE r # device[p]
             => Note(r, q) \in untold'
    BY <1>0, <1>1, <1>11, <2>2, LeftNeeds
  <2>4. ASSUME NEW r \in Routers, NEW q \in Ports, Needs(r, q)'
        PROVE  Fine(c, r, q)' \/ (Needs(r, q) /\ AddressOf(q)' = AddressOf(q) /\ ~Excused(b, r, q))
    <3>1. q # p /\ Needs(r, q) /\ ~(ports[q] = ports[p] /\ r = device[p])
      BY <2>3, <2>4 DEF Needs
    <3>2. AddressOf(q)' = AddressOf(q) /\ Note(r, q)' = Note(r, q)
      BY <2>3, <3>1 DEF Note
    <3>3. CASE owner[p] = "interface" /\ ports[q] = ports[p]
      BY <2>3, <3>1, <3>2, <3>3 DEF Fine
    <3>4. CASE ~(owner[p] = "interface" /\ ports[q] = ports[p])
      BY <1>4, <2>2, <3>1, <3>2, <3>4 DEF Excused, Drops
    <3>. QED
      BY <3>3, <3>4
  <2>5. Served(c)'
    BY <1>3, <2>1, <2>4, KeepServed DEF ToldOf
  <2>6. Tagging(c)'
    BY <1>3, <1>4, <2>3 DEF ToldOf, Tagging
  <2>7. ToldOf(c, u)'
    BY <1>2, <2>1, <2>5, <2>6 DEF ToldOf, Gathering
  <2>. QED
    BY <1>0, <2>7
<1>. QED
  BY <1>6, <1>7, <1>8, <1>9, <1>10, <1>11 DEF DeleteStep

\* One request at a time, every step keeps it.
LEMMA NextKnown ==
  ASSUME OneWorker, KnownInv, [MlNext]_mlVars
  PROVE  KnownInv'
<1>0. HomeInv' /\ faults \in Nat
  BY NextHome, MlConstants DEF KnownInv, HomeInv, PortsInv, MlTypeInv, DriverOK
<1>1. CASE UNCHANGED mlVars
  <2>1. /\ UNCHANGED <<ports, allocations, owner, device, tagged, changed>>
        /\ UNCHANGED <<registered, untold, tx, call, faults>>
    BY <1>1 DEF mlVars, ipVars, driverVars, portVars
  <2>2. ASSUME NEW c, NEW t, ToldOf(c, t) PROVE ToldOf(c, t)'
    BY <2>1, <2>2, SameNeeds DEF ToldOf, Served, Fine, Tagging, Gathering, Excused, Making, Drops, Note,
       Joins, Deleting
  <2>3. ASSUME NEW w \in Workers, faults' = 0 PROVE ToldOf(call[w], tx[w])'
    <3>1. PICK c, t : c = call[w] /\ t = tx[w]
      OBVIOUS
    <3>2. ToldOf(c, t)'
      BY <2>1, <2>2, <2>3, <3>1 DEF KnownInv
    <3>. QED
      BY <2>1, <3>1, <3>2
  <2>. QED
    BY <1>0, <2>3 DEF KnownInv
<1>2. ASSUME NEW w \in Workers, MlRequest(w) \/ CreateStep(w) \/ DeleteStep(w) \/ Fails(w)
      PROVE  KnownInv'
  <2>1. ASSUME faults' = 0 PROVE ToldOf(call[w], tx[w])'
    <3>1. ~Fails(w)
      BY <1>0, <2>1 DEF Fails
    <3>. QED
      BY <1>2, <2>1, <3>1, RequestKnown, CreateKnown, DeleteKnown
  <2>2. \A v \in Workers : v = w
    BY <1>2 DEF OneWorker
  <2>. QED
    BY <1>0, <2>1, <2>2 DEF KnownInv
<1>. QED
  BY <1>1, <1>2 DEF MlNext

\* One request at a time, for any networks, ports and routers: when no call failed, the
\* device of a router knows the address of each instance behind it once the request is
\* over, but for those no hook told it of.
THEOREM SerialEveryPortIsKnown ==
  ASSUME OneWorker
  PROVE  MlSpec => []EveryPortIsKnown
<1>1. MlInit => KnownInv
  BY InitHome DEF MlInit, KnownInv, ToldOf, Served, Tagging, Gathering, Joins, Needs, NoCall
<1>2. MlSpec => []KnownInv
  BY <1>1, NextKnown, PTL DEF MlSpec
<1>3. ASSUME KnownInv, Quiet, faults = 0, NEW r \in Routers
      PROVE  Known(r) \subseteq registered[r] \cup UntoldTo(r)
  <2>1. PICK w \in Workers : TRUE
    BY DEF OneWorker
  <2>2. PICK c, t : c = call[w] /\ t = tx[w]
    OBVIOUS
  <2>3. ToldOf(c, t) /\ HomeInv /\ c = NoCall
    BY <1>3, <2>2 DEF KnownInv, Quiet, Idle, HomeInv, PortsInv, MlTypeInv, CallOK
  <2>4. \A i, p : ~Excused(c, i, p)
    BY <2>3 DEF NoCall, Excused, Making, Deleting
  <2>5. ASSUME NEW p \in Ports, Needs(r, p)
        PROVE  AddressOf(p) \in registered[r] \cup UntoldTo(r)
    <3>1. AddressOf(p) \in registered[r] \/ Note(r, p) \in untold
      BY <2>3, <2>4, <2>5 DEF ToldOf, Served, Fine
    <3>2. Note(r, p) \in untold => AddressOf(p) \in UntoldTo(r)
      BY DEF UntoldTo, Note
    <3>. QED
      BY <3>1, <3>2
  <2>. QED
    BY <2>3, <2>5, KnownMeans
<1>4. KnownInv => EveryPortIsKnown
  BY <1>3 DEF EveryPortIsKnown
<1>. QED
  BY <1>2, <1>4, PTL
=============================================================================
