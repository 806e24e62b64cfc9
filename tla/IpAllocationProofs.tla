------------------------- MODULE IpAllocationProofs --------------------------
(***************************************************************************)
(* Proofs about IpAllocation for every number of subnets, addresses, ports *)
(* and API workers.                                                        *)
(***************************************************************************)
EXTENDS IpAllocation, SequenceTheorems, WellFoundedInduction, TLAPS

-----------------------------------------------------------------------------
(* Ranges of addresses.                                                    *)

\* A range without one of its addresses is a range, two or none, of the rest.
LEMMA SplitRow ==
  ASSUME NEW row \in Row, NEW ip \in Span(row)
  PROVE  /\ Split(row, ip) \subseteq Row
         /\ Covered(Split(row, ip)) \subseteq Span(row) \ {ip}
         /\ \A part, other \in Split(row, ip) : part # other => Span(part) \cap Span(other) = {}
<1>1. /\ row.first \in Nat /\ row.last \in Nat /\ ip \in Nat /\ row.first >= 1
      /\ row.first <= ip /\ ip <= row.last /\ row.last <= Last - 1
  BY LastAssumption DEF Row, Hosts, Span
<1>2. ASSUME NEW part \in Split(row, ip)
      PROVE  /\ \/ part = [first |-> row.first, last |-> ip - 1] /\ row.first <= ip - 1
                \/ part = [first |-> ip + 1, last |-> row.last] /\ ip + 1 <= row.last
  BY DEF Split
<1>3. ASSUME NEW part \in Split(row, ip)
      PROVE  part \in Row /\ Span(part) \subseteq Span(row) \ {ip}
  <2>1. CASE part = [first |-> row.first, last |-> ip - 1] /\ row.first <= ip - 1
    BY <1>1, <2>1, LastAssumption DEF Row, Hosts, Span
  <2>2. CASE part = [first |-> ip + 1, last |-> row.last] /\ ip + 1 <= row.last
    BY <1>1, <2>2, LastAssumption DEF Row, Hosts, Span
  <2>. QED
    BY <1>2, <2>1, <2>2
<1>4. ASSUME NEW part \in Split(row, ip), NEW other \in Split(row, ip), part # other
      PROVE  Span(part) \cap Span(other) = {}
  <2>. DEFINE low  == [first |-> row.first, last |-> ip - 1]
              high == [first |-> ip + 1, last |-> row.last]
  <2>1. Span(low) \cap Span(high) = {}
    BY <1>1 DEF Span
  <2>2. part \in {low, high} /\ other \in {low, high}
    BY <1>2
  <2>. HIDE DEF low, high
  <2>. QED
    BY <1>4, <2>1, <2>2
<1>. QED
  BY <1>3, <1>4 DEF Covered

-----------------------------------------------------------------------------
(* Type correctness.                                                       *)

\* A transaction that goes on has a port and a subnet, and rebuilds for an address.
TxOK(t) ==
  /\ t.pc = "idle" => t = NoTx
  /\ t.pc # "idle" => t.op # "none" /\ t.port \in Ports /\ t.subnet \in Subnets
  /\ t.pc = "rebuilding" => t.todo # <<>>

\* The types, and the fields of a transaction that depend on how far it is.
IpTypeInv == IpTypeOK /\ \A w \in Workers : TxOK(tx[w])

\* The transaction that is none.
LEMMA NoTxType == NoTx \in Transaction /\ TxOK(NoTx)
BY DEF NoTx, Transaction, TxOK

\* What a step does to the transaction of one worker.
LEMMA OneTx ==
  ASSUME tx \in [Workers -> Transaction], \A v \in Workers : TxOK(tx[v]),
         NEW w \in Workers, NEW t \in Transaction, TxOK(t), tx' = [tx EXCEPT ![w] = t]
  PROVE  tx' \in [Workers -> Transaction] /\ \A v \in Workers : TxOK(tx'[v])
OBVIOUS

\* The default pools are ranges of hosts.
LEMMA DefaultPoolsType ==
  ASSUME NEW gateway \in Net \cup {None}
  PROVE  DefaultPools(gateway) \subseteq Row
<1> DEFINE split == IF gateway = None THEN Last ELSE gateway
<1>1. split \in 0..Last
  BY LastAssumption DEF Net
<1>2. DefaultPools(gateway) =
        {row \in {[first |-> 1, last |-> split - 1], [first |-> split + 1, last |-> Last - 1]} :
           row.first <= row.last}
  BY DEF DefaultPools
<1>. HIDE DEF split
<1>3. ASSUME NEW row \in DefaultPools(gateway) PROVE row \in Row
  <2>1. CASE row = [first |-> 1, last |-> split - 1] /\ 1 <= split - 1
    BY <1>1, <2>1, LastAssumption DEF Row, Hosts
  <2>2. CASE row = [first |-> split + 1, last |-> Last - 1] /\ split + 1 <= Last - 1
    BY <1>1, <2>2, LastAssumption DEF Row, Hosts
  <2>. QED
    BY <1>2, <1>3, <2>1, <2>2
<1>. QED
  BY <1>3

\* The types hold at the start.
LEMMA InitType == IpInit => IpTypeInv
<1>. SUFFICES ASSUME IpInit PROVE IpTypeInv
  OBVIOUS
<1>1. NoSubnet \in [here : BOOLEAN, gateway : Net \cup {None}, pools : SUBSET Row]
  BY DEF NoSubnet
<1>2. tx \in [Workers -> Transaction] /\ \A w \in Workers : TxOK(tx[w])
  BY NoTxType DEF IpInit
<1>. QED
  BY <1>1, <1>2, IpBoundAssumption DEF IpInit, IpTypeInv, IpTypeOK

\* Requests about subnets keep them: pools that were checked are ranges of hosts.
LEMMA SubnetStepType ==
  ASSUME IpTypeInv, NEW w \in Workers, NEW s \in Subnets,
         NEW g \in Net \cup {None},
         \/ \E pools \in Pools : CreateSubnet(w, s, g, pools)
         \/ UpdateGateway(w, s, g) \/ DeleteSubnet(w, s)
  PROVE  IpTypeInv'
<1>. USE DEF IpTypeInv, IpTypeOK
<1>1. requests < MaxRequests => requests + 1 \in 0..MaxRequests
  BY IpBoundAssumption
<1>2. CASE \E pools \in Pools : CreateSubnet(w, s, g, pools)
  <2>1. PICK pools \in Pools : CreateSubnet(w, s, g, pools)
    BY <1>2
  <2>2. pools \subseteq Row
    <3>1. CASE pools = DefaultPools(g)
      BY <3>1, DefaultPoolsType
    <3>2. CASE ValidPools(pools, g)
      <4>1. ASSUME NEW row \in pools PROVE row \in Row
        <5>1. row \in [first : Net, last : Net]
          <6>1. Row \subseteq [first : Net, last : Net]
            BY LastAssumption DEF Row, Hosts, Net
          <6>. QED
            BY <6>1, DefaultPoolsType DEF Pools
        <5>2. row.first <= row.last /\ Span(row) \subseteq Hosts
          BY <3>2 DEF ValidPools
        <5>3. row.first \in Span(row) /\ row.last \in Span(row)
          BY <5>1, <5>2, LastAssumption DEF Net, Span
        <5>. QED
          BY <5>1, <5>2, <5>3 DEF Row
      <4>. QED
        BY <4>1
    <3>. QED
      BY <2>1, <3>1, <3>2 DEF CreateSubnet
  <2>. QED
    BY <1>1, <2>1, <2>2 DEF CreateSubnet, Request
<1>3. CASE UpdateGateway(w, s, g)
  BY <1>1, <1>3 DEF UpdateGateway, Request
<1>4. CASE DeleteSubnet(w, s)
  <2>1. NoSubnet \in [here : BOOLEAN, gateway : Net \cup {None}, pools : SUBSET Row]
    BY DEF NoSubnet
  <2>. QED
    BY <1>1, <1>4, <2>1 DEF DeleteSubnet, Request
<1>. QED
  BY <1>2, <1>3, <1>4

\* What a request wants is a sequence of hosts and of any addresses.
LEMMA WantsType == \A want \in Wants \cup {<<>>} : want \in Seq(Hosts \cup {AnyIp})
<1>1. ASSUME NEW n \in 1..MaxFixedIps, NEW want \in [1..n -> Hosts \cup {AnyIp}]
      PROVE  want \in Seq(Hosts \cup {AnyIp})
  BY <1>1, SeqDef, IpBoundAssumption
<1>2. <<>> \in Seq(Hosts \cup {AnyIp})
  OBVIOUS
<1>. QED
  BY <1>1, <1>2 DEF Wants

\* A transaction that begins is one.
LEMMA StartType ==
  ASSUME IpTypeInv, NEW w \in Workers, NEW op \in {"create", "update"}, NEW p \in Ports,
         NEW s \in Subnets, NEW todo \in Seq(Hosts \cup {AnyIp}), NEW freed \in SUBSET Hosts,
         Begin(w, op, p, s, todo, freed), Request(w),
         UNCHANGED <<subnets, ranges, allocations, ports>>
  PROVE  IpTypeInv'
<1> DEFINE t == [NoTx EXCEPT !.pc = "allocating", !.op = op, !.port = p,
                             !.subnet = s, !.todo = todo, !.freed = freed]
<1>1. t \in Transaction /\ TxOK(t)
  BY NoTxType DEF Transaction, TxOK, NoTx
<1>2. tx' = [tx EXCEPT ![w] = t]
  BY DEF Begin
<1>3. requests' \in 0..MaxRequests
  BY IpBoundAssumption DEF IpTypeInv, IpTypeOK, Request
<1>. HIDE DEF t
<1>4. tx' \in [Workers -> Transaction] /\ \A v \in Workers : TxOK(tx'[v])
  BY <1>1, <1>2, OneTx DEF IpTypeInv, IpTypeOK
<1>. QED
  BY <1>3, <1>4 DEF IpTypeInv, IpTypeOK

\* The addresses of a port are hosts.
LEMMA AddressesType ==
  ASSUME IpTypeOK, NEW p \in Ports
  PROVE  AddressesOf(p) \subseteq Hosts
BY DEF IpTypeOK, AddressesOf

\* Requests about ports keep the types.
LEMMA PortRequestType ==
  ASSUME IpTypeInv, NEW w \in Workers, NEW p \in Ports,
         \/ \E s \in Subnets, want \in Wants : StartCreate(w, p, s, want)
         \/ \E kept \in SUBSET AddressesOf(p), fresh \in Wants \cup {<<>>} :
              StartUpdate(w, p, kept, fresh)
         \/ DeletePort(w, p)
  PROVE  IpTypeInv'
<1>1. ASSUME NEW s \in Subnets, NEW want \in Wants, StartCreate(w, p, s, want)
      PROVE  IpTypeInv'
  <2>1. want \in Seq(Hosts \cup {AnyIp})
    BY WantsType
  <2>. QED
    BY <1>1, <2>1, StartType DEF StartCreate
<1>2. ASSUME NEW kept \in SUBSET AddressesOf(p), NEW fresh \in Wants \cup {<<>>},
             StartUpdate(w, p, kept, fresh)
      PROVE  IpTypeInv'
  <2>1. fresh \in Seq(Hosts \cup {AnyIp})
    BY WantsType
  <2>2. AddressesOf(p) \ kept \in SUBSET Hosts /\ ports[p] \in Subnets
    BY <1>2, AddressesType DEF IpTypeInv, IpTypeOK, StartUpdate
  <2>. QED
    BY <1>2, <2>1, <2>2, StartType DEF StartUpdate
<1>3. ASSUME DeletePort(w, p) PROVE IpTypeInv'
  BY <1>3, IpBoundAssumption DEF DeletePort, RemovePort, Request, IpTypeInv, IpTypeOK
<1>. QED
  BY <1>1, <1>2, <1>3

\* What a transaction sees of the ranges are ranges.
LEMMA ViewType ==
  ASSUME IpTypeInv, NEW w \in Workers, tx[w].pc # "idle"
  PROVE  View(w) \subseteq Row /\ tx[w].subnet \in Subnets
BY DEF IpTypeInv, IpTypeOK, TxOK, View, Transaction

\* An address taken from a range goes to the transaction.
LEMMA TakeType ==
  ASSUME IpTypeInv, NEW w \in Workers, tx[w].pc # "idle", tx[w].todo # <<>>,
         NEW rows \in SUBSET Row, NEW row \in rows, NEW ip \in Span(row), Take(w, rows, row, ip)
  PROVE  tx' \in [Workers -> Transaction] /\ \A v \in Workers : TxOK(tx'[v])
<1> DEFINE t == [tx[w] EXCEPT !.pc = "allocating", !.todo = Tail(@), !.got = Append(@, ip),
                              !.locked = TRUE, !.draft = (rows \ {row}) \cup Split(row, ip)]
<1>1. tx[w] \in Transaction /\ TxOK(tx[w])
  BY DEF IpTypeInv, IpTypeOK
<1>2. ip \in Hosts /\ Split(row, ip) \subseteq Row
  BY SplitRow, LastAssumption DEF Row, Hosts, Span
<1>3. Tail(tx[w].todo) \in Seq(Hosts \cup {AnyIp}) /\ Append(tx[w].got, ip) \in Seq(Hosts)
  BY <1>1, <1>2 DEF Transaction
<1>4. t \in Transaction
  BY <1>1, <1>2, <1>3 DEF Transaction
<1>5. TxOK(t)
  BY <1>1, <1>4 DEF TxOK, Transaction
<1>6. tx' = [tx EXCEPT ![w] = t]
  BY DEF Take, IpTypeInv, IpTypeOK
<1>. HIDE DEF t
<1>. QED
  BY <1>4, <1>5, <1>6, OneTx DEF IpTypeInv, IpTypeOK

\* The contiguous ranges of a set of hosts.
LEMMA RebuiltType ==
  ASSUME IpTypeInv, NEW w \in Workers
  PROVE  Rebuilt(w) \subseteq Row
BY DEF Rebuilt, Runs

\* The first address of a range is one of its hosts.
LEMMA FirstOfRow ==
  ASSUME NEW row \in Row
  PROVE  row.first \in Span(row)
BY LastAssumption DEF Row, Hosts, Span

\* A transaction that is rolled back.
LEMMA EndType ==
  ASSUME IpTypeInv, NEW w \in Workers, tx' = [tx EXCEPT ![w] = NoTx],
         UNCHANGED <<subnets, ranges, allocations, ports, requests>>
  PROVE  IpTypeInv'
BY NoTxType, OneTx DEF IpTypeInv, IpTypeOK

\* Allocation keeps the types: the parts of a split range are ranges.
LEMMA AllocateType ==
  ASSUME IpTypeInv, NEW w \in Workers, Allocate(w)
  PROVE  IpTypeInv'
<1>0. /\ tx[w].pc # "idle"
      /\ UNCHANGED <<subnets, ranges, allocations, ports, requests>>
      /\ tx[w] \in Transaction /\ TxOK(tx[w])
  BY DEF Allocate, AllocateSpecific, Generate, ReadAllocations, Rebuild, IpTypeInv, IpTypeOK
<1>1. View(w) \subseteq Row /\ tx[w].subnet \in Subnets
  BY <1>0, ViewType
<1>. SUFFICES tx' \in [Workers -> Transaction] /\ \A v \in Workers : TxOK(tx'[v])
  BY <1>0 DEF IpTypeInv, IpTypeOK
<1>2. CASE AllocateSpecific(w)
  <2>1. CASE \E row \in View(w) : Head(tx[w].todo) \in Span(row)
                                 /\ Take(w, View(w), row, Head(tx[w].todo))
    BY <1>0, <1>1, <1>2, <2>1, TakeType DEF AllocateSpecific
  <2>2. CASE tx' = [tx EXCEPT ![w].todo = Tail(@), ![w].got = Append(@, Head(tx[w].todo)),
                              ![w].locked = @ \/ View(w) # {}, ![w].draft = View(w)]
    <3> DEFINE t == [tx[w] EXCEPT !.todo = Tail(@), !.got = Append(@, Head(tx[w].todo)),
                                  !.locked = @ \/ View(w) # {}, !.draft = View(w)]
    <3>1. tx[w].todo \in Seq(Hosts \cup {AnyIp}) /\ tx[w].todo # <<>> /\ tx[w].got \in Seq(Hosts)
      BY <1>0, <1>2 DEF Transaction, AllocateSpecific
    <3>2. Head(tx[w].todo) \in Hosts /\ Tail(tx[w].todo) \in Seq(Hosts \cup {AnyIp})
      <4>1. Head(tx[w].todo) \in Hosts \cup {AnyIp} /\ Tail(tx[w].todo) \in Seq(Hosts \cup {AnyIp})
        BY <3>1, HeadTailProperties
      <4>. QED
        BY <1>2, <4>1 DEF AllocateSpecific
    <3>3. Append(tx[w].got, Head(tx[w].todo)) \in Seq(Hosts)
      BY <3>1, <3>2
    <3>4. t \in Transaction
      BY <1>0, <1>1, <3>2, <3>3 DEF Transaction
    <3>5. TxOK(t)
      BY <1>0, <1>2, <3>4 DEF TxOK, Transaction, AllocateSpecific
    <3>6. tx' = [tx EXCEPT ![w] = t]
      BY <2>2 DEF IpTypeInv, IpTypeOK
    <3>. HIDE DEF t
    <3>. QED
      BY <3>4, <3>5, <3>6, OneTx DEF IpTypeInv, IpTypeOK
  <2>. QED
    BY <1>2, <2>1, <2>2 DEF AllocateSpecific
<1>3. CASE Generate(w)
  BY <1>0, <1>1, <1>3, TakeType, FirstOfRow DEF Generate
<1>4. CASE ReadAllocations(w)
  <2> DEFINE t == [tx[w] EXCEPT !.pc = "rebuilding", !.seen = AllocationsSeen(w)]
  <2>1. AllocationsSeen(w) \subseteq Hosts
    BY DEF AllocationsSeen, Allocated, IpTypeInv, IpTypeOK
  <2>2. t \in Transaction /\ TxOK(t)
    BY <1>0, <1>4, <2>1 DEF Transaction, TxOK, ReadAllocations
  <2>3. tx' = [tx EXCEPT ![w] = t]
    BY <1>4 DEF ReadAllocations, IpTypeInv, IpTypeOK
  <2>. HIDE DEF t
  <2>. QED
    BY <2>2, <2>3, OneTx DEF IpTypeInv, IpTypeOK
<1>5. CASE Rebuild(w)
  <2> DEFINE rows == View(w) \cup Rebuilt(w)
  <2>1. rows \subseteq Row /\ tx[w].todo # <<>>
    BY <1>0, <1>1, <1>5, RebuiltType DEF TxOK, Rebuild
  <2>2. PICK row \in rows : Take(w, rows, row, row.first)
    BY <1>5 DEF Rebuild
  <2>. HIDE DEF rows
  <2>. QED
    BY <1>0, <2>1, <2>2, TakeType, FirstOfRow
<1>. QED
  BY <1>2, <1>3, <1>4, <1>5 DEF Allocate

\* So does a commit.
LEMMA CommitType ==
  ASSUME IpTypeInv, NEW w \in Workers, Commit(w)
  PROVE  IpTypeInv'
<1>1. /\ tx[w] \in Transaction /\ tx[w].port \in Ports /\ tx[w].subnet \in Subnets
  BY DEF IpTypeInv, IpTypeOK, TxOK, Commit, Done
<1>2. Elements(tx[w].got) \subseteq Hosts /\ tx[w].draft \subseteq Row
  BY <1>1 DEF Transaction, Elements
<1>3. /\ ports' \in [Ports -> Subnets \cup {None}]
      /\ allocations' \subseteq [subnet : Subnets, ip : Hosts, port : Ports]
      /\ ranges' \in [Subnets -> SUBSET Row]
  BY <1>1, <1>2 DEF Commit, IpTypeInv, IpTypeOK
<1>4. tx' \in [Workers -> Transaction] /\ \A v \in Workers : TxOK(tx'[v])
  BY NoTxType, OneTx DEF Commit, IpTypeInv, IpTypeOK
<1>. QED
  BY <1>3, <1>4 DEF Commit, IpTypeInv, IpTypeOK

\* Every step keeps the types.
LEMMA NextType == IpTypeInv /\ [IpNext]_ipVars => IpTypeInv'
<1>. SUFFICES ASSUME IpTypeInv, [IpNext]_ipVars PROVE IpTypeInv'
  OBVIOUS
<1>1. ASSUME NEW w \in Workers, IpRequest(w) PROVE IpTypeInv'
  <2>1. ASSUME NEW s \in Subnets, NEW g \in Net \cup {None},
               (\E pools \in Pools : CreateSubnet(w, s, g, pools)) \/ UpdateGateway(w, s, g)
        PROVE  IpTypeInv'
    BY <2>1, SubnetStepType
  <2>2. ASSUME NEW s \in Subnets, DeleteSubnet(w, s) PROVE IpTypeInv'
    BY <2>2, SubnetStepType
  <2>. QED
    BY <1>1, <2>1, <2>2, PortRequestType DEF IpRequest
<1>2. ASSUME NEW w \in Workers, RebuildFails(w) \/ CommitFails(w) \/ WaitsTooLong(w)
      PROVE  IpTypeInv'
  BY <1>2, EndType DEF RebuildFails, CommitFails, WaitsTooLong
<1>3. CASE UNCHANGED ipVars
  BY <1>3 DEF ipVars, IpTypeInv, IpTypeOK
<1>. QED
  BY <1>1, <1>2, <1>3, AllocateType, CommitType DEF IpNext

\* Every behaviour keeps the types: ports and ranges have hosts of the subnet alone, never
\* the address of the network or the broadcast address, whatever pools, gateways and
\* addresses are asked for.
THEOREM TypeCorrect == IpSpec => []IpTypeOK
<1>1. IpSpec => []IpTypeInv
  BY InitType, NextType, PTL DEF IpSpec
<1>. QED
  BY <1>1, PTL DEF IpTypeInv

-----------------------------------------------------------------------------
(* An address has one port.                                                *)

\* A port is in one transaction at most, its addresses are of its subnet, and those a
\* transaction takes from it are still its own.
TxOfPort(t) ==
  /\ t.op = "create" => ports[t.port] = None
  /\ t.op = "update" => ports[t.port] = t.subnet
  /\ \A ip \in t.freed : [subnet |-> t.subnet, ip |-> ip, port |-> t.port] \in allocations

\* A port has one transaction.
OneTxPerPort ==
  \A v, w \in Workers : tx[v].port # None /\ tx[v].port = tx[w].port => v = w

\* The inductive invariant of AddressHasOnePort.
AddressInv ==
  /\ IpTypeInv
  /\ OneTxPerPort
  /\ \A a \in allocations : ports[a.port] = a.subnet
  /\ \A w \in Workers : TxOfPort(tx[w])
  /\ AddressHasOnePort

\* The transaction that is none is of no port.
LEMMA NoTxOfPort == TxOfPort(NoTx)
BY DEF NoTx, TxOfPort

\* The part that is left to show of a step that keeps ports and allocations and changes
\* the transaction of one worker.
LEMMA OneTxOfPort ==
  ASSUME AddressInv, IpTypeInv', UNCHANGED <<ports, allocations>>,
         NEW w \in Workers, NEW t, tx' = [tx EXCEPT ![w] = t], TxOfPort(t),
         t.port # None => t.port = tx[w].port \/ ~Busy(t.port)
  PROVE  AddressInv'
<1>1. \A v \in Workers : tx'[v] = IF v = w THEN t ELSE tx[v]
  BY DEF AddressInv, IpTypeInv, IpTypeOK
<1>2. OneTxPerPort'
  BY <1>1 DEF AddressInv, OneTxPerPort, Busy
<1>3. ASSUME NEW v \in Workers PROVE TxOfPort(tx[v])'
  <2>1. TxOfPort(tx'[v])
    BY <1>1 DEF AddressInv
  <2>. QED
    BY <2>1 DEF TxOfPort
<1>. QED
  BY <1>2, <1>3 DEF AddressInv, AddressHasOnePort

\* A step of a transaction that keeps its port, its subnet and what it frees.
LEMMA SamePort ==
  ASSUME AddressInv, IpTypeInv', UNCHANGED <<ports, allocations>>, NEW w \in Workers, NEW t,
         tx' = [tx EXCEPT ![w] = t],
         t.op = tx[w].op, t.port = tx[w].port, t.subnet = tx[w].subnet, t.freed = tx[w].freed
  PROVE  AddressInv'
<1>1. TxOfPort(t)
  BY DEF AddressInv, TxOfPort
<1>. QED
  BY <1>1, OneTxOfPort

\* To take an address from the ranges changes no allocation,
LEMMA TakeUnique ==
  ASSUME AddressInv, IpTypeInv', UNCHANGED <<ports, allocations>>, NEW w \in Workers,
         NEW rows, NEW row, NEW ip, Take(w, rows, row, ip)
  PROVE  AddressInv'
<1> DEFINE t == [tx[w] EXCEPT !.pc = "allocating", !.todo = Tail(@), !.got = Append(@, ip),
                              !.locked = TRUE, !.draft = (rows \ {row}) \cup Split(row, ip)]
<1>1. tx' = [tx EXCEPT ![w] = t]
  BY DEF Take, AddressInv, IpTypeInv, IpTypeOK
<1>2. tx[w] \in Transaction
  BY DEF AddressInv, IpTypeInv, IpTypeOK
<1>3. /\ t.op = tx[w].op /\ t.port = tx[w].port
      /\ t.subnet = tx[w].subnet /\ t.freed = tx[w].freed
  BY <1>2 DEF Transaction
<1>. HIDE DEF t
<1>. QED
  BY <1>1, <1>3, SamePort

\* nor does any other step of an allocation.
LEMMA AllocateUnique ==
  ASSUME AddressInv, IpTypeInv', NEW w \in Workers, Allocate(w)
  PROVE  AddressInv'
<1>1. UNCHANGED <<ports, allocations>>
  BY DEF Allocate, AllocateSpecific, Generate, ReadAllocations, Rebuild
<1>2. tx[w] \in Transaction
  BY DEF AddressInv, IpTypeInv, IpTypeOK
<1>3. CASE \E rows, row, ip : Take(w, rows, row, ip)
  BY <1>1, <1>3, TakeUnique
<1>4. CASE tx' = [tx EXCEPT ![w].todo = Tail(@), ![w].got = Append(@, Head(tx[w].todo)),
                            ![w].locked = @ \/ View(w) # {}, ![w].draft = View(w)]
  <2> DEFINE t == [tx[w] EXCEPT !.todo = Tail(@), !.got = Append(@, Head(tx[w].todo)),
                                !.locked = @ \/ View(w) # {}, !.draft = View(w)]
  <2>1. tx' = [tx EXCEPT ![w] = t]
    BY <1>4 DEF AddressInv, IpTypeInv, IpTypeOK
  <2>2. /\ t.op = tx[w].op /\ t.port = tx[w].port
        /\ t.subnet = tx[w].subnet /\ t.freed = tx[w].freed
    BY <1>2 DEF Transaction
  <2>. HIDE DEF t
  <2>. QED
    BY <1>1, <2>1, <2>2, SamePort
<1>5. CASE tx' = [tx EXCEPT ![w].pc = "rebuilding", ![w].seen = AllocationsSeen(w)]
  <2> DEFINE t == [tx[w] EXCEPT !.pc = "rebuilding", !.seen = AllocationsSeen(w)]
  <2>1. tx' = [tx EXCEPT ![w] = t]
    BY <1>5 DEF AddressInv, IpTypeInv, IpTypeOK
  <2>2. /\ t.op = tx[w].op /\ t.port = tx[w].port
        /\ t.subnet = tx[w].subnet /\ t.freed = tx[w].freed
    BY <1>2 DEF Transaction
  <2>. HIDE DEF t
  <2>. QED
    BY <1>1, <2>1, <2>2, SamePort
<1>6. \/ \E rows, row, ip : Take(w, rows, row, ip)
      \/ tx' = [tx EXCEPT ![w].todo = Tail(@), ![w].got = Append(@, Head(tx[w].todo)),
                          ![w].locked = @ \/ View(w) # {}, ![w].draft = View(w)]
      \/ tx' = [tx EXCEPT ![w].pc = "rebuilding", ![w].seen = AllocationsSeen(w)]
  <2>1. CASE AllocateSpecific(w)
    BY <2>1, Zenon DEF AllocateSpecific
  <2>2. CASE Generate(w)
    BY <2>2, Zenon DEF Generate
  <2>3. CASE ReadAllocations(w)
    BY <2>3, Zenon DEF ReadAllocations
  <2>4. CASE Rebuild(w)
    BY <2>4, Zenon DEF Rebuild
  <2>. QED
    BY <2>1, <2>2, <2>3, <2>4 DEF Allocate
<1>. QED
  BY <1>3, <1>4, <1>5, <1>6

\* A transaction begins for a port that has none, and frees addresses of that port.
LEMMA StartUnique ==
  ASSUME AddressInv, IpTypeInv', NEW w \in Workers, NEW op \in {"create", "update"},
         NEW p \in Ports, NEW s \in Subnets, NEW todo, NEW freed,
         Begin(w, op, p, s, todo, freed), ~Busy(p), UNCHANGED <<ports, allocations>>,
         op = "create" => ports[p] = None, op = "update" => ports[p] = s,
         \A ip \in freed : [subnet |-> s, ip |-> ip, port |-> p] \in allocations
  PROVE  AddressInv'
<1> DEFINE t == [NoTx EXCEPT !.pc = "allocating", !.op = op, !.port = p,
                             !.subnet = s, !.todo = todo, !.freed = freed]
<1>1. tx' = [tx EXCEPT ![w] = t]
  BY DEF Begin
<1>2. t.op = op /\ t.port = p /\ t.subnet = s /\ t.freed = freed
  BY DEF NoTx
<1>. HIDE DEF t
<1>3. TxOfPort(t)
  BY <1>2 DEF TxOfPort
<1>. QED
  BY <1>1, <1>2, <1>3, OneTxOfPort

\* Requests about ports: one that goes takes its allocations along.
LEMMA PortRequestUnique ==
  ASSUME AddressInv, IpTypeInv', NEW w \in Workers, NEW p \in Ports,
         \/ \E s \in Subnets, want \in Wants : StartCreate(w, p, s, want)
         \/ \E kept \in SUBSET AddressesOf(p), fresh \in Wants \cup {<<>>} :
              StartUpdate(w, p, kept, fresh)
         \/ DeletePort(w, p)
  PROVE  AddressInv'
<1>1. ASSUME NEW s \in Subnets, NEW want \in Wants, StartCreate(w, p, s, want)
      PROVE  AddressInv'
  BY <1>1, StartUnique DEF StartCreate
<1>2. ASSUME NEW kept \in SUBSET AddressesOf(p), NEW fresh \in Wants \cup {<<>>},
             StartUpdate(w, p, kept, fresh)
      PROVE  AddressInv'
  <2>1. ports[p] \in Subnets
    BY <1>2 DEF AddressInv, IpTypeInv, IpTypeOK, StartUpdate
  <2>2. \A ip \in AddressesOf(p) : [subnet |-> ports[p], ip |-> ip, port |-> p] \in allocations
    BY DEF AddressInv, IpTypeInv, IpTypeOK, AddressesOf
  <2>. QED
    BY <1>2, <2>1, <2>2, StartUnique DEF StartUpdate
<1>3. ASSUME DeletePort(w, p) PROVE AddressInv'
  <2>1. /\ UNCHANGED tx /\ ~Busy(p) /\ ports' = [ports EXCEPT ![p] = None]
        /\ allocations' = {a \in allocations : a.port # p}
    BY <1>3 DEF DeletePort, RemovePort
  <2>2. ASSUME NEW v \in Workers PROVE TxOfPort(tx[v])'
    BY <2>1 DEF AddressInv, IpTypeInv, IpTypeOK, TxOfPort, Busy, TxOK, Transaction, NoTx
  <2>3. \A a \in allocations' : ports'[a.port] = a.subnet
    BY <2>1 DEF AddressInv, IpTypeInv, IpTypeOK
  <2>. QED
    BY <2>1, <2>2, <2>3 DEF AddressInv, OneTxPerPort, AddressHasOnePort
<1>. QED
  BY <1>1, <1>2, <1>3

\* A transaction that is rolled back leaves ports and allocations.
LEMMA EndUnique ==
  ASSUME AddressInv, IpTypeInv', NEW w \in Workers, tx' = [tx EXCEPT ![w] = NoTx],
         UNCHANGED <<ports, allocations>>
  PROVE  AddressInv'
BY NoTxOfPort, OneTxOfPort DEF NoTx

\* What is committed: the key of the table keeps out an address another port has, and an
\* address the transaction frees was of its own port.
LEMMA CommitUnique ==
  ASSUME AddressInv, IpTypeInv', NEW w \in Workers, Commit(w)
  PROVE  AddressInv'
<1> DEFINE p == tx[w].port
           s == tx[w].subnet
           new == {[subnet |-> s, ip |-> i, port |-> p] : i \in Elements(tx[w].got)}
           kept == {a \in allocations : ~(a.port = p /\ a.ip \in tx[w].freed)}
<1>1. /\ p \in Ports /\ s \in Subnets /\ tx[w].op \in {"create", "update"} /\ p # None
      /\ Elements(tx[w].got) \subseteq Hosts
  BY IpNoneAssumption DEF Commit, Done, AddressInv, IpTypeInv, IpTypeOK, TxOK, Transaction, Elements
<1>2. /\ ports' = [ports EXCEPT ![p] = s] /\ allocations' = kept \cup new
      /\ tx' = [tx EXCEPT ![w] = NoTx] /\ KeysAreFree(w)
  BY DEF Commit
<1>3. /\ ports \in [Ports -> Subnets \cup {None}] /\ tx \in [Workers -> Transaction]
      /\ allocations \subseteq [subnet : Subnets, ip : Hosts, port : Ports]
  BY DEF AddressInv, IpTypeInv, IpTypeOK
<1>4. \A a \in allocations : a.port = p => a.subnet = s
  BY <1>1, <1>3, IpNoneAssumption DEF AddressInv, TxOfPort
<1>5. \A a \in new : a.port = p /\ a.subnet = s /\ a.ip \in Elements(tx[w].got)
  OBVIOUS
<1>6. \A a \in allocations' : ports'[a.port] = a.subnet
  BY <1>1, <1>2, <1>3, <1>4, <1>5 DEF AddressInv
<1>7. AddressHasOnePort'
  <2>1. ASSUME NEW a \in kept, NEW b \in new, a.subnet = b.subnet, a.ip = b.ip
        PROVE  a.port = p
    <3>1. a.ip \in Allocated(s) /\ a.ip \in Elements(tx[w].got) /\ a.subnet = s
      BY <1>5, <2>1 DEF Allocated
    <3>2. a.ip \in tx[w].freed
      BY <1>2, <3>1 DEF KeysAreFree
    <3>3. [subnet |-> s, ip |-> a.ip, port |-> p] \in allocations
      BY <3>2 DEF AddressInv, TxOfPort
    <3>. QED
      BY <3>1, <3>3 DEF AddressInv, AddressHasOnePort
  <2>2. \A a, b \in kept : a.subnet = b.subnet /\ a.ip = b.ip => a.port = b.port
    BY DEF AddressInv, AddressHasOnePort
  <2>. HIDE DEF kept, new
  <2>. QED
    BY <1>2, <1>5, <2>1, <2>2 DEF AddressHasOnePort
<1>8. ASSUME NEW v \in Workers PROVE TxOfPort(tx[v])'
  <2>1. CASE v = w
    <3>1. tx'[v] = NoTx
      BY <1>2, <1>3, <2>1
    <3>. QED
      BY <3>1 DEF TxOfPort, NoTx
  <2>2. CASE v # w
    <3>1. tx'[v] = tx[v] /\ tx[v].port # p /\ tx[v] \in Transaction /\ TxOK(tx[v]) /\ TxOfPort(tx[v])
      BY <1>1, <1>2, <1>3, <2>2 DEF AddressInv, OneTxPerPort, IpTypeInv
    <3>2. ports'[tx[v].port] = ports[tx[v].port] \/ tx[v] = NoTx
      BY <1>1, <1>2, <1>3, <3>1 DEF TxOK
    <3>3. \A ip \in tx[v].freed : [subnet |-> tx[v].subnet, ip |-> ip, port |-> tx[v].port] \in kept
      BY <3>1 DEF TxOfPort
    <3>. HIDE DEF kept, new
    <3>4. \A ip \in tx[v].freed :
            [subnet |-> tx[v].subnet, ip |-> ip, port |-> tx[v].port] \in allocations'
      BY <1>2, <3>3
    <3>5. CASE tx[v] = NoTx
      BY <3>1, <3>5 DEF TxOfPort, NoTx
    <3>6. CASE tx[v] # NoTx
      BY <3>1, <3>2, <3>4, <3>6 DEF TxOfPort
    <3>. QED
      BY <3>5, <3>6
  <2>. QED
    BY <2>1, <2>2
<1>9. OneTxPerPort'
  BY <1>2, <1>3 DEF AddressInv, OneTxPerPort, NoTx
<1>. QED
  BY <1>6, <1>7, <1>8, <1>9 DEF AddressInv

\* The invariant holds at the start,
LEMMA InitUnique == IpInit => AddressInv
<1>1. IpInit => \A w \in Workers : TxOfPort(tx[w])
  BY NoTxOfPort DEF IpInit
<1>2. IpInit => OneTxPerPort /\ AddressHasOnePort
  BY DEF IpInit, NoTx, OneTxPerPort, AddressHasOnePort
<1>. QED
  BY <1>1, <1>2, InitType DEF AddressInv, IpInit

\* and every step keeps it.
LEMMA NextUnique == AddressInv /\ [IpNext]_ipVars => AddressInv'
<1>. SUFFICES ASSUME AddressInv, [IpNext]_ipVars PROVE AddressInv'
  OBVIOUS
<1>0. IpTypeInv'
  BY NextType DEF AddressInv
<1>1. ASSUME NEW w \in Workers, IpRequest(w) PROVE AddressInv'
  <2>1. ASSUME UNCHANGED <<allocations, ports, tx>> PROVE AddressInv'
    BY <1>0, <2>1 DEF AddressInv, OneTxPerPort, TxOfPort, AddressHasOnePort
  <2>2. ASSUME NEW s \in Subnets, NEW g, NEW pools,
               CreateSubnet(w, s, g, pools) \/ UpdateGateway(w, s, g) \/ DeleteSubnet(w, s)
        PROVE  UNCHANGED <<allocations, ports, tx>>
    BY <2>2 DEF CreateSubnet, UpdateGateway, DeleteSubnet
  <2>. QED
    BY <1>0, <1>1, <2>1, <2>2, PortRequestUnique DEF IpRequest
<1>2. ASSUME NEW w \in Workers, RebuildFails(w) \/ CommitFails(w) \/ WaitsTooLong(w)
      PROVE  AddressInv'
  BY <1>0, <1>2, EndUnique DEF RebuildFails, CommitFails, WaitsTooLong
<1>3. CASE UNCHANGED ipVars
  BY <1>0, <1>3 DEF ipVars, AddressInv, OneTxPerPort, TxOfPort, AddressHasOnePort
<1>. QED
  BY <1>0, <1>1, <1>2, <1>3, AllocateUnique, CommitUnique DEF IpNext

\* No two ports of a subnet ever have one address, whatever requests run at once and in
\* whatever order their transactions commit, although the ranges they draw addresses from
\* may be stale.
THEOREM AddressUnique == IpSpec => []AddressHasOnePort
<1>1. IpSpec => []AddressInv
  BY InitUnique, NextUnique, PTL DEF IpSpec
<1>. QED
  BY <1>1, PTL DEF AddressInv

-----------------------------------------------------------------------------
(* What the ranges say, one request at a time.                             *)

\* One request at a time, with one address.
Serial == MaxFixedIps = 1 /\ \A v, w \in Workers : v = w

\* No two ranges overlap.
Disjoint(rows) == \A row, other \in rows : row # other => Span(row) \cap Span(other) = {}

\* What a transaction has of the ranges is free of what it has and of what others have,
\* and when it rebuilds it has none and has seen every allocation but its own.
FreeView(w) ==
  tx[w].pc # "idle" =>
    /\ Disjoint(View(w))
    /\ Covered(View(w)) \subseteq PoolOf(tx[w].subnet) \ (AllocationsSeen(w) \cup Elements(tx[w].got))
    /\ Len(tx[w].todo) <= 1
    /\ tx[w].todo # <<>> => tx[w].got = <<>>
    /\ tx[w].pc = "rebuilding" => View(w) = {} /\ tx[w].seen = AllocationsSeen(w)

\* The inductive invariant of RangesAreFree.
RangesInv ==
  /\ AddressInv
  /\ \A s \in Subnets : Disjoint(subnets[s].pools)
  /\ \A s \in Subnets : ~subnets[s].here => Allocated(s) = {}
  /\ RangesAreFree
  /\ \A w \in Workers : FreeView(w)

\* Two maximal intervals of a set are one or have nothing in common.
LEMMA RunsDisjoint == \A ips : Disjoint(Runs(ips))
<1>. SUFFICES ASSUME NEW ips, NEW row \in Runs(ips), NEW other \in Runs(ips),
                     NEW ip \in Span(row) \cap Span(other)
              PROVE  row = other
  BY DEF Disjoint
<1>1. /\ row \in Row /\ other \in Row
      /\ row.first \in Nat /\ row.last \in Nat /\ other.first \in Nat /\ other.last \in Nat
      /\ row.first >= 1 /\ other.first >= 1 /\ ip \in Nat
      /\ row.first <= ip /\ ip <= row.last /\ other.first <= ip /\ ip <= other.last
  BY LastAssumption DEF Runs, Row, Hosts, Span
<1>2. /\ \A i \in row.first..row.last : i \in ips
      /\ \A i \in other.first..other.last : i \in ips
      /\ row.first - 1 \notin ips /\ row.last + 1 \notin ips
      /\ other.first - 1 \notin ips /\ other.last + 1 \notin ips
  BY <1>1 DEF Runs, Span
<1>3. row.first = other.first
  <2>1. ~(row.first < other.first)
    BY <1>1, <1>2
  <2>2. ~(other.first < row.first)
    BY <1>1, <1>2
  <2>. QED
    BY <1>1, <2>1, <2>2
<1>4. row.last = other.last
  <2>1. ~(row.last < other.last)
    BY <1>1, <1>2
  <2>2. ~(other.last < row.last)
    BY <1>1, <1>2
  <2>. QED
    BY <1>1, <2>1, <2>2
<1>. QED
  BY <1>1, <1>3, <1>4 DEF Row

\* The rows that are left when an address is taken from one of them.
LEMMA TakenRows ==
  ASSUME NEW rows \in SUBSET Row, Disjoint(rows), NEW row \in rows, NEW ip \in Span(row)
  PROVE  LET left == (rows \ {row}) \cup Split(row, ip)
         IN  Disjoint(left) /\ Covered(left) \subseteq Covered(rows) \ {ip}
<1>1. /\ Covered(Split(row, ip)) \subseteq Span(row) \ {ip}
      /\ \A part, other \in Split(row, ip) : part # other => Span(part) \cap Span(other) = {}
  BY SplitRow
<1>2. \A part \in Split(row, ip) : Span(part) \subseteq Span(row) \ {ip}
  BY <1>1 DEF Covered
<1>3. \A other \in rows \ {row} : Span(other) \cap Span(row) = {}
  BY DEF Disjoint
<1>. HIDE DEF Split, Span
<1>4. Disjoint((rows \ {row}) \cup Split(row, ip))
  BY <1>1, <1>2, <1>3 DEF Disjoint
<1>5. Covered((rows \ {row}) \cup Split(row, ip)) \subseteq Covered(rows) \ {ip}
  BY <1>2, <1>3 DEF Covered
<1>. QED
  BY <1>4, <1>5

\* The default pools lie on either side of the gateway.
LEMMA DefaultPoolsDisjoint ==
  ASSUME NEW gateway \in Net \cup {None}
  PROVE  Disjoint(DefaultPools(gateway))
<1> DEFINE split == IF gateway = None THEN Last ELSE gateway
           low   == [first |-> 1, last |-> split - 1]
           high  == [first |-> split + 1, last |-> Last - 1]
<1>1. split \in 0..Last
  BY LastAssumption DEF Net
<1>2. DefaultPools(gateway) \subseteq {low, high}
  BY DEF DefaultPools
<1>3. Span(low) \cap Span(high) = {}
  <2>. HIDE DEF split
  <2>. QED
    BY <1>1, LastAssumption DEF Span
<1>. HIDE DEF low, high
<1>. QED
  BY <1>2, <1>3 DEF Disjoint

\* What a rebuild writes: what the allocations leave of the pools.
LEMMA RebuiltFree ==
  ASSUME RangesInv, NEW w \in Workers, tx[w].pc = "rebuilding"
  PROVE  /\ Disjoint(Rebuilt(w))
         /\ Covered(Rebuilt(w)) \subseteq PoolOf(tx[w].subnet) \ tx[w].seen
<1> DEFINE pools == subnets[tx[w].subnet].pools
<1>1. Disjoint(pools)
  BY DEF RangesInv, AddressInv, IpTypeInv, TxOK
<1>2. \A row \in Rebuilt(w) : \E pool \in pools : row \in Runs(Span(pool) \ tx[w].seen)
  BY DEF Rebuilt
<1>3. \A ips : \A row \in Runs(ips) : Span(row) \subseteq ips
  BY DEF Runs
<1>. HIDE DEF pools
<1>4. Disjoint(Rebuilt(w))
  <2>. SUFFICES ASSUME NEW row \in Rebuilt(w), NEW other \in Rebuilt(w), row # other
                PROVE  Span(row) \cap Span(other) = {}
    BY DEF Disjoint
  <2>1. PICK pool \in pools : row \in Runs(Span(pool) \ tx[w].seen)
    BY <1>2
  <2>2. PICK pool2 \in pools : other \in Runs(Span(pool2) \ tx[w].seen)
    BY <1>2
  <2>3. CASE pool = pool2
    BY <2>1, <2>2, <2>3, RunsDisjoint DEF Disjoint
  <2>4. CASE pool # pool2
    <3>1. Span(pool) \cap Span(pool2) = {}
      BY <1>1, <2>4 DEF Disjoint
    <3>. QED
      BY <1>3, <2>1, <2>2, <3>1
  <2>. QED
    BY <2>3, <2>4
<1>5. ASSUME NEW row \in Rebuilt(w)
      PROVE  Span(row) \subseteq Covered(pools) \ tx[w].seen
  <2>1. PICK pool \in pools : row \in Runs(Span(pool) \ tx[w].seen)
    BY <1>2
  <2>2. Span(row) \subseteq Span(pool) \ tx[w].seen
    BY <1>3, <2>1
  <2>3. Span(pool) \subseteq Covered(pools)
    BY DEF Covered
  <2>. QED
    BY <2>2, <2>3
<1>. QED
  BY <1>4, <1>5 DEF Covered, PoolOf, pools

\* A step of the one transaction there is, which leaves all but it as it was.
LEMMA OneView ==
  ASSUME Serial, RangesInv, AddressInv', NEW w \in Workers, FreeView(w)',
         UNCHANGED <<subnets, ranges, allocations>>
  PROVE  RangesInv'
<1>1. \A v \in Workers : FreeView(v)'
  BY DEF Serial
<1>. QED
  BY <1>1 DEF RangesInv, RangesAreFree, PoolOf, Allocated

\* To take an address out of a range leaves ranges that are free of it.
LEMMA TakeFree ==
  ASSUME Serial, RangesInv, AddressInv', NEW w \in Workers,
         tx[w].pc # "idle", tx[w].todo # <<>>,
         NEW rows \in SUBSET Row, Disjoint(rows),
         Covered(rows) \subseteq PoolOf(tx[w].subnet) \ AllocationsSeen(w),
         NEW row \in rows, NEW ip \in Span(row), Take(w, rows, row, ip),
         UNCHANGED <<subnets, ranges, allocations, ports, requests>>
  PROVE  RangesInv'
<1> DEFINE left == (rows \ {row}) \cup Split(row, ip)
<1>1. tx[w] \in Transaction /\ tx[w].got = <<>> /\ Len(tx[w].todo) <= 1
  BY DEF RangesInv, FreeView, AddressInv, IpTypeInv, IpTypeOK
<1>2. /\ tx'[w].pc = "allocating" /\ tx'[w].todo = Tail(tx[w].todo)
      /\ tx'[w].got = Append(<<>>, ip) /\ tx'[w].locked /\ tx'[w].draft = left
      /\ tx'[w].subnet = tx[w].subnet /\ tx'[w].freed = tx[w].freed
  BY <1>1 DEF Take, RangesInv, AddressInv, IpTypeInv, IpTypeOK, Transaction
<1>3. Disjoint(left) /\ Covered(left) \subseteq Covered(rows) \ {ip}
  BY TakenRows
<1>4. Elements(tx'[w].got) = {ip}
  BY <1>2 DEF Elements
<1>5. tx'[w].todo = <<>>
  BY <1>1, <1>2, HeadTailProperties, EmptySeq DEF Transaction
<1>6. AllocationsSeen(w)' = AllocationsSeen(w)
  BY <1>2 DEF AllocationsSeen, Allocated
<1>7. PoolOf(tx[w].subnet)' = PoolOf(tx[w].subnet)
  BY <1>2 DEF PoolOf
<1>8. View(w)' = left
  BY <1>2 DEF View
<1>. HIDE DEF left
<1>9. Disjoint(View(w))' /\ Covered(View(w))' = Covered(left)
  BY <1>3, <1>8 DEF Disjoint, Covered
<1>10. Elements(tx[w].got)' = {ip}
  BY <1>4 DEF Elements
<1>11. FreeView(w)'
  <2>1. Covered(View(w))'
          \subseteq PoolOf(tx[w].subnet)' \ (AllocationsSeen(w)' \cup Elements(tx[w].got)')
    BY <1>3, <1>6, <1>7, <1>9, <1>10
  <2>2. /\ (tx[w].pc = "allocating")' /\ (Len(tx[w].todo) <= 1)'
        /\ (tx[w].todo # <<>> => tx[w].got = <<>>)'
    <3>1. Len(<<>>) = 0
      OBVIOUS
    <3>2. tx'[w].pc = "allocating" /\ tx'[w].todo = <<>>
      BY <1>2, <1>5
    <3>3. (Len(tx[w].todo) <= 1)'
      BY <3>1, <3>2
    <3>4. (tx[w].todo # <<>> => tx[w].got = <<>>)'
      BY <3>2
    <3>. QED
      BY <3>2, <3>3, <3>4
  <2>. QED
    BY <1>9, <2>1, <2>2 DEF FreeView
<1>. QED
  BY <1>11, OneView

\* An address that is in no range is taken all the same.
LEMMA SpecificFree ==
  ASSUME Serial, RangesInv, AddressInv', NEW w \in Workers, NEW ip,
         tx[w].pc = "allocating", tx[w].todo # <<>>, ip \notin Covered(View(w)),
         tx'[w].pc = "allocating", tx'[w].todo = Tail(tx[w].todo),
         tx'[w].got = Append(tx[w].got, ip), tx'[w].draft = View(w),
         tx'[w].locked <=> tx[w].locked \/ View(w) # {},
         tx'[w].subnet = tx[w].subnet, tx'[w].freed = tx[w].freed,
         UNCHANGED <<subnets, ranges, allocations, ports, requests>>
  PROVE  RangesInv'
<1>1. tx[w].todo \in Seq(Hosts \cup {AnyIp}) /\ tx[w].got = <<>> /\ Len(tx[w].todo) <= 1
  BY DEF RangesInv, FreeView, AddressInv, IpTypeInv, IpTypeOK, Transaction
<1>2. Elements(tx'[w].got) = {ip}
  BY <1>1 DEF Elements
<1>3. tx'[w].todo = <<>>
  BY <1>1, HeadTailProperties, EmptySeq
<1>4. AllocationsSeen(w)' = AllocationsSeen(w) /\ PoolOf(tx[w].subnet)' = PoolOf(tx[w].subnet)
  BY DEF AllocationsSeen, Allocated, PoolOf
<1>5. View(w)' = View(w)
  BY DEF View
<1>6. Disjoint(View(w))' /\ Covered(View(w))' = Covered(View(w))
  BY <1>5 DEF RangesInv, FreeView, Disjoint, Covered
<1>7. Elements(tx[w].got)' = {ip}
  BY <1>2 DEF Elements
<1>8. FreeView(w)'
  <2>1. Covered(View(w)) \subseteq PoolOf(tx[w].subnet) \ AllocationsSeen(w)
    BY DEF RangesInv, FreeView
  <2>2. Covered(View(w))'
          \subseteq PoolOf(tx[w].subnet)' \ (AllocationsSeen(w)' \cup Elements(tx[w].got)')
    BY <1>4, <1>6, <1>7, <2>1
  <2>3. (tx[w].todo # <<>> => tx[w].got = <<>>)'
    BY <1>3
  <2>4. (Len(tx[w].todo) <= 1)'
    <3>1. \A q : q = <<>> => Len(q) <= 1
      OBVIOUS
    <3>. QED
      BY <1>3, <3>1, Zenon
  <2>. QED
    BY <1>6, <2>2, <2>3, <2>4 DEF FreeView
<1>. QED
  BY <1>8, OneView

\* Allocation keeps the invariant: a rebuild has seen every allocation.
LEMMA AllocateRanges ==
  ASSUME Serial, RangesInv, AddressInv', NEW w \in Workers, Allocate(w)
  PROVE  RangesInv'
<1>1. tx[w].pc # "idle" /\ UNCHANGED <<subnets, ranges, allocations, ports, requests>>
  BY DEF Allocate, AllocateSpecific, Generate, ReadAllocations, Rebuild
<1>2. /\ IpTypeInv /\ tx[w] \in Transaction /\ tx[w].subnet \in Subnets
      /\ View(w) \in SUBSET Row /\ Disjoint(View(w))
      /\ Covered(View(w)) \subseteq PoolOf(tx[w].subnet) \ AllocationsSeen(w)
  BY <1>1, ViewType DEF RangesInv, FreeView, AddressInv, IpTypeInv, IpTypeOK
<1>3. CASE AllocateSpecific(w)
  <2>1. CASE \E row \in View(w) : Head(tx[w].todo) \in Span(row)
                                 /\ Take(w, View(w), row, Head(tx[w].todo))
    BY <1>1, <1>2, <1>3, <2>1, TakeFree DEF AllocateSpecific
  <2>2. CASE /\ Head(tx[w].todo) \notin Covered(View(w))
             /\ tx' = [tx EXCEPT ![w].todo = Tail(@), ![w].got = Append(@, Head(tx[w].todo)),
                                 ![w].locked = @ \/ View(w) # {}, ![w].draft = View(w)]
    <3> DEFINE lock == tx[w].locked \/ View(w) # {}
               rest == Tail(tx[w].todo)
               more == Append(tx[w].got, Head(tx[w].todo))
    <3>1. tx'[w] = [tx[w] EXCEPT !.todo = rest, !.got = more, !.locked = lock, !.draft = View(w)]
      BY <1>2, <2>2 DEF IpTypeInv, IpTypeOK
    <3>. HIDE DEF lock, rest, more
    <3>2. /\ tx'[w].pc = tx[w].pc /\ tx'[w].todo = rest /\ tx'[w].got = more
          /\ tx'[w].draft = View(w) /\ tx'[w].subnet = tx[w].subnet /\ tx'[w].freed = tx[w].freed
      BY <1>2, <3>1, Zenon DEF Transaction
    <3>3. tx'[w].locked <=> lock
      BY <1>2, <3>1, Zenon DEF Transaction
    <3>4. tx[w].pc = "allocating" /\ tx[w].todo # <<>>
      BY <1>3 DEF AllocateSpecific
    <3>. QED
      BY <1>1, <2>2, <3>2, <3>3, <3>4, SpecificFree, Zenon DEF lock, rest, more
  <2>. QED
    BY <1>3, <2>1, <2>2 DEF AllocateSpecific
<1>4. CASE Generate(w)
  BY <1>1, <1>2, <1>4, TakeFree, FirstOfRow DEF Generate
<1>5. CASE ReadAllocations(w)
  <2>1. /\ tx'[w].pc = "rebuilding" /\ tx'[w].seen = AllocationsSeen(w) /\ View(w) = {}
        /\ tx'[w].todo = tx[w].todo /\ tx'[w].got = tx[w].got /\ tx'[w].locked = tx[w].locked
        /\ tx'[w].draft = tx[w].draft /\ tx'[w].subnet = tx[w].subnet /\ tx'[w].freed = tx[w].freed
    BY <1>2, <1>5 DEF ReadAllocations, IpTypeInv, IpTypeOK, Transaction
  <2>2. AllocationsSeen(w)' = AllocationsSeen(w) /\ View(w)' = {}
    BY <1>1, <2>1 DEF AllocationsSeen, Allocated, View
  <2>3. Disjoint(View(w))' /\ Covered(View(w))' = {}
    BY <2>2 DEF Disjoint, Covered
  <2>4. Len(tx[w].todo) <= 1 /\ (tx[w].todo # <<>> => tx[w].got = <<>>)
    BY <1>1 DEF RangesInv, FreeView
  <2>5. FreeView(w)'
    BY <2>1, <2>2, <2>3, <2>4 DEF FreeView
  <2>. QED
    BY <1>1, <2>5, OneView
<1>6. CASE Rebuild(w)
  <2> DEFINE rows == View(w) \cup Rebuilt(w)
  <2>1. tx[w].pc = "rebuilding" /\ View(w) = {} /\ tx[w].seen = AllocationsSeen(w)
        /\ tx[w].todo # <<>>
    BY <1>2, <1>6 DEF Rebuild, RangesInv, FreeView, IpTypeInv, TxOK
  <2>2. rows = Rebuilt(w) /\ rows \in SUBSET Row
    BY <1>2, <2>1, RebuiltType
  <2>3. Disjoint(rows) /\ Covered(rows) \subseteq PoolOf(tx[w].subnet) \ AllocationsSeen(w)
    BY <2>1, <2>2, RebuiltFree
  <2>4. PICK row \in rows : Take(w, rows, row, row.first)
    BY <1>6 DEF Rebuild
  <2>. HIDE DEF rows
  <2>. QED
    BY <1>1, <2>1, <2>2, <2>3, <2>4, TakeFree, FirstOfRow
<1>. QED
  BY <1>3, <1>4, <1>5, <1>6 DEF Allocate

\* The transaction has ended, and no other goes on.
LEMMA IdleViews ==
  ASSUME Serial, RangesInv, NEW w \in Workers, tx' = [tx EXCEPT ![w] = NoTx]
  PROVE  \A v \in Workers : FreeView(v)'
BY DEF Serial, RangesInv, AddressInv, IpTypeInv, IpTypeOK, FreeView, NoTx

\* A transaction that is rolled back leaves the ranges.
LEMMA EndRanges ==
  ASSUME Serial, RangesInv, AddressInv', NEW w \in Workers, tx' = [tx EXCEPT ![w] = NoTx],
         UNCHANGED <<subnets, ranges, allocations>>
  PROVE  RangesInv'
BY IdleViews DEF RangesInv, RangesAreFree, PoolOf, Allocated

\* The ranges the transaction has made take the place of those of its subnet.
LEMMA CommitRanges ==
  ASSUME Serial, RangesInv, AddressInv', NEW w \in Workers, Commit(w)
  PROVE  RangesInv'
<1>0. /\ tx[w].port \in Ports /\ tx[w].subnet \in Subnets
      /\ tx[w].pc # "idle" /\ tx[w] \in Transaction
  BY DEF Commit, Done, RangesInv, AddressInv, IpTypeInv, IpTypeOK, TxOK
<1>p. PICK p \in Ports : p = tx[w].port
  BY <1>0
<1>1. PICK s \in Subnets : s = tx[w].subnet
  BY <1>0
<1>2. /\ tx' = [tx EXCEPT ![w] = NoTx] /\ UNCHANGED subnets /\ subnets[s].here
      /\ allocations' = {a \in allocations : ~(a.port = p /\ a.ip \in tx[w].freed)}
                          \cup {[subnet |-> s, ip |-> i, port |-> p] : i \in Elements(tx[w].got)}
      /\ ranges' = [ranges EXCEPT ![s] = View(w)]
  <2>1. /\ tx' = [tx EXCEPT ![w] = NoTx] /\ UNCHANGED subnets /\ subnets[s].here
        /\ allocations' = {a \in allocations : ~(a.port = p /\ a.ip \in tx[w].freed)}
                            \cup {[subnet |-> s, ip |-> i, port |-> p] : i \in Elements(tx[w].got)}
    BY <1>p, <1>1, Zenon DEF Commit
  <2>2. ranges' = IF tx[w].locked THEN [ranges EXCEPT ![s] = tx[w].draft] ELSE ranges
    BY <1>1, Zenon DEF Commit
  <2>3. ranges = [ranges EXCEPT ![s] = ranges[s]]
    BY <1>1 DEF RangesInv, AddressInv, IpTypeInv, IpTypeOK
  <2>4. View(w) = IF tx[w].locked THEN tx[w].draft ELSE ranges[s]
    BY <1>1, Zenon DEF View
  <2>5. ranges' = [ranges EXCEPT ![s] = View(w)]
    BY <2>2, <2>3, <2>4, Zenon
  <2>. QED
    BY <2>1, <2>5
<1>3. ASSUME NEW q \in Subnets PROVE PoolOf(q)' = PoolOf(q)
  BY <1>2 DEF PoolOf
<1>4. Allocated(s)' \subseteq AllocationsSeen(w) \cup Elements(tx[w].got)
  <2>. SUFFICES ASSUME NEW a \in allocations', a.subnet = s
                PROVE  a.ip \in AllocationsSeen(w) \cup Elements(tx[w].got)
    BY DEF Allocated
  <2>1. CASE a \in allocations /\ ~(a.port = p /\ a.ip \in tx[w].freed)
    <3>1. a.ip \in Allocated(s)
      BY <2>1 DEF Allocated
    <3>2. CASE a.ip \in tx[w].freed
      <4>1. [subnet |-> s, ip |-> a.ip, port |-> p] \in allocations
        BY <1>p, <1>1, <3>2 DEF RangesInv, AddressInv, TxOfPort
      <4>2. a.port = p
        BY <2>1, <4>1 DEF RangesInv, AddressInv, AddressHasOnePort
      <4>. QED
        BY <2>1, <3>2, <4>2
    <3>. QED
      BY <1>1, <3>1, <3>2 DEF AllocationsSeen
  <2>2. CASE \E i \in Elements(tx[w].got) : a = [subnet |-> s, ip |-> i, port |-> p]
    BY <2>2
  <2>. QED
    BY <1>2, <2>1, <2>2
<1>5. ASSUME NEW q \in Subnets, q # s PROVE Allocated(q)' \subseteq Allocated(q)
  BY <1>2, <1>5 DEF Allocated
<1>6. Disjoint(View(w)) /\ Covered(View(w)) \subseteq PoolOf(s) \ (AllocationsSeen(w) \cup Elements(tx[w].got))
  BY <1>0, <1>1 DEF RangesInv, FreeView
<1>7. ranges'[s] = View(w) /\ \A q \in Subnets : q # s => ranges'[q] = ranges[q]
  BY <1>1, <1>2 DEF RangesInv, AddressInv, IpTypeInv, IpTypeOK
<1>8. ASSUME NEW q \in Subnets
      PROVE  /\ Covered(ranges'[q]) \subseteq PoolOf(q)' \ Allocated(q)'
             /\ Disjoint(ranges'[q])
  <2>1. CASE q = s
    BY <1>3, <1>4, <1>6, <1>7, <2>1
  <2>2. CASE q # s
    BY <1>3, <1>5, <1>7, <2>2 DEF RangesInv, RangesAreFree, Disjoint
  <2>. QED
    BY <2>1, <2>2
<1>9. RangesAreFree' /\ \A q \in Subnets : (~subnets[q].here => Allocated(q) = {})'
  <2>1. \A q \in Subnets : ~subnets'[q].here => Allocated(q)' = {}
    BY <1>2, <1>5 DEF RangesInv
  <2>. QED
    BY <1>8, <2>1 DEF RangesAreFree, Disjoint, Covered
<1>. QED
  BY <1>2, <1>9, IdleViews DEF RangesInv, Disjoint

\* A subnet without allocations gets or loses its pools, and its ranges are all of them.
LEMMA RangesOfSubnet ==
  ASSUME RangesInv, AddressInv', NEW s \in Subnets, NEW pools, Disjoint(pools),
         UNCHANGED allocations, Allocated(s) = {}, \A v \in Workers : FreeView(v)',
         subnets'[s].pools = pools, ranges'[s] = pools,
         \A q \in Subnets : q # s => subnets'[q] = subnets[q] /\ ranges'[q] = ranges[q]
  PROVE  RangesInv'
<1>1. \A q \in Subnets : Allocated(q)' = Allocated(q)
  BY DEF Allocated
<1>2. PoolOf(s)' = Covered(pools) /\ \A q \in Subnets : q # s => PoolOf(q)' = PoolOf(q)
  BY DEF PoolOf
<1>3. ASSUME NEW q \in Subnets
      PROVE  /\ Covered(ranges'[q]) \subseteq PoolOf(q)' \ Allocated(q)'
             /\ Disjoint(ranges'[q]) /\ Disjoint(subnets'[q].pools)
             /\ ~subnets'[q].here => Allocated(q)' = {}
  BY <1>1, <1>2 DEF RangesInv, RangesAreFree, Disjoint
<1>4. RangesAreFree'
  BY <1>3 DEF RangesAreFree, Disjoint
<1>. QED
  BY <1>3, <1>4 DEF RangesInv, Disjoint

\* The ranges of a new subnet are its pools, of which nothing is allocated yet.
LEMMA SubnetStepRanges ==
  ASSUME Serial, RangesInv, AddressInv', NEW w \in Workers, NEW s \in Subnets,
         NEW g \in Net \cup {None},
         \/ \E pools \in Pools : CreateSubnet(w, s, g, pools)
         \/ UpdateGateway(w, s, g) \/ DeleteSubnet(w, s)
  PROVE  RangesInv'
<1>1. UNCHANGED <<allocations, tx>> /\ tx[w].pc = "idle"
  BY DEF CreateSubnet, UpdateGateway, DeleteSubnet, Request
<1>2. \A v \in Workers : FreeView(v)'
  BY <1>1 DEF Serial, FreeView
<1>3. /\ subnets \in [Subnets -> [here : BOOLEAN, gateway : Net \cup {None}, pools : SUBSET Row]]
      /\ ranges \in [Subnets -> SUBSET Row]
  BY DEF RangesInv, AddressInv, IpTypeInv, IpTypeOK
<1>4. CASE \E pools \in Pools : CreateSubnet(w, s, g, pools)
  <2>1. PICK pools \in Pools : CreateSubnet(w, s, g, pools)
    BY <1>4
  <2>2. Disjoint(pools)
    <3>1. CASE pools = DefaultPools(g)
      BY <3>1, DefaultPoolsDisjoint
    <3>2. CASE ValidPools(pools, g)
      BY <3>2 DEF ValidPools, Disjoint
    <3>. QED
      BY <2>1, <3>1, <3>2 DEF CreateSubnet
  <2>3. /\ Allocated(s) = {} /\ UNCHANGED allocations
        /\ subnets' = [subnets EXCEPT ![s] = [here |-> TRUE, gateway |-> g, pools |-> pools]]
        /\ ranges' = [ranges EXCEPT ![s] = pools]
    BY <2>1 DEF CreateSubnet, RangesInv
  <2>4. /\ subnets'[s].here /\ subnets'[s].pools = pools /\ ranges'[s] = pools
        /\ \A q \in Subnets : q # s => subnets'[q] = subnets[q] /\ ranges'[q] = ranges[q]
    BY <1>3, <2>3
  <2>. QED
    BY <1>2, <2>2, <2>3, <2>4, RangesOfSubnet
<1>5. CASE UpdateGateway(w, s, g)
  <2>1. /\ UNCHANGED <<ranges, allocations>> /\ subnets' = [subnets EXCEPT ![s].gateway = g]
    BY <1>5 DEF UpdateGateway
  <2>2. \A q \in Subnets : subnets'[q].pools = subnets[q].pools /\ subnets'[q].here = subnets[q].here
    BY <1>3, <2>1
  <2>3. \A q \in Subnets : PoolOf(q)' = PoolOf(q) /\ Allocated(q)' = Allocated(q)
    BY <2>1, <2>2 DEF PoolOf, Allocated
  <2>. QED
    BY <1>2, <2>1, <2>2, <2>3 DEF RangesInv, RangesAreFree, Disjoint
<1>6. CASE DeleteSubnet(w, s)
  <2>1. /\ UNCHANGED allocations /\ Allocated(s) = {}
        /\ subnets' = [subnets EXCEPT ![s] = NoSubnet] /\ ranges' = [ranges EXCEPT ![s] = {}]
    BY <1>6 DEF DeleteSubnet
  <2>2. /\ subnets'[s].pools = {} /\ ranges'[s] = {}
        /\ \A q \in Subnets : q # s => subnets'[q] = subnets[q] /\ ranges'[q] = ranges[q]
    BY <1>3, <2>1 DEF NoSubnet
  <2>3. Disjoint({})
    BY DEF Disjoint
  <2>. QED
    BY <1>2, <2>1, <2>2, <2>3, RangesOfSubnet
<1>. QED
  BY <1>4, <1>5, <1>6

\* A request starts when no other goes on, with what the tables say.
LEMMA StartRanges ==
  ASSUME Serial, RangesInv, AddressInv', NEW w \in Workers, NEW op \in {"create", "update"},
         NEW p \in Ports, NEW s \in Subnets, NEW todo, Len(todo) <= 1, NEW freed,
         Begin(w, op, p, s, todo, freed), UNCHANGED <<subnets, ranges, allocations>>
  PROVE  RangesInv'
<1> DEFINE t == [NoTx EXCEPT !.pc = "allocating", !.op = op, !.port = p,
                             !.subnet = s, !.todo = todo, !.freed = freed]
<1>1. tx'[w] = t
  BY DEF Begin, RangesInv, AddressInv, IpTypeInv, IpTypeOK
<1>2. /\ t.pc = "allocating" /\ t.subnet = s /\ t.todo = todo /\ t.got = <<>>
      /\ t.freed = freed /\ t.locked = FALSE
  BY DEF NoTx
<1>. HIDE DEF t
<1>3. View(w)' = ranges[s]
  BY <1>1, <1>2 DEF View
<1>4. AllocationsSeen(w)' \subseteq Allocated(s) /\ Elements(tx[w].got)' = {}
  BY <1>1, <1>2 DEF AllocationsSeen, Allocated, Elements
<1>5. PoolOf(tx[w].subnet)' = PoolOf(s)
  BY <1>1, <1>2 DEF PoolOf
<1>6. Disjoint(View(w))' /\ Covered(View(w))' = Covered(ranges[s])
  BY <1>3 DEF RangesInv, RangesAreFree, Disjoint, Covered
<1>7. Covered(ranges[s]) \subseteq PoolOf(s) \ Allocated(s)
  BY DEF RangesInv, RangesAreFree
<1>8. FreeView(w)'
  <2>1. Covered(View(w))'
          \subseteq PoolOf(tx[w].subnet)' \ (AllocationsSeen(w)' \cup Elements(tx[w].got)')
    BY <1>4, <1>5, <1>6, <1>7
  <2>. QED
    BY <1>1, <1>2, <1>6, <2>1 DEF FreeView
<1>. QED
  BY <1>8, OneView

\* Requests about ports: what one releases goes to no range.
LEMMA PortRequestRanges ==
  ASSUME Serial, RangesInv, AddressInv', NEW w \in Workers, NEW p \in Ports,
         \/ \E s \in Subnets, want \in Wants : StartCreate(w, p, s, want)
         \/ \E kept \in SUBSET AddressesOf(p), fresh \in Wants \cup {<<>>} :
              StartUpdate(w, p, kept, fresh)
         \/ DeletePort(w, p)
  PROVE  RangesInv'
<1>1. ASSUME NEW s \in Subnets, NEW want \in Wants, StartCreate(w, p, s, want)
      PROVE  RangesInv'
  <2>1. Len(want) <= 1
    BY <1>1 DEF StartCreate, Wanted, Serial
  <2>. QED
    BY <1>1, <2>1, StartRanges DEF StartCreate
<1>2. ASSUME NEW kept \in SUBSET AddressesOf(p), NEW fresh \in Wants \cup {<<>>},
             StartUpdate(w, p, kept, fresh)
      PROVE  RangesInv'
  <2>1. Len(fresh) <= 1
    BY <1>2 DEF StartUpdate, Wanted, Serial
  <2>2. ports[p] \in Subnets
    BY <1>2 DEF RangesInv, AddressInv, IpTypeInv, IpTypeOK, StartUpdate
  <2>. QED
    BY <1>2, <2>1, <2>2, StartRanges DEF StartUpdate
<1>3. ASSUME DeletePort(w, p) PROVE RangesInv'
  <2>1. /\ UNCHANGED <<subnets, ranges, tx>> /\ allocations' \subseteq allocations
        /\ tx[w].pc = "idle"
    BY <1>3 DEF DeletePort, RemovePort, Request
  <2>2. \A v \in Workers : FreeView(v)'
    BY <2>1 DEF Serial, FreeView
  <2>3. \A q \in Subnets : Allocated(q)' \subseteq Allocated(q) /\ PoolOf(q)' = PoolOf(q)
    BY <2>1 DEF Allocated, PoolOf
  <2>4. \A q \in Subnets : Covered(ranges[q]) \subseteq PoolOf(q) \ Allocated(q)
    BY DEF RangesInv, RangesAreFree
  <2>5. \A q \in Subnets : /\ Covered(ranges'[q]) \subseteq PoolOf(q)' \ Allocated(q)'
                           /\ ~subnets'[q].here => Allocated(q)' = {}
    BY <2>1, <2>3, <2>4 DEF RangesInv
  <2>. QED
    BY <2>1, <2>2, <2>5 DEF RangesInv, RangesAreFree, Disjoint
<1>. QED
  BY <1>1, <1>2, <1>3

\* Every step keeps the invariant.
LEMMA NextRanges ==
  ASSUME Serial
  PROVE  RangesInv /\ [IpNext]_ipVars => RangesInv'
<1>. SUFFICES ASSUME RangesInv, [IpNext]_ipVars PROVE RangesInv'
  OBVIOUS
<1>0. AddressInv'
  BY NextUnique DEF RangesInv
<1>1. ASSUME NEW w \in Workers, IpRequest(w) PROVE RangesInv'
  <2>1. ASSUME NEW s \in Subnets, NEW g \in Net \cup {None},
               (\E pools \in Pools : CreateSubnet(w, s, g, pools)) \/ UpdateGateway(w, s, g)
        PROVE  RangesInv'
    BY <1>0, <2>1, SubnetStepRanges
  <2>2. ASSUME NEW s \in Subnets, DeleteSubnet(w, s) PROVE RangesInv'
    BY <1>0, <2>2, SubnetStepRanges
  <2>. QED
    BY <1>0, <1>1, <2>1, <2>2, PortRequestRanges DEF IpRequest
<1>2. ASSUME NEW w \in Workers, RebuildFails(w) \/ CommitFails(w) \/ WaitsTooLong(w)
      PROVE  RangesInv'
  BY <1>0, <1>2, EndRanges DEF RebuildFails, CommitFails, WaitsTooLong
<1>3. CASE UNCHANGED ipVars
  <2>1. \A w \in Workers : FreeView(w)'
    BY <1>3 DEF ipVars, RangesInv, FreeView, View, AllocationsSeen, Allocated, PoolOf,
                Disjoint, Covered, Elements
  <2>. QED
    BY <1>0, <1>3, <2>1 DEF ipVars, RangesInv, RangesAreFree, PoolOf, Allocated, Disjoint
<1>. QED
  BY <1>0, <1>1, <1>2, <1>3, AllocateRanges, CommitRanges DEF IpNext

\* It holds at the start.
LEMMA InitRanges == IpInit => RangesInv
<1>1. IpInit => /\ \A s \in Subnets : Disjoint(subnets[s].pools) /\ Allocated(s) = {}
                /\ RangesAreFree
  BY DEF IpInit, NoSubnet, Disjoint, Allocated, RangesAreFree, Covered
<1>2. IpInit => \A w \in Workers : FreeView(w)
  BY DEF IpInit, NoTx, FreeView
<1>. QED
  BY <1>1, <1>2, InitUnique DEF RangesInv

\* One request at a time, and one address to a request: the ranges of a subnet lie in its
\* pools, do not overlap, and have no address that a port has, however ranges are split
\* around addresses, ports come and go and exhausted pools are rebuilt.
THEOREM SerialRanges ==
  ASSUME Serial
  PROVE  IpSpec => []RangesAreFree
<1>1. IpSpec => []RangesInv
  BY InitRanges, NextRanges, PTL DEF IpSpec
<1>. QED
  BY <1>1, PTL DEF RangesInv

\* A set of numbers that is not empty has a least one.
LEMMA LeastNumber ==
  ASSUME NEW T \in SUBSET Nat, T # {}
  PROVE  \E least \in T : \A i \in T : least <= i
<1> DEFINE R == {pair \in Nat \X Nat : pair[1] < pair[2]}
<1>1. IsWellFoundedOn(R, Nat)
  BY NatLessThanWellFounded DEF OpToRel
<1>2. \A i, j \in Nat : <<i, j>> \notin R => j <= i
  OBVIOUS
<1>. HIDE DEF R
<1>3. PICK least \in T : \A i \in T : <<i, least>> \notin R
  BY <1>1, WFMin
<1>. QED
  BY <1>2, <1>3

\* A set of hosts that is not empty has a contiguous range: from its least element to the
\* least after which there is a gap.
LEMMA RunExists ==
  ASSUME NEW ips \in SUBSET Hosts, ips # {}
  PROVE  Runs(ips) # {}
<1>1. ips \subseteq Nat /\ Last - 1 \in Nat /\ \A ip \in ips : 1 <= ip /\ ip <= Last - 1
  <2>1. \A ip \in ips : ip \in Nat /\ 1 <= ip /\ ip <= Last - 1
    BY LastAssumption DEF Hosts
  <2>2. PICK ip \in ips : ip \in Nat /\ 1 <= ip /\ ip <= Last - 1
    BY <2>1
  <2>3. Last - 1 \in Nat
    BY <2>2, LastAssumption
  <2>. QED
    BY <2>1, <2>3
<1>2. PICK first \in ips : \A i \in ips : first <= i
  BY <1>1, LeastNumber
<1> DEFINE ends == {e \in Nat : first <= e /\ e + 1 \notin ips}
<1>3. Last - 1 \in ends
  BY <1>1, <1>2
<1>4. PICK last \in ends : \A i \in ends : last <= i
  <2>. HIDE DEF ends
  <2>1. ends \in SUBSET Nat
    BY DEF ends
  <2>. QED
    BY <1>3, <2>1, LeastNumber
<1>5. ASSUME NEW i \in first..last PROVE i \in ips
  <2>1. CASE i = first
    BY <2>1
  <2>2. CASE i # first
    <3>1. i - 1 \in Nat /\ i - 1 < last /\ first <= i - 1 /\ (i - 1) + 1 = i
      BY <1>1, <1>2, <1>4, <1>5, <2>2
    <3>. QED
      BY <1>4, <3>1
  <2>. QED
    BY <2>1, <2>2
<1>6. [first |-> first, last |-> last] \in Runs(ips)
  <2>1. [first |-> first, last |-> last] \in Row
    BY <1>1, <1>2, <1>3, <1>4 DEF Row, Hosts
  <2>2. first - 1 \notin ips /\ last + 1 \notin ips
    BY <1>1, <1>2, <1>4
  <2>. QED
    BY <1>5, <2>1, <2>2 DEF Runs, Span
<1>. QED
  BY <1>6

\* A rebuild that fails found no address in the pools that no port has.
LEMMA RefusedFull ==
  ASSUME RangesInv, NEW w \in Workers, RebuildFails(w)
  PROVE  PoolOf(tx[w].subnet) \subseteq Allocated(tx[w].subnet) \cup Elements(tx[w].got)
<1>1. tx[w].pc = "rebuilding" /\ View(w) = {} /\ tx[w].seen = AllocationsSeen(w)
  BY DEF RebuildFails, RangesInv, FreeView
<1>2. Rebuilt(w) = {}
  BY <1>1 DEF RebuildFails
<1>3. tx[w].subnet \in Subnets
  BY <1>1 DEF RangesInv, AddressInv, IpTypeInv, TxOK
<1>4. ASSUME NEW pool \in subnets[tx[w].subnet].pools PROVE Span(pool) \subseteq tx[w].seen
  <2>1. pool \in Row
    BY <1>3 DEF RangesInv, AddressInv, IpTypeInv, IpTypeOK
  <2>2. Span(pool) \ tx[w].seen \in SUBSET Hosts
    BY <2>1, LastAssumption DEF Row, Hosts, Span
  <2>3. Runs(Span(pool) \ tx[w].seen) = {}
    BY <1>2 DEF Rebuilt
  <2>. QED
    BY <2>2, <2>3, RunExists
<1>. QED
  BY <1>1, <1>4 DEF PoolOf, Covered, AllocationsSeen

\* One request at a time, and one address to a request: a request for an address is refused
\* only when every address of the pools has a port, although what ports release goes back
\* to no range.
THEOREM SerialRefusedMeansFull ==
  ASSUME Serial
  PROVE  IpSpec => RefusedMeansFull
<1>1. RangesInv /\ [IpNext]_ipVars
        => [\A w \in Workers :
              RebuildFails(w)
                => PoolOf(tx[w].subnet) \subseteq Allocated(tx[w].subnet) \cup Elements(tx[w].got)]_ipVars
  BY RefusedFull
<1>2. IpSpec => []RangesInv
  BY InitRanges, NextRanges, PTL DEF IpSpec
<1>. QED
  BY <1>1, <1>2, PTL DEF IpSpec, RefusedMeansFull
=============================================================================
