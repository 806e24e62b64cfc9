----------------------------- MODULE IpAllocation -----------------------------
(***************************************************************************)
(* How the core plugin gives addresses to ports (db/db_base_plugin_v2.py). *)
(* A subnet has allocation pools, rows of ranges that are still available  *)
(* in them, and rows of allocations.  An address that is released goes to  *)
(* no range: when none is left, the ranges are rebuilt from the pools and  *)
(* the allocations.                                                        *)
(*                                                                         *)
(* The addresses of a subnet are 0..Last; the first names the network, the *)
(* last is the broadcast address.  A request is a transaction.  It locks   *)
(* the rows of ranges and pools it reads until it ends (with_lockmode), so *)
(* that what it has made of the ranges is its own `draft`.  The rows of    *)
(* allocations it reads are locked too, which keeps no new one out.        *)
(***************************************************************************)
EXTENDS Naturals, Sequences, FiniteSets

CONSTANTS
  Subnets, Ports, Workers, None,
  AnyIp,           \* a fixed ip that names the subnet alone
  Last,
  MaxFixedIps,     \* max_fixed_ips_per_port
  MaxRequests

ASSUME LastAssumption == Last \in Nat
ASSUME IpBoundAssumption == {MaxFixedIps, MaxRequests} \subseteq Nat
ASSUME IpNoneAssumption ==
  /\ None \notin Ports \cup Subnets \cup (0..Last)
  /\ AnyIp \notin 0..Last

VARIABLES
  subnets,       \* the row of each subnet
  ranges,        \* ipavailabilityranges of each subnet
  allocations,   \* ipallocations: subnet, address and port
  ports,         \* the subnet each port is on, None when there is no such port
  tx,            \* the transaction of each worker
  requests       \* requests so far

ipVars == <<subnets, ranges, allocations, ports, tx, requests>>

Net   == 0..Last
Hosts == 1..(Last - 1)
Row   == {row \in [first : Hosts, last : Hosts] : row.first <= row.last}

Span(row)     == row.first..row.last
Covered(rows) == UNION {Span(row) : row \in rows}

NoSubnet == [here |-> FALSE, gateway |-> None, pools |-> {}]
NoTx == [pc |-> "idle", op |-> "none", port |-> None, subnet |-> None, todo |-> <<>>,
         got |-> <<>>, freed |-> {}, locked |-> FALSE, draft |-> {}, seen |-> {}]

Transaction ==
  [pc : {"idle", "allocating", "rebuilding"}, op : {"none", "create", "update"},
   port : Ports \cup {None}, subnet : Subnets \cup {None}, todo : Seq(Hosts \cup {AnyIp}),
   got : Seq(Hosts), freed : SUBSET Hosts, locked : BOOLEAN, draft : SUBSET Row,
   seen : SUBSET Hosts]

\* Ports, and the ranges they get addresses from, have hosts alone: never the address
\* of the network or the broadcast address.
IpTypeOK ==
  /\ subnets \in [Subnets -> [here : BOOLEAN, gateway : Net \cup {None}, pools : SUBSET Row]]
  /\ ranges \in [Subnets -> SUBSET Row]
  /\ allocations \subseteq [subnet : Subnets, ip : Hosts, port : Ports]
  /\ ports \in [Ports -> Subnets \cup {None}]
  /\ tx \in [Workers -> Transaction]
  /\ requests \in 0..MaxRequests

IpInit ==
  /\ subnets = [s \in Subnets |-> NoSubnet]
  /\ ranges = [s \in Subnets |-> {}]
  /\ allocations = {}
  /\ ports = [p \in Ports |-> None]
  /\ tx = [w \in Workers |-> NoTx]
  /\ requests = 0

Allocated(s)  == {a.ip : a \in {b \in allocations : b.subnet = s}}
AddressesOf(p) == {a.ip : a \in {b \in allocations : b.port = p}}
PoolOf(s)     == Covered(subnets[s].pools)

-----------------------------------------------------------------------------
(* Subnets.                                                                *)

\* Mutant: the broadcast address is in the last pool.
DefaultPools_Broadcast(gateway) ==
  LET split == IF gateway = None THEN Last ELSE gateway
  IN  {row \in {[first |-> 1, last |-> split - 1], [first |-> split + 1, last |-> Last]} :
         row.first <= row.last}

\* _allocate_pools_for_subnet: the hosts on either side of the gateway.
DefaultPools(gateway) ==
  LET split == IF gateway = None THEN Last ELSE gateway
  IN  {row \in {[first |-> 1, last |-> split - 1], [first |-> split + 1, last |-> Last - 1]} :
         row.first <= row.last}

\* _validate_allocation_pools and _validate_gw_out_of_pools.
ValidPools(pools, gateway) ==
  /\ \A row \in pools : row.first <= row.last /\ Span(row) \subseteq Hosts
  /\ \A row, other \in pools : row # other => Span(row) \cap Span(other) = {}
  /\ gateway \notin Covered(pools)

Request(w) ==
  /\ tx[w].pc = "idle"
  /\ requests < MaxRequests
  /\ requests' = requests + 1

CreateSubnet(w, s, gateway, pools) ==
  /\ Request(w)
  /\ ~subnets[s].here /\ \A v \in Workers : tx[v].subnet # s
  /\ pools = DefaultPools(gateway) \/ ValidPools(pools, gateway)
  /\ subnets' = [subnets EXCEPT ![s] = [here |-> TRUE, gateway |-> gateway, pools |-> pools]]
  /\ ranges' = [ranges EXCEPT ![s] = pools]
  /\ UNCHANGED <<allocations, ports, tx>>

\* update_subnet: neither from an address a port has, nor to one of the pools.
UpdateGateway(w, s, gateway) ==
  /\ Request(w)
  /\ subnets[s].here /\ gateway # subnets[s].gateway
  /\ gateway # None => /\ subnets[s].gateway \notin Allocated(s)
                       /\ gateway \notin PoolOf(s)
  /\ subnets' = [subnets EXCEPT ![s].gateway = gateway]
  /\ UNCHANGED <<ranges, allocations, ports, tx>>

\* delete_subnet, refused while a port has an address of it.
DeleteSubnet(w, s) ==
  /\ Request(w)
  /\ subnets[s].here /\ Allocated(s) = {}
  /\ \A v \in Workers : tx[v].locked => tx[v].subnet # s
  /\ subnets' = [subnets EXCEPT ![s] = NoSubnet]
  /\ ranges' = [ranges EXCEPT ![s] = {}]
  /\ UNCHANGED <<allocations, ports, tx>>

-----------------------------------------------------------------------------
(* Ports.                                                                  *)

Elements(q) == {q[i] : i \in DOMAIN q}
Specific(want) == Elements(want) \ {AnyIp}
Distinct(q) == \A i, j \in DOMAIN q : q[i] = q[j] => i = j \/ q[i] = AnyIp

\* The fixed ips of a request: _validate_fixed_ips, and what _check_subnet_ip lets by.
Wanted(want) == Len(want) <= MaxFixedIps /\ Distinct(want) /\ Specific(want) \subseteq Hosts

Begin(w, op, p, s, todo, freed) ==
  tx' = [tx EXCEPT ![w] = [NoTx EXCEPT !.pc = "allocating", !.op = op, !.port = p,
                                       !.subnet = s, !.todo = todo, !.freed = freed]]

Busy(p) == \E w \in Workers : tx[w].port = p

\* No rebuild has read the rows of these allocations in a transaction that goes on.
Unlocked(s, ips) == \A w \in Workers : tx[w].subnet = s => tx[w].seen \cap ips = {}

\* create_port up to the addresses; _test_fixed_ips_for_port.
StartCreate(w, p, s, want) ==
  /\ Request(w)
  /\ ports[p] = None /\ ~Busy(p) /\ subnets[s].here
  /\ Wanted(want) /\ Specific(want) \cap Allocated(s) = {}
  /\ Begin(w, "create", p, s, want, {})
  /\ UNCHANGED <<subnets, ranges, allocations, ports>>

\* update_port with fixed ips: those it names that the port has are kept, the port's
\* others go, and fresh ones are allocated.
StartUpdate(w, p, kept, fresh) ==
  LET own == AddressesOf(p)
  IN  /\ Request(w)
      /\ ports[p] # None /\ ~Busy(p) /\ Unlocked(ports[p], own \ kept)
      /\ kept \subseteq own /\ Specific(fresh) \cap own = {}
      /\ Cardinality(kept) + Len(fresh) \in 1..MaxFixedIps
      /\ Wanted(fresh) /\ Specific(fresh) \cap Allocated(ports[p]) = {}
      /\ Begin(w, "update", p, ports[p], fresh, own \ kept)
      /\ UNCHANGED <<subnets, ranges, allocations, ports>>

\* The ranges as the transaction sees them, and the lock it needs on their rows.
View(w) == IF tx[w].locked THEN tx[w].draft ELSE ranges[tx[w].subnet]
MayLock(w) ==
  \A v \in Workers \ {w} : tx[v].locked => tx[v].subnet # tx[w].subnet

\* Mutant: the range after the address starts at it.
Split_Kept(row, ip) ==
  {part \in {[first |-> row.first, last |-> ip - 1], [first |-> ip, last |-> row.last]} :
     part.first <= part.last}

\* What is left of a range without one of its addresses.
Split(row, ip) ==
  {part \in {[first |-> row.first, last |-> ip - 1], [first |-> ip + 1, last |-> row.last]} :
     part.first <= part.last}

Take(w, rows, row, ip) ==
  tx' = [tx EXCEPT ![w].pc = "allocating", ![w].todo = Tail(@), ![w].got = Append(@, ip),
                   ![w].locked = TRUE, ![w].draft = (rows \ {row}) \cup Split(row, ip)]

\* _allocate_specific_ip; the address may be in no range, as one that was released.
AllocateSpecific(w) ==
  LET ip == Head(tx[w].todo)
  IN  /\ tx[w].pc = "allocating" /\ tx[w].todo # <<>> /\ ip # AnyIp
      /\ \/ /\ MayLock(w)
            /\ \E row \in View(w) : ip \in Span(row) /\ Take(w, View(w), row, ip)
         \/ /\ ip \notin Covered(View(w)) /\ (View(w) # {} => MayLock(w))
            /\ tx' = [tx EXCEPT ![w].todo = Tail(@), ![w].got = Append(@, ip),
                                ![w].locked = @ \/ View(w) # {}, ![w].draft = View(w)]
      /\ UNCHANGED <<subnets, ranges, allocations, ports, requests>>

\* _try_generate_ip: the first address of some range.
Generate(w) ==
  /\ tx[w].pc = "allocating" /\ tx[w].todo # <<>> /\ Head(tx[w].todo) = AnyIp
  /\ MayLock(w)
  /\ \E row \in View(w) : Take(w, View(w), row, row.first)
  /\ UNCHANGED <<subnets, ranges, allocations, ports, requests>>

\* Mutant: the allocations of every subnet.
AllocationsSeen_AnySubnet(w) == {a.ip : a \in allocations} \ tx[w].freed

AllocationsSeen(w) == Allocated(tx[w].subnet) \ tx[w].freed

\* There is none: _rebuild_availability_ranges reads the allocations ...
ReadAllocations(w) ==
  /\ tx[w].pc = "allocating" /\ tx[w].todo # <<>> /\ Head(tx[w].todo) = AnyIp
  /\ View(w) = {}
  /\ \A v \in Workers \ {w} : tx[v].subnet = tx[w].subnet => tx[v].freed = {}
  /\ tx' = [tx EXCEPT ![w].pc = "rebuilding",
                      ![w].seen = AllocationsSeen(w)]
  /\ UNCHANGED <<subnets, ranges, allocations, ports, requests>>

\* ipset_to_ranges: the contiguous ranges of a set of addresses.
Runs(ips) ==
  {row \in Row : /\ Span(row) \subseteq ips
                 /\ row.first = 0 \/ row.first - 1 \notin ips
                 /\ row.last + 1 \notin ips}

Rebuilt(w) ==
  UNION {Runs(Span(pool) \ tx[w].seen) : pool \in subnets[tx[w].subnet].pools}

\* ... and writes what they leave of each pool; the second try.
Rebuild(w) ==
  LET rows == View(w) \cup Rebuilt(w)
  IN  /\ tx[w].pc = "rebuilding" /\ MayLock(w)
      /\ Rebuilt(w) \cap View(w) = {}
      /\ \E row \in rows : Take(w, rows, row, row.first)
      /\ UNCHANGED <<subnets, ranges, allocations, ports, requests>>

\* Rolled back: no address, or a row of ranges that is there already.
RebuildFails(w) ==
  /\ tx[w].pc = "rebuilding" /\ MayLock(w)
  /\ Rebuilt(w) \cup View(w) = {} \/ Rebuilt(w) \cap View(w) # {}
  /\ tx' = [tx EXCEPT ![w] = NoTx]
  /\ UNCHANGED <<subnets, ranges, allocations, ports, requests>>

\* Mutant: the key of ipallocations has the port too.
KeysAreFree_PerPort(w) == Distinct(tx[w].got)

\* The primary key of ipallocations.
KeysAreFree(w) ==
  /\ Distinct(tx[w].got)
  /\ Elements(tx[w].got) \cap (Allocated(tx[w].subnet) \ tx[w].freed) = {}

Done(w) == tx[w].pc = "allocating" /\ tx[w].todo = <<>>

Commit(w) ==
  LET p == tx[w].port
      s == tx[w].subnet
  IN  /\ Done(w)
      /\ subnets[s].here /\ KeysAreFree(w)
      /\ ports' = [ports EXCEPT ![p] = s]
      /\ allocations' = {a \in allocations : ~(a.port = p /\ a.ip \in tx[w].freed)}
                          \cup {[subnet |-> s, ip |-> i, port |-> p] : i \in Elements(tx[w].got)}
      /\ ranges' = IF tx[w].locked THEN [ranges EXCEPT ![s] = tx[w].draft] ELSE ranges
      /\ tx' = [tx EXCEPT ![w] = NoTx]
      /\ UNCHANGED <<subnets, requests>>

CommitFails(w) ==
  /\ Done(w)
  /\ ~subnets[tx[w].subnet].here \/ ~KeysAreFree(w)
  /\ tx' = [tx EXCEPT ![w] = NoTx]
  /\ UNCHANGED <<subnets, ranges, allocations, ports, requests>>

\* The database ends a transaction that waits for another too long.
WaitsTooLong(w) ==
  /\ tx[w].pc # "idle"
  /\ \E v \in Workers \ {w} : tx[v].subnet = tx[w].subnet
  /\ tx' = [tx EXCEPT ![w] = NoTx]
  /\ UNCHANGED <<subnets, ranges, allocations, ports, requests>>

\* The allocations go with the port, to no range.
RemovePort(p) ==
  /\ Unlocked(ports[p], AddressesOf(p))
  /\ ports' = [ports EXCEPT ![p] = None]
  /\ allocations' = {a \in allocations : a.port # p}

DeletePort(w, p) ==
  /\ Request(w)
  /\ ports[p] # None /\ ~Busy(p)
  /\ RemovePort(p)
  /\ UNCHANGED <<subnets, ranges, tx>>

-----------------------------------------------------------------------------
(* The specification, and what holds of it.                                *)

\* Requests of one fixed ip or more; the pools of a subnet come with its gateway.
Wants == UNION {[1..n -> Hosts \cup {AnyIp}] : n \in 1..MaxFixedIps}
Pools == {{}} \cup {{row} : row \in [first : Net, last : Net]} \cup {DefaultPools(g) : g \in Net \cup {None}}

IpRequest(w) ==
  \/ \E s \in Subnets, g \in Net \cup {None} :
       (\E pools \in Pools : CreateSubnet(w, s, g, pools)) \/ UpdateGateway(w, s, g)
  \/ \E s \in Subnets : DeleteSubnet(w, s)
  \/ \E p \in Ports, s \in Subnets, want \in Wants : StartCreate(w, p, s, want)
  \/ \E p \in Ports : \/ DeletePort(w, p)
                      \/ \E kept \in SUBSET AddressesOf(p), fresh \in Wants \cup {<<>>} :
                           StartUpdate(w, p, kept, fresh)

Allocate(w) == AllocateSpecific(w) \/ Generate(w) \/ ReadAllocations(w) \/ Rebuild(w)

IpNext ==
  \E w \in Workers : \/ IpRequest(w) \/ Allocate(w) \/ RebuildFails(w)
                     \/ Commit(w) \/ CommitFails(w) \/ WaitsTooLong(w)

IpSpec == IpInit /\ [][IpNext]_ipVars

\* The primary key of ipallocations is what is left to keep two requests apart: no two
\* ports ever have one address.
AddressHasOnePort ==
  \A a, b \in allocations : a.subnet = b.subnet /\ a.ip = b.ip => a.port = b.port

\* IPAvailabilityRange has "ranges representing available ips": a row of ranges lies in
\* a pool, no two rows overlap, and no address of a row is allocated.
RangesAreFree ==
  \A s \in Subnets :
    /\ Covered(ranges[s]) \subseteq PoolOf(s) \ Allocated(s)
    /\ \A row, other \in ranges[s] : row # other => Span(row) \cap Span(other) = {}

\* A request for any address is refused only when each address of the pools is taken,
\* however many were released since to no range.
RefusedMeansFull ==
  [][\A w \in Workers :
       RebuildFails(w)
         => PoolOf(tx[w].subnet) \subseteq Allocated(tx[w].subnet) \cup Elements(tx[w].got)]_ipVars
=============================================================================
