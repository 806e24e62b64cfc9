# Firewalls, routers and ports of Neutron: TLA+ models, checks and proofs

This repository is OpenStack Neutron (about the 2014.1 release) with two
additions of its own: a router service that puts every Neutron router on a Palo
Alto Networks firewall managed by a Panorama, and a mechanism driver that feeds
the dynamic address groups of these firewalls.  Beside them stands Firewall as a
Service, the plugin, agent and driver that enforce firewall policies on
routers.  The models are about these three, and about what they stand on: the
scheduling of routers on L3 agents, the allocation of addresses, the ports of
ML2, and the agent that wires ports.

    tlc -workers 2 -config fwaas_serial.cfg MCFWaaS.tla     check a run
    tlapm FWaaSProofs.tla                                   check the proofs

PROJECT.json lists every run with its properties, every hazard with the
properties about it, and maps every definition to the lines it models.

## Inventory

Paths are under `src/`.

| Part | State it keeps | Operations | Hard behaviour | What makes it correct |
|---|---|---|---|---|
| FWaaS plugin, `services/firewall/fwaas_plugin.py` | `status`, `admin_state_up`, policy of each firewall row | create, update, delete firewall; edits of policies and rules; callbacks `set_firewall_status`, `firewall_deleted`, `get_firewalls_for_tenant` | a handler is several transactions with nothing locked in between; callbacks read a row unlocked and write it later, arrive late or twice | pending states mean what they say, an accepted deletion lasts, a row goes only when it was to be deleted |
| FWaaS agent, `services/firewall/agents/l3reference/firewall_l3_agent.py` | `services_sync` flag; the routers of the L3 agent | handlers of three fanout messages, `process_router_add`, `process_services_sync` | green threads that yield at every RPC; timeouts; sync against messages; crash | routers enforce what the rows say; a pending firewall settles |
| iptables driver, `services/firewall/drivers/linux/iptables_fwaas.py` | chains in the router's namespace | apply, update, delete, deny all | fails half-way | what it says it applied is applied |
| Rules and policies, `db/firewall/firewall_db.py` | rules with policy and position; policies with `audited` | create, update, delete; `insert_rule`, `remove_rule` | a list kept as numbers in rows; positions left over in unbound rows | lists in the order asked for; an audit covers what was audited |
| L3 router plugin, `services/l3_router/l3_router_plugin.py` over `db/l3_db.py` | routers, gateways, interfaces, floating IPs | their API operations with a driver's precommit and postcommit | an external call inside the transaction, another after it | rows and devices agree |
| PAN driver, `services/l3_router/drivers/pan/driver.py`, `db.py` | `pan_device_reservations` | precommits, postcommits | two requests pick one device; rollback does not undo a device | every router one device of its own |
| PAN connector, `.../pan/connector/pan_connector.py` | on Panorama and devices: candidate and running configuration, tags, registered addresses | units, external address, translation, tags, commit | reads see the running, writes go to the candidate configuration | interfaces and translation of just the router that has the device |
| PAN XML API, `.../connector/xml_api/` | none | vendored HTTP client | fails | out of scope: modelled by effect and failure |
| Panorama mechanism driver, `plugins/ml2/drivers/mech_panorama.py` | tags of ports; `_params`, one field for all requests | port create and delete | the devices to commit, noted in a precommit, are read in a postcommit, by any request | devices know the addresses of the instances behind them, and only those |
| vArmour agent and driver, `services/firewall/agents/varmour`, `drivers/varmour` | sessions and policies of an appliance | as the FWaaS agent | REST calls fail | as the FWaaS agent |
| L3 agent, `agent/l3_agent.py` | `router_info`, sets of updated and removed routers | messages, RPC loop, full sync, add and remove of routers | updates and deletions collected in sets while a task waits for the server | the host forwards the routers of the server, and no other |
| Schedulers and heartbeats, `db/l3_agentschedulers_db.py`, `db/agents_db.py`, `scheduler/` | bindings of routers and networks to agents | bind, unbind, report state | hosts are read and written without a lock; an agent that only looks dead | a router on at most one agent |
| Core plugin, `db/db_base_plugin_v2.py` | networks, subnets, ports, address ranges | CRUD; allocation of addresses | ranges split, and rebuilt from reads that may be stale | no address twice, none lost |
| ML2, `plugins/ml2/` | port bindings, segments, status | CRUD with precommit and postcommit of every mechanism driver; calls of the agents | a postcommit fails and the resource is taken back | devices and rows agree |
| OVS agent, `plugins/openvswitch/agent/ovs_neutron_agent.py` | `local_vlan_map`, `updated_ports`, the ports it knows | RPC handlers, passes of `rpc_loop` | messages during a pass; a call fails half-way; OVS or the agent restarts | every port ends up on the VLAN of its network, and no other there |
| DHCP agent, Linux bridge agent, security groups, metadata, LBaaS, VPNaaS, metering, quotas, API layer, RPC library, vendor plugins, migrations | | | | |

How they interact: the API layer calls a plugin in one of its worker threads.
The FWaaS plugin casts a message to all L3 agents (fanout) and is called back by
them; the firewall agent is a mixin of the L3 agent and shares its routers.  The
L3 agent is told of routers by casts that only name them, and reads them by
`sync_routers`, which schedules them on the way.  The L3 router plugin calls its
driver twice per request, inside and after its transaction; the driver reserves
devices in the database and drives them through the connector.  A router
interface is a port: its creation and deletion go through ML2, and so through the
Panorama driver, in the transaction of the router plugin.  The OVS agent learns
of ports from the bridge, reads them from ML2, and reports their status.

## Modules

    FirewallPlugin <- FirewallAgent <- FWaaS <- MCFWaaS, FWaaSProofs     (EXTENDS)
    FirewallLifecycle   INSTANCEd by FWaaS: what the API promises
    FirewallPolicy <- MCFirewallPolicy, FirewallPolicyProofs
    PanConnector <- PanRouter <- MCPanRouter, PanRouterProofs
    RouterScheduler <- L3Agent <- L3Routing <- MCL3Routing, L3RoutingProofs <- L3QuietProofs
    RouterHosting       INSTANCEd by L3Routing: what the scheduler promises
    IpAllocation <- MCIpAllocation, IpAllocationProofs
                 <- Ml2Ports <- MCMl2Ports, Ml2PortsProofs (with IpAllocationProofs)
    OvsAgent <- MCOvsAgent, OvsAgentProofs

**FirewallPlugin** is the server of FWaaS.  The firewalls belong to one tenant
and share one policy.  A request of the API is a record in `serving`, with `pc`
saying which transaction comes next: `create_firewall` counts (`StartCreate`),
inserts (`Insert`), reads the row again (`ReadFirewallRow`) and the rules
(`ReadRules`), and casts (`Cast`);
`update_firewall` checks for a pending status (`StartUpdate`) and overwrites it
(`Write`) in separate transactions, as the code does; an edit of a policy or
rule does the same for every firewall of the policy (`PushNext`).  At most
`ApiWorkers` requests run at a time.  `rev` counts edits and stands for the
contents of the policy.  `SetFirewallStatus` and `FirewallDeleted` are what the
two callbacks make of the status they read.  `deletion` is history: whether the
deletion of a firewall was ever accepted, and whether it was overwritten since.

**FirewallAgent** is the agents.  A fanout message becomes a `handler`, one of
at most `PoolSize` green threads of the agent, which asks for the routers,
calls the driver and reports back.  Router adds and the sync run one at a time
in the agent's loop (`task`), under the lock of the L3 agent.  `installed` is
what the router of an agent enforces.  A callback is two steps of the server.
`CallReads` is the query of `_get_firewall`, which locks nothing; `CallCommits` is
the end of the transaction, which writes what follows from the status that was
read (`seen`), whatever the row is by then, and raises when it has gone.  An RPC may
time out before or between the two, and then it is lost or the server runs the
rest of it (`late`).  `get_firewalls_for_tenant` lists the firewalls
(`FetchFirewalls`) and reads each again (`ReadFirewall`), which raises for a row
that went away.  A driver call may fail, with or without
effect.  Routers leave and come back, agents crash and start again: a crash loses memory
and the fanout queue, the kernel's rules stay until the router is added.

**FWaaS** joins the two and states the properties.  **FirewallLifecycle** is
the abstract specification: one firewall at a time, changed only while nothing is
pending, removed only if its deletion was accepted, and then for good; an
accepted deletion may be undone by a report.  `FollowsLifecycle` is the
refinement; the mapping is the identity on `status`, and the firewalls whose
deletion was accepted are read from `deletion`.

**FirewallPolicy** keeps the rows as they are stored, `boundTo` and `position`
of each rule; `RulesOf` is the list a transaction loads, by position.  `Reorder`
numbers it again, as `ordering_list` does.  When a list is replaced, the number
left in a row that leaves it depends on the order in which SQLAlchemy empties
the list: any number up to the old one.

**PanConnector** has the candidate and the running configuration of every
device and the tags of the device group, and the writes as steps.  Writes that
always go together, such as virtual router and security zone of an interface,
are one.  **PanRouter** has the requests: `Start...` is what a request reads
and checks, `Reserve` the insert under the primary key, `List`, `Write1` and
`Write2` the calls of the precommit, `Commit` the end of the transaction,
`Publish` the postcommit.  Rows that an open transaction has written are
locked; what it wrote on a device is there for anyone to commit.

**RouterScheduler** is the server's side of hosting: rows, bindings, the
requests that change them and the casts they make, and `sync_routers`.  What a
transaction has written stays in the request (`api`) until its commit, so that a
cast made inside the transaction precedes the row it is about.  A binding has no
key: `bound[r][a]` counts rows.  `AutoSchedule` reads the routers without a host,
`AutoBind` writes the bindings, `ListRouters` reads the answer.

**L3Agent** is the agents.  Handlers only add to `updated` and `removed` or set
`fullsync`; one task at a time (`loop`) takes what there is, asks the server
(`rpc`) and works on the answer.  `forwards` is what the kernel of the host does,
and outlives the agent.  A call times out, before or after the server has served
it; the set-up of a router fails, and its namespace may then be missing (`half`);
agents crash and start, heartbeats come late.  `owed` is history: updates that
were delivered and not read from the server since.  **L3Routing** joins the two.
**RouterHosting** is the abstract specification: a router that exists gets an
agent when it has none, and keeps it until it is taken away; the mapping reads
the one agent with a single row as the host.

**IpAllocation** is the part of the core plugin that gives out addresses, those of a
subnet being 0 to `Last`.  A request is a transaction (`tx`).  It locks the rows of
ranges it reads, so what it makes of them is its own `draft` until `Commit`;
rows of allocations are locked as well, which keeps no new one out.  An
exhausted subnet has its ranges rebuilt in two steps, `ReadAllocations` and
`Rebuild`.  The primary key of the allocations is the guard of `Commit`.

**Ml2Ports** extends it with the creation and deletion of ports around the hooks
of the Panorama driver: `ReadRouters` and `SaveTags` of a port of an instance,
`ReadPorts` of an interface, then one `Register` for each address and router;
`Unregister` in the precommit of a deletion, `TakeParams` and `CommitDevice` in
its postcommit.  `registered` is what each device was told, `dirty` the devices
with something uncommitted, `params` the field all requests share.  An interface
comes and goes inside the transaction of the router plugin, so its hooks run
before the row is there for others.  Any call may fail: `AfterFailure` is the
error path, by which a new port of an instance is deleted again.

**OvsAgent** has the bridge (`tag`, `flows`, and the `canary` flow by which the
agent sees a restart), the rows of the plugin, the handlers and the pass
(`loop`): `Scan`, `Ask` for each device, `Skip`, `Kill` or `BindPort`, `SetTag`
and `Report` for each, `Remove`, `EndPass`.  Ports are plugged, unplugged,
changed and deleted between any two of these; calls fail, OVS and agent restart.

## Runs

Requests, events and faults are bounded by constants named `Max...`, so
behaviours end: deadlock is not checked where they do.  FirewallPolicy needs no
bound, and the OVS loop goes on after the last event; in these two runs deadlock
is checked.

| Run | Instance | Shows |
|---|---|---|
| `fwaas_serial` | 1 worker, 2 firewalls, 1 agent with 2 green threads, 3 requests, a failed RPC, a removed router | `TypeOK`, `StatusIsEarned`, `DeletedAnswerIsTrue`, `FollowsLifecycle`, `DeletionLasts`: with requests one at a time, the rows follow the life cycle although callbacks overlap with requests, are repeated and come late; only a callback that read a row before its deletion undoes the deletion |
| `fwaas_fifo` | 1 worker, 2 agents with one green thread each, 1 firewall, 4 requests, no faults | `QuietIsEnforced`, `GoneIsUninstalled`: at rest routers enforce what the rows say, also after a report undid a deletion |
| `fwaas_settles` | 1 worker, 1 agent with 2 green threads, 2 requests, a driver error, a failed RPC, a crash; fair | `PendingResolves`, but for a deletion that a driver failed to apply |
| `fwaas_lost_delete` | 1 worker, 1 agent, 3 requests | ends in a violation of `DeletionIsFinal`, see below |
| `policy_lists` | 3 rules, 2 policies, 1 firewall, no bound on requests | `TypeOK`, `PositionsAreDense`, `NothingDangles`, `AuditCoversContents`, `InsertionIsLocal` |
| `pan_concurrent` | 2 workers, 2 devices, 2 routers, 1 port, 2 names, 4 requests, a fault | `TypeOK`; `RouterHasItsDevice` with races and failures; `TenantTagIsReservation`, `RestIsCommitted` when nothing failed |
| `pan_serial` | 1 worker, 2 ports, 5 requests | `NoStaleInterface` |
| `l3_serial` | 2 agents, 1 router, one transaction of the server at a time, no `remove_from_agent` and no `update_agent`, 3 requests, a crash; fair | `FollowsHosting`: a router has one host; `QuietIsHosted`: at rest the hosts forward just what the server lists for them; `HostsCatchUp`: whatever it lists they come to forward |
| `l3_faults` | 2 workers, 2 routers, 1 agent, all operations, 3 requests, one fault of each kind | `TypeOK`, `NoUpdateForgotten`, `CopyIsStillThere` |
| `ipam_race` | 2 workers, 1 subnet of 3 hosts, 3 ports, 6 requests | `IpTypeOK`, `AddressHasOnePort` |
| `ports_serial` | 1 worker, 2 subnets, 3 ports, 2 routers, 7 requests, 2 failures of calls for ports of instances and deletions | `MlTypeOK`, `NoStaleTag`, `EveryPortIsKnown`, `NothingUncommitted`: at rest devices know what they should; `RangesAreFree`, `RefusedMeansFull`: the ranges are right, and no address is lost |
| `ovs_loop` | 2 ports, 2 networks, 2 VLANs, 4 events, a failed call or a restart; fair | `OvsTypeOK`, `NothingForgotten`, `Isolation`, `Settles`, `GoneIsNotActive` |

`fwaas_lost_delete` is a disagreement between the code and what it says of
itself.  A firewall is created; the agent reports it ACTIVE, and
`set_firewall_status` reads PENDING_CREATE; a delete is accepted and sets
PENDING_DELETE; the callback commits and overwrites it with ACTIVE, which "ignore
changing status if firewall expects to be deleted" (`fwaas_plugin.py:52`) is there
to prevent.  The agent then uninstalls the firewall, and `firewall_deleted` finds
a row that expects no deletion.  `DeletionLasts` is what is left of that promise:
only a callback that had read the row before the deletion can undo it.

Why the bounds are enough for what they show: the races are between two
requests, a request and a report, or a request and the task of an agent, so two
workers and one or two agents have them all.  Three requests create, change and
delete a firewall or a router, the fourth is a change in between; five PAN
requests are a router with two interfaces, one removed and added again.  Six
requests fill a subnet of three hosts, release an address and ask again, which
needs a rebuild; seven are a subnet with a port and two interfaces of which some
go again.  Four events are two ports plugged, one of them taken away and put
back.  One fault of a kind is enough to part a row from an agent or a device,
and the proofs below do not depend on the bounds.

Symmetry is used in safety runs only, over sets of model values that no
definition tells apart.

### What fails, and is no run

Some properties hold only of part of the system's behaviours, and their runs are
bounded accordingly.  What TLC finds beyond these bounds:

FWaaS

- `OneFirewallPerTenant` with 2 workers: two creates count zero firewalls, then
  both insert.  The serial run covers it as part of `FollowsLifecycle`.
- `FollowsLifecycle` and `DeletionLasts` with 2 workers: an update passes its check, a
  delete sets PENDING_DELETE, and the update overwrites it with PENDING_UPDATE; so
  does an edit of the policy.
- `DeletedAnswerIsTrue` without its exception for a deletion that was undone, with
  one worker: `firewall_deleted` reads ERROR, where it answers True but deletes
  nothing, after a report undid the deletion.
- `PendingResolves` without its exception, with one driver error: a delete that
  the driver fails is neither reported nor retried by `_invoke_driver_for_plugin_api`,
  and the row stays PENDING_DELETE until the user deletes it again.
- `SettledIsEnforced` with 2 agents: the first agent to report makes the
  firewall ACTIVE, while the other may not have heard of it.
- `QuietIsEnforced` with 2 agents and a failed RPC: the sync leaves out the
  firewalls that are ACTIVE, which the other agent has made them.
- `GoneIsUninstalled` and `QuietIsEnforced` with two green threads per agent: create
  is applied after delete, or an update after a later one.
- The same two with an agent that has no router at first: `process_router_add`
  applies firewalls it read before a later message.
- The same two with two firewalls of the tenant, one created after the other is
  deleted: the last agent to report the deletion finds the row gone, which sets off a
  sync, and the sync applies the second as it was read before it changed.
- `PendingResolves` with two failed RPCs: one fails in a handler during a sync and
  sets `services_sync`; the sync ends and clears it.

Policies and PAN

- `ReferenceIsHonoured`: `insert_before` names a rule of another policy, or of
  none; its number decides where the new rule goes.
- `NoStaleInterface` with 2 workers: an interface is removed between the
  transaction and the commit of its addition, and the list of units, read from
  the running configuration, does not have it yet.
- `EveryPortHasItsUnit`: interfaces get units 1 and 2; the first is removed; the
  next is number 1 + 1 and overwrites the second.
- `NoGatewayNoNat`: a router with a gateway is deleted; its device keeps address
  and translation; the next router on it has no gateway and translates.
- `NameTagIsReservation`: `update_router` with a new name leaves the old tag,
  and the deletion removes the new one.  (The postcommit of a rename then raises,
  as its context has no `params`.)
- `TenantTagIsReservation`, `RestIsCommitted` and `NoStaleInterface` once a call
  failed: nothing takes back what a rolled back transaction wrote on a device.

Hosting of routers

- `OneEnabledHost` with 2 workers: each reads that the router has no host, both
  bind it.
- `QuietIsHosted` with 2 workers: the agent asks on a cast that was made before
  the commit, and is shown the old router.
- `QuietIsHosted` with `remove_from_agent`: a router removed from an agent and
  added again before its loop runs ends up removed, as removals come last; with
  `update_agent`: a message that comes during a full sync sets a flag the sync
  clears; with failures of configuration: `process_router` runs in a green
  thread that nobody waits for.

Addresses and ports

- `RangesAreFree` with 2 workers: ranges are rebuilt from a read that is stale;
  with two fixed IPs to a port: a rebuild does not know of the address the same
  transaction has just taken.
- `NoStaleTag` and `EveryPortIsKnown` with 2 workers: a port and an interface
  that come at once miss each other.  `NothingUncommitted` with 2 workers: a
  deletion overwrites the `params` of another.
- `NoStaleTag` with "interface" in `FaultyOps`: the postcommit of an interface
  runs inside the transaction of `add_router_interface` (`driver_api.py` says
  "Called after the transaction completes"), and devices keep the addresses
  when that rolls back.

Wiring of ports

- A network whose last port is unplugged while OVS restarts stays in
  `local_vlan_map` without flows, and a port that comes later finds it there.
- `GoneIsNotActive` with a failed `update_device_down`: the next pass does not see
  the removal again.
- `Settles` with fewer VLANs than networks: a port without a VLAN gives up every
  pass.

## Fairness

- `FairSpec` of FWaaS: requests in progress, late calls, the handlers and the
  loop of every agent are weakly fair, because the server's threads and the
  agent's green threads run while the process does and yield only at I/O.  An
  agent that crashed starts again, which is the operator's part, and its first
  full sync adds the routers the server lists for it: that is `RouterAdded`, as
  no router leaves its agent for good in `fwaas_settles`.  A tenant without a
  router on a running agent is left out by that: nobody ever answers for its
  firewall.  Users owe nothing: no fairness on `AcceptApi`.  Nothing need fail.
- `FairSpec` of L3Routing: the server as a whole goes on with what it has begun
  (`Served \/ Answered`), and so does each agent (`Run(a)`), which includes its
  restart after a crash and its report.  The RPC loop and the sync of the agent
  are periodic tasks, so neither waits for an event to begin.
- `OvsFairSpec`: the loop runs every polling interval (`Pass`), and messages are
  handled (`Handlers`).  Nobody need plug or change a port, or delete a network.

Faults and events are bounded, so a sync or a pass at last gets through: without
that no agent could promise anything.

## Proofs

The proof modules are checked by tlapm to the last leaf, for every value of the
constants the named assumptions allow: bounds are naturals, `ApiWorkers` is
positive in FWaaS, `None` and the like are no elements of the other sets, the
rules of FirewallPolicy are finitely many, the tag of the tenant is the name of
no router.

**FWaaSProofs**

- `TypeCorrect`: `Spec => []TypeOK`, a lemma for each kind of step.
- `StatusEarned`: `StatusIsEarned` is not inductive: the status is written from
  a report, which comes from a handler, a sync or a call that timed out.
  `EarnedInv` says of a report at every stage of its way that a driver applied
  it, and `AppliedGrows` that the history only grows.
- `DeletedRowsGo`, `DeletedAnswer`, for any number of workers and agents: a row
  goes away only if its deletion was asked for, and an agent that is told True may
  forget the row unless the deletion was undone.  A callback writes "gone" for a
  row it read as PENDING_DELETE and answers True for that or for ERROR, so that it
  must be shown that what it read and reports is of a row that was to go:
  `DeletionInv` follows a deletion from the request to the message, the handler or
  the sync, and the callback that has read, or is late.
- `SerialRefinement`: with one worker `Spec` implements `FirewallLifecycle`.
  `SerialInv` says that at most one request is in progress and that what it
  checked still holds when it writes (`StillAllowed`): no firewall exists for a
  create, none is pending for an update, though callbacks commit in between, for
  they never make a settled firewall pending.
- `SerialDeletionLasts`: with one worker a row that every callback in progress has
  read as PENDING_DELETE, or has yet to read, never leaves that status but to go.
  It uses the same invariant: a request that would write another status has
  checked that none is pending.
- `OrderlyIsEnforced`, `OrderlyIsUninstalled`: `QuietIsEnforced` and
  `GoneIsUninstalled` for any number of agents, requests and edits, under
  `Orderly`: one API worker, one green thread to an agent, a router on every
  agent from the start, one firewall, and no fault.  The two speak of rest.
  `OrderInv` says of every moment that the last message on its way to an agent,
  in its queue or in its handler, brings what the row asks for, or that the
  driver has it installed when there is none (`Reaches`), unless a request has yet
  to cast it (`Pushes`); or else that message is a deletion that was undone
  (`DeleteLast`), and if the row says that the firewall is enforced an agent is
  still to report the deletion (`Owes`), which makes the row an ERROR.  "What fails" has what becomes of the two without
  any of the first four conditions, or with a failed RPC.

**FirewallPolicyProofs**

- `TypeCorrect`, `ListsAreDense`, `ReferencesHold`: `PolicyInv` proves the three
  together, since a position is read as a place in the list, which it is only if the
  list was numbered right before, and since a new rule must bring no position
  along into a policy it was never in.
- `AuditHolds`: a step on another policy, or on its rules, leaves the contents
  of an audited one, as lists of different policies are disjoint; `AuditInv`
  says that a policy that is created inherits no audit.
- `InsertionsAreLocal`: `InsertionIsLocal` for any lists.  A list is not stored, so
  that the proof is that what `Reorder` writes is what `RulesOf` reads
  (`InsertionIsReadBack`): with dense positions a policy has just one list in
  their order, which has every rule at its position (`InOrder`).

**PanRouterProofs**

- `TypeCorrect`, with `FiniteUnits` as strengthening: the number of a new unit is the
  cardinality of a set.
- `RouterAndDevice`: `RouterHasItsDevice` for any devices, workers and
  failures.  `ReservationInv` adds what open transactions have locked: a router
  being created does not exist yet, a device it has inserted is free in the
  committed table, and no two open transactions hold the same router or device.
- `AllIsCommitted`: `RestIsCommitted` speaks of rest alone.  `PublishInv` says of
  every moment that a difference between candidate and running configuration is
  some request's to publish yet.
- `TagIsReservation`: `TagInv` says the same of the tag of the tenant and the
  reservation: they differ only while the one request that holds the device is
  between its write and its commit.
- `SerialUnits`: with one worker, `NoStaleInterface`.  `UnitInv` says what a
  request may rely on at each step (`RightTo`), that no number and no port has
  two units in the candidate configuration (`Keyed`), and that each unit is of an
  interface of the router, or of the one being added (`Backed`).

**L3RoutingProofs**

- `UpdatesAreKept`, `CopiesAreThere`: `TaskInv` ties the task of an agent to the
  state of its call and its sets, for any number of routers, agents and
  workers and any faults.  While it waits, what it has taken is in its copy,
  what came since is in the set; an answer may only end the wait when the
  server has read after the request, which `owed` records.
- `RoutingTypeCorrect`: `TypeInv` adds the arguments a request has at each step,
  and that a task only has the routers of its message.
- `SerialFollowsHosting`: under `Serial`, one transaction of the server at a time,
  and with no agent disabled by hand, `Spec` implements `RouterHosting`.
  `HostInv` says that a router has one binding at most, of one row, and that what
  an open request or the `sync_routers` of an agent has read still holds when it binds.

**L3QuietProofs**

- `SteadyIsHosted`: `QuietIsHosted` for any routers, agents and requests, with
  answers that are lost and agents that crash.  `Steady` has what "What fails" shows
  to be needed: `Serial`, no `remove_from_agent` or `update_agent`, no failure of
  configuration; also no late heartbeat, and that an agent deletes the namespaces it
  finds at its start.  Rest says little about the moments before it, so `QuietInv` says
  of every moment and every router of every host that what the host will forward
  when its task is done is what the server lists for it, or that something will
  still put it right: a message, an entry of `updated` or `removed`, a full sync,
  a call to be answered, a request that has yet to cast.

**IpAllocationProofs**

- `TypeCorrect`: no address of the network, and no broadcast address, is ever
  in a range or given to a port.
- `AddressUnique`: `AddressHasOnePort` for any workers and fixed IPs.  The key
  compares with what is allocated but not with what the transaction itself frees, so that
  `AddressInv` needs that a port has one transaction (`OneTxPerPort`) and that
  what it frees is that port's.
- `SerialRanges`: `RangesAreFree` under `Serial`, one worker and one address to a
  request.  `RangesInv` says that what a transaction sees of the ranges is
  disjoint and free of what it has taken, and that a rebuild has seen every
  allocation (`FreeView`).  Both conditions are needed, see above.
- `SerialRefusedMeansFull`: under `Serial`, a subnet that refuses an address has none
  free, as the rebuild before the refusal has put every free one into a range
  (`RunExists`: a set of addresses that is not empty has a contiguous run).

**Ml2PortsProofs**

- `PortsTypeCorrect`: a port that is there has an address, so that what devices are
  told are addresses; `CallOK` says what a call has in hand at each step.
- `PortAddressUnique`, `PortRangesAreFree`, `PortRefusedMeansFull`: what
  IpAllocationProofs shows of `IpNext` carries over.  A step of Ml2Ports is one of
  IpAllocation on its variables, or ends a transaction, or takes a port away.
- `SerialCommitted`, with one worker: what devices were told and have not committed
  is on its way, in the request or in the `params` of the driver (`UncommittedInv`).
- `SerialNoStaleTag`, with one worker and when no transaction of an interface fails:
  `StaleInv` says which addresses a device may know too many at each step of a
  request, those it registers or takes back.  The failure left out breaks the property.
- `SerialEveryPortIsKnown`, with one worker: `KnownInv` says which a device may not
  know yet, unless a call failed.  Both rest on `HomeInv`: a port has its row, its
  owner and its device as the request about it left them.

**OvsAgentProofs**

- `TypeCorrect`, which needs `PassIsRight`: what a pass has in hand goes with how
  far it is.
- `PortsAreKept`: `NothingForgotten`.  `PortsAreBound` says that a port that is
  to be up is bound to its network or will be looked at; `ReadIsTrue` that an
  answer that is not true any more has a port_update behind it; `DeletedNets`
  that a `network_delete` takes the VLAN of no port that is there.
- `NetsAreApart`: `Isolation`, from `VlansAreApart` and the former.

Every safety invariant, action property and refinement that a passing run checks is
stated by one of these theorems, some under the named conditions that the runs
give their constants as well (`Orderly`, `Serial`, `Steady`, `OneWorker`).
Only model-checked are the liveness properties, `PendingResolves`, `HostsCatchUp`,
`Settles` and `GoneIsNotActive`, as the prover has no reasoning about `ENABLED`.
What would need induction over data is proved from the least number of a set
(`WFMin` for `<` on the naturals): the runs of free addresses, the lists in
the order of positions, the messages that stay in a queue.

## Abstractions

- One tenant and one policy in FWaaS; an agent hosts one router of the tenant
  or none.  The text of iptables chains is `[up, rev]`.
- The rules of a policy are read in one step, and so is each firewall of
  `get_firewalls_for_tenant`, where the code has a transaction for every rule: a list
  of rules half before and half after an edit is not in the models.  The edit casts
  its own message after it has committed.
- A transaction is atomic where nothing happens inside it.  In PanRouter,
  RouterScheduler, IpAllocation and Ml2Ports casts, external calls or stale reads
  do, and it is several steps, with the rows it has written locked until it ends.
- FirewallPolicy takes transactions for serializable: that two `insert_rule` both
  read a rule as unbound, as READ COMMITTED allows, is not in it.
- A PAN commit succeeds or the request fails; the job's result, which the
  client does not look at, is not modelled.
- A gateway is the network it is on: the address follows from it.
- Floating IPs are left out of PanRouter, where the driver's hooks are empty.
- What an agent is told of a router is its revision; the interfaces, routes and
  rules of a namespace follow from it.
- A network has one subnet in Ml2Ports, and the device of a router is named by
  the router: that it is the right one is the subject of PanRouter.
- The ports of OvsAgent never change their network, as in the API.

## Not modelled, and why

- Vendor plugins, two fifths of the code: products for other networks, each with
  its own protocol to an external controller, that share nothing with the core
  but the interface.  The vArmour agent and driver are of that kind as well.
- Vendored library code (`openstack/common`, the XML API client), the API layer
  and its extensions, quotas, migrations, translations, tests: I/O, validation
  and data, without state of their own.  What the models use of RPC and of
  green threads is in FirewallAgent and L3Agent.
- LBaaS, VPNaaS, metering, DHCP, metadata, security groups, the Linux bridge
  agent, the type drivers: services beside the core described above, on which
  neither firewalls nor the PAN service depend.  Their pending states, resyncs
  and allocations are in kind those of FWaaS, of the L3 agent and of the
  reservation of devices.
- Of what is modelled in part: floating IPs and the overlap of subnets in the
  L3 plugin; what `process_router` does to a namespace; networks, MAC addresses,
  routes and IPv6 modes in the core plugin; port binding in ML2; tunnels and
  ancillary bridges in the OVS agent; the scheduling of networks on DHCP agents.

The map covers a small part of the repository for that reason: the components it
covers are the ones the repository adds or changes, and those they call.
