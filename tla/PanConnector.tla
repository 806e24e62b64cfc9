---------------------------- MODULE PanConnector ----------------------------
(***************************************************************************)
(* The Panorama and the PAN firewalls it manages, as                       *)
(* services/l3_router/drivers/pan/connector/pan_connector.py drives them   *)
(* over the XML API.                                                       *)
(*                                                                         *)
(* Every write goes to a candidate configuration, which a commit makes the *)
(* running one as a whole, whoever wrote it.  A "show" reads the running   *)
(* configuration.  A call of the connector is a few writes, each a step of *)
(* its own; the writes that always go together (virtual router, security   *)
(* zone, route and management profile of an interface) are one.            *)
(***************************************************************************)
EXTENDS Naturals, FiniteSets

CONSTANTS
  Device,        \* serial numbers of the device group
  Port,          \* router ports
  Net,           \* external networks: stands for the address a gateway has there
  Name,          \* router names
  Tenant,        \* the tag of the tenant all routers belong to
  None           \* nothing

ASSUME ConnectorAssumption ==
  /\ None \notin Device \cup Port \cup Net \cup Name
  /\ Tenant \notin Name

VARIABLES
  candidate,     \* candidate configuration of each device
  running,       \* the configuration each device runs
  tags,          \* device tags in the candidate configuration of Panorama
  runningTags    \* device tags Panorama has committed

connectorVars == <<candidate, running, tags, runningTags>>

Tag == Name \cup {Tenant}

\* units are the ethernet1/2.<number> entries with the port in their comment, routed
\* the numbers of those the virtual router has; ips and nat are the external side.
Config == [units : SUBSET [number : Nat, port : Port], routed : SUBSET Nat,
           ips : SUBSET Net, nat : Net \cup {None}]

EmptyConfig == [units |-> {}, routed |-> {}, ips |-> {}, nat |-> None]

ConnectorTypeOK ==
  /\ candidate   \in [Device -> Config]
  /\ running     \in [Device -> Config]
  /\ tags        \in [Device -> SUBSET Tag]
  /\ runningTags \in [Device -> SUBSET Tag]

ConnectorInit ==
  /\ candidate   = [d \in Device |-> EmptyConfig]
  /\ running     = candidate
  /\ tags        = [d \in Device |-> {}]
  /\ runningTags = tags

-----------------------------------------------------------------------------
(* Reads.                                                                  *)

\* add_vlan_iface numbers the new unit after how many there are.
NewUnit(units) == Cardinality(units) + 1

\* remove_vlan_iface takes the first unit with the port in its comment, if any.
UnitsOf(units, p) == {u.number : u \in {v \in units : v.port = p}}

-----------------------------------------------------------------------------
(* Writes to the candidate configurations: set merges, delete of what is   *)
(* not there changes nothing.                                              *)

WriteConfig(d, c) ==
  /\ candidate' = [candidate EXCEPT ![d] = c]
  /\ UNCHANGED <<running, tags, runningTags>>

\* _add_vlan_iface: an entry of that name is written over.
SetUnit(d, n, p) ==
  WriteConfig(d, [candidate[d] EXCEPT
    !.units = {u \in @ : u.number # n} \cup {[number |-> n, port |-> p]}])

\* Mutant: the entry of the unit stays.
DeleteUnit_Kept(d, n) == UNCHANGED connectorVars

DeleteUnit(d, n)  == WriteConfig(d, [candidate[d] EXCEPT !.units = {u \in @ : u.number # n}])
RouteUnit(d, n)   == WriteConfig(d, [candidate[d] EXCEPT !.routed = @ \cup {n}])
UnrouteUnit(d, n) == WriteConfig(d, [candidate[d] EXCEPT !.routed = @ \ {n}])

\* add_external_ip adds to the addresses; add_external_nat writes over the rule.
AddExternalIp(d, n) == WriteConfig(d, [candidate[d] EXCEPT !.ips = @ \cup {n}])
RemoveExternalIp(d) == WriteConfig(d, [candidate[d] EXCEPT !.ips = {}])
SetExternalNat(d, n) == WriteConfig(d, [candidate[d] EXCEPT !.nat = n])

AddDeviceTag(d, t) ==
  /\ tags' = [tags EXCEPT ![d] = @ \cup {t}]
  /\ UNCHANGED <<candidate, running, runningTags>>

\* Mutant: the tags stay.
RemoveDeviceTag_Kept(d, t) == UNCHANGED connectorVars

RemoveDeviceTag(d, t) ==
  /\ tags' = [tags EXCEPT ![d] = @ \ {t}]
  /\ UNCHANGED <<candidate, running, runningTags>>

-----------------------------------------------------------------------------
(* Commits.                                                                *)

\* commit_configuration(): Panorama's own configuration.
CommitPanorama ==
  /\ runningTags' = tags
  /\ UNCHANGED <<candidate, running, tags>>

\* Mutant: the serial number is not passed on, so that Panorama is committed.
CommitDevice_Panorama(d) ==
  /\ runningTags' = tags
  /\ UNCHANGED <<candidate, running, tags>>

\* commit_configuration(device_sn).
CommitDevice(d) ==
  /\ running' = [running EXCEPT ![d] = candidate[d]]
  /\ UNCHANGED <<candidate, tags, runningTags>>

=============================================================================
