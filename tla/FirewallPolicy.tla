--------------------------- MODULE FirewallPolicy ---------------------------
(***************************************************************************)
(* Firewall rules and policies: db/firewall/firewall_db.py.                *)
(*                                                                         *)
(* A policy is an ordered list of rules.  The list is not stored: a row of *)
(* firewall_rules has the policy it is bound to and its position there,    *)
(* which SQLAlchemy's ordering_list numbers again from 1 after every edit. *)
(* A rule that leaves a policy keeps some position in its row.             *)
(*                                                                         *)
(* An API request is one action, its transaction being atomic.  Requests   *)
(* that raise change nothing and are no action.                            *)
(***************************************************************************)
EXTENDS Naturals, FiniteSets, SequencesExt

CONSTANTS
  Rule,          \* firewall rules; an id that is free again stands for a new one
  Policy,        \* firewall policies, likewise
  Firewall,      \* firewalls, likewise
  None           \* NULL

ASSUME PolicyAssumption ==
  /\ None \notin Rule \cup Policy \cup Firewall
  /\ IsFiniteSet(Rule)

VARIABLES
  rule,          \* the rules that exist
  boundTo,       \* firewall_policy_id of each rule
  position,      \* position of each rule, 0 when it never had one
  enabled,       \* enabled of each rule: stands for all that a rule says
  policy,        \* the policies that exist
  audited,       \* audited of each policy
  usedBy         \* firewall_policy_id of each firewall, None without a row

ruleVars == <<rule, boundTo, position, enabled>>
vars     == <<ruleVars, policy, audited, usedBy>>

Count == Cardinality(Rule)

TypeOK ==
  /\ rule     \subseteq Rule
  /\ boundTo  \in [Rule -> Policy \cup {None}]
  /\ position \in [Rule -> 0..Count]
  /\ enabled  \in [Rule -> BOOLEAN]
  /\ policy   \subseteq Policy
  /\ audited  \in [Policy -> BOOLEAN]
  /\ usedBy   \in [Firewall -> Policy \cup {None}]

Init ==
  /\ rule     = {}
  /\ boundTo  = [r \in Rule |-> None]
  /\ position = [r \in Rule |-> 0]
  /\ enabled  = [r \in Rule |-> FALSE]
  /\ policy   = {}
  /\ audited  = [p \in Policy |-> FALSE]
  /\ usedBy   = [f \in Firewall |-> None]

-----------------------------------------------------------------------------
(* The list of a policy, and its numbering.                                *)

Bound(p) == {r \in Rule : boundTo[r] = p}

\* firewall_rules of a policy, in the order of their positions.
Sorted(p)  == {list \in Bijection(1..Cardinality(Bound(p)), Bound(p)) :
                 \A i, j \in DOMAIN list : i < j => position[list[i]] <= position[list[j]]}
RulesOf(p) == CHOOSE list \in Sorted(p) : TRUE

\* Mutant: the list is not numbered again.
Reorder_Skipped(p, list, stale) ==
  /\ boundTo' = [r \in Rule |-> IF r \in Range(list) THEN p
                                ELSE IF boundTo[r] = p THEN None ELSE boundTo[r]]
  /\ position' = [r \in Rule |-> IF r \in Range(list) /\ position[r] = 0
                                   THEN CHOOSE i \in DOMAIN list : list[i] = r
                                   ELSE position[r]]

\* Mutant: the numbers start at 2.
Reorder_FromTwo(p, list, stale) ==
  /\ boundTo' = [r \in Rule |-> IF r \in Range(list) THEN p
                                ELSE IF boundTo[r] = p THEN None ELSE boundTo[r]]
  /\ position' = [r \in Rule |-> IF r \in Range(list)
                                   THEN 1 + CHOOSE i \in DOMAIN list : list[i] = r
                                   ELSE stale[r]]

\* p gets this list; stale is the position left in the other rules' rows.
Reorder(p, list, stale) ==
  /\ boundTo' = [r \in Rule |-> IF r \in Range(list) THEN p
                                ELSE IF boundTo[r] = p THEN None ELSE boundTo[r]]
  /\ position' = [r \in Rule |-> IF r \in Range(list)
                                   THEN CHOOSE i \in DOMAIN list : list[i] = r
                                   ELSE stale[r]]

\* list.insert: a place beyond the end is the end.
Inserted(list, at, r) == InsertAt(list, IF at > Len(list) THEN Len(list) + 1 ELSE at, r)

\* _set_rules_for_policy, without its audited: all rules exist and are in no other
\* policy.  Those that leave may have moved up in the list while it was emptied.
SetRules(p, list) ==
  /\ Range(list) \subseteq rule
  /\ \A r \in Range(list) : boundTo[r] \in {p, None}
  /\ \E stale \in [Rule -> 0..Count] :
       /\ \A r \in Rule : IF boundTo[r] = p /\ r \notin Range(list)
                            THEN stale[r] \in 1..position[r]
                            ELSE stale[r] = position[r]
       /\ Reorder(p, list, stale)

-----------------------------------------------------------------------------
(* The requests.                                                           *)

CreateRule(r, e) ==
  /\ r \notin rule
  /\ rule' = rule \cup {r}
  /\ position' = [position EXCEPT ![r] = 0]
  /\ enabled'  = [enabled EXCEPT ![r] = e]
  /\ UNCHANGED <<boundTo, policy, audited, usedBy>>

\* Mutant: the policy stays audited.
UpdateRule_Audited(r, e) ==
  /\ r \in rule
  /\ enabled' = [enabled EXCEPT ![r] = e]
  /\ UNCHANGED <<rule, boundTo, position, policy, audited, usedBy>>

UpdateRule(r, e) ==
  /\ r \in rule
  /\ enabled' = [enabled EXCEPT ![r] = e]
  /\ audited' = [p \in Policy |-> audited[p] /\ boundTo[r] # p]
  /\ UNCHANGED <<rule, boundTo, position, policy, usedBy>>

DeleteRule(r) ==
  /\ r \in rule /\ boundTo[r] = None
  /\ rule' = rule \ {r}
  /\ UNCHANGED <<boundTo, position, enabled, policy, audited, usedBy>>

CreatePolicy(p, list, a) ==
  /\ p \notin policy
  /\ policy' = policy \cup {p}
  /\ SetRules(p, list)
  /\ audited' = [audited EXCEPT ![p] = a]
  /\ UNCHANGED <<rule, enabled, usedBy>>

\* With firewall_rules: the policy is not audited any more, unless the request says so.
UpdatePolicyRules(p, list, a) ==
  /\ p \in policy
  /\ SetRules(p, list)
  /\ audited' = [audited EXCEPT ![p] = a]
  /\ UNCHANGED <<rule, enabled, policy, usedBy>>

UpdatePolicyAudited(p, a) ==
  /\ p \in policy
  /\ audited' = [audited EXCEPT ![p] = a]
  /\ UNCHANGED <<ruleVars, policy, usedBy>>

\* Mutant: a policy that a firewall uses goes too.
DeletePolicy_InUse(p) ==
  /\ p \in policy
  /\ policy' = policy \ {p}
  /\ boundTo' = [r \in Rule |-> IF boundTo[r] = p THEN None ELSE boundTo[r]]
  /\ audited' = [audited EXCEPT ![p] = FALSE]
  /\ UNCHANGED <<rule, position, enabled, usedBy>>

\* Not while a firewall uses it.  The rules are left, unbound.
DeletePolicy(p) ==
  /\ p \in policy
  /\ \A f \in Firewall : usedBy[f] # p
  /\ policy' = policy \ {p}
  /\ boundTo' = [r \in Rule |-> IF boundTo[r] = p THEN None ELSE boundTo[r]]
  /\ audited' = [audited EXCEPT ![p] = FALSE]
  /\ UNCHANGED <<rule, position, enabled, usedBy>>

\* _process_rule_for_policy with a position.
ProcessInsert(p, r, at) ==
  /\ p \in policy
  /\ r \in rule /\ boundTo[r] = None
  /\ Reorder(p, Inserted(RulesOf(p), at, r), position)
  /\ audited' = [audited EXCEPT ![p] = FALSE]
  /\ UNCHANGED <<rule, enabled, policy, usedBy>>

InsertRuleAtTop(p, r) == ProcessInsert(p, r, 1)

\* Mutant: the place of the reference is taken for "after", too.
InsertRule_SamePlace(p, r, ref, before) ==
  /\ ref \in rule /\ position[ref] > 0
  /\ ProcessInsert(p, r, position[ref])

\* insert_rule with insert_before or insert_after.  The reference needs a position,
\* or the request raises; it need not be in the policy.
InsertRule(p, r, ref, before) ==
  /\ ref \in rule /\ position[ref] > 0
  /\ ProcessInsert(p, r, IF before THEN position[ref] ELSE position[ref] + 1)

RemoveRule(p, r) ==
  /\ p \in policy
  /\ r \in rule /\ boundTo[r] = p
  /\ \E i \in DOMAIN RulesOf(p) : /\ RulesOf(p)[i] = r
                                 /\ Reorder(p, RemoveAt(RulesOf(p), i), position)
  /\ audited' = [audited EXCEPT ![p] = FALSE]
  /\ UNCHANGED <<rule, enabled, policy, usedBy>>

\* create_firewall, and update_firewall with another policy.
UsePolicy(f, p) ==
  /\ p \in policy
  /\ usedBy' = [usedBy EXCEPT ![f] = p]
  /\ UNCHANGED <<ruleVars, policy, audited>>

DeleteFirewall(f) ==
  /\ usedBy[f] # None
  /\ usedBy' = [usedBy EXCEPT ![f] = None]
  /\ UNCHANGED <<ruleVars, policy, audited>>

\* uuid_list: no rule twice.
RuleLists == {list \in BoundedSeq(Rule, Count) : IsInjective(list)}

Next ==
  \/ \E r \in Rule, e \in BOOLEAN : CreateRule(r, e) \/ UpdateRule(r, e)
  \/ \E r \in Rule : DeleteRule(r)
  \/ \E p \in Policy, list \in RuleLists, a \in BOOLEAN :
       CreatePolicy(p, list, a) \/ UpdatePolicyRules(p, list, a)
  \/ \E p \in Policy, a \in BOOLEAN : UpdatePolicyAudited(p, a)
  \/ \E p \in Policy : DeletePolicy(p)
  \/ \E p \in Policy, r \in Rule : InsertRuleAtTop(p, r) \/ RemoveRule(p, r)
  \/ \E p \in Policy, r, ref \in Rule, before \in BOOLEAN : InsertRule(p, r, ref, before)
  \/ \E f \in Firewall : DeleteFirewall(f) \/ \E p \in Policy : UsePolicy(f, p)

Spec == Init /\ [][Next]_vars

-----------------------------------------------------------------------------
(* Safety.                                                                 *)

\* The rules of a policy have the positions 1, 2, ..., whatever was inserted, removed,
\* replaced and deleted: insert_rule takes a position for a place in the list.
PositionsAreDense ==
  \A p \in Policy : {position[r] : r \in Bound(p)} = 1..Cardinality(Bound(p))

\* delete_firewall_policy and delete_firewall_rule: a firewall enforces a policy that
\* exists, and a policy has rules that exist.
NothingDangles ==
  /\ \A f \in Firewall : usedBy[f] # None => usedBy[f] \in policy
  /\ \A r \in Rule : boundTo[r] # None => boundTo[r] \in policy /\ r \in rule

\* What an auditor sees of a policy.
Contents(p) == [i \in DOMAIN RulesOf(p) |-> <<RulesOf(p)[i], enabled[RulesOf(p)[i]]>>]

\* A policy stays audited only with the rules, in that order and with those contents,
\* that it was audited with; only a request that says audited may change both.
AuditCoversContents ==
  [][\A p \in Policy : audited[p] /\ audited'[p] /\ Contents(p)' # Contents(p)
       => \E list \in RuleLists : UpdatePolicyRules(p, list, TRUE)]_vars

\* r is just before, or just after, ref in the list.
NextTo(list, r, ref, before) ==
  \E i \in 1..(Len(list) - 1) : IF before THEN list[i] = r /\ list[i + 1] = ref
                                          ELSE list[i] = ref /\ list[i + 1] = r

\* insert_rule puts the rule next to its reference, if that is in the policy, and
\* leaves the other rules of the policy, and the other policies, in order.
InsertionIsLocal ==
  [][\A p \in Policy, r, ref \in Rule, before \in BOOLEAN :
       InsertRule(p, r, ref, before) =>
         /\ boundTo[ref] = p => NextTo(RulesOf(p)', r, ref, before)
         /\ \E i \in 1..(Len(RulesOf(p)) + 1) : RulesOf(p)' = InsertAt(RulesOf(p), i, r)
         /\ \A q \in Policy \ {p} : RulesOf(q)' = RulesOf(q)]_vars

\* insert_rule's comment: "the new rule is inserted before reference_firewall_rule_id",
\* or after it, whatever the reference.
ReferenceIsHonoured ==
  [][\A p \in Policy, r, ref \in Rule, before \in BOOLEAN :
       InsertRule(p, r, ref, before) => NextTo(RulesOf(p)', r, ref, before)]_vars

=============================================================================
