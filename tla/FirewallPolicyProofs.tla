------------------------ MODULE FirewallPolicyProofs ------------------------
(***************************************************************************)
(* Proofs about FirewallPolicy, for any rules, policies and firewalls.     *)
(*                                                                         *)
(* The positions in the rows are read as places in the list when a rule is *)
(* inserted, so that the numbering is right after a request only if it was *)
(* right before; and a new rule must not bring a position into a policy,   *)
(* for which the policy of a rule must be one that has it.  The three      *)
(* invariants are therefore proved together.                               *)
(***************************************************************************)
EXTENDS FirewallPolicy, FiniteSetTheorems, SequenceTheorems, TLAPS

\* The inductive invariant.
PolicyInv == TypeOK /\ PositionsAreDense /\ NothingDangles

-----------------------------------------------------------------------------
(* Lists.                                                                  *)

\* A list of n rules, none twice, only with rules of S.
IsList(list, n, S) == list \in Injection(1..n, S)

\* Such a list is as long as the set of its rules.
LEMMA ListLength ==
  ASSUME NEW n \in Nat, NEW S, NEW list, IsList(list, n, S), IsFiniteSet(S)
  PROVE  /\ n <= Cardinality(S)
         /\ IsFiniteSet(Range(list)) /\ Cardinality(Range(list)) = n
         /\ Range(list) \subseteq S /\ Range(list) = {list[i] : i \in 1..n}
<1>1. /\ list \in [1..n -> S] /\ DOMAIN list = 1..n
      /\ \A i, j \in 1..n : list[i] = list[j] => i = j
  BY DEF IsList, Injection, IsInjective
<1>2. IsFiniteSet(1..n) /\ Cardinality(1..n) = n
  BY FS_Interval
<1>3. n <= Cardinality(S)
  BY <1>2, FS_Injection DEF IsList
<1>4. Range(list) = {list[i] : i \in 1..n} /\ Range(list) \subseteq S
  BY <1>1 DEF Range
<1>5. list \in Injection(1..n, Range(list)) /\ list \in Surjection(1..n, Range(list))
  BY <1>1, <1>4 DEF Injection, IsInjective, Surjection
<1>6. IsFiniteSet(Range(list)) /\ Cardinality(Range(list)) = n
  BY <1>2, <1>5, FS_Surjection
<1>. QED
  BY <1>3, <1>4, <1>6

\* A policy has finitely many rules.
LEMMA BoundIsFinite ==
  ASSUME NEW p
  PROVE  Bound(p) \subseteq Rule /\ IsFiniteSet(Bound(p)) /\ Cardinality(Bound(p)) \in Nat
<1>1. Bound(p) \in SUBSET Rule
  BY DEF Bound
<1>. QED
  BY <1>1, PolicyAssumption, FS_Subset, FS_CardinalityType

\* There is a list of the rules of a policy in the order of their positions.
LEMMA RulesAreSorted ==
  ASSUME PositionsAreDense, NEW p \in Policy
  PROVE  RulesOf(p) \in Sorted(p)
<1> DEFINE n == Cardinality(Bound(p))
           inOrder == [i \in 1..n |-> CHOOSE r \in Bound(p) : position[r] = i]
<1>1. n \in Nat /\ IsFiniteSet(Bound(p))
  BY BoundIsFinite
<1>2. \A i \in 1..n : \E r \in Bound(p) : position[r] = i
  <2>1. {position[r] : r \in Bound(p)} = 1..n
    BY DEF PositionsAreDense
  <2>. QED
    BY <2>1
<1>3. \A i \in 1..n : inOrder[i] \in Bound(p) /\ position[inOrder[i]] = i
  BY <1>2
<1>4. inOrder \in [1..n -> Bound(p)] /\ DOMAIN inOrder = 1..n
  BY <1>3
<1>. HIDE DEF inOrder
<1>5. inOrder \in Injection(1..n, Bound(p))
  BY <1>3, <1>4 DEF Injection, IsInjective
<1>6. inOrder \in Bijection(1..n, Bound(p))
  <2>1. IsFiniteSet(1..n) /\ Cardinality(1..n) = n
    BY <1>1, FS_Interval
  <2>. QED
    BY <1>1, <1>5, <2>1, FS_Injection DEF Bijection
<1>7. inOrder \in Sorted(p)
  BY <1>1, <1>3, <1>4, <1>6 DEF Sorted
<1>. QED
  BY <1>7 DEF RulesOf

\* The list of a policy is just its rules.
LEMMA RulesAreListed ==
  ASSUME PositionsAreDense, NEW p \in Policy
  PROVE  IsList(RulesOf(p), Cardinality(Bound(p)), Bound(p))
BY RulesAreSorted DEF Sorted, IsList, Bijection

\* A list with a rule inserted: what is before its place, the rule, and what was there.
LEMMA InsertedAt ==
  ASSUME NEW n \in Nat, NEW S, NEW list, IsList(list, n, S), NEW at \in Nat \ {0}, NEW r
  PROVE  LET k   == IF at > n THEN n + 1 ELSE at
             new == Inserted(list, at, r)
         IN  /\ k \in 1..(n + 1) /\ Len(list) = n /\ new = InsertAt(list, k, r)
             /\ new \in [1..(n + 1) -> S \cup {r}] /\ Len(new) = n + 1
             /\ \A i \in 1..(n + 1) :
                  new[i] = IF i < k THEN list[i] ELSE IF i = k THEN r ELSE list[i - 1]
<1> DEFINE T     == S \cup {r}
           k     == IF at > n THEN n + 1 ELSE at
           front == SubSeq(list, 1, k - 1)
           back  == SubSeq(list, k, n)
           new   == front \o <<r>> \o back
<1>1. list \in [1..n -> S] /\ Len(list) = n
  BY DEF IsList, Injection, IsInjective
<1>2. Inserted(list, at, r) = new /\ InsertAt(list, k, r) = new
  BY <1>1 DEF Inserted, InsertAt
<1>3. k \in 1..(n + 1)
  OBVIOUS
<1>4. \A i \in 1..n : list[i] \in T
  BY <1>1
<1>. HIDE DEF k, T
<1>5. front \in Seq(T) /\ Len(front) = k - 1 /\ \A i \in 1..(k - 1) : front[i] = list[i]
  BY <1>3, <1>4, SubSeqProperties
<1>6. /\ back \in Seq(T) /\ Len(back) = n - k + 1
      /\ \A i \in 1..(n - k + 1) : back[i] = list[k + i - 1]
  BY <1>3, <1>4, SubSeqProperties
<1>7. <<r>> \in Seq(T) /\ Len(<<r>>) = 1 /\ <<r>>[1] = r
  BY DEF T
<1>. HIDE DEF front, back
<1>8. /\ front \o <<r>> \in Seq(T) /\ Len(front \o <<r>>) = k
      /\ \A i \in 1..k : (front \o <<r>>)[i] = IF i < k THEN front[i] ELSE r
  BY <1>3, <1>5, <1>7, ConcatProperties
<1>9. /\ new \in Seq(T) /\ Len(new) = n + 1
      /\ \A i \in 1..(n + 1) : new[i] = IF i <= k THEN (front \o <<r>>)[i] ELSE back[i - k]
  <2> DEFINE two == front \o <<r>>
  <2>1. /\ two \o back \in Seq(T) /\ Len(two \o back) = Len(two) + Len(back)
        /\ \A i \in 1..(Len(two) + Len(back)) :
             (two \o back)[i] = IF i <= Len(two) THEN two[i] ELSE back[i - Len(two)]
    BY <1>6, <1>8, ConcatProperties
  <2>2. Len(two) = k /\ Len(two) + Len(back) = n + 1
    BY <1>3, <1>6, <1>8
  <2>. QED
    BY <2>1, <2>2
<1>. HIDE DEF new
<1>10. \A i \in 1..(n + 1) : new[i] = IF i < k THEN list[i] ELSE IF i = k THEN r ELSE list[i - 1]
  <2>. SUFFICES ASSUME NEW i \in 1..(n + 1)
                PROVE  new[i] = IF i < k THEN list[i] ELSE IF i = k THEN r ELSE list[i - 1]
    OBVIOUS
  <2>1. CASE i < k
    BY <1>3, <1>5, <1>8, <1>9, <2>1
  <2>2. CASE i = k
    BY <1>3, <1>8, <1>9, <2>2
  <2>3. CASE i > k
    <3>1. i - k \in 1..(n - k + 1) /\ k + (i - k) - 1 = i - 1
      BY <1>3, <2>3
    <3>2. new[i] = back[i - k]
      BY <1>3, <1>9, <2>3
    <3>3. back[i - k] = list[k + (i - k) - 1]
      BY <1>6, <3>1
    <3>. QED
      BY <1>3, <2>3, <3>1, <3>2, <3>3
  <2>. QED
    BY <1>3, <2>1, <2>2, <2>3
<1>11. new \in [1..(n + 1) -> T]
  BY <1>9
<1>. QED
  BY <1>1, <1>2, <1>3, <1>9, <1>10, <1>11 DEF k, T

\* A rule that is not in the list can be inserted at any place.
LEMMA InsertedIsList ==
  ASSUME NEW n \in Nat, NEW S, NEW list, IsList(list, n, S), NEW at \in Nat \ {0}, NEW r, r \notin S
  PROVE  IsList(Inserted(list, at, r), n + 1, S \cup {r})
<1> DEFINE k   == IF at > n THEN n + 1 ELSE at
           new == Inserted(list, at, r)
<1>1. /\ list \in [1..n -> S]
      /\ \A i, j \in 1..n : list[i] = list[j] => i = j
  BY DEF IsList, Injection, IsInjective
<1>2. /\ k \in 1..(n + 1) /\ new \in [1..(n + 1) -> S \cup {r}]
      /\ \A i \in 1..(n + 1) : new[i] = IF i < k THEN list[i] ELSE IF i = k THEN r ELSE list[i - 1]
  BY InsertedAt
<1>. HIDE DEF k, new
<1>3. \A i, j \in 1..(n + 1) : new[i] = new[j] => i = j
  BY <1>1, <1>2
<1>. QED
  BY <1>2, <1>3 DEF IsList, Injection, IsInjective, new

\* Any rule can be taken out of a list.
LEMMA RemovedIsList ==
  ASSUME NEW n \in Nat, NEW S, NEW list, IsList(list, n, S), NEW k \in 1..n
  PROVE  IsList(RemoveAt(list, k), n - 1, S)
<1> DEFINE front == SubSeq(list, 1, k - 1)
           back  == SubSeq(list, k + 1, n)
           new   == front \o back
<1>1. /\ list \in [1..n -> S] /\ Len(list) = n
      /\ \A i, j \in 1..n : list[i] = list[j] => i = j
  BY DEF IsList, Injection, IsInjective
<1>2. RemoveAt(list, k) = new
  BY <1>1 DEF RemoveAt
<1>5. front \in Seq(S) /\ Len(front) = k - 1 /\ \A i \in 1..(k - 1) : front[i] = list[i]
  BY <1>1, SubSeqProperties
<1>6. /\ back \in Seq(S) /\ Len(back) = n - k
      /\ \A i \in 1..(n - k) : back[i] = list[k + i]
  BY <1>1, SubSeqProperties
<1>. HIDE DEF front, back
<1>9. /\ new \in Seq(S) /\ Len(new) = n - 1
      /\ \A i \in 1..(n - 1) : new[i] = IF i <= k - 1 THEN front[i] ELSE back[i - (k - 1)]
  <2>1. /\ new \in Seq(S) /\ Len(new) = Len(front) + Len(back)
        /\ \A i \in 1..(Len(front) + Len(back)) :
             new[i] = IF i <= Len(front) THEN front[i] ELSE back[i - Len(front)]
    BY <1>5, <1>6, ConcatProperties
  <2>2. Len(front) = k - 1 /\ Len(front) + Len(back) = n - 1
    BY <1>5, <1>6
  <2>. QED
    BY <2>1, <2>2
<1>. HIDE DEF new
<1>10. \A i \in 1..(n - 1) : new[i] = IF i < k THEN list[i] ELSE list[i + 1]
  <2>. SUFFICES ASSUME NEW i \in 1..(n - 1)
                PROVE  new[i] = IF i < k THEN list[i] ELSE list[i + 1]
    OBVIOUS
  <2>1. CASE i < k
    BY <1>5, <1>9, <2>1
  <2>2. CASE i >= k
    <3>1. i - (k - 1) \in 1..(n - k) /\ k + (i - (k - 1)) = i + 1
      BY <2>2
    <3>2. new[i] = back[i - (k - 1)]
      BY <1>9, <2>2
    <3>. QED
      BY <1>6, <2>2, <3>1, <3>2
  <2>. QED
    BY <2>1, <2>2
<1>11. new \in [1..(n - 1) -> S]
  BY <1>9
<1>12. \A i, j \in 1..(n - 1) : new[i] = new[j] => i = j
  BY <1>1, <1>10
<1>. QED
  BY <1>2, <1>11, <1>12 DEF IsList, Injection, IsInjective

-----------------------------------------------------------------------------
(* The numbering.                                                          *)

\* Whatever list a policy gets, of rules that exist and are in no other policy, the rows
\* of all policies are right again.
LEMMA Renumbered ==
  ASSUME PolicyInv, NEW p \in Policy, p \in policy',
         NEW n \in Nat, NEW list, IsList(list, n, Rule),
         \A r \in Range(list) : r \in rule /\ boundTo[r] \in {p, None},
         NEW stale \in [Rule -> 0..Count],
         \A r \in Rule : boundTo[r] # p => stale[r] = position[r],
         Reorder(p, list, stale),
         policy \subseteq policy', UNCHANGED <<rule, usedBy>>
  PROVE  /\ boundTo' \in [Rule -> Policy \cup {None}]
         /\ position' \in [Rule -> 0..Count]
         /\ PositionsAreDense'
         /\ NothingDangles'
<1>1. /\ boundTo \in [Rule -> Policy \cup {None}]
      /\ Count \in Nat /\ IsFiniteSet(Rule)
      /\ \A q \in Policy : q # None
  BY PolicyAssumption, FS_CardinalityType DEF PolicyInv, TypeOK, Count
<1>2. /\ n <= Count /\ Range(list) \subseteq Rule /\ Range(list) = {list[i] : i \in 1..n}
      /\ Cardinality(Range(list)) = n
      /\ \A i, j \in 1..n : list[i] = list[j] => i = j
      /\ DOMAIN list = 1..n
  BY <1>1, ListLength DEF Count, IsList, Injection, IsInjective
<1>3. \A i \in 1..n : (CHOOSE j \in DOMAIN list : list[j] = list[i]) = i
  BY <1>2
<1>4. /\ \A i \in 1..n : boundTo'[list[i]] = p /\ position'[list[i]] = i
      /\ \A r \in Rule \ Range(list) : /\ boundTo'[r] = IF boundTo[r] = p THEN None ELSE boundTo[r]
                                       /\ position'[r] = stale[r]
  BY <1>2, <1>3 DEF Reorder
<1>5. /\ boundTo' \in [Rule -> Policy \cup {None}]
      /\ position' \in [Rule -> 0..Count]
  <2>1. \A r \in Range(list) : boundTo'[r] = p /\ position'[r] \in 1..n
    BY <1>2, <1>4
  <2>2. \A r \in Rule : boundTo'[r] \in Policy \cup {None} /\ position'[r] \in 0..Count
    BY <1>1, <1>2, <1>4, <2>1
  <2>3. /\ boundTo' = [r \in Rule |-> boundTo'[r]]
        /\ position' = [r \in Rule |-> position'[r]]
    BY DEF Reorder
  <2>. QED
    BY <2>2, <2>3
<1>6. Bound(p)' = Range(list)
  <2>1. \A r \in Rule : boundTo'[r] = p <=> r \in Range(list)
    BY <1>1, <1>2, <1>4
  <2>. QED
    BY <1>2, <2>1 DEF Bound
<1>7. ASSUME NEW q \in Policy, q # p
      PROVE  Bound(q)' = Bound(q) /\ \A r \in Bound(q) : position'[r] = position[r]
  <2>1. \A r \in Rule : boundTo'[r] = q <=> boundTo[r] = q
    BY <1>1, <1>2, <1>4, <1>7
  <2>2. \A r \in Bound(q) : r \in Rule \ Range(list) /\ boundTo[r] # p
    BY <1>1, <1>7 DEF Bound
  <2>. QED
    BY <1>4, <2>1, <2>2 DEF Bound
<1>8. PositionsAreDense'
  <2>1. {position'[r] : r \in Bound(p)'} = 1..Cardinality(Bound(p)')
    <3>1. {position'[r] : r \in Range(list)} = 1..n
      BY <1>2, <1>4
    <3>. QED
      BY <1>2, <1>6, <3>1
  <2>2. ASSUME NEW q \in Policy, q # p
        PROVE  {position'[r] : r \in Bound(q)'} = 1..Cardinality(Bound(q)')
    <3>1. {position'[r] : r \in Bound(q)} = {position[r] : r \in Bound(q)}
      BY <1>7, <2>2
    <3>2. {position[r] : r \in Bound(q)} = 1..Cardinality(Bound(q))
      BY DEF PolicyInv, PositionsAreDense
    <3>. QED
      BY <1>7, <2>2, <3>1, <3>2
  <2>. QED
    BY <2>1, <2>2 DEF PositionsAreDense
<1>9. NothingDangles'
  <2>1. \A f \in Firewall : usedBy'[f] # None => usedBy'[f] \in policy'
    BY DEF PolicyInv, NothingDangles
  <2>2. \A r \in Rule : boundTo'[r] # None => boundTo'[r] \in policy' /\ r \in rule'
    <3>1. \A r \in Rule : boundTo[r] # None => boundTo[r] \in policy /\ r \in rule
      BY DEF PolicyInv, NothingDangles
    <3>2. \A r \in Range(list) : boundTo'[r] = p /\ r \in rule
      BY <1>2, <1>4
    <3>. QED
      BY <1>4, <3>1, <3>2
  <2>. QED
    BY <2>1, <2>2 DEF NothingDangles
<1>. QED
  BY <1>5, <1>8, <1>9

-----------------------------------------------------------------------------
(* The requests.                                                           *)

\* So with the list of a request that creates or updates a policy.
LEMMA SetRulesInv ==
  ASSUME PolicyInv, NEW p \in Policy, p \in policy', NEW list \in RuleLists, SetRules(p, list),
         policy \subseteq policy', UNCHANGED <<rule, usedBy>>
  PROVE  /\ boundTo' \in [Rule -> Policy \cup {None}]
         /\ position' \in [Rule -> 0..Count]
         /\ PositionsAreDense' /\ NothingDangles'
<1>1. PICK n \in 0..Count : list \in [1..n -> Rule] /\ IsInjective(list)
  BY DEF RuleLists, BoundedSeq, SeqOf
<1>2. n \in Nat /\ IsList(list, n, Rule)
  <2>1. Count \in Nat
    BY PolicyAssumption, FS_CardinalityType DEF Count
  <2>. QED
    BY <1>1, <2>1 DEF IsList, Injection
<1>3. PICK stale \in [Rule -> 0..Count] :
        /\ \A r \in Rule : boundTo[r] # p => stale[r] = position[r]
        /\ Reorder(p, list, stale)
  BY DEF SetRules
<1>4. \A r \in Range(list) : r \in rule /\ boundTo[r] \in {p, None}
  BY DEF SetRules
<1>. QED
  BY <1>2, <1>3, <1>4, Renumbered

\* An insertion keeps the invariant: the new rule brings no position along.
LEMMA InsertInv ==
  ASSUME PolicyInv, NEW p \in Policy, NEW r \in Rule, NEW at \in Nat \ {0}, ProcessInsert(p, r, at)
  PROVE  PolicyInv'
<1> DEFINE n   == Cardinality(Bound(p))
           new == Inserted(RulesOf(p), at, r)
<1>1. n \in Nat /\ Bound(p) \subseteq Rule
  BY BoundIsFinite
<1>2. /\ p \in policy /\ r \in rule /\ boundTo[r] = None /\ Reorder(p, new, position)
      /\ UNCHANGED <<rule, enabled, policy, usedBy>>
      /\ audited' = [audited EXCEPT ![p] = FALSE]
  BY DEF ProcessInsert
<1>3. p # None /\ r \notin Bound(p)
  BY <1>2, PolicyAssumption DEF Bound
<1>4. IsList(new, n + 1, Bound(p) \cup {r})
  BY <1>1, <1>3, RulesAreListed, InsertedIsList DEF PolicyInv
<1>5. /\ IsList(new, n + 1, Rule)
      /\ \A s \in Range(new) : s \in Bound(p) \cup {r}
  BY <1>1, <1>4 DEF IsList, Injection, Range
<1>6. \A s \in Range(new) : s \in rule /\ boundTo[s] \in {p, None}
  BY <1>2, <1>3, <1>5 DEF Bound, PolicyInv, NothingDangles
<1>. HIDE DEF new, n
<1>7. /\ boundTo' \in [Rule -> Policy \cup {None}]
      /\ position' \in [Rule -> 0..Count]
      /\ PositionsAreDense' /\ NothingDangles'
  BY <1>1, <1>2, <1>5, <1>6, Renumbered DEF PolicyInv, TypeOK
<1>. QED
  BY <1>2, <1>7 DEF PolicyInv, TypeOK, Count

\* A removal keeps it: the positions behind the rule are those of the list again.
LEMMA RemoveInv ==
  ASSUME PolicyInv, NEW p \in Policy, NEW r \in Rule, RemoveRule(p, r)
  PROVE  PolicyInv'
<1> DEFINE n == Cardinality(Bound(p))
<1>1. n \in Nat /\ Bound(p) \subseteq Rule /\ p # None
  BY BoundIsFinite, PolicyAssumption
<1>2. IsList(RulesOf(p), n, Bound(p))
  BY RulesAreListed DEF PolicyInv
<1>3. PICK i \in 1..n : Reorder(p, RemoveAt(RulesOf(p), i), position)
  BY <1>2 DEF RemoveRule, IsList, Injection
<1> DEFINE new == RemoveAt(RulesOf(p), i)
<1>4. /\ p \in policy /\ UNCHANGED <<rule, enabled, policy, usedBy>>
      /\ audited' = [audited EXCEPT ![p] = FALSE]
  BY DEF RemoveRule
<1>5. n - 1 \in Nat /\ IsList(new, n - 1, Bound(p))
  BY <1>1, <1>2, RemovedIsList
<1>6. IsList(new, n - 1, Rule) /\ \A s \in Range(new) : s \in Bound(p)
  BY <1>1, <1>5 DEF IsList, Injection, Range
<1>7. \A s \in Range(new) : s \in rule /\ boundTo[s] \in {p, None}
  BY <1>1, <1>6 DEF Bound, PolicyInv, NothingDangles
<1>8. Reorder(p, new, position)
  BY <1>3
<1>. HIDE DEF new, n
<1>9. /\ boundTo' \in [Rule -> Policy \cup {None}]
      /\ position' \in [Rule -> 0..Count]
      /\ PositionsAreDense' /\ NothingDangles'
  BY <1>4, <1>5, <1>6, <1>7, <1>8, Renumbered DEF PolicyInv, TypeOK
<1>. QED
  BY <1>4, <1>9 DEF PolicyInv, TypeOK, Count

\* A request that leaves the bindings of the rules, and the positions of bound rules.
LEMMA SameBindings ==
  ASSUME PolicyInv, boundTo' = boundTo, TypeOK', NothingDangles',
         \A r \in Rule : boundTo[r] # None => position'[r] = position[r]
  PROVE  PolicyInv'
<1>1. \A p \in Policy : Bound(p)' = Bound(p) /\ \A r \in Bound(p) : position'[r] = position[r]
  BY PolicyAssumption DEF Bound
<1>2. ASSUME NEW p \in Policy
      PROVE  {position'[r] : r \in Bound(p)'} = 1..Cardinality(Bound(p)')
  <2>1. {position'[r] : r \in Bound(p)} = {position[r] : r \in Bound(p)}
    BY <1>1
  <2>. QED
    BY <1>1, <2>1 DEF PolicyInv, PositionsAreDense
<1>. QED
  BY <1>2 DEF PolicyInv, PositionsAreDense

\* The rules of a policy that is deleted are bound to none.
LEMMA DeletePolicyInv ==
  ASSUME PolicyInv, NEW p \in Policy, DeletePolicy(p)
  PROVE  PolicyInv'
<1>1. boundTo \in [Rule -> Policy \cup {None}] /\ \A q \in Policy : q # None
  BY PolicyAssumption DEF PolicyInv, TypeOK
<1>2. \A r \in Rule : boundTo'[r] = IF boundTo[r] = p THEN None ELSE boundTo[r]
  BY DEF DeletePolicy
<1>3. Bound(p)' = {} /\ \A q \in Policy \ {p} : Bound(q)' = Bound(q)
  BY <1>1, <1>2 DEF Bound
<1>4. PositionsAreDense'
  <2>1. Cardinality({}) = 0
    BY FS_EmptySet
  <2>2. UNCHANGED position
    BY DEF DeletePolicy
  <2>. QED
    BY <1>3, <2>1, <2>2 DEF PolicyInv, PositionsAreDense
<1>5. TypeOK'
  BY <1>1, PolicyAssumption DEF DeletePolicy, PolicyInv, TypeOK, Count
<1>6. NothingDangles'
  BY <1>1, <1>2 DEF DeletePolicy, PolicyInv, NothingDangles
<1>. QED
  BY <1>4, <1>5, <1>6 DEF PolicyInv

\* Every step keeps it.
LEMMA NextPolicyInv == PolicyInv /\ [Next]_vars => PolicyInv'
<1>. SUFFICES ASSUME PolicyInv, [Next]_vars PROVE PolicyInv'
  OBVIOUS
<1>1. TypeOK /\ NothingDangles /\ Count \in Nat
  BY PolicyAssumption, FS_CardinalityType DEF PolicyInv, Count
<1>2. ASSUME NEW r \in Rule, NEW e \in BOOLEAN, CreateRule(r, e) PROVE PolicyInv'
  <2>1. boundTo[r] = None
    BY <1>1, <1>2 DEF CreateRule, NothingDangles
  <2>2. TypeOK' /\ NothingDangles'
    BY <1>1, <1>2 DEF CreateRule, TypeOK, NothingDangles, Count
  <2>. QED
    BY <1>1, <1>2, <2>1, <2>2, SameBindings DEF CreateRule, TypeOK
<1>3. ASSUME NEW r \in Rule, NEW e \in BOOLEAN, UpdateRule(r, e) PROVE PolicyInv'
  <2>1. TypeOK' /\ NothingDangles'
    BY <1>1, <1>3 DEF UpdateRule, TypeOK, NothingDangles, Count
  <2>. QED
    BY <1>3, <2>1, SameBindings DEF UpdateRule
<1>4. ASSUME NEW r \in Rule, DeleteRule(r) PROVE PolicyInv'
  <2>1. TypeOK' /\ NothingDangles'
    BY <1>1, <1>4 DEF DeleteRule, TypeOK, NothingDangles, Count
  <2>. QED
    BY <1>4, <2>1, SameBindings DEF DeleteRule
<1>5. ASSUME NEW p \in Policy, NEW list \in RuleLists, NEW a \in BOOLEAN,
             CreatePolicy(p, list, a) \/ UpdatePolicyRules(p, list, a)
      PROVE  PolicyInv'
  <2>1. /\ p \in policy' /\ policy \subseteq policy' /\ SetRules(p, list)
        /\ policy' \subseteq Policy /\ UNCHANGED <<rule, enabled, usedBy>>
        /\ audited' = [audited EXCEPT ![p] = a]
    BY <1>1, <1>5 DEF CreatePolicy, UpdatePolicyRules, TypeOK
  <2>2. /\ boundTo' \in [Rule -> Policy \cup {None}]
        /\ position' \in [Rule -> 0..Count]
        /\ PositionsAreDense' /\ NothingDangles'
    BY <2>1, SetRulesInv
  <2>. QED
    BY <1>1, <2>1, <2>2 DEF PolicyInv, TypeOK, Count
<1>6. ASSUME NEW p \in Policy, NEW a \in BOOLEAN, UpdatePolicyAudited(p, a) PROVE PolicyInv'
  <2>1. TypeOK' /\ NothingDangles'
    BY <1>1, <1>6 DEF UpdatePolicyAudited, ruleVars, TypeOK, NothingDangles, Count
  <2>. QED
    BY <1>6, <2>1, SameBindings DEF UpdatePolicyAudited, ruleVars
<1>7. ASSUME NEW p \in Policy, NEW r \in Rule, InsertRuleAtTop(p, r) PROVE PolicyInv'
  BY <1>7, InsertInv DEF InsertRuleAtTop
<1>8. ASSUME NEW p \in Policy, NEW r \in Rule, NEW ref \in Rule, NEW before \in BOOLEAN,
             InsertRule(p, r, ref, before)
      PROVE  PolicyInv'
  <2>1. position[ref] \in Nat \ {0} /\ position[ref] + 1 \in Nat \ {0}
    BY <1>1, <1>8 DEF InsertRule, TypeOK
  <2>. QED
    BY <1>8, <2>1, InsertInv DEF InsertRule
<1>9. ASSUME NEW f \in Firewall, DeleteFirewall(f) \/ \E p \in Policy : UsePolicy(f, p)
      PROVE  PolicyInv'
  <2>1. TypeOK' /\ NothingDangles' /\ UNCHANGED ruleVars
    BY <1>1, <1>9 DEF DeleteFirewall, UsePolicy, ruleVars, TypeOK, NothingDangles, Count
  <2>. QED
    BY <2>1, SameBindings DEF ruleVars
<1>10. CASE UNCHANGED vars
  <2>1. TypeOK' /\ NothingDangles'
    BY <1>1, <1>10 DEF vars, ruleVars, TypeOK, NothingDangles, Count
  <2>. QED
    BY <1>10, <2>1, SameBindings DEF vars, ruleVars
<1>. QED
  BY <1>2, <1>3, <1>4, <1>5, <1>6, <1>7, <1>8, <1>9, <1>10, DeletePolicyInv, RemoveInv DEF Next

\* The invariant holds.
LEMMA AlwaysPolicyInv == Spec => []PolicyInv
<1>1. Init => PolicyInv
  <2>1. Init => \A p \in Policy : Bound(p) = {}
    BY PolicyAssumption DEF Init, Bound
  <2>2. Init => PositionsAreDense
    BY <2>1, FS_EmptySet DEF PositionsAreDense
  <2>3. Init => TypeOK /\ NothingDangles
    BY PolicyAssumption, FS_CardinalityType DEF Init, TypeOK, NothingDangles, Count
  <2>. QED
    BY <2>2, <2>3 DEF PolicyInv
<1>. QED
  BY <1>1, NextPolicyInv, PTL DEF Spec

\* Rows and lists keep their form: no request leaves a position beyond the number of rules.
THEOREM TypeCorrect == Spec => []TypeOK
<1>1. PolicyInv => TypeOK
  BY DEF PolicyInv
<1>. QED
  BY <1>1, AlwaysPolicyInv, PTL

\* The rules of a policy are numbered from 1 without gaps, whatever was inserted, removed,
\* replaced and deleted.
THEOREM ListsAreDense == Spec => []PositionsAreDense
<1>1. PolicyInv => PositionsAreDense
  BY DEF PolicyInv
<1>. QED
  BY <1>1, AlwaysPolicyInv, PTL

\* No firewall is left with a policy that is gone, and no policy with a rule that is gone.
THEOREM ReferencesHold == Spec => []NothingDangles
<1>1. PolicyInv => NothingDangles
  BY DEF PolicyInv
<1>. QED
  BY <1>1, AlwaysPolicyInv, PTL

-----------------------------------------------------------------------------
(* Audits.                                                                 *)

\* A policy that does not exist is not audited: a new one does not inherit an audit.
AuditInv == \A p \in Policy : audited[p] => p \in policy

\* What a step may do to the contents of a policy that stays audited.
AuditStep ==
  \A p \in Policy : audited[p] /\ audited'[p] /\ Contents(p)' # Contents(p)
    => \E list \in RuleLists : UpdatePolicyRules(p, list, TRUE)

\* A deletion clears the audit, and only a policy that is there gets one.
LEMMA NextAuditInv == PolicyInv /\ AuditInv /\ [Next]_vars => AuditInv'
<1>. SUFFICES ASSUME PolicyInv, AuditInv, [Next]_vars PROVE AuditInv'
  OBVIOUS
<1>1. audited \in [Policy -> BOOLEAN]
  BY DEF PolicyInv, TypeOK
<1>2. CASE UNCHANGED vars
  BY <1>2 DEF vars, AuditInv
<1>3. ASSUME NEW r \in Rule, NEW e \in BOOLEAN,
             CreateRule(r, e) \/ UpdateRule(r, e) \/ DeleteRule(r)
      PROVE  AuditInv'
  BY <1>3 DEF AuditInv, CreateRule, UpdateRule, DeleteRule
<1>4. ASSUME NEW p \in Policy, NEW list \in RuleLists, NEW a \in BOOLEAN,
             \/ CreatePolicy(p, list, a) \/ UpdatePolicyRules(p, list, a)
             \/ UpdatePolicyAudited(p, a) \/ DeletePolicy(p)
      PROVE  AuditInv'
  BY <1>1, <1>4 DEF AuditInv, CreatePolicy, UpdatePolicyRules, UpdatePolicyAudited, DeletePolicy
<1>5. ASSUME NEW p \in Policy, NEW r \in Rule,
             \/ InsertRuleAtTop(p, r) \/ RemoveRule(p, r)
             \/ \E ref \in Rule, before \in BOOLEAN : InsertRule(p, r, ref, before)
      PROVE  AuditInv'
  BY <1>1, <1>5 DEF AuditInv, InsertRuleAtTop, InsertRule, RemoveRule, ProcessInsert
<1>6. ASSUME NEW f \in Firewall, DeleteFirewall(f) \/ \E p \in Policy : UsePolicy(f, p)
      PROVE  AuditInv'
  BY <1>6 DEF AuditInv, DeleteFirewall, UsePolicy
<1>7. <<>> \in RuleLists
  BY PolicyAssumption, FS_CardinalityType DEF RuleLists, BoundedSeq, SeqOf, IsInjective, Count
<1>. QED
  BY <1>2, <1>3, <1>4, <1>5, <1>6, <1>7 DEF Next

\* The contents of a policy are its rules, their positions and themselves.
LEMMA SameContents ==
  ASSUME NEW p \in Policy, Bound(p)' = Bound(p),
         \A r \in Bound(p) : position'[r] = position[r] /\ enabled'[r] = enabled[r],
         PositionsAreDense
  PROVE  Contents(p)' = Contents(p)
<1>1. Sorted(p)' = Sorted(p)
  BY DEF Sorted, Bijection, Injection
<1>2. RulesOf(p)' = RulesOf(p)
  BY <1>1 DEF RulesOf
<1>3. \A i \in DOMAIN RulesOf(p) : RulesOf(p)[i] \in Bound(p)
  BY RulesAreListed DEF IsList, Injection
<1>. QED
  BY <1>2, <1>3 DEF Contents

\* A new list for one policy leaves the others, for it takes none of their rules.
LEMMA OthersSame ==
  ASSUME NEW p \in Policy, NEW q \in Policy, q # p, NEW list, NEW stale, Reorder(p, list, stale),
         \A r \in Range(list) : boundTo[r] \in {p, None},
         \A r \in Rule : boundTo[r] # p => stale[r] = position[r]
  PROVE  Bound(q)' = Bound(q) /\ \A r \in Bound(q) : position'[r] = position[r]
<1>1. q # None
  BY PolicyAssumption
<1>2. \A r \in Rule : /\ boundTo'[r] = q <=> boundTo[r] = q
                      /\ boundTo[r] = q => position'[r] = position[r]
  BY <1>1 DEF Reorder
<1>. QED
  BY <1>2 DEF Bound

\* No step but an update of the list with a new audit changes an audited policy.
LEMMA NextAuditStep == PolicyInv /\ AuditInv /\ [Next]_vars => [AuditStep]_vars
<1>. SUFFICES ASSUME PolicyInv, AuditInv, Next, NEW p \in Policy, audited[p], audited'[p],
                     ~\E list \in RuleLists : UpdatePolicyRules(p, list, TRUE)
              PROVE  Contents(p)' = Contents(p)
  BY DEF AuditStep
<1>1. PositionsAreDense /\ p \in policy /\ audited \in [Policy -> BOOLEAN]
  BY DEF PolicyInv, TypeOK, AuditInv
<1>2. \A r \in Bound(p) : r \in rule /\ r \in Rule /\ boundTo[r] = p
  BY PolicyAssumption DEF Bound, PolicyInv, NothingDangles
<1>3. ASSUME UNCHANGED boundTo,
             \A r \in Bound(p) : position'[r] = position[r] /\ enabled'[r] = enabled[r]
      PROVE  Contents(p)' = Contents(p)
  <2>1. Bound(p)' = Bound(p)
    BY <1>3 DEF Bound
  <2>. QED
    BY <1>1, <1>3, <2>1, SameContents
<1>4. ASSUME NEW q \in Policy, q # p, NEW list, NEW stale, Reorder(q, list, stale), UNCHANGED enabled,
             \A r \in Range(list) : boundTo[r] \in {q, None},
             \A r \in Rule : boundTo[r] # q => stale[r] = position[r]
      PROVE  Contents(p)' = Contents(p)
  <2>1. Bound(p)' = Bound(p) /\ \A r \in Bound(p) : position'[r] = position[r]
    BY <1>4, OthersSame
  <2>. QED
    BY <1>1, <1>4, <2>1, SameContents
<1>5. ASSUME NEW r \in Rule, NEW e \in BOOLEAN,
             CreateRule(r, e) \/ UpdateRule(r, e) \/ DeleteRule(r)
      PROVE  Contents(p)' = Contents(p)
  <2>1. CASE CreateRule(r, e) \/ DeleteRule(r)
    BY <1>2, <1>3, <2>1 DEF CreateRule, DeleteRule, PolicyInv, TypeOK
  <2>2. CASE UpdateRule(r, e)
    <3>1. boundTo[r] # p
      BY <2>2 DEF UpdateRule
    <3>. QED
      BY <1>2, <1>3, <2>2, <3>1 DEF UpdateRule, PolicyInv, TypeOK
  <2>. QED
    BY <1>5, <2>1, <2>2
<1>6. ASSUME NEW q \in Policy, NEW list \in RuleLists, NEW a \in BOOLEAN,
             CreatePolicy(q, list, a) \/ UpdatePolicyRules(q, list, a)
      PROVE  Contents(p)' = Contents(p)
  <2>1. q # p
    BY <1>1, <1>6 DEF CreatePolicy, UpdatePolicyRules
  <2>2. SetRules(q, list) /\ UNCHANGED enabled
    BY <1>6 DEF CreatePolicy, UpdatePolicyRules
  <2>3. PICK stale \in [Rule -> 0..Count] :
          /\ \A r \in Rule : boundTo[r] # q => stale[r] = position[r]
          /\ Reorder(q, list, stale)
    BY <2>2 DEF SetRules
  <2>4. \A r \in Range(list) : boundTo[r] \in {q, None}
    BY <2>2 DEF SetRules
  <2>. QED
    BY <1>4, <2>1, <2>2, <2>3, <2>4
<1>7. ASSUME NEW q \in Policy, NEW a \in BOOLEAN, UpdatePolicyAudited(q, a)
      PROVE  Contents(p)' = Contents(p)
  BY <1>3, <1>7 DEF UpdatePolicyAudited, ruleVars
<1>8. ASSUME NEW q \in Policy, DeletePolicy(q)
      PROVE  Contents(p)' = Contents(p)
  <2>1. q # p
    BY <1>1, <1>8 DEF DeletePolicy
  <2>2. \A r \in Rule : boundTo'[r] = p <=> boundTo[r] = p
    BY <1>8, <2>1, PolicyAssumption DEF DeletePolicy
  <2>3. Bound(p)' = Bound(p) /\ UNCHANGED <<position, enabled>>
    BY <1>8, <2>2 DEF DeletePolicy, Bound
  <2>. QED
    BY <1>1, <2>3, SameContents
<1>9. ASSUME NEW q \in Policy, NEW r \in Rule, NEW at \in Nat \ {0}, ProcessInsert(q, r, at)
      PROVE  Contents(p)' = Contents(p)
  <2>1. q # p /\ boundTo[r] = None /\ UNCHANGED enabled
    BY <1>1, <1>9 DEF ProcessInsert
  <2>2. r \notin Bound(q) /\ Cardinality(Bound(q)) \in Nat
    BY <2>1, PolicyAssumption, BoundIsFinite DEF Bound
  <2>3. IsList(Inserted(RulesOf(q), at, r), Cardinality(Bound(q)) + 1, Bound(q) \cup {r})
    BY <1>1, <2>2, RulesAreListed, InsertedIsList
  <2>4. \A s \in Range(Inserted(RulesOf(q), at, r)) : boundTo[s] \in {q, None}
    BY <2>1, <2>3 DEF IsList, Injection, Range, Bound
  <2>. QED
    BY <1>4, <1>9, <2>1, <2>4 DEF ProcessInsert
<1>10. ASSUME NEW q \in Policy, NEW r \in Rule, RemoveRule(q, r)
       PROVE  Contents(p)' = Contents(p)
  <2>1. q # p /\ UNCHANGED enabled
    BY <1>1, <1>10 DEF RemoveRule
  <2>2. IsList(RulesOf(q), Cardinality(Bound(q)), Bound(q)) /\ Cardinality(Bound(q)) \in Nat
    BY <1>1, RulesAreListed, BoundIsFinite
  <2>3. PICK i \in 1..Cardinality(Bound(q)) : Reorder(q, RemoveAt(RulesOf(q), i), position)
    BY <1>10, <2>2 DEF RemoveRule, IsList, Injection
  <2>4. IsList(RemoveAt(RulesOf(q), i), Cardinality(Bound(q)) - 1, Bound(q))
    BY <2>2, RemovedIsList
  <2>5. \A s \in Range(RemoveAt(RulesOf(q), i)) : boundTo[s] \in {q, None}
    BY <2>4 DEF IsList, Injection, Range, Bound
  <2>. QED
    BY <1>4, <2>1, <2>3, <2>5
<1>11. ASSUME NEW q \in Policy, NEW r \in Rule, InsertRuleAtTop(q, r)
       PROVE  Contents(p)' = Contents(p)
  BY <1>9, <1>11 DEF InsertRuleAtTop
<1>12. ASSUME NEW q \in Policy, NEW r \in Rule, NEW ref \in Rule, NEW before \in BOOLEAN,
              InsertRule(q, r, ref, before)
       PROVE  Contents(p)' = Contents(p)
  <2>1. position[ref] \in Nat \ {0} /\ position[ref] + 1 \in Nat \ {0}
    BY <1>12 DEF InsertRule, PolicyInv, TypeOK
  <2>. QED
    BY <1>9, <1>12, <2>1 DEF InsertRule
<1>13. ASSUME NEW f \in Firewall, DeleteFirewall(f) \/ \E q \in Policy : UsePolicy(f, q)
       PROVE  Contents(p)' = Contents(p)
  BY <1>3, <1>13 DEF DeleteFirewall, UsePolicy, ruleVars
<1>. QED
  BY <1>5, <1>6, <1>7, <1>8, <1>10, <1>11, <1>12, <1>13 DEF Next

\* While a policy stays audited, the rules in it, their order and what they say stay what
\* was audited, whichever requests edit rules, lists and policies; only a request that
\* sets audited itself changes them.
THEOREM AuditHolds == Spec => AuditCoversContents
<1>1. Init => AuditInv
  BY DEF Init, AuditInv
<1>2. PolicyInv /\ AuditInv /\ [Next]_vars => AuditInv'
  BY NextAuditInv
<1>3. PolicyInv /\ AuditInv /\ [Next]_vars => [AuditStep]_vars
  BY NextAuditStep
<1>. QED
  BY <1>1, <1>2, <1>3, AlwaysPolicyInv, PTL DEF Spec, AuditCoversContents, AuditStep


-----------------------------------------------------------------------------
(* Insertions.                                                             *)

\* A set of numbers that is not empty has a least one.
LEMMA LeastNumber ==
  ASSUME NEW T \in SUBSET Nat, T # {}
  PROVE  \E least \in T : \A i \in T : least <= i
<1> DEFINE R == {pair \in Nat \X Nat : pair[1] < pair[2]}
<1>1. IsWellFoundedOn(R, Nat)
  BY NatLessThanWellFounded DEF OpToRel
<1>2. \A i, j \in Nat : <<i, j>> \notin R => j <= i
  OBVIOUS
<1>. HIDE DEF R
<1>3. PICK least \in T : \A i \in T : <<i, least>> \notin R
  BY <1>1, WFMin
<1>. QED
  BY <1>2, <1>3

\* A list in the order of positions that are 1 to n has each rule at its position.
LEMMA InOrder ==
  ASSUME NEW B, IsFiniteSet(B), NEW pos, NEW n \in Nat, n = Cardinality(B),
         {pos[r] : r \in B} = 1..n, NEW list \in Bijection(1..n, B),
         \A i, j \in 1..n : i < j => pos[list[i]] <= pos[list[j]]
  PROVE  /\ \A i \in 1..n : list[i] \in B /\ pos[list[i]] = i
         /\ \A r \in B : pos[r] \in 1..n /\ list[pos[r]] = r
<1> DEFINE f == [r \in B |-> pos[r]]
<1>1. IsFiniteSet(1..n) /\ Cardinality(1..n) = n
  BY FS_Interval
<1>2. f \in Surjection(B, 1..n)
  BY DEF Surjection
<1>3. \A r, s \in B : pos[r] = pos[s] => r = s
  <2>1. f \in Injection(B, 1..n)
    BY <1>1, <1>2, FS_Surjection
  <2>. QED
    BY <2>1 DEF Injection, IsInjective
<1>. HIDE DEF f
<1>4. /\ list \in [1..n -> B] /\ \A i, j \in 1..n : list[i] = list[j] => i = j
      /\ \A r \in B : \E i \in 1..n : list[i] = r
  BY DEF Bijection, Injection, IsInjective, Surjection
<1>5. \A i \in 1..n : pos[list[i]] \in 1..n
  BY <1>4
<1>6. \A i \in 1..n : \E j \in 1..n : pos[list[j]] = i
  <2>. SUFFICES ASSUME NEW i \in 1..n PROVE \E j \in 1..n : pos[list[j]] = i
    OBVIOUS
  <2>1. PICK r \in B : pos[r] = i
    OBVIOUS
  <2>. QED
    BY <1>4, <2>1
<1>7. \A i, j \in 1..n : pos[list[i]] = pos[list[j]] => i = j
  BY <1>3, <1>4
<1> DEFINE T == {i \in 1..n : pos[list[i]] # i}
<1>8. T = {}
  <2>. SUFFICES ASSUME T # {} PROVE FALSE
    OBVIOUS
  <2>1. PICK i \in T : \A j \in T : i <= j
    <3>1. T \in SUBSET Nat
      OBVIOUS
    <3>. HIDE DEF T
    <3>. QED
      BY <3>1, LeastNumber
  <2>2. i \in 1..n /\ pos[list[i]] # i /\ \A j \in 1..n : j < i => pos[list[j]] = j
    BY <2>1
  <2>3. pos[list[i]] \in 1..n /\ pos[list[i]] > i
    BY <1>5, <1>7, <2>2
  <2>4. PICK j \in 1..n : pos[list[j]] = i
    BY <1>6, <2>2
  <2>5. i < j
    BY <2>2, <2>4
  <2>. QED
    BY <2>2, <2>3, <2>4, <2>5
<1>9. \A i \in 1..n : list[i] \in B /\ pos[list[i]] = i
  BY <1>4, <1>8
<1>10. \A r \in B : pos[r] \in 1..n /\ list[pos[r]] = r
  BY <1>3, <1>9
<1>. QED
  BY <1>9, <1>10

\* The list of a policy has every rule at its position.
LEMMA ListedAtPosition ==
  ASSUME PositionsAreDense, NEW p \in Policy
  PROVE  \A r \in Bound(p) : /\ position[r] \in 1..Cardinality(Bound(p))
                             /\ RulesOf(p)[position[r]] = r
<1> DEFINE n == Cardinality(Bound(p))
<1>1. n \in Nat /\ IsFiniteSet(Bound(p)) /\ {position[r] : r \in Bound(p)} = 1..n
  BY BoundIsFinite DEF PositionsAreDense
<1>2. /\ RulesOf(p) \in Bijection(1..n, Bound(p)) /\ DOMAIN RulesOf(p) = 1..n
      /\ \A i, j \in DOMAIN RulesOf(p) :
           i < j => position[RulesOf(p)[i]] <= position[RulesOf(p)[j]]
  BY RulesAreSorted DEF Sorted, Bijection, Injection
<1>. QED
  BY <1>1, <1>2, InOrder

\* What an insertion writes is read back: the policy has the list with the rule inserted.
LEMMA InsertionIsReadBack ==
  ASSUME PolicyInv, NEW p \in Policy, NEW r \in Rule, NEW at \in Nat \ {0}, ProcessInsert(p, r, at)
  PROVE  RulesOf(p)' = Inserted(RulesOf(p), at, r)
<1>1. PICK n, new : n = Cardinality(Bound(p)) /\ new = Inserted(RulesOf(p), at, r)
  OBVIOUS
<1>2. /\ n \in Nat /\ Bound(p) \subseteq Rule /\ IsFiniteSet(Bound(p))
      /\ p # None /\ r \notin Bound(p)
  BY <1>1, BoundIsFinite, PolicyAssumption DEF ProcessInsert, Bound
<1>3. IsList(new, n + 1, Bound(p) \cup {r})
  BY <1>1, <1>2, RulesAreListed, InsertedIsList DEF PolicyInv
<1>4. /\ Cardinality(Bound(p) \cup {r}) = n + 1 /\ IsFiniteSet(Bound(p) \cup {r})
      /\ Range(new) \subseteq Bound(p) \cup {r} /\ Range(new) = {new[i] : i \in 1..(n + 1)}
      /\ Cardinality(Range(new)) = n + 1
  <2>1. Cardinality(Bound(p) \cup {r}) = n + 1 /\ IsFiniteSet(Bound(p) \cup {r})
    BY <1>1, <1>2, FS_AddElement
  <2>2. PICK m : m = n + 1 /\ m \in Nat
    BY <1>2
  <2>. QED
    BY <1>3, <2>1, <2>2, ListLength
<1>5. Range(new) = Bound(p) \cup {r}
  BY <1>4, FS_Subset
<1>6. /\ new \in [1..(n + 1) -> Bound(p) \cup {r}] /\ DOMAIN new = 1..(n + 1)
      /\ \A i, j \in 1..(n + 1) : new[i] = new[j] => i = j
  BY <1>3 DEF IsList, Injection, IsInjective
<1>7. Reorder(p, new, position)
  BY <1>1 DEF ProcessInsert
<1>8. \A i \in 1..(n + 1) : (CHOOSE j \in DOMAIN new : new[j] = new[i]) = i
  BY <1>6
<1>9. \A i \in 1..(n + 1) : new[i] \in Rule /\ boundTo'[new[i]] = p /\ position'[new[i]] = i
  BY <1>2, <1>4, <1>6, <1>7, <1>8 DEF Reorder
<1>10. Bound(p)' = Bound(p) \cup {r}
  <2>1. \A s \in Rule \ Range(new) : boundTo'[s] # p
    BY <1>2, <1>7 DEF Reorder
  <2>. QED
    BY <1>4, <1>5, <1>9, <2>1 DEF Bound
<1>11. PICK B, pos : B = Bound(p)' /\ pos = position'
  OBVIOUS
<1>12. /\ IsFiniteSet(B) /\ Cardinality(B) = n + 1
       /\ B = {new[i] : i \in 1..(n + 1)}
       /\ \A i \in 1..(n + 1) : pos[new[i]] = i
  BY <1>4, <1>5, <1>9, <1>10, <1>11
<1>13. new \in Bijection(1..(n + 1), B)
  BY <1>5, <1>6, <1>10, <1>11, <1>12 DEF Bijection, Injection, IsInjective, Surjection
<1>14. Sorted(p)' = {list \in Bijection(1..(n + 1), B) :
                       \A i, j \in DOMAIN list : i < j => pos[list[i]] <= pos[list[j]]}
  BY <1>11, <1>12 DEF Sorted
<1>15. new \in Sorted(p)'
  BY <1>6, <1>12, <1>13, <1>14
<1>16. RulesOf(p)' \in Sorted(p)'
  BY <1>15 DEF RulesOf
<1>17. PICK list : list = RulesOf(p)'
  OBVIOUS
<1>18. /\ list \in Bijection(1..(n + 1), B) /\ list \in [1..(n + 1) -> B]
       /\ \A i, j \in 1..(n + 1) : i < j => pos[list[i]] <= pos[list[j]]
  BY <1>14, <1>16, <1>17 DEF Bijection, Injection
<1>19. {pos[s] : s \in B} = 1..(n + 1)
  BY <1>12
<1>20. \A s \in B : list[pos[s]] = s
  <2>1. PICK m : m = n + 1 /\ m \in Nat
    BY <1>2
  <2>2. /\ IsFiniteSet(B) /\ m = Cardinality(B) /\ {pos[s] : s \in B} = 1..m
        /\ list \in Bijection(1..m, B)
        /\ \A i, j \in 1..m : i < j => pos[list[i]] <= pos[list[j]]
    BY <1>12, <1>18, <1>19, <2>1
  <2>. QED
    BY <2>1, <2>2, InOrder
<1>21. \A i \in 1..(n + 1) : list[i] = new[i]
  BY <1>12, <1>20
<1>22. new \in [1..(n + 1) -> B]
  BY <1>13 DEF Bijection, Injection
<1>23. list = new
  <2>1. PICK D : D = 1..(n + 1)
    OBVIOUS
  <2>2. list \in [D -> B] /\ new \in [D -> B] /\ \A i \in D : list[i] = new[i]
    BY <1>18, <1>21, <1>22, <2>1
  <2>. QED
    BY <2>2
<1>. QED
  BY <1>1, <1>17, <1>23

\* The other policies keep their lists.
LEMMA SameList ==
  ASSUME NEW q \in Policy, Bound(q)' = Bound(q),
         \A r \in Bound(q) : position'[r] = position[r]
  PROVE  RulesOf(q)' = RulesOf(q)
<1>1. Sorted(q)' = Sorted(q)
  BY DEF Sorted, Bijection, Injection
<1>. QED
  BY <1>1 DEF RulesOf

\* What insert_rule may do to the lists.
LocalInsertion(p, r, ref, before) ==
  /\ boundTo[ref] = p => NextTo(RulesOf(p)', r, ref, before)
  /\ \E i \in 1..(Len(RulesOf(p)) + 1) : RulesOf(p)' = InsertAt(RulesOf(p), i, r)
  /\ \A q \in Policy \ {p} : RulesOf(q)' = RulesOf(q)

\* With dense positions, the position of the reference is its place in the list.
LEMMA InsertRuleIsLocal ==
  ASSUME PolicyInv, NEW p \in Policy, NEW r \in Rule, NEW ref \in Rule, NEW before \in BOOLEAN,
         InsertRule(p, r, ref, before)
  PROVE  LocalInsertion(p, r, ref, before)
<1>1. PICK n, at, list, new : /\ n = Cardinality(Bound(p))
                              /\ at = IF before THEN position[ref] ELSE position[ref] + 1
                              /\ list = RulesOf(p) /\ new = RulesOf(p)'
  OBVIOUS
<1>2. at \in Nat \ {0} /\ ProcessInsert(p, r, at)
  BY <1>1 DEF InsertRule, PolicyInv, TypeOK
<1>3. n \in Nat /\ IsList(list, n, Bound(p))
  BY <1>1, BoundIsFinite, RulesAreListed DEF PolicyInv
<1>4. new = Inserted(list, at, r)
  BY <1>1, <1>2, InsertionIsReadBack
<1>5. PICK k : k = IF at > n THEN n + 1 ELSE at
  OBVIOUS
<1>6. /\ k \in 1..(n + 1) /\ Len(list) = n /\ new = InsertAt(list, k, r) /\ Len(new) = n + 1
      /\ \A i \in 1..(n + 1) : new[i] = IF i < k THEN list[i] ELSE IF i = k THEN r ELSE list[i - 1]
  <2>1. LET i == IF at > n THEN n + 1 ELSE at
            x == Inserted(list, at, r)
        IN  /\ i \in 1..(n + 1) /\ Len(list) = n /\ x = InsertAt(list, i, r)
            /\ Len(x) = n + 1
            /\ \A j \in 1..(n + 1) :
                 x[j] = IF j < i THEN list[j] ELSE IF j = i THEN r ELSE list[j - 1]
    <3>1. PICK S : S = Bound(p)
      OBVIOUS
    <3>2. n \in Nat /\ at \in Nat \ {0} /\ IsList(list, n, S)
      BY <1>2, <1>3, <3>1
    <3>. QED
      BY <3>2, InsertedAt
  <2>. QED
    BY <1>4, <1>5, <2>1
<1>7. boundTo[ref] = p => NextTo(new, r, ref, before)
  <2>. SUFFICES ASSUME boundTo[ref] = p PROVE NextTo(new, r, ref, before)
    OBVIOUS
  <2>1. PICK j : j = position[ref]
    OBVIOUS
  <2>2. j \in 1..n /\ list[j] = ref
    BY <1>1, <2>1, ListedAtPosition DEF PolicyInv, Bound
  <2>3. CASE before
    <3>1. k = j
      BY <1>1, <1>3, <1>5, <2>1, <2>2, <2>3
    <3>2. j \in 1..(Len(new) - 1) /\ j \in 1..(n + 1) /\ j + 1 \in 1..(n + 1) /\ j + 1 > k
      BY <1>3, <1>6, <2>2, <3>1
    <3>3. new[j] = r /\ new[j + 1] = list[j]
      BY <1>3, <1>6, <2>2, <3>1, <3>2
    <3>. QED
      BY <2>2, <2>3, <3>2, <3>3 DEF NextTo
  <2>4. CASE ~before
    <3>1. at = j + 1 /\ at <= n + 1
      BY <1>1, <1>3, <2>1, <2>2, <2>4
    <3>2. k = j + 1
      BY <1>3, <1>5, <2>2, <3>1
    <3>3. j \in 1..(Len(new) - 1) /\ j \in 1..(n + 1) /\ j + 1 \in 1..(n + 1) /\ j < k
      BY <1>3, <1>6, <2>2, <3>2
    <3>4. new[j] = list[j] /\ new[j + 1] = r
      BY <1>3, <1>6, <2>2, <3>2, <3>3
    <3>. QED
      BY <2>2, <2>4, <3>3, <3>4 DEF NextTo
  <2>. QED
    BY <2>3, <2>4
<1>8. ASSUME NEW q \in Policy \ {p} PROVE RulesOf(q)' = RulesOf(q)
  <2>1. boundTo[r] = None /\ Reorder(p, new, position) /\ r \notin Bound(p)
    BY <1>1, <1>2, <1>4, PolicyAssumption DEF ProcessInsert, Bound
  <2>2. IsList(new, n + 1, Bound(p) \cup {r})
    BY <1>2, <1>3, <1>4, <2>1, InsertedIsList
  <2>3. \A s \in Range(new) : boundTo[s] \in {p, None}
    BY <2>1, <2>2 DEF IsList, Injection, Range, Bound
  <2>4. Bound(q)' = Bound(q) /\ \A s \in Bound(q) : position'[s] = position[s]
    BY <2>1, <2>3, OthersSame
  <2>. QED
    BY <2>4, SameList
<1>9. NextTo(new, r, ref, before) = NextTo(RulesOf(p)', r, ref, before)
  BY <1>1
<1>. QED
  BY <1>1, <1>6, <1>7, <1>8, <1>9 DEF LocalInsertion

\* insert_rule puts a rule right before or after its reference, when that is in the
\* policy, keeps the order of the others, and leaves the other policies alone: what it
\* reads as a position is a place in the list, however long the history of edits.
THEOREM InsertionsAreLocal == Spec => InsertionIsLocal
<1> DEFINE LocalStep == \A p \in Policy, r, ref \in Rule, before \in BOOLEAN :
                          InsertRule(p, r, ref, before) => LocalInsertion(p, r, ref, before)
<1>1. PolicyInv => LocalStep
  BY InsertRuleIsLocal
<1>. QED
  BY <1>1, AlwaysPolicyInv, PTL DEF Spec, InsertionIsLocal, LocalInsertion

=============================================================================
