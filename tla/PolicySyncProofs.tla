--------------------------- MODULE PolicySyncProofs ---------------------------
(***************************************************************************)
(* Theorems about PolicySync, for every set of handlers, resources and     *)
(* subjects, whatever the owner has written, any faults, any restarts.     *)
(***************************************************************************)
EXTENDS PolicySync, TLAPS

USE ScopesAssumption, SubjectsAssumption, BoundsAssumption

\* The policies of the owner that a rule for r may be patched into.
OwnersFor(type, r) ==
  {x.policy : x \in {y \in OwnersPermissions :
     y.policy.type = type /\ y.target = r /\ ~y.policy.blank}}

\* The policy every synchronization puts w into: the one reason why overlapping
\* ones agree.
Home(w) ==
  IF OwnersFor(TypeOf(w), w.target) = {}
  THEN GeneratedPolicy(TypeOf(w), w.target)
  ELSE CHOOSE policy \in OwnersFor(TypeOf(w), w.target) : TRUE

Grants(x, w) ==
  /\ x.policy.type = TypeOf(w) /\ x.target = w.target /\ x.action = w.action
  /\ x.assigner = Owner /\ x.assignee = w.assignee

GrantedByOwner(w) == \E x \in OwnersPermissions : Grants(x, w)

\* What is in the store is the owner's, or it is where it belongs and the owner
\* has not granted it.
InPlace ==
  /\ OwnersPermissions \subseteq permissions
  /\ \A x \in permissions \ OwnersPermissions :
       \E w \in Rules : x = Permission(Home(w), w) /\ ~GrantedByOwner(w)

\* What a synchronization knows is true, and includes all that is the owner's.
KnowledgeIsTrue ==
  \A p \in Procs :
    /\ policies[p] \subseteq permissions
    /\ At(p, "loop") => OwnersPermissions \subseteq policies[p]

\* A synchronization looks for public rules to read and for others to the rest.
WantsAreWanted ==
  \A p \in Procs :
    /\ \A w \in wants[p] : (w.assignee = Nobody) <=> (w.action = Read)
    /\ pc[p] \in {"idle", "discover", "fetch"} => wants[p] = {}
    /\ At(p, "fetch") => todo[p] = seen[p]

Passed(p, r) == pc[p] \in {"loop", "done"} /\ r \in seen[p] \ todo[p]

\* An asset it has passed has its rules, or they are among those it looks for.
PassedAssetsAreServed ==
  \A p \in Procs : \A r \in Resources : Passed(p, r) =>
    \A a \in ScopesOf[r] :
      \/ \E w \in wants[p] : w.target = r /\ w.action = a
      \/ \E s \in Subjects : Allowed(r, a, s)

RegisteredAreServed ==
  \A p \in Procs : \A r \in Resources : resource[p] = r =>
    /\ aggregators[AggregatorOf[r]] # Nobody
    /\ (Passed(p, r) /\ aggregators[AggregatorOf[r]] \in Subjects) =>
         \A a \in ScopesOf[r] :
           \/ \E w \in wants[p] :
                /\ w.target = r /\ w.action = a
                /\ a # Read => w.assignee = aggregators[AggregatorOf[r]]
           \/ Allowed(r, a, aggregators[AggregatorOf[r]])

IInv ==
  /\ TypeOK /\ InPlace /\ KnowledgeIsTrue /\ WantsAreWanted
  /\ PassedAssetsAreServed /\ RegisteredAreServed
-----------------------------------------------------------------------------
(***************************************************************************)
(* The generated names.                                                    *)
(***************************************************************************)
LEMMA TypesDiffer == Public # Private
  BY DEF Public, Private

LEMMA OwnersForHome ==
  ASSUME NEW x \in OwnersPermissions, NEW w \in Rules,
         x.policy.type = TypeOf(w), x.target = w.target, ~x.policy.blank
  PROVE x.policy = Home(w)
<1>1. x.policy \in OwnersFor(TypeOf(w), w.target)
  BY DEF OwnersFor
<1>2. Home(w) \in OwnersFor(TypeOf(w), w.target)
  BY <1>1 DEF Home
<1>3. PICK y \in OwnersPermissions :
        y.policy = Home(w) /\ y.policy.type = TypeOf(w) /\ y.target = w.target /\ ~y.policy.blank
  BY <1>2 DEF OwnersFor
<1> QED
  BY <1>3, OwnersAssumption

\* The home of a rule is about the target of the rule, and has its type.
LEMMA HomeIsOneOf ==
  ASSUME NEW w \in Rules
  PROVE \/ Home(w) = GeneratedPolicy(TypeOf(w), w.target)
        \/ \E x \in OwnersPermissions :
             x.policy = Home(w) /\ x.policy.type = TypeOf(w) /\ x.target = w.target
<1>1. CASE OwnersFor(TypeOf(w), w.target) = {}
  BY <1>1 DEF Home
<1>2. CASE OwnersFor(TypeOf(w), w.target) # {}
  <2>1. Home(w) \in OwnersFor(TypeOf(w), w.target)
    BY <1>2 DEF Home
  <2> QED
    BY <2>1 DEF OwnersFor
<1> QED
  BY <1>1, <1>2

LEMMA HomeType ==
  ASSUME NEW w \in Rules
  PROVE Home(w) \in Policies /\ Home(w).type = TypeOf(w)
<1>1. TypeOf(w) \in Types /\ w.target \in Resources
  BY DEF TypeOf, Types, Rules
<1>2. GeneratedPolicy(TypeOf(w), w.target) \in Policies
  BY <1>1 DEF Policies
<1>3. GeneratedPolicy(TypeOf(w), w.target).type = TypeOf(w)
  BY DEF GeneratedPolicy
<1>4. \A x \in OwnersPermissions : x.policy \in Policies
  BY DEF Policies
<1>5. CASE Home(w) = GeneratedPolicy(TypeOf(w), w.target)
  BY <1>2, <1>3, <1>5
<1>6. CASE \E x \in OwnersPermissions : x.policy = Home(w) /\ x.policy.type = TypeOf(w)
  BY <1>4, <1>6
<1> QED
  BY <1>5, <1>6, HomeIsOneOf

\* The owner has a policy that is about both resources.
OwnersAbout(policy, r, t) ==
  \E x, y \in OwnersPermissions :
    x.policy = policy /\ y.policy = policy /\ x.target = r /\ y.target = t

\* Rules of two resources have different homes, unless a policy of the owner's is
\* about both.
LEMMA HomesApart ==
  ASSUME NEW w \in Rules, NEW v \in Rules, Home(w) = Home(v)
  PROVE w.target = v.target \/ OwnersAbout(Home(w), w.target, v.target)
<1>1. TypeOf(w) = TypeOf(v)
  BY HomeType
<1>2. w.target \in Resources /\ v.target \in Resources
  BY DEF Rules
<1>3. CASE Home(w) = GeneratedPolicy(TypeOf(w), w.target)
           /\ Home(v) = GeneratedPolicy(TypeOf(v), v.target)
  <2>1. \A t, r : GeneratedPolicy(t, r).about = r
    BY DEF GeneratedPolicy
  <2> QED
    BY <1>1, <1>3, <2>1
<1>4. CASE \E x \in OwnersPermissions : x.policy = Home(w)
  <2>1. PICK x \in OwnersPermissions : x.policy = Home(w)
    BY <1>4
  <2>2. x.policy.about \notin Resources
    BY OwnersAssumption
  <2>3. Home(v) # GeneratedPolicy(TypeOf(v), v.target) /\ Home(w) # GeneratedPolicy(TypeOf(w), w.target)
    BY <2>1, <2>2, <1>2 DEF GeneratedPolicy
  <2>4. PICK y \in OwnersPermissions : y.policy = Home(v) /\ y.target = v.target
    BY <2>3, HomeIsOneOf
  <2>5. PICK z \in OwnersPermissions : z.policy = Home(w) /\ z.target = w.target
    BY <2>3, HomeIsOneOf
  <2> QED
    BY <2>4, <2>5 DEF OwnersAbout
<1> QED
  BY <1>3, <1>4, HomeIsOneOf

\* A generated rule node tells its policy, its action and whether it is public.
LEMMA GeneratedRulesApart ==
  ASSUME NEW w \in Rules, NEW v \in Rules, NEW p1, NEW p2,
         GeneratedRule(p1, w) = GeneratedRule(p2, v)
  PROVE p1 = p2 /\ w.action = v.action /\ TypeOf(w) = TypeOf(v)
<1>1. p1 = p2
  BY DEF GeneratedRule
<1>2. <<IF w.assignee = Nobody THEN "public" ELSE "owner", w.action>>
      = <<IF v.assignee = Nobody THEN "public" ELSE "owner", v.action>>
  BY DEF GeneratedRule
<1>3. w.action = v.action
  BY <1>2
<1>4. (IF w.assignee = Nobody THEN "public" ELSE "owner")
      = (IF v.assignee = Nobody THEN "public" ELSE "owner")
  BY <1>2
<1>5. (w.assignee = Nobody) <=> (v.assignee = Nobody)
  BY <1>4
<1> QED
  BY <1>1, <1>3, <1>5 DEF TypeOf

LEMMA OwnersRulesApart ==
  ASSUME NEW x \in OwnersPermissions, NEW p, NEW w
  PROVE x.rule # GeneratedRule(p, w)
<1>1. x.rule.by = "owner"
  BY OwnersAssumption
<1>2. GeneratedRule(p, w).by = "sync"
  BY DEF GeneratedRule
<1> QED
  BY <1>1, <1>2

LEMMA PermissionFields ==
  ASSUME NEW p, NEW w
  PROVE /\ Permission(p, w).policy = p
        /\ Permission(p, w).rule = GeneratedRule(p, w)
        /\ Permission(p, w).target = w.target
        /\ Permission(p, w).action = w.action
        /\ Permission(p, w).assigner = Owner
        /\ Permission(p, w).assignee = w.assignee
  BY DEF Permission

\* A node is the owner's or a generated one, and in one policy.
LEMMA NodesApart ==
  ASSUME InPlace, NEW x \in permissions, NEW y \in permissions, x.rule = y.rule
  PROVE /\ x.policy = y.policy
        /\ x \in OwnersPermissions <=> y \in OwnersPermissions
        /\ x \in OwnersPermissions => x.assignee = y.assignee
<1>1. CASE x \in OwnersPermissions /\ y \in OwnersPermissions
  BY <1>1, OwnersAssumption
<1>2. CASE x \in OwnersPermissions /\ y \notin OwnersPermissions
  BY <1>2, OwnersRulesApart, PermissionFields DEF InPlace
<1>3. CASE x \notin OwnersPermissions /\ y \in OwnersPermissions
  BY <1>3, OwnersRulesApart, PermissionFields DEF InPlace
<1>4. CASE x \notin OwnersPermissions /\ y \notin OwnersPermissions
  BY <1>4, GeneratedRulesApart, PermissionFields DEF InPlace
<1> QED
  BY <1>1, <1>2, <1>3, <1>4

\* A generated node has one action, is public for all of its targets or for none,
\* and has two targets only in a policy of the owner's that is about both.
LEMMA GeneratedNodes ==
  ASSUME InPlace, NEW x \in permissions, NEW y \in permissions \ OwnersPermissions,
         x.rule = y.rule
  PROVE /\ x \notin OwnersPermissions
        /\ x.policy = y.policy /\ x.action = y.action
        /\ x.assignee = Nobody <=> y.assignee = Nobody
        /\ x.target = y.target \/ OwnersAbout(x.policy, x.target, y.target)
<1>1. x \notin OwnersPermissions
  BY NodesApart
<1>2. PICK w \in Rules : x = Permission(Home(w), w)
  BY <1>1 DEF InPlace
<1>3. PICK v \in Rules : y = Permission(Home(v), v)
  BY DEF InPlace
<1>4. /\ x.policy = Home(w) /\ x.rule = GeneratedRule(Home(w), w)
      /\ x.target = w.target /\ x.action = w.action /\ x.assignee = w.assignee
  BY <1>2, PermissionFields
<1>5. /\ y.policy = Home(v) /\ y.rule = GeneratedRule(Home(v), v)
      /\ y.target = v.target /\ y.action = v.action /\ y.assignee = v.assignee
  BY <1>3, PermissionFields
<1>6. Home(w) = Home(v) /\ w.action = v.action /\ TypeOf(w) = TypeOf(v)
  <2>1. GeneratedRule(Home(w), w) = GeneratedRule(Home(v), v)
    BY <1>4, <1>5
  <2> QED
    BY <2>1, GeneratedRulesApart
<1>7. w.assignee = Nobody <=> v.assignee = Nobody
  BY <1>6, TypesDiffer DEF TypeOf
<1> QED
  BY <1>1, <1>4, <1>5, <1>6, <1>7, HomesApart
-----------------------------------------------------------------------------
(***************************************************************************)
(* What a synchronization finds out.                                       *)
(***************************************************************************)
\* Somebody, or the assignee of w, is allowed what w asks for.
Has(w) ==
  \E x \in permissions :
    /\ x.policy.type = TypeOf(w) /\ x.assignee = w.assignee
    /\ \E y \in Node(permissions, x.rule) : y.target = w.target
    /\ \E y \in Node(permissions, x.rule) : y.action = w.action
    /\ \E y \in Node(permissions, x.rule) : y.assigner = Owner

\* What is found is there.
LEMMA FoundIsThere ==
  ASSUME IInv, NEW p \in Procs, NEW w \in wants[p], MayFind(policies[p], w)
  PROVE Has(w)
<1>1. PICK rule \in Candidates(policies[p], w) :
        IF w.assignee = Nobody
        THEN Assignees(policies[p], rule) = {}
        ELSE w.assignee \in Assignees(policies[p], rule)
  BY DEF MayFind
<1>2. policies[p] \subseteq permissions
  BY DEF IInv, KnowledgeIsTrue
<1>3. PICK x \in policies[p] : x.rule = rule /\ x.policy.type = TypeOf(w)
  BY <1>1 DEF Candidates
<1>4. /\ \E y \in Node(permissions, rule) : y.target = w.target
      /\ \E y \in Node(permissions, rule) : y.action = w.action
      /\ \E y \in Node(permissions, rule) : y.assigner = Owner
  BY <1>1, <1>2 DEF Candidates, Node
<1>5. PICK y \in policies[p] : y.rule = rule /\ y.assignee = w.assignee
  <2>1. CASE w.assignee = Nobody
    BY <1>1, <1>3, <2>1 DEF Assignees, Node
  <2>2. CASE w.assignee # Nobody
    BY <1>1, <2>2 DEF Assignees, Node
  <2> QED BY <2>1, <2>2
<1>6. y.policy.type = TypeOf(w)
  BY <1>2, <1>3, <1>5, NodesApart DEF IInv
<1> QED
  BY <1>2, <1>4, <1>5, <1>6 DEF Has

\* What is not found the owner has not granted.
LEMMA MissingIsNotTheOwners ==
  ASSUME IInv, NEW p \in Procs, NEW w \in wants[p], At(p, "loop"), MayMiss(policies[p], w)
  PROVE ~GrantedByOwner(w)
<1> SUFFICES ASSUME NEW x \in OwnersPermissions, Grants(x, w) PROVE FALSE
  BY DEF GrantedByOwner
<1>1. OwnersPermissions \subseteq policies[p] /\ policies[p] \subseteq permissions
  BY DEF IInv, KnowledgeIsTrue
<1>2. x.rule \in Candidates(policies[p], w)
  BY <1>1 DEF Candidates, Node, Grants
<1>3. \A y \in policies[p] : y.rule = x.rule => y.assignee = x.assignee
  BY <1>1, NodesApart DEF IInv
<1>4. Assignees(policies[p], x.rule) = {w.assignee} \ {Nobody}
  BY <1>1, <1>3 DEF Assignees, Node, Grants
<1>5. CASE w.assignee = Nobody
  <2>1. Assignees(policies[p], x.rule) # {}
    BY <1>2, <1>5 DEF MayMiss
  <2> QED
    BY <1>4, <1>5, <2>1
<1>6. CASE w.assignee # Nobody
  <2>1. Assignees(policies[p], x.rule) # {w.assignee}
    BY <1>2, <1>6 DEF MayMiss
  <2> QED
    BY <1>4, <1>6, <2>1
<1> QED
  BY <1>5, <1>6

LEMMA WantsAreRules ==
  ASSUME TypeOK, NEW p \in Procs
  PROVE wants[p] \subseteq Rules
  BY DEF TypeOK

\* A policy is only made where there is none to patch.
LEMMA CreatedAtHome ==
  ASSUME IInv, NEW p \in Procs, NEW w \in wants[p], At(p, "loop"),
         PoliciesFor(policies[p], w) = {}
  PROVE GeneratedPolicy(TypeOf(w), w.target) = Home(w)
<1>1. OwnersPermissions \subseteq policies[p]
  BY DEF IInv, KnowledgeIsTrue
<1>2. OwnersFor(TypeOf(w), w.target) = {}
  <2> SUFFICES ASSUME NEW y \in OwnersPermissions,
                      y.policy.type = TypeOf(w), y.target = w.target, ~y.policy.blank
               PROVE FALSE
    BY DEF OwnersFor
  <2>1. y.policy \in PoliciesFor(policies[p], w)
    BY <1>1 DEF PoliciesFor, Node
  <2> QED BY <2>1
<1> QED
  BY <1>2 DEF Home

\* The policy that is patched is the one every synchronization patches.
LEMMA PatchedAtHome ==
  ASSUME IInv, NEW p \in Procs, NEW w \in wants[p], NEW policy \in PoliciesFor(policies[p], w)
  PROVE policy = Home(w)
<1>1. policies[p] \subseteq permissions /\ w \in Rules
  BY WantsAreRules DEF IInv, KnowledgeIsTrue
<1>2. PICK x \in policies[p], y \in policies[p] :
        /\ x.policy = policy /\ x.policy.type = TypeOf(w) /\ ~x.policy.blank
        /\ y.rule = x.rule /\ y.target = w.target
  BY DEF PoliciesFor, Node
<1>3. y \in permissions /\ y.policy = policy
  BY <1>1, <1>2, NodesApart DEF IInv
<1>4. CASE y \in OwnersPermissions
  BY <1>1, <1>2, <1>3, <1>4, OwnersForHome
<1>5. CASE y \notin OwnersPermissions
  <2>1. PICK v \in Rules : y = Permission(Home(v), v)
    BY <1>3, <1>5 DEF IInv, InPlace
  <2>2. Home(v) = policy /\ v.target = w.target
    BY <1>2, <1>3, <2>1, PermissionFields
  <2>3. TypeOf(v) = TypeOf(w)
    BY <1>2, <2>2, HomeType
  <2> QED
    BY <2>2, <2>3 DEF Home
<1> QED
  BY <1>4, <1>5
-----------------------------------------------------------------------------
(***************************************************************************)
(* Invariance.                                                             *)
(***************************************************************************)
LEMMA InitIInv == Init => IInv
<1> SUFFICES ASSUME Init PROVE IInv
  OBVIOUS
<1>1. TypeOK
  <2>1. pc \in [Procs -> Labels]
    BY DEF Init, Procs, Labels
  <2>2. permissions \subseteq Permissions
    BY DEF Init, Permissions
  <2> QED
    BY <2>1, <2>2 DEF Init, TypeOK, At
<1>2. InPlace
  BY DEF Init, InPlace
<1>3. KnowledgeIsTrue
  BY DEF Init, KnowledgeIsTrue, At
<1>4. WantsAreWanted
  BY DEF Init, WantsAreWanted, At
<1>5. PassedAssetsAreServed
  BY DEF Init, PassedAssetsAreServed, Passed
<1>6. RegisteredAreServed
  BY DEF Init, RegisteredAreServed
<1> QED
  BY <1>1, <1>2, <1>3, <1>4, <1>5, <1>6 DEF IInv

\* Steps that write nothing keep the store as it should be.
LEMMA StoreKept ==
  ASSUME IInv, permissions' = permissions
  PROVE /\ InPlace'
        /\ \A r, a, s : Allowed(r, a, s)' <=> Allowed(r, a, s)
  BY DEF IInv, InPlace, Allowed, Node

LEMMA DiscoverStep ==
  ASSUME IInv, NEW p \in Procs, Discover(p)
  PROVE IInv'
<1> USE DEF Discover, Done, Goto, At
<1>1. TypeOK'
  <2>1. assets \subseteq Resources /\ wants[p] = {}
    BY DEF IInv, TypeOK, WantsAreWanted
  <2>2. CASE assets = {}
    BY <2>1, <2>2 DEF IInv, TypeOK, asVars, Labels
  <2>3. CASE assets # {}
    BY <2>1, <2>3 DEF IInv, TypeOK, asVars, Labels
  <2> QED BY <2>2, <2>3
<1>2. InPlace'
  BY StoreKept DEF asVars
<1>3. KnowledgeIsTrue'
  BY DEF IInv, TypeOK, KnowledgeIsTrue, asVars
<1>4. WantsAreWanted'
  BY DEF IInv, TypeOK, WantsAreWanted
<1>5. PassedAssetsAreServed'
  BY StoreKept DEF IInv, TypeOK, PassedAssetsAreServed, Passed, asVars
<1>6. RegisteredAreServed'
  BY StoreKept DEF IInv, TypeOK, RegisteredAreServed, Passed, asVars
<1> QED
  BY <1>1, <1>2, <1>3, <1>4, <1>5, <1>6 DEF IInv

LEMMA FetchStep ==
  ASSUME IInv, NEW p \in Procs, Fetch(p)
  PROVE IInv'
<1> USE DEF Fetch, Goto, At, processVars, asVars
<1>1. TypeOK'
  BY DEF IInv, TypeOK, Labels
<1>2. InPlace'
  BY StoreKept
<1>3. KnowledgeIsTrue'
  BY DEF IInv, TypeOK, KnowledgeIsTrue, InPlace
<1>4. WantsAreWanted'
  BY DEF IInv, TypeOK, WantsAreWanted
<1>5. PassedAssetsAreServed'
  BY StoreKept DEF IInv, TypeOK, WantsAreWanted, PassedAssetsAreServed, Passed
<1>6. RegisteredAreServed'
  BY StoreKept DEF IInv, TypeOK, WantsAreWanted, RegisteredAreServed, Passed
<1> QED
  BY <1>1, <1>2, <1>3, <1>4, <1>5, <1>6 DEF IInv

\* A synchronization that fails leaves a store as it should be.
LEMMA FailStep ==
  ASSUME IInv, NEW p \in Procs, Fail(p), UNCHANGED assets,
         policySyncs' = policySyncs, permissions \subseteq permissions',
         permissions' \subseteq Permissions, InPlace'
  PROVE IInv'
<1> USE DEF Fail, Goto, At
<1>1. TypeOK'
  BY DEF IInv, TypeOK, Labels
<1>2. KnowledgeIsTrue'
  BY DEF IInv, TypeOK, KnowledgeIsTrue
<1>3. WantsAreWanted'
  BY DEF IInv, TypeOK, WantsAreWanted
<1>4. \A r, a, s : Allowed(r, a, s) => Allowed(r, a, s)'
  BY DEF Allowed, Node
<1>5. PassedAssetsAreServed'
  BY <1>4 DEF IInv, TypeOK, PassedAssetsAreServed, Passed
<1>6. RegisteredAreServed'
  BY <1>4 DEF IInv, TypeOK, RegisteredAreServed, Passed
<1> QED
  BY <1>1, <1>2, <1>3, <1>5, <1>6 DEF IInv

LEMMA WantedFacts ==
  ASSUME NEW r \in Resources, NEW s \in Subjects
  PROVE /\ Wanted(r, s) \subseteq Rules
        /\ \A w \in Wanted(r, s) : (w.assignee = Nobody) <=> (w.action = Read)
        /\ \A a \in ScopesOf[r] : \E w \in Wanted(r, s) :
             /\ w.target = r /\ w.action = a
             /\ w.assignee = IF a = Read THEN Nobody ELSE s
<1> DEFINE W(a) == [target |-> r, action |-> a, assignee |-> IF a = Read THEN Nobody ELSE s]
<1>1. \A a \in ScopesOf[r] : W(a) \in Wanted(r, s)
  BY DEF Wanted
<1>2. \A w \in Wanted(r, s) : \E a \in ScopesOf[r] : w = W(a)
  BY DEF Wanted
<1>3. \A a \in ScopesOf[r] : a \in Scopes
  BY DEF Scopes
<1>4. \A a : /\ W(a).target = r /\ W(a).action = a
             /\ W(a).assignee = IF a = Read THEN Nobody ELSE s
  OBVIOUS
<1>5. \A a \in ScopesOf[r] : W(a) \in Rules
  BY <1>3 DEF Rules
<1> HIDE DEF W
<1> QED
  BY <1>1, <1>2, <1>4, <1>5

LEMMA KnownSubjectType ==
  ASSUME NEW r PROVE KnownSubject(r) \in Subjects
  BY DEF KnownSubject

LEMMA NextAssetStep ==
  ASSUME IInv, NEW p \in Procs, NextAsset(p)
  PROVE IInv'
<1> USE DEF NextAsset, processVars, asVars
<1>1. PICK r \in todo[p] :
        /\ todo' = [todo EXCEPT ![p] = @ \ {r}]
        /\ wants' = [wants EXCEPT ![p] = Wanted(r, KnownSubject(r))]
  OBVIOUS
<1>2. r \in Resources /\ todo \in [Procs -> SUBSET Resources] /\ wants \in [Procs -> SUBSET Rules]
  BY DEF IInv, TypeOK
<1>3. /\ Wanted(r, KnownSubject(r)) \subseteq Rules
      /\ \A w \in Wanted(r, KnownSubject(r)) : (w.assignee = Nobody) <=> (w.action = Read)
      /\ \A a \in ScopesOf[r] : \E w \in Wanted(r, KnownSubject(r)) :
           /\ w.target = r /\ w.action = a
           /\ w.assignee = IF a = Read THEN Nobody ELSE KnownSubject(r)
  BY <1>2, WantedFacts, KnownSubjectType
<1>4. /\ todo'[p] = todo[p] \ {r} /\ wants'[p] = Wanted(r, KnownSubject(r))
      /\ \A q \in Procs \ {p} : todo'[q] = todo[q] /\ wants'[q] = wants[q]
  BY <1>1, <1>2
<1>5. TypeOK'
  <2>1. todo' \in [Procs -> SUBSET Resources] /\ wants' \in [Procs -> SUBSET Rules]
    BY <1>1, <1>2, <1>3
  <2>2. \A q \in Procs : /\ todo'[q] \subseteq seen'[q]
                         /\ pc'[q] = "done" => todo'[q] = {} /\ wants'[q] = {}
    BY <1>4 DEF IInv, TypeOK, At
  <2> QED
    BY <2>1, <2>2 DEF IInv, TypeOK, At
<1>6. InPlace' /\ \A b, a, s : Allowed(b, a, s)' <=> Allowed(b, a, s)
  BY StoreKept
<1>7. KnowledgeIsTrue'
  BY DEF IInv, KnowledgeIsTrue, At
<1>8. WantsAreWanted'
  BY <1>3, <1>4 DEF IInv, WantsAreWanted, At
<1>9. PassedAssetsAreServed'
  <2> SUFFICES ASSUME NEW q \in Procs, NEW b \in Resources, Passed(q, b)', NEW a \in ScopesOf[b]
               PROVE \/ \E w \in wants'[q] : w.target = b /\ w.action = a
                     \/ \E s \in Subjects : Allowed(b, a, s)'
    BY DEF PassedAssetsAreServed
  <2>1. CASE q = p /\ b = r
    BY <2>1, <1>3, <1>4
  <2>2. CASE q = p /\ b # r
    <3>1. Passed(p, b)
      BY <2>2, <1>4 DEF Passed
    <3> QED
      BY <3>1, <2>2, <1>6 DEF IInv, PassedAssetsAreServed
  <2>3. CASE q # p
    <3>1. Passed(q, b)
      BY <2>3, <1>4 DEF Passed
    <3> QED
      BY <3>1, <2>3, <1>4, <1>6 DEF IInv, PassedAssetsAreServed
  <2> QED BY <2>1, <2>2, <2>3
<1>10. RegisteredAreServed'
  <2> SUFFICES ASSUME NEW q \in Procs, NEW b \in Resources, resource'[q] = b
               PROVE /\ aggregators'[AggregatorOf[b]] # Nobody
                     /\ (Passed(q, b)' /\ aggregators'[AggregatorOf[b]] \in Subjects) =>
                          \A a \in ScopesOf[b] :
                            \/ \E w \in wants'[q] :
                                 /\ w.target = b /\ w.action = a
                                 /\ a # Read => w.assignee = aggregators'[AggregatorOf[b]]
                            \/ Allowed(b, a, aggregators[AggregatorOf[b]])'
    BY DEF RegisteredAreServed
  <2>1. aggregators'[AggregatorOf[b]] # Nobody
    BY DEF IInv, RegisteredAreServed
  <2> SUFFICES ASSUME Passed(q, b)', aggregators[AggregatorOf[b]] \in Subjects, NEW a \in ScopesOf[b]
               PROVE \/ \E w \in wants'[q] :
                          /\ w.target = b /\ w.action = a
                          /\ a # Read => w.assignee = aggregators[AggregatorOf[b]]
                     \/ Allowed(b, a, aggregators[AggregatorOf[b]])
    BY <2>1, <1>6
  <2>2. CASE q = p /\ b = r
    <3>1. KnownSubject(r) = aggregators[AggregatorOf[b]]
      BY <2>2 DEF KnownSubject
    <3> QED
      BY <2>2, <3>1, <1>3, <1>4
  <2>3. CASE q = p /\ b # r
    <3>1. Passed(p, b)
      BY <2>3, <1>4 DEF Passed
    <3> QED
      BY <3>1, <2>3 DEF IInv, RegisteredAreServed
  <2>4. CASE q # p
    <3>1. Passed(q, b)
      BY <2>4, <1>4 DEF Passed
    <3> QED
      BY <3>1, <2>4, <1>4 DEF IInv, RegisteredAreServed
  <2> QED BY <2>2, <2>3, <2>4
<1> QED
  BY <1>5, <1>6, <1>7, <1>8, <1>9, <1>10 DEF IInv

\* w is looked after: it need not be looked for any more.
LEMMA HandledStep ==
  ASSUME IInv, NEW p \in Procs, NEW w \in wants[p], At(p, "loop"), Leave(p, w), Has(w)',
         UNCHANGED <<phase, life, aggregators, assets, pc, resource, seen, todo>>,
         policySyncs' \subseteq Permissions \X {"created", "patched"},
         permissions \subseteq permissions', permissions' \subseteq Permissions, InPlace',
         policies' \in [Procs -> SUBSET Permissions],
         \A q \in Procs : policies[q] \subseteq policies'[q] /\ policies'[q] \subseteq permissions'
  PROVE IInv'
<1>1. /\ wants \in [Procs -> SUBSET Rules] /\ w \in Rules
      /\ wants' = [wants EXCEPT ![p] = @ \ {w}]
  BY DEF IInv, TypeOK, Leave
<1>2. wants'[p] = wants[p] \ {w} /\ \A q \in Procs \ {p} : wants'[q] = wants[q]
  BY <1>1
<1>3. TypeOK'
  <2>1. wants' \in [Procs -> SUBSET Rules]
    BY <1>1
  <2>2. \A q \in Procs : /\ todo'[q] \subseteq seen'[q]
                         /\ pc'[q] = "done" => todo'[q] = {} /\ wants'[q] = {}
    BY <1>2 DEF IInv, TypeOK, At
  <2> QED
    BY <2>1, <2>2 DEF IInv, TypeOK, At
<1>4. KnowledgeIsTrue'
  BY DEF IInv, KnowledgeIsTrue, At
<1>5. WantsAreWanted'
  BY <1>2 DEF IInv, WantsAreWanted, At
<1>6. \A b, a, s : Allowed(b, a, s) => Allowed(b, a, s)'
  BY DEF Allowed, Node
<1>7. \A q \in Procs, b \in Resources : Passed(q, b)' => Passed(q, b)
  BY DEF Passed
<1>8. /\ w.assignee = Nobody <=> w.action = Read
      /\ w.assignee \in Subjects \cup {Nobody}
  BY <1>1 DEF IInv, WantsAreWanted, Rules
<1>9. \A s \in Subjects :
        (w.action # Read => w.assignee = s) => Allowed(w.target, w.action, s)'
  BY <1>8, TypesDiffer DEF Has, Allowed, TypeOf
<1>10. \E s \in Subjects : Allowed(w.target, w.action, s)'
  <2>1. CASE w.action = Read
    BY <2>1, <1>9
  <2>2. CASE w.action # Read
    BY <2>2, <1>8, <1>9
  <2> QED BY <2>1, <2>2
<1>11. PassedAssetsAreServed'
  <2> SUFFICES ASSUME NEW q \in Procs, NEW b \in Resources, Passed(q, b)', NEW a \in ScopesOf[b]
               PROVE \/ \E v \in wants'[q] : v.target = b /\ v.action = a
                     \/ \E s \in Subjects : Allowed(b, a, s)'
    BY DEF PassedAssetsAreServed
  <2>1. \/ \E v \in wants[q] : v.target = b /\ v.action = a
        \/ \E s \in Subjects : Allowed(b, a, s)
    BY <1>7 DEF IInv, PassedAssetsAreServed
  <2>2. CASE \E s \in Subjects : Allowed(b, a, s)
    BY <2>2, <1>6
  <2>3. CASE \E v \in wants[q] : v.target = b /\ v.action = a
    <3>1. PICK v \in wants[q] : v.target = b /\ v.action = a
      BY <2>3
    <3>2. CASE v \in wants'[q]
      BY <3>1, <3>2
    <3>3. CASE v = w
      BY <3>1, <3>3, <1>10
    <3> QED BY <3>2, <3>3, <1>2
  <2> QED BY <2>1, <2>2, <2>3
<1>12. RegisteredAreServed'
  <2> SUFFICES ASSUME NEW q \in Procs, NEW b \in Resources, resource[q] = b
               PROVE /\ aggregators[AggregatorOf[b]] # Nobody
                     /\ (Passed(q, b)' /\ aggregators[AggregatorOf[b]] \in Subjects) =>
                          \A a \in ScopesOf[b] :
                            \/ \E v \in wants'[q] :
                                 /\ v.target = b /\ v.action = a
                                 /\ a # Read => v.assignee = aggregators[AggregatorOf[b]]
                            \/ Allowed(b, a, aggregators[AggregatorOf[b]])'
    BY DEF RegisteredAreServed
  <2>1. aggregators[AggregatorOf[b]] # Nobody
    BY DEF IInv, RegisteredAreServed
  <2> SUFFICES ASSUME Passed(q, b)', aggregators[AggregatorOf[b]] \in Subjects, NEW a \in ScopesOf[b]
               PROVE \/ \E v \in wants'[q] :
                          /\ v.target = b /\ v.action = a
                          /\ a # Read => v.assignee = aggregators[AggregatorOf[b]]
                     \/ Allowed(b, a, aggregators[AggregatorOf[b]])'
    BY <2>1
  <2>2. \/ \E v \in wants[q] :
             /\ v.target = b /\ v.action = a
             /\ a # Read => v.assignee = aggregators[AggregatorOf[b]]
        \/ Allowed(b, a, aggregators[AggregatorOf[b]])
    BY <1>7 DEF IInv, RegisteredAreServed
  <2>3. CASE Allowed(b, a, aggregators[AggregatorOf[b]])
    BY <2>3, <1>6
  <2>4. ASSUME NEW v \in wants[q], v.target = b, v.action = a,
               a # Read => v.assignee = aggregators[AggregatorOf[b]]
        PROVE \/ v \in wants'[q]
              \/ Allowed(b, a, aggregators[AggregatorOf[b]])'
    BY <2>4, <1>2, <1>9
  <2> QED BY <2>2, <2>3, <2>4
<1> QED
  BY <1>3, <1>4, <1>5, <1>11, <1>12 DEF IInv

LEMMA SkipStep ==
  ASSUME IInv, NEW p \in Procs, Skip(p)
  PROVE IInv'
<1>1. PICK w \in wants[p] : MayFind(policies[p], w) /\ Leave(p, w)
  BY DEF Skip
<1>2. At(p, "loop")
      /\ UNCHANGED <<phase, life, aggregators, policySyncs, assets, permissions, pc, resource,
                     seen, todo, policies>>
  BY DEF Skip, processVars, asVars
<1>3. Has(w)'
  <2>1. Has(w)
    BY <1>1, FoundIsThere
  <2> QED
    BY <2>1, <1>2 DEF Has, Node
<1>4. InPlace'
  BY <1>2, StoreKept
<1>5. /\ policySyncs' \subseteq Permissions \X {"created", "patched"}
      /\ permissions' \subseteq Permissions
      /\ policies' \in [Procs -> SUBSET Permissions]
      /\ \A q \in Procs : policies'[q] = policies[q] /\ policies[q] \subseteq permissions'
  BY <1>2 DEF IInv, TypeOK, KnowledgeIsTrue
<1> QED
  BY <1>1, <1>2, <1>3, <1>4, <1>5, HandledStep

\* What is written goes where it belongs.
LEMMA WritingKeepsPlaces ==
  ASSUME IInv, NEW w \in Rules, ~GrantedByOwner(w),
         permissions' = permissions \cup {Permission(Home(w), w)}
  PROVE InPlace' /\ permissions' \subseteq Permissions
<1>1. InPlace'
  BY DEF IInv, InPlace
<1>2. Permission(Home(w), w) \in Permissions
  BY HomeType DEF Permissions
<1> QED
  BY <1>1, <1>2 DEF IInv, TypeOK

LEMMA WriteStep ==
  ASSUME IInv, NEW p \in Procs, NEW w \in wants[p], At(p, "loop"), MayMiss(policies[p], w),
         NEW how \in {"created", "patched"}, Written(p, w, Home(w), how)
  PROVE IInv'
<1>1. w \in Rules /\ ~GrantedByOwner(w)
  BY WantsAreRules, MissingIsNotTheOwners DEF IInv
<1>2. /\ permissions' = permissions \cup {Permission(Home(w), w)}
      /\ policies' = [policies EXCEPT ![p] = @ \cup {Permission(Home(w), w)}]
      /\ policySyncs' = policySyncs \cup {<<Permission(Home(w), w), how>>}
      /\ Leave(p, w)
      /\ UNCHANGED <<phase, life, aggregators, assets, pc, resource, seen, todo>>
  BY DEF Written
<1>3. InPlace' /\ permissions' \subseteq Permissions
  BY <1>1, <1>2, WritingKeepsPlaces
<1>4. Permission(Home(w), w) \in Permissions
  BY <1>2, <1>3
<1>5. policySyncs' \subseteq Permissions \X {"created", "patched"}
  BY <1>2, <1>4 DEF IInv, TypeOK
<1>6. /\ policies' \in [Procs -> SUBSET Permissions]
      /\ \A q \in Procs : policies[q] \subseteq policies'[q] /\ policies'[q] \subseteq permissions'
  BY <1>2, <1>4 DEF IInv, TypeOK, KnowledgeIsTrue
<1>7. Has(w)'
  <2>1. PICK x \in permissions' : x = Permission(Home(w), w)
    BY <1>2
  <2>2. /\ x.policy.type = TypeOf(w) /\ x.assignee = w.assignee
        /\ x.target = w.target /\ x.action = w.action /\ x.assigner = Owner
    BY <1>1, <2>1, PermissionFields, HomeType
  <2> QED
    BY <2>1, <2>2 DEF Has, Node
<1> QED
  BY <1>2, <1>3, <1>5, <1>6, <1>7, HandledStep

LEMMA LostStep ==
  ASSUME IInv, NEW p \in Procs, NEW w \in wants[p], At(p, "loop"), MayMiss(policies[p], w),
         AnswerLost(p, w, Home(w))
  PROVE IInv'
<1>1. w \in Rules /\ ~GrantedByOwner(w)
  BY WantsAreRules, MissingIsNotTheOwners DEF IInv
<1>2. /\ permissions' = permissions \cup {Permission(Home(w), w)}
      /\ Fail(p) /\ UNCHANGED <<policySyncs, assets>>
  BY DEF AnswerLost
<1>3. InPlace' /\ permissions' \subseteq Permissions
  BY <1>1, <1>2, WritingKeepsPlaces
<1> QED
  BY <1>2, <1>3, FailStep

LEMMA RefusedStep ==
  ASSUME IInv, NEW p \in Procs, Fail(p), UNCHANGED <<policySyncs, asVars>>
  PROVE IInv'
<1>1. UNCHANGED <<policySyncs, assets, permissions>>
  BY DEF asVars
<1>2. InPlace' /\ permissions' \subseteq Permissions
  BY <1>1, StoreKept DEF IInv, TypeOK
<1> QED
  BY <1>1, <1>2, FailStep

LEMMA CreateStep ==
  ASSUME IInv, NEW p \in Procs, Create(p)
  PROVE IInv'
<1> DEFINE G(w) == GeneratedPolicy(TypeOf(w), w.target)
<1>1. At(p, "loop")
  BY DEF Create
<1>2. PICK w \in wants[p] :
        /\ MayMiss(policies[p], w) /\ PoliciesFor(policies[p], w) = {}
        /\ Written(p, w, G(w), "created") \/ AnswerLost(p, w, G(w)) \/ Refused(p)
  BY DEF Create
<1>3. G(w) = Home(w)
  BY <1>1, <1>2, CreatedAtHome
<1> HIDE DEF G
<1>4. CASE Written(p, w, G(w), "created")
  BY <1>1, <1>2, <1>3, <1>4, WriteStep
<1>5. CASE AnswerLost(p, w, G(w))
  BY <1>1, <1>2, <1>3, <1>5, LostStep
<1>6. CASE Refused(p)
  BY <1>6, RefusedStep DEF Refused
<1> QED
  BY <1>2, <1>4, <1>5, <1>6

LEMMA PatchStep ==
  ASSUME IInv, NEW p \in Procs, Patch(p)
  PROVE IInv'
<1>1. At(p, "loop")
  BY DEF Patch
<1>2. PICK w \in wants[p], policy \in UNION {PoliciesFor(policies[p], v) : v \in wants[p]} :
        /\ policy \in PoliciesFor(policies[p], w) /\ MayMiss(policies[p], w)
        /\ Written(p, w, policy, "patched") \/ AnswerLost(p, w, policy) \/ Refused(p)
  BY DEF Patch
<1>3. policy = Home(w)
  BY <1>2, PatchedAtHome
<1>4. CASE Written(p, w, policy, "patched")
  BY <1>1, <1>2, <1>3, <1>4, WriteStep
<1>5. CASE AnswerLost(p, w, policy)
  BY <1>1, <1>2, <1>3, <1>5, LostStep
<1>6. CASE Refused(p)
  BY <1>6, RefusedStep DEF Refused
<1> QED
  BY <1>2, <1>4, <1>5, <1>6

LEMMA FinishStep ==
  ASSUME IInv, NEW p \in Procs, Finish(p)
  PROVE IInv'
<1> USE DEF Finish, Done, Goto, At, asVars
<1>1. TypeOK'
  BY DEF IInv, TypeOK, Labels
<1>2. InPlace' /\ \A b, a, s : Allowed(b, a, s)' <=> Allowed(b, a, s)
  BY StoreKept
<1>3. KnowledgeIsTrue'
  BY DEF IInv, TypeOK, KnowledgeIsTrue
<1>4. WantsAreWanted'
  BY DEF IInv, TypeOK, WantsAreWanted
<1>5. \A q \in Procs, b \in Resources : Passed(q, b)' => Passed(q, b)
  BY DEF IInv, TypeOK, Passed
<1>6. PassedAssetsAreServed'
  BY <1>2, <1>5 DEF IInv, PassedAssetsAreServed
<1>7. RegisteredAreServed'
  BY <1>2, <1>5 DEF IInv, RegisteredAreServed
<1> QED
  BY <1>1, <1>2, <1>3, <1>4, <1>6, <1>7 DEF IInv

LEMMA ReturnStep ==
  ASSUME IInv, NEW p \in Procs, Return(p)
  PROVE IInv'
<1> USE DEF Return, Goto, At, asVars, processVars
<1>1. TypeOK'
  BY DEF IInv, TypeOK, Labels
<1>2. InPlace' /\ \A b, a, s : Allowed(b, a, s)' <=> Allowed(b, a, s)
  BY StoreKept
<1>3. KnowledgeIsTrue'
  BY DEF IInv, TypeOK, KnowledgeIsTrue
<1>4. WantsAreWanted'
  BY DEF IInv, TypeOK, WantsAreWanted
<1>5. \A q \in Procs, b \in Resources : Passed(q, b)' => Passed(q, b) /\ q # p
  BY DEF IInv, TypeOK, Passed
<1>6. \A q \in Procs \ {p} : wants'[q] = wants[q] /\ resource'[q] = resource[q]
  BY DEF IInv, TypeOK
<1>7. PassedAssetsAreServed'
  BY <1>2, <1>5, <1>6 DEF IInv, PassedAssetsAreServed
<1>8. \A q \in Procs, b \in Resources : resource'[q] = b => q # p
  BY DEF IInv, TypeOK
<1>9. RegisteredAreServed'
  BY <1>2, <1>5, <1>6, <1>8 DEF IInv, RegisteredAreServed
<1> QED
  BY <1>1, <1>2, <1>3, <1>4, <1>7, <1>9 DEF IInv

LEMMA RegisterStep ==
  ASSUME IInv, NEW h \in Handlers, NEW r \in Resources, Register(h, r)
  PROVE IInv'
<1> USE DEF Register, Goto, At, processVars, Procs
<1>1. TypeOK'
  BY DEF IInv, TypeOK, Labels, WantsAreWanted
<1>2. InPlace' /\ \A b, a, s : Allowed(b, a, s)' <=> Allowed(b, a, s)
  BY StoreKept
<1>3. KnowledgeIsTrue'
  BY DEF IInv, TypeOK, KnowledgeIsTrue
<1>4. WantsAreWanted'
  BY DEF IInv, TypeOK, WantsAreWanted
<1>5. \A q \in Procs, b \in Resources : Passed(q, b)' => Passed(q, b) /\ q # h
  BY DEF IInv, TypeOK, Passed
<1>6. PassedAssetsAreServed'
  BY <1>2, <1>5 DEF IInv, PassedAssetsAreServed
<1>7. \A q \in Procs \ {h} : resource'[q] = resource[q]
  BY DEF IInv, TypeOK
<1>8. resource'[h] = r /\ aggregators[AggregatorOf[r]] # Nobody
  BY DEF IInv, TypeOK
<1>9. RegisteredAreServed'
  BY <1>2, <1>5, <1>7, <1>8 DEF IInv, RegisteredAreServed
<1> QED
  BY <1>1, <1>2, <1>3, <1>4, <1>6, <1>9 DEF IInv

\* What happens to aggregators cannot give a registered resource another subject.
LEMMA AggregatorStep ==
  ASSUME IInv, NEW a \in Aggregators, CreateAggregator(a) \/ DeleteAggregator(a)
  PROVE IInv'
<1> USE DEF At, asVars, syncVars
<1>1. /\ UNCHANGED <<phase, life, policySyncs, asVars, syncVars>>
      /\ aggregators' \in [Aggregators -> Subjects \cup {Nobody, Gone}]
      /\ \A b \in Aggregators :
           \/ aggregators'[b] = aggregators[b]
           \/ aggregators[b] = Nobody /\ aggregators'[b] \in Subjects
           \/ aggregators[b] \in Subjects /\ aggregators'[b] = Gone
  <2>1. CASE CreateAggregator(a)
    BY <2>1 DEF CreateAggregator, IInv, TypeOK
  <2>2. CASE DeleteAggregator(a)
    BY <2>2 DEF DeleteAggregator, IInv, TypeOK
  <2> QED BY <2>1, <2>2
<1>2. TypeOK'
  BY <1>1 DEF IInv, TypeOK
<1>3. InPlace' /\ \A b, c, s : Allowed(b, c, s)' <=> Allowed(b, c, s)
  BY <1>1, StoreKept
<1>4. KnowledgeIsTrue' /\ WantsAreWanted'
  BY <1>1 DEF IInv, KnowledgeIsTrue, WantsAreWanted
<1>5. \A q \in Procs, b \in Resources : Passed(q, b)' <=> Passed(q, b)
  BY <1>1 DEF Passed
<1>6. PassedAssetsAreServed'
  BY <1>1, <1>3, <1>5 DEF IInv, PassedAssetsAreServed
<1>7. RegisteredAreServed'
  <2> SUFFICES ASSUME NEW q \in Procs, NEW b \in Resources, resource[q] = b
               PROVE /\ aggregators'[AggregatorOf[b]] # Nobody
                     /\ aggregators'[AggregatorOf[b]] \in Subjects =>
                          aggregators'[AggregatorOf[b]] = aggregators[AggregatorOf[b]]
    BY <1>1, <1>3, <1>5 DEF IInv, RegisteredAreServed
  <2>1. aggregators[AggregatorOf[b]] # Nobody
    BY DEF IInv, RegisteredAreServed
  <2> QED
    BY <1>1, <2>1, SubjectsAssumption
<1> QED
  BY <1>2, <1>3, <1>4, <1>6, <1>7 DEF IInv

LEMMA UnregisterStep ==
  ASSUME IInv, NEW r \in Resources, Unregister(r)
  PROVE IInv'
<1> USE DEF Unregister, processVars, syncVars, At
<1>1. TypeOK'
  BY DEF IInv, TypeOK
<1>2. InPlace' /\ \A b, a, s : Allowed(b, a, s)' <=> Allowed(b, a, s)
  BY StoreKept
<1>3. KnowledgeIsTrue' /\ WantsAreWanted'
  BY DEF IInv, KnowledgeIsTrue, WantsAreWanted
<1>4. PassedAssetsAreServed' /\ RegisteredAreServed'
  BY <1>2 DEF IInv, PassedAssetsAreServed, RegisteredAreServed, Passed
<1> QED
  BY <1>1, <1>2, <1>3, <1>4 DEF IInv

LEMMA RestartStep ==
  ASSUME IInv, Restart
  PROVE IInv'
<1> USE DEF Restart, asVars, At
<1>1. TypeOK'
  <2>1. life' \in 1 .. Lives /\ pc' \in [Procs -> Labels]
    BY DEF IInv, TypeOK, Labels
  <2> QED
    BY <2>1 DEF IInv, TypeOK
<1>2. InPlace'
  BY StoreKept
<1>3. KnowledgeIsTrue' /\ WantsAreWanted'
  BY DEF KnowledgeIsTrue, WantsAreWanted
<1>4. PassedAssetsAreServed' /\ RegisteredAreServed'
  BY DEF PassedAssetsAreServed, RegisteredAreServed, Passed
<1> QED
  BY <1>1, <1>2, <1>3, <1>4 DEF IInv

LEMMA StutterStep ==
  ASSUME IInv, UNCHANGED vars
  PROVE IInv'
<1> USE DEF vars, processVars, asVars, syncVars, At
<1>1. TypeOK' /\ InPlace'
  BY DEF IInv, TypeOK, InPlace
<1>2. KnowledgeIsTrue' /\ WantsAreWanted'
  BY DEF IInv, KnowledgeIsTrue, WantsAreWanted
<1>3. PassedAssetsAreServed' /\ RegisteredAreServed'
  BY DEF IInv, PassedAssetsAreServed, RegisteredAreServed, Passed, Allowed, Node
<1> QED
  BY <1>1, <1>2, <1>3 DEF IInv

\* The inductive invariant: knowledge of the store is true and complete as far as
\* the owner's policies go, so that every synchronization puts a rule in one place.
THEOREM Invariance == Spec => []IInv
<1>1. ASSUME IInv, [Next]_vars PROVE IInv'
  <2>1. ASSUME NEW p \in Procs, Synchronize(p) PROVE IInv'
    <3>1. CASE FailToRead(p)
      BY <1>1, <2>1, <3>1, RefusedStep DEF FailToRead
    <3> QED
      BY <1>1, <2>1, <3>1, DiscoverStep, FetchStep, NextAssetStep, SkipStep,
         CreateStep, PatchStep, FinishStep, ReturnStep DEF Synchronize
  <2>2. ASSUME NEW a \in Aggregators, CreateAggregator(a) \/ DeleteAggregator(a) PROVE IInv'
    BY <1>1, <2>2, AggregatorStep
  <2>3. ASSUME NEW h \in Handlers, NEW r \in Resources, Register(h, r) PROVE IInv'
    BY <1>1, <2>3, RegisterStep
  <2>4. ASSUME NEW r \in Resources, Unregister(r) PROVE IInv'
    BY <1>1, <2>4, UnregisterStep
  <2>5. CASE Restart
    BY <1>1, <2>5, RestartStep
  <2>6. CASE UNCHANGED vars
    BY <1>1, <2>6, StutterStep
  <2> QED
    BY <1>1, <2>1, <2>2, <2>3, <2>4, <2>5, <2>6 DEF Next
<1> QED
  BY <1>1, InitIInv, PTL DEF Spec

\* Type correctness, for all values of the constants.
THEOREM TypeCorrect == Spec => []TypeOK
<1>1. IInv => TypeOK
  BY DEF IInv
<1> QED
  BY <1>1, Invariance, PTL

\* However synchronizations overlap, fail or are cut short, no rule is written
\* that is already there under another name (policy_sync.go:94-122).
THEOREM NoDuplicates == Spec => []NoDuplicateRules
<1>1. IInv => NoDuplicateRules
  <2> SUFFICES ASSUME IInv, NEW x \in permissions, NEW y \in permissions \ OwnersPermissions,
                      SameGrant(x, y)
               PROVE x = y
    BY DEF NoDuplicateRules
  <2>1. PICK w \in Rules : y = Permission(Home(w), w) /\ ~GrantedByOwner(w)
    BY DEF IInv, InPlace
  <2>2. Grants(x, w)
    BY <2>1, PermissionFields, HomeType DEF SameGrant, Grants
  <2>3. x \notin OwnersPermissions
    BY <2>1, <2>2 DEF GrantedByOwner
  <2>4. PICK v \in Rules : x = Permission(Home(v), v)
    BY <2>3 DEF IInv, InPlace
  <2>5. v.target = w.target /\ v.action = w.action /\ v.assignee = w.assignee
    BY <2>2, <2>4, PermissionFields DEF Grants
  <2>6. v = w
    BY <2>5 DEF Rules
  <2> QED
    BY <2>1, <2>4, <2>6
<1> QED
  BY <1>1, Invariance, PTL

\* The generated names keep rules apart, but for two resources that a policy of the
\* owner's is about (policy_sync.go:328 and 447).
THEOREM SeparateRules == Spec => []RulesStaySeparate
<1>1. IInv => RulesStaySeparate
  BY GeneratedNodes DEF IInv, RulesStaySeparate, OwnersAbout
<1> QED
  BY <1>1, Invariance, PTL

\* A synchronization that ends without an error has seen to every asset it
\* discovered (policy_sync.go:89).
THEOREM AssetsAreCovered == Spec => []SyncCoversAssets
<1>1. IInv => SyncCoversAssets
  <2> SUFFICES ASSUME IInv, NEW p \in Procs, At(p, "done"), NEW r \in seen[p], NEW a \in ScopesOf[r]
               PROVE \E s \in Subjects : Allowed(r, a, s)
    BY DEF SyncCoversAssets
  <2>1. r \in Resources /\ todo[p] = {} /\ wants[p] = {}
    BY DEF IInv, TypeOK
  <2>2. Passed(p, r)
    BY <2>1 DEF Passed, At
  <2> QED
    BY <2>1, <2>2 DEF IInv, PassedAssetsAreServed
<1> QED
  BY <1>1, Invariance, PTL

\* The subject of an aggregator is allowed what its resource was registered for
\* when the synchronization after the registration has ended without an error
\* (authorization_server.go:109).
THEOREM RegistrationsGrant == Spec => []RegistrationGrantsAccess
<1>1. IInv => RegistrationGrantsAccess
  <2> SUFFICES ASSUME IInv, NEW p \in Procs, At(p, "done"), resource[p] \in seen[p],
                      aggregators[AggregatorOf[resource[p]]] \in Subjects,
                      NEW a \in ScopesOf[resource[p]]
               PROVE Allowed(resource[p], a, aggregators[AggregatorOf[resource[p]]])
    BY DEF RegistrationGrantsAccess
  <2>1. resource[p] \in Resources /\ todo[p] = {} /\ wants[p] = {}
    BY DEF IInv, TypeOK
  <2>2. Passed(p, resource[p])
    BY <2>1 DEF Passed, At
  <2> QED
    BY <2>1, <2>2 DEF IInv, RegisteredAreServed
<1> QED
  BY <1>1, Invariance, PTL
-----------------------------------------------------------------------------
(***************************************************************************)
(* What is asked for again.                                                *)
(***************************************************************************)
\* odrlRuleExists finds a rule under its generated name, unless the node has
\* another assignee beside.
LEMMA WrittenIsFound ==
  ASSUME IInv, NEW p \in Procs, NEW w \in wants[p], MayMiss(policies[p], w),
         Permission(Home(w), w) \in policies[p]
  PROVE  \E x, y \in policies[p] :
           /\ x.target = w.target /\ x.action = w.action /\ x.assignee = w.assignee
           /\ y.rule = x.rule /\ y.assignee # x.assignee
<1>1. policies[p] \subseteq permissions /\ w \in Rules
  BY WantsAreRules DEF IInv, KnowledgeIsTrue
<1>2. PICK x \in policies[p] : x = Permission(Home(w), w)
  OBVIOUS
<1>3. /\ x.policy.type = TypeOf(w) /\ x.rule = GeneratedRule(Home(w), w)
      /\ x.target = w.target /\ x.action = w.action
      /\ x.assigner = Owner /\ x.assignee = w.assignee
  BY <1>1, <1>2, PermissionFields, HomeType
<1>4. x.rule \in Candidates(policies[p], w)
  BY <1>3 DEF Candidates, Node
<1>5. CASE w.assignee = Nobody
  <2>1. Assignees(policies[p], x.rule) # {}
    BY <1>4, <1>5 DEF MayMiss
  <2>2. PICK y \in policies[p] : y.rule = x.rule /\ y.assignee # Nobody
    BY <2>1 DEF Assignees, Node
  <2> QED
    BY <1>3, <1>5, <2>2
<1>6. CASE w.assignee # Nobody
  <2>1. Assignees(policies[p], x.rule) # {w.assignee}
    BY <1>4, <1>6 DEF MayMiss
  <2>2. w.assignee \in Assignees(policies[p], x.rule)
    BY <1>3, <1>6 DEF Assignees, Node
  <2>3. PICK y \in policies[p] : y.rule = x.rule /\ y.assignee # w.assignee
    BY <2>1, <2>2 DEF Assignees, Node
  <2> QED
    BY <1>3, <2>3
<1> QED
  BY <1>5, <1>6

\* Whatever overlaps it, and whatever failed or was cut short before it, a
\* synchronization does not write what it has fetched or written, except into a
\* node with a second assignee (policy_sync.go:306-326).
THEOREM OnlyNewIsWritten == Spec => OnlyNewRulesAreWritten
<1> DEFINE Shared(p, w) ==
             \E x, y \in policies[p] :
               /\ x.target = w.target /\ x.action = w.action /\ x.assignee = w.assignee
               /\ y.rule = x.rule /\ y.assignee # x.assignee
<1>1. ASSUME IInv, NEW p \in Procs, Create(p) \/ Patch(p)
      PROVE  \/ pc'[p] = "failed"
             \/ policies'[p] # policies[p]
             \/ \E w \in wants[p] \ wants'[p] : Shared(p, w)
  <2>1. PICK w \in wants[p] :
          /\ MayMiss(policies[p], w)
          /\ \/ /\ policies' = [policies EXCEPT ![p] = @ \cup {Permission(Home(w), w)}]
                /\ Leave(p, w)
             \/ Fail(p)
    BY <1>1, CreatedAtHome, PatchedAtHome DEF Create, Patch, Written, AnswerLost, Refused
  <2>2. CASE Fail(p)
    BY <1>1, <2>2 DEF Fail, Goto, IInv, TypeOK
  <2>3. CASE policies' = [policies EXCEPT ![p] = @ \cup {Permission(Home(w), w)}] /\ Leave(p, w)
    <3>1. policies'[p] = policies[p] \cup {Permission(Home(w), w)}
      BY <1>1, <2>3 DEF IInv, TypeOK
    <3>2. w \notin wants'[p]
      BY <1>1, <2>3 DEF Leave, IInv, TypeOK
    <3>3. Permission(Home(w), w) \in policies[p] => Shared(p, w)
      BY <1>1, <2>1, WrittenIsFound
    <3> HIDE DEF Shared
    <3> QED
      BY <3>1, <3>2, <3>3
  <2> QED
    BY <2>1, <2>2, <2>3
<1>2. IInv =>
        [\A p \in Procs :
           Create(p) \/ Patch(p) =>
             \/ pc'[p] = "failed"
             \/ policies'[p] # policies[p]
             \/ \E w \in wants[p] \ wants'[p] : Shared(p, w)]_vars
  BY <1>1
<1> QED
  BY <1>2, Invariance, PTL DEF OnlyNewRulesAreWritten
=============================================================================
