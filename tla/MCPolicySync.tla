----------------------------- MODULE MCPolicySync -----------------------------
(***************************************************************************)
(* PolicySync for TLC: the services of one aggregator, or of two.          *)
(***************************************************************************)
EXTENDS PolicySync, TLC

CONSTANTS
  h1, h2,       \* requests
  a1, a2,       \* aggregators
  services, others,  \* resources: the service collections of two aggregators
  alice, bob, carol,  \* subjects of aggregators
  read, create, delete    \* scopes

OneHandler == {h1}
TwoHandlers == {h1, h2}
OneAggregator == {a1}
TwoAggregators == {a1, a2}
TwoResources == {services, others}
OneResource == {services}
InOne == [r \in OneResource |-> a1]
ReadOrCreate == [r \in OneResource |-> {read, create}]
OneOfEach == [r \in TwoResources |-> IF r = services THEN a1 ELSE a2]
Shipped == [r \in TwoResources |-> {read, create}]
TwoSubjects == {alice, bob}
ThreeSubjects == {alice, bob, carol}

\* The owner has a public policy about the services, as the one in
\* TestStartupSynchronizesAuthorizationPoliciesForManagedAssets, and a blank one
\* that lets bob create services.
OwnersPolicy ==
  {[policy |-> [type |-> Public, about |-> "mine", blank |-> FALSE],
    rule |-> [by |-> "owner", label |-> 1],
    target |-> services, action |-> delete, assigner |-> Owner, assignee |-> Nobody]}
BlankPolicy ==
  {[policy |-> [type |-> Private, about |-> "blank", blank |-> TRUE],
    rule |-> [by |-> "owner", label |-> 2],
    target |-> services, action |-> create, assigner |-> Owner, assignee |-> bob]}
BothPolicies == OwnersPolicy \cup BlankPolicy

\* The owner has an agreement that lets bob delete the services of both
\* aggregators, in one rule, beside the public policy.
SharedPolicy ==
  {[policy |-> [type |-> Private, about |-> "ours", blank |-> FALSE],
    rule |-> [by |-> "owner", label |-> 3],
    target |-> r, action |-> delete, assigner |-> Owner, assignee |-> bob] :
     r \in TwoResources}
PublicAndShared == OwnersPolicy \cup SharedPolicy

\* Requests are alike.
Symmetry == Permutations(Handlers)
=============================================================================
