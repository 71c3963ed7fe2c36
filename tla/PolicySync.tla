------------------------------ MODULE PolicySync ------------------------------
(***************************************************************************)
(* policy_sync.go: after each registration of a resource, and once when    *)
(* the server starts, a synchronization sees to it that every resource the *)
(* owner has at the authorization server (AS) has an ODRL rule for each of *)
(* its scopes. It lists the resources, fetches all policies, and then, for *)
(* each rule it wants and does not find among what it fetched, creates a   *)
(* policy or patches one, one request at a time and without a lock. It is  *)
(* the live case, with an account token and the identity of the owner.     *)
(*                                                                         *)
(* Handlers are the goroutines of requests that register a resource; Main  *)
(* is the one that runs NewServer. The store of the AS is kept as a set of *)
(* permissions: one per policy, rule node and value of the node's          *)
(* properties, so that a node with two assignees is two permissions with   *)
(* one rule, and says of all its targets what it says of one. A scope      *)
(* stands for its local name, the action of its rules.                     *)
(*                                                                         *)
(* singleObject takes the first assignee of a rule node in the order in    *)
(* which the AS happens to write the store down. A synchronization asks    *)
(* for each rule once, so the choice is made where it asks (MayFind,       *)
(* MayMiss).                                                               *)
(***************************************************************************)
EXTENDS Naturals

CONSTANTS
  Handlers,       \* the goroutines of requests
  Main,           \* the goroutine of NewServer
  Aggregators,    \* the ids of aggregators
  Resources,      \* the URLs of resources
  AggregatorOf,   \* the aggregator in the URL of a resource
  ScopesOf,       \* the scopes a resource is registered with
  Read,           \* the read scope
  Subjects,       \* the subjects of aggregators
  ConfigSubject,  \* cfg.Subject, the assignee where the aggregator is not known
  Owner,          \* the assigner: provisionSubject
  OwnersPermissions, \* what the owner wrote to the AS without this program
  Nobody,         \* no assignee, no aggregator, no resource
  Faults,         \* TRUE iff requests to the AS may fail
  Deletions,      \* TRUE iff aggregators and registrations are deleted
  Lives           \* bound on the number of times the process is started

Gone == "gone"
Public == "Set"
Private == "Agreement"
Types == {Public, Private}
Scopes == UNION {ScopesOf[r] : r \in Resources}

\* What generatedPolicyID and generatedRuleID make of their arguments.
GeneratedPolicy(type, r) == [type |-> type, about |-> r, blank |-> FALSE]

GeneratedRule(policy, w) ==
  [policy |-> policy, by |-> "sync",
   label |-> <<IF w.assignee = Nobody THEN "public" ELSE "owner", w.action>>]

TypeOf(w) == IF w.assignee = Nobody THEN Public ELSE Private
Permission(policy, w) ==
  [policy |-> policy, rule |-> GeneratedRule(policy, w), target |-> w.target,
   action |-> w.action, assigner |-> Owner, assignee |-> w.assignee]

\* odrlActionForScope, isReadScope: a read rule is public, any other is for
\* the subject s.
Wanted(r, s) ==
  {[target |-> r, action |-> a, assignee |-> IF a = Read THEN Nobody ELSE s] :
     a \in ScopesOf[r]}

(***************************************************************************)
(* The owner's own policies: no two of a type are about the same resource  *)
(* unless blank, a rule is in one policy and has at most one assignee, and *)
(* policies and rules are not named as generated ones are. A policy, and a *)
(* rule, may be about several resources.                                   *)
(***************************************************************************)
ASSUME ScopesAssumption ==
  /\ AggregatorOf \in [Resources -> Aggregators]
  /\ DOMAIN ScopesOf = Resources
ASSUME SubjectsAssumption ==
  /\ ConfigSubject \in Subjects
  /\ Nobody \notin Subjects \cup Resources
  /\ Gone \notin Subjects \cup {Nobody}
  /\ Main \notin Handlers
ASSUME OwnersAssumption ==
  \A x, y \in OwnersPermissions :
    /\ x.policy.type \in Types
    /\ x.policy.about \notin Resources /\ x.rule.by = "owner"
    /\ x.rule = y.rule => x.policy = y.policy /\ x.assignee = y.assignee
    /\ (/\ x.policy.type = y.policy.type /\ x.target = y.target
        /\ ~x.policy.blank /\ ~y.policy.blank) => x.policy = y.policy
ASSUME BoundsAssumption ==
  Faults \in BOOLEAN /\ Deletions \in BOOLEAN /\ Lives \in Nat \ {0}

VARIABLES
  \* The process.
  phase,        \* "starting", "serving", or "unusable": authorizationServerError
  life,
  aggregators,  \* aggregator -> its Subject, Nobody, or Gone when deleted
  policySyncs,  \* what was recorded as created or patched
  \* The AS.
  assets,       \* the registered resources
  permissions,  \* the policies
  \* A synchronization.
  pc,
  resource,     \* the resource whose registration is followed by it
  seen,         \* the assets it discovered
  todo,         \* those it has yet to look at
  wants,        \* the rules of the current asset it has yet to look for
  policies      \* the policies it fetched, with what it added to them

processVars == <<phase, life, aggregators, policySyncs>>
asVars == <<assets, permissions>>
syncVars == <<pc, resource, seen, todo, wants, policies>>
vars == <<processVars, asVars, syncVars>>

Procs == Handlers \cup {Main}
Labels == {"idle", "discover", "fetch", "loop", "done", "failed"}

Init ==
  /\ phase = "starting" /\ life = 1
  /\ aggregators = [a \in Aggregators |-> Nobody]
  /\ policySyncs = {}
  /\ assets \in SUBSET Resources
  /\ permissions = OwnersPermissions
  /\ pc = [p \in Procs |-> IF p = Main THEN "discover" ELSE "idle"]
  /\ resource = [p \in Procs |-> Nobody]
  /\ seen = [p \in Procs |-> {}]
  /\ todo = [p \in Procs |-> {}]
  /\ wants = [p \in Procs |-> {}]
  /\ policies = [p \in Procs |-> {}]
-----------------------------------------------------------------------------
At(p, l) == pc[p] = l
Goto(p, l) == pc' = [pc EXCEPT ![p] = l]

\* An error ends the synchronization. NewServer keeps it, a request reports it.
Fail(p) ==
  /\ Goto(p, "failed")
  /\ phase' = IF p = Main THEN "unusable" ELSE phase
  /\ UNCHANGED <<life, aggregators, resource, seen, todo, wants, policies>>

Done(p) ==
  /\ Goto(p, "done")
  /\ phase' = IF p = Main THEN "serving" ELSE phase

Discover(p) ==
  /\ At(p, "discover")
  /\ seen' = [seen EXCEPT ![p] = assets]
  /\ todo' = [todo EXCEPT ![p] = assets]
  /\ IF assets = {}
     THEN Done(p)
     ELSE Goto(p, "fetch") /\ UNCHANGED phase
  /\ UNCHANGED <<life, aggregators, policySyncs, asVars, resource, wants, policies>>

Fetch(p) ==
  /\ At(p, "fetch")
  /\ policies' = [policies EXCEPT ![p] = permissions]
  /\ Goto(p, "loop")
  /\ UNCHANGED <<processVars, asVars, resource, seen, todo, wants>>

FailToRead(p) ==
  /\ Faults
  /\ At(p, "discover") \/ At(p, "fetch")
  /\ Fail(p)
  /\ UNCHANGED <<policySyncs, asVars>>

KnownSubject(r) ==
  IF aggregators[AggregatorOf[r]] \in Subjects
  THEN aggregators[AggregatorOf[r]]
  ELSE ConfigSubject

\* Mutant: the resources of aggregators that are not known are left out.
NextAsset_mutant(p) ==
  /\ At(p, "loop") /\ wants[p] = {}
  /\ \E r \in todo[p] :
       /\ todo' = [todo EXCEPT ![p] = @ \ {r}]
       /\ wants' = [wants EXCEPT ![p] =
            IF aggregators[AggregatorOf[r]] \in Subjects THEN Wanted(r, KnownSubject(r)) ELSE {}]
  /\ UNCHANGED <<processVars, asVars, pc, resource, seen, policies>>

NextAsset(p) ==
  /\ At(p, "loop") /\ wants[p] = {}
  /\ \E r \in todo[p] :
       /\ todo' = [todo EXCEPT ![p] = @ \ {r}]
       /\ wants' = [wants EXCEPT ![p] = Wanted(r, KnownSubject(r))]
  /\ UNCHANGED <<processVars, asVars, pc, resource, seen, policies>>

\* Mutant: the loop ends with the rules of the asset it is at.
Finish_mutant(p) ==
  /\ At(p, "loop") /\ wants[p] = {}
  /\ Done(p)
  /\ UNCHANGED <<life, aggregators, policySyncs, asVars, resource, seen, todo,
                 wants, policies>>

Finish(p) ==
  /\ At(p, "loop") /\ wants[p] = {} /\ todo[p] = {}
  /\ Done(p)
  /\ UNCHANGED <<life, aggregators, policySyncs, asVars, resource, seen, todo,
                 wants, policies>>
-----------------------------------------------------------------------------
\* What is said of a rule, and to whom it applies.
Node(known, rule) == {x \in known : x.rule = rule}
Assignees(known, rule) == {x.assignee : x \in Node(known, rule)} \ {Nobody}

\* Mutant: rules of blank policies are not looked at, as in PoliciesFor.
Candidates_mutant(known, w) ==
  {rule \in {x.rule : x \in {y \in known : y.policy.type = TypeOf(w) /\ ~y.policy.blank}} :
     /\ \E x \in Node(known, rule) : x.target = w.target
     /\ \E x \in Node(known, rule) : x.action = w.action
     /\ \E x \in Node(known, rule) : x.assigner = Owner}

Candidates(known, w) ==
  {rule \in {x.rule : x \in {y \in known : y.policy.type = TypeOf(w)}} :
     /\ \E x \in Node(known, rule) : x.target = w.target
     /\ \E x \in Node(known, rule) : x.action = w.action
     /\ \E x \in Node(known, rule) : x.assigner = Owner}

\* Mutant: any assignee will do.
MayFind_mutant(known, w) ==
  \E rule \in Candidates(known, w) :
    (w.assignee = Nobody) <=> (Assignees(known, rule) = {})

\* odrlRuleExists finds w, if the assignees are written in the right order.
MayFind(known, w) ==
  \E rule \in Candidates(known, w) :
    IF w.assignee = Nobody
    THEN Assignees(known, rule) = {}
    ELSE w.assignee \in Assignees(known, rule)

\* Mutant: the assignee of a public rule is compared too.
MayMiss_mutant(known, w) ==
  \A rule \in Candidates(known, w) : Assignees(known, rule) # {w.assignee}

\* odrlRuleExists does not find w, if they are not.
MayMiss(known, w) ==
  \A rule \in Candidates(known, w) :
    IF w.assignee = Nobody
    THEN Assignees(known, rule) # {}
    ELSE Assignees(known, rule) # {w.assignee}

\* Mutant: any policy of the type will do.
PoliciesFor_mutant(known, w) ==
  {x.policy : x \in {y \in known : y.policy.type = TypeOf(w) /\ ~y.policy.blank}}

\* findODRLPolicyForResource returns one of these.
PoliciesFor(known, w) ==
  {x.policy : x \in {y \in known :
     /\ y.policy.type = TypeOf(w) /\ ~y.policy.blank
     /\ \E z \in Node(known, y.rule) : z.target = w.target}}

Leave(p, w) == wants' = [wants EXCEPT ![p] = @ \ {w}]

Skip(p) ==
  /\ At(p, "loop")
  /\ \E w \in wants[p] : MayFind(policies[p], w) /\ Leave(p, w)
  /\ UNCHANGED <<processVars, asVars, pc, resource, seen, todo, policies>>

\* The AS has done what was asked and the answer arrives.
Written(p, w, policy, how) ==
  /\ permissions' = permissions \cup {Permission(policy, w)}
  /\ policies' = [policies EXCEPT ![p] = @ \cup {Permission(policy, w)}]
  /\ policySyncs' = policySyncs \cup {<<Permission(policy, w), how>>}
  /\ Leave(p, w)
  /\ UNCHANGED <<phase, life, aggregators, assets, pc, resource, seen, todo>>

\* The AS has done it, and the answer is lost.
AnswerLost(p, w, policy) ==
  /\ Faults
  /\ permissions' = permissions \cup {Permission(policy, w)}
  /\ Fail(p)
  /\ UNCHANGED <<policySyncs, assets>>

Refused(p) == Fail(p) /\ UNCHANGED <<policySyncs, asVars>>

Create(p) ==
  /\ At(p, "loop")
  /\ \E w \in wants[p] :
       LET policy == GeneratedPolicy(TypeOf(w), w.target)
           taken == \E x \in permissions : x.policy = policy
       IN  /\ MayMiss(policies[p], w)
           /\ PoliciesFor(policies[p], w) = {}
           /\ \/ Written(p, w, policy, "created")
              \/ AnswerLost(p, w, policy)
              \/ (Faults \/ taken) /\ Refused(p)

Patch(p) ==
  /\ At(p, "loop")
  /\ \E w \in wants[p] : \E policy \in PoliciesFor(policies[p], w) :
       /\ MayMiss(policies[p], w)
       /\ \/ Written(p, w, policy, "patched")
          \/ AnswerLost(p, w, policy)
          \/ Faults /\ Refused(p)

(***************************************************************************)
(* The handler answers its request.                                        *)
(***************************************************************************)
Return(p) ==
  /\ At(p, "done") \/ At(p, "failed")
  /\ Goto(p, "idle")
  /\ resource' = [resource EXCEPT ![p] = Nobody]
  /\ seen' = [seen EXCEPT ![p] = {}]
  /\ todo' = [todo EXCEPT ![p] = {}]
  /\ wants' = [wants EXCEPT ![p] = {}]
  /\ policies' = [policies EXCEPT ![p] = {}]
  /\ UNCHANGED <<processVars, asVars>>

Synchronize(p) ==
  \/ Discover(p) \/ Fetch(p) \/ FailToRead(p)
  \/ NextAsset(p) \/ Skip(p) \/ Create(p) \/ Patch(p) \/ Finish(p)
  \/ Return(p)
-----------------------------------------------------------------------------
(***************************************************************************)
(* What the rest of the server does that a synchronization can notice.     *)
(***************************************************************************)
CreateAggregator(a) ==
  /\ phase # "starting" /\ aggregators[a] = Nobody
  /\ \E s \in Subjects : aggregators' = [aggregators EXCEPT ![a] = s]
  /\ UNCHANGED <<phase, life, policySyncs, asVars, syncVars>>

\* registerConfiguredAuthorizationResource, up to the synchronization.
Register(h, r) ==
  /\ phase = "serving" /\ At(h, "idle")
  /\ aggregators[AggregatorOf[r]] \in Subjects
  /\ assets' = assets \cup {r}
  /\ resource' = [resource EXCEPT ![h] = r]
  /\ Goto(h, "discover")
  /\ UNCHANGED <<processVars, permissions, seen, todo, wants, policies>>

\* deleteAggregator unregisters what it can, and forgets the aggregator.
Unregister(r) ==
  /\ Deletions /\ phase = "serving"
  /\ aggregators[AggregatorOf[r]] \in Subjects
  /\ assets' = assets \ {r}
  /\ UNCHANGED <<processVars, permissions, syncVars>>

DeleteAggregator(a) ==
  /\ Deletions /\ phase # "starting"
  /\ aggregators[a] \in Subjects
  /\ aggregators' = [aggregators EXCEPT ![a] = Gone]
  /\ UNCHANGED <<phase, life, policySyncs, asVars, syncVars>>

\* The process is killed and started again; the AS keeps what it has, and the
\* ids of aggregators start anew.
Restart ==
  /\ life < Lives
  /\ life' = life + 1
  /\ phase' = "starting"
  /\ aggregators' = [a \in Aggregators |-> Nobody]
  /\ policySyncs' = {}
  /\ pc' = [p \in Procs |-> IF p = Main THEN "discover" ELSE "idle"]
  /\ resource' = [p \in Procs |-> Nobody]
  /\ seen' = [p \in Procs |-> {}]
  /\ todo' = [p \in Procs |-> {}]
  /\ wants' = [p \in Procs |-> {}]
  /\ policies' = [p \in Procs |-> {}]
  /\ UNCHANGED asVars

Next ==
  \/ \E p \in Procs : Synchronize(p)
  \/ \E a \in Aggregators : CreateAggregator(a) \/ DeleteAggregator(a)
  \/ \E h \in Handlers, r \in Resources : Register(h, r)
  \/ \E r \in Resources : Unregister(r)
  \/ Restart

Spec == Init /\ [][Next]_vars
-----------------------------------------------------------------------------
(***************************************************************************)
(* Properties.                                                             *)
(***************************************************************************)
Policies ==
  {x.policy : x \in OwnersPermissions} \cup
  {GeneratedPolicy(type, r) : type \in Types, r \in Resources}
Rules ==
  [target : Resources, action : Scopes, assignee : Subjects \cup {Nobody}]
Permissions ==
  OwnersPermissions \cup {Permission(policy, w) : policy \in Policies, w \in Rules}

\* Every variable has a value of its kind, and a synchronization that is over
\* has nothing left to do (policy_sync.go:63-125).
TypeOK ==
  /\ phase \in {"starting", "serving", "unusable"}
  /\ life \in 1 .. Lives
  /\ aggregators \in [Aggregators -> Subjects \cup {Nobody, Gone}]
  /\ policySyncs \subseteq Permissions \X {"created", "patched"}
  /\ assets \subseteq Resources
  /\ permissions \subseteq Permissions
  /\ pc \in [Procs -> Labels]
  /\ resource \in [Procs -> Resources \cup {Nobody}]
  /\ seen \in [Procs -> SUBSET Resources]
  /\ todo \in [Procs -> SUBSET Resources]
  /\ wants \in [Procs -> SUBSET Rules]
  /\ policies \in [Procs -> SUBSET Permissions]
  /\ \A p \in Procs :
       /\ todo[p] \subseteq seen[p]
       /\ At(p, "done") => todo[p] = {} /\ wants[p] = {}

\* s, or anybody, is allowed action a on r by a rule of the owner, which may be
\* about more than that.
Allowed(r, a, s) ==
  \E x \in permissions :
    /\ x.policy.type = IF a = Read THEN Public ELSE Private
    /\ x.assignee = IF a = Read THEN Nobody ELSE s
    /\ \E y \in Node(permissions, x.rule) : y.target = r
    /\ \E y \in Node(permissions, x.rule) : y.action = a
    /\ \E y \in Node(permissions, x.rule) : y.assigner = Owner

\* A registration that was followed by a whole synchronization gives the subject
\* of the aggregator its rules, in spite of other synchronizations that failed
\* half way, of deletions, and of restarts after which the id is another's
\* (registerConfiguredAuthorizationResource, authorization_server.go:109).
RegistrationGrantsAccess ==
  \A p \in Procs :
    LET r == resource[p] IN
    (At(p, "done") /\ r \in seen[p] /\ aggregators[AggregatorOf[r]] \in Subjects) =>
      \A a \in ScopesOf[r] : Allowed(r, a, aggregators[AggregatorOf[r]])

\* A synchronization that ends without an error leaves no resource it saw
\* without a rule for each scope, its own or another's (policy_sync.go:89).
SyncCoversAssets ==
  \A p \in Procs :
    At(p, "done") =>
      \A r \in seen[p] : \A a \in ScopesOf[r] : \E s \in Subjects : Allowed(r, a, s)

SameGrant(x, y) ==
  /\ x.policy.type = y.policy.type
  /\ x.target = y.target /\ x.action = y.action
  /\ x.assigner = y.assigner /\ x.assignee = y.assignee

\* However synchronizations overlap, each deciding from what it fetched, none
\* writes a rule that the owner or another one has written under another name:
\* the generated names make the same rule of both (policy_sync.go:94-122).
NoDuplicateRules ==
  \A x \in permissions, y \in permissions \ OwnersPermissions :
    SameGrant(x, y) => x = y

\* The rule of one resource or action does not become the rule of another too,
\* which would allow its subject each action on each resource, except in the one
\* case where the names leave no choice: a policy of the owner's is about both
\* resources, and is patched for both (findODRLPolicyForResource and
\* generatedRuleID, policy_sync.go:328 and 447).
RulesStaySeparate ==
  \A x \in permissions, y \in permissions \ OwnersPermissions :
    x.rule = y.rule =>
      /\ x \notin OwnersPermissions
      /\ x.policy = y.policy /\ x.action = y.action
      /\ \/ x.target = y.target
         \/ \E v, w \in OwnersPermissions :
              /\ v.policy = x.policy /\ w.policy = x.policy
              /\ v.target = x.target /\ w.target = y.target

\* Whatever happens beside a synchronization, it does not write again what it has
\* fetched or written: it finds what earlier ones wrote, or wrote without getting
\* an answer, in this life of the process or the one before. The one exception is
\* a node with a second assignee, of which odrlRuleExists looks at one
\* (policy_sync.go:317).
OnlyNewRulesAreWritten ==
  [][\A p \in Procs :
       Create(p) \/ Patch(p) =>
         \/ pc'[p] = "failed"
         \/ policies'[p] # policies[p]
         \/ \E w \in wants[p] \ wants'[p] : \E x, y \in policies[p] :
              /\ x.target = w.target /\ x.action = w.action /\ x.assignee = w.assignee
              /\ y.rule = x.rule /\ y.assignee # x.assignee]_vars
=============================================================================
