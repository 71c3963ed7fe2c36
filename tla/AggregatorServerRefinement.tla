--------------------- MODULE AggregatorServerRefinement ---------------------
(***************************************************************************)
(* AggregatorServer implements ServiceCollection: Provision opens a        *)
(* collection, DropAggregator closes it, Insert, DropService and Refresh   *)
(* list, unlist and refresh a service, and every other step leaves what    *)
(* clients see alone.                                                      *)
(***************************************************************************)
EXTENDS AggregatorServerProofs

\* The initial collections are the abstract ones.
LEMMA RefineInit == Init => Collection!Init
  BY DEF Init, EmptyMap, Collection!Init, MembersOfEach, RevisionOfEach, EverListed, Answered

\* Steps that leave the collections alone, and answer no POST with 201.
LEMMA RefineStutter ==
  ASSUME UNCHANGED <<services, serviceRevisions, nextID, sid, op>>,
         \A r \in Requests : Answered(r, "createService")' <=> Answered(r, "createService")
  PROVE  UNCHANGED Collection!collectionVars
  <1>1. MembersOfEach' = MembersOfEach /\ RevisionOfEach' = RevisionOfEach
    BY DEF MembersOfEach, RevisionOfEach, Revision
  <1>2. EverListed' = EverListed
    BY DEF EverListed
  <1> QED
    BY <1>1, <1>2 DEF Collection!collectionVars

\* createAggregator opens a collection under an id there has never been.
LEMMA RefineProvision ==
  ASSUME IInv, NEW r \in Requests, Provision(r)
  PROVE  Collection!Open(nextID)
  <1>1. nextID \in Nat \ {0} /\ nextID' = nextID + 1
    BY DEF IInv, TypeOK, Provision
  <1>2. nextID \notin 1 .. (nextID - 1) /\ 1 .. (nextID' - 1) = (1 .. (nextID - 1)) \cup {nextID}
    BY <1>1
  <1>3. DOMAIN services = aggregators /\ nextID \notin aggregators
    BY <1>1 DEF IInv, SafetyInv, CollectionsMatchAggregators, IdsWereHandedOut
  <1>4. MembersOfEach' = [x \in DOMAIN services \cup {nextID} |->
                            IF x = nextID THEN {} ELSE MembersOfEach[x]]
    BY <1>3 DEF Provision, OpenCollection, Assign, MembersOfEach, EmptyMap
  <1>5. nextID \notin DOMAIN serviceRevisions /\ serviceRevisions' = serviceRevisions
    BY <1>3 DEF Provision, IInv, SafetyInv, CollectionsMatchAggregators
  <1>6. RevisionOfEach' = [x \in DOMAIN services \cup {nextID} |->
                             IF x = nextID THEN 0 ELSE RevisionOfEach[x]]
    BY <1>3, <1>5 DEF Provision, OpenCollection, Assign, RevisionOfEach, Revision
  <1>7. EverListed' = EverListed
    BY DEF Provision, EverListed, Answered, Goto
  <1>8. DOMAIN MembersOfEach = DOMAIN services
    BY DEF MembersOfEach
  <1> QED
    BY <1>2, <1>4, <1>6, <1>7, <1>8 DEF Collection!Open, Collection!Live

\* deleteAggregator closes the collection.
LEMMA RefineDropAggregator ==
  ASSUME IInv, NEW r \in Requests, DropAggregator(r)
  PROVE  Collection!Close(agg[r])
  <1>1. MembersOfEach' = [x \in DOMAIN services \ {agg[r]} |-> MembersOfEach[x]]
    BY DEF DropAggregator, Drop, MembersOfEach
  <1>2. RevisionOfEach' = [x \in DOMAIN services \ {agg[r]} |-> RevisionOfEach[x]]
    BY DEF DropAggregator, Drop, RevisionOfEach, Revision
  <1>3. op[r] = "deleteAggregator"
    BY LabelOps DEF DropAggregator, At, IInv
  <1>4. EverListed' = EverListed
    BY <1>3 DEF DropAggregator, EverListed, Answered, Finish, argVars, IInv, TypeOK
  <1>5. DOMAIN MembersOfEach = DOMAIN services /\ nextID' = nextID
    BY DEF MembersOfEach, DropAggregator, counterVars
  <1> QED
    BY <1>1, <1>2, <1>4, <1>5 DEF Collection!Close, Collection!Live

\* The slower of two concurrent DELETEs of an aggregator finds nothing to drop.
LEMMA RefineDropAgain ==
  ASSUME IInv, NEW r \in Requests, DropAggregator(r), agg[r] \notin DOMAIN services
  PROVE  UNCHANGED Collection!collectionVars
  <1>1. op[r] = "deleteAggregator"
    BY LabelOps DEF DropAggregator, At, IInv
  <1>2. UNCHANGED <<nextID, sid, op>>
    BY DEF DropAggregator, counterVars, argVars
  <1>3. \A q \in Requests : Answered(q, "createService")' <=> Answered(q, "createService")
    BY <1>1, <1>2 DEF DropAggregator, Finish, Answered, IInv, TypeOK
  <1>4. DOMAIN services' = DOMAIN services /\ \A a \in DOMAIN services : services'[a] = services[a]
    BY DEF DropAggregator, Drop
  <1>5. \A a \in DOMAIN services : Revision(a)' = Revision(a)
    BY DEF DropAggregator, Drop, Revision
  <1>6. MembersOfEach' = MembersOfEach /\ RevisionOfEach' = RevisionOfEach
    BY <1>4, <1>5 DEF MembersOfEach, RevisionOfEach
  <1>7. EverListed' = EverListed
    BY <1>2, <1>3 DEF EverListed
  <1> QED
    BY <1>2, <1>6, <1>7 DEF Collection!collectionVars

\* createService lists a service that has never been listed, or panics.
LEMMA RefineInsert ==
  ASSUME IInv, NEW r \in Requests, Insert(r)
  PROVE  \/ agg[r] \in DOMAIN services /\ Collection!List(agg[r], sid[r])
         \/ UNCHANGED Collection!collectionVars
  <1>1. Creating(r) /\ op[r] = "createService"
    BY LabelOps DEF Insert, At, IInv, Creating
  <1>2. nextID' = nextID
    BY DEF Insert, counterVars
  <1>3. CASE agg[r] \in DOMAIN services
    <2>1. services' = [services EXCEPT ![agg[r]] = Assign(services[agg[r]], sid[r], update[r])]
      BY <1>3 DEF Insert, StoreService
    <2>2. serviceRevisions' = Assign(serviceRevisions, agg[r], Revision(agg[r]) + 1)
      BY <1>3 DEF Insert, StoreService, BumpRevision
    <2>3. MembersOfEach' = [MembersOfEach EXCEPT ![agg[r]] = MembersOfEach[agg[r]] \cup {sid[r]}]
      BY <1>3, <2>1 DEF MembersOfEach, Assign
    <2>4. RevisionOfEach' = [RevisionOfEach EXCEPT ![agg[r]] = @ + 1]
      BY <1>3, <2>1, <2>2 DEF RevisionOfEach, Revision, Assign
    <2>5. sid[r] \notin EverListed
      BY <1>1 DEF EverListed, Answered, IInv, SafetyInv, CreatorOwnsId, RequestsProgress, Creating
    <2>6. outcome' = [outcome EXCEPT ![r] = "ok"] /\ op' = op /\ sid' = sid
      BY <1>3 DEF Insert, Finish, argVars
    <2>7. EverListed' = EverListed \cup {sid[r]}
      BY <1>1, <2>6 DEF EverListed, Answered, IInv, TypeOK
    <2> QED
      BY <1>2, <1>3, <2>3, <2>4, <2>5, <2>7 DEF Collection!List, Collection!Advance
  <1>4. CASE agg[r] \notin DOMAIN services
    <2>1. outcome' = [outcome EXCEPT ![r] = "panic"] /\ outcome[r] # "ok"
      BY <1>1, <1>4 DEF Insert, Finish, IInv, SafetyInv, RequestsProgress, Creating
    <2>2. UNCHANGED <<services, serviceRevisions, sid, op>>
      BY <1>4 DEF Insert, argVars
    <2>3. \A q \in Requests : Answered(q, "createService")' <=> Answered(q, "createService")
      BY <2>1, <2>2 DEF Answered, IInv, TypeOK
    <2> QED
      BY <1>2, <2>2, <2>3, RefineStutter
  <1> QED
    BY <1>3, <1>4

\* deleteService unlists the service, unless another DELETE already has.
LEMMA RefineDropService ==
  ASSUME IInv, NEW r \in Requests, DropService(r)
  PROVE  \/ agg[r] \in DOMAIN services /\ Collection!Unlist(agg[r], sid[r])
         \/ UNCHANGED Collection!collectionVars
  <1>1. op[r] = "deleteService"
    BY LabelOps DEF DropService, At, IInv
  <1>2. UNCHANGED <<nextID, sid, op>>
    BY DEF DropService, counterVars, argVars
  <1>3. \A q \in Requests : Answered(q, "createService")' <=> Answered(q, "createService")
    BY <1>1, <1>2 DEF DropService, Finish, Answered, IInv, TypeOK
  <1>4. CASE Listed(agg[r], sid[r])
    <2>1. agg[r] \in DOMAIN services /\ sid[r] \in DOMAIN services[agg[r]]
      BY <1>4 DEF Listed, Members
    <2>2. services' = [services EXCEPT ![agg[r]] = Drop(services[agg[r]], sid[r])]
      BY <1>4 DEF DropService, StillListed
    <2>3. serviceRevisions' = Assign(serviceRevisions, agg[r], Revision(agg[r]) + 1)
      BY <1>4 DEF DropService, StillListed, BumpRevision
    <2>4. MembersOfEach' = [MembersOfEach EXCEPT ![agg[r]] = MembersOfEach[agg[r]] \ {sid[r]}]
      BY <2>1, <2>2 DEF MembersOfEach, Drop
    <2>5. RevisionOfEach' = [RevisionOfEach EXCEPT ![agg[r]] = @ + 1]
      BY <2>1, <2>2, <2>3 DEF RevisionOfEach, Revision, Assign
    <2>6. sid[r] \in MembersOfEach[agg[r]]
      BY <2>1 DEF MembersOfEach
    <2>7. EverListed' = EverListed
      BY <1>2, <1>3 DEF EverListed
    <2> QED
      BY <1>2, <2>1, <2>4, <2>5, <2>6, <2>7 DEF Collection!Unlist, Collection!Advance
  <1>5. CASE ~Listed(agg[r], sid[r])
    <2>1. UNCHANGED <<services, serviceRevisions>>
      BY <1>5 DEF DropService, StillListed
    <2> QED
      BY <1>2, <1>3, <2>1, RefineStutter
  <1> QED
    BY <1>4, <1>5

\* A rematerialization refreshes a listed service, or finds it gone.
LEMMA RefineRefresh ==
  ASSUME IInv, NEW r \in Requests, Refresh(r)
  PROVE  \/ agg[r] \in DOMAIN services /\ Collection!Refresh(agg[r])
         \/ UNCHANGED Collection!collectionVars
  <1>1. UNCHANGED <<nextID, sid, op, outcome>>
    BY DEF Refresh, counterVars, argVars, Goto
  <1>2. \A q \in Requests : Answered(q, "createService")' <=> Answered(q, "createService")
    BY <1>1 DEF Answered
  <1>3. CASE Listed(agg[r], sid[r])
    <2>1. agg[r] \in DOMAIN services /\ sid[r] \in DOMAIN services[agg[r]]
      BY <1>3 DEF Listed, Members
    <2>2. services' = [services EXCEPT ![agg[r]] = Assign(services[agg[r]], sid[r], update[r])]
      BY <1>3 DEF Refresh, StillListed, StoreService
    <2>3. serviceRevisions' = Assign(serviceRevisions, agg[r], Revision(agg[r]) + 1)
      BY <1>3 DEF Refresh, StillListed, StoreService, BumpRevision
    <2>4. MembersOfEach' = [MembersOfEach EXCEPT ![agg[r]] = MembersOfEach[agg[r]]]
      BY <2>1, <2>2 DEF MembersOfEach, Assign
    <2>5. RevisionOfEach' = [RevisionOfEach EXCEPT ![agg[r]] = @ + 1]
      BY <2>1, <2>2, <2>3 DEF RevisionOfEach, Revision, Assign
    <2>6. MembersOfEach[agg[r]] # {}
      BY <2>1 DEF MembersOfEach
    <2>7. EverListed' = EverListed
      BY <1>1, <1>2 DEF EverListed
    <2> QED
      BY <1>1, <2>1, <2>4, <2>5, <2>6, <2>7 DEF Collection!Refresh, Collection!Advance
  <1>4. CASE ~Listed(agg[r], sid[r])
    <2>1. UNCHANGED <<services, serviceRevisions>>
      BY <1>4 DEF Refresh, StillListed
    <2> QED
      BY <1>1, <1>2, <2>1, RefineStutter
  <1> QED
    BY <1>3, <1>4

\* The other steps change nothing a client can see of a collection.
LEMMA RefineOther ==
  ASSUME IInv, NEW r \in Requests,
         \/ Dispatch(r) \/ Reserve(r) \/ Lookup(r)
         \/ ReadETag(r) \/ ReadList(r) \/ QuietStep(r)
  PROVE  UNCHANGED Collection!collectionVars
  <1>1. UNCHANGED <<services, serviceRevisions, nextID, op>>
    BY DEF Dispatch, Reserve, Lookup, ReadETag, ReadList, QuietStep, counterVars, collectionVars, argVars
  <1>2. \A q \in Requests : Answered(q, "createService")' <=> Answered(q, "createService")
    <2>1. CASE Dispatch(r) \/ Reserve(r)
      BY <2>1 DEF Dispatch, Reserve, Goto, Answered
    <2>2. CASE Lookup(r) \/ ReadETag(r) \/ ReadList(r)
      <3>1. op[r] # "createService" /\ op' = op
        BY <2>2 DEF Lookup, ReadETag, ReadList, At, argVars, IInv, TypeOK, LabelsOf
      <3> QED
        BY <2>2, <3>1 DEF Lookup, ReadETag, ReadList, Goto, Finish, Answered, IInv, TypeOK
    <2>3. CASE QuietStep(r)
      BY <2>3 DEF QuietStep, Answered, argVars, IInv, TypeOK, SafetyInv, RequestsProgress
    <2> QED
      BY <2>1, <2>2, <2>3
  <1>3. EverListed' = EverListed
    <2>1. \A q \in Requests : Answered(q, "createService") => sid'[q] = sid[q]
      BY DEF Dispatch, Reserve, Lookup, ReadETag, ReadList, QuietStep, argVars, At, Answered,
             IInv, TypeOK, SafetyInv, RequestsProgress
    <2> QED
      BY <1>1, <1>2, <2>1 DEF EverListed
  <1>4. MembersOfEach' = MembersOfEach /\ RevisionOfEach' = RevisionOfEach
    BY <1>1 DEF MembersOfEach, RevisionOfEach, Revision
  <1> QED
    BY <1>1, <1>3, <1>4 DEF Collection!collectionVars

\* Every step of the server is a step of the collections, or none.
LEMMA RefineStep == IInv /\ [Next]_vars => [Collection!Next]_(Collection!collectionVars)
  <1> SUFFICES ASSUME IInv, [Next]_vars PROVE [Collection!Next]_(Collection!collectionVars)
    OBVIOUS
  <1>1. DOMAIN MembersOfEach = DOMAIN services
    BY DEF MembersOfEach
  <1>2. TypeOK
    BY DEF IInv
  <1>3. ASSUME NEW r \in Requests, Provision(r) PROVE Collection!Next
    <2>1. nextID \in Ids
      BY <1>3 DEF Provision
    <2> QED
      BY <1>3, <2>1, RefineProvision DEF Collection!Next
  <1>4. ASSUME NEW r \in Requests, DropAggregator(r) PROVE [Collection!Next]_(Collection!collectionVars)
    <2>1. CASE agg[r] \in DOMAIN services
      BY <1>1, <1>4, <2>1, RefineDropAggregator DEF Collection!Next, Collection!Live
    <2>2. CASE agg[r] \notin DOMAIN services
      BY <1>4, <2>2, RefineDropAgain
    <2> QED
      BY <2>1, <2>2
  <1>5. ASSUME NEW r \in Requests, Insert(r) PROVE [Collection!Next]_(Collection!collectionVars)
    <2>1. sid[r] \in Ids
      BY <1>2, <1>5, LabelOps DEF Insert, At, TypeOK, NamesService
    <2> QED
      BY <1>1, <1>5, <2>1, RefineInsert DEF Collection!Next, Collection!Live
  <1>6. ASSUME NEW r \in Requests, DropService(r) PROVE [Collection!Next]_(Collection!collectionVars)
    <2>1. sid[r] \in Ids
      BY <1>2, <1>6, LabelOps DEF DropService, At, TypeOK, NamesService
    <2> QED
      BY <1>1, <1>6, <2>1, RefineDropService DEF Collection!Next, Collection!Live
  <1>7. ASSUME NEW r \in Requests, Refresh(r) PROVE [Collection!Next]_(Collection!collectionVars)
    BY <1>1, <1>7, RefineRefresh DEF Collection!Next, Collection!Live
  <1>8. ASSUME NEW r \in Requests,
               Dispatch(r) \/ Reserve(r) \/ Lookup(r) \/ ReadETag(r) \/ ReadList(r) \/ QuietStep(r)
        PROVE  UNCHANGED Collection!collectionVars
    BY <1>8, RefineOther
  <1>9. CASE UNCHANGED serverVars
    BY <1>9, RefineStutter DEF serverVars, counterVars, collectionVars, argVars, Answered
  <1> QED
    BY <1>2, <1>3, <1>4, <1>5, <1>6, <1>7, <1>8, <1>9, StepCases

\* Whatever the requests, their interleaving and the faults, clients see the
\* service collections ServiceCollection specifies.
THEOREM Refinement == Spec => ImplementsCollection
  BY RefineInit, RefineStep, Invariance, PTL DEF Spec, ImplementsCollection, Collection!Spec
=============================================================================
