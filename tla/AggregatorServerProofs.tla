----------------------- MODULE AggregatorServerProofs -----------------------
(***************************************************************************)
(* Proofs about AggregatorServer for every set of requests, every          *)
(* workload, both modes of the server and every combination of faults:     *)
(* type correctness, the inductive invariant of AggregatorServerInvariant, *)
(* the safety properties that follow from it, and that the server          *)
(* implements ServiceCollection.                                           *)
(***************************************************************************)
EXTENDS AggregatorServerInvariant, TLAPS

(***************************************************************************)
(* Type correctness                                                        *)
(***************************************************************************)
\* Every initial state has the types of the fields of Server and of the
\* requests.
LEMMA TypeInit == Init => TypeOK
  BY RequestsAssumption
  DEF Init, TypeOK, EmptyMap, Updates, Labels, LabelsOf, Ops, Outcomes, NamesService

\* Every step of every handler keeps them.
LEMMA TypeStep == TypeOK /\ [Next]_vars => TypeOK'
  <1> SUFFICES ASSUME TypeOK, [Next]_vars PROVE TypeOK'
    OBVIOUS
  <1>0. silent' \subseteq Requests
    BY DEF TypeOK, Next, NoAnswer, vars
  <1> USE <1>0, IdsAssumption, RequestsAssumption DEF Goto, Finish, At, Free, Updates, DerivationIds, Labels, LabelsOf, Ops, Outcomes, NamesService, counterVars, collectionVars, backingVars, argVars, localVars
  <1>1. ASSUME NEW r \in Requests, Provision(r) PROVE TypeOK'
    BY <1>1 DEF TypeOK, Provision, OpenCollection, Assign, EmptyMap
  <1>2. ASSUME NEW r \in Requests, Dispatch(r) PROVE TypeOK'
    BY <1>2 DEF TypeOK, Dispatch, FirstLabel
  <1>3. ASSUME NEW r \in Requests, Refuse(r) PROVE TypeOK'
    BY <1>3 DEF TypeOK, Refuse
  <1>4. ASSUME NEW r \in Requests, RegisterAggregator(r) PROVE TypeOK'
    BY <1>4 DEF TypeOK, RegisterAggregator, RegisterAtAS, AggregatorResources, Resources
  <1>5. ASSUME NEW r \in Requests, UnregisterAggregator(r) PROVE TypeOK'
    BY <1>5 DEF TypeOK, UnregisterAggregator, UnregisterAtAS
  <1>6. ASSUME NEW r \in Requests, DropAggregator(r) PROVE TypeOK'
    BY <1>6 DEF TypeOK, DropAggregator, Drop
  <1>7. ASSUME NEW r \in Requests, Reserve(r) PROVE TypeOK'
    BY <1>7 DEF TypeOK, Reserve
  <1>8. ASSUME NEW r \in Requests, ClearOutput(r) PROVE TypeOK'
    BY <1>8 DEF TypeOK, ClearOutput, OutputOf, DirectoriesOf
  <1>9. ASSUME NEW r \in Requests, WriteOutput(r) PROVE TypeOK'
    BY <1>9 DEF TypeOK, WriteOutput, OutputOf
  <1>10. ASSUME NEW r \in Requests, RegisterService(r) PROVE TypeOK'
    BY <1>10 DEF TypeOK, RegisterService, RegisterAtAS, Resources
  <1>11. ASSUME NEW r \in Requests, StoreAsset(r) PROVE TypeOK'
    BY <1>11 DEF TypeOK, StoreAsset, Assign
  <1>12. ASSUME NEW r \in Requests, RegisterOutput(r) PROVE TypeOK'
    BY <1>12 DEF TypeOK, RegisterOutput, RegisterAtAS, Resources
  <1>13. ASSUME NEW r \in Requests, PutDerivation(r) PROVE TypeOK'
    BY <1>13 DEF TypeOK, PutDerivation, NamedBy, PutAtUAS, FailUpdate, Updated
  <1>14. ASSUME NEW r \in Requests, UpdateResource(r) PROVE TypeOK'
    BY <1>14 DEF TypeOK, UpdateResource, FailUpdate, Updated
  <1>15. ASSUME NEW r \in Requests, StoreDerivedFrom(r) PROVE TypeOK'
    BY <1>15 DEF TypeOK, StoreDerivedFrom, Assign, Updated
  <1>16. ASSUME NEW r \in Requests, Insert(r) PROVE TypeOK'
    BY <1>16 DEF TypeOK, Insert, StoreService, BumpRevision, Revision, Assign
  <1>17. ASSUME NEW r \in Requests, Lookup(r) PROVE TypeOK'
    BY <1>17 DEF TypeOK, Lookup, Members
  <1>18. ASSUME NEW r \in Requests, RemoveFile(r) PROVE TypeOK'
    BY <1>18 DEF TypeOK, RemoveFile, OutputOf
  <1>19. ASSUME NEW r \in Requests, UnregisterService(r) PROVE TypeOK'
    BY <1>19 DEF TypeOK, UnregisterService, UnregisterAtAS
  <1>20. ASSUME NEW r \in Requests, Cleanup(r) PROVE TypeOK'
    BY <1>20 DEF TypeOK, Cleanup, ToRemove, Drop
  <1>21. ASSUME NEW r \in Requests, DeleteDerivation(r) PROVE TypeOK'
    BY <1>21 DEF TypeOK, DeleteDerivation, Unlock
  <1>22. ASSUME NEW r \in Requests, DropService(r) PROVE TypeOK'
    BY <1>22 DEF TypeOK, DropService, BumpRevision, Revision, Assign, Drop
  <1>23. ASSUME NEW r \in Requests, Authorize(r) PROVE TypeOK'
    BY <1>23 DEF TypeOK, Authorize
  <1>24. ASSUME NEW r \in Requests, Validate(r) PROVE TypeOK'
    BY <1>24 DEF TypeOK, Validate
  <1>25. ASSUME NEW r \in Requests, Refresh(r) PROVE TypeOK'
    BY <1>25 DEF TypeOK, Refresh, StoreService, BumpRevision, Revision, Assign
  <1>26. ASSUME NEW r \in Requests, Reauthorize(r) PROVE TypeOK'
    BY <1>26 DEF TypeOK, Reauthorize
  <1>27. ASSUME NEW r \in Requests, Serve(r) PROVE TypeOK'
    BY <1>27 DEF TypeOK, Serve
  <1>28. ASSUME NEW r \in Requests, ReadETag(r) PROVE TypeOK'
    BY <1>28 DEF TypeOK, ReadETag, Revision
  <1>29. ASSUME NEW r \in Requests, ReadList(r) PROVE TypeOK'
    BY <1>29 DEF TypeOK, ReadList, Members
  <1>30. CASE UNCHANGED serverVars
    BY <1>30 DEF TypeOK, serverVars
  <1> QED
    BY <1>1, <1>2, <1>3, <1>4, <1>5, <1>6, <1>7, <1>8, <1>9, <1>10, <1>11, <1>12, <1>13, <1>14, <1>15, <1>16, <1>17, <1>18, <1>19, <1>20, <1>21, <1>22, <1>23, <1>24, <1>25, <1>26, <1>27, <1>28, <1>29, <1>30 DEF Next, Step, Run, NoAnswer, vars

\* TypeOK holds in every state the server can reach.
THEOREM TypeCorrect == Spec => []TypeOK
  BY TypeInit, TypeStep, PTL DEF Spec
-----------------------------------------------------------------------------
(***************************************************************************)
(* The inductive invariant. Most steps are quiet: they move one request    *)
(* forward, or answer it, and touch neither the collections nor what any   *)
(* request knows of them. The ten others get a step each in every lemma.   *)
(***************************************************************************)
\* A step that leaves the collections, the ids and what requests know alone.
QuietStep(r) ==
  /\ UNCHANGED <<counterVars, collectionVars, argVars, etag, body>>
  /\ pc' = [pc EXCEPT ![r] = pc'[r]]
  /\ outcome' = [outcome EXCEPT ![r] = outcome'[r]]
  /\ pc[r] # "done" /\ pc'[r] \notin {"idle", "reserve", "readList"}
  /\ pc[r] \in {"idle", "reserve"} => pc'[r] = "done"
  /\ IF pc'[r] = "done" THEN outcome'[r] \notin {"pending", "panic"} ELSE UNCHANGED outcome
  /\ outcome'[r] = "ok" => outcome[r] = "ok" \/ op[r] \in {"provision", "getOutput"}

\* The steps outside the critical sections that read or write the collections
\* are quiet.
LEMMA QuietSteps ==
  ASSUME TypeOK, NEW r \in Requests,
         \/ Refuse(r)
         \/ RegisterAggregator(r)
         \/ UnregisterAggregator(r)
         \/ ClearOutput(r)
         \/ WriteOutput(r)
         \/ RegisterService(r)
         \/ StoreAsset(r)
         \/ RegisterOutput(r)
         \/ PutDerivation(r)
         \/ UpdateResource(r)
         \/ StoreDerivedFrom(r)
         \/ RemoveFile(r)
         \/ UnregisterService(r)
         \/ Cleanup(r)
         \/ DeleteDerivation(r)
         \/ Authorize(r)
         \/ Validate(r)
         \/ Reauthorize(r)
         \/ Serve(r)
  PROVE QuietStep(r)
  <1> USE DEF TypeOK, LabelsOf, Labels, QuietStep, Goto, Finish, At, counterVars, collectionVars, backingVars, argVars, localVars, Outcomes, Ops
  <1>1. CASE Refuse(r)
    BY <1>1 DEF Refuse
  <1>2. CASE RegisterAggregator(r)
    BY <1>2 DEF RegisterAggregator
  <1>3. CASE UnregisterAggregator(r)
    BY <1>3 DEF UnregisterAggregator
  <1>4. CASE ClearOutput(r)
    BY <1>4 DEF ClearOutput
  <1>5. CASE WriteOutput(r)
    BY <1>5 DEF WriteOutput
  <1>6. CASE RegisterService(r)
    BY <1>6 DEF RegisterService
  <1>7. CASE StoreAsset(r)
    BY <1>7 DEF StoreAsset
  <1>8. CASE RegisterOutput(r)
    BY <1>8 DEF RegisterOutput
  <1>9. CASE PutDerivation(r)
    BY <1>9 DEF PutDerivation, FailUpdate, Updated
  <1>10. CASE UpdateResource(r)
    BY <1>10 DEF UpdateResource, FailUpdate, Updated
  <1>11. CASE StoreDerivedFrom(r)
    BY <1>11 DEF StoreDerivedFrom, Updated
  <1>12. CASE RemoveFile(r)
    BY <1>12 DEF RemoveFile
  <1>13. CASE UnregisterService(r)
    BY <1>13 DEF UnregisterService
  <1>14. CASE Cleanup(r)
    BY <1>14 DEF Cleanup
  <1>15. CASE DeleteDerivation(r)
    BY <1>15 DEF DeleteDerivation
  <1>16. CASE Authorize(r)
    BY <1>16 DEF Authorize
  <1>17. CASE Validate(r)
    BY <1>17 DEF Validate
  <1>18. CASE Reauthorize(r)
    BY <1>18 DEF Reauthorize
  <1>19. CASE Serve(r)
    BY <1>19 DEF Serve
  <1> QED
    BY <1>1, <1>2, <1>3, <1>4, <1>5, <1>6, <1>7, <1>8, <1>9, <1>10, <1>11, <1>12, <1>13, <1>14, <1>15, <1>16, <1>17, <1>18, <1>19

\* Every step is quiet or one of the ten.
LEMMA StepCases ==
  TypeOK /\ [Next]_vars =>
    \/ \E r \in Requests :
         \/ Provision(r)
         \/ Dispatch(r)
         \/ DropAggregator(r)
         \/ Reserve(r)
         \/ Insert(r)
         \/ Lookup(r)
         \/ DropService(r)
         \/ Refresh(r)
         \/ ReadETag(r)
         \/ ReadList(r)
         \/ QuietStep(r)
    \/ UNCHANGED serverVars
  BY QuietSteps DEF Next, Step, Run, NoAnswer, vars

\* Where a request stands tells which operation it is.
LEMMA LabelOps ==
  ASSUME TypeOK, NEW r \in Requests
  PROVE  /\ pc[r] = "insert" => op[r] = "createService"
         /\ pc[r] = "dropService" => op[r] = "deleteService"
         /\ pc[r] = "dropAggregator" => op[r] = "deleteAggregator"
  BY DEF TypeOK, Ops, LabelsOf

\* createService adds its own service to the list of its own aggregator, and
\* nothing else to any list.
LEMMA InsertMembers ==
  ASSUME TypeOK, NEW r \in Requests, Insert(r)
  PROVE  /\ DOMAIN services' = DOMAIN services
         /\ \A a \in DOMAIN services : DOMAIN services'[a] \subseteq DOMAIN services[a] \cup {sid[r]}
         /\ \A a \in DOMAIN services : a # agg[r] => DOMAIN services'[a] = DOMAIN services[a]
  BY DEF TypeOK, Insert, StoreService, Assign

\* A request leaves "idle" knowing its aggregator, and is answered when it is
\* done: each handler returns right after it writes its response.
LEMMA RequestsProgressStep == IInv /\ TypeOK' /\ [Next]_vars => RequestsProgress'
  <1> SUFFICES ASSUME IInv, TypeOK', [Next]_vars PROVE RequestsProgress'
    OBVIOUS
  <1> USE IdsAssumption DEF IInv, SafetyInv, TypeOK, NamesService, LabelsOf, RequestsProgress, counterVars, collectionVars, argVars, localVars
  <1>1. ASSUME NEW r \in Requests, Provision(r) PROVE RequestsProgress'
    BY <1>1 DEF Provision, OpenCollection, Assign, EmptyMap, Goto, At
  <1>2. ASSUME NEW r \in Requests, Dispatch(r) PROVE RequestsProgress'
    <2>1. pc[r] = "idle" /\ pc'[r] \notin {"idle", "done"} /\ sid' = sid
      BY <1>2 DEF Dispatch, FirstLabel, Goto, At, Ops
    <2>2. /\ pc' = [pc EXCEPT ![r] = pc'[r]] /\ UNCHANGED <<outcome, sid>>
          /\ \A q \in Requests : q # r => agg'[q] = agg[q]
      BY <1>2 DEF Dispatch, Goto
    <2> QED
      BY <2>1, <2>2
  <1>3. ASSUME NEW r \in Requests, DropAggregator(r) PROVE RequestsProgress'
    BY <1>3 DEF DropAggregator, Drop, Finish, At
  <1>4. ASSUME NEW r \in Requests, Reserve(r) PROVE RequestsProgress'
    BY <1>4 DEF Reserve, Goto, At
  <1>5. ASSUME NEW r \in Requests, Insert(r) PROVE RequestsProgress'
    BY <1>5 DEF Insert, StoreService, BumpRevision, Revision, Assign, Finish, At
  <1>6. ASSUME NEW r \in Requests, Lookup(r) PROVE RequestsProgress'
    BY <1>6 DEF Lookup, Members, Goto, Finish, At
  <1>7. ASSUME NEW r \in Requests, DropService(r) PROVE RequestsProgress'
    BY <1>7 DEF DropService, StillListed, Listed, Members, BumpRevision, Revision, Assign, Drop, Finish, At
  <1>8. ASSUME NEW r \in Requests, Refresh(r) PROVE RequestsProgress'
    BY <1>8 DEF Refresh, StillListed, Listed, Members, StoreService, BumpRevision, Revision, Assign, Goto, At
  <1>9. ASSUME NEW r \in Requests, ReadETag(r) PROVE RequestsProgress'
    BY <1>9 DEF ReadETag, Revision, Goto, Finish, At
  <1>10. ASSUME NEW r \in Requests, ReadList(r) PROVE RequestsProgress'
    BY <1>10 DEF ReadList, Members, Finish, At
  <1>11. ASSUME NEW r \in Requests, QuietStep(r) PROVE RequestsProgress'
    BY <1>11 DEF QuietStep
  <1>12. CASE UNCHANGED serverVars
    BY <1>12 DEF serverVars
  <1> QED
    BY <1>1, <1>2, <1>3, <1>4, <1>5, <1>6, <1>7, <1>8, <1>9, <1>10, <1>11, <1>12, StepCases

\* No handler uses an id that createAggregator or reserveServiceID did not
\* hand out.
LEMMA IdsWereHandedOutStep == IInv /\ TypeOK' /\ [Next]_vars => IdsWereHandedOut'
  <1> SUFFICES ASSUME IInv, TypeOK', [Next]_vars PROVE IdsWereHandedOut'
    OBVIOUS
  <1> USE IdsAssumption DEF IInv, SafetyInv, TypeOK, NamesService, LabelsOf, IdsWereHandedOut, counterVars, collectionVars, argVars, localVars
  <1>1. ASSUME NEW r \in Requests, Provision(r) PROVE IdsWereHandedOut'
    <2>1. \A a \in aggregators' : a < nextID'
      BY <1>1 DEF Provision
    <2>2. \A a \in DOMAIN services' : services'[a] = IF a = nextID THEN EmptyMap ELSE services[a]
      BY <1>1 DEF Provision, OpenCollection, Assign
    <2>3. \A a \in DOMAIN services' : a = nextID \/ a \in DOMAIN services
      BY <1>1 DEF Provision, OpenCollection, Assign
    <2>4. \A a \in DOMAIN services' : \A s \in DOMAIN services'[a] : s < nextServiceID'
      BY <2>2, <2>3, <1>1 DEF Provision, EmptyMap
    <2>5. \A q \in Requests : agg'[q] < nextID' /\ sid'[q] < nextServiceID'
      BY <1>1 DEF Provision
    <2> QED
      BY <2>1, <2>4, <2>5
  <1>2. ASSUME NEW r \in Requests, Dispatch(r) PROVE IdsWereHandedOut'
    BY <1>2 DEF Dispatch, FirstLabel, Ops, Goto, At
  <1>3. ASSUME NEW r \in Requests, DropAggregator(r) PROVE IdsWereHandedOut'
    BY <1>3 DEF DropAggregator, Drop, Finish, At
  <1>4. ASSUME NEW r \in Requests, Reserve(r) PROVE IdsWereHandedOut'
    BY <1>4 DEF Reserve, Goto, At
  <1>5. ASSUME NEW r \in Requests, Insert(r) PROVE IdsWereHandedOut'
    <2>0. /\ DOMAIN services' = DOMAIN services
          /\ \A a \in DOMAIN services : DOMAIN services'[a] \subseteq DOMAIN services[a] \cup {sid[r]}
          /\ \A a \in DOMAIN services : a # agg[r] => DOMAIN services'[a] = DOMAIN services[a]
      BY <1>5, InsertMembers
    <2>1. \A a \in DOMAIN services' : \A s \in DOMAIN services'[a] : s < nextServiceID'
      BY <2>0, <1>5 DEF Insert
    <2> QED
      BY <2>1, <1>5 DEF Insert
  <1>6. ASSUME NEW r \in Requests, Lookup(r) PROVE IdsWereHandedOut'
    BY <1>6 DEF Lookup, Members, Goto, Finish, At
  <1>7. ASSUME NEW r \in Requests, DropService(r) PROVE IdsWereHandedOut'
    BY <1>7 DEF DropService, StillListed, Listed, Members, BumpRevision, Revision, Assign, Drop, Finish, At
  <1>8. ASSUME NEW r \in Requests, Refresh(r) PROVE IdsWereHandedOut'
    BY <1>8 DEF Refresh, StillListed, Listed, Members, StoreService, BumpRevision, Revision, Assign, Goto, At
  <1>9. ASSUME NEW r \in Requests, ReadETag(r) PROVE IdsWereHandedOut'
    BY <1>9 DEF ReadETag, Revision, Goto, Finish, At
  <1>10. ASSUME NEW r \in Requests, ReadList(r) PROVE IdsWereHandedOut'
    BY <1>10 DEF ReadList, Members, Finish, At
  <1>11. ASSUME NEW r \in Requests, QuietStep(r) PROVE IdsWereHandedOut'
    BY <1>11 DEF QuietStep
  <1>12. CASE UNCHANGED serverVars
    BY <1>12 DEF serverVars
  <1> QED
    BY <1>1, <1>2, <1>3, <1>4, <1>5, <1>6, <1>7, <1>8, <1>9, <1>10, <1>11, <1>12, StepCases

\* Only createAggregator and deleteAggregator change which collections exist;
\* the handlers that write a list check that it is still there.
LEMMA CollectionsMatchAggregatorsStep == IInv /\ TypeOK' /\ [Next]_vars => CollectionsMatchAggregators'
  <1> SUFFICES ASSUME IInv, TypeOK', [Next]_vars PROVE CollectionsMatchAggregators'
    OBVIOUS
  <1> USE IdsAssumption DEF IInv, SafetyInv, TypeOK, NamesService, LabelsOf, CollectionsMatchAggregators, counterVars, collectionVars, argVars, localVars
  <1>1. ASSUME NEW r \in Requests, Provision(r) PROVE CollectionsMatchAggregators'
    BY <1>1 DEF Provision, OpenCollection, Assign, EmptyMap, Goto, At
  <1>2. ASSUME NEW r \in Requests, Dispatch(r) PROVE CollectionsMatchAggregators'
    BY <1>2 DEF Dispatch, FirstLabel, Ops, Goto, At
  <1>3. ASSUME NEW r \in Requests, DropAggregator(r) PROVE CollectionsMatchAggregators'
    BY <1>3 DEF DropAggregator, Drop, Finish, At
  <1>4. ASSUME NEW r \in Requests, Reserve(r) PROVE CollectionsMatchAggregators'
    BY <1>4 DEF Reserve, Goto, At
  <1>5. ASSUME NEW r \in Requests, Insert(r) PROVE CollectionsMatchAggregators'
    BY <1>5 DEF Insert, StoreService, BumpRevision, Revision, Assign, Finish, At
  <1>6. ASSUME NEW r \in Requests, Lookup(r) PROVE CollectionsMatchAggregators'
    BY <1>6 DEF Lookup, Members, Goto, Finish, At
  <1>7. ASSUME NEW r \in Requests, DropService(r) PROVE CollectionsMatchAggregators'
    BY <1>7 DEF DropService, StillListed, Listed, Members, BumpRevision, Revision, Assign, Drop, Finish, At
  <1>8. ASSUME NEW r \in Requests, Refresh(r) PROVE CollectionsMatchAggregators'
    BY <1>8 DEF Refresh, StillListed, Listed, Members, StoreService, BumpRevision, Revision, Assign, Goto, At
  <1>9. ASSUME NEW r \in Requests, ReadETag(r) PROVE CollectionsMatchAggregators'
    BY <1>9 DEF ReadETag, Revision, Goto, Finish, At
  <1>10. ASSUME NEW r \in Requests, ReadList(r) PROVE CollectionsMatchAggregators'
    BY <1>10 DEF ReadList, Members, Finish, At
  <1>11. ASSUME NEW r \in Requests, QuietStep(r) PROVE CollectionsMatchAggregators'
    BY <1>11 DEF QuietStep
  <1>12. CASE UNCHANGED serverVars
    BY <1>12 DEF serverVars
  <1> QED
    BY <1>1, <1>2, <1>3, <1>4, <1>5, <1>6, <1>7, <1>8, <1>9, <1>10, <1>11, <1>12, StepCases

\* A reserved id stays with its POST: no other request can look it up before
\* createService lists it.
LEMMA CreatorOwnsIdStep == IInv /\ TypeOK' /\ [Next]_vars => CreatorOwnsId'
  <1> SUFFICES ASSUME IInv, TypeOK', [Next]_vars PROVE CreatorOwnsId'
    OBVIOUS
  <1> USE IdsAssumption DEF IInv, SafetyInv, TypeOK, NamesService, LabelsOf, CreatorOwnsId, Creating, IdsWereHandedOut, counterVars, collectionVars, argVars, localVars
  <1>1. ASSUME NEW r \in Requests, Provision(r) PROVE CreatorOwnsId'
    BY <1>1 DEF Provision, OpenCollection, Assign, EmptyMap, Goto, At
  <1>2. ASSUME NEW r \in Requests, Dispatch(r) PROVE CreatorOwnsId'
    BY <1>2 DEF Dispatch, FirstLabel, Ops, Goto, At
  <1>3. ASSUME NEW r \in Requests, DropAggregator(r) PROVE CreatorOwnsId'
    BY <1>3 DEF DropAggregator, Drop, Finish, At
  <1>4. ASSUME NEW r \in Requests, Reserve(r) PROVE CreatorOwnsId'
    BY <1>4 DEF Reserve, Goto, At
  <1>5. ASSUME NEW r \in Requests, Insert(r) PROVE CreatorOwnsId'
    BY <1>5 DEF Insert, StoreService, BumpRevision, Revision, Assign, Finish, At
  <1>6. ASSUME NEW r \in Requests, Lookup(r) PROVE CreatorOwnsId'
    BY <1>6 DEF Lookup, Members, Goto, Finish, At
  <1>7. ASSUME NEW r \in Requests, DropService(r) PROVE CreatorOwnsId'
    BY <1>7 DEF DropService, StillListed, Listed, Members, BumpRevision, Revision, Assign, Drop, Finish, At
  <1>8. ASSUME NEW r \in Requests, Refresh(r) PROVE CreatorOwnsId'
    BY <1>8 DEF Refresh, StillListed, Listed, Members, StoreService, BumpRevision, Revision, Assign, Goto, At
  <1>9. ASSUME NEW r \in Requests, ReadETag(r) PROVE CreatorOwnsId'
    BY <1>9 DEF ReadETag, Revision, Goto, Finish, At
  <1>10. ASSUME NEW r \in Requests, ReadList(r) PROVE CreatorOwnsId'
    BY <1>10 DEF ReadList, Members, Finish, At
  <1>11. ASSUME NEW r \in Requests, QuietStep(r) PROVE CreatorOwnsId'
    BY <1>11 DEF QuietStep
  <1>12. CASE UNCHANGED serverVars
    BY <1>12 DEF serverVars
  <1> QED
    BY <1>1, <1>2, <1>3, <1>4, <1>5, <1>6, <1>7, <1>8, <1>9, <1>10, <1>11, <1>12, StepCases

\* A service is listed under the aggregator its POST named, and under no other.
LEMMA OneHomeStep == IInv /\ TypeOK' /\ [Next]_vars => OneHome'
  <1> SUFFICES ASSUME IInv, TypeOK', [Next]_vars PROVE OneHome'
    OBVIOUS
  <1> USE IdsAssumption DEF IInv, SafetyInv, TypeOK, NamesService, LabelsOf, OneHome, RequestsProgress, IdsWereHandedOut, CreatorOwnsId, Creating, counterVars, collectionVars, argVars, localVars
  <1>1. ASSUME NEW r \in Requests, Provision(r) PROVE OneHome'
    BY <1>1 DEF Provision, OpenCollection, Assign, EmptyMap, Goto, At
  <1>2. ASSUME NEW r \in Requests, Dispatch(r) PROVE OneHome'
    BY <1>2 DEF Dispatch, FirstLabel, Ops, Goto, At
  <1>3. ASSUME NEW r \in Requests, DropAggregator(r) PROVE OneHome'
    BY <1>3 DEF DropAggregator, Drop, Finish, At
  <1>4. ASSUME NEW r \in Requests, Reserve(r) PROVE OneHome'
    BY <1>4 DEF Reserve, Goto, At
  <1>5. ASSUME NEW r \in Requests, Insert(r) PROVE OneHome'
    <2>0. /\ DOMAIN services' = DOMAIN services
          /\ \A a \in DOMAIN services : DOMAIN services'[a] \subseteq DOMAIN services[a] \cup {sid[r]}
          /\ \A a \in DOMAIN services : a # agg[r] => DOMAIN services'[a] = DOMAIN services[a]
      BY <1>5, InsertMembers
    <2>1. \A a \in DOMAIN services : sid[r] \notin DOMAIN services[a]
      BY <1>5, LabelOps DEF Insert, At
    <2>2. \A q \in Requests : sid[q] = sid[r] => q = r
      BY <1>5, LabelOps DEF Insert, At
    <2> QED
      BY <2>1, <2>2, <2>0, <1>5 DEF Insert
  <1>6. ASSUME NEW r \in Requests, Lookup(r) PROVE OneHome'
    BY <1>6 DEF Lookup, Members, Goto, Finish, At
  <1>7. ASSUME NEW r \in Requests, DropService(r) PROVE OneHome'
    BY <1>7 DEF DropService, StillListed, Listed, Members, BumpRevision, Revision, Assign, Drop, Finish, At
  <1>8. ASSUME NEW r \in Requests, Refresh(r) PROVE OneHome'
    BY <1>8 DEF Refresh, StillListed, Listed, Members, StoreService, BumpRevision, Revision, Assign, Goto, At
  <1>9. ASSUME NEW r \in Requests, ReadETag(r) PROVE OneHome'
    BY <1>9 DEF ReadETag, Revision, Goto, Finish, At
  <1>10. ASSUME NEW r \in Requests, ReadList(r) PROVE OneHome'
    BY <1>10 DEF ReadList, Members, Finish, At
  <1>11. ASSUME NEW r \in Requests, QuietStep(r) PROVE OneHome'
    BY <1>11 DEF QuietStep
  <1>12. CASE UNCHANGED serverVars
    BY <1>12 DEF serverVars
  <1> QED
    BY <1>1, <1>2, <1>3, <1>4, <1>5, <1>6, <1>7, <1>8, <1>9, <1>10, <1>11, <1>12, StepCases

\* Once deleteService has removed a service, createService lists another one
\* and handleServiceOutput finds nothing to refresh.
LEMMA DeletedServiceStaysDeletedStep == IInv /\ TypeOK' /\ [Next]_vars => DeletedServiceStaysDeleted'
  <1> SUFFICES ASSUME IInv, TypeOK', [Next]_vars PROVE DeletedServiceStaysDeleted'
    OBVIOUS
  <1> USE IdsAssumption DEF IInv, SafetyInv, TypeOK, NamesService, LabelsOf, DeletedServiceStaysDeleted, OneHome, CreatorOwnsId, Creating, IdsWereHandedOut, CollectionsMatchAggregators, RequestsProgress, Answered, Listed, Members, counterVars, collectionVars, argVars, localVars
  <1>1. ASSUME NEW r \in Requests, Provision(r) PROVE DeletedServiceStaysDeleted'
    BY <1>1 DEF Provision, OpenCollection, Assign, EmptyMap, Goto, At
  <1>2. ASSUME NEW r \in Requests, Dispatch(r) PROVE DeletedServiceStaysDeleted'
    BY <1>2 DEF Dispatch, FirstLabel, Ops, Goto, At
  <1>3. ASSUME NEW r \in Requests, DropAggregator(r) PROVE DeletedServiceStaysDeleted'
    BY <1>3 DEF DropAggregator, Drop, Finish, At
  <1>4. ASSUME NEW r \in Requests, Reserve(r) PROVE DeletedServiceStaysDeleted'
    BY <1>4 DEF Reserve, Goto, At
  <1>5. ASSUME NEW r \in Requests, Insert(r) PROVE DeletedServiceStaysDeleted'
    <2>0. /\ DOMAIN services' = DOMAIN services
          /\ \A a \in DOMAIN services : DOMAIN services'[a] \subseteq DOMAIN services[a] \cup {sid[r]}
          /\ \A a \in DOMAIN services : a # agg[r] => DOMAIN services'[a] = DOMAIN services[a]
      BY <1>5, InsertMembers
    <2>1. \A q \in Requests : sid[q] = sid[r] => q = r
      BY <1>5, LabelOps DEF Insert, At
    <2>2. op[r] = "createService"
      BY <1>5, LabelOps DEF Insert, At
    <2>3. ASSUME NEW q \in Requests, Answered(q, "deleteService")'
          PROVE  q # r /\ Answered(q, "deleteService")
      BY <2>2, <2>3, <1>5 DEF Insert, Finish
    <2> QED
      BY <2>1, <2>3, <2>0, <1>5 DEF Insert
  <1>6. ASSUME NEW r \in Requests, Lookup(r) PROVE DeletedServiceStaysDeleted'
    BY <1>6 DEF Lookup, Goto, Finish, At
  <1>7. ASSUME NEW r \in Requests, DropService(r) PROVE DeletedServiceStaysDeleted'
    <2>1. \A a \in aggregators : Members(a)' \subseteq Members(a) /\ ~Listed(agg[r], sid[r])'
      BY <1>7 DEF DropService, StillListed, Drop
    <2>2. \A a \in aggregators : ~Listed(a, sid[r])'
      BY <2>1, <1>7 DEF DropService, Finish, At
    <2>3. \A q \in Requests : Answered(q, "deleteService")' => q = r \/ Answered(q, "deleteService")
      BY <1>7 DEF DropService, Finish, At
    <2> QED
      BY <2>1, <2>2, <2>3, <1>7 DEF DropService
  <1>8. ASSUME NEW r \in Requests, Refresh(r) PROVE DeletedServiceStaysDeleted'
    BY <1>8 DEF Refresh, StillListed, StoreService, BumpRevision, Revision, Assign, Goto, At
  <1>9. ASSUME NEW r \in Requests, ReadETag(r) PROVE DeletedServiceStaysDeleted'
    BY <1>9 DEF ReadETag, Revision, Goto, Finish, At
  <1>10. ASSUME NEW r \in Requests, ReadList(r) PROVE DeletedServiceStaysDeleted'
    BY <1>10 DEF ReadList, Finish, At
  <1>11. ASSUME NEW r \in Requests, QuietStep(r) PROVE DeletedServiceStaysDeleted'
    BY <1>11 DEF QuietStep
  <1>12. CASE UNCHANGED serverVars
    BY <1>12 DEF serverVars
  <1> QED
    BY <1>1, <1>2, <1>3, <1>4, <1>5, <1>6, <1>7, <1>8, <1>9, <1>10, <1>11, <1>12, StepCases

\* A listed service leaves the list through deleteService or with its
\* aggregator.
LEMMA CreatedServiceIsListedStep == IInv /\ TypeOK' /\ [Next]_vars => CreatedServiceIsListed'
  <1> SUFFICES ASSUME IInv, TypeOK', [Next]_vars PROVE CreatedServiceIsListed'
    OBVIOUS
  <1> USE IdsAssumption DEF IInv, SafetyInv, TypeOK, NamesService, LabelsOf, CreatedServiceIsListed, IdsWereHandedOut, Answered, RequestsProgress, Listed, Members, CollectionsMatchAggregators, counterVars, collectionVars, argVars, localVars
  <1>1. ASSUME NEW r \in Requests, Provision(r) PROVE CreatedServiceIsListed'
    BY <1>1 DEF Provision, OpenCollection, Assign, EmptyMap, Goto, At
  <1>2. ASSUME NEW r \in Requests, Dispatch(r) PROVE CreatedServiceIsListed'
    BY <1>2 DEF Dispatch, FirstLabel, Ops, Goto, At
  <1>3. ASSUME NEW r \in Requests, DropAggregator(r) PROVE CreatedServiceIsListed'
    BY <1>3 DEF DropAggregator, Drop, Finish, At
  <1>4. ASSUME NEW r \in Requests, Reserve(r) PROVE CreatedServiceIsListed'
    BY <1>4 DEF Reserve, Goto, At
  <1>5. ASSUME NEW r \in Requests, Insert(r) PROVE CreatedServiceIsListed'
    BY <1>5 DEF Insert, StoreService, BumpRevision, Revision, Assign, Finish, At
  <1>6. ASSUME NEW r \in Requests, Lookup(r) PROVE CreatedServiceIsListed'
    BY <1>6 DEF Lookup, Goto, Finish, At
  <1>7. ASSUME NEW r \in Requests, DropService(r) PROVE CreatedServiceIsListed'
    <2>0. op[r] = "deleteService"
      BY <1>7, LabelOps DEF DropService, At
    <2>1. Answered(r, "deleteService")'
      BY <2>0, <1>7 DEF DropService, Finish
    <2>2. \A q \in Requests : \A o \in Ops :
            q # r => (Answered(q, o)' <=> Answered(q, o))
      BY <1>7 DEF DropService, Finish
    <2>3. \A a, s : Listed(a, s) /\ s # sid[r] => Listed(a, s)'
      BY <1>7 DEF DropService, Drop, StillListed
    <2>4. SUFFICES ASSUME NEW q \in Requests, Answered(q, "createService")', sid[q] # sid[r]
                   PROVE  \/ Listed(agg[q], sid[q])'
                          \/ agg[q] \notin aggregators
                          \/ \E d \in Requests : Answered(d, "deleteService")' /\ sid[d] = sid[q]
      BY <2>1, <1>7 DEF DropService
    <2>5. Answered(q, "createService")
      BY <2>2, <2>4 DEF Ops
    <2>6. CASE \E d \in Requests : Answered(d, "deleteService") /\ sid[d] = sid[q]
      BY <2>1, <2>2, <2>6 DEF Ops
    <2>7. CASE Listed(agg[q], sid[q]) \/ agg[q] \notin aggregators
      BY <2>3, <2>4, <2>7, <1>7 DEF DropService
    <2> QED
      BY <2>5, <2>6, <2>7
  <1>8. ASSUME NEW r \in Requests, Refresh(r) PROVE CreatedServiceIsListed'
    BY <1>8 DEF Refresh, StillListed, StoreService, BumpRevision, Revision, Assign, Goto, At
  <1>9. ASSUME NEW r \in Requests, ReadETag(r) PROVE CreatedServiceIsListed'
    BY <1>9 DEF ReadETag, Revision, Goto, Finish, At
  <1>10. ASSUME NEW r \in Requests, ReadList(r) PROVE CreatedServiceIsListed'
    BY <1>10 DEF ReadList, Finish, At
  <1>11. ASSUME NEW r \in Requests, QuietStep(r) PROVE CreatedServiceIsListed'
    BY <1>11 DEF QuietStep
  <1>12. CASE UNCHANGED serverVars
    BY <1>12 DEF serverVars
  <1> QED
    BY <1>1, <1>2, <1>3, <1>4, <1>5, <1>6, <1>7, <1>8, <1>9, <1>10, <1>11, <1>12, StepCases

\* An aggregator leaves the map through deleteAggregator.
LEMMA GoneWasDeletedStep == IInv /\ TypeOK' /\ [Next]_vars => GoneWasDeleted'
  <1> SUFFICES ASSUME IInv, TypeOK', [Next]_vars PROVE GoneWasDeleted'
    OBVIOUS
  <1> USE IdsAssumption DEF IInv, SafetyInv, TypeOK, NamesService, LabelsOf, GoneWasDeleted, Answered, CollectionsMatchAggregators, RequestsProgress, IdsWereHandedOut, counterVars, collectionVars, argVars, localVars
  <1>1. ASSUME NEW r \in Requests, Provision(r) PROVE GoneWasDeleted'
    BY <1>1 DEF Provision, OpenCollection, Assign, EmptyMap, Goto, At
  <1>2. ASSUME NEW r \in Requests, Dispatch(r) PROVE GoneWasDeleted'
    BY <1>2 DEF Dispatch, FirstLabel, Ops, Goto, At
  <1>3. ASSUME NEW r \in Requests, DropAggregator(r) PROVE GoneWasDeleted'
    <2>0. op[r] = "deleteAggregator"
      BY <1>3, LabelOps DEF DropAggregator, At
    <2>1. Answered(r, "deleteAggregator")' /\ agg' = agg
      BY <2>0, <1>3 DEF DropAggregator, Finish
    <2>2. \A q \in Requests : Answered(q, "deleteAggregator") => Answered(q, "deleteAggregator")'
      BY <1>3, LabelOps DEF DropAggregator, Finish, At
    <2> QED
      BY <2>1, <2>2, <1>3 DEF DropAggregator
  <1>4. ASSUME NEW r \in Requests, Reserve(r) PROVE GoneWasDeleted'
    BY <1>4 DEF Reserve, Goto, At
  <1>5. ASSUME NEW r \in Requests, Insert(r) PROVE GoneWasDeleted'
    BY <1>5 DEF Insert, StoreService, BumpRevision, Revision, Assign, Finish, At
  <1>6. ASSUME NEW r \in Requests, Lookup(r) PROVE GoneWasDeleted'
    BY <1>6 DEF Lookup, Members, Goto, Finish, At
  <1>7. ASSUME NEW r \in Requests, DropService(r) PROVE GoneWasDeleted'
    BY <1>7 DEF DropService, StillListed, Listed, Members, BumpRevision, Revision, Assign, Drop, Finish, At
  <1>8. ASSUME NEW r \in Requests, Refresh(r) PROVE GoneWasDeleted'
    BY <1>8 DEF Refresh, StillListed, Listed, Members, StoreService, BumpRevision, Revision, Assign, Goto, At
  <1>9. ASSUME NEW r \in Requests, ReadETag(r) PROVE GoneWasDeleted'
    BY <1>9 DEF ReadETag, Revision, Goto, Finish, At
  <1>10. ASSUME NEW r \in Requests, ReadList(r) PROVE GoneWasDeleted'
    BY <1>10 DEF ReadList, Members, Finish, At
  <1>11. ASSUME NEW r \in Requests, QuietStep(r) PROVE GoneWasDeleted'
    BY <1>11 DEF QuietStep
  <1>12. CASE UNCHANGED serverVars
    BY <1>12 DEF serverVars
  <1> QED
    BY <1>1, <1>2, <1>3, <1>4, <1>5, <1>6, <1>7, <1>8, <1>9, <1>10, <1>11, <1>12, StepCases

\* createService panics on a nil map, and the aggregator does not come back.
LEMMA PanickedIsGoneStep == IInv /\ TypeOK' /\ [Next]_vars => PanickedIsGone'
  <1> SUFFICES ASSUME IInv, TypeOK', [Next]_vars PROVE PanickedIsGone'
    OBVIOUS
  <1> USE IdsAssumption DEF IInv, SafetyInv, TypeOK, NamesService, LabelsOf, PanickedIsGone, RequestsProgress, IdsWereHandedOut, CollectionsMatchAggregators, counterVars, collectionVars, argVars, localVars
  <1>1. ASSUME NEW r \in Requests, Provision(r) PROVE PanickedIsGone'
    BY <1>1 DEF Provision, OpenCollection, Assign, EmptyMap, Goto, At
  <1>2. ASSUME NEW r \in Requests, Dispatch(r) PROVE PanickedIsGone'
    BY <1>2 DEF Dispatch, FirstLabel, Ops, Goto, At
  <1>3. ASSUME NEW r \in Requests, DropAggregator(r) PROVE PanickedIsGone'
    BY <1>3 DEF DropAggregator, Drop, Finish, At
  <1>4. ASSUME NEW r \in Requests, Reserve(r) PROVE PanickedIsGone'
    BY <1>4 DEF Reserve, Goto, At
  <1>5. ASSUME NEW r \in Requests, Insert(r) PROVE PanickedIsGone'
    BY <1>5 DEF Insert, StoreService, BumpRevision, Revision, Assign, Finish, At
  <1>6. ASSUME NEW r \in Requests, Lookup(r) PROVE PanickedIsGone'
    BY <1>6 DEF Lookup, Members, Goto, Finish, At
  <1>7. ASSUME NEW r \in Requests, DropService(r) PROVE PanickedIsGone'
    BY <1>7 DEF DropService, StillListed, Listed, Members, BumpRevision, Revision, Assign, Drop, Finish, At
  <1>8. ASSUME NEW r \in Requests, Refresh(r) PROVE PanickedIsGone'
    BY <1>8 DEF Refresh, StillListed, Listed, Members, StoreService, BumpRevision, Revision, Assign, Goto, At
  <1>9. ASSUME NEW r \in Requests, ReadETag(r) PROVE PanickedIsGone'
    BY <1>9 DEF ReadETag, Revision, Goto, Finish, At
  <1>10. ASSUME NEW r \in Requests, ReadList(r) PROVE PanickedIsGone'
    BY <1>10 DEF ReadList, Members, Finish, At
  <1>11. ASSUME NEW r \in Requests, QuietStep(r) PROVE PanickedIsGone'
    BY <1>11 DEF QuietStep
  <1>12. CASE UNCHANGED serverVars
    BY <1>12 DEF serverVars
  <1> QED
    BY <1>1, <1>2, <1>3, <1>4, <1>5, <1>6, <1>7, <1>8, <1>9, <1>10, <1>11, <1>12, StepCases

\* Every change of a list raises its revision, so a list read after its ETag
\* is the one of that ETag or a later one.
LEMMA ListNotOlderThanETagStep == IInv /\ TypeOK' /\ [Next]_vars => ListNotOlderThanETag'
  <1> SUFFICES ASSUME IInv, TypeOK', [Next]_vars PROVE ListNotOlderThanETag'
    OBVIOUS
  <1> USE IdsAssumption DEF IInv, SafetyInv, TypeOK, NamesService, LabelsOf, ListNotOlderThanETag, RequestsProgress, IdsWereHandedOut, CollectionsMatchAggregators, Revision, Members, counterVars, collectionVars, argVars, localVars
  <1>1. ASSUME NEW r \in Requests, Provision(r) PROVE ListNotOlderThanETag'
    BY <1>1 DEF Provision, OpenCollection, Assign, EmptyMap, Goto, At
  <1>2. ASSUME NEW r \in Requests, Dispatch(r) PROVE ListNotOlderThanETag'
    BY <1>2 DEF Dispatch, FirstLabel, Ops, Goto, At
  <1>3. ASSUME NEW r \in Requests, DropAggregator(r) PROVE ListNotOlderThanETag'
    BY <1>3 DEF DropAggregator, Drop, Finish, At
  <1>4. ASSUME NEW r \in Requests, Reserve(r) PROVE ListNotOlderThanETag'
    BY <1>4 DEF Reserve, Goto, At
  <1>5. ASSUME NEW r \in Requests, Insert(r) PROVE ListNotOlderThanETag'
    BY <1>5 DEF Insert, StoreService, BumpRevision, Assign, Finish, At
  <1>6. ASSUME NEW r \in Requests, Lookup(r) PROVE ListNotOlderThanETag'
    BY <1>6 DEF Lookup, Goto, Finish, At
  <1>7. ASSUME NEW r \in Requests, DropService(r) PROVE ListNotOlderThanETag'
    BY <1>7 DEF DropService, StillListed, Listed, BumpRevision, Assign, Drop, Finish, At
  <1>8. ASSUME NEW r \in Requests, Refresh(r) PROVE ListNotOlderThanETag'
    BY <1>8 DEF Refresh, StillListed, Listed, StoreService, BumpRevision, Assign, Goto, At
  <1>9. ASSUME NEW r \in Requests, ReadETag(r) PROVE ListNotOlderThanETag'
    BY <1>9 DEF ReadETag, Goto, Finish, At
  <1>10. ASSUME NEW r \in Requests, ReadList(r) PROVE ListNotOlderThanETag'
    BY <1>10 DEF ReadList, Finish, At
  <1>11. ASSUME NEW r \in Requests, QuietStep(r) PROVE ListNotOlderThanETag'
    BY <1>11 DEF QuietStep
  <1>12. CASE UNCHANGED serverVars
    BY <1>12 DEF serverVars
  <1> QED
    BY <1>1, <1>2, <1>3, <1>4, <1>5, <1>6, <1>7, <1>8, <1>9, <1>10, <1>11, <1>12, StepCases

\* The invariant holds when the server starts.
LEMMA InvInit == Init => IInv
  <1> SUFFICES ASSUME Init PROVE IInv
    OBVIOUS
  <1> USE DEF Init, EmptyMap
  <1>1. TypeOK
    BY TypeInit
  <1>2. RequestsProgress /\ IdsWereHandedOut /\ CollectionsMatchAggregators
    BY DEF RequestsProgress, IdsWereHandedOut, CollectionsMatchAggregators
  <1>3. CreatorOwnsId /\ OneHome
    BY DEF CreatorOwnsId, Creating, OneHome
  <1>4. DeletedServiceStaysDeleted /\ CreatedServiceIsListed /\ PanickedIsGone
    BY DEF DeletedServiceStaysDeleted, CreatedServiceIsListed, PanickedIsGone, Answered
  <1>5. GoneWasDeleted /\ ListNotOlderThanETag
    BY IdsAssumption DEF GoneWasDeleted, ListNotOlderThanETag
  <1> QED
    BY <1>1, <1>2, <1>3, <1>4, <1>5 DEF IInv, SafetyInv

\* Every step of every handler preserves it.
LEMMA InvStep == IInv /\ [Next]_vars => IInv'
  <1> SUFFICES ASSUME IInv, [Next]_vars PROVE IInv'
    OBVIOUS
  <1>1. TypeOK'
    BY TypeStep DEF IInv
  <1> QED
    BY <1>1, RequestsProgressStep, IdsWereHandedOutStep, CollectionsMatchAggregatorsStep,
       CreatorOwnsIdStep, OneHomeStep, DeletedServiceStaysDeletedStep,
       CreatedServiceIsListedStep, GoneWasDeletedStep, PanickedIsGoneStep,
       ListNotOlderThanETagStep
    DEF IInv, SafetyInv

\* The inductive invariant holds in every reachable state: ids name one
\* aggregator, or one service, for ever.
THEOREM Invariance == Spec => []IInv
  BY InvInit, InvStep, PTL DEF Spec

\* No handler that was running when its aggregator was deleted brings the
\* list or the revision of the collection back.
THEOREM CollectionsMatch == Spec => []CollectionsMatchAggregators
  <1>1. IInv => CollectionsMatchAggregators
    BY DEF IInv, SafetyInv
  <1> QED
    BY <1>1, Invariance, PTL

\* A service whose DELETE was answered 204 is never listed again.
THEOREM DeletedStaysDeleted == Spec => []DeletedServiceStaysDeleted
  <1>1. IInv => DeletedServiceStaysDeleted
    BY DEF IInv, SafetyInv
  <1> QED
    BY <1>1, Invariance, PTL

\* A service whose POST was answered 201 is listed until a request deletes it
\* or its aggregator.
THEOREM CreatedIsListed == Spec => []CreatedServiceIsListed
  <1>1. IInv => CreatedServiceIsListed
    BY DEF IInv, SafetyInv
  <1> QED
    BY <1>1, Invariance, PTL

\* createService panics only on an aggregator that another request deleted.
THEOREM PanicOnlyAfterDelete == Spec => []PanicOnlyAfterAggregatorDeleted
  <1>1. IInv => PanicOnlyAfterAggregatorDeleted
    BY DEF IInv, SafetyInv, PanickedIsGone, GoneWasDeleted, PanicOnlyAfterAggregatorDeleted
  <1> QED
    BY <1>1, Invariance, PTL

\* A client that polls the ETag of a collection misses no change.
THEOREM PollingIsSound == Spec => []PollingMissesNothing
  <1>1. IInv => PollingMissesNothing
    BY DEF IInv, SafetyInv, ListNotOlderThanETag, PollingMissesNothing, Answered
  <1> QED
    BY <1>1, Invariance, PTL
=============================================================================
