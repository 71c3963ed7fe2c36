-------------------- MODULE AggregatorServerBackingProofs --------------------
(***************************************************************************)
(* Proofs about what stands behind a service in AggregatorServer: its      *)
(* asset, its registrations, its derivation resource and its file. A       *)
(* listed service is backed, whatever fails; and when nothing fails,       *)
(* deleting a service undoes creating it.                                  *)
(***************************************************************************)
EXTENDS AggregatorServerProofs

(***************************************************************************)
(* What a step of one request may change                                   *)
(***************************************************************************)
\* A step of a request moves no other request and leaves what it is about.
LEMMA StepIsOwn ==
  ASSUME TypeOK, NEW r \in Requests, Step(r)
  PROVE  /\ op' = op
         /\ \A q \in Requests : q # r =>
              /\ pc'[q] = pc[q] /\ outcome'[q] = outcome[q] /\ sid'[q] = sid[q]
              /\ agg'[q] = agg[q] /\ step'[q] = step[q] /\ update'[q] = update[q]
         /\ pc[r] \notin {"reserve", "lookup"} => sid'[r] = sid[r]
  <1> USE DEF TypeOK, Goto, Finish, At, counterVars, collectionVars, backingVars, argVars,
      localVars
  <1>1. CASE Provision(r)
    BY <1>1 DEF Provision
  <1>2. CASE Dispatch(r)
    BY <1>2 DEF Dispatch
  <1>3. CASE Refuse(r)
    BY <1>3 DEF Refuse
  <1>4. CASE RegisterAggregator(r)
    BY <1>4 DEF RegisterAggregator
  <1>5. CASE UnregisterAggregator(r)
    BY <1>5 DEF UnregisterAggregator
  <1>6. CASE DropAggregator(r)
    BY <1>6 DEF DropAggregator
  <1>7. CASE Reserve(r)
    BY <1>7 DEF Reserve
  <1>8. CASE ClearOutput(r)
    BY <1>8 DEF ClearOutput
  <1>9. CASE WriteOutput(r)
    BY <1>9 DEF WriteOutput
  <1>10. CASE RegisterService(r)
    BY <1>10 DEF RegisterService
  <1>11. CASE StoreAsset(r)
    BY <1>11 DEF StoreAsset
  <1>12. CASE RegisterOutput(r)
    BY <1>12 DEF RegisterOutput
  <1>13. CASE PutDerivation(r)
    BY <1>13 DEF PutDerivation, FailUpdate
  <1>14. CASE UpdateResource(r)
    BY <1>14 DEF UpdateResource, FailUpdate
  <1>15. CASE StoreDerivedFrom(r)
    BY <1>15 DEF StoreDerivedFrom
  <1>16. CASE Insert(r)
    BY <1>16 DEF Insert
  <1>17. CASE Lookup(r)
    BY <1>17 DEF Lookup
  <1>18. CASE RemoveFile(r)
    BY <1>18 DEF RemoveFile
  <1>19. CASE UnregisterService(r)
    BY <1>19 DEF UnregisterService
  <1>20. CASE Cleanup(r)
    BY <1>20 DEF Cleanup
  <1>21. CASE DeleteDerivation(r)
    BY <1>21 DEF DeleteDerivation
  <1>22. CASE DropService(r)
    BY <1>22 DEF DropService
  <1>23. CASE Authorize(r)
    BY <1>23 DEF Authorize
  <1>24. CASE Validate(r)
    BY <1>24 DEF Validate
  <1>25. CASE Refresh(r)
    BY <1>25 DEF Refresh
  <1>26. CASE Reauthorize(r)
    BY <1>26 DEF Reauthorize
  <1>27. CASE Serve(r)
    BY <1>27 DEF Serve
  <1>28. CASE ReadETag(r)
    BY <1>28 DEF ReadETag
  <1>29. CASE ReadList(r)
    BY <1>29 DEF ReadList
  <1> QED
    BY <1>1, <1>2, <1>3, <1>4, <1>5, <1>6, <1>7, <1>8, <1>9, <1>10, <1>11, <1>12,
       <1>13, <1>14, <1>15, <1>16, <1>17, <1>18, <1>19, <1>20, <1>21, <1>22, <1>23,
       <1>24, <1>25, <1>26, <1>27, <1>28, <1>29 DEF Step, Run

\* Only a DELETE past RemoveFile takes what backs a service away, and only
\* from its own.
LEMMA BackingIsKept ==
  ASSUME TypeOK, UnregisteredInOrder, NEW r \in Requests, Step(r), NEW s \in Ids, ~Deleting(r, s)
  PROVE  /\ <<"service", s>> \in registered => <<"service", s>> \in registered'
         /\ <<"output", s>> \in registered => <<"output", s>> \in registered'
         /\ s \in DOMAIN outputAssets => s \in DOMAIN outputAssets'
  <1> USE DEF TypeOK, LabelsOf, Ops, At, counterVars, collectionVars, backingVars, argVars,
      localVars
  <1>1. CASE Provision(r)
    BY <1>1 DEF Provision
  <1>2. CASE Dispatch(r)
    BY <1>2 DEF Dispatch
  <1>3. CASE Refuse(r)
    BY <1>3 DEF Refuse
  <1>4. CASE RegisterAggregator(r)
    BY <1>4 DEF RegisterAggregator, RegisterAtAS
  <1>5. CASE UnregisterAggregator(r)
    BY <1>5 DEF UnregisterAggregator, UnregisterAtAS, AggregatorResources
  <1>6. CASE DropAggregator(r)
    BY <1>6 DEF DropAggregator
  <1>7. CASE Reserve(r)
    BY <1>7 DEF Reserve
  <1>8. CASE ClearOutput(r)
    BY <1>8 DEF ClearOutput
  <1>9. CASE WriteOutput(r)
    BY <1>9 DEF WriteOutput
  <1>10. CASE RegisterService(r)
    BY <1>10 DEF RegisterService, RegisterAtAS
  <1>11. CASE StoreAsset(r)
    BY <1>11 DEF StoreAsset, Assign
  <1>12. CASE RegisterOutput(r)
    BY <1>12 DEF RegisterOutput, RegisterAtAS
  <1>13. CASE PutDerivation(r)
    BY <1>13 DEF PutDerivation
  <1>14. CASE UpdateResource(r)
    BY <1>14 DEF UpdateResource
  <1>15. CASE StoreDerivedFrom(r)
    BY <1>15 DEF StoreDerivedFrom, Assign
  <1>16. CASE Insert(r)
    BY <1>16 DEF Insert
  <1>17. CASE Lookup(r)
    BY <1>17 DEF Lookup
  <1>18. CASE RemoveFile(r)
    BY <1>18 DEF RemoveFile
  <1>19. CASE UnregisterService(r)
    BY <1>19
    DEF UnregisterService, UnregisterAtAS, ServiceResources, UnregisteredInOrder, Deleting
  <1>20. CASE Cleanup(r)
    BY <1>20 DEF Cleanup, Drop, Deleting
  <1>21. CASE DeleteDerivation(r)
    BY <1>21 DEF DeleteDerivation, Deleting
  <1>22. CASE DropService(r)
    BY <1>22 DEF DropService
  <1>23. CASE Authorize(r)
    BY <1>23 DEF Authorize
  <1>24. CASE Validate(r)
    BY <1>24 DEF Validate
  <1>25. CASE Refresh(r)
    BY <1>25 DEF Refresh
  <1>26. CASE Reauthorize(r)
    BY <1>26 DEF Reauthorize
  <1>27. CASE Serve(r)
    BY <1>27 DEF Serve
  <1>28. CASE ReadETag(r)
    BY <1>28 DEF ReadETag
  <1>29. CASE ReadList(r)
    BY <1>29 DEF ReadList
  <1> QED
    BY <1>1, <1>2, <1>3, <1>4, <1>5, <1>6, <1>7, <1>8, <1>9, <1>10, <1>11, <1>12,
       <1>13, <1>14, <1>15, <1>16, <1>17, <1>18, <1>19, <1>20, <1>21, <1>22, <1>23,
       <1>24, <1>25, <1>26, <1>27, <1>28, <1>29 DEF Step, Run

\* Derivation resources are made by updateOutputAssetDerivedFrom and removed by
\* cleanupServiceAssets only; the asset and the service say what was made.
LEMMA DerivationSteps ==
  ASSUME TypeOK, NEW r \in Requests, Step(r)
  PROVE  /\ \A d \in derivations' : d \in derivations
              \/ ( /\ pc[r] = "putDerivation" /\ pc'[r] \in {"updateResource", "insert", "refresh"}
                   /\ d \in NamedBy(r) /\ update'[r] \in {d, Failed} )
         /\ \A d \in derivations : d \in derivations'
              \/ ( /\ pc[r] = "deleteDerivation" /\ pc'[r] = "dropService"
                   /\ d = update[r] /\ update'[r] = update[r] )
         /\ \A s \in DOMAIN outputAssets' :
              \/ s \in DOMAIN outputAssets /\ outputAssets'[s] = outputAssets[s]
              \/ s = sid[r] /\ pc[r] = "storeAsset" /\ outputAssets'[s] = Plain
              \/ s = sid[r] /\ pc[r] = "storeDerivedFrom" /\ outputAssets'[s] = update[r]
         /\ \/ update'[r] = update[r]
            \/ pc[r] = "putDerivation" /\ update'[r] \in NamedBy(r) \cup {Plain, Failed}
            \/ pc[r] = "updateResource" /\ update'[r] = Failed
            \/ Lookup(r) \/ Cleanup(r)
  <1> USE DEF TypeOK, Goto, Finish, At, counterVars, collectionVars, backingVars, argVars,
      localVars
  <1>1. CASE Provision(r)
    BY <1>1 DEF Provision
  <1>2. CASE Dispatch(r)
    BY <1>2 DEF Dispatch
  <1>3. CASE Refuse(r)
    BY <1>3 DEF Refuse
  <1>4. CASE RegisterAggregator(r)
    BY <1>4 DEF RegisterAggregator
  <1>5. CASE UnregisterAggregator(r)
    BY <1>5 DEF UnregisterAggregator
  <1>6. CASE DropAggregator(r)
    BY <1>6 DEF DropAggregator
  <1>7. CASE Reserve(r)
    BY <1>7 DEF Reserve
  <1>8. CASE ClearOutput(r)
    BY <1>8 DEF ClearOutput
  <1>9. CASE WriteOutput(r)
    BY <1>9 DEF WriteOutput
  <1>10. CASE RegisterService(r)
    BY <1>10 DEF RegisterService
  <1>11. CASE StoreAsset(r)
    BY <1>11 DEF StoreAsset, Assign
  <1>12. CASE RegisterOutput(r)
    BY <1>12 DEF RegisterOutput
  <1>13. CASE PutDerivation(r)
    BY <1>13 DEF PutDerivation, PutAtUAS, FailUpdate, Updated
  <1>14. CASE UpdateResource(r)
    BY <1>14 DEF UpdateResource, FailUpdate
  <1>15. CASE StoreDerivedFrom(r)
    BY <1>15 DEF StoreDerivedFrom, Assign
  <1>16. CASE Insert(r)
    BY <1>16 DEF Insert
  <1>17. CASE Lookup(r)
    BY <1>17 DEF Lookup
  <1>18. CASE RemoveFile(r)
    BY <1>18 DEF RemoveFile
  <1>19. CASE UnregisterService(r)
    BY <1>19 DEF UnregisterService
  <1>20. CASE Cleanup(r)
    BY <1>20 DEF Cleanup, Drop
  <1>21. CASE DeleteDerivation(r)
    BY <1>21 DEF DeleteDerivation
  <1>22. CASE DropService(r)
    BY <1>22 DEF DropService
  <1>23. CASE Authorize(r)
    BY <1>23 DEF Authorize
  <1>24. CASE Validate(r)
    BY <1>24 DEF Validate
  <1>25. CASE Refresh(r)
    BY <1>25 DEF Refresh
  <1>26. CASE Reauthorize(r)
    BY <1>26 DEF Reauthorize
  <1>27. CASE Serve(r)
    BY <1>27 DEF Serve
  <1>28. CASE ReadETag(r)
    BY <1>28 DEF ReadETag
  <1>29. CASE ReadList(r)
    BY <1>29 DEF ReadList
  <1> QED
    BY <1>1, <1>2, <1>3, <1>4, <1>5, <1>6, <1>7, <1>8, <1>9, <1>10, <1>11,
       <1>12, <1>13, <1>14, <1>15, <1>16, <1>17, <1>18, <1>19, <1>20, <1>21,
       <1>22, <1>23, <1>24, <1>25, <1>26, <1>27, <1>28, <1>29 DEF Step, Run

\* A list gets a new service from its POST only, and a new status of one it
\* had from a rematerialization only.
LEMMA ListingSteps ==
  ASSUME TypeOK, NEW r \in Requests, Step(r),
         NEW a \in DOMAIN services', NEW s \in DOMAIN services'[a]
  PROVE  \/ /\ a \in DOMAIN services /\ s \in DOMAIN services[a]
            /\ services'[a][s] = services[a][s]
         \/ /\ pc[r] = "insert" /\ s = sid[r] /\ services'[a][s] = update[r]
            /\ UNCHANGED backingVars
         \/ /\ pc[r] = "refresh" /\ s = sid[r] /\ services'[a][s] = update[r]
            /\ a \in DOMAIN services /\ s \in DOMAIN services[a]
            /\ UNCHANGED backingVars
  <1> USE DEF TypeOK, At, counterVars, collectionVars, argVars, localVars
  <1>1. CASE Provision(r)
    BY <1>1 DEF Provision, OpenCollection, Assign, EmptyMap
  <1>2. CASE Dispatch(r)
    BY <1>2 DEF Dispatch
  <1>3. CASE Refuse(r)
    BY <1>3 DEF Refuse
  <1>4. CASE RegisterAggregator(r)
    BY <1>4 DEF RegisterAggregator
  <1>5. CASE UnregisterAggregator(r)
    BY <1>5 DEF UnregisterAggregator
  <1>6. CASE DropAggregator(r)
    BY <1>6 DEF DropAggregator, Drop
  <1>7. CASE Reserve(r)
    BY <1>7 DEF Reserve
  <1>8. CASE ClearOutput(r)
    BY <1>8 DEF ClearOutput
  <1>9. CASE WriteOutput(r)
    BY <1>9 DEF WriteOutput
  <1>10. CASE RegisterService(r)
    BY <1>10 DEF RegisterService
  <1>11. CASE StoreAsset(r)
    BY <1>11 DEF StoreAsset
  <1>12. CASE RegisterOutput(r)
    BY <1>12 DEF RegisterOutput
  <1>13. CASE PutDerivation(r)
    BY <1>13 DEF PutDerivation
  <1>14. CASE UpdateResource(r)
    BY <1>14 DEF UpdateResource
  <1>15. CASE StoreDerivedFrom(r)
    BY <1>15 DEF StoreDerivedFrom
  <1>16. CASE Insert(r)
    BY <1>16 DEF Insert, StoreService, Assign
  <1>17. CASE Lookup(r)
    BY <1>17 DEF Lookup
  <1>18. CASE RemoveFile(r)
    BY <1>18 DEF RemoveFile
  <1>19. CASE UnregisterService(r)
    BY <1>19 DEF UnregisterService
  <1>20. CASE Cleanup(r)
    BY <1>20 DEF Cleanup
  <1>21. CASE DeleteDerivation(r)
    BY <1>21 DEF DeleteDerivation
  <1>22. CASE DropService(r)
    BY <1>22 DEF DropService, Drop, StillListed, Listed, Members
  <1>23. CASE Authorize(r)
    BY <1>23 DEF Authorize
  <1>24. CASE Validate(r)
    BY <1>24 DEF Validate
  <1>25. CASE Refresh(r)
    BY <1>25 DEF Refresh, StoreService, Assign, StillListed, Listed, Members
  <1>26. CASE Reauthorize(r)
    BY <1>26 DEF Reauthorize
  <1>27. CASE Serve(r)
    BY <1>27 DEF Serve
  <1>28. CASE ReadETag(r)
    BY <1>28 DEF ReadETag
  <1>29. CASE ReadList(r)
    BY <1>29 DEF ReadList
  <1> QED
    BY <1>1, <1>2, <1>3, <1>4, <1>5, <1>6, <1>7, <1>8, <1>9, <1>10, <1>11, <1>12,
       <1>13, <1>14, <1>15, <1>16, <1>17, <1>18, <1>19, <1>20, <1>21, <1>22, <1>23,
       <1>24, <1>25, <1>26, <1>27, <1>28, <1>29 DEF Step, Run

\* Where a request stands tells what it does next.
LEMMA StepAtLabel ==
  ASSUME NEW r \in Requests, Step(r)
  PROVE  /\ pc[r] = "lookup" => Lookup(r)
         /\ pc[r] = "removeFile" => RemoveFile(r)
         /\ pc[r] = "unregisterService" => UnregisterService(r)
         /\ pc[r] = "cleanup" => Cleanup(r)
         /\ pc[r] = "deleteDerivation" => DeleteDerivation(r)
         /\ pc[r] = "dropService" => DropService(r)
         /\ pc[r] = "reserve" => Reserve(r) \/ Refuse(r)
         /\ pc[r] = "putDerivation" => PutDerivation(r)
         /\ pc[r] = "updateResource" => UpdateResource(r)
         /\ pc[r] = "storeDerivedFrom" => StoreDerivedFrom(r)
         /\ pc[r] = "insert" => Insert(r)
         /\ pc[r] = "refresh" => Refresh(r)
         /\ pc[r] = "reauthorize" => Reauthorize(r)
         /\ pc[r] = "serve" => Serve(r)
         /\ pc[r] # "done"
  BY
  DEF Step, Run, At, Provision, Dispatch, Refuse, RegisterAggregator, UnregisterAggregator,
      DropAggregator, Reserve, ClearOutput, WriteOutput, RegisterService, StoreAsset,
      RegisterOutput, PutDerivation, UpdateResource, StoreDerivedFrom, Insert, Lookup,
      RemoveFile, UnregisterService, Cleanup, DeleteDerivation, DropService, Authorize,
      Validate, Refresh, Reauthorize, Serve, ReadETag, ReadList

\* A DELETE that has removed the file goes on until the service is in no list.
LEMMA DeletingGoesOn ==
  ASSUME IInv, NEW r \in Requests, Step(r), NEW s \in Ids, BeingDeleted(s)
  PROVE  BeingDeleted(s)' \/ Unlisted(s)'
  <1> USE DEF Deleting, BeingDeleted
  <1>0. TypeOK
    BY DEF IInv
  <1>1. PICK q \in Requests : Deleting(q, s)
    OBVIOUS
  <1>2. CASE q # r
    BY <1>0, <1>1, <1>2, StepIsOwn
  <1>3. CASE q = r
    <2>1. CASE UnregisterService(r)
      BY <1>0, <1>1, <1>3, <2>1 DEF UnregisterService, Goto, argVars, TypeOK
    <2>2. CASE Cleanup(r)
      BY <1>0, <1>1, <1>3, <2>2 DEF Cleanup, Goto, argVars, TypeOK
    <2>3. CASE DeleteDerivation(r)
      BY <1>0, <1>1, <1>3, <2>3 DEF DeleteDerivation, Goto, argVars, TypeOK
    <2>4. CASE DropService(r)
      <3>1. \A a \in DOMAIN services : s \in DOMAIN services[a] => a = agg[r]
        BY <1>1, <1>3 DEF IInv, SafetyInv, OneHome
      <3>2. DOMAIN services' = DOMAIN services
        BY <2>4 DEF DropService
      <3>3. ASSUME NEW a \in DOMAIN services, s \in DOMAIN services'[a] PROVE FALSE
        <4>1. s \in DOMAIN services[a]
          BY <2>4, <3>3 DEF DropService, Drop, StillListed, Listed, Members
        <4>2. a = agg[r] /\ StillListed(r)
          BY <1>1, <1>3, <3>1, <4>1 DEF StillListed, Listed, Members
        <4> QED
          BY <1>1, <1>3, <2>4, <3>3, <4>2 DEF DropService, Drop
      <3> QED
        BY <3>2, <3>3 DEF Unlisted
    <2> QED
      BY <1>1, <1>3, <2>1, <2>2, <2>3, <2>4, StepAtLabel DEF Deleting
  <1> QED
    BY <1>2, <1>3

\* A service that is in no list and that no POST has reserved stays unlisted.
LEMMA UnlistedForGood ==
  ASSUME IInv, NEW r \in Requests, Step(r), NEW s \in Ids, Unlisted(s),
         \A q \in Requests : Creating(q) => sid[q] # s
  PROVE  Unlisted(s)'
  <1>0. TypeOK
    BY DEF IInv
  <1>1. pc[r] = "insert" => Creating(r)
    BY <1>0, LabelOps DEF Creating
  <1>2. SUFFICES ASSUME NEW a \in DOMAIN services', s \in DOMAIN services'[a] PROVE FALSE
    BY DEF Unlisted
  <1>3. \/ a \in DOMAIN services /\ s \in DOMAIN services[a]
        \/ pc[r] = "insert" /\ s = sid[r]
    BY <1>0, <1>2, ListingSteps
  <1> QED
    BY <1>1, <1>3 DEF Unlisted

\* deleteService unregisters the service, then its output.
LEMMA UnregisteredInOrderStep ==
  ASSUME IInv, UnregisteredInOrder, NEW r \in Requests, Step(r)
  PROVE  UnregisteredInOrder'
  <1> USE DEF IInv, TypeOK, LabelsOf, Ops, UnregisteredInOrder, Goto, Finish, At, argVars,
      localVars
  <1>1. CASE Provision(r)
    BY <1>1 DEF Provision
  <1>2. CASE Dispatch(r)
    BY <1>2 DEF Dispatch
  <1>3. CASE Refuse(r)
    BY <1>3 DEF Refuse
  <1>4. CASE RegisterAggregator(r)
    BY <1>4 DEF RegisterAggregator
  <1>5. CASE UnregisterAggregator(r)
    BY <1>5 DEF UnregisterAggregator
  <1>6. CASE DropAggregator(r)
    BY <1>6 DEF DropAggregator
  <1>7. CASE Reserve(r)
    BY <1>7 DEF Reserve
  <1>8. CASE ClearOutput(r)
    BY <1>8 DEF ClearOutput
  <1>9. CASE WriteOutput(r)
    BY <1>9 DEF WriteOutput
  <1>10. CASE RegisterService(r)
    BY <1>10 DEF RegisterService
  <1>11. CASE StoreAsset(r)
    BY <1>11 DEF StoreAsset
  <1>12. CASE RegisterOutput(r)
    BY <1>12 DEF RegisterOutput
  <1>13. CASE PutDerivation(r)
    BY <1>13 DEF PutDerivation, FailUpdate, Updated
  <1>14. CASE UpdateResource(r)
    BY <1>14 DEF UpdateResource, FailUpdate, Updated
  <1>15. CASE StoreDerivedFrom(r)
    BY <1>15 DEF StoreDerivedFrom, Updated
  <1>16. CASE Insert(r)
    BY <1>16 DEF Insert
  <1>17. CASE Lookup(r)
    BY <1>17 DEF Lookup
  <1>18. CASE RemoveFile(r)
    BY <1>18 DEF RemoveFile
  <1>19. CASE UnregisterService(r)
    BY <1>19 DEF UnregisterService
  <1>20. CASE Cleanup(r)
    BY <1>20 DEF Cleanup
  <1>21. CASE DeleteDerivation(r)
    BY <1>21 DEF DeleteDerivation
  <1>22. CASE DropService(r)
    BY <1>22 DEF DropService
  <1>23. CASE Authorize(r)
    BY <1>23 DEF Authorize
  <1>24. CASE Validate(r)
    BY <1>24 DEF Validate
  <1>25. CASE Refresh(r)
    BY <1>25 DEF Refresh
  <1>26. CASE Reauthorize(r)
    BY <1>26 DEF Reauthorize
  <1>27. CASE Serve(r)
    BY <1>27 DEF Serve
  <1>28. CASE ReadETag(r)
    BY <1>28 DEF ReadETag
  <1>29. CASE ReadList(r)
    BY <1>29 DEF ReadList
  <1> QED
    BY <1>1, <1>2, <1>3, <1>4, <1>5, <1>6, <1>7, <1>8, <1>9, <1>10, <1>11, <1>12,
       <1>13, <1>14, <1>15, <1>16, <1>17, <1>18, <1>19, <1>20, <1>21, <1>22, <1>23,
       <1>24, <1>25, <1>26, <1>27, <1>28, <1>29 DEF Step, Run

\* A POST has made what it goes on with.
LEMMA MadeByStep ==
  ASSUME IInv, NewServiceIsBacked, NEW r \in Requests, Step(r), op[r] = "createService"
  PROVE  HasMade(r)'
  <1> USE DEF IInv, TypeOK, LabelsOf, Ops, NewServiceIsBacked, HasMade, Goto, Finish, At,
      counterVars, collectionVars, backingVars, argVars, localVars
  <1>1. CASE Provision(r)
    BY <1>1 DEF Provision
  <1>2. CASE Dispatch(r)
    BY <1>2 DEF Dispatch, FirstLabel
  <1>3. CASE Refuse(r)
    BY <1>3 DEF Refuse
  <1>4. CASE RegisterAggregator(r)
    BY <1>4 DEF RegisterAggregator
  <1>5. CASE UnregisterAggregator(r)
    BY <1>5 DEF UnregisterAggregator
  <1>6. CASE DropAggregator(r)
    BY <1>6 DEF DropAggregator
  <1>7. CASE Reserve(r)
    BY <1>7 DEF Reserve
  <1>8. CASE ClearOutput(r)
    BY <1>8 DEF ClearOutput
  <1>9. CASE WriteOutput(r)
    BY <1>9 DEF WriteOutput
  <1>10. CASE RegisterService(r)
    BY <1>10 DEF RegisterService, RegisterAtAS
  <1>11. CASE StoreAsset(r)
    BY <1>11 DEF StoreAsset, Assign
  <1>12. CASE RegisterOutput(r)
    BY <1>12 DEF RegisterOutput, RegisterAtAS
  <1>13. CASE PutDerivation(r)
    BY <1>13 DEF PutDerivation, FailUpdate, Updated
  <1>14. CASE UpdateResource(r)
    BY <1>14 DEF UpdateResource, FailUpdate, Updated
  <1>15. CASE StoreDerivedFrom(r)
    BY <1>15 DEF StoreDerivedFrom, Assign, Updated
  <1>16. CASE Insert(r)
    BY <1>16 DEF Insert
  <1>17. CASE Lookup(r)
    BY <1>17 DEF Lookup
  <1>18. CASE RemoveFile(r)
    BY <1>18 DEF RemoveFile
  <1>19. CASE UnregisterService(r)
    BY <1>19 DEF UnregisterService
  <1>20. CASE Cleanup(r)
    BY <1>20 DEF Cleanup
  <1>21. CASE DeleteDerivation(r)
    BY <1>21 DEF DeleteDerivation
  <1>22. CASE DropService(r)
    BY <1>22 DEF DropService
  <1>23. CASE Authorize(r)
    BY <1>23 DEF Authorize
  <1>24. CASE Validate(r)
    BY <1>24 DEF Validate
  <1>25. CASE Refresh(r)
    BY <1>25 DEF Refresh
  <1>26. CASE Reauthorize(r)
    BY <1>26 DEF Reauthorize
  <1>27. CASE Serve(r)
    BY <1>27 DEF Serve
  <1>28. CASE ReadETag(r)
    BY <1>28 DEF ReadETag
  <1>29. CASE ReadList(r)
    BY <1>29 DEF ReadList
  <1> QED
    BY <1>1, <1>2, <1>3, <1>4, <1>5, <1>6, <1>7, <1>8, <1>9, <1>10, <1>11, <1>12,
       <1>13, <1>14, <1>15, <1>16, <1>17, <1>18, <1>19, <1>20, <1>21, <1>22, <1>23,
       <1>24, <1>25, <1>26, <1>27, <1>28, <1>29 DEF Step, Run

\* handleCreateService goes on only when a registration succeeded.
LEMMA NewServiceIsBackedStep ==
  ASSUME IInv, UnregisteredInOrder, NewServiceIsBacked, NEW r \in Requests, Step(r)
  PROVE  NewServiceIsBacked'
  <1>0. TypeOK
    BY DEF IInv
  <1>1. ASSUME NEW q \in Requests, q # r, op[q] = "createService" PROVE HasMade(q)'
    <2>1. CASE pc[q] \in {"storeAsset", "registerOutput", "putDerivation", "updateResource",
                          "storeDerivedFrom", "insert"}
      <3>1. sid[q] \in Ids /\ ~Deleting(r, sid[q])
        BY <1>1, <2>1
        DEF IInv, SafetyInv, TypeOK, NamesService, CreatorOwnsId, Creating, Deleting
      <3>2. HasMade(q)
        BY <1>1 DEF NewServiceIsBacked
      <3>3. pc'[q] = pc[q] /\ sid'[q] = sid[q]
        BY <1>0, <1>1, StepIsOwn
      <3> QED
        BY <1>0, <3>1, <3>2, <3>3, BackingIsKept DEF HasMade
    <2>2. CASE pc[q] \notin {"storeAsset", "registerOutput", "putDerivation", "updateResource",
                             "storeDerivedFrom", "insert"}
      BY <1>0, <1>1, <2>2, StepIsOwn DEF HasMade
    <2> QED
      BY <2>1, <2>2
  <1>2. op[r] = "createService" => HasMade(r)'
    BY MadeByStep
  <1> QED
    BY <1>0, <1>1, <1>2, StepIsOwn DEF NewServiceIsBacked

\* A request finds its service, or reserves an id for it, after it was let in.
LEMMA NamedLateStep ==
  ASSUME IInv, NamedLate, NEW r \in Requests, Step(r)
  PROVE  NamedLate'
  <1> USE DEF IInv, TypeOK, NamedLate, Goto, Finish, At, Ops, counterVars, collectionVars,
      backingVars, argVars, localVars
  <1>1. CASE Provision(r)
    BY <1>1 DEF Provision
  <1>2. CASE Dispatch(r)
    BY <1>2 DEF Dispatch, FirstLabel
  <1>3. CASE Refuse(r)
    BY <1>3 DEF Refuse
  <1>4. CASE RegisterAggregator(r)
    BY <1>4 DEF RegisterAggregator
  <1>5. CASE UnregisterAggregator(r)
    BY <1>5 DEF UnregisterAggregator
  <1>6. CASE DropAggregator(r)
    BY <1>6 DEF DropAggregator
  <1>7. CASE Reserve(r)
    BY <1>7 DEF Reserve
  <1>8. CASE ClearOutput(r)
    BY <1>8 DEF ClearOutput
  <1>9. CASE WriteOutput(r)
    BY <1>9 DEF WriteOutput
  <1>10. CASE RegisterService(r)
    BY <1>10 DEF RegisterService
  <1>11. CASE StoreAsset(r)
    BY <1>11 DEF StoreAsset
  <1>12. CASE RegisterOutput(r)
    BY <1>12 DEF RegisterOutput
  <1>13. CASE PutDerivation(r)
    BY <1>13 DEF PutDerivation, FailUpdate, Updated
  <1>14. CASE UpdateResource(r)
    BY <1>14 DEF UpdateResource, FailUpdate, Updated
  <1>15. CASE StoreDerivedFrom(r)
    BY <1>15 DEF StoreDerivedFrom, Updated
  <1>16. CASE Insert(r)
    BY <1>16 DEF Insert
  <1>17. CASE Lookup(r)
    BY <1>17 DEF Lookup
  <1>18. CASE RemoveFile(r)
    BY <1>18 DEF RemoveFile
  <1>19. CASE UnregisterService(r)
    BY <1>19 DEF UnregisterService
  <1>20. CASE Cleanup(r)
    BY <1>20 DEF Cleanup
  <1>21. CASE DeleteDerivation(r)
    BY <1>21 DEF DeleteDerivation
  <1>22. CASE DropService(r)
    BY <1>22 DEF DropService
  <1>23. CASE Authorize(r)
    BY <1>23 DEF Authorize
  <1>24. CASE Validate(r)
    BY <1>24 DEF Validate
  <1>25. CASE Refresh(r)
    BY <1>25 DEF Refresh
  <1>26. CASE Reauthorize(r)
    BY <1>26 DEF Reauthorize
  <1>27. CASE Serve(r)
    BY <1>27 DEF Serve
  <1>28. CASE ReadETag(r)
    BY <1>28 DEF ReadETag
  <1>29. CASE ReadList(r)
    BY <1>29 DEF ReadList
  <1> QED
    BY <1>1, <1>2, <1>3, <1>4, <1>5, <1>6, <1>7, <1>8, <1>9, <1>10, <1>11, <1>12,
       <1>13, <1>14, <1>15, <1>16, <1>17, <1>18, <1>19, <1>20, <1>21, <1>22, <1>23,
       <1>24, <1>25, <1>26, <1>27, <1>28, <1>29 DEF Step, Run

\* The name of a derivation resource made from that of a service stays with
\* the service: its POST and its rematerializations use it, and its asset, its
\* entry and what looks them up repeat it.
LEMMA OwnNamesStep ==
  ASSUME IInv, NamedLate, OwnNames, NEW r \in Requests, Step(r)
  PROVE  OwnNames'
  <1>0. TypeOK
    BY DEF IInv
  <1>1. \A a \in DOMAIN services' : \A s \in DOMAIN services'[a] :
          services'[a][s] \in Ids => services'[a][s] = s
    BY <1>0, ListingSteps DEF OwnNames
  <1>2. \A s \in DOMAIN outputAssets' : outputAssets'[s] \in Ids => outputAssets'[s] = s
    BY <1>0, DerivationSteps, IdsAssumption DEF OwnNames
  <1>3. update'[r] \in Ids => update'[r] = sid'[r]
    <2>1. CASE Lookup(r)
      BY <1>0, <2>1 DEF Lookup, Members, OwnNames, TypeOK
    <2>2. CASE Cleanup(r)
      BY <1>0, <2>2 DEF Cleanup, ToRemove, OwnNames, TypeOK, argVars
    <2>3. CASE pc[r] = "putDerivation"
      BY <1>0, <2>3, StepAtLabel, IdsAssumption
      DEF PutDerivation, NamedBy, FailUpdate, argVars, TypeOK
    <2>4. CASE update'[r] = update[r] /\ ~Lookup(r)
      <3>1. CASE pc[r] = "reserve"
        <4>1. sid[r] = 0 /\ 0 \notin Ids
          BY <3>1, IdsAssumption DEF NamedLate
        <4> QED
          BY <2>4, <4>1 DEF OwnNames
      <3>2. CASE pc[r] # "reserve"
        BY <1>0, <2>4, <3>2, StepIsOwn, StepAtLabel DEF OwnNames
      <3> QED
        BY <3>1, <3>2
    <2>5. CASE pc[r] = "updateResource" /\ update'[r] = Failed
      BY <2>5, IdsAssumption
    <2> QED
      BY <1>0, <2>1, <2>2, <2>3, <2>4, <2>5, DerivationSteps
  <1>4. \A q \in Requests : update'[q] \in Ids => update'[q] = sid'[q]
    BY <1>0, <1>3, StepIsOwn DEF OwnNames
  <1> QED
    BY <1>1, <1>2, <1>4 DEF OwnNames

\* What a DELETE has removed at the UAS, it has removed.
LEMMA RemovalIsHistory ==
  ASSUME IInv, NEW r \in Requests, Step(r), NEW d, RemovedByDelete(d)
  PROVE  RemovedByDelete(d)'
  <1>0. TypeOK
    BY DEF IInv
  <1>1. PICK q \in Requests :
          /\ op[q] = "deleteService" /\ update[q] = d
          /\ pc[q] = "dropService" \/ outcome[q] = "ok"
    BY DEF RemovedByDelete
  <1>2. CASE q # r
    BY <1>0, <1>1, <1>2, StepIsOwn DEF RemovedByDelete
  <1>3. CASE q = r
    <2>1. DropService(r)
      BY <1>1, <1>3, StepAtLabel DEF IInv, SafetyInv, RequestsProgress
    <2>2. op'[r] = op[r] /\ update'[r] = update[r] /\ outcome'[r] = "ok"
      BY <1>0, <2>1 DEF DropService, Finish, argVars, localVars, TypeOK
    <2> QED
      BY <1>1, <1>3, <2>2 DEF RemovedByDelete
  <1> QED
    BY <1>2, <1>3

\* A derivation resource stands until a DELETE of the service it is named
\* after, when it is named after one.
LEMMA StandsStays ==
  ASSUME IInv, OwnNames, NEW r \in Requests, Step(r), NEW d \in DerivationIds, Stands(d),
         d \in Ids => ~Deleting(r, d)
  PROVE  Stands(d)'
  <1>0. TypeOK
    BY DEF IInv
  <1>1. CASE d \in UASIds /\ RemovedByDelete(d)
    BY <1>1, RemovalIsHistory DEF Stands
  <1>2. CASE d \in derivations'
    BY <1>2 DEF Stands
  <1>3. CASE d \in derivations /\ d \notin derivations'
    <2>1. /\ pc[r] = "deleteDerivation" /\ pc'[r] = "dropService"
          /\ d = update[r] /\ update'[r] = update[r]
      BY <1>0, <1>3, DerivationSteps
    <2>2. op[r] = "deleteService" /\ op' = op
      BY <1>0, <2>1, StepIsOwn DEF TypeOK, LabelsOf, Ops
    <2>3. d \notin Ids
      BY <2>1, <2>2 DEF OwnNames, Deleting
    <2>4. d \in UASIds
      BY <2>3 DEF DerivationIds
    <2> QED
      BY <2>1, <2>2, <2>4 DEF Stands, RemovedByDelete
  <1> QED
    BY <1>1, <1>2, <1>3 DEF Stands

\* The derivation resource of a service that a request is working on stands
\* until a DELETE takes it, and then the service is in no list.
LEMMA DerivationStays ==
  ASSUME IInv, OwnNames, NEW r \in Requests, Step(r),
         NEW q \in Requests, NEW s \in Ids, s = sid[q], NamesService(q),
         op[q] \in {"createService", "getOutput"},
         NEW d \in DerivationIds, d \in Ids => d = s,
         Stands(d) \/ (op[q] = "getOutput" /\ (Unlisted(s) \/ BeingDeleted(s)))
  PROVE  Stands(d)' \/ (op[q] = "getOutput" /\ (Unlisted(s)' \/ BeingDeleted(s)'))
  <1>0. TypeOK
    BY DEF IInv
  <1>1. CASE BeingDeleted(s)
    <2>1. op[q] = "getOutput"
      BY <1>1 DEF IInv, SafetyInv, CreatorOwnsId, Creating, NamesService, BeingDeleted, Deleting
    <2> QED
      BY <1>1, <2>1, DeletingGoesOn
  <1>2. CASE op[q] = "getOutput" /\ Unlisted(s)
    <2>1. \A p \in Requests : Creating(p) => sid[p] # s
      BY <1>2 DEF IInv, SafetyInv, CreatorOwnsId, Creating
    <2> QED
      BY <1>2, <2>1, UnlistedForGood
  <1>3. CASE Stands(d) /\ ~BeingDeleted(s)
    BY <1>0, <1>3, StandsStays DEF BeingDeleted
  <1> QED
    BY <1>1, <1>2, <1>3

\* updateOutputAssetDerivedFrom calls a service derived only after the PUT of
\* its derivation resource.
LEMMA DerivedHasDerivationStep ==
  ASSUME IInv, OwnNames, DerivedHasDerivation, NEW r \in Requests, Step(r)
  PROVE  DerivedHasDerivation'
  <1>0. TypeOK
    BY DEF IInv
  <1> SUFFICES ASSUME NEW q \in Requests,
                      pc'[q] \in {"updateResource", "storeDerivedFrom", "insert", "refresh"},
                      ManagesUAS, update'[q] \in DerivationIds
               PROVE  \/ Stands(update[q])'
                      \/ op'[q] = "getOutput" /\ (Unlisted(sid[q])' \/ BeingDeleted(sid[q])')
    BY DEF DerivedHasDerivation, HasPut
  <1>1. \/ /\ pc[q] \in {"updateResource", "storeDerivedFrom", "insert", "refresh"}
           /\ update'[q] = update[q] /\ UNCHANGED <<op, sid[q]>>
        \/ update'[q] \in derivations'
    <2>1. CASE q # r
      BY <1>0, <2>1, StepIsOwn
    <2>2. CASE q = r
      <3>1. CASE PutDerivation(r)
        BY <2>2, <3>1, IdsAssumption
        DEF PutDerivation, PutAtUAS, NamedBy, FailUpdate, DerivationIds, IInv, TypeOK
      <3>2. CASE UpdateResource(r)
        BY <2>2, <3>2, IdsAssumption
        DEF UpdateResource, FailUpdate, DerivationIds, Goto, At, IInv, TypeOK, argVars
      <3>3. CASE StoreDerivedFrom(r)
        BY <2>2, <3>3 DEF StoreDerivedFrom, At, argVars, localVars
      <3> QED
        BY <2>2, <3>1, <3>2, <3>3
        DEF Step, Run, IInv, TypeOK, Ops, At, Goto, Finish, FirstLabel, Provision, Dispatch,
            Refuse, RegisterAggregator, UnregisterAggregator, DropAggregator, Reserve,
            ClearOutput, WriteOutput, RegisterService, StoreAsset, RegisterOutput, Insert,
            Lookup, RemoveFile, UnregisterService, Cleanup, DeleteDerivation, DropService,
            Authorize, Validate, Refresh, Reauthorize, Serve, ReadETag, ReadList
    <2> QED
      BY <2>1, <2>2
  <1>2. CASE /\ pc[q] \in {"updateResource", "storeDerivedFrom", "insert", "refresh"}
             /\ update'[q] = update[q] /\ UNCHANGED <<op, sid[q]>>
    <2>1. NamesService(q) /\ op[q] \in {"createService", "getOutput"} /\ sid[q] \in Ids
      BY <1>0, <1>2 DEF TypeOK, LabelsOf, Ops, NamesService
    <2>2. PICK s \in Ids : s = sid[q]
      BY <2>1
    <2>3. PICK d \in DerivationIds : d = update[q]
      BY <1>2
    <2>4. Stands(d) \/ (op[q] = "getOutput" /\ (Unlisted(s) \/ BeingDeleted(s)))
      BY <1>2, <2>2, <2>3 DEF DerivedHasDerivation, HasPut
    <2>5. d \in Ids => d = s
      BY <2>2, <2>3 DEF OwnNames
    <2>6. Stands(d)' \/ (op[q] = "getOutput" /\ (Unlisted(s)' \/ BeingDeleted(s)'))
      BY <2>1, <2>2, <2>4, <2>5, DerivationStays
    <2>7. Stands(d)' => Stands(update[q])'
      BY <1>2, <2>3 DEF Stands, RemovedByDelete
    <2> QED
      BY <1>2, <2>2, <2>6, <2>7 DEF Unlisted, BeingDeleted, Deleting
  <1>3. CASE update'[q] \in derivations'
    BY <1>3 DEF Stands
  <1> QED
    BY <1>1, <1>2, <1>3

\* createService lists what handleCreateService made, and a listed service
\* keeps it until a DELETE that ends with the service in no list.
LEMMA ListedServiceIsBackedStep ==
  ASSUME BackedInv, NEW r \in Requests, Step(r), IInv'
  PROVE  ListedServiceIsBacked'
  <1>0. TypeOK /\ IInv /\ UnregisteredInOrder /\ OwnNames
    BY DEF BackedInv, IInv
  <1> SUFFICES ASSUME NEW a \in DOMAIN services', NEW s \in DOMAIN services'[a],
                      ~BeingDeleted(s)'
               PROVE  /\ s \in DOMAIN outputAssets'
                      /\ LiveAS => {<<"service", s>>, <<"output", s>>} \subseteq registered'
                      /\ ManagesUAS /\ services'[a][s] \in DerivationIds => Stands(services[a][s])'
    BY
    DEF IInv, SafetyInv, CollectionsMatchAggregators, ListedServiceIsBacked, BeingDeleted,
        Members
  <1>1. s \in Ids
    BY DEF IInv, TypeOK
  <1>2. ~BeingDeleted(s)
    BY <1>0, <1>1, DeletingGoesOn DEF Unlisted
  <1>3. ASSUME a \in DOMAIN services, s \in DOMAIN services[a]
        PROVE  /\ s \in DOMAIN outputAssets'
               /\ LiveAS => {<<"service", s>>, <<"output", s>>} \subseteq registered'
    <2>1. /\ s \in DOMAIN outputAssets
          /\ LiveAS => {<<"service", s>>, <<"output", s>>} \subseteq registered
      BY <1>2, <1>3
      DEF BackedInv, IInv, SafetyInv, CollectionsMatchAggregators, ListedServiceIsBacked,
          BeingDeleted, Members
    <2> QED
      BY <1>0, <1>1, <1>2, <2>1, BackingIsKept DEF BeingDeleted
  <1>4. ASSUME a \in DOMAIN services, s \in DOMAIN services[a], services'[a][s] = services[a][s],
               ManagesUAS, services[a][s] \in DerivationIds
        PROVE  Stands(services[a][s])'
    <2>1. PICK d \in DerivationIds : d = services[a][s]
      BY <1>4
    <2>2. Stands(d) /\ (d \in Ids => d = s)
      BY <1>2, <1>4, <2>1
      DEF BackedInv, IInv, SafetyInv, CollectionsMatchAggregators, ListedServiceIsBacked,
          BeingDeleted, Members, OwnNames
    <2>3. Stands(d)'
      BY <1>0, <1>2, <2>2, StandsStays DEF BeingDeleted
    <2> QED
      BY <1>4, <2>1, <2>3 DEF Stands, RemovedByDelete
  <1>5. CASE pc[r] = "insert" /\ s = sid[r] /\ services'[a][s] = update[r] /\ UNCHANGED backingVars
    <2>1. op[r] = "createService"
      BY <1>0, <1>5, LabelOps
    <2>2. HasMade(r) /\ HasPut(r) /\ (update[r] \in Ids => update[r] = s)
      BY <1>5, <2>1 DEF BackedInv, NewServiceIsBacked, DerivedHasDerivation, OwnNames
    <2>3. ASSUME ManagesUAS, update[r] \in DerivationIds PROVE Stands(services[a][s])'
      <3>1. PICK d \in DerivationIds : d = update[r]
        BY <2>3
      <3>2. Stands(d)'
        BY <1>0, <1>2, <1>5, <2>1, <2>2, <2>3, <3>1, StandsStays DEF HasPut, BeingDeleted
      <3> QED
        BY <1>5, <3>1, <3>2 DEF Stands, RemovedByDelete
    <2> QED
      BY <1>5, <2>2, <2>3 DEF HasMade, backingVars
  <1>6. CASE /\ pc[r] = "refresh" /\ s = sid[r] /\ services'[a][s] = update[r]
             /\ a \in DOMAIN services /\ s \in DOMAIN services[a] /\ UNCHANGED backingVars
    <2>1. HasPut(r) /\ ~Unlisted(s) /\ (update[r] \in Ids => update[r] = s)
      BY <1>6 DEF BackedInv, DerivedHasDerivation, Unlisted, OwnNames
    <2>2. ASSUME ManagesUAS, update[r] \in DerivationIds PROVE Stands(services[a][s])'
      <3>1. PICK d \in DerivationIds : d = update[r]
        BY <2>2
      <3>2. Stands(d)'
        BY <1>0, <1>2, <1>6, <2>1, <2>2, <3>1, StandsStays DEF HasPut, BeingDeleted
      <3> QED
        BY <1>6, <3>1, <3>2 DEF Stands, RemovedByDelete
    <2> QED
      BY <1>3, <1>6, <2>2
  <1> QED
    BY <1>0, <1>3, <1>4, <1>5, <1>6, ListingSteps

\* The invariant of what backs a service holds when the server starts ...
LEMMA BackedInit == Init => BackedInv
  <1> SUFFICES ASSUME Init PROVE BackedInv
    OBVIOUS
  <1>1. IInv
    BY InvInit
  <1>2. UnregisteredInOrder /\ NewServiceIsBacked /\ NamedLate
    BY DEF Init, UnregisteredInOrder, NewServiceIsBacked, HasMade, NamedLate
  <1>3. OwnNames
    BY IdsAssumption DEF Init, OwnNames, EmptyMap
  <1>4. DerivedHasDerivation /\ ListedServiceIsBacked
    BY DEF Init, DerivedHasDerivation, HasPut, ListedServiceIsBacked
  <1> QED
    BY <1>1, <1>2, <1>3, <1>4 DEF BackedInv

\* ... and every step of every handler preserves it.
LEMMA BackedStep == BackedInv /\ [Next]_vars => BackedInv'
  <1> SUFFICES ASSUME BackedInv, [Next]_vars PROVE BackedInv'
    OBVIOUS
  <1>1. IInv'
    BY InvStep DEF BackedInv
  <1>2. CASE UNCHANGED serverVars
    <2>0. UNCHANGED <<aggregators, services, outputAssets, registered, derivations, op, sid, pc,
                      step, update, outcome>>
      BY <1>2 DEF serverVars, collectionVars, backingVars, argVars, localVars
    <2>1. UnregisteredInOrder' /\ NewServiceIsBacked' /\ NamedLate' /\ OwnNames'
      BY <2>0
      DEF BackedInv, UnregisteredInOrder, NewServiceIsBacked, HasMade, NamedLate, OwnNames
    <2>2. DerivedHasDerivation'
      BY <2>0
      DEF BackedInv, DerivedHasDerivation, HasPut, Stands, RemovedByDelete, Unlisted,
          BeingDeleted, Deleting
    <2>3. ListedServiceIsBacked'
      <3>1. SUFFICES ASSUME NEW a \in aggregators', NEW s \in Members(a)'
                     PROVE  \/ /\ s \in DOMAIN outputAssets'
                               /\ LiveAS => {<<"service", s>>, <<"output", s>>} \subseteq registered'
                               /\ ManagesUAS /\ services'[a][s] \in DerivationIds =>
                                    Stands(services[a][s])'
                            \/ \E q \in Requests : Deleting(q, s)'
        BY DEF ListedServiceIsBacked
      <3>2. a \in aggregators /\ s \in Members(a)
        BY <2>0 DEF Members
      <3>3. \A q \in Requests : Deleting(q, s) => Deleting(q, s)'
        BY <2>0 DEF Deleting
      <3>4. Stands(services[a][s]) => Stands(services[a][s])'
        BY <2>0 DEF Stands, RemovedByDelete
      <3>5. \/ /\ s \in DOMAIN outputAssets
               /\ LiveAS => {<<"service", s>>, <<"output", s>>} \subseteq registered
               /\ ManagesUAS /\ services[a][s] \in DerivationIds => Stands(services[a][s])
            \/ \E q \in Requests : Deleting(q, s)
        BY <3>2 DEF BackedInv, ListedServiceIsBacked
      <3> QED
        BY <2>0, <3>3, <3>4, <3>5
    <2> QED
      BY <1>1, <2>1, <2>2, <2>3 DEF BackedInv
  <1>3. ASSUME NEW r \in Requests, Step(r) PROVE BackedInv'
    <2>1. UnregisteredInOrder' /\ NewServiceIsBacked' /\ DerivedHasDerivation'
      BY <1>3, UnregisteredInOrderStep, NewServiceIsBackedStep, DerivedHasDerivationStep
      DEF BackedInv
    <2>2. NamedLate' /\ OwnNames'
      BY <1>3, NamedLateStep, OwnNamesStep DEF BackedInv
    <2>3. ListedServiceIsBacked'
      BY <1>1, <1>3, ListedServiceIsBackedStep
    <2> QED
      BY <1>1, <2>1, <2>2, <2>3 DEF BackedInv
  <1> QED
    BY <1>2, <1>3 DEF Next, NoAnswer, vars

\* What backs a service is in place, for whatever fails on the way.
THEOREM BackedInvariance == Spec => []BackedInv
  BY BackedInit, BackedStep, PTL DEF Spec

\* A listed service has its asset, its registrations and, when it is derived,
\* its derivation resource, until a DELETE of it is under way; only one that
\* the UAS named, and that other services may share, can go with another.
THEOREM ListedIsBacked == Spec => []ListedServiceIsBacked
  <1>1. BackedInv => ListedServiceIsBacked
    BY DEF BackedInv
  <1> QED
    BY <1>1, BackedInvariance, PTL
-----------------------------------------------------------------------------
(***************************************************************************)
(* What deleting a service leaves when no call fails                       *)
(***************************************************************************)
\* Without failures a POST that got an id fails only at a deleted aggregator.
LEMMA CreationSucceedsStep ==
  ASSUME IInv, Faults \subseteq {"silence"}, NamedLate, CreationSucceeds, NEW r \in Requests, Step(r)
  PROVE  CreationSucceeds'
  <1>0. ASSUME NEW q \in Requests, Interferes(q, r), op[r] = "createService", pc[r] = "writeOutput"
        PROVE  FALSE
    BY <1>0 DEF IInv, SafetyInv, CreatorOwnsId, Creating, Interferes
  <1> USE DEF CreationSucceeds, LabelsOf, IInv, TypeOK, NamedLate, Goto, Finish, At, Ops,
      counterVars, collectionVars, backingVars, argVars, localVars
  <1>1. CASE Provision(r)
    BY <1>1 DEF Provision
  <1>2. CASE Dispatch(r)
    BY <1>2 DEF Dispatch, FirstLabel
  <1>3. CASE Refuse(r)
    BY <1>3 DEF Refuse
  <1>4. CASE RegisterAggregator(r)
    BY <1>4 DEF RegisterAggregator
  <1>5. CASE UnregisterAggregator(r)
    BY <1>5 DEF UnregisterAggregator
  <1>6. CASE DropAggregator(r)
    BY <1>6 DEF DropAggregator
  <1>7. CASE Reserve(r)
    BY <1>7 DEF Reserve
  <1>8. CASE ClearOutput(r)
    BY <1>8 DEF ClearOutput
  <1>9. CASE WriteOutput(r)
    BY <1>0, <1>9 DEF WriteOutput
  <1>10. CASE RegisterService(r)
    BY <1>10 DEF RegisterService, RegisterAtAS
  <1>11. CASE StoreAsset(r)
    BY <1>11 DEF StoreAsset
  <1>12. CASE RegisterOutput(r)
    BY <1>12 DEF RegisterOutput, RegisterAtAS
  <1>13. CASE PutDerivation(r)
    BY <1>13 DEF PutDerivation, FailUpdate, Updated
  <1>14. CASE UpdateResource(r)
    BY <1>14 DEF UpdateResource, FailUpdate, Updated
  <1>15. CASE StoreDerivedFrom(r)
    BY <1>15 DEF StoreDerivedFrom, Updated
  <1>16. CASE Insert(r)
    BY <1>16 DEF Insert
  <1>17. CASE Lookup(r)
    BY <1>17 DEF Lookup
  <1>18. CASE RemoveFile(r)
    BY <1>18 DEF RemoveFile
  <1>19. CASE UnregisterService(r)
    BY <1>19 DEF UnregisterService
  <1>20. CASE Cleanup(r)
    BY <1>20 DEF Cleanup
  <1>21. CASE DeleteDerivation(r)
    BY <1>21 DEF DeleteDerivation
  <1>22. CASE DropService(r)
    BY <1>22 DEF DropService
  <1>23. CASE Authorize(r)
    BY <1>23 DEF Authorize
  <1>24. CASE Validate(r)
    BY <1>24 DEF Validate
  <1>25. CASE Refresh(r)
    BY <1>25 DEF Refresh
  <1>26. CASE Reauthorize(r)
    BY <1>26 DEF Reauthorize
  <1>27. CASE Serve(r)
    BY <1>27 DEF Serve
  <1>28. CASE ReadETag(r)
    BY <1>28 DEF ReadETag
  <1>29. CASE ReadList(r)
    BY <1>29 DEF ReadList
  <1> QED
    BY <1>1, <1>2, <1>3, <1>4, <1>5, <1>6, <1>7, <1>8, <1>9, <1>10, <1>11, <1>12,
       <1>13, <1>14, <1>15, <1>16, <1>17, <1>18, <1>19, <1>20, <1>21, <1>22, <1>23,
       <1>24, <1>25, <1>26, <1>27, <1>28, <1>29 DEF Step, Run

\* Requests forget no service: nobody has read it before if nobody has after.
LEMMA UnreadBefore ==
  ASSUME IInv, NamedLate, NEW r \in Requests, Step(r), NEW s, s # 0, Unread(s)'
  PROVE  Unread(s)
  <1>0. TypeOK
    BY DEF IInv
  <1> SUFFICES ASSUME NEW q \in Requests, sid[q] = s PROVE op[q] # "getOutput"
    BY DEF Unread
  <1>1. sid'[q] = s
    BY <1>0, StepIsOwn DEF NamedLate
  <1> QED
    BY <1>0, <1>1, StepIsOwn DEF Unread

\* What a step makes for a service, it makes for its own.
LEMMA MakersOwn ==
  ASSUME TypeOK, NEW r \in Requests, Step(r), NEW s,
         ~(sid[r] = s /\ (Creating(r) \/ op[r] = "getOutput"))
  PROVE  /\ OutputOf(s) \in files' => OutputOf(s) \in files
         /\ <<"service", s>> \in registered' => <<"service", s>> \in registered
         /\ <<"output", s>> \in registered' => <<"output", s>> \in registered
         /\ s \in DOMAIN outputAssets' =>
              s \in DOMAIN outputAssets /\ outputAssets'[s] = outputAssets[s]
  <1> USE DEF TypeOK, LabelsOf, Ops, Creating, At, OutputOf, DirectoriesOf, counterVars,
      collectionVars, backingVars, argVars, localVars
  <1>1. CASE Provision(r)
    BY <1>1 DEF Provision
  <1>2. CASE Dispatch(r)
    BY <1>2 DEF Dispatch, FirstLabel
  <1>3. CASE Refuse(r)
    BY <1>3 DEF Refuse
  <1>4. CASE RegisterAggregator(r)
    BY <1>4 DEF RegisterAggregator, RegisterAtAS, AggregatorResources
  <1>5. CASE UnregisterAggregator(r)
    BY <1>5 DEF UnregisterAggregator, UnregisterAtAS
  <1>6. CASE DropAggregator(r)
    BY <1>6 DEF DropAggregator
  <1>7. CASE Reserve(r)
    BY <1>7 DEF Reserve
  <1>8. CASE ClearOutput(r)
    BY <1>8 DEF ClearOutput
  <1>9. CASE WriteOutput(r)
    BY <1>9 DEF WriteOutput
  <1>10. CASE RegisterService(r)
    BY <1>10 DEF RegisterService, RegisterAtAS
  <1>11. CASE StoreAsset(r)
    BY <1>11 DEF StoreAsset, Assign
  <1>12. CASE RegisterOutput(r)
    BY <1>12 DEF RegisterOutput, RegisterAtAS
  <1>13. CASE PutDerivation(r)
    BY <1>13 DEF PutDerivation, FailUpdate, Updated
  <1>14. CASE UpdateResource(r)
    BY <1>14 DEF UpdateResource, FailUpdate, Updated
  <1>15. CASE StoreDerivedFrom(r)
    BY <1>15 DEF StoreDerivedFrom, Assign, Updated
  <1>16. CASE Insert(r)
    BY <1>16 DEF Insert
  <1>17. CASE Lookup(r)
    BY <1>17 DEF Lookup
  <1>18. CASE RemoveFile(r)
    BY <1>18 DEF RemoveFile
  <1>19. CASE UnregisterService(r)
    BY <1>19 DEF UnregisterService, UnregisterAtAS
  <1>20. CASE Cleanup(r)
    BY <1>20 DEF Cleanup, Drop
  <1>21. CASE DeleteDerivation(r)
    BY <1>21 DEF DeleteDerivation
  <1>22. CASE DropService(r)
    BY <1>22 DEF DropService
  <1>23. CASE Authorize(r)
    BY <1>23 DEF Authorize
  <1>24. CASE Validate(r)
    BY <1>24 DEF Validate
  <1>25. CASE Refresh(r)
    BY <1>25 DEF Refresh
  <1>26. CASE Reauthorize(r)
    BY <1>26 DEF Reauthorize
  <1>27. CASE Serve(r)
    BY <1>27 DEF Serve
  <1>28. CASE ReadETag(r)
    BY <1>28 DEF ReadETag
  <1>29. CASE ReadList(r)
    BY <1>29 DEF ReadList
  <1> QED
    BY <1>1, <1>2, <1>3, <1>4, <1>5, <1>6, <1>7, <1>8, <1>9, <1>10, <1>11,
       <1>12, <1>13, <1>14, <1>15, <1>16, <1>17, <1>18, <1>19, <1>20, <1>21,
       <1>22, <1>23, <1>24, <1>25, <1>26, <1>27, <1>28, <1>29 DEF Step, Run

\* A directory that was made is never removed for good.
LEMMA DirectoriesAreKept ==
  ASSUME TypeOK, Faults \subseteq {"silence"}, NEW r \in Requests, Step(r)
  PROVE  /\ \A s : DirectoriesOf(s) \in files => DirectoriesOf(s) \in files'
         /\ pc[r] = "clearOutput" => DirectoriesOf(sid[r]) \in files'
  <1> USE DEF TypeOK, At, OutputOf, DirectoriesOf, counterVars, collectionVars, backingVars,
      argVars, localVars
  <1>1. CASE Provision(r)
    BY <1>1 DEF Provision
  <1>2. CASE Dispatch(r)
    BY <1>2 DEF Dispatch
  <1>3. CASE Refuse(r)
    BY <1>3 DEF Refuse
  <1>4. CASE RegisterAggregator(r)
    BY <1>4 DEF RegisterAggregator
  <1>5. CASE UnregisterAggregator(r)
    BY <1>5 DEF UnregisterAggregator
  <1>6. CASE DropAggregator(r)
    BY <1>6 DEF DropAggregator
  <1>7. CASE Reserve(r)
    BY <1>7 DEF Reserve
  <1>8. CASE ClearOutput(r)
    BY <1>8 DEF ClearOutput
  <1>9. CASE WriteOutput(r)
    BY <1>9 DEF WriteOutput
  <1>10. CASE RegisterService(r)
    BY <1>10 DEF RegisterService
  <1>11. CASE StoreAsset(r)
    BY <1>11 DEF StoreAsset
  <1>12. CASE RegisterOutput(r)
    BY <1>12 DEF RegisterOutput
  <1>13. CASE PutDerivation(r)
    BY <1>13 DEF PutDerivation
  <1>14. CASE UpdateResource(r)
    BY <1>14 DEF UpdateResource
  <1>15. CASE StoreDerivedFrom(r)
    BY <1>15 DEF StoreDerivedFrom
  <1>16. CASE Insert(r)
    BY <1>16 DEF Insert
  <1>17. CASE Lookup(r)
    BY <1>17 DEF Lookup
  <1>18. CASE RemoveFile(r)
    BY <1>18 DEF RemoveFile
  <1>19. CASE UnregisterService(r)
    BY <1>19 DEF UnregisterService
  <1>20. CASE Cleanup(r)
    BY <1>20 DEF Cleanup
  <1>21. CASE DeleteDerivation(r)
    BY <1>21 DEF DeleteDerivation
  <1>22. CASE DropService(r)
    BY <1>22 DEF DropService
  <1>23. CASE Authorize(r)
    BY <1>23 DEF Authorize
  <1>24. CASE Validate(r)
    BY <1>24 DEF Validate
  <1>25. CASE Refresh(r)
    BY <1>25 DEF Refresh
  <1>26. CASE Reauthorize(r)
    BY <1>26 DEF Reauthorize
  <1>27. CASE Serve(r)
    BY <1>27 DEF Serve
  <1>28. CASE ReadETag(r)
    BY <1>28 DEF ReadETag
  <1>29. CASE ReadList(r)
    BY <1>29 DEF ReadList
  <1> QED
    BY <1>1, <1>2, <1>3, <1>4, <1>5, <1>6, <1>7, <1>8, <1>9, <1>10, <1>11,
       <1>12, <1>13, <1>14, <1>15, <1>16, <1>17, <1>18, <1>19, <1>20, <1>21,
       <1>22, <1>23, <1>24, <1>25, <1>26, <1>27, <1>28, <1>29 DEF Step, Run

\* A POST goes through clearOutput, and makes the directories of its service.
LEMMA DirectoriesStayStep ==
  ASSUME IInv, NamedLate, Faults \subseteq {"silence"}, DirectoriesStay, NEW r \in Requests, Step(r)
  PROVE  DirectoriesStay'
  <1>0. TypeOK /\ UNCHANGED op
    BY StepIsOwn DEF IInv
  <1> SUFFICES ASSUME NEW q \in Requests, op[q] = "createService",
                      pc'[q] \notin {"idle", "reserve", "clearOutput"}, sid'[q] # 0
               PROVE  DirectoriesOf(sid'[q]) \in files'
    BY <1>0 DEF DirectoriesStay, DirectoriesOf
  <1>1. CASE q # r
    BY <1>0, <1>1, StepIsOwn, DirectoriesAreKept DEF DirectoriesStay
  <1>2. CASE q = r /\ pc[r] = "clearOutput"
    BY <1>0, <1>2, StepIsOwn, DirectoriesAreKept
  <1>3. CASE q = r /\ pc[r] \notin {"clearOutput", "reserve", "idle"}
    <2>1. pc[r] # "lookup"
      BY <1>0, <1>3 DEF TypeOK, LabelsOf, Ops
    <2> QED
      BY <1>0, <1>3, <2>1, StepIsOwn, DirectoriesAreKept DEF DirectoriesStay
  <1>4. CASE q = r /\ pc[r] = "reserve"
    <2>1. CASE Reserve(r)
      BY <1>0, <1>4, <2>1 DEF Reserve, Goto, TypeOK
    <2>2. CASE Refuse(r)
      BY <1>0, <1>4, <2>2 DEF Refuse, NamedLate, argVars
    <2> QED
      BY <1>4, <2>1, <2>2, StepAtLabel
  <1>5. CASE q = r /\ pc[r] = "idle"
    BY <1>0, <1>5, StepIsOwn DEF NamedLate
  <1> QED
    BY <1>1, <1>2, <1>3, <1>4, <1>5

\* A POST hands what it derived its service from to the asset, and then to the
\* entry in the collection.
LEMMA AgreedByMaker ==
  ASSUME BackedInv, Faults \subseteq {"silence"}, CreationSucceeds', DerivationsAreAgreed,
         NEW r \in Requests, Step(r), op[r] = "createService", sid'[r] # 0, Unread(sid'[r]),
         pc'[r] \in {"insert", "done"}
  PROVE  sid'[r] \in DOMAIN outputAssets' => outputAssets'[sid'[r]] = update'[r]
  <1>0. TypeOK /\ IInv /\ UNCHANGED op
    BY StepIsOwn DEF BackedInv, IInv
  <1>1. CASE StoreDerivedFrom(r)
    BY <1>0, <1>1 DEF StoreDerivedFrom, Assign, argVars, localVars
  <1>2. CASE Insert(r)
    <2>1. UNCHANGED <<sid, update, outputAssets>> /\ pc[r] = "insert"
      BY <1>2 DEF Insert, At, argVars, localVars, backingVars
    <2> QED
      BY <2>1 DEF DerivationsAreAgreed, DerivationIsAgreed
  <1>3. ~PutDerivation(r) \/ pc'[r] = "updateResource"
    BY <1>0 DEF PutDerivation, Goto, TypeOK
  <1>4. ~UpdateResource(r) \/ pc'[r] = "storeDerivedFrom"
    BY <1>0
    DEF UpdateResource, Goto, At, TypeOK, BackedInv, NewServiceIsBacked, HasMade
  <1>5. outcome'[r] \in {"ok", "panic"} \/ pc'[r] = "insert"
    BY <1>0 DEF CreationSucceeds
  <1> QED
    BY <1>0, <1>1, <1>2, <1>3, <1>4, <1>5
    DEF Step, Run, TypeOK, LabelsOf, Ops, IInv, SafetyInv, RequestsProgress, At, Goto, Finish,
        FirstLabel, Provision, Dispatch, Refuse, RegisterAggregator, UnregisterAggregator,
        DropAggregator, Reserve, ClearOutput, WriteOutput, RegisterService, StoreAsset,
        RegisterOutput, Lookup, RemoveFile, UnregisterService, Cleanup, DeleteDerivation,
        DropService, Authorize, Validate, Refresh, Reauthorize, Serve, ReadETag, ReadList

\* A DELETE finds it in the entry, and then in the asset.
LEMMA AgreedByDelete ==
  ASSUME BackedInv, DerivationsAreAgreed, NEW r \in Requests, Step(r),
         op[r] = "deleteService", NEW q \in Requests, op[q] = "createService",
         sid[q] # 0, sid'[r] = sid[q], Unread(sid[q])
  PROVE  update'[r] = update[q]
  <1>0. TypeOK /\ IInv /\ NamedLate
    BY DEF BackedInv, IInv
  <1>1. DerivationIsAgreed(q)
    BY DEF DerivationsAreAgreed
  <1>2. CASE Lookup(r)
    <2>1. CASE UNCHANGED <<sid, update>>
      BY <2>1, <1>1 DEF DerivationIsAgreed
    <2>2. CASE ~UNCHANGED <<sid, update>>
      <3>1. PICK s \in Members(agg[r]) : sid'[r] = s /\ update'[r] = services[agg[r]][s]
        BY <1>0, <1>2, <2>2 DEF Lookup, TypeOK
      <3> QED
        BY <1>1, <3>1 DEF DerivationIsAgreed, Members
    <2> QED
      BY <2>1, <2>2
  <1>3. CASE ~Lookup(r)
    <2>1. sid[r] = sid[q]
      BY <1>0, <1>3, StepIsOwn, StepAtLabel DEF TypeOK, LabelsOf, Ops
    <2>2. update[r] = update[q]
      BY <1>1, <2>1 DEF DerivationIsAgreed
    <2>3. CASE Cleanup(r)
      <3>1. pc[q] = "done"
        BY <1>0, <2>1 DEF IInv, SafetyInv, CreatorOwnsId, Creating, NamedLate
      <3>2. sid[r] \in DOMAIN outputAssets => outputAssets[sid[r]] = update[q]
        BY <1>1, <2>1, <3>1 DEF DerivationIsAgreed
      <3> QED
        BY <1>0, <2>2, <2>3, <3>2 DEF Cleanup, ToRemove, TypeOK
    <2>4. pc[r] \notin {"putDerivation", "updateResource"}
      BY <1>0 DEF TypeOK, LabelsOf, Ops
    <2> QED
      BY <1>0, <1>3, <2>2, <2>3, <2>4, DerivationSteps
  <1> QED
    BY <1>2, <1>3

\* As long as nobody reads a service, its POST, its asset, its entry and every
\* DELETE of it agree on what it is derived from.
LEMMA DerivationsAreAgreedStep ==
  ASSUME BackedInv, Faults \subseteq {"silence"}, CreationSucceeds', DerivationsAreAgreed,
         NEW r \in Requests, Step(r)
  PROVE  DerivationsAreAgreed'
  <1>0. TypeOK /\ IInv /\ NamedLate /\ UNCHANGED op
    BY StepIsOwn DEF BackedInv, IInv
  <1> SUFFICES ASSUME NEW q \in Requests, op[q] = "createService", sid'[q] # 0, Unread(sid[q])'
               PROVE  DerivationIsAgreed(q)'
    BY <1>0 DEF DerivationsAreAgreed
  <1>1. PICK s : s = sid'[q]
    OBVIOUS
  <1>2. Unread(s)
    <2>1. Unread(s)'
      BY <1>1 DEF Unread
    <2> QED
      BY <1>0, <1>1, <2>1, UnreadBefore
  <1>3. CASE q = r
    <2>1. pc'[q] \in {"insert", "done"} /\ s \in DOMAIN outputAssets' => outputAssets'[s] = update'[q]
      BY <1>1, <1>2, <1>3, AgreedByMaker
    <2>2. pc[r] = "reserve" \/ (Creating(r) /\ sid[r] = s)
      <3>1. CASE pc[r] = "idle"
        BY <1>0, <1>1, <1>3, <3>1, StepIsOwn DEF NamedLate
      <3>2. CASE pc[r] \notin {"idle", "reserve"}
        BY <1>0, <1>1, <1>3, <3>2, StepIsOwn, StepAtLabel DEF Creating, TypeOK, LabelsOf, Ops
      <3> QED
        BY <3>1, <3>2
    <2>3. CASE pc[r] = "reserve"
      <3>1. CASE Refuse(r)
        BY <1>0, <1>1, <1>3, <2>3, <3>1 DEF Refuse, NamedLate, argVars
      <3>2. CASE Reserve(r)
        <4>1. s = nextServiceID /\ UNCHANGED services
          BY <1>0, <1>1, <1>3, <3>2 DEF Reserve, TypeOK, collectionVars
        <4>2. \A p \in Requests : op[p] = "deleteService" => sid'[p] # s
          BY <1>0, <1>3, <4>1, StepIsOwn, IdsAssumption
          DEF IInv, SafetyInv, IdsWereHandedOut, TypeOK
        <4>3. \A a \in DOMAIN services : s \notin DOMAIN services[a]
          BY <1>0, <4>1, IdsAssumption DEF IInv, SafetyInv, IdsWereHandedOut, TypeOK
        <4> QED
          BY <1>0, <1>1, <2>1, <4>1, <4>2, <4>3 DEF DerivationIsAgreed
      <3> QED
        BY <2>3, <3>1, <3>2, StepAtLabel
    <2>4. CASE Creating(r) /\ sid[r] = s
      <3>1. \A p \in Requests : op[p] = "deleteService" => sid'[p] # s
        BY <1>0, <1>3, <2>4, StepIsOwn DEF IInv, SafetyInv, CreatorOwnsId
      <3>2. ASSUME NEW a \in DOMAIN services', s \in DOMAIN services'[a]
            PROVE  services'[a][s] = update'[q]
        <4>1. \A b \in DOMAIN services : s \notin DOMAIN services[b]
          BY <1>0, <2>4 DEF IInv, SafetyInv, CreatorOwnsId
        <4>2. pc[r] = "insert" /\ services'[a][s] = update[r]
          BY <1>0, <3>2, <4>1, ListingSteps
        <4>3. update'[r] = update[r]
          BY <4>2, StepAtLabel DEF Insert, localVars
        <4> QED
          BY <1>3, <4>2, <4>3
      <3> QED
        BY <1>0, <1>1, <2>1, <3>1, <3>2 DEF DerivationIsAgreed
    <2> QED
      BY <2>2, <2>3, <2>4
  <1>4. CASE q # r
    <2>0. /\ sid[q] = s /\ update'[q] = update[q] /\ pc'[q] = pc[q] /\ s # 0
          /\ DerivationIsAgreed(q)
      BY <1>0, <1>1, <1>2, <1>4, StepIsOwn DEF DerivationsAreAgreed
    <2>1. ~(sid[r] = s /\ (Creating(r) \/ op[r] = "getOutput"))
      BY <1>0, <1>2, <1>4, <2>0 DEF IInv, SafetyInv, CreatorOwnsId, Unread
    <2>2. pc'[q] \in {"insert", "done"} /\ s \in DOMAIN outputAssets' => outputAssets'[s] = update'[q]
      BY <1>0, <2>0, <2>1, MakersOwn DEF DerivationIsAgreed
    <2>3. ASSUME NEW a \in DOMAIN services', s \in DOMAIN services'[a]
          PROVE  services'[a][s] = update'[q]
      <3>1. pc[r] = "insert" => Creating(r)
        BY <1>0, LabelOps DEF Creating
      <3>2. pc[r] = "refresh" => op[r] = "getOutput"
        BY <1>0 DEF TypeOK, LabelsOf, Ops
      <3> QED
        BY <1>0, <2>0, <2>1, <2>3, <3>1, <3>2, ListingSteps DEF DerivationIsAgreed
    <2>4. ASSUME NEW p \in Requests, op[p] = "deleteService", sid'[p] = s
          PROVE  update'[p] = update'[q]
      <3>1. CASE p # r
        BY <1>0, <2>0, <2>4, <3>1, StepIsOwn DEF DerivationIsAgreed
      <3>2. CASE p = r
        BY <1>2, <2>0, <2>4, <3>2, AgreedByDelete
      <3> QED
        BY <3>1, <3>2
    <2> QED
      BY <1>0, <1>1, <2>2, <2>3, <2>4 DEF DerivationIsAgreed
  <1> QED
    BY <1>3, <1>4

\* That another service is derived from the same resource is not forgotten.
LEMMA UseIsHistory ==
  ASSUME IInv, NEW r \in Requests, Step(r), NEW s, NEW d, UsedBesides(s, d)
  PROVE  UsedBesides(s, d)'
  <1>0. TypeOK
    BY DEF IInv
  <1>1. PICK q \in Requests :
          /\ op[q] \in {"createService", "getOutput"} /\ sid[q] # s /\ update[q] \in {d, Failed}
          /\ pc[q] \in {"updateResource", "storeDerivedFrom", "insert", "refresh", "reauthorize",
                        "serve", "done"}
    BY DEF UsedBesides
  <1>2. CASE q # r
    BY <1>0, <1>1, <1>2, StepIsOwn DEF UsedBesides
  <1>3. CASE q = r
    <2>1. pc'[r] \in {"updateResource", "storeDerivedFrom", "insert", "refresh", "reauthorize",
                      "serve", "done"}
      BY <1>0, <1>1, <1>3, StepAtLabel
      DEF UpdateResource, StoreDerivedFrom, Insert, Refresh, Reauthorize, Serve, FailUpdate,
          Updated, Goto, Finish, TypeOK
    <2>2. update'[r] \in {d, Failed}
      BY <1>0, <1>1, <1>3, StepAtLabel, DerivationSteps DEF Lookup, Cleanup, At
    <2>3. sid'[r] = sid[r] /\ op' = op
      BY <1>0, <1>1, <1>3, StepIsOwn
    <2> QED
      BY <1>1, <1>3, <2>1, <2>2, <2>3 DEF UsedBesides
  <1> QED
    BY <1>2, <1>3

\* A DELETE removes, in order, the file, the registrations, the asset and the
\* derivation resource that the asset knows of.
LEMMA RemovedByStep ==
  ASSUME BackedInv, Faults \subseteq {"silence"}, NEW r \in Requests, Step(r),
         op[r] = "deleteService", sid[r] # 0 => Removed(r), sid'[r] # 0
  PROVE  Removed(r)'
  <1>0. PICK s, d : s = sid[r] /\ d = update[r]
    OBVIOUS
  <1>1. ASSUME UsedBesides(sid[r], update[r]), UNCHANGED <<sid, update>>
        PROVE  UsedBesides(sid[r], update[r])'
    <2>1. UsedBesides(s, d)
      BY <1>0, <1>1
    <2>2. UsedBesides(s, d)'
      BY <2>1, UseIsHistory DEF BackedInv
    <2> QED
      BY <1>0, <1>1, <2>2
  <1>2. pc[r] = "dropService" =>
          pc'[r] = "done" /\ UNCHANGED <<files, registered, outputAssets, derivations, sid, update, step>>
    BY StepAtLabel
    DEF DropService, Finish, At, BackedInv, IInv, TypeOK, backingVars, argVars, localVars
  <1>3. CASE pc[r] = "dropService"
    BY <1>1, <1>2, <1>3 DEF Removed, DeletePast, OutputOf
  <1>4. CASE pc[r] = "lookup"
    <2>1. Lookup(r) /\ pc'[r] = "removeFile"
      BY <1>4, StepAtLabel
      DEF Lookup, Goto, Finish, BackedInv, IInv, TypeOK, NamedLate
    <2>2. step'[r] = 1 /\ outcome'[r] # "ok"
      <3>1. outcome[r] # "ok"
        BY <1>4 DEF BackedInv, IInv, SafetyInv, RequestsProgress
      <3>2. outcome'[r] = outcome[r] /\ step'[r] = 1
        BY <1>4, <2>1
        DEF Lookup, Goto, Finish, At, BackedInv, IInv, TypeOK, UnregisteredInOrder
      <3> QED
        BY <3>1, <3>2
    <2> QED
      BY <2>1, <2>2 DEF Removed, DeletePast
  <1>5. CASE pc[r] = "removeFile"
    <2>1. RemoveFile(r)
      BY <1>5, StepAtLabel
    <2> QED
      BY <1>5, <2>1
      DEF RemoveFile, Goto, Finish, Removed, DeletePast, OutputOf, BackedInv, IInv, TypeOK,
          UnregisteredInOrder, SafetyInv, RequestsProgress, argVars, localVars
  <1>6. CASE pc[r] = "unregisterService"
    <2>1. UnregisterService(r) /\ outcome[r] # "ok"
      BY <1>6, StepAtLabel DEF BackedInv, IInv, SafetyInv, RequestsProgress
    <2> QED
      BY <1>6, <2>1
      DEF UnregisterService, UnregisterAtAS, ServiceResources, Goto, Removed, DeletePast,
          OutputOf, BackedInv, IInv, TypeOK, UnregisteredInOrder, argVars
  <1>7. CASE pc[r] = "cleanup"
    <2>1. Cleanup(r) /\ outcome[r] # "ok"
      BY <1>7, StepAtLabel DEF BackedInv, IInv, SafetyInv, RequestsProgress
    <2>2. /\ UNCHANGED <<files, registered, derivations, sid, step, outcome>>
          /\ sid[r] \notin DOMAIN outputAssets'
          /\ pc'[r] = "deleteDerivation" \/ (pc'[r] = "dropService" /\ update'[r] \notin derivations)
      BY <2>1 DEF Cleanup, Drop, Goto, BackedInv, IInv, TypeOK, argVars
    <2> QED
      BY <1>7, <2>1, <2>2 DEF Removed, DeletePast, OutputOf, BackedInv, IInv, TypeOK
  <1>8. CASE pc[r] = "deleteDerivation"
    <2>1. DeleteDerivation(r) /\ outcome[r] # "ok"
      BY <1>8, StepAtLabel DEF BackedInv, IInv, SafetyInv, RequestsProgress
    <2> QED
      BY <1>8, <2>1
      DEF DeleteDerivation, Goto, Removed, DeletePast, OutputOf, BackedInv, IInv, TypeOK,
          argVars, localVars
  <1>9. CASE pc[r] \in {"idle", "done"}
    BY <1>9, StepIsOwn, StepAtLabel DEF BackedInv, NamedLate, IInv
  <1> QED
    BY <1>3, <1>4, <1>5, <1>6, <1>7, <1>8, <1>9
    DEF BackedInv, IInv, TypeOK, LabelsOf, Ops

\* What one DELETE has removed nobody else makes again: the service is not
\* listed any more, and its POST has ended.
LEMMA RemovedStaysRemovedStep ==
  ASSUME BackedInv, Faults \subseteq {"silence"}, RemovedStaysRemoved, NEW r \in Requests, Step(r)
  PROVE  RemovedStaysRemoved'
  <1>0. TypeOK /\ IInv /\ NamedLate /\ UnregisteredInOrder /\ OwnNames /\ UNCHANGED op
    BY StepIsOwn DEF BackedInv, IInv
  <1>1. ASSUME NEW q \in Requests, q # r, op[q] = "deleteService", NEW s, s = sid[q], s # 0,
               Unread(s)'
        PROVE  Removed(q)'
    <2>1. Unread(s)
      BY <1>0, <1>1, UnreadBefore
    <2>2. Removed(q)
      BY <1>1, <2>1 DEF RemovedStaysRemoved
    <2>3. ~(sid[r] = s /\ (Creating(r) \/ op[r] = "getOutput"))
      BY <1>0, <1>1, <2>1 DEF IInv, SafetyInv, CreatorOwnsId, Unread
    <2>4. /\ pc'[q] = pc[q] /\ outcome'[q] = outcome[q] /\ sid'[q] = s /\ step'[q] = step[q]
          /\ update'[q] = update[q]
      BY <1>0, <1>1, StepIsOwn
    <2>5. /\ OutputOf(s) \in files' => OutputOf(s) \in files
          /\ <<"service", s>> \in registered' => <<"service", s>> \in registered
          /\ <<"output", s>> \in registered' => <<"output", s>> \in registered
          /\ s \in DOMAIN outputAssets' => s \in DOMAIN outputAssets
      BY <1>0, <2>3, MakersOwn
    <2>6. ASSUME NEW d, d = update[q], d \in derivations', d \in derivations => UsedBesides(s, d)
          PROVE  UsedBesides(s, d)'
      <3>1. CASE d \in derivations
        BY <1>0, <2>6, <3>1, UseIsHistory
      <3>2. CASE d \notin derivations
        <4>1. /\ pc[r] = "putDerivation" /\ pc'[r] \in {"updateResource", "insert", "refresh"}
              /\ d \in NamedBy(r) /\ update'[r] \in {d, Failed}
          BY <1>0, <2>6, <3>2, DerivationSteps
        <4>2. /\ op[r] \in {"createService", "getOutput"} /\ sid[r] \in Ids
              /\ op[r] = "createService" => Creating(r)
          BY <1>0, <4>1 DEF TypeOK, LabelsOf, Ops, NamesService, Creating
        <4>3. sid[r] # s
          BY <2>3, <4>2
        <4>4. d # sid[r]
          BY <1>0, <1>1, <2>6, <4>2, <4>3 DEF OwnNames
        <4>5. d \in UASIds /\ sid'[r] = sid[r]
          BY <1>0, <4>1, <4>4, StepIsOwn DEF NamedBy
        <4> QED
          BY <1>0, <4>1, <4>2, <4>3, <4>5 DEF UsedBesides
      <3> QED
        BY <3>1, <3>2
    <2>7. PICK d : d = update[q]
      OBVIOUS
    <2>8. UsedBesides(s, d)' => UsedBesides(sid[q], update[q])'
      BY <1>1, <2>4, <2>7 DEF UsedBesides
    <2> QED
      BY <1>1, <2>2, <2>4, <2>5, <2>6, <2>7, <2>8 DEF Removed, DeletePast, OutputOf
  <1>2. ASSUME op[r] = "deleteService", sid'[r] # 0, Unread(sid[r])'
        PROVE  Removed(r)'
    <2>1. sid[r] # 0 => sid'[r] = sid[r]
      BY <1>0, <1>2, StepIsOwn DEF NamedLate
    <2>2. sid[r] # 0 => Removed(r)
      <3> SUFFICES ASSUME sid[r] # 0 PROVE Removed(r)
        OBVIOUS
      <3>1. PICK s : s = sid[r]
        OBVIOUS
      <3>2. Unread(s)'
        BY <1>2, <2>1, <3>1 DEF Unread
      <3>3. Unread(s)
        BY <1>0, <3>1, <3>2, UnreadBefore
      <3> QED
        BY <1>2, <3>1, <3>3 DEF RemovedStaysRemoved
    <2> QED
      BY <1>2, <2>2, RemovedByStep
  <1> QED
    <2> SUFFICES ASSUME NEW q \in Requests, op[q] = "deleteService", sid'[q] # 0, Unread(sid[q])'
                 PROVE  Removed(q)'
      BY <1>0 DEF RemovedStaysRemoved
    <2>1. PICK s : s = sid'[q]
      OBVIOUS
    <2>2. Unread(s)'
      BY <2>1 DEF Unread
    <2>3. CASE q = r
      BY <1>2, <2>3
    <2>4. CASE q # r
      BY <1>0, <1>1, <2>1, <2>2, <2>4, StepIsOwn
    <2> QED
      BY <2>3, <2>4

\* The state is right when the server starts ...
LEMMA CleanupInit == Init => CleanupInv
  <1> SUFFICES ASSUME Init PROVE CleanupInv
    OBVIOUS
  <1>1. BackedInv
    BY BackedInit
  <1>2. CreationSucceeds /\ DerivationsAreAgreed /\ DirectoriesStay /\ RemovedStaysRemoved
    BY DEF Init, CreationSucceeds, DerivationsAreAgreed, DirectoriesStay, RemovedStaysRemoved
  <1> QED
    BY <1>1, <1>2 DEF CleanupInv

\* ... and stays right with every step of every handler, when none fails.
LEMMA CleanupStep == Faults \subseteq {"silence"} /\ CleanupInv /\ [Next]_vars => CleanupInv'
  <1> SUFFICES ASSUME Faults \subseteq {"silence"}, CleanupInv, [Next]_vars PROVE CleanupInv'
    OBVIOUS
  <1>1. BackedInv'
    BY BackedStep DEF CleanupInv
  <1>2. CASE UNCHANGED serverVars
    <2>1. UNCHANGED <<services, outputAssets, registered, derivations, files, pc, op, sid,
                      step, update, outcome>>
      BY <1>2 DEF serverVars, collectionVars, backingVars, argVars, localVars
    <2>2. CreationSucceeds' /\ DirectoriesStay'
      BY <2>1 DEF CleanupInv, CreationSucceeds, DirectoriesStay, DirectoriesOf
    <2>3. DerivationsAreAgreed'
      BY <2>1 DEF CleanupInv, DerivationsAreAgreed, DerivationIsAgreed, Unread
    <2>4. RemovedStaysRemoved'
      BY <2>1
      DEF CleanupInv, RemovedStaysRemoved, Removed, DeletePast, Unread, UsedBesides, OutputOf
    <2> QED
      BY <1>1, <2>2, <2>3, <2>4 DEF CleanupInv
  <1>3. ASSUME NEW r \in Requests, Step(r) PROVE CleanupInv'
    <2>1. /\ BackedInv /\ IInv /\ NamedLate /\ CreationSucceeds
          /\ DerivationsAreAgreed /\ DirectoriesStay /\ RemovedStaysRemoved
      BY DEF CleanupInv, BackedInv
    <2>2. CreationSucceeds'
      BY <1>3, <2>1, CreationSucceedsStep
    <2>3. DerivationsAreAgreed'
      BY <1>3, <2>1, <2>2, DerivationsAreAgreedStep
    <2>4. DirectoriesStay'
      BY <1>3, <2>1, DirectoriesStayStep
    <2>5. RemovedStaysRemoved'
      BY <1>3, <2>1, RemovedStaysRemovedStep
    <2> QED
      BY <1>1, <2>2, <2>3, <2>4, <2>5 DEF CleanupInv
  <1> QED
    BY <1>2, <1>3 DEF Next, NoAnswer, vars

\* Deleting a service undoes creating it up to its directories, when no call
\* fails (though some may never return) and nobody reads its output meanwhile.
THEOREM DeleteUndoesCreate ==
  ASSUME Faults \subseteq {"silence"} PROVE Spec => []DeleteLeavesOnlyDirectories
  <1>1. CleanupInv => DeleteLeavesOnlyDirectories
    <2> SUFFICES ASSUME CleanupInv, NEW r \in Requests,
                        op[r] = "createService", pc[r] = "done", sid[r] # 0, agg[r] \in aggregators,
                        \A q \in Requests : sid[q] = sid[r] => pc[q] = "done" /\ op[q] # "getOutput"
                 PROVE  /\ Remains(sid[r]) = {"directories"} <=> ~Listed(agg[r], sid[r])
                        /\ ~Listed(agg[r], sid[r]) /\ update[r] \in derivations
                             => UsedBesides(sid[r], update[r])
      BY DEF DeleteLeavesOnlyDirectories
    <2>0. IInv /\ ListedServiceIsBacked
      BY DEF CleanupInv, BackedInv
    <2>1. ASSUME Listed(agg[r], sid[r]) PROVE Remains(sid[r]) # {"directories"}
      <3>1. ~\E q \in Requests : Deleting(q, sid[r])
        BY DEF Deleting
      <3>2. sid[r] \in DOMAIN outputAssets
        BY <2>0, <2>1, <3>1 DEF ListedServiceIsBacked, Listed
      <3>3. "asset" \in Remains(sid[r])
        BY <3>2 DEF Remains
      <3> QED
        BY <3>3
    <2>2. ASSUME ~Listed(agg[r], sid[r])
          PROVE  /\ Remains(sid[r]) = {"directories"}
                 /\ update[r] \in derivations => UsedBesides(sid[r], update[r])
      <3>1. outcome[r] # "panic"
        BY <2>0 DEF IInv, SafetyInv, PanickedIsGone
      <3>2. Answered(r, "createService")
        BY <3>1 DEF CleanupInv, CreationSucceeds, Answered
      <3>3. PICK q \in Requests : Answered(q, "deleteService") /\ sid[q] = sid[r]
        BY <2>0, <2>2, <3>2 DEF IInv, SafetyInv, CreatedServiceIsListed
      <3>4. Unread(sid[r])
        BY DEF Unread
      <3>5. Removed(q)
        BY <3>3, <3>4 DEF CleanupInv, RemovedStaysRemoved, Answered, Unread
      <3>6. update[q] = update[r]
        BY <3>3, <3>4 DEF CleanupInv, DerivationsAreAgreed, DerivationIsAgreed, Answered
      <3>7. /\ <<"file", sid[r]>> \notin files /\ sid[r] \notin DOMAIN outputAssets
            /\ <<"service", sid[r]>> \notin registered /\ <<"output", sid[r]>> \notin registered
            /\ update[r] \in derivations => UsedBesides(sid[r], update[r])
        BY <3>3, <3>5, <3>6 DEF Removed, DeletePast, Answered, OutputOf
      <3>8. <<"directories", sid[r]>> \in files
        BY DEF CleanupInv, DirectoriesStay, DirectoriesOf
      <3> QED
        BY <3>7, <3>8 DEF Remains
    <2> QED
      BY <2>1, <2>2
  <1> QED
    BY <1>1, CleanupInit, CleanupStep, PTL DEF Spec
=============================================================================
