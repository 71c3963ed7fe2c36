---------------------- MODULE AggregatorServerInvariant ----------------------
(***************************************************************************)
(* The inductive invariant behind the safety properties of                 *)
(* AggregatorServer. What keeps the collections right although every       *)
(* handler works on data it read some critical sections ago is that ids    *)
(* are never used twice: an id that a request holds can only ever name the *)
(* aggregator, or the service, it named when the request got it.           *)
(***************************************************************************)
EXTENDS AggregatorServer

\* A POST that has reserved an id and has not yet listed the service.
Creating(r) == op[r] = "createService" /\ pc[r] \notin {"idle", "done", "reserve"}

\* A request starts knowing no aggregator and no service, and ends answered.
RequestsProgress ==
  \A r \in Requests :
    /\ outcome[r] # "pending" <=> pc[r] = "done"
    /\ pc[r] = "idle" => agg[r] = 0 /\ sid[r] = 0

\* Every id in use was handed out by one of the two counters.
IdsWereHandedOut ==
  /\ \A a \in aggregators : a < nextID
  /\ \A a \in DOMAIN services : \A s \in DOMAIN services[a] : s < nextServiceID
  /\ \A r \in Requests : agg[r] < nextID /\ sid[r] < nextServiceID

\* A service id belongs to the POST that reserved it, until it is listed.
CreatorOwnsId ==
  \A r \in Requests : Creating(r) =>
    /\ \A q \in Requests : sid[q] = sid[r] => q = r
    /\ \A a \in DOMAIN services : sid[r] \notin DOMAIN services[a]

\* A service is listed by one aggregator, the one of every request on it.
OneHome ==
  /\ \A a, b \in DOMAIN services : \A s \in DOMAIN services[a] :
       s \in DOMAIN services[b] => a = b
  /\ \A r \in Requests : \A a \in DOMAIN services : sid[r] \in DOMAIN services[a] => a = agg[r]

\* An aggregator a request was let in for is there until a DELETE drops it.
GoneWasDeleted ==
  \A r \in Requests : agg[r] \in Ids /\ agg[r] \notin aggregators =>
    \E q \in Requests : Answered(q, "deleteAggregator") /\ agg[q] = agg[r]

PanickedIsGone == \A r \in Requests : outcome[r] = "panic" => agg[r] \in Ids \ aggregators

\* A list that is read after its ETag is not older than it.
ListNotOlderThanETag ==
  \A r \in Requests : (op[r] = "getCollection" /\ agg[r] \in aggregators) =>
    /\ pc[r] = "readList" => etag[r] <= Revision(agg[r])
    /\ outcome[r] = "ok" =>
         /\ etag[r] <= Revision(agg[r])
         /\ etag[r] = Revision(agg[r]) => body[r] = Members(agg[r])

SafetyInv ==
  /\ RequestsProgress
  /\ IdsWereHandedOut
  /\ CollectionsMatchAggregators
  /\ CreatorOwnsId
  /\ OneHome
  /\ DeletedServiceStaysDeleted
  /\ CreatedServiceIsListed
  /\ GoneWasDeleted
  /\ PanickedIsGone
  /\ ListNotOlderThanETag

\* The inductive invariant: proved in AggregatorServerProofs, checked here to
\* hold in every reachable state of a small instance.
IInv == TypeOK /\ SafetyInv
-----------------------------------------------------------------------------
(***************************************************************************)
(* What backs a listed service: its asset, its registrations and its       *)
(* derivation resource. They are there before createService lists it, and  *)
(* only a DELETE that has removed the file takes them away.                *)
(***************************************************************************)
Unlisted(s) == \A a \in DOMAIN services : s \notin DOMAIN services[a]

BeingDeleted(s) == \E q \in Requests : Deleting(q, s)

\* A request names a service from the step on that finds, or makes up, its id.
NamedLate == \A r \in Requests : pc[r] \in {"idle", "reserve", "lookup"} => sid[r] = 0

\* The two resources of a service are unregistered in order.
UnregisteredInOrder ==
  \A r \in Requests : op[r] = "deleteService" =>
    /\ step[r] \in {1, 2}
    /\ pc[r] \in {"idle", "lookup", "removeFile"} => step[r] = 1

\* A POST has what the steps behind it made.
HasMade(r) ==
  /\ LiveAS /\ pc[r] \in {"storeAsset", "registerOutput", "putDerivation", "updateResource",
                          "storeDerivedFrom", "insert"}
       => <<"service", sid[r]>> \in registered
  /\ pc[r] \in {"registerOutput", "putDerivation", "updateResource", "storeDerivedFrom", "insert"}
       => sid[r] \in DOMAIN outputAssets
  /\ LiveAS /\ pc[r] \in {"putDerivation", "updateResource", "storeDerivedFrom", "insert"}
       => <<"output", sid[r]>> \in registered

NewServiceIsBacked == \A r \in Requests : op[r] = "createService" => HasMade(r)

\* A derivation resource named after a service is that service's.
OwnNames ==
  /\ \A a \in DOMAIN services : \A s \in DOMAIN services[a] :
       services[a][s] \in Ids => services[a][s] = s
  /\ \A s \in DOMAIN outputAssets : outputAssets[s] \in Ids => outputAssets[s] = s
  /\ \A r \in Requests : update[r] \in Ids => update[r] = sid[r]

\* What is about to be listed, or stored again, as derived has its derivation
\* resource, unless a DELETE came in between.
HasPut(r) ==
  ( /\ pc[r] \in {"updateResource", "storeDerivedFrom", "insert", "refresh"}
    /\ ManagesUAS /\ update[r] \in DerivationIds )
  => \/ Stands(update[r])
     \/ op[r] = "getOutput" /\ (Unlisted(sid[r]) \/ BeingDeleted(sid[r]))

DerivedHasDerivation == \A r \in Requests : HasPut(r)

BackedInv ==
  /\ IInv
  /\ NamedLate
  /\ UnregisteredInOrder
  /\ NewServiceIsBacked
  /\ OwnNames
  /\ DerivedHasDerivation
  /\ ListedServiceIsBacked
-----------------------------------------------------------------------------
(***************************************************************************)
(* What deleting a service leaves, when no call fails and nobody reads its *)
(* output.                                                                 *)
(***************************************************************************)
Unread(s) == \A q \in Requests : sid[q] = s => op[q] # "getOutput"

\* A DELETE that is at one of the last labels, or answered 204.
DeletePast(r, labels) == pc[r] \in labels \/ outcome[r] = "ok"

\* A POST that has reserved an id lists the service, or panics.
CreationSucceeds ==
  \A r \in Requests : op[r] = "createService" /\ pc[r] = "done" /\ sid[r] # 0 =>
    outcome[r] \in {"ok", "panic"}

\* What the POST of a service derived it from is what its asset, its entry
\* and every DELETE of it say, as long as no rematerialization changes it.
DerivationIsAgreed(r) ==
  /\ pc[r] \in {"insert", "done"} /\ sid[r] \in DOMAIN outputAssets
       => outputAssets[sid[r]] = update[r]
  /\ \A a \in DOMAIN services : sid[r] \in DOMAIN services[a] => services[a][sid[r]] = update[r]
  /\ \A q \in Requests : op[q] = "deleteService" /\ sid[q] = sid[r] => update[q] = update[r]

DerivationsAreAgreed ==
  \A r \in Requests :
    op[r] = "createService" /\ sid[r] # 0 /\ Unread(sid[r]) => DerivationIsAgreed(r)

\* What a DELETE has removed stays away.
Removed(r) ==
  /\ DeletePast(r, {"unregisterService", "cleanup", "deleteDerivation", "dropService"})
       => OutputOf(sid[r]) \notin files
  /\ step[r] = 2 \/ DeletePast(r, {"cleanup", "deleteDerivation", "dropService"})
       => <<"service", sid[r]>> \notin registered
  /\ DeletePast(r, {"cleanup", "deleteDerivation", "dropService"})
       => <<"output", sid[r]>> \notin registered
  /\ DeletePast(r, {"deleteDerivation", "dropService"}) => sid[r] \notin DOMAIN outputAssets
  /\ DeletePast(r, {"dropService"}) /\ update[r] \in derivations
       => UsedBesides(sid[r], update[r])

\* The directories of a service are there from its POST on.
DirectoriesStay ==
  \A r \in Requests :
    op[r] = "createService" /\ pc[r] \notin {"idle", "reserve", "clearOutput"} /\ sid[r] # 0
      => DirectoriesOf(sid[r]) \in files

RemovedStaysRemoved ==
  \A r \in Requests :
    op[r] = "deleteService" /\ sid[r] # 0 /\ Unread(sid[r]) => Removed(r)

CleanupInv ==
  /\ BackedInv
  /\ CreationSucceeds
  /\ DerivationsAreAgreed
  /\ DirectoriesStay
  /\ RemovedStaysRemoved
=============================================================================
