--------------------------- MODULE AggregatorServer ---------------------------
(***************************************************************************)
(* The request handlers of internal/httpapi/routes.go that change the      *)
(* server's state, as goroutines that interleave: provision and delete an  *)
(* aggregator, create and delete a service, read a collection, read (and   *)
(* rematerialize) the output of a service.                                 *)
(*                                                                         *)
(* net/http runs every request in a goroutine of its own and Server.mu     *)
(* guards the maps, but a handler takes and releases it several times and  *)
(* calls the authorization server (AS), the upstream authorization server  *)
(* (UAS) and the file system in between. A step of this module is one      *)
(* critical section or one such call; everything between two of them runs  *)
(* on the request's own data. Each member of Requests is one request.      *)
(*                                                                         *)
(* A service id stands for everything named after it: its entry in the     *)
(* collection, its output resource (<service>/output), its directories and *)
(* the name of its derivation resource (<prefix>-<service>). That name is  *)
(* used only when the UAS names no derivation resource with its token: the *)
(* ones it does name belong to a source, not to a service, and services    *)
(* over one source share them.                                             *)
(***************************************************************************)
EXTENDS Naturals

CONSTANTS
  Requests,   \* the requests clients send
  NoRequest,  \* the holder of the mutex when it is free
  MayAsk,     \* MayAsk[r]: the operations request r may be (the workload)
  LiveAS,     \* TRUE iff shouldUseLiveAuthorizationServer
  ManagesUAS, \* TRUE iff the UAS derivation resources are managed
  Faults,     \* what may fail: "as", "uas", "fs", "source"; "silence": calls may never return
  Ids,        \* the values nextID and nextServiceID may take
  UASIds,     \* the derivation resources the UAS names itself
  Plain,      \* the last update of a service that is not derived
  Failed      \* the last update of a service when it failed

Ops == {"provision", "deleteAggregator", "createService", "deleteService",
        "getOutput", "getCollection", "headCollection"}

ASSUME RequestsAssumption == NoRequest \notin Requests
ASSUME WorkloadAssumption == MayAsk \in [Requests -> SUBSET Ops]
ASSUME ModeAssumption ==
  /\ LiveAS \in BOOLEAN
  /\ ManagesUAS \in BOOLEAN
  /\ LiveAS => ManagesUAS
  /\ Faults \subseteq {"as", "uas", "fs", "source", "silence"}
ASSUME IdsAssumption ==
  /\ Ids \subseteq Nat \ {0}
  /\ Ids \cap UASIds = {}
  /\ Plain # Failed /\ {Plain, Failed} \cap (Ids \cup UASIds) = {}

VARIABLES
  \* Fields of Server.
  mu,                \* who holds the mutex
  nextID,
  nextServiceID,
  aggregators,       \* the ids in the map of that name
  services,          \* aggregator -> service -> outcome of its last update
  serviceRevisions,  \* aggregator -> revision; an absent one reads as 0
  outputAssets,      \* service -> the DerivedFrom of its asset
  \* State outside the server.
  registered,        \* the resources registered at the AS
  derivations,       \* the derivation resources at the UAS
  files,             \* the output file and the directories of the services
  \* Locals of the request goroutines.
  pc, op, agg, sid,
  step,              \* the next of a list of resources to (un)register
  update,            \* what updateOutputAssetDerivedFrom came to; for DELETE,
                     \* the service as looked up and then what was removed
  etag, body,        \* the response to a read of a collection
  outcome,           \* how the request was answered
  silent             \* the requests whose call never returns

counterVars == <<nextID, nextServiceID>>
collectionVars == <<aggregators, services, serviceRevisions>>
backingVars == <<outputAssets, registered, derivations, files>>
argVars == <<op, agg, sid>>
localVars == <<step, update, etag, body>>
serverVars == <<mu, counterVars, collectionVars, backingVars, pc, argVars, localVars, outcome>>
vars == <<serverVars, silent>>

(***************************************************************************)
(* A service (and an asset) keeps the derivation resource in its           *)
(* DerivedFrom (status ready), or none: Plain (status ready) or Failed     *)
(* (status failed). The derivation resource is the one the UAS named with  *)
(* its token or else the one named after the service.                      *)
(***************************************************************************)
DerivationIds == Ids \cup UASIds
Updates == {Plain, Failed} \cup DerivationIds

\* On disk a service has its output file, and its directories: the workspace
\* <OxigraphWorkdir>/<service> with the store and the staged sources, and the
\* directory of the output.
OutputOf(s) == <<"file", s>>
DirectoriesOf(s) == <<"directories", s>>

Outcomes == {"pending", "ok", "refused", "notfound", "error", "panic"}

Labels ==
  {"idle", "done",
   "registerAggregator", "unregisterAggregator", "dropAggregator",
   "reserve", "clearOutput", "writeOutput", "registerService", "storeAsset",
   "registerOutput", "putDerivation", "updateResource", "storeDerivedFrom", "insert",
   "lookup", "removeFile", "unregisterService", "cleanup", "deleteDerivation", "dropService",
   "authorize", "validate", "refresh", "reauthorize", "serve",
   "readETag", "readList"}

\* Assignment to a key of a Go map, and delete(m, k).
Assign(f, k, v) == [x \in DOMAIN f \cup {k} |-> IF x = k THEN v ELSE f[x]]
Drop(f, k) == [x \in DOMAIN f \ {k} |-> f[x]]
EmptyMap == [x \in {} |-> x]

Revision(a) == IF a \in DOMAIN serviceRevisions THEN serviceRevisions[a] ELSE 0
Members(a) == IF a \in DOMAIN services THEN DOMAIN services[a] ELSE {}
Listed(a, s) == s \in Members(a)

\* The resources an aggregator and a service register, in order.
AggregatorResources(a) == <<<<"base", a>>, <<"transformations", a>>, <<"services", a>>>>

\* Mutant: the output resource is forgotten.
ServiceResources_mutant(s) == <<<<"service", s>>, <<"service", s>>>>

ServiceResources(s) == <<<<"service", s>>, <<"output", s>>>>
Resources == {"base", "transformations", "services", "service", "output"} \X Ids

Free == mu = NoRequest
At(r, l) == pc[r] = l

Goto(r, l) == pc' = [pc EXCEPT ![r] = l] /\ UNCHANGED outcome
Finish(r, o) == pc' = [pc EXCEPT ![r] = "done"] /\ outcome' = [outcome EXCEPT ![r] = o]

Init ==
  /\ mu = NoRequest
  /\ nextID = 1 /\ nextServiceID = 1
  /\ aggregators = {}
  /\ services = EmptyMap /\ serviceRevisions = EmptyMap /\ outputAssets = EmptyMap
  /\ registered = {} /\ derivations = {} /\ files = {}
  /\ pc = [r \in Requests |-> "idle"]
  /\ op \in {f \in [Requests -> Ops] : \A r \in Requests : f[r] \in MayAsk[r]}
  /\ agg = [r \in Requests |-> 0] /\ sid = [r \in Requests |-> 0]
  /\ step = [r \in Requests |-> 1]
  /\ update = [r \in Requests |-> Plain]
  /\ etag = [r \in Requests |-> 0] /\ body = [r \in Requests |-> {}]
  /\ outcome = [r \in Requests |-> "pending"]
  /\ silent = {}
-----------------------------------------------------------------------------
(***************************************************************************)
(* Updates of the maps that several handlers make. A definition whose name *)
(* ends in _mutant is a plausible bug in the one after it; no other        *)
(* definition refers to it.                                                *)
(***************************************************************************)
\* Mutant: the collection changes under the same ETag.
BumpRevision_mutant(a) == UNCHANGED serviceRevisions

BumpRevision(a) == serviceRevisions' = Assign(serviceRevisions, a, Revision(a) + 1)

StoreService(r) ==
  /\ services' = [services EXCEPT ![agg[r]] = Assign(@, sid[r], update[r])]
  /\ BumpRevision(agg[r])

\* Mutant: the service looked up at the start of the request is taken to be
\* still there.
StillListed_mutant(r) == TRUE

\* The second lookup of a handler that changes a service.
StillListed(r) == Listed(agg[r], sid[r])

\* Mutant: the inner map is left nil.
OpenCollection_mutant(a) == services' = services

OpenCollection(a) == services' = Assign(services, a, EmptyMap)

\* Mutant: the cleanup returns with the lock held.
Unlock_mutant == UNCHANGED mu

Unlock == mu' = NoRequest
-----------------------------------------------------------------------------
(***************************************************************************)
(* Calls to the AS. A registration stores the id the AS gave it, so what   *)
(* the AS holds and authorizationResourceIDs are one set here. It fails    *)
(* either before the AS registered the resource or after it (the policy    *)
(* synchronisation that follows fails).                                    *)
(***************************************************************************)
\* Mutant: an error of the AS is swallowed.
RegisterAtAS_mutant(res, ok) == ok /\ registered' \in {registered, registered \cup {res}}

RegisterAtAS(res, ok) ==
  \/ /\ ok
     /\ registered' = IF LiveAS THEN registered \cup {res} ELSE registered
  \/ /\ ~ok /\ LiveAS /\ "as" \in Faults
     /\ registered' \in {registered, registered \cup {res}}

\* The caller ignores the error of a failed deletion.
UnregisterAtAS(res) ==
  \/ registered' = registered \ {res}
  \/ "as" \in Faults /\ registered' = registered
-----------------------------------------------------------------------------
(***************************************************************************)
(* Every handler's early returns that leave the state alone: bad token,    *)
(* content type or body; unknown aggregator; permission denied.            *)
(***************************************************************************)
Refuse(r) ==
  /\ pc[r] \in {"idle", "reserve"}
  /\ Finish(r, "refused")
  /\ UNCHANGED <<mu, counterVars, collectionVars, backingVars, argVars, localVars>>

\* createAggregator: the aggregator is in the maps before any of its
\* resources is registered, and stays there when a registration fails.
Provision(r) ==
  /\ At(r, "idle") /\ op[r] = "provision" /\ Free /\ nextID \in Ids
  /\ agg' = [agg EXCEPT ![r] = nextID]
  /\ nextID' = nextID + 1
  /\ aggregators' = aggregators \cup {nextID}
  /\ OpenCollection(nextID)
  /\ Goto(r, "registerAggregator")
  /\ UNCHANGED <<mu, nextServiceID, serviceRevisions, backingVars, op, sid, localVars>>

RegisterAggregator(r) ==
  /\ At(r, "registerAggregator")
  /\ \E ok \in BOOLEAN :
       /\ RegisterAtAS(AggregatorResources(agg[r])[step[r]], ok)
       /\ IF ok /\ step[r] < 3
          THEN step' = [step EXCEPT ![r] = @ + 1] /\ Goto(r, "registerAggregator")
          ELSE Finish(r, IF ok THEN "ok" ELSE "error") /\ UNCHANGED step
  /\ UNCHANGED <<mu, counterVars, collectionVars, outputAssets, derivations, files,
                 argVars, update, etag, body>>

\* handleAggregator: looks the aggregator up under the lock and dispatches
\* on the path and the method.
FirstLabel(o) ==
  CASE o = "deleteAggregator" -> "unregisterAggregator"
    [] o = "createService" -> "reserve"
    [] o \in {"deleteService", "getOutput"} -> "lookup"
    [] o \in {"getCollection", "headCollection"} -> "readETag"

Dispatch(r) ==
  /\ At(r, "idle") /\ op[r] # "provision" /\ Free
  /\ \E a \in aggregators : agg' = [agg EXCEPT ![r] = a]
  /\ Goto(r, FirstLabel(op[r]))
  /\ UNCHANGED <<mu, counterVars, collectionVars, backingVars, op, sid, localVars>>

UnregisterAggregator(r) ==
  /\ At(r, "unregisterAggregator")
  /\ UnregisterAtAS(AggregatorResources(agg[r])[step[r]])
  /\ IF step[r] < 3
     THEN step' = [step EXCEPT ![r] = @ + 1] /\ Goto(r, "unregisterAggregator")
     ELSE Goto(r, "dropAggregator") /\ UNCHANGED step
  /\ UNCHANGED <<mu, counterVars, collectionVars, outputAssets, derivations, files,
                 argVars, update, etag, body>>

\* The services of the aggregator lose their collection; their assets,
\* registrations, derivation resources and files are left behind.
DropAggregator(r) ==
  /\ At(r, "dropAggregator") /\ Free
  /\ aggregators' = aggregators \ {agg[r]}
  /\ services' = Drop(services, agg[r])
  /\ serviceRevisions' = Drop(serviceRevisions, agg[r])
  /\ Finish(r, "ok")
  /\ UNCHANGED <<mu, counterVars, backingVars, argVars, localVars>>
-----------------------------------------------------------------------------
(***************************************************************************)
(* handleCreateService                                                     *)
(***************************************************************************)
Reserve(r) ==
  /\ At(r, "reserve") /\ Free /\ nextServiceID \in Ids
  /\ sid' = [sid EXCEPT ![r] = nextServiceID]
  /\ nextServiceID' = nextServiceID + 1
  /\ Goto(r, "clearOutput")
  /\ UNCHANGED <<mu, nextID, collectionVars, backingVars, op, agg, localVars>>

\* materialize, for a new service and again for handleServiceOutput: the
\* service's directories are removed and made anew, then the output is
\* written. A failure may come between any two of these.
ClearOutput(r) ==
  /\ At(r, "clearOutput")
  /\ \/ /\ files' = (files \ {OutputOf(sid[r])}) \cup {DirectoriesOf(sid[r])}
        /\ Goto(r, "writeOutput")
     \/ /\ "fs" \in Faults
        /\ files' \in {files} \cup
             { (files \ {OutputOf(sid[r]), DirectoriesOf(sid[r])}) \cup left :
                 left \in SUBSET {DirectoriesOf(sid[r])} }
        /\ Finish(r, "error")
  /\ UNCHANGED <<mu, counterVars, collectionVars, outputAssets, registered, derivations,
                 argVars, localVars>>

\* Two materializations of one service share its directories, so one can
\* also fail because the other has just emptied them. The output is written
\* in place: a failed query may leave what it had written.
Interferes(q, r) == q # r /\ op[q] = "getOutput" /\ sid[q] = sid[r]

WriteOutput(r) ==
  /\ At(r, "writeOutput")
  /\ \/ /\ files' = files \cup {OutputOf(sid[r])}
        /\ Goto(r, IF op[r] = "createService" THEN "registerService" ELSE "putDerivation")
     \/ /\ "fs" \in Faults \/ \E q \in Requests : Interferes(q, r)
        /\ files' \in {files, files \cup {OutputOf(sid[r])}}
        /\ Finish(r, "error")
  /\ UNCHANGED <<mu, counterVars, collectionVars, outputAssets, registered, derivations,
                 argVars, localVars>>

\* registerServiceResource
RegisterService(r) ==
  /\ At(r, "registerService")
  /\ \E ok \in BOOLEAN :
       /\ RegisterAtAS(<<"service", sid[r]>>, ok)
       /\ IF ok THEN Goto(r, "storeAsset") ELSE Finish(r, "error")
  /\ UNCHANGED <<mu, counterVars, collectionVars, outputAssets, derivations, files,
                 argVars, localVars>>

\* registerOutputAsset: the asset is stored before it is registered.
StoreAsset(r) ==
  /\ At(r, "storeAsset") /\ Free
  /\ outputAssets' = Assign(outputAssets, sid[r], Plain)
  /\ Goto(r, "registerOutput")
  /\ UNCHANGED <<mu, counterVars, collectionVars, registered, derivations, files,
                 argVars, localVars>>

RegisterOutput(r) ==
  /\ At(r, "registerOutput")
  /\ \E ok \in BOOLEAN :
       /\ RegisterAtAS(<<"output", sid[r]>>, ok)
       /\ IF ok THEN Goto(r, "putDerivation") ELSE Finish(r, "error")
  /\ UNCHANGED <<mu, counterVars, collectionVars, outputAssets, derivations, files,
                 argVars, localVars>>

(***************************************************************************)
(* updateOutputAssetDerivedFrom, for a new and for a rematerialized        *)
(* service: PUT the derivation resource at the UAS (when the sources have  *)
(* an issuer), PUT the output resource at the AS, store the asset.         *)
(***************************************************************************)
\* Mutant: a new service is stored by the code that refreshes an existing one.
Updated_mutant(r) == "refresh"

Updated(r) == IF op[r] = "createService" THEN "insert" ELSE "refresh"

FailUpdate(r) ==
  /\ update' = [update EXCEPT ![r] = Failed]
  /\ Goto(r, Updated(r))

\* Which one depends on the source the service is derived from and on what
\* the UAS said with its token.
NamedBy(r) == UASIds \cup {sid[r]}

PutAtUAS(d) == IF ManagesUAS THEN derivations \cup {d} ELSE derivations

PutDerivation(r) ==
  /\ At(r, "putDerivation")
  /\ \/ /\ update' = [update EXCEPT ![r] = Plain]
        /\ Goto(r, "updateResource")
        /\ UNCHANGED derivations
     \/ \E d \in NamedBy(r) :
          /\ update' = [update EXCEPT ![r] = d]
          /\ Goto(r, "updateResource")
          /\ derivations' = PutAtUAS(d)
     \/ /\ "uas" \in Faults
        /\ FailUpdate(r)
        /\ \E d \in NamedBy(r) : derivations' \in {derivations, PutAtUAS(d)}
  /\ UNCHANGED <<mu, counterVars, collectionVars, outputAssets, registered, files,
                 argVars, step, etag, body>>

\* updateConfiguredAuthorizationResource refuses a resource it has no
\* registration for.
UpdateResource(r) ==
  /\ At(r, "updateResource")
  /\ \/ /\ LiveAS => <<"output", sid[r]>> \in registered
        /\ Goto(r, "storeDerivedFrom")
        /\ UNCHANGED update
     \/ /\ LiveAS /\ ("as" \in Faults \/ <<"output", sid[r]>> \notin registered)
        /\ FailUpdate(r)
  /\ UNCHANGED <<mu, counterVars, collectionVars, backingVars, argVars, step, etag, body>>

\* The asset is read, changed and written back, whether or not it is still
\* there.
StoreDerivedFrom(r) ==
  /\ At(r, "storeDerivedFrom") /\ Free
  /\ outputAssets' = Assign(outputAssets, sid[r], update[r])
  /\ Goto(r, Updated(r))
  /\ UNCHANGED <<mu, counterVars, collectionVars, registered, derivations, files,
                 argVars, localVars>>

\* createService. services[agg] is nil when the aggregator has been deleted
\* meanwhile: the assignment panics and net/http drops the connection.
Insert(r) ==
  /\ At(r, "insert") /\ Free
  /\ IF agg[r] \in DOMAIN services
     THEN StoreService(r) /\ Finish(r, "ok")
     ELSE UNCHANGED <<services, serviceRevisions>> /\ Finish(r, "panic")
  /\ UNCHANGED <<mu, counterVars, aggregators, backingVars, argVars, localVars>>
-----------------------------------------------------------------------------
(***************************************************************************)
(* handleDeleteService and handleServiceOutput first look the service up   *)
(* and keep what they found.                                               *)
(***************************************************************************)
Lookup(r) ==
  /\ At(r, "lookup") /\ Free
  /\ \/ \E s \in Members(agg[r]) :
          /\ sid' = [sid EXCEPT ![r] = s]
          /\ update' = [update EXCEPT ![r] = services[agg[r]][s]]
          /\ Goto(r, IF op[r] = "deleteService" THEN "removeFile" ELSE "authorize")
     \/ Finish(r, "notfound") /\ UNCHANGED <<sid, update>>
  /\ UNCHANGED <<mu, counterVars, collectionVars, backingVars, op, agg, step, etag, body>>

\* deleteService: only the output file is removed, never a directory; a file
\* that cannot be removed ends the deletion before anything else is cleaned up.
RemoveFile(r) ==
  /\ At(r, "removeFile")
  /\ \/ files' = files \ {OutputOf(sid[r])} /\ Goto(r, "unregisterService")
     \/ "fs" \in Faults /\ OutputOf(sid[r]) \in files /\ UNCHANGED files /\ Finish(r, "error")
  /\ UNCHANGED <<mu, counterVars, collectionVars, outputAssets, registered, derivations,
                 argVars, localVars>>

UnregisterService(r) ==
  /\ At(r, "unregisterService")
  /\ UnregisterAtAS(ServiceResources(sid[r])[step[r]])
  /\ IF step[r] < 2
     THEN step' = [step EXCEPT ![r] = @ + 1] /\ Goto(r, "unregisterService")
     ELSE Goto(r, "cleanup") /\ UNCHANGED step
  /\ UNCHANGED <<mu, counterVars, collectionVars, outputAssets, derivations, files,
                 argVars, update, etag, body>>

\* cleanupServiceAssets: takes the lock and keeps it over the UAS call. What
\* is to be deleted at the UAS is the asset's DerivedFrom, or the one of the
\* service as looked up when the asset has none, whoever else uses it.
ToRemove(r) ==
  IF sid[r] \in DOMAIN outputAssets /\ outputAssets[sid[r]] \in DerivationIds
  THEN outputAssets[sid[r]] ELSE update[r]

Cleanup(r) ==
  /\ At(r, "cleanup") /\ Free
  /\ outputAssets' = Drop(outputAssets, sid[r])
  /\ update' = [update EXCEPT ![r] = ToRemove(r)]
  /\ IF ToRemove(r) \in DerivationIds
     THEN Goto(r, "deleteDerivation") /\ mu' = r
     ELSE Goto(r, "dropService") /\ UNCHANGED mu
  /\ UNCHANGED <<counterVars, collectionVars, registered, derivations, files, argVars,
                 step, etag, body>>

DeleteDerivation(r) ==
  /\ At(r, "deleteDerivation")
  /\ \/ derivations' = derivations \ {update[r]}
     \/ "uas" \in Faults /\ UNCHANGED derivations
  /\ Unlock
  /\ Goto(r, "dropService")
  /\ UNCHANGED <<counterVars, collectionVars, outputAssets, registered, files, argVars, localVars>>

DropService(r) ==
  /\ At(r, "dropService") /\ Free
  /\ IF StillListed(r)
     THEN /\ services' = [services EXCEPT ![agg[r]] = Drop(@, sid[r])]
          /\ BumpRevision(agg[r])
     ELSE UNCHANGED <<services, serviceRevisions>>
  /\ Finish(r, "ok")
  /\ UNCHANGED <<mu, counterVars, aggregators, backingVars, argVars, localVars>>
-----------------------------------------------------------------------------
(***************************************************************************)
(* handleServiceOutput                                                     *)
(***************************************************************************)
\* outputRPTIsValid accepts no token for a resource without an asset; a live
\* AS may still declare the resource public.
Authorize(r) ==
  /\ At(r, "authorize") /\ Free
  /\ \/ /\ sid[r] \in DOMAIN outputAssets \/ LiveAS
        /\ Goto(r, "validate")
     \/ Finish(r, "refused")
     \/ LiveAS /\ "as" \in Faults /\ Finish(r, "error")
  /\ UNCHANGED <<mu, counterVars, collectionVars, backingVars, argVars, localVars>>

\* serviceNeedsMaterialization
Validate(r) ==
  /\ At(r, "validate")
  /\ \/ Goto(r, "clearOutput")
     \/ OutputOf(sid[r]) \in files /\ Goto(r, "serve")
     \/ "source" \in Faults /\ Finish(r, "error")
  /\ UNCHANGED <<mu, counterVars, collectionVars, backingVars, argVars, localVars>>

\* The service may be gone: then only what the request serves is decided.
Refresh(r) ==
  /\ At(r, "refresh") /\ Free
  /\ IF StillListed(r)
     THEN StoreService(r)
     ELSE UNCHANGED <<services, serviceRevisions>>
  /\ Goto(r, IF update[r] = Failed THEN "serve" ELSE "reauthorize")
  /\ UNCHANGED <<mu, counterVars, aggregators, backingVars, argVars, localVars>>

Reauthorize(r) ==
  /\ At(r, "reauthorize") /\ Free
  /\ \/ /\ sid[r] \in DOMAIN outputAssets \/ LiveAS
        /\ Goto(r, "serve")
     \/ Finish(r, "refused")
     \/ LiveAS /\ "as" \in Faults /\ Finish(r, "error")
  /\ UNCHANGED <<mu, counterVars, collectionVars, backingVars, argVars, localVars>>

Serve(r) ==
  /\ At(r, "serve")
  /\ Finish(r, IF OutputOf(sid[r]) \in files THEN "ok" ELSE "notfound")
  /\ UNCHANGED <<mu, counterVars, collectionVars, backingVars, argVars, localVars>>
-----------------------------------------------------------------------------
(***************************************************************************)
(* handleServiceCollection: the ETag and the list are read in two critical *)
(* sections; HEAD stops after the first.                                   *)
(***************************************************************************)
ReadETag(r) ==
  /\ At(r, "readETag") /\ Free
  /\ etag' = [etag EXCEPT ![r] = Revision(agg[r])]
  /\ IF op[r] = "headCollection" THEN Finish(r, "ok") ELSE Goto(r, "readList")
  /\ UNCHANGED <<mu, counterVars, collectionVars, backingVars, argVars, step, update, body>>

ReadList(r) ==
  /\ At(r, "readList") /\ Free
  /\ body' = [body EXCEPT ![r] = Members(agg[r])]
  /\ Finish(r, "ok")
  /\ UNCHANGED <<mu, counterVars, collectionVars, backingVars, argVars, step, update, etag>>
-----------------------------------------------------------------------------
\* What a request does once it has been let in.
Run(r) ==
  \/ RegisterAggregator(r) \/ UnregisterAggregator(r) \/ DropAggregator(r)
  \/ Reserve(r) \/ ClearOutput(r) \/ WriteOutput(r) \/ RegisterService(r)
  \/ StoreAsset(r) \/ RegisterOutput(r) \/ PutDerivation(r) \/ UpdateResource(r)
  \/ StoreDerivedFrom(r) \/ Insert(r)
  \/ Lookup(r) \/ RemoveFile(r) \/ UnregisterService(r) \/ Cleanup(r)
  \/ DeleteDerivation(r) \/ DropService(r)
  \/ Authorize(r) \/ Validate(r) \/ Refresh(r) \/ Reauthorize(r) \/ Serve(r)
  \/ ReadETag(r) \/ ReadList(r)

Step(r) == Provision(r) \/ Dispatch(r) \/ Refuse(r) \/ Run(r)

(***************************************************************************)
(* The AS and the UAS are called with http.DefaultClient unless the        *)
(* configuration gives another client, and oxigraph with exec.Command:     *)
(* neither has a timeout. A request that makes such a call may wait for    *)
(* ever.                                                                   *)
(***************************************************************************)
Calls(r) ==
  \/ LiveAS /\ pc[r] \in {"registerAggregator", "unregisterAggregator", "registerService",
                          "registerOutput", "updateResource", "unregisterService",
                          "authorize", "reauthorize"}
  \/ ManagesUAS /\ pc[r] \in {"putDerivation", "deleteDerivation"}
  \/ pc[r] \in {"writeOutput", "validate"}

NoAnswer(r) ==
  /\ "silence" \in Faults /\ Calls(r)
  /\ silent' = silent \cup {r}
  /\ UNCHANGED serverVars

Proceed(r) == r \notin silent /\ Run(r) /\ UNCHANGED silent

Next ==
  \E r \in Requests \ silent :
    \/ Step(r) /\ UNCHANGED silent
    \/ NoAnswer(r)

Spec == Init /\ [][Next]_vars

(***************************************************************************)
(* A request that was let in keeps running unless a call of its own never  *)
(* returns: its goroutine is scheduled, and sync.Mutex hands the lock to   *)
(* every waiter. Nothing obliges a client to send a request, nor the AS,   *)
(* the UAS or oxigraph to end a call.                                      *)
(***************************************************************************)
FairSpec == Spec /\ \A r \in Requests : WF_vars(Proceed(r))
-----------------------------------------------------------------------------
(***************************************************************************)
(* Properties                                                              *)
(***************************************************************************)
LabelsOf(o) ==
  CASE o = "provision" -> {"registerAggregator"}
    [] o = "deleteAggregator" -> {"unregisterAggregator", "dropAggregator"}
    [] o = "createService" ->
         {"reserve", "clearOutput", "writeOutput", "registerService", "storeAsset",
          "registerOutput", "putDerivation", "updateResource", "storeDerivedFrom", "insert"}
    [] o = "deleteService" ->
         {"lookup", "removeFile", "unregisterService", "cleanup", "deleteDerivation",
          "dropService"}
    [] o = "getOutput" ->
         {"lookup", "authorize", "validate", "clearOutput", "writeOutput", "putDerivation",
          "updateResource", "storeDerivedFrom", "refresh", "reauthorize", "serve"}
    [] o \in {"getCollection", "headCollection"} -> {"readETag", "readList"}

\* A request on a service that has found, or made up, the id of its service.
NamesService(r) ==
  /\ op[r] \in {"createService", "deleteService", "getOutput"}
  /\ pc[r] \notin {"idle", "done", "reserve", "lookup"}

\* Every variable has its type, a request is at a label of its operation, and
\* the lock is held across steps by the one handler that makes a call under it.
TypeOK ==
  /\ mu \in Requests \cup {NoRequest}
  /\ nextID \in Nat \ {0} /\ nextServiceID \in Nat \ {0}
  /\ aggregators \subseteq Ids
  /\ DOMAIN services \subseteq Ids
  /\ \A a \in DOMAIN services : services[a] \in [DOMAIN services[a] -> Updates]
  /\ \A a \in DOMAIN services : DOMAIN services[a] \subseteq Ids
  /\ serviceRevisions \in [DOMAIN serviceRevisions -> Nat]
  /\ outputAssets \in [DOMAIN outputAssets -> Updates] /\ DOMAIN outputAssets \subseteq Ids
  /\ registered \subseteq Resources
  /\ derivations \subseteq DerivationIds
  /\ files \subseteq {"file", "directories"} \X Ids
  /\ op \in [Requests -> Ops]
  /\ pc \in [Requests -> Labels]
  /\ \A r \in Requests : pc[r] \in {"idle", "done"} \cup LabelsOf(op[r])
  /\ agg \in [Requests -> Ids \cup {0}] /\ sid \in [Requests -> Ids \cup {0}]
  /\ \A r \in Requests :
       /\ pc[r] \notin {"idle", "done"} => agg[r] \in Ids
       /\ NamesService(r) => sid[r] \in Ids
  /\ step \in [Requests -> 1 .. 3]
  /\ update \in [Requests -> Updates]
  /\ etag \in [Requests -> Nat] /\ body \in [Requests -> SUBSET Ids]
  /\ outcome \in [Requests -> Outcomes] /\ silent \subseteq Requests
  /\ \A r \in Requests : mu = r <=> pc[r] = "deleteDerivation"

Answered(r, o) == op[r] = o /\ outcome[r] = "ok"

\* A collection exists exactly as long as its aggregator: no handler that was
\* already running when the aggregator was deleted brings its list or its
\* revision back (deleteAggregator against createService, deleteService and
\* handleServiceOutput).
CollectionsMatchAggregators ==
  /\ DOMAIN services = aggregators
  /\ DOMAIN serviceRevisions \subseteq aggregators

\* A client that polls with the ETag of a GET misses no change: as long as
\* HEAD still answers the ETag that came with a list, that list is the
\* collection, although the two were read in separate critical sections.
PollingMissesNothing ==
  \A r \in Requests :
    (Answered(r, "getCollection") /\ agg[r] \in aggregators /\ etag[r] = Revision(agg[r]))
      => body[r] = Members(agg[r])

\* Once DELETE of a service was answered 204 the service is in no collection,
\* then or later: no slower POST, DELETE or rematerialization lists it again.
DeletedServiceStaysDeleted ==
  \A r \in Requests : Answered(r, "deleteService") => \A a \in aggregators : ~Listed(a, sid[r])

\* Once POST was answered 201 the service is listed until it, or its
\* aggregator, is deleted by a request: concurrent handlers lose no service.
CreatedServiceIsListed ==
  \A r \in Requests : Answered(r, "createService") =>
    \/ Listed(agg[r], sid[r])
    \/ agg[r] \notin aggregators
    \/ \E q \in Requests : Answered(q, "deleteService") /\ sid[q] = sid[r]

\* POST is left without an answer (createService panics) only when its
\* aggregator was deleted while it was being served.
PanicOnlyAfterAggregatorDeleted ==
  \A r \in Requests : outcome[r] = "panic" =>
    /\ agg[r] \notin aggregators
    /\ \E q \in Requests : Answered(q, "deleteAggregator") /\ agg[q] = agg[r]

Deleting(q, s) ==
  /\ op[q] = "deleteService" /\ sid[q] = s
  /\ pc[q] \in {"unregisterService", "cleanup", "deleteDerivation", "dropService"}

\* A DELETE has removed d at the UAS, or tried to.
RemovedByDelete(d) ==
  \E q \in Requests :
    /\ op[q] = "deleteService" /\ update[q] = d
    /\ pc[q] = "dropService" \/ outcome[q] = "ok"

\* The UAS has d, unless d is shared and was deleted for another service.
Stands(d) == d \in derivations \/ (d \in UASIds /\ RemovedByDelete(d))

\* What a client can find works: a listed service has its asset, both its
\* registrations and, when it is derived, its derivation resource, whatever
\* failed on the way, until a DELETE that gets past removing the file is
\* under way (so a DELETE answered 500 left the service intact). The one
\* thing it can lose is a derivation resource that the UAS named, and that
\* services share: the DELETE of one of them removes it for all.
ListedServiceIsBacked ==
  \A a \in aggregators : \A s \in Members(a) :
    \/ /\ s \in DOMAIN outputAssets
       /\ LiveAS => {<<"service", s>>, <<"output", s>>} \subseteq registered
       /\ ManagesUAS /\ services[a][s] \in DerivationIds => Stands(services[a][s])
    \/ \E q \in Requests : Deleting(q, s)

\* What there is of a service apart from its entry and its derivation resource.
Remains(s) ==
  {k \in {"file", "directories"} : <<k, s>> \in files}
    \cup {k \in {"service", "output"} : <<k, s>> \in registered}
    \cup {k \in {"asset"} : s \in DOMAIN outputAssets}

\* A request on another service derived, or tried to derive, it from d too.
UsedBesides(s, d) ==
  /\ d \in UASIds
  /\ \E q \in Requests :
       /\ op[q] \in {"createService", "getOutput"} /\ sid[q] # s /\ update[q] \in {d, Failed}
       /\ pc[q] \in {"updateResource", "storeDerivedFrom", "insert", "refresh", "reauthorize",
                     "serve", "done"}

\* A rematerialization that overlaps the DELETE of its service leaves no asset
\* behind (service_collection_test.go expects DELETE to remove the asset).
DeletedServiceHasNoAsset ==
  \A r \in Requests : Answered(r, "deleteService") => sid[r] \notin DOMAIN outputAssets

\* Deleting a service undoes creating it up to its directories: when nothing
\* fails, no request on the service is running, nobody read (and maybe
\* rematerialized) its output and its aggregator was not deleted, then of a
\* service that is not listed any more there is nothing at the AS, in the
\* asset table and at the UAS (unless another service derives from the same
\* resource), and on disk just what deleteService never removes: the
\* workspace, with the store and the copies of the sources, and an empty
\* output directory.
DeleteLeavesOnlyDirectories ==
  \A r \in Requests :
    ( /\ op[r] = "createService" /\ pc[r] = "done" /\ sid[r] # 0 /\ agg[r] \in aggregators
      /\ \A q \in Requests : sid[q] = sid[r] => pc[q] = "done" /\ op[q] # "getOutput" )
    => /\ Remains(sid[r]) = {"directories"} <=> ~Listed(agg[r], sid[r])
       /\ ~Listed(agg[r], sid[r]) /\ update[r] \in derivations => UsedBesides(sid[r], update[r])

\* What clients can see of the collections.
MembersOfEach == [a \in DOMAIN services |-> DOMAIN services[a]]
RevisionOfEach == [a \in DOMAIN services |-> Revision(a)]
EverListed == {sid[r] : r \in {q \in Requests : Answered(q, "createService")}}

Collection == INSTANCE ServiceCollection WITH
  collections <- MembersOfEach, revision <- RevisionOfEach,
  opened <- 1 .. (nextID - 1), listed <- EverListed

\* The handlers, interleaved as they may, keep the promises of the abstract
\* collections: ids are not reused, a service is listed once and unlisted
\* once, and no change of a collection goes without a new revision.
ImplementsCollection == Collection!Spec

\* Every request that was let in is answered (or dropped by a panic) unless a
\* call of its own never returns, and no request waits for ever for another's:
\* the lock is free again after every cleanup, except when the one call that
\* is made with the lock held (cleanupServiceAssets to the UAS) never returns.
EveryRequestIsAnswered ==
  \A r \in Requests :
    pc[r] # "idle" ~> pc[r] = "done" \/ r \in silent \/ \E q \in silent : mu = q
=============================================================================
