# Verification of the provision aggregator

TLA+ models of this repository's server, the TLC runs that check them and the
theorems about them that TLAPS proves. `PROJECT.json` names, for every
definition that models code, the source lines it stands for; the comment over
every property and theorem says in words what it states.

## 1. The system

`cmd/aggregator` runs one HTTP server (`internal/httpapi`). Clients *provision*
aggregators; inside an aggregator they create *services*, each a SPARQL query
over RDF sources whose result is *materialized* into a file and served as the
service's *output*. Access is controlled by UMA: the server registers its
resources at **its own authorization server** (AS), asks it for permission
tickets, introspects the tokens it is shown, and keeps ODRL policies there. As a
client it reads sources protected by **upstream authorization servers** (UAS),
and registers at a UAS a *derivation resource* for an output made of such a
source.

### Components, state and operations

| Component | Source | State | Operations |
|---|---|---|---|
| Request handlers | `routes.go` | `aggregators`, `services`, `serviceRevisions`, `outputAssets`, counters, one mutex `mu` | provision and delete an aggregator, create and delete a service, GET/HEAD of a collection, GET of a description and of an output, registration list |
| Materialization | `routes.go:1371-1625`, `1870-1942` | directories under the data directory | stage sources, load a store, query, write the output; is the output outdated? |
| AS client (protection API) | `authorization_server.go` | `authorizationServerClient`, `protectionToken`, `authorizationServerError`, `authorizationResourceIDs` | register a client, get a PAT, register/update/delete a resource, tickets, introspection |
| Start and shutdown | `routes.go:55-112`, `1090-1111`, `main.go` | the sticky errors of the start | `NewServer`, `Shutdown`, signals |
| Policy synchronization | `policy_sync.go` | none of its own: policies at the AS | bring the policies at the AS up to what the assets require |
| Upstream access | `routes.go:1627-1840`, `account_token.go` | `upstreamTokens`, evidence lists | challenge, token exchange, access request, derivation id of a token |
| Account token | `account_token.go` | `accountAccessToken`, `accountTokenError` | one request at the start |
| Service requests | `service_request_turtle.go` | none | parse JSON and Turtle into a request |
| Catalog, descriptions, configuration | `catalog.go`, `description.go`, `config*.go` | none | render, read and default |

### How they interact

net/http runs each request in its own goroutine. The goroutines share the fields
of `Server` under `mu`, but no handler holds `mu` from its beginning to its end:
it takes the lock to look something up, releases it, calls the AS, the UAS, a
source or the file system, and takes it again to store what came of that. So a
handler acts on what it read some critical sections ago. (There is one call under
the lock: `cleanupServiceAssets` deletes the UAS derivation while it holds it,
`routes.go:944`.) The AS client is called by handlers, by `NewServer` before there
are any, and by `Shutdown`, in the main goroutine, while there still are.
Nothing of the server is persistent; what it registered at the AS and the UAS
outlives it, and so do its files.

### What is hard

* **Interleaving.** Handlers of one aggregator or service overlap: a creation and
  the deletion of its aggregator, two deletions, a rematerialization and a
  deletion, a read whose ETag and list come from two critical sections.
* **Partial failure.** Creating and deleting a service are sequences of calls that
  fail one by one, after earlier ones have had their effect.
* **Check-then-act over the AS.** `protectionAPIAuthorization` decides without the
  lock whether to register a client, and a second registration would delete the
  first. A POST answered with 409 is followed by a PUT to an id that may be a guess.
* **Restart.** After a crash the AS has a client and resources the process knows
  nothing of, and ids start at 1 again.
* **Shutdown** runs while requests do.
* **Silence.** Neither the HTTP calls nor the runs of `oxigraph` have a timeout, and one
  call is made with the lock held.
* **Files in place.** A query writes its results to the file that is served, in
  directories that two requests may be at work in.

`PROJECT.json` has the full list under `hazards`, each at its line, with the
properties that cover it or the reason why none does.

### What makes each component correct

* Handlers: a collection exists as long as its aggregator; a service is listed
  from the answer to its POST to its deletion and never again; polling the ETag
  misses no change; what is listed has all it needs; deleting undoes creating, up to
  the directories of the service; no request waits for another for ever.
* AS client: its credentials are those of the client the AS knows; a resource
  is never known under a wrong id; what is registered is known, so that it can be
  deleted.
* Start and shutdown: a start succeeds whatever an earlier process left; the
  shutdown ends, and leaves nothing behind.
* Materialization: an output is what the query gives over all sources as they
  were when it was computed, and is computed again when one changes.
* Policy synchronization: afterwards every asset has a rule for each of its
  scopes, once, and no rule has become that of something else too.
* Upstream access: a token is used for the source and issuer it was got for; what
  an output is said to be derived from is what the UAS issued for its sources, is
  there, and goes when the service goes.
* Service requests: what is read is what was written; a damaged request never
  becomes another one; the parser ends.

## 2. Modules

| Module | Kind |
|---|---|
| `ServiceCollection` | abstract: what the collections promise a client |
| `AggregatorServer` | the request handlers, with their properties |
| `AggregatorServerInvariant` | the inductive invariants of the handlers |
| `AggregatorServerProofs` | theorems: types, invariant, safety properties of the collections |
| `AggregatorServerBackingProofs` | theorems: what backs a listed service, what a deleted one leaves |
| `AggregatorServerRefinement` | theorem: `AggregatorServer` implements `ServiceCollection` |
| `MCAggregatorServer`, `Server*.cfg` | instances for TLC |
| `ProtectionAPI` | the AS client between start and end of the process, over restarts |
| `ResourceRegistry` | abstract: what the handlers take the AS client for |
| `ProtectionAPIProofs` | theorems: types, credentials, ids |
| `ProtectionAPICleanupProofs` | theorems: what the server remembers, a start and a shutdown that succeed, and that `ProtectionAPI` implements `ResourceRegistry` |
| `MCProtectionAPI`, `Protection*.cfg` | instances for TLC |
| `PolicySync` | policy synchronizations over one policy store |
| `PolicySyncProofs` | theorems: what a store looks like after any of them |
| `MCPolicySync`, `Policy*.cfg` | instances for TLC |
| `Materialization` | how an output is computed, kept and found to be outdated |
| `MaterializationProofs` | theorems: types, what is served, what the ETags describe |
| `MCMaterialization`, `Materialize*.cfg` | instances for TLC |
| `Derivation` | derivation ids: from the account token and the exchanges into outputs, and back |
| `DerivationProofs` | theorems: types, where ids come from, what stands, what agrees |
| `MCDerivation`, `Derivation.cfg` | instance for TLC |
| `Turtle` | a grammar: documents, their tokens, what they say (no code) |
| `ServiceRequest` | from the body of a POST to a request for a service |
| `MCServiceRequest`, `ServiceRequest.cfg` | the bodies, for TLC |

A definition whose name ends in `_mutant` is a plausible bug in the definition
below it. No other definition refers to it: it serves to see that the property
named with it in `PROJECT.json` notices.

### AggregatorServer

One member of `Requests` is one HTTP request. A **step** is one critical section
of `mu`, or one call to the AS, the UAS, the sources or the file system; what
happens between two of these uses the request's own data only, so that merging
it with the step before loses no interleaving. The variables are the fields of
`Server`; the state of the outside (registrations, derivations, files); and the
locals of the goroutines (`pc` is where a request is, `agg` and `sid` the ids it
works with, `update` what a materialization came to, `etag` and `body` a
response).

| Handler | Steps |
|---|---|
| `handleProvision` | `Refuse` or `Provision`, `RegisterAggregator` (three registrations) |
| `handleAggregator` | `Dispatch`: is the aggregator there, and whose is the request |
| DELETE of an aggregator | `UnregisterAggregator` (three), `DropAggregator` |
| `handleCreateService` | `Reserve`, `ClearOutput`, `WriteOutput`, `RegisterService`, `StoreAsset`, `RegisterOutput`, `PutDerivation`, `UpdateResource`, `StoreDerivedFrom`, `Insert` |
| `handleDeleteService` | `Lookup`, `RemoveFile`, `UnregisterService` (two), `Cleanup`, `DeleteDerivation` (holding the lock), `DropService` |
| `handleServiceOutput` | `Lookup`, `Authorize`, `Validate`, `ClearOutput`, `WriteOutput`, `PutDerivation`, `UpdateResource`, `StoreDerivedFrom`, `Refresh`, `Reauthorize`, `Serve` |
| `handleServiceCollection` | `ReadETag`, `ReadList` |

A service id stands for all that is named after it. On disk that is its output file
(`OutputOf`) and its directories (`DirectoriesOf`: the workspace with the store and the
staged sources, and the directory of the output); `RemoveFile` removes the file only,
as `deleteService` does. A service keeps of its last
update the derivation resource it is derived from, or that it is plain, or that the update
failed. A derivation resource is one that the UAS names with its token (`UASIds`), which
belongs to a source, so that services over one source share it, or the one named after the
service, where the UAS names none. `DeleteDerivation` deletes whichever the asset has, for
all who share it. Which source a resource belongs to is left to `Derivation`: here
any service may be derived from any of them.

`LiveAS` and `ManagesUAS` are the configurations of the server. `Faults` says which outside
parties may fail. A registration fails before the AS has done it, or after (the
policy synchronization that follows it fails), and so does a PUT at the UAS; other failed
calls have no effect. With `"silence"` in `Faults` a call may also never return (`NoAnswer`
adds its request to `silent`, and it takes no step any more): `http.DefaultClient`, which is used
unless a client is configured (`authorization_server.go:709-712`,
`account_token.go:344-347`), has no timeout, and nor has `exec.Command`
(`routes.go:1924-1930`).

`ServiceCollection` knows live aggregators, the services each lists, and a
revision. Its steps open and close an aggregator (an id once ever), list a service
(an id once ever), unlist one, and refresh one, each with a new revision.
`AggregatorServer` maps `collections` to the keys of `services`, `revision` to
`serviceRevisions`, `opened` to the ids below `nextID` and `listed` to the services
whose POST was answered 201.

### ProtectionAPI

A goroutine goes through one function of `authorization_server.go` at a time: a
handler through registering, updating, deleting or asking for a resource, the main
goroutine through `initializeAuthorizationServer` and then, after SIGTERM,
through `Shutdown`. A step is again one critical section or one call.

| Code | Steps |
|---|---|
| `authorizationServerMetadataAndPAT`, `protectionAPIAuthorization` | `GetPAT` (reads token and client in one critical section), `RequestToken`, `KeepToken` |
| `registerAuthorizationServerClient`, on 409 `deleteExisting...` and a retry | `PostClient`, `FindClient`, `DropClient`, `RetryClient`, `KeepClient` |
| `registerConfiguredAuthorizationResource` | `PostResource`, on 409 `Adopt`, `KeepId`, `Sync` |
| `updateConfigured...`, `deleteConfigured...` | `Lookup`, then `PutResource`, or `DeleteResource` and `Forget` |
| tickets and introspection | `Ask` |
| `initializeAuthorizationServer` | Main from `pat` to `sync`; `Return` keeps the error in `asError` |
| `main`, `Shutdown` | `Signal` (snapshot), `NextResource` for each, `ReadClient`, `DeleteClient`, `ClearClient`, `Exit` |

The AS (external, modelled from how it is used) keeps one client per
`client_uri` and answers 409 to a second, gives a PAT only to the client it has,
keeps a resource under the id it chose, and answers 409 to a resource it has.
Both ways the AS may choose ids are covered: the name (`NamesAreIds`), as the
fallback to the URL in `authorizationResourceID` supposes, or an id of its own.
A PAT is represented by the client it was issued to; one that has expired is
none. `Faults` lets calls fail without their effect (`"refuse"`) or after it
(`"lose"`: the answer is lost or cannot be read), or never return (`"silence"`:
`NoAnswer`). `Crash` ends the process at any
point, `Start` begins the next, which knows nothing. Where `Overlap` holds, as in every run,
requests run and arrive while `Shutdown` is at work. `snapshot` is history: what
the server knew when SIGTERM came, and whether any request ran beside Shutdown (`alone`).

The aggregator's handlers register a resource once: ids of aggregators and
services are not reused within a process (this is `AggregatorServer`'s
`CreatorOwnsId`). `Begin` relies on it: a resource is registered by one request of
a life.

To those handlers, `registerConfiguredAuthorizationResource` and
`deleteConfiguredAuthorizationResource` are single calls that succeed or fail; so
`AggregatorServer` has them (`RegisterAtAS`, `UnregisterAtAS`). `ResourceRegistry` says what
such a call is: between its invocation and its end it adds its resource to a
set, or removes it, at one moment, or it fails and does neither. `ProtectionAPI` implements
it, with the resources of this life that the AS holds **and** the server has the id of
as the set (`Held`). A registration has its effect at `KeepId`, a deletion at
`DeleteResource`, or at `Lookup` when there is no id to delete under; the calls that have had
no effect yet are `Pending`. Where `CallsMayFail` is false no call fails, which is what
`AggregatorServer` supposes where `"as"` is not in its `Faults`. Neither module shows the
answer a call gives, but its labels do: only after `KeepId`, after `Forget`, or where there
was no id does a call return without an error.

### PolicySync

A synchronization (`syncConfiguredAuthorizationPolicies`) runs in the goroutine of a
request after it registered a resource, and in the main goroutine at the start,
before there are requests. A step is one request to the AS with what the
synchronization does with the answer; `NextAsset` is the critical section that
looks the aggregator's subject up, `Skip` and `Finish` are its own.

| Code | Steps |
|---|---|
| `registerConfiguredAuthorizationResource` | `Register`, then the synchronization, then `Return` |
| `discoverResourceOwnerAssets`, `fetchAuthorizationPolicies` | `Discover`, `Fetch`, `FailToRead` |
| the loops, `policySyncAggregatorSubject`, `desiredODRLRules` | `NextAsset` (`KnownSubject`, `Wanted`), `Finish` |
| `odrlRuleExists` | `Skip`, where `MayFind`; else `MayMiss` |
| `findODRLPolicyForResource` | `PoliciesFor` |
| `createAuthorizationPolicy`, `patchAuthorizationPolicy` | `Create`, `Patch`: `Written`, `AnswerLost` or `Refused` |

The policy store (external) is a set of permissions: policy, rule node, target,
action, assigner, assignee. Triples are thus grouped by node, and a node with two
assignees is two permissions; `Node` puts them together again, as
`hasTriple` and `singleObject` see them. The order of triples is the AS's:
which of two assignees `singleObject` returns is left open. A POST or PATCH adds; a
POST of a policy that another goroutine made meanwhile is accepted or refused, as
the code does not say which the AS does. Scopes stand for their local names, all
that `odrlActionForScope` keeps. Assets and their scopes come in any order. Assets
without an id, which are skipped, do not occur.

What the owner wrote to the AS beforehand (`OwnersPermissions`) is arbitrary within
`OwnersAssumption`: no two (non-blank) policies of a type are about one resource,
a rule is in one policy and has at most one assignee, and names are not the generated ones.
A policy and a rule of the owner's may be about any number of resources; what the generated
names make of that is stated as the exception in `RulesStaySeparate`.
The owner does not edit policies while the server runs.

### Materialization

A member of `Requests` is a goroutine that serves one request after another: it
creates a service (`Reserve`) or gets an output (`Lookup`). A step is one request to
a source or to its UAS, one critical section of `mu`, or one call to the file system
or to oxigraph; emptying the directories is one step, and may fail after a part of it.
Local variables of functions that have returned are reset (`Return`).

| Code | Steps |
|---|---|
| `serviceNeedsMaterialization` | `Stat`, `Validate` |
| `currentHTTPSourceETag` | `Head`, `Exchange`, `KeepToken`, `Retry` |
| `materialize` | `Clear`, then for each source the next two rows and `Load`, then `CreateOutput` and `WriteOutput` |
| `fetchHTTPSource` | `Fetch`, `FetchCached`, `Exchange`, `KeepToken`, `Retry`; `Skip` |
| `stageSource` | `Stage`, `Note` |
| `obtainUpstreamRPT`, `submitUpstreamAccessRequest`, `storeUpstreamToken` | `Exchange`, `KeepToken` |
| `createService`, `handleServiceOutput` | `Store`, `Serve` |

The sources (external) have a version, which is their ETag if they are in `Tagged`;
they change (`Publish`). A protected one is read with the current token of a server
that is allowed to; tokens expire, owners withdraw access and grant what was asked for.
`staged`, `store` and `output` are the directories of a service. The
query is two steps, since oxigraph writes its results in place (`--results-file`,
`routes.go:1441-1451`): `CreateOutput` opens the store and makes the file, `WriteOutput` completes
it, or fails and leaves what has been written. A file has `data`, the
set of versions in the store that was queried (which triples the query selects, and
the format, do not matter to the properties), and `writers`, the requests whose
results may not be in it as a whole; another GET may serve it at any time. `since`, `barred` and
`failed` are history. `AggregatorServer` abstracts
a materialization to its outcome, and has what surrounds it.

Any requests may overlap. Two of them may be at work in the directories of a service at a
time: nothing in the code keeps one of them waiting. `mingled` says that this has happened since
the directories were last emptied by one that was alone. From then on any call to the file system or
to oxigraph may fail, and what is served may mix what the two have done: finding 2. The
properties say what holds as long as it has not happened, and are checked beside everything
else that overlaps. `unloaded` are the sources that oxigraph failed to load since the
directories were emptied.

### Derivation

How an id gets from a UAS to the AS and back. A member of `Requests` is a goroutine
that serves one request after another: it creates a service, gets its output or
deletes it; each service id is used once (`AggregatorServer`'s invariant says so).
A step is one call or one critical section. `account` goes through the calls of
the start; after one that failed, no request goes on.

| Code | Steps |
|---|---|
| `requestAccountAccessToken` | `AccountCall`, six times |
| `fetchHTTPSource`, `currentHTTPSourceETag` | `AskSource` (the answers that need no exchange, or the id that goes along with one), then the next two rows |
| `requestUMAAccessToken`, `discoverAuthorizationServerTokenEndpoint` | `DiscoveryFails`, `Exchange` as JSON, and as a form |
| `storeUpstreamToken` | `KeepId` (reads what is cached), `StoreToken` |
| `serviceNeedsMaterialization`, `materialize` | `StillFresh`, `Materialize`, `Staged`, `Query` |
| `registerOutputAsset`, `updateOutputAssetDerivedFrom` | `RegisterOutput`, `PutDerivation`, `UpdateOutput`, `StoreDerivedFrom` |
| `createService`, `handleServiceOutput` | `InsertService`, `ReplaceService`, `Recheck`, `ServeOutput` |
| `deleteService`, `cleanupServiceAssets` | `UnregisterOutput`, `Cleanup`, `DropService` |

The UAS (external) answers an exchange that names no resource it has with the id of a
new one, and one that does according to `practice`: with the same id, with that of a
new one, or with a token alone. A PUT of a derivation resource it does not have makes
it or is refused. `"lost"` in `Faults` is an exchange or a PUT that had its effect
while the caller sees a failure. The local authorization mode, in which the AS is
not called, is `AggregatorServer`'s (`LiveAS`).

An id is a number if the UAS made it, and the service itself if the server did
(`DerivationResourceIDPrefix-<service id>`). Public sources leave no evidence and do
not occur; which sources changed is `Materialization`'s, here any may have.

### ServiceRequest and Turtle

`Turtle` says, without the parser, which tokens a document is written with and which
facts it states. `ServiceRequest` is the parser. The calls of the recursive descent
that have not returned are `stack`; `at` says what the call at work does next.

| Code | Steps |
|---|---|
| `parseCreateServiceRequest` | `Decode` (JSON, or another type) |
| `parseDocument` | `SkipDot`, `BeginStatement`, `TakeSubject`, `EndStatement`, `EndDocument` |
| `parsePredicateObjectList`, `parsePredicate` | `EndPredicates`, `ReadPredicate`, `TakeObject` |
| `parseObject` | `ReadTerm`, `OpenBlank`, `CloseBlank`, `OpenList`, `NextMember`, `TakeMember`, `CloseList` |
| an error, returned through all of them | `SyntaxError` |
| `serviceRequestFromTriples` | `Extract` (`Deploys`, `Complete`, `Bound`) |
| the checks of `handleCreateService`, `validateQuery` | `Validate` |

A token has a kind and a text. IRIs are shortened; `Expansion` is what the prefixes of
a document make of a name. That a list is a blank node too (`_:list1`) is kept,
since service subjects may be blank.

## 3. The runs

| Run | Distinct states | Question |
|---|---|---|
| `server_nominal` | 402 000 | calls succeed or never return, live AS and UAS: requests of any kind beside a provision and a creation, one of them a deletion or a GET of the output. `PollingMissesNothing`, `DeleteLeavesOnlyDirectories`, `EveryRequestIsAnswered` |
| `server_faults` | 2 120 000 | everything may fail: `TypeOK`, `DeletedServiceStaysDeleted`, `CreatedServiceIsListed`, `PanicOnlyAfterAggregatorDeleted`, `ListedServiceIsBacked`, `CollectionsMatchAggregators`, `ImplementsCollection` |
| `server_delete_vs_output` | finds | `DeletedServiceHasNoAsset` (section 6) |
| `protection_faults` | 711 000 | two handlers, two lives, calls that fail before or after their effect or never return: `TypeOK`, `ClientIsRegistered`, `AnswersStand`, `ImplementsRegistry`, `ShutdownEnds` |
| `protection_shutdown` | 2 291 000 | two handlers, two resources, two lives, calls that succeed or never return, requests beside Shutdown: `ShutdownCleansUp`, `NothingForgotten` |
| `policy_overlap` | 161 000 | synchronizations that overlap, fail half way, lose answers, and meet deletions and a restart, three subjects: `TypeOK`, `RegistrationGrantsAccess`, `NoDuplicateRules`, `OnlyNewRulesAreWritten` |
| `policy_shared` | 340 000 | two aggregators, an owner's agreement about the resources of both, faults, a restart: `SyncCoversAssets`, `RulesStaySeparate` |
| `materialize` | 5 638 000 | two requests at a time that overlap anywhere, a source that changes, refuses and fails, queries that end half way: `TypeOK`, `ServedIsFresh`, `ServedWasReadable`, `ServedIsComplete`, `ETagsDescribeOutput` |
| `materialize_overlap` | finds | `ChangedDataIsServed` (section 6) |
| `materialize_partial` | finds | `ServedIsWhole` (section 6) |
| `derivation` | 5 331 000 | two goroutines, two services that share a source, every practice of the UAS, all faults: `TypeOK`, `DerivedFromItsSources`, `OneDerivationPerSource`, `DerivationStands`, `ReadyServiceAgrees`, `ServedAfterRecheck`, `KnownIdIsKept` |
| `service_request` | 203 000 | requests written in twelve manners and damaged at every place, near requests, literals like punctuation, nested terms: `TypeOK`, `ParsedIsWritten`, `ReadAsMeant`, `DamageIsNoticed`, `EveryBodyIsAnswered` |

### Bounds

* **Requests** (`AggregatorServer`): four, each one-shot: one provisions, one
  creates, the others are of every kind the run names. One aggregator with one or two services has all the conflicts
  there are: handlers of different aggregators or services share the counters and a
  derivation resource only (`UASIds` has one, beside those named after services). Three handlers on one service,
  the creation among them, are in `server_faults`.
* **`Ids`**: one for each request, so the bound never stops a request.
* **`Handlers`, `Resources`**: two handlers. Conflicts are between two goroutines
  over one client or over one resource, so `protection_faults` has one resource, and all
  faults; `protection_shutdown` has two, so that one is deleted while another is
  registered.
* **`Lives`**: 2: a crash, or a shutdown, at any point, and a start over what it left.
* **`MaxClient`**: 6 clients at the AS. NewServer registers at most two in a life
  (a lost answer and a retry). The bound is met only on paths where, after
  Shutdown cleared the client, handlers register again and lose the answer
  over and over; the AS then gives no more clients. Proofs have no such limit:
  they hold for every `MaxClient`.

* **`MCPolicySync`**: `policy_overlap` has two requests beside the start on one resource,
  with a public and a private scope, three subjects (of the configuration, of the
  owner's policy, and another), a policy of the owner's that
  is patched and a blank one that is only read. Two synchronizations are all
  it takes for one to act on what another has changed; requests register again
  and again, so there is a third after them. `policy_shared` has a resource of each of two
  aggregators, an agreement of the owner's with one rule about both, and one request at a
  time beside restarts.
* **`MCDerivation`**: two goroutines take three requests (`MaxRequests`), on two
  services, one over `x1`, one over `x1` and `x2`: two of the requests may overlap, and
  the third meets what they left. The UAS makes three derivation resources (`MaxId`): one
  more than there are sources, so that one can be lost or replaced. When it has made
  them it only refuses; `DerivationStands` and the others do not speak of what must
  happen, so nothing is missed by that but longer histories.
* **`MCServiceRequest`**: one or two sources, so that a list has two or three members.
  Damage is the loss of the end at any place, and the loss, doubling or swap of any
  tokens, except of those list members that are names, where the result would be as
  well-formed as before and mean something else. `Shapes` has terms two deep in
  every place where a term may be.
* **`MCMaterialization`**: two goroutines, each serving request after request, on
  one service. In `materialize` it has a protected source with an ETag, which changes once and
  whose tokens expire once (`MaxVersion`, `MaxToken`): one change after any step is what
  tells old data from new. An output lacks the source, whole or in part, when it could not be
  read, staged, loaded or written. The runs of the findings add a source without an ETag,
  and the theorems hold for any number of both. Services have directories of their own and
  share only the tokens, which a second goroutine replaces as well as a second service.

All runs but `server_nominal`, `protection_faults` and `service_request` use `Spec` without fairness. Deadlock checking is
off in all cfgs: one-shot requests end, the process ends, a service may fail to be created,
`authorizationServerError` makes the server useless, and a body is answered once.

### Fairness

No call is supposed to return. `http.DefaultClient`, used unless `AccountHTTPClient` is
configured (`authorization_server.go:709-712`, `account_token.go:344-347`), has no timeout,
nor has a run of `oxigraph` (`routes.go:1924-1930`), so both runs have `"silence"` among their
`Faults`, and the properties name what silence can hold up.

* `AggregatorServer!FairSpec`: weak fairness of each request's `Run`, as long as no call of
  that request is silent. A goroutine is scheduled, and `sync.Mutex` is starvation-free. No
  fairness for arriving requests. Weak is enough: a waiter's step is disabled while the lock is
  held, but requests are one-shot and so the lock is not taken for ever.
  `EveryRequestIsAnswered` excepts a request with a silent call of its own, and all requests when
  the call that `cleanupServiceAssets` makes with `mu` held (`routes.go:925-944`) is silent:
  one UAS that does not answer stops the server then. It says that nothing else does.
* `ProtectionAPI!FairSpec`: weak fairness of each goroutine's step and of the
  main goroutine's cleanup, unless its call is silent. None for `Begin`, `Signal`, `Crash`,
  `Start`, `Expire`. `ShutdownEnds` excepts a silent call of Shutdown's own: it has no
  deadline (`main.go:43`). A request that is silent with `mu` held would hold it up too, where it
  takes the lock; that is `AggregatorServer`'s.
* `ServiceRequest!FairSpec`: weak fairness of `Next`; the handler runs, and calls nobody.

## 4. What is proved

TLAPS proves, for **every** set of requests, handlers and resources, every workload
and mode, every combination of faults and any number of lives, except where a theorem
is said to hold in some modes only, from the named assumptions on the constants only
(`RequestsAssumption` ... `IdsAssumption`;
`HandlersAssumption` ... `BoundsAssumption`; those of `PolicySync` and `Derivation`), which the
runs evaluate:

**`AggregatorServerProofs`**

* `TypeCorrect`: `Spec => []TypeOK`. One part of it is that `mu` is held across
  steps by a request in `DeleteDerivation` and nobody else.
* `Invariance`: `Spec => []IInv`. None of the safety properties is inductive: each
  handler acts on old reads, and what makes this harmless is that **ids are never
  reused**. `IInv` says so: ids in use were handed out (`IdsWereHandedOut`), an id
  reserved for a creation is nobody else's until it is listed (`CreatorOwnsId`), a
  service has one home (`OneHome`), an aggregator that a request was let in for is
  there unless a DELETE dropped it (`GoneWasDeleted`), and a list read after an
  ETag is not older than it (`ListNotOlderThanETag`).
* From it `CollectionsMatch`, `DeletedStaysDeleted`, `CreatedIsListed`,
  `PanicOnlyAfterDelete`, `PollingIsSound`.

**`AggregatorServerBackingProofs`**

* `BackedInvariance`, `ListedIsBacked`: `Spec => []ListedServiceIsBacked`, whatever fails.
  A POST makes the backing of a service in five steps, calls that may fail, and lists the
  service last; a DELETE undoes them in another five and unlists it last.
  `NewServiceIsBacked` says, label by label, what a POST has made that has come so far;
  nobody else can have taken it away, because a DELETE must find the service listed, except
  for a derivation resource that services share, which the DELETE of another one takes
  (`Stands`, `RemovedByDelete`; one that is named after a service is that service's only,
  `OwnNames`). A GET of the output may recompute it meanwhile and call it derived:
  `DerivedHasDerivation` says that its derivation resource stands then, or a DELETE took it, and
  that DELETE goes on until the service is in no list (`DeletingGoesOn`), for good
  (`UnlistedForGood`), so that `Refresh` finds nothing to call derived.
* `DeleteUndoesCreate`: `Spec => []DeleteLeavesOnlyDirectories` if **no call fails**, though
  some may never return (`Faults \subseteq {"silence"}`; with failures it is false, and the
  hazards say where). A POST that has reserved an id then lists it, or panics at a deleted
  aggregator (`CreationSucceeds`). The DELETE finds the derivation resource through the
  asset, so the proof is about who knows of it: the POST, then the asset, then the DELETE
  (`DerivationsAreAgreed`). The directories are made at once and never removed for good
  (`DirectoriesStay`). What else a DELETE removed nobody makes again (`RemovedStaysRemoved`): its
  service has one POST, which has ended, and no reader (`Unread`), who would be the one to do
  so (finding 1).

**`AggregatorServerRefinement`**: `Refinement`, `AggregatorServer` implements
`ServiceCollection`. Initial states map to initial states; `Provision`,
`DropAggregator`, `Insert`, `DropService` and `Refresh` map to `Open`, `Close`,
`List`, `Unlist` and `Refresh`, or to a stutter when what they work on is gone; all
other steps stutter. The invariant is needed to show that an id is new.

**`ProtectionAPIProofs`**

* `TypeCorrect`.
* `CredentialsAreRegistered`: `Spec => []ClientIsRegistered`. The code reads the
  cached client, releases the lock and registers one if there was none; two
  goroutines that do so would delete each other's client. It is right because of
  the order of the start, and that is what `StartComesFirst` and
  `OnlyStartRegisters` say: `NewServer` registers before there is a request, and
  either the client is there afterwards or `asError` stops every later call before
  it looks at the client (`StartFailed`). Thus nobody but Main in the start is
  at a registering label until `Shutdown` has deleted the client.
* `IdsAreRight`: `Spec => []NoWrongId`. `OneRegistrar` says that a resource has one
  registrar in a life, that the server has no id for it before that one stores it,
  and that at `KeepId` it holds the AS's id; so an id guessed after a 409 is kept
  only if the PUT found the resource under it.
* `Invariance`: both inductive invariants.

**`ProtectionAPICleanupProofs`**: first three properties that hold in a mode each, which
is a hypothesis of the theorem; then two that hold in every mode

* `NothingIsForgotten`: `Spec => []NothingForgotten` if **no answer is lost**; calls may be
  refused and requests overlap. The steps that touch the registrations are of five
  kinds (`RegistryMoves`): one registers at the AS, one stores the id, one deletes at the AS, one
  drops the id, and one ends with the answer to a registration or deletion lost. `DeletersKnow` says that whoever drops an id has deleted the resource under
  *that* id: it looked the id up, and since a resource is registered once in a life,
  nobody registered it again in between.
* `StartsReady`: `Spec => []StartIsReady` if **no call fails**, though some may never return. An earlier process may have left
  its client and its resources. `StartSucceeds` follows the start: the client that is
  in the way is found, deleted, and then there is none to conflict with.
* `ShutdownCleans`: `Spec => []ShutdownCleansUp` if **no call fails**, though some may never
  return, and whatever requests run beside Shutdown. `ShutdownInv` follows what SIGTERM
  found: a resource of the snapshot is still to be deleted, or being deleted, or gone
  (`NamesKept`), by Shutdown or by a request, and nobody registers it again in this life; the client
  goes last, and is not the one that a late request may register afterwards (`ClientKept`).
  Where no request ran beside it, the snapshot is complete, because nothing is
  forgotten, and every deletion succeeds because the client and the ids are the AS's
  (`AloneKept`).
* `AnswersAreActedOn`: `Spec => []AnswersStand`. The server stores and drops ids after the
  call, in a critical section of its own. Who deletes a resource needs its id, and that is
  not stored before `KeepId` (`DeletionIsOfStored`), so what was registered is still there then
  (`CallsInOrder`); and what was deleted nobody registers again in this life (`DeletersKnow`).
* `RegistryIsImplemented`: `Spec => ImplementsRegistry`, by `HeldMoves` (what each of the five
  kinds of step does to `Held`) and the order of the labels (`CallsInOrder`). A deletion that
  finds nothing at the AS under its id changes nothing, and rightly so: by `DeletersKnow` the
  resource is not held. That no call fails where `CallsMayFail` is false is `NoCallFails`: the PAT of a
  call is the registered client's (`CallsAuthorized`; for Shutdown, `ShutdownProgress`), and a
  409, which a resource of an earlier life gives, leads to that resource under its name
  (`ConflictsResolve`). Where the AS makes ids up (`~NamesAreIds`), a resource that a killed
  process left cannot be registered by the next one: the PUT to its URL finds nothing.

**`PolicySyncProofs`**, from `ScopesAssumption`, `SubjectsAssumption`,
`OwnersAssumption` and `BoundsAssumption`

* `Invariance`, `TypeCorrect`.
* `NoDuplicates`: synchronizations decide from outdated policies, and
  two of them may both create what neither found. It does no harm because
  of the names: `Home(w)` is the policy a rule belongs to, a function of
  the rule and the *owner's* policies only, and every synchronization arrives at it
  (`CreatedAtHome`, `PatchedAtHome`), whatever others have written meanwhile. So
  `InPlace`: what is in the store is the owner's, or is at its home and not granted
  by the owner. It needs `KnowledgeIsTrue`: what was fetched includes the owner's
  policies and nothing that is not in the store.
* `AssetsAreCovered`, `RegistrationsGrant`: an asset that was passed has its rules in
  the store, or among those still looked for (`PassedAssetsAreServed`,
  `RegisteredAreServed`); the subject of a registered resource's aggregator does not
  change while the request runs.
* `SeparateRules`: a node is named after the policy it is in and the action
  (`generatedRuleID`). `HomesApart`: the homes of rules about two resources are two policies, unless
  the owner has one about both; `OwnersRulesApart`: no generated node is the owner's; together,
  `NodesApart`. The owner's policies may be about several resources, and then the code makes
  one node of two rules: that is the exception in the property, and the proof shows that
  there is no other.
* `OnlyNewIsWritten`: `Spec => OnlyNewRulesAreWritten`, in every mode. What a
  synchronization has fetched is in the store (`KnowledgeIsTrue`) and in place
  (`InPlace`). So a rule it wants, if it knows it, has its generated name, and `odrlRuleExists`
  finds it there, unless the node has a second assignee.

**`DerivationProofs`**, from `SourcesAssumption` (a service has sources),
`IdsAssumption` and `ServicesAssumption` (the server's own names are no ids of the UAS).
Services may share sources in any way, and name one twice (except in `OneForEachSource`).

* `Invariance`, `TypeCorrect`.
* `DerivationIsOfSource`: an id is written down in six places on its way (the answer,
  the token cache, the evidence, the AS, the asset, the service), and other goroutines are
  at work between any two. `IInv` follows it: what is cached for a source was issued for
  it (`CachedIsOfSource`), so was what an exchange sends and gets
  (`ExchangedIsOfSource`), and what a goroutine or a record has for a service is the
  id of one of its sources or the server's own name (`EvidenceIsOfService`,
  `RecordsAreOfService`). A name of the server's own appears only at a UAS that withholds
  ids, since it withholds them only from one who has sent one.
* `KnownStaysKnown`: `KnownAtExchange` says why the two critical sections of
  `storeUpstreamToken` do no harm. An answer without an id comes only after an id was
  sent, which came from the cache; and no step empties the cache (`Grows`), so when the
  id is read again, it or another one is there.
* `DerivationsAreThere`: only `Cleanup` deletes, and by `RecordsAreOfService` what it
  deletes belongs to a source of the service that is being deleted. A service shares
  a source with it, or has another derivation. That service stays deleted
  (`TakenStep`), because its creator is gone and ids are used once (`CreatorIsAlone`).
* `RecordsAgree`: while one request is at work at a time (`AloneUnlessOverlapped`) the
  AS, the asset and the service differ only between `UpdateOutput` and
  `ReplaceService`, and in a deletion; a failed update leaves a service that is not ready.
* `RecheckPrecedesOutput`.
* `OneForEachSource`: while requests come one at a time `OneEach` holds. What is cached
  is what the UAS has; an exchange sends it, so the UAS makes another one only when a
  deletion took the first; and the evidence an exchange starts with is of a source read
  before, hence the current one. The property supposes that no service names a
  source twice: the second reading could get a new id, and the PUT that follows bring
  the old resource back.

**`MaterializationProofs`**, from `SourcesAssumption` (every service has sources, any of
which may be tagged or protected), `ModeAssumption` and `BoundsAssumption`; requests overlap
in any way

* `Invariance`, `TypeCorrect`.
* `ETagsDescribe`: as long as `mingled` is false, one request at most is at work in the
  directories of a service (`AloneInDirectories`; others of the service may do all the rest), so
  at each of its steps what is staged is what it has recorded (`SourcesFit`), the store holds
  that but for what oxigraph refused, and the output is what the last complete query
  wrote, or a part of what the last one would have (`DirectoriesFit`). In the second case the
  service still has the ETags of an earlier output, and they are no newer than the data
  (`NotOlder`).
* `FreshIsServed`, `ReadableIsServed`: a source may change, or be withdrawn, between any
  two comparisons and while the output is computed. `HoldsStep` says that what comes
  into the directories is the version its source has at that moment, and that the source
  can be read. Hence data only gets newer than what is known of it,
  and a comparison that found the ETag current stays good for the request that made it
  (`Validated`): its data is at least as new as that ETag, and that is not older than
  the request (`AdmitsHeld`). It holds of a part of the data as of all.
* `CompleteIsServed`: a source is left out only where a call fails (`GapStep`), and all
  requests for the service that are under way, or begin before the materialization is
  over, count as having met that failure (`GapsAreKnown`). So a request that has
  met none finds an output that covers all sources (`Covered`), or makes one.

The proofs have one step per action. Steps that only move a goroutine on are
covered by lemmas on `Return`, `Continue...` (`ReturnType`, `GoOnType`, `ReturnKeeps`,
`MoveKeeps`, `MovesKeep`; `ProceedOwn`, `LateOwn`, `WorkFacts`), each with what it asks of the step.
In `MaterializationProofs` a lemma `...Is` says what each action does to its request, and
`Kinds` sorts the actions by what the invariants tell apart (`Checks`, `Pursues`, ...).

### What is only model-checked

* Liveness (`EveryRequestIsAnswered`, `ShutdownEnds`, `EveryBodyIsAnswered`): out of the
  prover's reach.
* `ServiceRequest`: what a document says is a recursive definition (`Turtle`), so its
  properties would need an induction over documents; and nodes are named by
  putting strings together, of which the provers know nothing.

## 5. Reading the results

`CollectionsMatchAggregators` and `PanicOnlyAfterAggregatorDeleted` belong together:
`createService` writes into `s.services[aggID]`, a nil map when the aggregator was
deleted after the request was let in. The write panics (net/http drops the
connection), and that panic is what keeps the collection from coming back
half-made. The theorem says that it is the only way to reach it.

`ListedServiceIsBacked` holds although creations fail midway, since `Insert` is the
last step and comes only after every registration succeeded; what a failed
creation registered stays behind (hazard at `routes.go:524`).

`ClientIsRegistered` ends where `Shutdown` clears the client. From there handlers
that still run find no client and register one (`main.go` closes the listener
only afterwards).

That order has another consequence. `main` runs `Server.Shutdown` (`main.go:43`) before
`http.Server.Shutdown` (`main.go:48`), so a handler may register a resource, or a client, after
`Shutdown` took its snapshot (`routes.go:1091-1096`), and it stays at the AS
when the process is gone. `ShutdownCleansUp` says what is kept in spite of that: what was known when
SIGTERM came is gone. Only when no request ran beside Shutdown is nothing left, as the tests
have it (`authorization_server_test.go:180-183`).

`DeleteLeavesOnlyDirectories` says what is left of a service that was deleted:
`deleteService` removes the output file (`routes.go:733-738`), but not the workspace that
`materialize` made, with the store and the copies of the sources, protected ones included
(`routes.go:1372-1388`). Nothing in the repository says that they go, so it is no finding.

`ListedServiceIsBacked` has an exception for the same reason as `DerivationStands` below: the
derivation resource of a source is shared.

`DerivationStands` says as much as the code keeps: the derivation resource of a source
is shared by the services over it (`routes.go:942`), and the first DELETE takes it from all.
The next exchange for the source names the id that is gone; what comes of that
is the UAS's choice. `DerivedFromItsSources` has the server's own name only where the
UAS answers without ids. There it may appear although an id is known: the cache
keeps the id of an earlier answer (`storeUpstreamToken`) while the evidence is
that of the last answer (`fetchHTTPSource`, `routes.go:1547`).

`OneDerivationPerSource` is about requests one at a time. Two first exchanges
for one source at the same time make two resources, and the cache keeps one.

`ParsedIsWritten` is an equivalence: the parser misreads a well-formed document exactly if
a literal with the text of an opening bracket is an object or a member of a list, or
one with the text of `)` is a member. A literal full stop or semicolon is read as
what it is, since a term is taken whatever it is. For the same reason `DamageIsNoticed`
has an exception: `... fnoc:boundToTerm .` at the end of a document is accepted,
with `.` as the term.

Two observations on the way, which no run is spent on: a service subject written `_:svc` is
refused for its unknown prefix, though blank subjects are allowed
(`service_request_turtle.go:71`); and `serviceList` iterates over a Go map, so that the
order of a collection, and which of several equal services the catalog names, vary
between requests.

`OnlyNewRulesAreWritten` has an exception. A resource that the start finds
registered gets a rule for `cfg.Subject`, since the aggregator is not known
(`policy_sync.go:127`), and one for the aggregator's subject when it is known again. If
these differ, both are one rule node, of whose assignees `odrlRuleExists` sees the first
(`policy_sync.go:317`). Every
later synchronization may then send the same PATCH again. It changes nothing in the
store, and nothing in the repository rules it out, so it is no finding.
`RegistrationGrantsAccess` holds all the same.

`RulesStaySeparate` has one too: a policy of the owner's about two resources is found for
both (`policy_sync.go:98`, `328-340`), and as `generatedRuleID` makes the name of a rule of the policy
and the action (`policy_sync.go:114`, `447`), the rules of the two resources become one node
with both targets and, if the subjects differ, both assignees: each is allowed the
action on both.

`ServedIsComplete` leaves out sources that oxigraph failed to load. `materialize`
appends a source to the metadata before it loads it (`routes.go:1399-1411`), so that a
source whose load failed counts as part of the output (`unloaded`) and is not loaded again before
its ETag changes, or never if it has none; the test for an error of the last load
(`routes.go:1431`) is therefore never true. A source that could not be *staged* is not
in the metadata, and the next GET tries it again.

`ServedWasReadable` and `ServedIsFresh` speak of sources with an ETag: one without is
never asked again once it is in an output (`routes.go:1573`). They, `ServedIsComplete` and
`ETagsDescribeOutput` end where two requests were in the directories of a service at a
time (`mingled`); that they may be there is what finding 2 shows.

Two tests of `service_collection_test.go` disagree with the code in ways that no run
is spent on, since they show at once: `:1151-1163` expects 400 for a source that is no RDF
document, but it is skipped and the service created with an empty output
(`Stage`, `Skip`); and one on access requests expects the WebID base64-encoded, where
`routes.go:1755` uses `url.QueryEscape`.

## 6. Findings

1. `server_delete_vs_output`: a GET of an output that rematerializes while its
   service is deleted writes the asset of the deleted service back
   (`updateOutputAssetDerivedFrom`, `routes.go:908`). A conformance test expects
   DELETE to have removed the asset (`service_collection_test.go:1261`).
   `Refresh`, on the same path, does check that the service is still there.
2. `materialize_overlap`: two GETs of one output that find it outdated both
   materialize it, in the same directories. One that received a source before it changed may stage
   it where the other is about to load it, so that the other answers with
   old data, and keeps the new ETag with it. `service_collection_test.go:1020` expects
   changed data in what is served after a change.
3. `materialize_partial`: a GET finds the output outdated because a source answered its
   HEAD with an error (`routes.go:1580`, `1600-1611`), computes it again, and the query ends half way:
   the GET is answered with an error, and the file, which oxigraph writes in place
   (`routes.go:1441-1451`), has a part of the results. The next GET finds the file there and
   the ETags unchanged, and serves it. A test expects of what is served that it includes
   the materialized data (`service_collection_test.go:892-893`). It takes one request after another.

## 7. What is not modelled

* The evidence lists (`derivedUpdates`, `cleanups`, ...): append-only, read by tests.
* Of a materialization: local sources (`file:` URLs), which have no ETag; errors
  of the file system other than those another request causes; the same URL twice
  among the sources of a service. Everywhere: the configuration with a fixed `UpstreamRPT`.
* In `AggregatorServer` it is left open which derivation resource belongs to which
  source; `Derivation` has that, and no aggregators.
* Of a service request: how characters make tokens, and prefix declarations.
* The management access token that may come with an exchange: it is passed on to the
  PUT and the DELETE, and a wrong one is a refusal.
* `deleteAggregator` leaves the services' assets, registrations and files. Nothing
  in the repository promises a cascade.
* Rendering (catalog, descriptions, Turtle), configuration: pure, no decision
  another part depends on.

## 8. Plan

Done: all components of the plan are modelled and checked, every safety property is
proved but those of `ServiceRequest`, and `AggregatorServer` and `ProtectionAPI`, which see the
same calls from two sides, meet in `ResourceRegistry`.

What may follow is to let `AggregatorServer` work on an instance of `ResourceRegistry` with calls
that take time. It takes each as one step now, which loses no interleaving of the handlers
that the registry could tell apart, since a call has its effect at one moment.
