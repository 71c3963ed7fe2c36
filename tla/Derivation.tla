------------------------------ MODULE Derivation ------------------------------
(***************************************************************************)
(* The derivation resources behind the outputs of services: how an id gets *)
(* from the authorization server of a source (UAS) into the token cache,   *)
(* into the derived_from of an output at the aggregator's own AS, and back *)
(* to the UAS when the service is deleted (routes.go: obtainUpstreamRPT,   *)
(* storeUpstreamToken, fetchHTTPSource, updateOutputAssetDerivedFrom,      *)
(* cleanupServiceAssets; account_token.go: requestUMAAccessToken and the   *)
(* account token that every exchange presents).                            *)
(*                                                                         *)
(* A token is asked for with the scope derivation-creation, and the UAS    *)
(* answers with the id of a derivation resource. The server keeps the id   *)
(* with the token, sends it along with the next exchange, and names it as  *)
(* what the output is derived from.                                        *)
(*                                                                         *)
(* The aggregator uses a live AS. Every source is protected and has the    *)
(* same UAS: of a public one no evidence remains. What a source holds, and *)
(* whether it has changed, is Materialization's subject: here it may have. *)
(* A step is one call or one critical section of mu.                       *)
(***************************************************************************)
EXTENDS Naturals, Sequences, FiniteSets, Functions

CONSTANTS
  Requests,
  Services,   \* the ids of services, each used once
  Sources,
  SourcesOf,  \* the source_urls of each service, in their order
  Faults,     \* what may fail: "account", "uas", "lost" (an answer of the UAS), "as"
  MaxId,      \* bound: how many derivation resources the UAS makes
  MaxRequests \* bound: how many requests are taken

ASSUME SourcesAssumption == SourcesOf \in [Services -> Seq(Sources) \ {<< >>}]
ASSUME IdsAssumption == MaxId \in Nat /\ MaxRequests \in Nat
ASSUME ServicesAssumption == Services # {} /\ Services \cap Nat = {}
ASSUME FaultsAssumption == Faults \subseteq {"account", "uas", "lost", "as"}

VARIABLES
  \* The UAS.
  practice,     \* what it answers to an exchange that names a derivation resource
  issued,       \* the source each id was issued for
  derivations,  \* the derivation resources it has
  \* The AS: the derived_from of each output that is registered.
  derivedFrom,
  \* Fields of Server.
  account,      \* accountAccessToken, accountTokenError
  tokens,       \* upstreamTokens
  reserved,     \* ids of services handed out
  assets,       \* outputAssets: the DerivedFrom of each
  services,
  \* The request goroutines.
  pc, loc,
  \* History.
  begun,        \* how many requests were taken
  overlapped,   \* two requests have been at work at a time
  lost          \* ids whose answer got lost

uasVars == <<practice, issued, derivations>>
serverVars == <<account, tokens, reserved, assets, services>>
historyVars == <<begun, overlapped, lost>>
vars == <<uasVars, derivedFrom, serverVars, pc, loc, historyVars>>

NoId == 0
Ids == 1 .. MaxId
Issued == DOMAIN issued

\* DerivationResourceIDPrefix-<service id>, the name for a derivation resource
\* whose id the UAS did not tell.
Prefixed(s) == s

\* An exchange that names a derivation resource the UAS has is answered with
\* its id, with the id of a new one, or with a token alone.
Practices == {"keeps", "renews", "terse"}

NoToken == [held |-> FALSE, id |-> NoId, response |-> NoId]
NoEvidence == [issuer |-> FALSE, id |-> NoId]

\* The calls of requestAccountAccessToken, in their order.
AccountCalls == <<"index", "login", "controls", "credentials", "discovery", "exchange">>
Starting == Range(AccountCalls)

Idle == [op |-> "none", service |-> CHOOSE s \in Services : TRUE, method |-> "GET", i |-> 1,
         sent |-> NoId, answer |-> NoId, keep |-> NoId, up |-> NoEvidence, from |-> NoId,
         ok |-> TRUE, checked |-> TRUE]

EmptyMap == [x \in {} |-> x]
Assign(f, k, v) == [x \in DOMAIN f \cup {k} |-> IF x = k THEN v ELSE f[x]]
Drop(f, k) == Restrict(f, DOMAIN f \ {k})

Init ==
  /\ practice \in Practices
  /\ issued = << >> /\ derivations = {}
  /\ derivedFrom = EmptyMap
  /\ account = Head(AccountCalls)
  /\ tokens = [x \in Sources |-> NoToken]
  /\ reserved = {} /\ assets = EmptyMap /\ services = EmptyMap
  /\ pc = [r \in Requests |-> "idle"]
  /\ loc = [r \in Requests |-> Idle]
  /\ begun = 0 /\ overlapped = FALSE /\ lost = {}
-----------------------------------------------------------------------------
At(r, l) == pc[r] = l
Goto(r, l) == pc' = [pc EXCEPT ![r] = l]
MayFail(what) == what \in Faults
Service(r) == loc[r].service
Source(r) == SourcesOf[Service(r)][loc[r].i]
Last(r) == loc[r].i > Len(SourcesOf[Service(r)])

End(r) == Goto(r, "idle") /\ loc' = [loc EXCEPT ![r] = Idle]
-----------------------------------------------------------------------------
(***************************************************************************)
(* initializeAccountToken, before any request is taken. A call that fails  *)
(* leaves an error for good, and every request ends with it at the AS.     *)
(***************************************************************************)
AccountCall ==
  /\ \E n \in DOMAIN AccountCalls :
       /\ account = AccountCalls[n]
       /\ \/ account' = IF n = Len(AccountCalls) THEN "token" ELSE AccountCalls[n + 1]
          \/ MayFail("account") /\ account' = "error"
  /\ UNCHANGED <<uasVars, derivedFrom, tokens, reserved, assets, services, pc, loc, historyVars>>
-----------------------------------------------------------------------------
(***************************************************************************)
(* handleCreateService, handleServiceOutput and handleDeleteService begin. *)
(***************************************************************************)
Begin(r, op, s, label) ==
  /\ account = "token" /\ begun < MaxRequests
  /\ At(r, "idle")
  /\ Goto(r, label)
  /\ loc' = [loc EXCEPT ![r] =
       [Idle EXCEPT !.op = op, !.service = s,
                    !.method = IF op = "output" THEN "HEAD" ELSE "GET",
                    !.from = IF op = "delete" THEN services[s].from ELSE NoId]]
  /\ begun' = begun + 1
  /\ overlapped' = (overlapped \/ \E q \in Requests \ {r} : pc[q] # "idle")
  /\ UNCHANGED <<uasVars, derivedFrom, account, tokens, assets, services, lost>>

\* Mutant: the id is not taken.
CreateService_mutant(r) == \E s \in Services \ reserved :
  Begin(r, "create", s, "next") /\ UNCHANGED reserved

CreateService(r) == \E s \in Services \ reserved :
  Begin(r, "create", s, "next") /\ reserved' = reserved \cup {s}

GetOutput(r) == \E s \in DOMAIN services : Begin(r, "output", s, "next") /\ UNCHANGED reserved

DeleteService(r) == \E s \in DOMAIN services :
  Begin(r, "delete", s, "unregister") /\ UNCHANGED reserved
-----------------------------------------------------------------------------
(***************************************************************************)
(* The sources are asked in their order: with HEAD by                      *)
(* serviceNeedsMaterialization, with GET by materialize.                   *)
(***************************************************************************)
\* The next source of the same loop.
Advance(r, l) == [l EXCEPT !.i = @ + 1, !.sent = NoId, !.answer = NoId, !.keep = NoId]

Proceed(r) == Goto(r, "next") /\ loc' = [loc EXCEPT ![r] = Advance(r, @)]

\* A source was read: the first evidence stays.
Staged(r, id) ==
  /\ Goto(r, "next")
  /\ loc' = [loc EXCEPT ![r] =
       Advance(r, IF @.up.issuer THEN @ ELSE [@ EXCEPT !.up = [issuer |-> TRUE, id |-> id]])]

\* The output has to be computed again.
Materialize(r) ==
  Goto(r, "next") /\ loc' = [loc EXCEPT ![r] = Advance(r, [@ EXCEPT !.method = "GET", !.i = 0])]

\* No token for the source, and access is asked for (whether that succeeds does
\* not matter): a GET leaves the source out, a HEAD ends the request.
GiveUp(r) == IF loc[r].method = "GET" THEN Proceed(r) ELSE End(r)

\* Mutant: an exchange never names the derivation resource it has.
AskSource_mutant(r) ==
  /\ At(r, "next") /\ ~Last(r)
  /\ \/ Goto(r, "json") /\ UNCHANGED loc
     \/ loc[r].method = "GET" /\ tokens[Source(r)].held /\ Staged(r, tokens[Source(r)].response)
     \/ loc[r].method = "GET" /\ Proceed(r)
     \/ loc[r].method = "HEAD" /\ (Proceed(r) \/ Materialize(r) \/ End(r))
  /\ UNCHANGED <<uasVars, derivedFrom, serverVars, historyVars>>

\* The source answers to the cached token, if there is one, unless it has
\* expired: then the cached id goes along with the exchange that follows
\* (cachedUpstreamDerivationResourceID). The evidence of a source that was read
\* with the cached token is what is cached at the end (cachedUpstreamTokenResponse).
\* A HEAD may find that the source has changed, and a GET get no answer or no
\* RDF; before the first HEAD, the output may be missing.
AskSource(r) ==
  /\ At(r, "next") /\ ~Last(r)
  /\ \/ Goto(r, "json") /\ loc' = [loc EXCEPT ![r].sent = tokens[Source(r)].id]
     \/ loc[r].method = "GET" /\ tokens[Source(r)].held /\ Staged(r, tokens[Source(r)].response)
     \/ loc[r].method = "GET" /\ Proceed(r)
     \/ loc[r].method = "HEAD" /\ (Proceed(r) \/ Materialize(r) \/ End(r))
  /\ UNCHANGED <<uasVars, derivedFrom, serverVars, historyVars>>
-----------------------------------------------------------------------------
(***************************************************************************)
(* obtainUpstreamRPT                                                       *)
(***************************************************************************)
\* The UAS grants an exchange that names the resource "sent", and answers "id".
Grant(x, sent, id) ==
  IF sent \in derivations /\ practice # "renews"
  THEN id = (IF practice = "keeps" THEN sent ELSE NoId) /\ UNCHANGED <<issued, derivations>>
  ELSE /\ Len(issued) < MaxId
       /\ issued' = Append(issued, x)
       /\ id = Len(issued')
       /\ derivations' = derivations \cup {id}

\* Neither metadata document of the UAS names a token endpoint.
DiscoveryFails(r) ==
  /\ At(r, "json") /\ MayFail("uas")
  /\ GiveUp(r)
  /\ UNCHANGED <<uasVars, derivedFrom, serverVars, historyVars>>

\* requestUMAAccessToken sends the exchange as JSON and, whatever went wrong
\* with that, once more as a form. When both fail it asks for access instead.
Exchange(r) ==
  /\ pc[r] \in {"json", "form"}
  /\ LET Retry == IF At(r, "json") THEN Goto(r, "form") /\ UNCHANGED loc ELSE GiveUp(r) IN
     \/ \E id \in {NoId} \cup Ids :
          /\ Grant(Source(r), loc[r].sent, id)
          /\ \/ /\ loc' = [loc EXCEPT ![r].answer = id, ![r].keep = id]
                /\ Goto(r, IF id = NoId THEN "keep" ELSE "store")
                /\ UNCHANGED lost
             \/ MayFail("lost") /\ Retry /\ lost' = lost \cup ({id} \ {NoId, loc[r].sent})
     \/ MayFail("uas") /\ Retry /\ UNCHANGED <<issued, derivations, lost>>
  /\ UNCHANGED <<practice, derivedFrom, serverVars, begun, overlapped>>

\* storeUpstreamToken: an answer without an id leaves the one that is cached.
\* It is read in one critical section and stored in another. Mutant: it is not.
KeepId_mutant(r) ==
  /\ At(r, "keep")
  /\ Goto(r, "store") /\ UNCHANGED loc
  /\ UNCHANGED <<uasVars, derivedFrom, serverVars, historyVars>>

KeepId(r) ==
  /\ At(r, "keep")
  /\ loc' = [loc EXCEPT ![r].keep = tokens[Source(r)].id]
  /\ Goto(r, "store")
  /\ UNCHANGED <<uasVars, derivedFrom, serverVars, historyVars>>

\* The source is asked again with the new token.
StoreToken(r) ==
  /\ At(r, "store")
  /\ tokens' = [tokens EXCEPT ![Source(r)] =
       [held |-> TRUE, id |-> loc[r].keep, response |-> loc[r].answer]]
  /\ \/ loc[r].method = "GET" /\ Staged(r, loc[r].answer)
     \/ loc[r].method = "HEAD" /\ (Proceed(r) \/ Materialize(r))
     \/ GiveUp(r)
  /\ UNCHANGED <<uasVars, derivedFrom, account, reserved, assets, services, historyVars>>
-----------------------------------------------------------------------------
(***************************************************************************)
(* The end of materialize, and what follows from the evidence.             *)
(***************************************************************************)
\* Nothing has changed: the output is served as it is.
StillFresh(r) ==
  /\ At(r, "next") /\ Last(r) /\ loc[r].method = "HEAD"
  /\ Goto(r, "serve") /\ UNCHANGED loc
  /\ UNCHANGED <<uasVars, derivedFrom, serverVars, historyVars>>

\* updateOutputAssetDerivedFrom begins: without evidence there is no derivation.
\* Mutant: the server's own name is used for any derivation.
DerivationOf_mutant(r) == IF loc[r].up.issuer THEN Prefixed(Service(r)) ELSE NoId

DerivationOf(r) ==
  LET up == loc[r].up IN
    IF ~up.issuer THEN NoId ELSE IF up.id # NoId THEN up.id ELSE Prefixed(Service(r))

\* All sources are staged, and the query is run; it may fail.
Query(r) ==
  /\ At(r, "next") /\ Last(r) /\ loc[r].method = "GET"
  /\ \/ loc' = [loc EXCEPT ![r].from = DerivationOf(r), ![r].up = NoEvidence]
        /\ Goto(r, IF loc[r].op = "create" THEN "register" ELSE "put")
     \/ End(r)
  /\ UNCHANGED <<uasVars, derivedFrom, serverVars, historyVars>>

\* registerServiceResource and registerOutputAsset: the asset stays also when
\* the AS refuses.
RegisterOutput(r) ==
  /\ At(r, "register")
  /\ assets' = Assign(assets, Service(r), NoId)
  /\ \/ /\ derivedFrom' = Assign(derivedFrom, Service(r), NoId)
        /\ Goto(r, "put") /\ UNCHANGED loc
     \/ MayFail("as") /\ End(r) /\ UNCHANGED derivedFrom
  /\ UNCHANGED <<uasVars, account, tokens, reserved, services, historyVars>>

Failed(r) == loc' = [loc EXCEPT ![r].ok = FALSE] /\ Goto(r, "insert")

\* Mutant: a refused PUT goes unnoticed.
PutDerivation_mutant(r) ==
  /\ At(r, "put")
  /\ LET d == loc[r].from IN
       derivations' = derivations \cup ({d} \ {NoId}) \/ UNCHANGED derivations
  /\ Goto(r, "update") /\ UNCHANGED loc
  /\ UNCHANGED <<practice, issued, derivedFrom, serverVars, historyVars>>

\* updateUASDerivationResource: a PUT, which may make a resource that is not
\* there, or be refused for that.
PutDerivation(r) ==
  /\ At(r, "put")
  /\ LET d == loc[r].from IN
     \/ d = NoId /\ Goto(r, "update") /\ UNCHANGED <<derivations, loc>>
     \/ d # NoId /\ derivations' = derivations \cup {d} /\ Goto(r, "update") /\ UNCHANGED loc
     \/ d # NoId /\ (d \notin derivations \/ MayFail("uas")) /\ Failed(r) /\ UNCHANGED derivations
     \/ d # NoId /\ MayFail("lost") /\ derivations' = derivations \cup {d} /\ Failed(r)
  /\ UNCHANGED <<practice, issued, derivedFrom, serverVars, historyVars>>

\* updateConfiguredAuthorizationResource: the AS expires the tokens it has
\* issued for the output.
UpdateOutput(r) ==
  /\ At(r, "update")
  /\ LET Expired == [q \in Requests |->
           IF loc[q].op = "output" /\ Service(q) = Service(r)
           THEN [loc[q] EXCEPT !.checked = FALSE] ELSE loc[q]] IN
     \/ /\ Service(r) \in DOMAIN derivedFrom
        /\ derivedFrom' = Assign(derivedFrom, Service(r), loc[r].from)
        /\ \/ loc' = Expired /\ Goto(r, "commit")
           \/ /\ MayFail("as")  \* the answer is lost
              /\ loc' = [Expired EXCEPT ![r].ok = FALSE] /\ Goto(r, "insert")
     \/ /\ Service(r) \notin DOMAIN derivedFrom \/ MayFail("as")
        /\ Failed(r) /\ UNCHANGED derivedFrom
  /\ UNCHANGED <<uasVars, serverVars, historyVars>>

\* The asset is written, whether or not it is still there. Mutant: it keeps
\* the derivation it was registered with.
StoreDerivedFrom_mutant(r) ==
  /\ At(r, "commit")
  /\ assets' = Assign(assets, Service(r), NoId)
  /\ Goto(r, "insert")
  /\ UNCHANGED <<uasVars, derivedFrom, account, tokens, reserved, services, loc, historyVars>>

StoreDerivedFrom(r) ==
  /\ At(r, "commit")
  /\ assets' = Assign(assets, Service(r), loc[r].from)
  /\ Goto(r, "insert")
  /\ UNCHANGED <<uasVars, derivedFrom, account, tokens, reserved, services, loc, historyVars>>
-----------------------------------------------------------------------------
(***************************************************************************)
(* The service is listed, or its entry replaced; then the output is served.*)
(***************************************************************************)
Entry(r) ==
  [status |-> IF loc[r].ok THEN "ready" ELSE "failed",
   from |-> IF loc[r].ok THEN loc[r].from ELSE NoId]

InsertService(r) ==
  /\ At(r, "insert") /\ loc[r].op = "create"
  /\ services' = Assign(services, Service(r), Entry(r))
  /\ End(r)
  /\ UNCHANGED <<uasVars, derivedFrom, account, tokens, reserved, assets, historyVars>>

Replaced(r) == IF Service(r) \in DOMAIN services
               THEN Assign(services, Service(r), Entry(r)) ELSE services

\* Mutant: the output is served without looking at the token again.
ReplaceService_mutant(r) ==
  /\ At(r, "insert") /\ loc[r].op = "output"
  /\ services' = Replaced(r)
  /\ Goto(r, "serve") /\ UNCHANGED loc
  /\ UNCHANGED <<uasVars, derivedFrom, account, tokens, reserved, assets, historyVars>>

\* A service that was deleted meanwhile is not listed again. Where the update
\* failed the output is served at once.
ReplaceService(r) ==
  /\ At(r, "insert") /\ loc[r].op = "output"
  /\ services' = Replaced(r)
  /\ Goto(r, IF loc[r].ok THEN "recheck" ELSE "serve") /\ UNCHANGED loc
  /\ UNCHANGED <<uasVars, derivedFrom, account, tokens, reserved, assets, historyVars>>

\* outputRPTIsValid and requestOutputPermission: 401 with a ticket, or go on.
Recheck(r) ==
  /\ At(r, "recheck")
  /\ \/ Goto(r, "serve") /\ loc' = [loc EXCEPT ![r].checked = TRUE]
     \/ End(r)
  /\ UNCHANGED <<uasVars, derivedFrom, serverVars, historyVars>>

ServeOutput(r) ==
  /\ At(r, "serve")
  /\ End(r)
  /\ UNCHANGED <<uasVars, derivedFrom, serverVars, historyVars>>
-----------------------------------------------------------------------------
(***************************************************************************)
(* deleteService and cleanupServiceAssets                                  *)
(***************************************************************************)
UnregisterOutput(r) ==
  /\ At(r, "unregister")
  /\ \/ derivedFrom' = Drop(derivedFrom, Service(r))
     \/ MayFail("as") /\ UNCHANGED derivedFrom
  /\ Goto(r, "cleanup")
  /\ UNCHANGED <<uasVars, serverVars, loc, historyVars>>

\* What the asset is derived from goes, or else what the service was when it
\* was looked up.
Removed(r) ==
  IF Service(r) \in DOMAIN assets /\ assets[Service(r)] # NoId
  THEN assets[Service(r)] ELSE loc[r].from

\* One critical section: mu is held over the DELETE at the UAS.
Cleanup(r) ==
  /\ At(r, "cleanup")
  /\ assets' = Drop(assets, Service(r))
  /\ \/ derivations' = derivations \ {Removed(r)}
     \/ MayFail("uas") /\ UNCHANGED derivations
  /\ Goto(r, "drop")
  /\ UNCHANGED <<practice, issued, derivedFrom, account, tokens, reserved, services, loc, historyVars>>

DropService(r) ==
  /\ At(r, "drop")
  /\ services' = Drop(services, Service(r))
  /\ End(r)
  /\ UNCHANGED <<uasVars, derivedFrom, account, tokens, reserved, assets, historyVars>>
-----------------------------------------------------------------------------
Run(r) ==
  \/ CreateService(r) \/ GetOutput(r) \/ DeleteService(r)
  \/ AskSource(r) \/ DiscoveryFails(r) \/ Exchange(r) \/ KeepId(r) \/ StoreToken(r)
  \/ StillFresh(r) \/ Query(r) \/ RegisterOutput(r)
  \/ PutDerivation(r) \/ UpdateOutput(r) \/ StoreDerivedFrom(r)
  \/ InsertService(r) \/ ReplaceService(r) \/ Recheck(r) \/ ServeOutput(r)
  \/ UnregisterOutput(r) \/ Cleanup(r) \/ DropService(r)

Next == AccountCall \/ \E r \in Requests : Run(r)

Spec == Init /\ [][Next]_vars
-----------------------------------------------------------------------------
(***************************************************************************)
(* Properties                                                              *)
(***************************************************************************)
AnyId == {NoId} \cup Ids \cup Services
Labels == {"idle", "next", "json", "form", "keep", "store", "register",
           "put", "update", "commit", "insert", "recheck", "serve",
           "unregister", "cleanup", "drop"}
Evidence == [issuer : BOOLEAN, id : {NoId} \cup Ids]
Tokens == [held : BOOLEAN, id : {NoId} \cup Ids, response : {NoId} \cup Ids]
Locals ==
  [op : {"none", "create", "output", "delete"}, service : Services, method : {"GET", "HEAD"},
   i : Nat, sent : {NoId} \cup Ids, answer : {NoId} \cup Ids, keep : {NoId} \cup Ids,
   up : Evidence, from : AnyId, ok : BOOLEAN, checked : BOOLEAN]

\* The shape of the state: ids the UAS made are kept apart from the server's own
\* names, in every place an id passes through.
TypeOK ==
  /\ practice \in Practices /\ issued \in Seq(Sources) /\ Len(issued) <= MaxId
  /\ derivations \subseteq Issued \cup Services
  /\ DOMAIN derivedFrom \subseteq reserved
  /\ \A s \in DOMAIN derivedFrom : derivedFrom[s] \in AnyId
  /\ account \in Starting \cup {"token", "error"}
  /\ tokens \in [Sources -> Tokens]
  /\ reserved \subseteq Services
  /\ DOMAIN assets \subseteq reserved
  /\ \A s \in DOMAIN assets : assets[s] \in AnyId
  /\ DOMAIN services \subseteq reserved
  /\ \A s \in DOMAIN services :
       services[s] \in [status : {"ready", "failed"}, from : AnyId]
  /\ pc \in [Requests -> Labels] /\ loc \in [Requests -> Locals]
  /\ begun \in 0 .. MaxRequests /\ overlapped \in BOOLEAN /\ lost \subseteq Ids

\* An output is never said to be derived from what another service's sources
\* were read under, whatever exchanges overlap: the AS names an id that the UAS
\* issued for a source of the service, or, if the UAS answers without ids, the
\* server's own name (TestMilestone8PlainSourceDoesNotInventDerivationResourceID
\* speaks of sources that have no derivation).
DerivedFromItsSources ==
  \A s \in DOMAIN derivedFrom : LET d == derivedFrom[s] IN
    \/ d = NoId
    \/ d \in Issued /\ issued[d] \in Range(SourcesOf[s])
    \/ d = Prefixed(s) /\ practice = "terse"

\* Once the id of a derivation resource is known it is never forgotten, though
\* an answer without one is stored in another critical section than the one
\* that reads what is cached (storeUpstreamToken).
KnownIdIsKept == [][\A x \in Sources : tokens[x].id # NoId => tokens'[x].id # NoId]_vars

\* A UAS that honours the id it is sent does not fill up with derivation
\* resources of one source while requests come one at a time: what it has for
\* a source is the one that is cached, is about to be, or had its answer lost.
\* (A source that is named twice may get a new id between its two readings, and
\* the PUT at the end bring the old resource back.)
OneDerivationPerSource ==
  ~overlapped /\ practice # "renews" /\ (\A s \in Services : IsInjective(SourcesOf[s])) =>
    \A d \in derivations \cap Ids :
      \/ d \in lost
      \/ tokens[issued[d]].id = d
      \/ \E r \in Requests : At(r, "store") /\ loc[r].keep = d

\* What a ready service's output is derived from is there at the UAS, until a
\* service over one of the same sources is deleted: the two share the derivation
\* resource, and cleanupServiceAssets deletes it for both.
DerivationStands ==
  \A s \in DOMAIN services :
    services[s].status = "ready" /\ services[s].from # NoId /\ services[s].from \notin derivations =>
      \E t \in reserved :
        /\ Range(SourcesOf[t]) \cap Range(SourcesOf[s]) # {}
        /\ t \notin DOMAIN services \/ \E r \in Requests : At(r, "drop") /\ Service(r) = t

\* With requests that come one at a time, the three places that say what a
\* ready service is derived from agree: the AS, whose policies depend on it, the
\* asset, from which the DELETE takes what to remove, and the description.
ReadyServiceAgrees ==
  ~overlapped /\ (\A r \in Requests : At(r, "idle")) =>
    \A s \in DOMAIN services :
      services[s].status = "ready" =>
        /\ s \in DOMAIN derivedFrom /\ s \in DOMAIN assets
        /\ derivedFrom[s] = services[s].from /\ assets[s] = services[s].from

\* An output that was computed anew is served to a token that the AS found
\* active after the derived_from changed, unless the update was reported to
\* have failed (TestMilestone10RematerializedOutputReintrospectsRPTAfterASUpdate).
ServedAfterRecheck ==
  \A r \in Requests : At(r, "serve") /\ ~loc[r].checked => overlapped \/ ~loc[r].ok
=============================================================================
