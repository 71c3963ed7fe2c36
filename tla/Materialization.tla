---------------------------- MODULE Materialization ----------------------------
(***************************************************************************)
(* How the output of a service is computed, and when it is computed again: *)
(* materialize, stageSource, fetchHTTPSource, serviceNeedsMaterialization, *)
(* currentHTTPSourceETag and the cache of upstream tokens (routes.go).     *)
(*                                                                         *)
(* A service reads sources elsewhere on the web. They change; some answer  *)
(* with an ETag, some only to a token of their authorization server (UAS). *)
(* The output is kept on disk together with the ETags it was computed      *)
(* from. A GET of the output asks each source for its ETag and computes    *)
(* the output anew when one has changed.                                   *)
(*                                                                         *)
(* Each member of Requests is a goroutine that serves one request after    *)
(* another. A step is one request to a source or to the UAS, one critical  *)
(* section of mu, or one call to the file system or to oxigraph; a query   *)
(* is two, as its results are written in place. What becomes of a document *)
(* is left out: an output is the set of the versions of sources that were  *)
(* loaded into the store it was queried from. Sources are taken in any     *)
(* order, all from http(s) URLs.                                           *)
(*                                                                         *)
(* Nothing keeps two requests from materializing a service at a time, in   *)
(* the same directories.                                                   *)
(***************************************************************************)
EXTENDS Naturals

CONSTANTS
  Requests,
  Services,
  Sources,
  SourcesOf,   \* the source_urls of each service
  Tagged,      \* sources that answer with an ETag
  Protected,   \* sources that are read with a token of their UAS
  Faults,      \* what may fail: "source" (and the UAS), "oxigraph" (and the files)
  MaxVersion,  \* bound: how often a source changes
  MaxToken     \* bound: how often the tokens for a source become invalid

ASSUME SourcesAssumption ==
  /\ Services # {} /\ SourcesOf \in [Services -> (SUBSET Sources) \ {{}}]
  /\ Tagged \subseteq Sources /\ Protected \subseteq Sources
ASSUME ModeAssumption == Faults \subseteq {"source", "oxigraph"}
ASSUME BoundsAssumption == MaxVersion \in Nat \ {0} /\ MaxToken \in Nat \ {0}

VARIABLES
  \* The web.
  version,     \* the current version of each source
  allowed,     \* the protected sources the server may read
  generation,  \* of the tokens the UAS issues for a source; older ones are invalid
  requested,   \* sources for which an access request is at the UAS
  \* Fields of Server.
  reserved,    \* services with an id
  services,    \* service -> what is known of its output
  tokens,      \* upstreamTokens: the token kept for a source, 0 if there is none
  \* The directories of each service.
  staged,      \* <workdir>/<service>/sources: source -> version
  store,       \* <workdir>/<service>/store: the versions loaded
  output,      \* <outputs>/<service>: file -> data: the versions it is written from,
               \*   writers: requests whose results got into it but perhaps not all
  unloaded,    \* <<source, version>>s that oxigraph failed to load into the store
  mingled,     \* whether two requests have been at work in the directories at a time
  \* The request goroutines.
  pc, loc,
  \* History of the requests.
  since,       \* the versions of tagged sources when the request began
  barred,      \* the sources that the server was never allowed to read since then
  failed       \* whether a call failed, of it or of another one at work on the service

worldVars == <<version, allowed, generation, requested>>
serverVars == <<reserved, services, tokens>>
diskVars == <<staged, store, output, unloaded, mingled>>
requestHistory == <<since, barred>>
historyVars == <<requestHistory, failed>>
vars == <<worldVars, serverVars, diskVars, pc, loc, historyVars>>

Versions == 1 .. MaxVersion
Tokens == 1 .. MaxToken
NoETag == 0
NoToken == 0

\* The file an output is written to: one name when no source could be staged
\* (empty.<format>), another for the result of a query (output.<ext>).
Paths == {"empty", "output"}

EmptyMap == [x \in {} |-> x]
Assign(f, k, v) == [x \in DOMAIN f \cup {k} |-> IF x = k THEN v ELSE f[x]]

\* SourceMetadata (the ETags; the URL is the key) and OutputPath.
Unknown == [etags |-> EmptyMap, path |-> "output"]

Idle == [op |-> "none", service |-> CHOOSE s \in Services : TRUE, copy |-> Unknown,
         method |-> "GET", source |-> CHOOSE x \in Sources : TRUE, token |-> NoToken,
         body |-> 0, todo |-> {}]

Init ==
  /\ version = [x \in Sources |-> 1]
  /\ allowed \in SUBSET Protected
  /\ generation = [x \in Sources |-> 1]
  /\ requested = {}
  /\ reserved = {} /\ services = EmptyMap
  /\ tokens = [x \in Sources |-> NoToken]
  /\ staged = [s \in Services |-> EmptyMap]
  /\ store = [s \in Services |-> {}]
  /\ output = [s \in Services |-> EmptyMap]
  /\ unloaded = [s \in Services |-> {}]
  /\ mingled = [s \in Services |-> FALSE]
  /\ pc = [r \in Requests |-> "idle"]
  /\ loc = [r \in Requests |-> Idle]
  /\ since = [r \in Requests |-> [x \in Tagged |-> version[x]]]
  /\ barred = [r \in Requests |-> {}]
  /\ failed = [r \in Requests |-> FALSE]
-----------------------------------------------------------------------------
At(r, l) == pc[r] = l
Goto(r, l) == pc' = [pc EXCEPT ![r] = l]
MayFail(what) == what \in Faults

Service(r) == loc[r].service
Source(r) == loc[r].source

Materializing(r) ==
  \/ pc[r] \in {"next", "stage", "load", "write", "store"}
  \/ pc[r] \in {"cached", "exchange", "keep", "retry"} /\ loc[r].method = "GET"

\* loc[r] when the function that asked a source has returned.
Return(r) == [loc[r] EXCEPT !.method = "GET", !.source = Idle.source, !.token = NoToken,
                            !.body = 0]

\* Another request is at work in the service's directories.
Interferes(r) == \E q \in Requests \ {r} : Materializing(q) /\ Service(q) = Service(r)

\* A call to the file system or to oxigraph may fail, also because another request
\* has emptied the directories or writes there.
WorkFails(r) == MayFail("oxigraph") \/ mingled[Service(r)]

\* A call failed: history for every request for the service at the time.
Fail(r) ==
  failed' = [q \in Requests |-> failed[q] \/ q = r \/ Service(q) = Service(r)]

\* The request is answered.
Answer(r) == Goto(r, "idle") /\ loc' = [loc EXCEPT ![r] = Idle]

\* ... with an error status.
Abandon(r) == Answer(r) /\ Fail(r)

\* A source answers 2xx rather than 401. Access that is withdrawn is refused at
\* once, also to a token that has not expired.
Readable(x, token) == x \notin Protected \/ (x \in allowed /\ token = generation[x])

ETag(x, v) == IF x \in Tagged THEN v ELSE NoETag
-----------------------------------------------------------------------------
(***************************************************************************)
(* A request begins: handleCreateService with a new id, handleServiceOutput*)
(* with a copy of what is known of the service.                            *)
(***************************************************************************)
Begin(r, s, op, copy, label) ==
  /\ At(r, "idle")
  /\ loc' = [loc EXCEPT ![r] = [Idle EXCEPT !.op = op, !.service = s, !.copy = copy]]
  /\ Goto(r, label)
  /\ since' = [since EXCEPT ![r] = [x \in Tagged |-> version[x]]]
  /\ barred' = [barred EXCEPT ![r] = Protected \ allowed]
  /\ failed' = [failed EXCEPT ![r] =
       \E q \in Requests \ {r} : Materializing(q) /\ Service(q) = s /\ failed[q]]
  /\ UNCHANGED <<worldVars, services, tokens, diskVars>>

Reserve(r) == \E s \in Services \ reserved :
  /\ Begin(r, s, "create", Unknown, "clear")
  /\ reserved' = reserved \cup {s}

Lookup(r) == \E s \in DOMAIN services :
  /\ Begin(r, s, "output", services[s], "stat")
  /\ UNCHANGED reserved
-----------------------------------------------------------------------------
(***************************************************************************)
(* serviceNeedsMaterialization                                             *)
(***************************************************************************)
\* Mutant: what is missing from the output is not looked for again.
Outdated_mutant(r) == loc[r].copy.path \notin DOMAIN output[Service(r)]

\* The output is missing, or was computed without some of the sources.
Outdated(r) ==
  \/ loc[r].copy.path \notin DOMAIN output[Service(r)]
  \/ DOMAIN loc[r].copy.etags # SourcesOf[Service(r)]

Stat(r) ==
  /\ At(r, "stat")
  /\ IF Outdated(r)
     THEN Goto(r, "clear") /\ UNCHANGED loc
     ELSE /\ Goto(r, "validate")
          /\ loc' = [loc EXCEPT ![r].todo =
               {x \in DOMAIN loc[r].copy.etags : loc[r].copy.etags[x] # NoETag}]
  /\ UNCHANGED <<worldVars, serverVars, diskVars, historyVars>>

\* currentHTTPSourceETag: HEAD with the token that is kept for the source.
Validate(r) ==
  /\ At(r, "validate")
  /\ IF loc[r].todo = {}
     THEN Goto(r, "serve") /\ UNCHANGED loc
     ELSE /\ Goto(r, "head")
          /\ \E x \in loc[r].todo :
               loc' = [loc EXCEPT ![r].method = "HEAD", ![r].source = x, ![r].token = tokens[x]]
  /\ UNCHANGED <<worldVars, serverVars, diskVars, historyVars>>

\* The source answered with its ETag.
Compare(r) ==
  IF version[Source(r)] = loc[r].copy.etags[Source(r)]
  THEN /\ Goto(r, "validate")
       /\ loc' = [loc EXCEPT ![r] = [Return(r) EXCEPT !.todo = @ \ {Source(r)}]]
  ELSE Goto(r, "clear") /\ UNCHANGED loc

\* No answer, or an answer without an ETag: another status than 2xx and 401.
HeadFails(r) == Abandon(r) \/ (Goto(r, "clear") /\ Fail(r) /\ UNCHANGED loc)

\* Mutant: a source that asks for a token is taken to be unchanged.
Head_mutant(r) ==
  /\ At(r, "head")
  /\ \/ Compare(r) /\ UNCHANGED failed
     \/ MayFail("source") /\ HeadFails(r)
  /\ UNCHANGED <<worldVars, serverVars, diskVars, requestHistory>>

Head(r) ==
  /\ At(r, "head")
  /\ \/ Readable(Source(r), loc[r].token) /\ Compare(r) /\ UNCHANGED failed
     \/ ~Readable(Source(r), loc[r].token) /\ Goto(r, "exchange") /\ UNCHANGED <<loc, failed>>
     \/ MayFail("source") /\ HeadFails(r)
  /\ UNCHANGED <<worldVars, serverVars, diskVars, requestHistory>>
-----------------------------------------------------------------------------
(***************************************************************************)
(* fetchHTTPSource                                                         *)
(***************************************************************************)
\* A source that cannot be read or staged is left out.
Skip(r, x) ==
  /\ loc' = [loc EXCEPT ![r] = [Return(r) EXCEPT !.todo = @ \ {x}]]
  /\ Goto(r, "next")
  /\ Fail(r)

Received(r, x) ==
  /\ loc' = [loc EXCEPT ![r].method = "GET", ![r].source = x, ![r].body = version[x],
                        ![r].todo = @ \ {x}]
  /\ Goto(r, "stage")

\* Mutant: no check whether there is a cached token.
Fetch_mutant(r) ==
  /\ At(r, "next")
  /\ \E x \in loc[r].todo :
       \/ x \notin Protected /\ Received(r, x) /\ UNCHANGED failed
       \/ /\ x \in Protected
          /\ loc' = [loc EXCEPT ![r].method = "GET", ![r].source = x, ![r].token = tokens[x],
                                ![r].todo = @ \ {x}]
          /\ Goto(r, "cached")
          /\ UNCHANGED failed
       \/ MayFail("source") /\ Skip(r, x)
  /\ UNCHANGED <<worldVars, serverVars, diskVars, requestHistory>>

\* The next source is asked without a token first; one that is protected
\* answers 401 and names its UAS.
Fetch(r) ==
  /\ At(r, "next")
  /\ \E x \in loc[r].todo :
       \/ x \notin Protected /\ Received(r, x) /\ UNCHANGED failed
       \/ /\ x \in Protected
          /\ loc' = [loc EXCEPT ![r].method = "GET", ![r].source = x, ![r].token = tokens[x],
                                ![r].todo = @ \ {x}]
          /\ Goto(r, IF tokens[x] = NoToken THEN "exchange" ELSE "cached")
          /\ UNCHANGED failed
       \/ MayFail("source") /\ Skip(r, x)
  /\ UNCHANGED <<worldVars, serverVars, diskVars, requestHistory>>

\* With the cached token. Any answer but 2xx leads to a new exchange.
FetchCached(r) ==
  /\ At(r, "cached")
  /\ \/ Readable(Source(r), loc[r].token) /\ Received(r, Source(r)) /\ UNCHANGED failed
     \/ /\ ~Readable(Source(r), loc[r].token) \/ MayFail("source")
        /\ Goto(r, "exchange") /\ UNCHANGED <<loc, failed>>
     \/ MayFail("source") /\ Skip(r, Source(r))
  /\ UNCHANGED <<worldVars, serverVars, diskVars, requestHistory>>
-----------------------------------------------------------------------------
(***************************************************************************)
(* obtainUpstreamRPT, with account credentials: the ticket is exchanged    *)
(* for a token, or else an access request is submitted to the UAS.         *)
(***************************************************************************)
Exchange(r) ==
  /\ At(r, "exchange")
  /\ \/ /\ Source(r) \in allowed
        /\ loc' = [loc EXCEPT ![r].token = generation[Source(r)]]
        /\ Goto(r, "keep")
        /\ UNCHANGED <<requested, failed>>
     \/ /\ Source(r) \notin allowed \/ MayFail("source")
        /\ \/ requested' = requested \cup {Source(r)}
           \/ MayFail("source") /\ UNCHANGED requested
        /\ IF loc[r].method = "HEAD" THEN Abandon(r) ELSE Skip(r, Source(r))
  /\ UNCHANGED <<version, allowed, generation, serverVars, diskVars, requestHistory>>

\* storeUpstreamToken
KeepToken(r) ==
  /\ At(r, "keep")
  /\ tokens' = [tokens EXCEPT ![Source(r)] = loc[r].token]
  /\ Goto(r, "retry")
  /\ UNCHANGED <<worldVars, reserved, services, diskVars, loc, historyVars>>

\* The request is made again with the new token. A HEAD that is refused once
\* more has no ETag; a GET that is refused gives the source up.
Retry(r) ==
  /\ At(r, "retry")
  /\ \/ /\ Readable(Source(r), loc[r].token)
        /\ IF loc[r].method = "HEAD" THEN Compare(r) ELSE Received(r, Source(r))
        /\ UNCHANGED failed
     \/ /\ ~Readable(Source(r), loc[r].token)
        /\ IF loc[r].method = "HEAD"
           THEN Goto(r, "clear") /\ Fail(r) /\ UNCHANGED loc
           ELSE Skip(r, Source(r))
     \/ /\ MayFail("source")
        /\ IF loc[r].method = "HEAD" THEN HeadFails(r) ELSE Skip(r, Source(r))
  /\ UNCHANGED <<worldVars, serverVars, diskVars, requestHistory>>
-----------------------------------------------------------------------------
(***************************************************************************)
(* materialize                                                             *)
(***************************************************************************)
\* Another request that is at work in the directories goes on in emptied ones.
Disturb(r) == mingled' = [mingled EXCEPT ![Service(r)] = @ \/ Interferes(r)]

\* The workspace is removed, with the staged sources and the store.
EmptyWorkspace(r) ==
  /\ staged' = [staged EXCEPT ![Service(r)] = EmptyMap]
  /\ store' = [store EXCEPT ![Service(r)] = {}]

EmptyOutput(r) ==
  /\ output' = [output EXCEPT ![Service(r)] = EmptyMap]
  /\ unloaded' = [unloaded EXCEPT ![Service(r)] = {}]

\* One of the calls fails: nothing, the workspace or all has been removed.
ClearFails(r) ==
  /\ MayFail("oxigraph") \/ Interferes(r)
  /\ \/ UNCHANGED <<staged, store, output, unloaded>>
     \/ EmptyWorkspace(r) /\ UNCHANGED <<output, unloaded>>
     \/ EmptyWorkspace(r) /\ EmptyOutput(r)
  /\ Disturb(r)
  /\ Abandon(r)

Begun(r) ==
  /\ loc' = [loc EXCEPT ![r] =
       [Return(r) EXCEPT !.copy = Unknown, !.todo = SourcesOf[Service(r)]]]
  /\ Goto(r, "next")
  /\ UNCHANGED failed

\* Mutant: the store of the last materialization is loaded into again.
Clear_mutant(r) ==
  /\ At(r, "clear")
  /\ \/ /\ staged' = [staged EXCEPT ![Service(r)] = EmptyMap]
        /\ UNCHANGED store
        /\ EmptyOutput(r)
        /\ mingled' = [mingled EXCEPT ![Service(r)] = Interferes(r)]
        /\ Begun(r)
     \/ ClearFails(r)
  /\ UNCHANGED <<worldVars, serverVars, requestHistory>>

\* The directories are removed and made anew, whoever is at work in them. One
\* that is alone has them to itself until another comes.
Clear(r) ==
  /\ At(r, "clear")
  /\ \/ /\ EmptyWorkspace(r) /\ EmptyOutput(r)
        /\ mingled' = [mingled EXCEPT ![Service(r)] = Interferes(r)]
        /\ Begun(r)
     \/ ClearFails(r)
  /\ UNCHANGED <<worldVars, serverVars, requestHistory>>

\* Mutant: the ETag is not recorded.
Note_mutant(r) ==
  loc' = [loc EXCEPT ![r].copy.etags = Assign(@, Source(r), NoETag)]

\* What is recorded of a source that was staged.
Note(r) ==
  loc' = [loc EXCEPT ![r].copy.etags =
    Assign(@, Source(r), ETag(Source(r), loc[r].body))]

\* What was received is no RDF document, or the file could not be written.
Stage(r) ==
  /\ At(r, "stage")
  /\ \/ /\ staged' = [staged EXCEPT ![Service(r)] = Assign(@, Source(r), loc[r].body)]
        /\ Note(r)
        /\ Goto(r, "load")
        /\ UNCHANGED failed
     \/ /\ MayFail("source") \/ WorkFails(r)
        /\ Skip(r, Source(r))
        /\ UNCHANGED staged
  /\ UNCHANGED <<worldVars, serverVars, store, output, unloaded, mingled, requestHistory>>

PutInStore(r) ==
  /\ Source(r) \in DOMAIN staged[Service(r)]
  /\ store' = [store EXCEPT ![Service(r)] = @ \cup
       {<<Source(r), staged[Service(r)][Source(r)]>>}]

\* oxigraph load. The source is recorded whether or not it could be loaded; when
\* it could not, a part of it may be in the store.
Load(r) ==
  /\ At(r, "load")
  /\ \/ PutInStore(r) /\ UNCHANGED unloaded
     \/ /\ WorkFails(r)
        /\ PutInStore(r) \/ UNCHANGED store
        /\ unloaded' = [unloaded EXCEPT ![Service(r)] = @ \cup {<<Source(r), loc[r].body>>}]
  /\ loc' = [loc EXCEPT ![r] = Return(r)]
  /\ Goto(r, "next")
  /\ UNCHANGED <<worldVars, serverVars, staged, output, mingled, requestHistory, failed>>

\* With all sources done, the output is an empty file if none was staged (an
\* os.WriteFile of nothing), or else oxigraph opens the store and creates the
\* file that it writes the results of the query to. Others may be writing there.
Create(r, path, data, writers, label) ==
  /\ output' = [output EXCEPT ![Service(r)] =
       Assign(@, path, [data |-> data, writers |-> writers])]
  /\ loc' = [loc EXCEPT ![r].copy.path = path]
  /\ Goto(r, label)
  /\ UNCHANGED failed

Writers(r) == {r} \cup {q \in Requests : At(q, "write") /\ Service(q) = Service(r)}

CreateOutput(r) ==
  /\ At(r, "next") /\ loc[r].todo = {}
  /\ \/ DOMAIN loc[r].copy.etags = {} /\ Create(r, "empty", {}, {}, "store")
     \/ /\ DOMAIN loc[r].copy.etags # {}
        /\ Create(r, "output", store[Service(r)], Writers(r), "write")
     \/ WorkFails(r) /\ Abandon(r) /\ UNCHANGED output
  /\ UNCHANGED <<worldVars, serverVars, staged, store, unloaded, mingled, requestHistory>>

\* The file, with all results of r in it: in full, if nobody else wrote there.
Closed(file, r) == [file EXCEPT !.writers = IF @ = {r} THEN {} ELSE @]

\* oxigraph has written the results, or fails and leaves what it has written.
WriteOutput(r) ==
  /\ At(r, "write")
  /\ \/ /\ output' = [output EXCEPT ![Service(r)] = [f \in DOMAIN @ |-> Closed(@[f], r)]]
        /\ Goto(r, "store")
        /\ UNCHANGED <<loc, failed>>
     \/ WorkFails(r) /\ Abandon(r) /\ UNCHANGED output
  /\ UNCHANGED <<worldVars, serverVars, staged, store, unloaded, mingled, requestHistory>>

\* createService inserts the service; handleServiceOutput replaces what is
\* known of its output. The calls to the authorization server around it, and
\* services that are deleted meanwhile, are in AggregatorServer.
Store(r) ==
  /\ At(r, "store")
  /\ services' = Assign(services, Service(r), loc[r].copy)
  /\ IF loc[r].op = "create"
     THEN Answer(r)
     ELSE Goto(r, "serve") /\ UNCHANGED loc
  /\ UNCHANGED <<worldVars, reserved, tokens, diskVars, historyVars>>

\* http.ServeFile: the file is sent as it is now, or 404 if there is none.
Serve(r) ==
  /\ At(r, "serve")
  /\ Answer(r)
  /\ UNCHANGED <<worldVars, serverVars, diskVars, historyVars>>
-----------------------------------------------------------------------------
(***************************************************************************)
(* The web: sources change, each time with a new ETag; tokens expire;      *)
(* owners withdraw the access they gave, and give what was asked for. The  *)
(* server cannot tell the versions of a source without an ETag apart, and  *)
(* nor does the model.                                                     *)
(***************************************************************************)
Publish(x) ==
  /\ x \in Tagged /\ version[x] < MaxVersion
  /\ version' = [version EXCEPT ![x] = @ + 1]
  /\ UNCHANGED <<allowed, generation, requested, serverVars, diskVars, pc, loc, historyVars>>

Expire(x) ==
  /\ x \in Protected /\ generation[x] < MaxToken
  /\ generation' = [generation EXCEPT ![x] = @ + 1]
  /\ UNCHANGED <<version, allowed, requested, serverVars, diskVars, pc, loc, historyVars>>

Withdraw(x) ==
  /\ x \in allowed
  /\ allowed' = allowed \ {x}
  /\ UNCHANGED <<version, generation, requested, serverVars, diskVars, pc, loc, historyVars>>

Grant(x) ==
  /\ x \in requested
  /\ allowed' = allowed \cup {x} /\ requested' = requested \ {x}
  /\ barred' = [r \in Requests |-> barred[r] \ {x}]
  /\ UNCHANGED <<version, generation, serverVars, diskVars, pc, loc, since, failed>>

Handle(r) ==
  \/ Reserve(r) \/ Lookup(r) \/ Stat(r) \/ Validate(r) \/ Head(r)
  \/ Fetch(r) \/ FetchCached(r) \/ Exchange(r) \/ KeepToken(r) \/ Retry(r)
  \/ Clear(r) \/ Stage(r) \/ Load(r) \/ CreateOutput(r) \/ WriteOutput(r)
  \/ Store(r) \/ Serve(r)

Next ==
  \/ \E r \in Requests : Handle(r)
  \/ \E x \in Sources : Publish(x) \/ Expire(x) \/ Withdraw(x) \/ Grant(x)

Spec == Init /\ [][Next]_vars
-----------------------------------------------------------------------------
(***************************************************************************)
(* Properties                                                              *)
(***************************************************************************)
Labels ==
  {"idle", "stat", "validate", "head", "cached", "exchange", "keep", "retry", "clear", "next",
   "stage", "load", "write", "store", "serve"}

\* What is known of an output: paths, and ETags of versions of sources.
Known == [etags : UNION {[X -> Versions \cup {NoETag}] : X \in SUBSET Sources}, path : Paths]

Data == Sources \X Versions

\* Every variable has its type; what a request is doing at a label is there
\* to be done (a source that is looked up in a copy is in it, and one that is
\* asked for a token is protected).
TypeOK ==
  /\ version \in [Sources -> Versions]
  /\ allowed \subseteq Protected /\ requested \subseteq Protected
  /\ generation \in [Sources -> Tokens]
  /\ reserved \subseteq Services
  /\ DOMAIN services \subseteq reserved
  /\ \A s \in DOMAIN services : services[s] \in Known
  /\ tokens \in [Sources -> Tokens \cup {NoToken}]
  /\ DOMAIN staged = Services
  /\ \A s \in Services : DOMAIN staged[s] \subseteq Sources
  /\ \A s \in Services : \A x \in DOMAIN staged[s] : staged[s][x] \in Versions
  /\ store \in [Services -> SUBSET Data]
  /\ DOMAIN output = Services
  /\ \A s \in Services : DOMAIN output[s] \subseteq Paths
  /\ \A s \in Services : \A f \in DOMAIN output[s] :
       output[s][f] \in [data : SUBSET Data, writers : SUBSET Requests]
  /\ unloaded \in [Services -> SUBSET Data]
  /\ mingled \in [Services -> BOOLEAN]
  /\ pc \in [Requests -> Labels]
  /\ loc \in [Requests -> [op : {"none", "create", "output"}, service : Services, copy : Known,
                           method : {"GET", "HEAD"}, source : Sources,
                           token : Tokens \cup {NoToken}, body : Versions \cup {0},
                           todo : SUBSET Sources]]
  /\ \A r \in Requests :
       /\ pc[r] \in {"exchange", "keep"} => Source(r) \in Protected
       /\ pc[r] \in {"cached", "keep", "retry"} => loc[r].token # NoToken
       /\ pc[r] \in {"stage", "load"} => loc[r].body # 0
       /\ pc[r] \in {"validate", "head"} => loc[r].todo \subseteq DOMAIN loc[r].copy.etags
  /\ since \in [Requests -> [Tagged -> Versions]]
  /\ barred \in [Requests -> SUBSET Protected]
  /\ failed \in [Requests -> BOOLEAN]

File(r) == output[Service(r)][loc[r].copy.path]

\* The GET of an output is being answered 200, with File(r).
Serves(r) == At(r, "serve") /\ loc[r].copy.path \in DOMAIN output[Service(r)]

\* It is answered from directories that no two requests were in at a time.
ServesUnmingled(r) == Serves(r) /\ ~mingled[Service(r)]

\* Every GET that is answered 200 is served an output without data of a version
\* of a source that the source had replaced, under another ETag, before the
\* request was made (TestOutputRematerializesWhenSourceETagChanges).
ChangedDataIsServed ==
  \A r \in Requests : Serves(r) =>
    \A d \in File(r).data : d[1] \in Tagged => d[2] >= since[r][d[1]]

\* Every GET that is answered 200 is served all that was materialized
\* (TestAGGRSEC005).
ServedIsWhole ==
  \A r \in Requests : Serves(r) => File(r).writers = {}

\* An output that is served contains no data of a version of a source that
\* the source had replaced, under another ETag, before the request was made:
\* neither the freshness check nor what another request for it left on disk,
\* in part or in full, lets old data through, unless two requests were at work
\* in the service's directories at a time.
ServedIsFresh ==
  \A r \in Requests : ServesUnmingled(r) =>
    \A d \in File(r).data : d[1] \in Tagged => d[2] >= since[r][d[1]]

\* A source whose owner withdrew the aggregator's access is not passed on to
\* those who ask for the output later: as the freshness check needs the
\* source's consent, an output with its data is not served, although it is
\* still on disk and was computed when access was allowed.
ServedWasReadable ==
  \A r \in Requests : ServesUnmingled(r) =>
    \A d \in File(r).data : d[1] \notin Tagged \cap barred[r]

\* Gaps heal: when every call of a request succeeded, and of those that it
\* overlapped with, what it is served in full has data of every source of the
\* service, also when the output was computed without some of them before. What
\* oxigraph once failed to load may be missing, but of a source with ETags only
\* as long as the source has not changed since.
ServedIsComplete ==
  \A r \in Requests : (ServesUnmingled(r) /\ File(r).writers = {} /\ ~failed[r]) =>
    \A x \in SourcesOf[Service(r)] :
      \/ \E d \in File(r).data : d[1] = x
      \/ \E d \in unloaded[Service(r)] :
           d[1] = x /\ (x \in Tagged => d[2] >= since[r][x])

\* What the freshness check relies on when no request is computing an output: the
\* ETags that are kept with a service are those of the data in its output file,
\* whatever failed in computing it. When a query left a part of its results, they
\* are those of the output before, and no newer than the data.
ETagsDescribeOutput ==
  \A s \in DOMAIN services :
    \/ mingled[s] \/ \E r \in Requests : Materializing(r) /\ Service(r) = s
    \/ services[s].path \notin DOMAIN output[s]
    \/ LET file == output[s][services[s].path]
           etags == services[s].etags
       IN  IF file.writers = {}
           THEN /\ {d[1] : d \in file.data} \subseteq DOMAIN etags
                /\ DOMAIN etags \subseteq {d[1] : d \in file.data \cup unloaded[s]}
                /\ \A d \in file.data : ETag(d[1], d[2]) = etags[d[1]]
           ELSE \A d \in file.data :
                  d[1] \in Tagged \cap DOMAIN etags => d[2] >= etags[d[1]]
=============================================================================
