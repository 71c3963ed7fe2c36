---------------------------- MODULE ProtectionAPI ----------------------------
(***************************************************************************)
(* The client of the authorization server (AS), authorization_server.go,   *)
(* between the start and the end of the process that cmd/aggregator runs:  *)
(* NewServer registers a client at the AS and gets a protection API token  *)
(* (PAT) for it, requests register, update, delete and ask for resources   *)
(* with that PAT, and on SIGTERM Shutdown deletes what was registered.     *)
(*                                                                         *)
(* It is the live case (shouldUseLiveAuthorizationServer), with a usable   *)
(* account token. Handlers are the goroutines of requests, each going      *)
(* through one call of the functions below at a time; Main is the main     *)
(* goroutine. A step is one critical section of Server.mu or one call to   *)
(* the AS. The process may be killed at any point and started again; the   *)
(* AS keeps what it has.                                                   *)
(*                                                                         *)
(* A PAT is represented by the client it was issued to, and an expired one *)
(* by none: protectionAPIAuthorization treats the two alike.               *)
(***************************************************************************)
EXTENDS Naturals

CONSTANTS
  Handlers,     \* the goroutines of requests
  Main,         \* the main goroutine
  Resources,    \* the URLs of resources
  Faults,       \* calls may fail: "refuse" without effect, "lose" after it,
                \* "silence" without effect, answer or end
  NamesAreIds,  \* TRUE iff the AS uses the name of a resource as its id
  Overlap,      \* TRUE iff requests run and arrive while Shutdown runs
  MaxClient,    \* bound on the clients the AS registers
  Lives         \* bound on the number of times the process is started

ASSUME HandlersAssumption == Main \notin Handlers
ASSUME FaultsAssumption == Faults \subseteq {"refuse", "lose", "silence"}
ASSUME ModeAssumption == NamesAreIds \in BOOLEAN /\ Overlap \in BOOLEAN
ASSUME BoundsAssumption == MaxClient \in Nat /\ Lives \in Nat

VARIABLES
  \* Fields of Server, lost when the process ends.
  client,    \* authorizationServerClient, 0 when there is none
  token,     \* protectionToken: the client of an unexpired PAT, or 0
  asError,   \* authorizationServerError is set
  ids,       \* authorizationResourceIDs: resource -> id at the AS
  created,   \* the resources a registration was asked for
  \* The AS.
  asClient,  \* the client registered for this server's BaseURL, or 0
  resources, \* registered resource -> [id, life]; life: of the process that did it
  lastClient, \* the clients registered so far
  \* The process.
  phase, life,
  todo,      \* Shutdown: the resources of its snapshot yet to be deleted
  \* The goroutines.
  pc,
  loc,       \* the function a goroutine is in, its argument and its locals
  silent,    \* the goroutines whose call to the AS never returns
  \* For the properties.
  snapshot   \* what SIGTERM found: the resources with an id, the client, and
             \* whether no request has run beside Shutdown since

serverVars == <<client, token, asError, ids, created>>
asVars == <<asClient, resources, lastClient>>
processVars == <<phase, life, todo>>
stateVars == <<serverVars, asVars, processVars, pc, loc>>
vars == <<stateVars, silent, snapshot>>

Procs == Handlers \cup {Main}
Phases == {"starting", "serving", "cleaning", "draining", "exited", "crashed"}
ResourceOps == {"register", "update", "delete", "ask"}
Ops == ResourceOps \cup {"none", "start"}
Clients == 1 .. MaxClient

\* The AS gives a resource its name as id, or an id it makes up; this server
\* registers a resource at most once in a life.
AsId(n, l) == IF NamesAreIds THEN n ELSE <<n, l>>
AsIds == Resources \cup (Resources \X Nat)
NoId == <<>>

(***************************************************************************)
(* cred is the client a goroutine works with, or whose PAT it holds; rid   *)
(* is the id of its resource at the AS.                                    *)
(***************************************************************************)
Locals == [op : Ops, res : Resources \cup {0},
           cred : Clients \cup {0}, rid : AsIds \cup {NoId}]
In(o, n) == [op |-> o, res |-> n, cred |-> 0, rid |-> NoId]
NoLocals == In("none", 0)

RegisteringLabels == {"postClient", "findClient", "dropClient", "retryClient", "keepClient"}
Labels ==
  RegisteringLabels \cup
  {"idle", "lookup", "pat", "requestToken", "keepToken",
   "call", "adopt", "keepId", "sync", "forget",
   "wait", "next", "readClient", "deleteClient", "clearClient", "drain"}

EmptyMap == [x \in {} |-> x]
Assign(f, k, v) == [x \in DOMAIN f \cup {k} |-> IF x = k THEN v ELSE f[x]]
Drop(f, k) == [x \in DOMAIN f \ {k} |-> f[x]]

At(p, l) == pc[p] = l
Goto(p, l) == pc' = [pc EXCEPT ![p] = l]
Idle(h) == pc[h] = "idle"
AllIdle == \A h \in Handlers : Idle(h)
Running == phase \notin {"exited", "crashed"}

Snapshots == [names : SUBSET Resources, client : Clients \cup {0}, alone : BOOLEAN]
NoSnapshot == [names |-> {}, client |-> 0, alone |-> FALSE]

Init ==
  /\ client = 0 /\ token = 0 /\ asError = FALSE
  /\ ids = EmptyMap /\ created = {} /\ todo = {}
  /\ asClient = 0 /\ resources = EmptyMap /\ lastClient = 0
  /\ phase = "starting" /\ life = 1
  /\ pc = [p \in Procs |-> IF p = Main THEN "pat" ELSE "idle"]
  /\ loc = [p \in Procs |-> IF p = Main THEN In("start", 0) ELSE NoLocals]
  /\ silent = {} /\ snapshot = NoSnapshot

\* The end of the process takes Server and its goroutines with it.
End(how) ==
  /\ phase' = how
  /\ client' = 0 /\ token' = 0 /\ asError' = FALSE
  /\ ids' = EmptyMap /\ created' = {} /\ todo' = {}
  /\ pc' = [p \in Procs |-> "idle"]
  /\ loc' = [p \in Procs |-> NoLocals]
  /\ UNCHANGED <<asVars, life>>
-----------------------------------------------------------------------------
(***************************************************************************)
(* How a function returns to its caller: a request is answered (handlers   *)
(* turn an error into a response, and nothing else), NewServer keeps the   *)
(* error and starts to serve, Shutdown notes it and goes on.               *)
(***************************************************************************)
Return(p, ok) ==
  /\ loc' = [loc EXCEPT ![p] = NoLocals]
  /\ IF phase = "starting"
     THEN /\ Goto(p, "wait") /\ phase' = "serving" /\ asError' = ~ok
          /\ UNCHANGED <<life, todo>>
     ELSE /\ Goto(p, IF p = Main THEN "next" ELSE "idle")
          /\ UNCHANGED <<processVars, asError>>

Fail(p) == Return(p, FALSE)

GoOn(p, l) == Goto(p, l) /\ UNCHANGED <<processVars, asError>>
Continue(p, l) == GoOn(p, l) /\ UNCHANGED loc
ContinueAs(p, c, l) == GoOn(p, l) /\ loc' = [loc EXCEPT ![p].cred = c]
ContinueWith(p, i, l) == GoOn(p, l) /\ loc' = [loc EXCEPT ![p].rid = i]

\* One call to the AS: it does its effect and the goroutine goes on with
\* then, or it fails, before or after the effect.
Refused == "refuse" \in Faults
Lost == "lose" \in Faults
Call(p, effect, none, then) ==
  \/ effect /\ then
  \/ Refused /\ none /\ Fail(p)
  \/ Lost /\ effect /\ Fail(p)

\* A PAT whose client is gone may be refused, or still be accepted.
PATRefused(p) == Refused \/ loc[p].cred # asClient

\* Mutant: an error kept from the start no longer stops the later calls.
StartFailed_mutant == FALSE

StartFailed == asError

\* authorizationResourceID
AuthorizationResourceID(n) == IF n \in DOMAIN ids THEN ids[n] ELSE n
-----------------------------------------------------------------------------
(***************************************************************************)
(* authorizationServerMetadataAndPAT: a cached PAT, or a new one for the   *)
(* registered client, or for a client registered now. The two fields are   *)
(* read in one critical section and written in two later ones.             *)
(***************************************************************************)
AfterPAT(o) == IF o = "start" THEN "sync" ELSE "call"

GetPAT(p) ==
  /\ At(p, "pat")
  /\ \/ (StartFailed \/ Refused) /\ Fail(p)
     \/ ~StartFailed /\ token # 0 /\ ContinueAs(p, token, AfterPAT(loc[p].op))
     \/ ~StartFailed /\ token = 0 /\ client # 0 /\ ContinueAs(p, client, "requestToken")
     \/ ~StartFailed /\ token = 0 /\ client = 0 /\ Continue(p, "postClient")
  /\ UNCHANGED <<client, token, ids, created, asVars>>

\* The AS keeps one client per client_uri and answers 409 to a second one.
GiveClient ==
  /\ asClient = 0 /\ lastClient < MaxClient
  /\ lastClient' = lastClient + 1 /\ asClient' = lastClient'

PostClient(p) ==
  /\ At(p, "postClient")
  /\ \/ Call(p, GiveClient, UNCHANGED <<asClient, lastClient>>, ContinueAs(p, asClient', "keepClient"))
     \/ asClient # 0 /\ Continue(p, "findClient") /\ UNCHANGED <<asClient, lastClient>>
  /\ UNCHANGED <<client, token, ids, created, resources>>

\* deleteExistingAuthorizationServerClientRegistration: GET the clients,
\* DELETE the one with this server's BaseURL, whoever registered it.
FindClient(p) ==
  /\ At(p, "findClient")
  /\ \/ asClient # 0 /\ ContinueAs(p, asClient, "dropClient")
     \/ (asClient = 0 \/ Refused) /\ Fail(p)
  /\ UNCHANGED <<client, token, ids, created, asVars>>

\* 204 and 404 are both a success.
RemoveClient(p) == asClient' = IF asClient = loc[p].cred THEN 0 ELSE asClient

DropClient(p) ==
  /\ At(p, "dropClient")
  /\ Call(p, RemoveClient(p), UNCHANGED asClient, Continue(p, "retryClient"))
  /\ UNCHANGED <<client, token, ids, created, resources, lastClient>>

RetryClient(p) ==
  /\ At(p, "retryClient")
  /\ \/ Call(p, GiveClient, UNCHANGED <<asClient, lastClient>>, ContinueAs(p, asClient', "keepClient"))
     \/ asClient # 0 /\ Fail(p) /\ UNCHANGED <<asClient, lastClient>>
  /\ UNCHANGED <<client, token, ids, created, resources>>

KeepClient(p) ==
  /\ At(p, "keepClient")
  /\ client' = loc[p].cred
  /\ Continue(p, "requestToken")
  /\ UNCHANGED <<token, ids, created, asVars>>

\* The AS gives no PAT to a client it does not know.
RequestToken(p) ==
  /\ At(p, "requestToken")
  /\ \/ asClient = loc[p].cred /\ Continue(p, "keepToken")
     \/ PATRefused(p) /\ Fail(p)
  /\ UNCHANGED <<client, token, ids, created, asVars>>

KeepToken(p) ==
  /\ At(p, "keepToken")
  /\ token' = loc[p].cred
  /\ Continue(p, AfterPAT(loc[p].op))
  /\ UNCHANGED <<client, ids, created, asVars>>
-----------------------------------------------------------------------------
(***************************************************************************)
(* registerConfiguredAuthorizationResource: POST, and on 409 a PUT to the  *)
(* id the server has for the resource, which is its URL when it has none.  *)
(***************************************************************************)
Registration(n, id) == resources' = Assign(resources, n, [id |-> id, life |-> life])
HasId(n, id) == n \in DOMAIN resources /\ resources[n].id = id

PostResource(p) ==
  LET n == loc[p].res  id == AsId(n, life) IN
  /\ At(p, "call") /\ loc[p].op = "register"
  /\ \/ /\ n \notin DOMAIN resources
        /\ Call(p, Registration(n, id), UNCHANGED resources, ContinueWith(p, id, "keepId"))
     \/ /\ n \in DOMAIN resources
        /\ ContinueWith(p, AuthorizationResourceID(n), "adopt")
        /\ UNCHANGED resources
     \/ PATRefused(p) /\ Fail(p) /\ UNCHANGED resources
  /\ UNCHANGED <<client, token, ids, created, asClient, lastClient>>

\* Mutant: the status of the PUT is not looked at.
Adopt_mutant(p) ==
  /\ At(p, "adopt")
  /\ Continue(p, "keepId")
  /\ UNCHANGED <<client, token, ids, created, asVars>>

Adopt(p) ==
  LET n == loc[p].res  id == loc[p].rid IN
  /\ At(p, "adopt")
  /\ \/ /\ HasId(n, id)
        /\ Call(p, Registration(n, id), UNCHANGED resources, Continue(p, "keepId"))
     \/ (~HasId(n, id) \/ PATRefused(p)) /\ Fail(p) /\ UNCHANGED resources
  /\ UNCHANGED <<client, token, ids, created, asClient, lastClient>>

KeepId(p) ==
  /\ At(p, "keepId")
  /\ ids' = Assign(ids, loc[p].res, loc[p].rid)
  /\ Continue(p, "sync")
  /\ UNCHANGED <<client, token, created, asVars>>

\* syncConfiguredAuthorizationPolicies, after a registration and at startup.
Sync(p) ==
  /\ At(p, "sync")
  /\ Return(p, TRUE) \/ ((Refused \/ Lost) /\ Fail(p))
  /\ UNCHANGED <<client, token, ids, created, asVars>>

(***************************************************************************)
(* updateConfiguredAuthorizationResource and                               *)
(* deleteConfiguredAuthorizationResource read the id before they get a     *)
(* PAT; what they do without one differs.                                  *)
(***************************************************************************)
\* Mutant: the id to delete is dropped when it is read, before the AS is asked.
Lookup_mutant(p) ==
  LET n == loc[p].res IN
  /\ At(p, "lookup")
  /\ \/ /\ n \in DOMAIN ids /\ ContinueWith(p, ids[n], "pat")
        /\ ids' = IF loc[p].op = "delete" THEN Drop(ids, n) ELSE ids
     \/ n \notin DOMAIN ids /\ Return(p, loc[p].op = "delete") /\ UNCHANGED ids
  /\ UNCHANGED <<client, token, created, asVars>>

Lookup(p) ==
  LET n == loc[p].res IN
  /\ At(p, "lookup")
  /\ \/ n \in DOMAIN ids /\ ContinueWith(p, ids[n], "pat")
     \/ n \notin DOMAIN ids /\ Return(p, loc[p].op = "delete")
  /\ UNCHANGED <<client, token, ids, created, asVars>>

PutResource(p) ==
  LET found == HasId(loc[p].res, loc[p].rid) IN
  /\ At(p, "call") /\ loc[p].op = "update"
  /\ \/ found /\ Return(p, TRUE)
     \/ (~found \/ PATRefused(p) \/ Lost) /\ Fail(p)
  /\ UNCHANGED <<client, token, ids, created, asVars>>

RemoveResource(p) ==
  resources' = IF HasId(loc[p].res, loc[p].rid) THEN Drop(resources, loc[p].res) ELSE resources

\* Mutant: the id is dropped whether or not the AS deleted the resource.
DeleteResource_mutant(p) ==
  /\ At(p, "call") /\ loc[p].op = "delete"
  /\ RemoveResource(p) \/ (PATRefused(p) /\ UNCHANGED resources)
  /\ Continue(p, "forget")
  /\ UNCHANGED <<client, token, ids, created, asClient, lastClient>>

DeleteResource(p) ==
  /\ At(p, "call") /\ loc[p].op = "delete"
  /\ \/ Call(p, RemoveResource(p), UNCHANGED resources, Continue(p, "forget"))
     \/ PATRefused(p) /\ Fail(p) /\ UNCHANGED resources
  /\ UNCHANGED <<client, token, ids, created, asClient, lastClient>>

Forget(p) ==
  /\ At(p, "forget")
  /\ ids' = Drop(ids, loc[p].res)
  /\ Return(p, TRUE)
  /\ UNCHANGED <<client, token, created, asVars>>

\* requestLivePermission and liveRPTIsValid change nothing themselves, but
\* they get a PAT like the others.
Ask(p) ==
  /\ At(p, "call") /\ loc[p].op = "ask"
  /\ Return(p, TRUE) \/ ((PATRefused(p) \/ Lost) /\ Fail(p))
  /\ UNCHANGED <<client, token, ids, created, asVars>>
-----------------------------------------------------------------------------
(***************************************************************************)
(* Requests. A resource is registered by one request in the life of a      *)
(* process (ids of aggregators and services are not reused), the others    *)
(* are about resources for which that has been asked.                      *)
(***************************************************************************)
\* Mutant: the listener is up before NewServer is done.
Accepting_mutant == Running

Accepting == phase = "serving" \/ (Overlap /\ phase = "cleaning")

Enter(h, o, n, l) == loc' = [loc EXCEPT ![h] = In(o, n)] /\ Goto(h, l)

Begin(h) ==
  /\ Idle(h) /\ Accepting
  /\ \E n \in Resources :
       \/ n \notin created /\ created' = created \cup {n} /\ Enter(h, "register", n, "pat")
       \/ n \in created /\ UNCHANGED created /\ Enter(h, "ask", n, "pat")
       \/ /\ n \in created /\ UNCHANGED created
          /\ \E o \in {"update", "delete"} : Enter(h, o, n, "lookup")
  /\ UNCHANGED <<client, token, asError, ids, asVars, processVars>>

\* The PAT expires (within five seconds).
Expire ==
  /\ token # 0
  /\ token' = 0
  /\ UNCHANGED <<client, asError, ids, created, asVars, processVars, pc, loc>>
-----------------------------------------------------------------------------
(***************************************************************************)
(* The main goroutine: SIGTERM, Shutdown with the resources known at that  *)
(* moment, deleted in the order of a map iteration, then the client, then  *)
(* http.Server.Shutdown, which waits for the running requests but not      *)
(* longer than ten seconds.                                                *)
(***************************************************************************)
Signal ==
  /\ phase = "serving" /\ At(Main, "wait")
  /\ Overlap \/ AllIdle
  /\ phase' = "cleaning" /\ todo' = DOMAIN ids
  /\ Goto(Main, "next")
  /\ UNCHANGED <<serverVars, asVars, life, loc>>

\* Mutant: a resource is tried again until it is deleted.
Done_mutant(n) == IF n \in DOMAIN ids THEN todo ELSE todo \ {n}

Done(n) == todo \ {n}

NextResource ==
  /\ At(Main, "next")
  /\ \/ \E n \in todo : todo' = Done(n) /\ Enter(Main, "delete", n, "lookup")
     \/ todo = {} /\ Goto(Main, "readClient") /\ UNCHANGED <<todo, loc>>
  /\ UNCHANGED <<serverVars, asVars, phase, life>>

EndCleanup ==
  /\ Goto(Main, "drain") /\ loc' = [loc EXCEPT ![Main] = NoLocals]
  /\ phase' = "draining" /\ UNCHANGED <<asError, life, todo>>

ReadClient ==
  /\ At(Main, "readClient")
  /\ IF client = 0 THEN EndCleanup ELSE ContinueAs(Main, client, "deleteClient")
  /\ UNCHANGED <<client, token, ids, created, asVars>>

\* Mutant: Shutdown leaves the client's registration for the next start.
DeleteClient_mutant ==
  /\ At(Main, "deleteClient")
  /\ EndCleanup
  /\ UNCHANGED <<client, token, ids, created, asVars>>

DeleteClient ==
  /\ At(Main, "deleteClient")
  /\ \/ RemoveClient(Main) /\ Continue(Main, "clearClient")
     \/ Refused /\ UNCHANGED asClient /\ EndCleanup
     \/ Lost /\ RemoveClient(Main) /\ EndCleanup
  /\ UNCHANGED <<client, token, ids, created, resources, lastClient>>

ClearClient ==
  /\ At(Main, "clearClient")
  /\ client' = 0 /\ token' = 0
  /\ EndCleanup
  /\ UNCHANGED <<ids, created, asVars>>

Exit == At(Main, "drain") /\ End("exited")

Crash == Running /\ End("crashed")

Start ==
  /\ ~Running /\ life < Lives
  /\ life' = life + 1 /\ phase' = "starting"
  /\ Enter(Main, "start", 0, "pat")
  /\ UNCHANGED <<serverVars, asVars, todo>>
-----------------------------------------------------------------------------
Step(p) ==
  \/ GetPAT(p) \/ PostClient(p) \/ FindClient(p) \/ DropClient(p) \/ RetryClient(p)
  \/ KeepClient(p) \/ RequestToken(p) \/ KeepToken(p)
  \/ PostResource(p) \/ Adopt(p) \/ KeepId(p) \/ Sync(p)
  \/ Lookup(p) \/ PutResource(p) \/ DeleteResource(p) \/ Forget(p) \/ Ask(p)

Cleanup == NextResource \/ ReadClient \/ DeleteClient \/ ClearClient \/ Exit

Action ==
  \/ /\ Running
     /\ \/ \E p \in Procs \ silent : Step(p)
        \/ \E h \in Handlers : Begin(h)
        \/ Main \notin silent /\ Cleanup
        \/ Expire \/ Signal \/ Crash
  \/ Start

\* A call to the AS that never returns: AccountHTTPClient is nil unless it is
\* configured, and http.DefaultClient, used then, has no timeout.
CallLabels ==
  {"pat", "postClient", "findClient", "dropClient", "retryClient", "requestToken",
   "call", "adopt", "sync", "deleteClient"}

NoAnswer ==
  /\ "silence" \in Faults /\ Running
  /\ \E p \in {q \in Procs : pc[q] \in CallLabels} : silent' = silent \cup {p}
  /\ UNCHANGED <<stateVars, snapshot>>

\* What the properties remember of a shutdown.
Remember ==
  snapshot' =
    CASE phase = "serving" /\ phase' = "cleaning" ->
           [names |-> DOMAIN ids, client |-> client, alone |-> AllIdle]
      [] phase' = "starting" -> NoSnapshot
      [] OTHER -> [snapshot EXCEPT !.alone = @ /\ (phase = "cleaning" => AllIdle')]

Proceed(A) == A /\ silent' = {p \in silent : Running'} /\ Remember

Next == Proceed(Action) \/ NoAnswer

Spec == Init /\ [][Next]_vars

(***************************************************************************)
(* A goroutine whose call was not met with silence takes the step it can   *)
(* take. Nothing obliges the AS to answer, a client to send a request, an  *)
(* operator to send SIGTERM or anybody to start the process again.         *)
(***************************************************************************)
FairSpec ==
  /\ Spec
  /\ \A p \in Procs : WF_vars(Proceed(Running /\ p \notin silent /\ Step(p)))
  /\ WF_vars(Proceed(Running /\ Main \notin silent /\ Cleanup))
-----------------------------------------------------------------------------
(***************************************************************************)
(* Properties                                                              *)
(***************************************************************************)
FieldsType ==
  /\ client \in Clients \cup {0} /\ token \in Clients \cup {0}
  /\ asClient \in Clients \cup {0} /\ lastClient \in 0 .. MaxClient
  /\ created \subseteq Resources
  /\ DOMAIN ids \subseteq Resources /\ ids \in [DOMAIN ids -> AsIds]
  /\ DOMAIN resources \subseteq Resources
  /\ \A n \in DOMAIN resources : resources[n] \in [id : AsIds, life : 1 .. life]
  /\ life \in Nat \ {0}

ResourceLabels == {"lookup", "adopt", "keepId", "forget"}

GoroutinesType ==
  /\ phase \in Phases /\ todo \subseteq Resources
  /\ pc \in [Procs -> Labels]
  /\ loc \in [Procs -> Locals]
  /\ phase \in {"starting", "exited", "crashed"} => AllIdle
  /\ \A p \in Procs :
       /\ loc[p].op \in ResourceOps => loc[p].res \in Resources
       /\ pc[p] \in ResourceLabels => loc[p].op \in ResourceOps
       /\ pc[p] \in {"adopt", "keepId"} => loc[p].rid \in AsIds

StateType == FieldsType /\ GoroutinesType /\ asError \in BOOLEAN

\* Every variable has its type, no request runs before the process serves,
\* and who works on a resource has one.
TypeOK == StateType /\ silent \subseteq Procs /\ snapshot \in Snapshots

\* The credentials the server works with are those of the client the AS has
\* registered for it, from NewServer until Shutdown deletes that client:
\* protectionAPIAuthorization decides without the lock, but no two requests
\* ever register over each other, whatever fails and whenever the PAT expires.
BeforeClientIsDeleted ==
  phase \in {"starting", "serving"} \/ (phase = "cleaning" /\ pc[Main] # "clearClient")

ClientIsRegistered ==
  BeforeClientIsDeleted => {client, token} \subseteq {0, asClient}

(***************************************************************************)
(* Why ClientIsRegistered holds: NewServer has registered the client, or   *)
(* noted that it could not, before there is any request, so that until     *)
(* Shutdown clears it no request finds the client missing and goes on to   *)
(* register one. An inductive invariant together with StateType.              *)
(***************************************************************************)
StartComesFirst ==
  /\ phase = "starting" =>
       /\ loc[Main].op = "start"
       /\ pc[Main] \in {"pat", "requestToken", "keepToken", "sync"} \cup RegisteringLabels
       /\ pc[Main] \in RegisteringLabels => client = 0
       /\ pc[Main] = "sync" => client # 0
  /\ phase = "serving" => pc[Main] = "wait"
  /\ ~Running => client = 0 /\ token = 0 /\ \A p \in Procs : Idle(p)

OnlyStartRegisters ==
  BeforeClientIsDeleted =>
    /\ phase # "starting" /\ ~asError => client # 0
    /\ \A p \in Procs :
         /\ pc[p] \in RegisteringLabels => p = Main /\ phase = "starting"
         /\ pc[p] = "keepClient" => loc[p].cred # 0 /\ loc[p].cred = asClient
         /\ pc[p] \in {"requestToken", "keepToken"} => client # 0 /\ loc[p].cred = client
    /\ token # 0 => token = client

CredentialsInv == StateType /\ StartComesFirst /\ OnlyStartRegisters /\ ClientIsRegistered

\* A resource is never known under another id than the one the AS has for it,
\* so that no update and no deletion goes to another resource: not after a
\* 409 and the PUT to a guessed id, not after a restart that lost the ids.
NoWrongId ==
  \A n \in DOMAIN ids \cap DOMAIN resources : resources[n].id = ids[n]

\* Why NoWrongId holds: a resource has one registrar in the life of a process,
\* and it has no id, here, before that one stores the id it got.
OneRegistrar ==
  /\ DOMAIN ids \subseteq created
  /\ \A p \in Procs :
       /\ loc[p].op = "register" => loc[p].res \in created
       /\ loc[p].op = "register" /\ pc[p] # "sync" => loc[p].res \notin DOMAIN ids
       /\ pc[p] \in {"adopt", "keepId"} => loc[p].op = "register"
       /\ pc[p] = "keepId" /\ loc[p].res \in DOMAIN resources =>
            resources[loc[p].res].id = loc[p].rid
       /\ \A q \in Procs :
            loc[p].op = "register" /\ loc[q].op = "register" /\ loc[p].res = loc[q].res => p = q

RegistrationInv == StateType /\ OneRegistrar /\ NoWrongId

IInv == CredentialsInv /\ RegistrationInv

\* Nor does the server act on an answer of the AS that no longer holds: the
\* resource it stores an id for is registered under that id, and the one whose
\* id it drops is not. In between the lock is free and other requests run.
AnswersStand ==
  /\ NoWrongId
  /\ \A p \in Procs :
       LET n == loc[p].res
           standing == n \in DOMAIN resources /\ resources[n].life = life
       IN  /\ At(p, "keepId") => standing /\ resources[n].id = loc[p].rid
           /\ At(p, "forget") => ~standing

\* What this process registered at the AS is known to it, and so within the
\* reach of Shutdown, unless the answer to the registration got lost.
NothingForgotten ==
  Running => \A n \in DOMAIN resources : resources[n].life = life =>
    \/ n \in DOMAIN ids
    \/ \E p \in Procs : At(p, "keepId") /\ loc[p].res = n

\* What the server knew when SIGTERM came is gone at the AS when the process
\* ends, whatever requests run beside Shutdown, arrive after its snapshot,
\* delete the same resources or register a client of their own. When none
\* did, nothing at all of the process is left (authorization_server_test.go).
OfThisLife(n) == n \in DOMAIN resources /\ resources[n].life = life

ShutdownCleansUp ==
  phase = "exited" =>
    /\ asClient # snapshot.client /\ \A n \in snapshot.names : ~OfThisLife(n)
    /\ snapshot.alone => asClient = 0 /\ \A n \in Resources : ~OfThisLife(n)

\* A process that starts with a working AS serves with a client, also when an
\* earlier one crashed, at whatever point, and left its client behind.
StartIsReady == phase = "serving" => ~asError /\ client # 0 /\ client = asClient

\* Shutdown ends unless one of its own calls gets no answer at all: no error,
\* no request beside it and no silence met by a request keeps it alive. (A
\* request that meets silence while it holds mu is a matter of
\* AggregatorServer: nothing here calls the AS with mu held.)
ShutdownEnds == phase = "cleaning" ~> (~Running \/ Main \in silent)

(***************************************************************************)
(* ProtectionAPI implements ResourceRegistry. A registration has its       *)
(* effect when its id is stored, a deletion when the AS deletes the        *)
(* resource or, for one the server has no id for, when that is found out.  *)
(* No call fails when the AS works, no request runs beside Shutdown and a  *)
(* 409 leads to the resource by its name.                                  *)
(***************************************************************************)
Held == {n \in DOMAIN ids \cap DOMAIN resources : resources[n].life = life}

BeforeEffect(p) ==
  \/ loc[p].op = "register" /\ pc[p] # "sync"
  \/ loc[p].op = "delete" /\ pc[p] # "forget"

Pending(p) == IF BeforeEffect(p) THEN <<loc[p].op, loc[p].res>> ELSE <<>>

CallsMayFail == Faults # {} \/ Overlap \/ ~NamesAreIds

Registry == INSTANCE ResourceRegistry WITH
  Names <- Resources,
  MayFail <- CallsMayFail,
  registered <- Held,
  pending <- [p \in Procs |-> Pending(p)]

\* The calls of the handlers and of Shutdown are calls of that registry: one
\* resource, one moment, or an error, whatever requests run beside them.
ImplementsRegistry == Registry!Spec
=============================================================================
