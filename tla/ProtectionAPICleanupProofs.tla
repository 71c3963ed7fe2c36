---------------------- MODULE ProtectionAPICleanupProofs ----------------------
(***************************************************************************)
(* Theorems about ProtectionAPI in the modes in which a start and a        *)
(* shutdown keep what they promise. Unless an answer of the AS gets lost,  *)
(* the server knows all that it registered. When no call fails, a start    *)
(* ends with the client of this server registered, whatever an earlier     *)
(* process left, and Shutdown leaves nothing at the AS of what it found,   *)
(* whatever requests run beside it.                                        *)
(***************************************************************************)
EXTENDS ProtectionAPIProofs

\* Where a goroutine is when it is in no call.
OutsideLabels == {"idle", "wait", "next", "readClient", "deleteClient", "clearClient", "drain"}

\* Who deletes a resource works with the id the AS has for it, since the one
\* request that registered it in this life has stored that id, and drops the
\* id from the map only when the AS has no resource of this life under it.
DeletersKnow ==
  \A p \in Procs :
    /\ pc[p] = "forget" => loc[p].op = "delete"
    /\ loc[p].op = "delete" /\ pc[p] \notin {"idle", "lookup"} =>
         /\ loc[p].res \in created
         /\ \A q \in Procs : loc[q].op = "register" /\ loc[q].res = loc[p].res => pc[q] = "sync"
         /\ OfThisLife(loc[p].res) => pc[p] # "forget" /\ resources[loc[p].res].id = loc[p].rid

DeletersInv == IInv /\ DeletersKnow

KnownInv == DeletersInv /\ NothingForgotten

\* NewServer takes over, or replaces, the client an earlier process left.
StartSucceeds ==
  /\ ~asError
  /\ phase = "starting" =>
       /\ pc[Main] = "findClient" => asClient # 0
       /\ pc[Main] = "dropClient" => loc[Main].cred = asClient
       /\ pc[Main] = "retryClient" => asClient = 0

ReadyInv == CredentialsInv /\ StartSucceeds

\* Where the main goroutine is while Shutdown runs, and that nothing keeps it
\* from deleting until the client is gone.
DeletingLabels == {"lookup", "pat", "requestToken", "keepToken", "call"}

ShutdownProgress ==
  /\ phase = "cleaning" =>
       /\ pc[Main] \in DeletingLabels \cup
            {"next", "forget", "readClient", "deleteClient", "clearClient"}
       /\ pc[Main] \in DeletingLabels \cup {"forget"} => loc[Main].op = "delete"
       /\ pc[Main] \in {"call", "deleteClient"} => loc[Main].cred = asClient
       /\ pc[Main] \in {"readClient", "deleteClient", "clearClient"} => todo = {}
  /\ phase = "draining" => pc[Main] = "drain"
  /\ ~Overlap /\ phase \in {"cleaning", "draining"} => AllIdle

CleanInv == KnownInv /\ ReadyInv /\ ShutdownProgress
-----------------------------------------------------------------------------
(***************************************************************************)
(* What a step of a goroutine changes                                      *)
(***************************************************************************)
\* It changes its own locals, and keeps its operation and resource until it
\* returns.
LEMMA StepIsOwn ==
  ASSUME StateType, NEW p \in Procs, Step(p)
  PROVE  /\ \A q \in Procs : q # p => pc'[q] = pc[q] /\ loc'[q] = loc[q]
         /\ UNCHANGED <<life, created, todo>>
         /\ pc[p] \notin {"idle", "wait", "next"}
         /\ \/ loc'[p] = NoLocals /\ pc'[p] \in {"wait", "next", "idle"}
            \/ /\ loc'[p].op = loc[p].op /\ loc'[p].res = loc[p].res
               /\ pc'[p] \notin OutsideLabels \cup {"lookup"}
               /\ pc[p] \notin {"call", "lookup"} => loc'[p].rid = loc[p].rid
         /\ pc[p] = "sync" => loc'[p] = NoLocals
         /\ pc[p] = "call" /\ loc[p].op = "delete" =>
              loc'[p].rid = loc[p].rid \/ loc'[p] = NoLocals
         /\ phase' = phase \/ (phase = "starting" /\ phase' = "serving" /\ pc'[p] = "wait")
<1> USE DEF Return, Fail, GoOn, Continue, ContinueAs, ContinueWith, Goto, Call, processVars,
    asVars, At, StateType, GoroutinesType, Locals, AfterPAT, OutsideLabels
<1>1. CASE GetPAT(p)
  BY <1>1 DEF GetPAT
<1>2. CASE PostClient(p)
  BY <1>2 DEF PostClient
<1>3. CASE FindClient(p)
  BY <1>3 DEF FindClient
<1>4. CASE DropClient(p)
  BY <1>4 DEF DropClient
<1>5. CASE RetryClient(p)
  BY <1>5 DEF RetryClient
<1>6. CASE KeepClient(p)
  BY <1>6 DEF KeepClient
<1>7. CASE RequestToken(p)
  BY <1>7 DEF RequestToken
<1>8. CASE KeepToken(p)
  BY <1>8 DEF KeepToken
<1>9. CASE PostResource(p)
  BY <1>9 DEF PostResource
<1>10. CASE Adopt(p)
  BY <1>10 DEF Adopt
<1>11. CASE KeepId(p)
  BY <1>11 DEF KeepId
<1>12. CASE Sync(p)
  BY <1>12 DEF Sync
<1>13. CASE Lookup(p)
  BY <1>13 DEF Lookup
<1>14. CASE PutResource(p)
  BY <1>14 DEF PutResource
<1>15. CASE DeleteResource(p)
  BY <1>15 DEF DeleteResource
<1>16. CASE Forget(p)
  BY <1>16 DEF Forget
<1>17. CASE Ask(p)
  BY <1>17 DEF Ask
<1> QED
  BY <1>1, <1>2, <1>3, <1>4, <1>5, <1>6, <1>7, <1>8, <1>9, <1>10, <1>11, <1>12, <1>13,
      <1>14, <1>15, <1>16, <1>17
  DEF Step

\* It changes what is registered, here or at the AS, in four ways.
NewId(p) == IF pc[p] = "call" THEN AsId(loc[p].res, life) ELSE loc[p].rid

RegistersAtAS(p) ==
  /\ loc[p].op = "register" /\ pc[p] \in {"call", "adopt"}
  /\ resources' = Assign(resources, loc[p].res, [id |-> NewId(p), life |-> life])
  /\ UNCHANGED ids

Registers(p) ==
  /\ RegistersAtAS(p)
  /\ pc'[p] = "keepId" /\ loc'[p].op = "register" /\ loc'[p].res = loc[p].res
  /\ loc'[p].rid = NewId(p)

Stores(p) ==
  /\ loc[p].op = "register" /\ pc[p] = "keepId"
  /\ pc'[p] = "sync" /\ loc'[p] = loc[p]
  /\ ids' = Assign(ids, loc[p].res, loc[p].rid)
  /\ UNCHANGED resources

Deletes(p) ==
  /\ loc[p].op = "delete" /\ pc[p] = "call"
  /\ pc'[p] = "forget" /\ loc'[p] = loc[p]
  /\ RemoveResource(p)
  /\ UNCHANGED ids

Forgets(p) ==
  /\ pc[p] = "forget"
  /\ loc'[p] = NoLocals /\ pc'[p] \in {"wait", "next", "idle"}
  /\ ids' = Drop(ids, loc[p].res)
  /\ UNCHANGED resources

\* When the answer to a registration or a deletion is lost, the call ends there.
Loses(p) ==
  /\ Lost /\ loc'[p] = NoLocals /\ pc'[p] \in {"wait", "next", "idle"}
  /\ \/ RegistersAtAS(p)
     \/ loc[p].op = "delete" /\ pc[p] = "call" /\ RemoveResource(p) /\ UNCHANGED ids

Rests(p) ==
  /\ UNCHANGED <<resources, ids>>
  /\ {pc[p], pc'[p]} \cap {"keepId", "forget"} = {}
  /\ loc'[p].op \in {"register", "delete"} => pc'[p] # "sync"
  /\ pc'[p] = "adopt" =>
       /\ loc'[p].rid = AuthorizationResourceID(loc[p].res) /\ loc[p].op = "register"
       /\ loc[p].res \in DOMAIN resources

\* A step is one of these, and otherwise neither side of the registry moves.
LEMMA RegistryMoves ==
  ASSUME StateType, OneRegistrar, NEW p \in Procs, Step(p)
  PROVE  Registers(p) \/ Stores(p) \/ Deletes(p) \/ Forgets(p) \/ Loses(p) \/ Rests(p)
<1> USE DEF Registers, RegistersAtAS, NewId, Stores, Deletes, Forgets, Loses, Rests, NoLocals,
    In, OneRegistrar, Lost, Return, Fail, GoOn,
    Continue, ContinueAs, ContinueWith, Goto, Call, processVars, asVars, At, StateType,
    GoroutinesType, Locals, AfterPAT
<1>1. CASE GetPAT(p)
  BY <1>1 DEF GetPAT
<1>2. CASE PostClient(p)
  BY <1>2 DEF PostClient
<1>3. CASE FindClient(p)
  BY <1>3 DEF FindClient
<1>4. CASE DropClient(p)
  BY <1>4 DEF DropClient
<1>5. CASE RetryClient(p)
  BY <1>5 DEF RetryClient
<1>6. CASE KeepClient(p)
  BY <1>6 DEF KeepClient
<1>7. CASE RequestToken(p)
  BY <1>7 DEF RequestToken
<1>8. CASE KeepToken(p)
  BY <1>8 DEF KeepToken
<1>9. CASE PostResource(p)
  BY <1>9 DEF PostResource, Registration
<1>10. CASE Adopt(p)
  BY <1>10 DEF Adopt, Registration
<1>11. CASE KeepId(p)
  BY <1>11 DEF KeepId
<1>12. CASE Sync(p)
  BY <1>12 DEF Sync
<1>13. CASE Lookup(p)
  BY <1>13 DEF Lookup
<1>14. CASE PutResource(p)
  BY <1>14 DEF PutResource
<1>15. CASE DeleteResource(p)
  BY <1>15 DEF DeleteResource
<1>16. CASE Forget(p)
  BY <1>16 DEF Forget
<1>17. CASE Ask(p)
  BY <1>17 DEF Ask
<1> QED
  BY <1>1, <1>2, <1>3, <1>4, <1>5, <1>6, <1>7, <1>8, <1>9, <1>10, <1>11, <1>12, <1>13,
      <1>14, <1>15, <1>16, <1>17
  DEF Step

\* An update or a deletion goes on with the id the server has.
LEMMA LookupFinds ==
  ASSUME StateType, NEW p \in Procs, Step(p), pc[p] = "lookup"
  PROVE  \/ loc'[p] = NoLocals
         \/ /\ loc[p].res \in DOMAIN ids /\ loc'[p].rid = ids[loc[p].res]
            /\ UNCHANGED <<resources, ids>>
<1> USE DEF Return, Fail, GoOn, Continue, ContinueAs, ContinueWith, Goto, Call, processVars,
    asVars, At, StateType, GoroutinesType, Locals
<1>1. CASE GetPAT(p)
  BY <1>1 DEF GetPAT
<1>2. CASE PostClient(p)
  BY <1>2 DEF PostClient
<1>3. CASE FindClient(p)
  BY <1>3 DEF FindClient
<1>4. CASE DropClient(p)
  BY <1>4 DEF DropClient
<1>5. CASE RetryClient(p)
  BY <1>5 DEF RetryClient
<1>6. CASE KeepClient(p)
  BY <1>6 DEF KeepClient
<1>7. CASE RequestToken(p)
  BY <1>7 DEF RequestToken
<1>8. CASE KeepToken(p)
  BY <1>8 DEF KeepToken
<1>9. CASE PostResource(p)
  BY <1>9 DEF PostResource
<1>10. CASE Adopt(p)
  BY <1>10 DEF Adopt
<1>11. CASE KeepId(p)
  BY <1>11 DEF KeepId
<1>12. CASE Sync(p)
  BY <1>12 DEF Sync
<1>13. CASE Lookup(p)
  BY <1>13 DEF Lookup
<1>14. CASE PutResource(p)
  BY <1>14 DEF PutResource
<1>15. CASE DeleteResource(p)
  BY <1>15 DEF DeleteResource
<1>16. CASE Forget(p)
  BY <1>16 DEF Forget
<1>17. CASE Ask(p)
  BY <1>17 DEF Ask
<1> QED
  BY <1>1, <1>2, <1>3, <1>4, <1>5, <1>6, <1>7, <1>8, <1>9, <1>10, <1>11, <1>12, <1>13,
      <1>14, <1>15, <1>16, <1>17
  DEF Step
-----------------------------------------------------------------------------
(***************************************************************************)
(* What the server registered it knows                                     *)
(***************************************************************************)
\* The steps of other goroutines and the main one that make, or delete, no
\* registration: they leave what is registered, and of one goroutine, at most,
\* the locals.
Aside(p) ==
  /\ UNCHANGED <<resources, ids, life>>
  /\ \A q \in Procs : q # p => pc'[q] = pc[q] /\ loc'[q] = loc[q]
  /\ pc[p] \notin {"keepId", "forget"} /\ pc'[p] \notin {"keepId", "forget"}
  /\ created \subseteq created'
  /\ \/ /\ loc'[p].op = loc[p].op /\ loc'[p].res = loc[p].res /\ loc'[p].rid = loc[p].rid
        /\ pc[p] \notin {"idle", "lookup", "sync"}
     \/ loc'[p].op \notin {"register", "delete"}
     \/ loc'[p].op = "register" /\ loc'[p].res \notin created
     \/ loc'[p].op = "delete" /\ pc'[p] = "lookup"

\* SIGTERM and the steps of Shutdown between two deletions are aside.
LEMMA MainIsAside ==
  ASSUME StateType, Signal \/ NextResource \/ ReadClient \/ DeleteClient \/ ClearClient
  PROVE  Aside(Main)
<1> USE DEF Aside, Procs, StateType, GoroutinesType, Locals, Goto, At, EndCleanup, NoLocals,
    In, Continue, ContinueAs, GoOn, serverVars, asVars, processVars
<1>1. CASE Signal
  BY <1>1 DEF Signal
<1>2. CASE NextResource
  BY <1>2 DEF NextResource, Enter
<1>3. CASE ReadClient
  BY <1>3 DEF ReadClient
<1>4. CASE DeleteClient
  BY <1>4 DEF DeleteClient
<1>5. CASE ClearClient
  BY <1>5 DEF ClearClient
<1> QED
  BY <1>1, <1>2, <1>3, <1>4, <1>5

\* So is a request that arrives: it registers a name that is not registered yet,
\* or looks up the id it is to delete.
LEMMA BeginIsAside ==
  ASSUME StateType, NEW h \in Handlers, Begin(h)
  PROVE  Aside(h)
<1>1. PICK o \in ResourceOps, n \in Resources, l \in {"pat", "lookup"} :
        /\ Enter(h, o, n, l)
        /\ o = "register" => n \notin created
        /\ o = "delete" => l = "lookup"
  BY DEF Begin, ResourceOps
<1>2. loc'[h].op = o /\ loc'[h].res = n /\ pc'[h] = l
  BY <1>1 DEF Enter, Goto, In, StateType, GoroutinesType, Procs
<1>3. /\ UNCHANGED <<resources, ids, life>> /\ created \subseteq created' /\ pc[h] = "idle"
      /\ \A q \in Procs : q # h => pc'[q] = pc[q] /\ loc'[q] = loc[q]
  BY <1>1 DEF Begin, Enter, Goto, Idle, StateType, GoroutinesType, Procs, asVars, processVars
<1> QED
  BY <1>1, <1>2, <1>3 DEF Aside

\* Such steps keep what deleters know.
LEMMA AsideKeeps ==
  ASSUME StateType, DeletersKnow, NEW p \in Procs, Aside(p)
  PROVE  DeletersKnow'
<1> USE DEF Aside
<1>1. ASSUME NEW q \in Procs, pc'[q] = "forget" PROVE loc'[q].op = "delete"
  BY <1>1 DEF DeletersKnow
<1>2. ASSUME NEW q \in Procs, loc'[q].op = "delete", pc'[q] \notin {"idle", "lookup"}
      PROVE  /\ loc[q].op = "delete" /\ pc[q] \notin {"idle", "lookup"}
             /\ loc'[q].res = loc[q].res /\ loc'[q].rid = loc[q].rid
             /\ pc'[q] # "forget" \/ pc[q] = "forget"
  BY <1>2
<1>3. ASSUME NEW q \in Procs, loc'[q].op = "delete", pc'[q] \notin {"idle", "lookup"},
             NEW x \in Procs, loc'[x].op = "register", loc'[x].res = loc'[q].res
      PROVE  pc'[x] = "sync"
  <2>1. loc[q].res \in created
    BY <1>2, <1>3 DEF DeletersKnow
  <2>2. CASE x = p
    <3>1. loc[x].op = "register" /\ loc[x].res = loc[q].res /\ pc[x] # "sync"
      BY <1>2, <1>3, <2>1, <2>2
    <3> QED
      BY <1>2, <1>3, <3>1 DEF DeletersKnow
  <2>3. CASE x # p
    BY <1>2, <1>3, <2>3 DEF DeletersKnow
  <2> QED
    BY <2>2, <2>3
<1>4. ASSUME NEW q \in Procs, loc'[q].op = "delete", pc'[q] \notin {"idle", "lookup"}
      PROVE  /\ loc'[q].res \in created'
             /\ OfThisLife(loc[q].res)' =>
                  pc'[q] # "forget" /\ resources'[loc'[q].res].id = loc'[q].rid
  BY <1>2, <1>4 DEF DeletersKnow, OfThisLife
<1> QED
  BY <1>1, <1>2, <1>3, <1>4 DEF DeletersKnow, OfThisLife

\* They keep what the server remembers as well.
LEMMA AsideRemembers ==
  ASSUME StateType, NothingForgotten, Running, NEW p \in Procs, Aside(p)
  PROVE  NothingForgotten'
BY DEF Aside, NothingForgotten, At

\* A deleter goes on with the id it looked up; no one registers its resource
\* again, and it has removed it at the AS before it forgets the id.
LEMMA DeletersKnowStep ==
  ASSUME StateType, OneRegistrar, NoWrongId, DeletersKnow, NEW p \in Procs, Step(p)
  PROVE  DeletersKnow'
<1>1. ASSUME NEW q \in Procs, pc'[q] = "forget" PROVE loc'[q].op = "delete"
  <2>1. CASE q = p
    BY <1>1, <2>1, RegistryMoves
    DEF Registers, Stores, Deletes, Forgets, Loses, Rests, NoLocals, In
  <2>2. CASE q # p
    BY <1>1, <2>2, StepIsOwn DEF DeletersKnow
  <2> QED
    BY <2>1, <2>2
<1> SUFFICES ASSUME NEW q \in Procs, loc'[q].op = "delete", pc'[q] \notin {"idle", "lookup"}
             PROVE  /\ loc'[q].res \in created'
                    /\ \A x \in Procs :
                         loc'[x].op = "register" /\ loc'[x].res = loc'[q].res => pc'[x] = "sync"
                    /\ OfThisLife(loc[q].res)' =>
                         pc'[q] # "forget" /\ resources'[loc'[q].res].id = loc'[q].rid
  BY <1>1 DEF DeletersKnow
<1>2. loc[q].op = "delete" /\ loc'[q].res = loc[q].res
  BY StepIsOwn DEF NoLocals, In
<1>3. PICK n : n = loc[q].res
  OBVIOUS
<1>4. /\ n \in created
      /\ \A x \in Procs : loc[x].op = "register" /\ loc[x].res = n => pc[x] = "sync"
      /\ OfThisLife(n) =>
           /\ pc[q] # "forget"
           /\ resources[n].id = IF pc[q] = "lookup" THEN ids[n] ELSE loc[q].rid
  <2>1. CASE pc[q] = "lookup"
    <3>1. q = p
      BY <2>1, StepIsOwn
    <3>2. n \in DOMAIN ids
      BY <1>3, <2>1, <3>1, LookupFinds DEF NoLocals, In
    <3> QED
      BY <1>3, <2>1, <3>2 DEF OneRegistrar, NoWrongId, OfThisLife
  <2>2. CASE pc[q] # "lookup"
    <3>1. pc[q] # "idle"
      BY StepIsOwn
    <3> QED
      BY <1>2, <1>3, <2>2, <3>1 DEF DeletersKnow
  <2> QED
    BY <2>1, <2>2
<1>5. ASSUME NEW x \in Procs, loc'[x].op = "register", loc'[x].res = n PROVE pc'[x] = "sync"
  <2>1. loc[x].op = "register" /\ loc[x].res = n
    BY <1>5, StepIsOwn DEF NoLocals, In
  <2>2. pc[x] = "sync"
    BY <1>4, <2>1
  <2>3. x # p
    BY <1>5, <2>2, StepIsOwn DEF NoLocals, In
  <2> QED
    BY <2>2, <2>3, StepIsOwn
<1>6. ASSUME OfThisLife(n)' PROVE pc'[q] # "forget" /\ resources'[n].id = loc'[q].rid
  <2>1. ~(RegistersAtAS(p) /\ loc[p].res = n)
    BY <1>4 DEF RegistersAtAS
  <2>2. OfThisLife(n) /\ resources'[n] = resources[n]
    <3>1. n \in DOMAIN resources' /\ resources'[n].life = life
      BY <1>6, StepIsOwn DEF OfThisLife
    <3>2. CASE RegistersAtAS(p)
      BY <2>1, <3>1, <3>2 DEF OfThisLife, RegistersAtAS, Assign
    <3>3. CASE RemoveResource(p)
      BY <3>1, <3>3 DEF OfThisLife, RemoveResource, Drop
    <3>4. CASE UNCHANGED resources
      BY <3>1, <3>4 DEF OfThisLife
    <3> QED
      BY <3>2, <3>3, <3>4, RegistryMoves
      DEF Registers, Stores, Deletes, Forgets, Loses, Rests
  <2>3. CASE q # p
    <3>1. pc[q] # "lookup" /\ pc'[q] = pc[q] /\ loc'[q] = loc[q]
      BY <2>3, StepIsOwn
    <3> QED
      BY <1>4, <2>2, <3>1
  <2>4. CASE q = p /\ pc[p] = "lookup"
    <3>1. loc'[q].rid = ids[n]
      BY <1>3, <2>4, LookupFinds DEF NoLocals, In
    <3>2. pc'[q] # "forget"
      BY <2>4, RegistryMoves
      DEF Registers, RegistersAtAS, Stores, Deletes, Forgets, Loses, Rests
    <3> QED
      BY <1>4, <2>2, <2>4, <3>1, <3>2
  <2>5. CASE q = p /\ pc[p] # "lookup"
    <3>1. loc'[p].rid = loc[p].rid
      BY <1>2, <2>5, StepIsOwn DEF NoLocals, In
    <3>2. ~Deletes(p)
      BY <1>3, <1>4, <1>6, <2>2, <2>5 DEF Deletes, RemoveResource, HasId, Drop, OfThisLife
    <3>3. pc'[p] # "forget"
      BY <3>2, RegistryMoves DEF Registers, Stores, Forgets, Loses, Rests
    <3> QED
      BY <1>4, <2>2, <2>5, <3>1, <3>3
  <2> QED
    BY <2>3, <2>4, <2>5
<1> QED
  BY <1>2, <1>3, <1>4, <1>5, <1>6, StepIsOwn DEF OfThisLife

\* A registration made in this life is stored here next, and dropped from here
\* only when it is gone from the AS.
LEMMA NothingForgottenStep ==
  ASSUME StateType, OneRegistrar, DeletersKnow, NothingForgotten, Running, "lose" \notin Faults,
         NEW p \in Procs, Step(p)
  PROVE  NothingForgotten'
<1> SUFFICES ASSUME NEW n \in DOMAIN resources', resources'[n].life = life
             PROVE  n \in DOMAIN ids' \/ \E q \in Procs : pc'[q] = "keepId" /\ loc'[q].res = n
  BY StepIsOwn DEF NothingForgotten, At
<1>0. Registers(p) \/ Stores(p) \/ Deletes(p) \/ Forgets(p) \/ Rests(p)
  BY RegistryMoves DEF Loses, Lost
<1>1. CASE Registers(p) /\ loc[p].res = n
  BY <1>1 DEF Registers
<1>2. CASE ~(Registers(p) /\ loc[p].res = n)
  <2>1. OfThisLife(n)
    <3>1. CASE Registers(p)
      BY <1>2, <3>1 DEF OfThisLife, Registers, RegistersAtAS, Assign
    <3>2. CASE Deletes(p)
      BY <3>2 DEF OfThisLife, Deletes, RemoveResource, Drop
    <3>3. CASE UNCHANGED resources
      BY <3>3 DEF OfThisLife
    <3> QED
      BY <1>0, <3>1, <3>2, <3>3 DEF Stores, Forgets, Rests
  <2>2. CASE n \in DOMAIN ids
    <3>1. ~(Forgets(p) /\ loc[p].res = n)
      BY <2>1 DEF Forgets, DeletersKnow
    <3> QED
      BY <1>0, <2>2, <3>1
      DEF Registers, RegistersAtAS, Stores, Deletes, Forgets, Rests, Assign, Drop
  <2>3. ASSUME NEW q \in Procs, pc[q] = "keepId", loc[q].res = n
        PROVE  n \in DOMAIN ids' \/ (pc'[q] = "keepId" /\ loc'[q].res = n)
    <3>1. CASE q = p
      BY <1>0, <2>3, <3>1
      DEF Registers, RegistersAtAS, Stores, Deletes, Forgets, Rests, Assign
    <3>2. CASE q # p
      BY <2>3, <3>2, StepIsOwn
    <3> QED
      BY <3>1, <3>2
  <2> QED
    BY <2>1, <2>2, <2>3 DEF NothingForgotten, OfThisLife, At
<1> QED
  BY <1>1, <1>2

\* Before the first start no one deletes.
LEMMA DeletersInit == Init => DeletersInv
<1> SUFFICES ASSUME Init PROVE DeletersInv
  OBVIOUS
<1>1. IInv
  BY CredentialsInit, RegistrationInit DEF IInv
<1>2. DeletersKnow
  BY DEF Init, DeletersKnow, NoLocals, In, Procs
<1> QED
  BY <1>1, <1>2 DEF DeletersInv

\* The end of a process ends its deletions, and a start begins none.
LEMMA DeletersStep == DeletersInv /\ [Action]_stateVars => DeletersInv'
<1> SUFFICES ASSUME DeletersInv, [Action]_stateVars PROVE DeletersKnow'
  <2>1. DeletersInv /\ [Action]_stateVars => IInv'
    BY CredentialsStep, RegistrationStep DEF DeletersInv, IInv
  <2> QED
    BY <2>1 DEF DeletersInv
<1>0. StateType /\ OneRegistrar /\ NoWrongId /\ StartComesFirst /\ DeletersKnow
  BY DEF DeletersInv, IInv, CredentialsInv, RegistrationInv
<1>2. ASSUME NEW p \in Procs, Step(p) PROVE DeletersKnow'
  BY <1>0, <1>2, DeletersKnowStep
<1>3. ASSUME NEW h \in Handlers, Begin(h) PROVE DeletersKnow'
  BY <1>0, <1>3, BeginIsAside, AsideKeeps DEF Procs
<1>4. CASE Signal \/ NextResource \/ ReadClient \/ DeleteClient \/ ClearClient
  BY <1>0, <1>4, MainIsAside, AsideKeeps DEF Procs
<1>5. CASE Expire \/ UNCHANGED stateVars
  <2>1. UNCHANGED <<resources, life, created, pc, loc>>
    BY <1>5 DEF Expire, stateVars, serverVars, asVars, processVars
  <2> QED
    BY <1>0, <2>1 DEF DeletersKnow, OfThisLife
<1>6. CASE Exit \/ Crash
  <2>1. \A p \in Procs : pc'[p] = "idle" /\ loc'[p] = NoLocals
    BY <1>6 DEF Exit, Crash, End
  <2> QED
    BY <2>1 DEF DeletersKnow, NoLocals, In
<1>7. CASE Start
  <2>1. /\ \A p \in Procs : p # Main => pc'[p] = "idle"
        /\ pc'[Main] = "pat" /\ loc'[Main].op = "start"
    BY <1>0, <1>7
    DEF Start, StartComesFirst, Enter, Goto, Idle, In, Procs, StateType, GoroutinesType
  <2> QED
    BY <2>1 DEF DeletersKnow
<1> QED
  BY <1>2, <1>3, <1>4, <1>5, <1>6, <1>7 DEF Action, Cleanup

\* Nothing is registered before the first start.
LEMMA KnownInit == Init => KnownInv
<1> SUFFICES ASSUME Init PROVE KnownInv
  OBVIOUS
<1>1. NothingForgotten
  BY DEF Init, NothingForgotten, EmptyMap
<1> QED
  BY <1>1, DeletersInit DEF KnownInv

\* A process that ends knows nothing, and one that starts has registered
\* nothing yet.
LEMMA KnownStep == "lose" \notin Faults /\ KnownInv /\ [Action]_stateVars => KnownInv'
<1> SUFFICES ASSUME "lose" \notin Faults, KnownInv, [Action]_stateVars PROVE NothingForgotten'
  <2>1. KnownInv /\ [Action]_stateVars => DeletersInv'
    BY DeletersStep DEF KnownInv
  <2> QED
    BY <2>1 DEF KnownInv
<1>0. StateType /\ OneRegistrar /\ DeletersKnow /\ NothingForgotten
  BY DEF KnownInv, DeletersInv, IInv, CredentialsInv, RegistrationInv
<1>2. ASSUME NEW p \in Procs, Step(p), Running PROVE NothingForgotten'
  BY <1>0, <1>2, NothingForgottenStep
<1>3. ASSUME NEW h \in Handlers, Begin(h), Running PROVE NothingForgotten'
  BY <1>0, <1>3, BeginIsAside, AsideRemembers DEF Procs
<1>4. CASE Running /\ (Signal \/ NextResource \/ ReadClient \/ DeleteClient \/ ClearClient)
  BY <1>0, <1>4, MainIsAside, AsideRemembers DEF Procs
<1>5. CASE Expire \/ UNCHANGED stateVars
  <2>1. UNCHANGED <<resources, ids, life, pc, loc, phase>>
    BY <1>5 DEF Expire, stateVars, serverVars, asVars, processVars
  <2> QED
    BY <1>0, <2>1 DEF NothingForgotten, Running, At
<1>6. CASE Exit \/ Crash
  BY <1>6 DEF Exit, Crash, End, Running, NothingForgotten
<1>7. CASE Start
  <2>1. \A n \in DOMAIN resources : resources[n].life \in 1 .. life /\ life \in Nat
    BY <1>0 DEF StateType, FieldsType
  <2> QED
    BY <2>1, <1>7 DEF Start, NothingForgotten, asVars
<1> QED
  BY <1>2, <1>3, <1>4, <1>5, <1>6, <1>7 DEF Action, Cleanup

\* Unless the answer to a registration gets lost, the server knows what this
\* process registered at the AS, or is about to: Shutdown can reach it.
THEOREM NothingIsForgotten == ASSUME "lose" \notin Faults PROVE Spec => []NothingForgotten
<1>1. KnownInv => NothingForgotten
  BY DEF KnownInv
<1> QED
  BY <1>1, KnownInit, KnownStep, NextActs, PTL DEF Spec
-----------------------------------------------------------------------------
(***************************************************************************)
(* A start with a working AS                                               *)
(***************************************************************************)
\* Only the start, which fails at nothing, can set the error.
LEMMA StartSucceedsStep ==
  ASSUME CredentialsInv, StartSucceeds, Faults \subseteq {"silence"}, NEW p \in Procs, Step(p)
  PROVE  StartSucceeds'
<1>0. /\ StateType /\ ~asError /\ phase \in Phases
      /\ phase = "starting" => p = Main
  BY StepIsOwn DEF CredentialsInv, StateType, GoroutinesType, AllIdle, Idle, Procs, StartSucceeds
<1>1. CASE phase # "starting"
  <2>1. phase' # "starting" /\ asError' = asError
    <3> USE <1>1, StepIsOwn
        DEF Return, Fail, GoOn, Continue, ContinueAs, ContinueWith, Goto, Call, processVars,
            asVars, At
    <3>1. CASE GetPAT(p)
      BY <1>0, <3>1 DEF GetPAT
    <3>2. CASE PostClient(p)
      BY <1>0, <3>2 DEF PostClient
    <3>3. CASE FindClient(p)
      BY <1>0, <3>3 DEF FindClient
    <3>4. CASE DropClient(p)
      BY <1>0, <3>4 DEF DropClient
    <3>5. CASE RetryClient(p)
      BY <1>0, <3>5 DEF RetryClient
    <3>6. CASE KeepClient(p)
      BY <1>0, <3>6 DEF KeepClient
    <3>7. CASE RequestToken(p)
      BY <1>0, <3>7 DEF RequestToken
    <3>8. CASE KeepToken(p)
      BY <1>0, <3>8 DEF KeepToken
    <3>9. CASE PostResource(p)
      BY <1>0, <3>9 DEF PostResource
    <3>10. CASE Adopt(p)
      BY <1>0, <3>10 DEF Adopt
    <3>11. CASE KeepId(p)
      BY <1>0, <3>11 DEF KeepId
    <3>12. CASE Sync(p)
      BY <1>0, <3>12 DEF Sync
    <3>13. CASE Lookup(p)
      BY <1>0, <3>13 DEF Lookup
    <3>14. CASE PutResource(p)
      BY <1>0, <3>14 DEF PutResource
    <3>15. CASE DeleteResource(p)
      BY <1>0, <3>15 DEF DeleteResource
    <3>16. CASE Forget(p)
      BY <1>0, <3>16 DEF Forget
    <3>17. CASE Ask(p)
      BY <1>0, <3>17 DEF Ask
    <3> QED
      BY <1>0, <3>1, <3>2, <3>3, <3>4, <3>5, <3>6, <3>7, <3>8, <3>9, <3>10, <3>11, <3>12,
          <3>13, <3>14, <3>15, <3>16, <3>17
      DEF Step
  <2> QED
    BY <1>0, <2>1 DEF StartSucceeds
<1>2. CASE phase = "starting"
  <2> USE <1>0, <1>2
      DEF StartSucceeds, CredentialsInv, ClientIsRegistered, BeforeClientIsDeleted,
          OnlyStartRegisters, StartComesFirst, StartFailed, Refused, Lost, PATRefused,
          GiveClient, RemoveClient, RegisteringLabels, AfterPAT, StateType, FieldsType,
          GoroutinesType, Locals, Clients, Return, Fail, GoOn, Continue, ContinueAs,
          ContinueWith, Goto, Call, processVars, asVars, At
  <2>1. CASE GetPAT(p)
    BY <2>1 DEF GetPAT
  <2>2. CASE PostClient(p)
    BY <2>2 DEF PostClient
  <2>3. CASE FindClient(p)
    BY <2>3 DEF FindClient
  <2>4. CASE DropClient(p)
    BY <2>4 DEF DropClient
  <2>5. CASE RetryClient(p)
    BY <2>5 DEF RetryClient
  <2>6. CASE KeepClient(p)
    BY <2>6 DEF KeepClient
  <2>7. CASE RequestToken(p)
    BY <2>7 DEF RequestToken
  <2>8. CASE KeepToken(p)
    BY <2>8 DEF KeepToken
  <2>9. CASE PostResource(p)
    BY <2>9 DEF PostResource
  <2>10. CASE Adopt(p)
    BY <2>10 DEF Adopt
  <2>11. CASE KeepId(p)
    BY <2>11 DEF KeepId
  <2>12. CASE Sync(p)
    BY <2>12 DEF Sync
  <2>13. CASE Lookup(p)
    BY <2>13 DEF Lookup
  <2>14. CASE PutResource(p)
    BY <2>14 DEF PutResource
  <2>15. CASE DeleteResource(p)
    BY <2>15 DEF DeleteResource
  <2>16. CASE Forget(p)
    BY <2>16 DEF Forget
  <2>17. CASE Ask(p)
    BY <2>17 DEF Ask
  <2> QED
    BY <2>1, <2>2, <2>3, <2>4, <2>5, <2>6, <2>7, <2>8, <2>9, <2>10, <2>11, <2>12, <2>13,
        <2>14, <2>15, <2>16, <2>17
    DEF Step
<1> QED
  BY <1>1, <1>2

\* Before the first start nothing has failed.
LEMMA ReadyInit == Init => ReadyInv
<1> SUFFICES ASSUME Init PROVE ReadyInv
  OBVIOUS
<1>1. CredentialsInv
  BY CredentialsInit
<1>2. StartSucceeds
  BY DEF Init, StartSucceeds, Procs
<1> QED
  BY <1>1, <1>2 DEF ReadyInv

\* No other step is taken during a start, and none of them sets the error.
LEMMA ReadyStep == Faults \subseteq {"silence"} /\ ReadyInv /\ [Action]_stateVars => ReadyInv'
<1> SUFFICES ASSUME Faults \subseteq {"silence"}, ReadyInv, [Action]_stateVars PROVE StartSucceeds'
  <2>1. ReadyInv /\ [Action]_stateVars => CredentialsInv'
    BY CredentialsStep DEF ReadyInv
  <2> QED
    BY <2>1 DEF ReadyInv
<1>0. StateType /\ CredentialsInv /\ StartComesFirst /\ StartSucceeds /\ Main \in Procs
  BY DEF ReadyInv, CredentialsInv, Procs
<1>1. ASSUME NEW p \in Procs, Step(p), Running PROVE StartSucceeds'
  BY <1>0, <1>1, StartSucceedsStep
<1>2. ASSUME NEW h \in Handlers, Begin(h), Running PROVE StartSucceeds'
  <2>1. phase' # "starting" /\ UNCHANGED asError
    BY <1>2 DEF Begin, Accepting, processVars
  <2> QED
    BY <1>0, <2>1 DEF StartSucceeds
<1>3. CASE Running /\ (Signal \/ NextResource \/ ReadClient \/ DeleteClient \/ ClearClient)
  <2>1. phase # "starting"
    BY <1>0, <1>3
    DEF StartComesFirst, RegisteringLabels, Signal, NextResource, ReadClient, DeleteClient,
        ClearClient, At
  <2>2. phase' # "starting" /\ UNCHANGED asError
    BY <1>3, <2>1
    DEF Signal, NextResource, ReadClient, DeleteClient, ClearClient, EndCleanup, Continue,
        ContinueAs, GoOn, serverVars, processVars
  <2> QED
    BY <1>0, <2>2 DEF StartSucceeds
<1>4. CASE Expire \/ UNCHANGED stateVars
  <2>1. UNCHANGED <<asError, asClient, phase, pc, loc>>
    BY <1>4 DEF Expire, stateVars, serverVars, asVars, processVars
  <2> QED
    BY <1>0, <2>1 DEF StartSucceeds
<1>5. CASE Exit \/ Crash
  BY <1>5 DEF Exit, Crash, End, StartSucceeds
<1>6. CASE Start
  <2>1. pc'[Main] = "pat" /\ UNCHANGED asError
    BY <1>0, <1>6 DEF Start, Enter, Goto, serverVars, StateType, GoroutinesType
  <2> QED
    BY <1>0, <2>1 DEF StartSucceeds
<1> QED
  BY <1>1, <1>2, <1>3, <1>4, <1>5, <1>6 DEF Action, Cleanup

\* A process that starts with a working AS serves with the client that the AS
\* has for it, whatever clients and resources earlier processes left behind.
THEOREM StartsReady == ASSUME Faults \subseteq {"silence"} PROVE Spec => []StartIsReady
<1>1. ReadyInv => StartIsReady
  BY
  DEF ReadyInv, CredentialsInv, StartSucceeds, OnlyStartRegisters, ClientIsRegistered,
      BeforeClientIsDeleted, StartIsReady
<1> QED
  BY <1>1, ReadyInit, ReadyStep, NextActs, PTL DEF Spec
-----------------------------------------------------------------------------
(***************************************************************************)
(* A Shutdown with a working AS                                            *)
(***************************************************************************)
\* What the steps of Shutdown rely on.
Working ==
  /\ Faults \subseteq {"silence"} /\ Running
  /\ KnownInv /\ ReadyInv /\ ShutdownProgress

\* Until Shutdown has deleted it, the client the server uses is the one the AS
\* has, and nobody registers another; what this life registered is stored, or
\* about to be.
LEMMA WorkingFacts ==
  ASSUME Working
  PROVE  /\ StateType /\ OneRegistrar /\ Main \in Procs /\ ~asError
         /\ phase \in {"starting", "serving", "cleaning", "draining"}
         /\ phase = "starting" => \A p \in Procs : p # Main => pc[p] = "idle"
         /\ BeforeClientIsDeleted /\ phase # "starting" =>
              /\ client = asClient /\ client # 0 /\ token \in {0, asClient}
              /\ \A p \in Procs :
                   /\ pc[p] \notin RegisteringLabels
                   /\ pc[p] \in {"requestToken", "keepToken"} => loc[p].cred = asClient
         /\ \A n : OfThisLife(n) =>
              n \in DOMAIN ids \/ \E p \in Procs : pc[p] = "keepId" /\ loc[p].res = n
<1> USE DEF Working, KnownInv, IInv, ReadyInv, CredentialsInv
<1>1. StateType /\ Main \in Procs /\ ~asError
  BY DEF StartSucceeds, Procs
<1>2. phase \in {"starting", "serving", "cleaning", "draining"}
  BY DEF StateType, GoroutinesType, Phases, Running
<1>3. phase = "starting" => \A p \in Procs : p # Main => pc[p] = "idle"
  BY DEF StateType, GoroutinesType, AllIdle, Idle, Procs
<1>4. BeforeClientIsDeleted /\ phase # "starting" =>
        /\ client = asClient /\ client # 0 /\ token \in {0, asClient}
        /\ \A p \in Procs :
             /\ pc[p] \notin RegisteringLabels
             /\ pc[p] \in {"requestToken", "keepToken"} => loc[p].cred = asClient
  BY <1>1 DEF ClientIsRegistered, OnlyStartRegisters
<1>5. \A n : OfThisLife(n) =>
        n \in DOMAIN ids \/ \E p \in Procs : pc[p] = "keepId" /\ loc[p].res = n
  BY DEF NothingForgotten, OfThisLife, At
<1>6. OneRegistrar
  BY DEF DeletersInv, RegistrationInv
<1> QED
  BY <1>1, <1>2, <1>3, <1>4, <1>5, <1>6

\* The steps of Shutdown within the deletion of a resource: it gets on, with
\* the PAT of the registered client.
LEMMA DeletionProgress ==
  ASSUME Working, phase = "cleaning", Step(Main)
  PROVE  /\ pc[Main] \in DeletingLabels \cup {"forget"} /\ loc[Main].op = "delete"
         /\ pc'[Main] \in DeletingLabels \cup {"next", "forget"}
         /\ pc'[Main] \in DeletingLabels \cup {"forget"} => loc'[Main].op = "delete"
         /\ pc'[Main] = "call" => loc'[Main].cred = asClient'
         /\ pc'[Main] = "next" => \/ pc[Main] = "lookup" /\ loc[Main].res \notin DOMAIN ids
                                  \/ pc[Main] = "forget"
         /\ UNCHANGED <<client, asClient>>
<1>0. /\ StateType /\ Main \in Procs /\ ~asError
      /\ BeforeClientIsDeleted
      /\ pc[Main] \in DeletingLabels \cup {"forget"} /\ loc[Main].op = "delete"
      /\ pc[Main] = "call" => loc[Main].cred = asClient
  <2>1. pc[Main] \in DeletingLabels \cup {"forget"}
    BY
    DEF Working, ShutdownProgress, Step, GetPAT, PostClient, FindClient, DropClient,
        RetryClient, KeepClient, RequestToken, KeepToken, PostResource, Adopt, KeepId, Sync,
        Lookup, PutResource, DeleteResource, Forget, Ask, At, DeletingLabels
  <2> QED
    BY <2>1, WorkingFacts DEF Working, ShutdownProgress, BeforeClientIsDeleted, DeletingLabels
<1> USE DEF DeletingLabels, Return, Fail, GoOn, Continue, ContinueAs, ContinueWith, Goto,
    Call, processVars, asVars, At, StateType, GoroutinesType, Locals
<1>2. CASE Lookup(Main)
  BY <1>0, <1>2 DEF Lookup
<1>3. CASE GetPAT(Main)
  <2>1. client = asClient /\ client # 0 /\ token \in {0, asClient} /\ ~StartFailed /\ ~Refused
    BY <1>0, WorkingFacts DEF StartFailed, Refused, Working
  <2> QED
    BY <1>0, <1>3, <2>1 DEF GetPAT, AfterPAT
<1>4. CASE RequestToken(Main)
  <2>1. ~PATRefused(Main)
    BY <1>0, <1>4, WorkingFacts DEF RequestToken, PATRefused, Refused, Working
  <2> QED
    BY <1>0, <1>4, <2>1 DEF RequestToken
<1>5. CASE KeepToken(Main)
  <2>1. loc[Main].cred = asClient
    BY <1>0, <1>5, WorkingFacts DEF KeepToken
  <2> QED
    BY <1>0, <1>5, <2>1 DEF KeepToken, AfterPAT
<1>6. CASE DeleteResource(Main)
  <2>1. ~PATRefused(Main) /\ ~Refused /\ ~Lost
    BY <1>0, <1>6 DEF DeleteResource, PATRefused, Refused, Lost, Working
  <2>2. RemoveResource(Main) /\ pc'[Main] = "forget" /\ loc' = loc /\ pc[Main] = "call"
    BY <1>0, <1>6, <2>1 DEF DeleteResource
  <2> QED
    BY <1>0, <1>6, <2>2 DEF DeleteResource
<1>7. CASE Forget(Main)
  BY <1>0, <1>7 DEF Forget
<1> QED
  BY <1>0, <1>2, <1>3, <1>4, <1>5, <1>6, <1>7
  DEF Step, PostClient, FindClient, DropClient, RetryClient, KeepClient, PostResource,
      Adopt, KeepId, Sync, PutResource, Ask

\* SIGTERM, the steps between two deletions, the client, and the end.
LEMMA CleanupProgress ==
  ASSUME Working, Signal \/ NextResource \/ ReadClient \/ DeleteClient \/ ClearClient \/ Exit
  PROVE  ShutdownProgress'
<1>0. /\ StateType /\ Main \in Procs /\ Main \notin Handlers
      /\ phase \in {"starting", "serving", "cleaning", "draining"}
      /\ StartComesFirst
  BY WorkingFacts, HandlersAssumption DEF Working, ReadyInv, CredentialsInv
<1>1. CASE Signal
  <2>1. /\ Overlap \/ AllIdle
        /\ phase' = "cleaning" /\ pc' = [pc EXCEPT ![Main] = "next"]
    BY <1>1 DEF Signal, Goto, At
  <2>2. pc'[Main] = "next" /\ (AllIdle => AllIdle')
    BY <1>0, <2>1 DEF AllIdle, Idle, Procs, StateType, GoroutinesType
  <2> QED
    BY <2>1, <2>2 DEF ShutdownProgress, DeletingLabels
<1>2. CASE NextResource
  <2>1. phase = "cleaning"
    BY <1>0, <1>2
    DEF NextResource, At, StartComesFirst, RegisteringLabels, Working, ShutdownProgress
  <2> QED
    BY <1>0, <1>2, <2>1
    DEF NextResource, Done, Enter, Goto, In, At, Working, ShutdownProgress,
        DeletingLabels, AllIdle, Idle, Procs, StateType, GoroutinesType, asVars, serverVars
<1>3. CASE ReadClient
  <2>1. phase = "cleaning" /\ client = asClient /\ client # 0
    <3>1. phase = "cleaning"
      BY <1>0, <1>3
      DEF ReadClient, At, StartComesFirst, RegisteringLabels, Working, ShutdownProgress
    <3> QED
      BY <1>3, <3>1, WorkingFacts DEF ReadClient, At, BeforeClientIsDeleted
  <2> QED
    BY <1>0, <1>3, <2>1
    DEF ReadClient, ContinueAs, GoOn, Goto, At, Working, ShutdownProgress,
        DeletingLabels, AllIdle, Idle, Procs, StateType, GoroutinesType, Locals, asVars,
        processVars
<1>4. CASE DeleteClient
  <2>1. phase = "cleaning"
    BY <1>0, <1>4
    DEF DeleteClient, At, StartComesFirst, RegisteringLabels, Working, ShutdownProgress
  <2> QED
    BY <1>0, <1>4, <2>1
    DEF DeleteClient, Refused, Lost, Continue, GoOn, Goto, At, Working, EndCleanup,
        ShutdownProgress, DeletingLabels, AllIdle, Idle, Procs, StateType,
        GoroutinesType, processVars
<1>5. CASE ClearClient
  <2>1. phase = "cleaning"
    BY <1>0, <1>5
    DEF ClearClient, At, StartComesFirst, RegisteringLabels, Working, ShutdownProgress
  <2> QED
    BY <1>0, <1>5, <2>1
    DEF ClearClient, EndCleanup, Goto, At, Working, ShutdownProgress,
        DeletingLabels, AllIdle, Idle, Procs, StateType, GoroutinesType, asVars
<1>6. CASE Exit
  BY <1>6 DEF Exit, End, ShutdownProgress
<1> QED
  BY <1>1, <1>2, <1>3, <1>4, <1>5, <1>6

\* There is no shutdown yet.
LEMMA CleanInit == Init => CleanInv
<1> SUFFICES ASSUME Init PROVE CleanInv
  OBVIOUS
<1>1. KnownInv /\ ReadyInv
  BY KnownInit, ReadyInit
<1>2. ShutdownProgress
  BY DEF Init, ShutdownProgress
<1> QED
  BY <1>1, <1>2 DEF CleanInv

\* A request beside Shutdown takes neither its place nor, before it is deleted,
\* its client.
LEMMA BesideShutdown ==
  ASSUME Working, NEW p \in Procs, Step(p), p # Main, phase \in {"cleaning", "draining"}
  PROVE  /\ pc'[Main] = pc[Main] /\ loc'[Main] = loc[Main] /\ UNCHANGED <<phase, todo, life>>
         /\ BeforeClientIsDeleted => UNCHANGED <<client, asClient>>
         /\ UNCHANGED <<client, lastClient, asClient>> \/ ~BeforeClientIsDeleted
<1>1. pc'[Main] = pc[Main] /\ loc'[Main] = loc[Main] /\ UNCHANGED <<phase, todo, life>>
  BY WorkingFacts, StepIsOwn
<1>2. ASSUME BeforeClientIsDeleted PROVE UNCHANGED <<client, lastClient, asClient>>
  <2>1. pc[p] \notin RegisteringLabels
    BY <1>2, WorkingFacts
  <2> QED
    BY <2>1
    DEF Step, GetPAT, PostClient, FindClient, DropClient, RetryClient, KeepClient,
        RequestToken, KeepToken, PostResource, Adopt, KeepId, Sync, Lookup, PutResource,
        DeleteResource, Forget, Ask, At, RegisteringLabels, asVars
<1> QED
  BY <1>1, <1>2

\* Every step of a shutdown gets on with it, and no other step starts one.
LEMMA CleanStep ==
  Faults \subseteq {"silence"} /\ CleanInv /\ [Action]_stateVars => CleanInv'
<1> SUFFICES ASSUME Faults \subseteq {"silence"}, CleanInv, [Action]_stateVars
             PROVE  ShutdownProgress'
  <2>1. Faults \subseteq {"silence"} /\ CleanInv /\ [Action]_stateVars => KnownInv' /\ ReadyInv'
    BY KnownStep, ReadyStep DEF CleanInv
  <2> QED
    BY <2>1 DEF CleanInv
<1>0. /\ StateType /\ ShutdownProgress /\ StartComesFirst /\ Main \in Procs
      /\ Main \notin Handlers /\ (Running => Working)
  BY HandlersAssumption DEF CleanInv, Working, ReadyInv, CredentialsInv, Procs
<1>1. ASSUME NEW p \in Procs, Step(p), Running PROVE ShutdownProgress'
  <2>1. CASE phase \in {"starting", "serving"}
    <3>1. phase' \in {"starting", "serving"}
      BY <1>0, <1>1, <2>1, StepIsOwn
    <3> QED
      BY <3>1 DEF ShutdownProgress
  <2>2. CASE phase \in {"cleaning", "draining"}
    <3>1. phase' = phase /\ todo' = todo /\ pc[p] # "idle"
      BY <1>0, <1>1, <2>2, StepIsOwn
    <3>2. ~Overlap => AllIdle'
      <4> SUFFICES ASSUME ~Overlap PROVE AllIdle'
        OBVIOUS
      <4>1. AllIdle /\ p \notin Handlers
        BY <1>0, <2>2, <3>1 DEF ShutdownProgress, AllIdle, Idle
      <4> QED
        BY <1>0, <1>1, <4>1, StepIsOwn DEF AllIdle, Idle, Procs
    <3>3. CASE p = Main
      <4>1. phase = "cleaning"
        BY <1>0, <1>1, <2>2, <3>3
        DEF ShutdownProgress, Step, GetPAT, PostClient, FindClient, DropClient,
            RetryClient, KeepClient, RequestToken, KeepToken, PostResource, Adopt, KeepId,
            Sync, Lookup, PutResource, DeleteResource, Forget, Ask, At
      <4> QED
        BY <1>0, <1>1, <3>1, <3>2, <3>3, <4>1, DeletionProgress
        DEF ShutdownProgress, DeletingLabels
    <3>4. CASE p # Main
      BY <1>0, <1>1, <2>2, <3>1, <3>2, <3>4, BesideShutdown
      DEF ShutdownProgress, BeforeClientIsDeleted
    <3> QED
      BY <3>3, <3>4
  <2> QED
    BY <1>0, <1>1, <2>1, <2>2, WorkingFacts
<1>2. ASSUME NEW h \in Handlers, Begin(h), Running PROVE ShutdownProgress'
  <2>1. /\ phase' \in {"serving", "cleaning"} /\ (phase' = "cleaning" => Overlap)
        /\ UNCHANGED <<asClient, todo, phase>>
        /\ pc'[Main] = pc[Main] /\ loc'[Main] = loc[Main]
    BY <1>0, <1>2
    DEF Begin, Accepting, Enter, Goto, processVars, asVars, StateType, GoroutinesType
  <2> QED
    BY <1>0, <2>1 DEF ShutdownProgress
<1>3. CASE Running /\ (Signal \/ Cleanup)
  BY <1>0, <1>3, CleanupProgress DEF Cleanup
<1>4. CASE Expire \/ UNCHANGED stateVars
  <2>1. UNCHANGED <<asClient, phase, todo, pc, loc>>
    BY <1>4 DEF Expire, stateVars, serverVars, asVars, processVars
  <2> QED
    BY <1>0, <2>1 DEF ShutdownProgress, AllIdle, Idle
<1>5. CASE Crash \/ Start
  <2>1. phase' \in {"crashed", "starting"}
    BY <1>5 DEF Crash, End, Start
  <2> QED
    BY <2>1 DEF ShutdownProgress
<1> QED
  BY <1>1, <1>2, <1>3, <1>4, <1>5 DEF Action
-----------------------------------------------------------------------------
(***************************************************************************)
(* What Shutdown deletes, whatever runs beside it                          *)
(***************************************************************************)
Stopping == phase \in {"cleaning", "draining"}
ClientDeleted ==
  phase \in {"draining", "exited"} \/ (phase = "cleaning" /\ pc[Main] = "clearClient")

\* A resource that Shutdown is yet to delete.
Due(n) ==
  phase = "cleaning" /\ (n \in todo \/ (pc[Main] \in DeletingLabels /\ loc[Main].res = n))

\* A resource of the snapshot is not registered again, and one that is still
\* there is due.
NamesKept ==
  /\ Stopping =>
       \A n \in snapshot.names :
         /\ n \in created
         /\ \A p \in Procs : loc[p].op = "register" /\ loc[p].res = n => pc[p] = "sync"
  /\ Stopping \/ phase = "exited" => \A n \in snapshot.names : OfThisLife(n) => Due(n)

\* The client of the snapshot is the one that is deleted, and the AS gives a
\* later one another id.
ClientKept ==
  /\ asClient <= lastClient
  /\ Stopping \/ phase = "exited" => snapshot.client # 0 /\ snapshot.client <= lastClient
  /\ Stopping /\ ~ClientDeleted => client = snapshot.client
  /\ ClientDeleted => asClient # snapshot.client

\* When no request ran beside it, the snapshot was all there is.
AloneKept ==
  snapshot.alone =>
    /\ Stopping => AllIdle
    /\ Stopping \/ phase = "exited" => \A n : OfThisLife(n) => n \in snapshot.names
    /\ ClientDeleted => asClient = 0

ShutdownInv == CleanInv /\ TypeOK /\ NamesKept /\ ClientKept /\ AloneKept

\* The AS removes a client or gives the next one.
LEMMA ClientMoves ==
  ASSUME StateType, NEW p \in Procs, Step(p)
  PROVE  \/ asClient' \in {asClient, 0} /\ lastClient' = lastClient
         \/ lastClient' = lastClient + 1 /\ asClient' = lastClient'
<1> USE DEF Call, GiveClient, RemoveClient, asVars
<1>1. CASE PostClient(p)
  BY <1>1 DEF PostClient
<1>2. CASE DropClient(p)
  BY <1>2 DEF DropClient
<1>3. CASE RetryClient(p)
  BY <1>3 DEF RetryClient
<1> QED
  BY <1>1, <1>2, <1>3
  DEF Step, GetPAT, FindClient, KeepClient, RequestToken, KeepToken, PostResource, Adopt,
      KeepId, Sync, Lookup, PutResource, DeleteResource, Forget, Ask

\* A resource of the snapshot is at the AS of this life only if it was before.
LEMMA NotAgain ==
  ASSUME StateType, OneRegistrar, NamesKept, Stopping, NEW p \in Procs, Step(p),
         NEW n \in snapshot.names, OfThisLife(n)'
  PROVE  OfThisLife(n)
<1>1. ~(RegistersAtAS(p) /\ loc[p].res = n)
  BY DEF NamesKept, RegistersAtAS
<1>2. life' = life
  BY StepIsOwn
<1>3. CASE RegistersAtAS(p)
  BY <1>1, <1>2, <1>3 DEF RegistersAtAS, Assign, OfThisLife
<1>4. CASE RemoveResource(p)
  BY <1>2, <1>4 DEF RemoveResource, Drop, OfThisLife
<1>5. CASE UNCHANGED resources
  BY <1>2, <1>5 DEF OfThisLife
<1> QED
  BY <1>3, <1>4, <1>5, RegistryMoves DEF Registers, Stores, Deletes, Forgets, Loses, Rests

\* Shutdown goes on from a resource of its snapshot when it is gone.
LEMMA DeletionIsDone ==
  ASSUME Working, NamesKept, phase = "cleaning", Step(Main),
         NEW n \in snapshot.names, OfThisLife(n)'
  PROVE  Due(n)'
<1>0. /\ StateType /\ OneRegistrar /\ Main \in Procs /\ ~Lost
      /\ pc[Main] \in DeletingLabels \cup {"forget"} /\ loc[Main].op = "delete"
      /\ pc'[Main] \in DeletingLabels \cup {"next", "forget"}
      /\ phase' = "cleaning" /\ todo' = todo
  BY WorkingFacts, DeletionProgress, StepIsOwn DEF Working, Lost
<1>1. OfThisLife(n)
  BY <1>0, NotAgain DEF Stopping
<1>2. CASE n \in todo
  BY <1>0, <1>2 DEF Due
<1>3. CASE pc[Main] \in DeletingLabels /\ loc[Main].res = n
  <2>1. pc'[Main] # "next"
    <3>1. ASSUME pc[Main] = "lookup", n \notin DOMAIN ids PROVE FALSE
      <4>1. PICK p \in Procs : pc[p] = "keepId" /\ loc[p].res = n
        BY <1>1, <3>1, WorkingFacts
      <4> QED
        BY <1>0, <4>1 DEF OneRegistrar, NamesKept, Stopping
    <3> QED
      BY <1>3, <3>1, DeletionProgress DEF DeletingLabels
  <2>2. pc'[Main] # "forget"
    <3> SUFFICES ASSUME pc'[Main] = "forget" PROVE FALSE
      OBVIOUS
    <3>1. Deletes(Main)
      BY <1>0, RegistryMoves
      DEF Registers, RegistersAtAS, Stores, Forgets, Loses, Rests
    <3>2. HasId(n, loc[Main].rid)
      BY <1>0, <1>1, <1>3, <3>1
      DEF Working, KnownInv, DeletersInv, DeletersKnow, Deletes, HasId, OfThisLife
    <3> QED
      BY <1>3, <3>1, <3>2 DEF Deletes, RemoveResource, Drop, OfThisLife
  <2>3. pc'[Main] \in DeletingLabels /\ loc'[Main].res = n
    <3>1. pc'[Main] \in DeletingLabels
      BY <1>0, <2>1, <2>2
    <3> QED
      BY <1>0, <1>3, <3>1, StepIsOwn DEF DeletingLabels
  <2> QED
    BY <1>0, <2>3 DEF Due
<1> QED
  BY <1>0, <1>1, <1>2, <1>3 DEF NamesKept, Stopping, Due

\* The resources of the snapshot through a step of a goroutine.
LEMMA NamesKeptStep ==
  ASSUME Working, NamesKept, Stopping, NEW p \in Procs, Step(p),
         snapshot'.names = snapshot.names
  PROVE  NamesKept'
<1>0. /\ StateType /\ OneRegistrar /\ Main \in Procs
      /\ UNCHANGED <<life, created, todo, phase>> /\ Stopping'
      /\ \A q \in Procs : q # p => pc'[q] = pc[q] /\ loc'[q] = loc[q]
  BY WorkingFacts, StepIsOwn DEF Stopping
<1>1. ASSUME NEW n \in snapshot.names, NEW q \in Procs,
             loc'[q].op = "register", loc'[q].res = n
      PROVE  pc'[q] = "sync"
  <2>1. loc[q].op = "register" /\ loc[q].res = n
    BY <1>0, <1>1, StepIsOwn DEF NoLocals, In
  <2>2. pc[q] = "sync"
    BY <1>0, <2>1 DEF NamesKept
  <2>3. q # p
    BY <1>0, <1>1, <2>2, StepIsOwn DEF NoLocals, In
  <2> QED
    BY <1>0, <2>2, <2>3
<1>2. ASSUME NEW n \in snapshot.names, OfThisLife(n)' PROVE Due(n)'
  <2>1. OfThisLife(n) /\ Due(n)
    BY <1>0, <1>2, NotAgain DEF NamesKept
  <2>2. CASE p = Main
    BY <1>2, <2>1, <2>2, DeletionIsDone DEF Due
  <2>3. CASE p # Main
    BY <1>0, <2>1, <2>3 DEF Due
  <2> QED
    BY <2>2, <2>3
<1> QED
  BY <1>0, <1>1, <1>2 DEF NamesKept

\* Its client.
LEMMA ClientKeptStep ==
  ASSUME Working, ClientKept, TypeOK, NEW p \in Procs, Step(p),
         Stopping => snapshot'.client = snapshot.client
  PROVE  ClientKept'
<1>0. /\ StateType /\ Main \in Procs /\ lastClient \in Nat /\ asClient \in Nat
      /\ phase \in {"starting", "serving", "cleaning", "draining"}
  BY WorkingFacts, BoundsAssumption DEF StateType, FieldsType, Clients
<1>1. asClient' <= lastClient' /\ lastClient <= lastClient' /\ lastClient' \in Nat
  BY <1>0, ClientMoves DEF ClientKept
<1>2. CASE ~Stopping
  <2>1. phase' \in {"starting", "serving"}
    BY <1>0, <1>2, StepIsOwn DEF Stopping
  <2> QED
    BY <1>1, <2>1 DEF ClientKept, Stopping, ClientDeleted
<1>3. CASE Stopping
  <2>0. phase' = phase /\ snapshot'.client = snapshot.client /\ snapshot.client \in Nat
    BY <1>0, <1>3, StepIsOwn, BoundsAssumption DEF Stopping, TypeOK, Snapshots, Clients
  <2>1. CASE p = Main
    <3>1. phase = "cleaning" /\ pc[Main] # "clearClient" /\ pc'[Main] # "clearClient"
          /\ UNCHANGED <<client, asClient>>
      <4>1. phase = "cleaning"
        BY <1>0, <1>3, <2>1
        DEF Working, ShutdownProgress, Stopping, Step, GetPAT, PostClient, FindClient,
            DropClient, RetryClient, KeepClient, RequestToken, KeepToken, PostResource,
            Adopt, KeepId, Sync, Lookup, PutResource, DeleteResource, Forget, Ask, At
      <4> QED
        BY <2>1, <4>1, DeletionProgress DEF DeletingLabels
    <3> QED
      BY <1>0, <1>1, <2>0, <3>1 DEF ClientKept, Stopping, ClientDeleted
  <2>2. CASE p # Main
    <3>1. pc'[Main] = pc[Main] /\ (BeforeClientIsDeleted => UNCHANGED <<client, asClient>>)
      BY <1>3, <2>2, BesideShutdown DEF Stopping
    <3>2. Stopping /\ ~ClientDeleted => BeforeClientIsDeleted
      BY DEF Stopping, ClientDeleted, BeforeClientIsDeleted
    <3>3. ClientDeleted => asClient' # snapshot.client
      BY <1>0, <1>3, <2>0, ClientMoves DEF ClientKept
    <3> QED
      BY <1>0, <1>1, <1>3, <2>0, <3>1, <3>2, <3>3 DEF ClientKept, Stopping, ClientDeleted
  <2> QED
    BY <2>1, <2>2
<1> QED
  BY <1>2, <1>3

\* While it is alone only Shutdown itself takes a step.
LEMMA AloneKeptStep ==
  ASSUME Working, AloneKept, NEW p \in Procs, Step(p),
         Stopping => snapshot'.names = snapshot.names /\ (snapshot'.alone => snapshot.alone)
  PROVE  AloneKept'
<1>0. /\ StateType /\ Main \in Procs /\ Main \notin Handlers
      /\ phase \in {"starting", "serving", "cleaning", "draining"}
  BY WorkingFacts, HandlersAssumption
<1>1. CASE ~Stopping
  <2>1. phase' \in {"starting", "serving"}
    BY <1>0, <1>1, StepIsOwn DEF Stopping
  <2> QED
    BY <2>1 DEF AloneKept, Stopping, ClientDeleted
<1>2. CASE Stopping
  <2> SUFFICES ASSUME snapshot'.alone PROVE AloneKept'
    BY DEF AloneKept
  <2>0. /\ phase' = phase /\ snapshot'.names = snapshot.names /\ snapshot.alone /\ AllIdle
        /\ life' = life
    BY <1>0, <1>2, StepIsOwn DEF Stopping, AloneKept
  <2>1. p = Main
    BY <1>0, <2>0, StepIsOwn DEF AllIdle, Idle, Procs
  <2>2. phase = "cleaning"
    BY <1>0, <1>2, <2>1
    DEF Working, ShutdownProgress, Stopping, Step, GetPAT, PostClient, FindClient,
        DropClient, RetryClient, KeepClient, RequestToken, KeepToken, PostResource,
        Adopt, KeepId, Sync, Lookup, PutResource, DeleteResource, Forget, Ask, At
  <2>3. AllIdle'
    BY <1>0, <2>0, <2>1, StepIsOwn DEF AllIdle, Idle, Procs
  <2>4. ~ClientDeleted'
    BY <2>0, <2>1, <2>2, DeletionProgress DEF ClientDeleted, DeletingLabels
  <2>5. ASSUME NEW n, OfThisLife(n)' PROVE n \in snapshot.names
    <3>1. ~RegistersAtAS(p)
      BY <2>1, <2>2, DeletionProgress DEF RegistersAtAS
    <3>2. OfThisLife(n)
      <4>1. OneRegistrar
        BY WorkingFacts
      <4>2. RemoveResource(p) \/ UNCHANGED resources
        BY <1>0, <3>1, <4>1, RegistryMoves
        DEF Registers, Stores, Deletes, Forgets, Loses, Rests
      <4> QED
        BY <2>0, <2>5, <4>2 DEF RemoveResource, Drop, OfThisLife
    <3> QED
      BY <1>2, <2>0, <3>2 DEF AloneKept
  <2> QED
    BY <2>0, <2>3, <2>4, <2>5 DEF AloneKept
<1> QED
  BY <1>1, <1>2

\* SIGTERM takes the snapshot.
LEMMA SnapshotTaken ==
  ASSUME Working, ClientKept, Signal, Remember
  PROVE  NamesKept' /\ ClientKept' /\ AloneKept'
<1>0. /\ StateType /\ OneRegistrar /\ Main \in Procs /\ Main \notin Handlers
      /\ phase = "serving" /\ phase' = "cleaning" /\ pc' = [pc EXCEPT ![Main] = "next"]
      /\ pc[Main] = "wait" /\ todo' = DOMAIN ids
      /\ UNCHANGED <<client, asClient, lastClient, resources, created, life, loc>>
      /\ snapshot' = [names |-> DOMAIN ids, client |-> client, alone |-> AllIdle]
  BY WorkingFacts, HandlersAssumption DEF Signal, Remember, Goto, At, serverVars, asVars
<1>1. pc'[Main] = "next" /\ \A p \in Procs : p # Main => pc'[p] = pc[p]
  BY <1>0 DEF StateType, GoroutinesType
<1>2. NamesKept'
  <2>1. ASSUME NEW n \in DOMAIN ids, NEW p \in Procs, loc[p].op = "register", loc[p].res = n
        PROVE  pc'[p] = "sync"
    <3>1. pc[p] = "sync"
      BY <1>0, <2>1 DEF OneRegistrar
    <3> QED
      BY <1>0, <1>1, <3>1
  <2>2. DOMAIN ids \subseteq created
    BY <1>0 DEF OneRegistrar
  <2> QED
    BY <1>0, <2>1, <2>2 DEF NamesKept, Due, Stopping
<1>3. ClientKept'
  <2>1. client = asClient /\ client # 0
    BY <1>0, WorkingFacts DEF BeforeClientIsDeleted
  <2> QED
    BY <1>0, <1>1, <2>1 DEF ClientKept, Stopping, ClientDeleted
<1>4. AloneKept'
  <2> SUFFICES ASSUME AllIdle
               PROVE  AllIdle' /\ \A n : OfThisLife(n)' => n \in DOMAIN ids
    BY <1>0, <1>1 DEF AloneKept, Stopping, ClientDeleted
  <2>1. AllIdle'
    BY <1>0, <1>1 DEF AllIdle, Idle, Procs
  <2>2. \A p \in Procs : pc[p] # "keepId"
    BY <1>0 DEF AllIdle, Idle, Procs
  <2>3. \A n : OfThisLife(n) => n \in DOMAIN ids
    BY <2>2, WorkingFacts
  <2> QED
    BY <1>0, <2>1, <2>3 DEF OfThisLife
<1> QED
  BY <1>2, <1>3, <1>4

\* The steps of Shutdown between the deletions: it goes on to the next resource
\* and, when there is none, deletes the client.
LEMMA SnapshotCleaned ==
  ASSUME Working, TypeOK, NamesKept, ClientKept, AloneKept,
         NextResource \/ ReadClient \/ DeleteClient \/ ClearClient,
         snapshot'.names = snapshot.names, snapshot'.client = snapshot.client,
         snapshot'.alone => snapshot.alone
  PROVE  NamesKept' /\ ClientKept' /\ AloneKept'
<1>0. /\ StateType /\ Main \in Procs /\ Main \notin Handlers /\ ~Refused /\ ~Lost
      /\ StartComesFirst /\ ShutdownProgress
  BY WorkingFacts, HandlersAssumption DEF Working, ReadyInv, CredentialsInv, Refused, Lost
<1>1. phase = "cleaning"
  BY <1>0, WorkingFacts
  DEF NextResource, ReadClient, DeleteClient, ClearClient, At, StartComesFirst,
      RegisteringLabels, ShutdownProgress
<1>2. /\ UNCHANGED <<life, created, resources, lastClient>>
      /\ \A q \in Procs : q # Main => pc'[q] = pc[q] /\ loc'[q] = loc[q]
      /\ loc'[Main].op = "register" =>
           loc[Main].op = "register" /\ loc'[Main].res = loc[Main].res /\ pc[Main] # "sync"
  BY <1>0
  DEF NextResource, ReadClient, DeleteClient, ClearClient, EndCleanup, Continue, ContinueAs,
      GoOn, Enter, Goto, In, NoLocals, serverVars, asVars, processVars, StateType,
      GoroutinesType, Locals, At
<1>3. AllIdle => AllIdle'
  BY <1>0, <1>2 DEF AllIdle, Idle, Procs
<1>4. \A n : OfThisLife(n)' <=> OfThisLife(n)
  BY <1>2 DEF OfThisLife
<1>5. CASE NextResource
  <2>1. /\ pc[Main] = "next" /\ pc'[Main] \in {"lookup", "readClient"}
        /\ UNCHANGED <<phase, client, asClient>>
        /\ \A n \in todo : n \in todo' \/ (pc'[Main] = "lookup" /\ loc'[Main].res = n)
    BY <1>0, <1>5
    DEF NextResource, Done, Enter, Goto, In, At, serverVars, asVars, StateType, GoroutinesType
  <2>2. \A n : Due(n) => Due(n)'
    BY <1>1, <2>1 DEF Due, DeletingLabels
  <2> QED
    BY <1>1, <1>2, <1>3, <1>4, <2>1, <2>2
    DEF NamesKept, ClientKept, AloneKept, Stopping, ClientDeleted
<1>6. CASE ~NextResource
  <2>1. /\ pc[Main] \in {"readClient", "deleteClient", "clearClient"} /\ todo = {}
        /\ \A n : ~Due(n)
    BY <1>0, <1>1, <1>6
    DEF ReadClient, DeleteClient, ClearClient, At, ShutdownProgress, Due, DeletingLabels
  <2>2. phase' \in {"cleaning", "draining"}
    BY <1>1, <1>6
    DEF ReadClient, DeleteClient, ClearClient, EndCleanup, Continue, ContinueAs, GoOn,
        processVars
  <2>3. NamesKept'
    BY <1>1, <1>2, <1>4, <2>1, <2>2 DEF NamesKept, Stopping
  <2>4. CASE ReadClient
    <3>1. client = asClient /\ client # 0
      BY <1>1, <2>1, <2>4, WorkingFacts DEF BeforeClientIsDeleted, ReadClient, At
    <3>2. /\ pc[Main] = "readClient" /\ pc'[Main] = "deleteClient"
          /\ UNCHANGED <<phase, client, asClient>>
      BY <1>0, <2>4, <3>1
      DEF ReadClient, ContinueAs, GoOn, Goto, At, asVars, processVars, StateType, GoroutinesType
    <3> QED
      BY <1>1, <1>2, <1>3, <1>4, <2>3, <3>2
      DEF ClientKept, AloneKept, Stopping, ClientDeleted
  <2>5. CASE DeleteClient
    <3>1. /\ pc[Main] = "deleteClient" /\ pc'[Main] = "clearClient" /\ phase' = phase
          /\ asClient' = 0
      BY <1>0, <1>1, <2>5
      DEF DeleteClient, RemoveClient, ShutdownProgress, Continue, GoOn, Goto, At, asVars,
          processVars, StateType, GoroutinesType
    <3>2. lastClient \in Nat /\ lastClient' = lastClient
      BY <1>0, <1>2, BoundsAssumption DEF StateType, FieldsType
    <3> QED
      BY <1>1, <1>2, <1>3, <1>4, <2>3, <3>1, <3>2
      DEF ClientKept, AloneKept, Stopping, ClientDeleted
  <2>6. CASE ClearClient
    <3>1. pc[Main] = "clearClient" /\ phase' = "draining" /\ UNCHANGED asClient
      BY <2>6 DEF ClearClient, EndCleanup, At, asVars
    <3> QED
      BY <1>1, <1>2, <1>3, <1>4, <2>3, <3>1
      DEF ClientKept, AloneKept, Stopping, ClientDeleted
  <2> QED
    BY <1>6, <2>4, <2>5, <2>6
<1> QED
  BY <1>5, <1>6

\* At the end of Shutdown nothing is due.
LEMMA SnapshotAtExit ==
  ASSUME Working, NamesKept, ClientKept, AloneKept, Exit, Main \in Procs,
         snapshot'.names = snapshot.names, snapshot'.client = snapshot.client,
         snapshot'.alone => snapshot.alone
  PROVE  NamesKept' /\ ClientKept' /\ AloneKept'
<1>1. phase = "draining"
  BY WorkingFacts
  DEF Exit, At, Working, ReadyInv, CredentialsInv, StartComesFirst, RegisteringLabels,
      ShutdownProgress, DeletingLabels
<1>2. phase' = "exited" /\ UNCHANGED <<resources, asClient, lastClient, life>>
  BY DEF Exit, End, asVars
<1> QED
  BY <1>1, <1>2
  DEF NamesKept, ClientKept, AloneKept, Stopping, ClientDeleted, Due, OfThisLife

\* A request that begins is not alone with Shutdown, and registers a resource
\* that has not been registered in this life.
LEMMA SnapshotBeside ==
  ASSUME Working, TypeOK, NamesKept, ClientKept, NEW h \in Handlers, Begin(h), Remember
  PROVE  NamesKept' /\ ClientKept' /\ AloneKept'
<1>0. /\ StateType /\ Main \in Procs /\ Main # h /\ h \in Procs
      /\ UNCHANGED <<phase, todo, client, asClient, lastClient, resources, life>>
      /\ phase \in {"serving", "cleaning"}
  BY WorkingFacts, HandlersAssumption
  DEF Begin, Accepting, Procs, asVars, processVars
<1>1. /\ \A q \in Procs : q # h => pc'[q] = pc[q] /\ loc'[q] = loc[q]
      /\ created \subseteq created' /\ pc'[h] # "idle"
      /\ loc'[h].op = "register" => loc'[h].res \notin created
  BY <1>0 DEF Begin, Enter, Goto, In, StateType, GoroutinesType
<1>2. ~AllIdle'
  BY <1>1 DEF AllIdle, Idle
<1>3. CASE phase = "serving"
  BY <1>0, <1>3 DEF NamesKept, ClientKept, AloneKept, Stopping, ClientDeleted
<1>4. CASE phase = "cleaning"
  <2>1. /\ ~snapshot'.alone
        /\ snapshot'.names = snapshot.names /\ snapshot'.client = snapshot.client
    BY <1>0, <1>2, <1>4 DEF Remember, TypeOK, Snapshots
  <2>2. NamesKept'
    BY <1>0, <1>1, <1>4, <2>1 DEF NamesKept, Due, OfThisLife, Stopping
  <2>3. ClientKept'
    BY <1>0, <1>1, <1>4, <2>1 DEF ClientKept, Stopping, ClientDeleted
  <2> QED
    BY <2>1, <2>2, <2>3 DEF AloneKept
<1> QED
  BY <1>0, <1>3, <1>4

\* The snapshot through any step.
LEMMA SnapshotStep ==
  Faults \subseteq {"silence"} /\ ShutdownInv /\ [Next]_vars => ShutdownInv'
<1> SUFFICES ASSUME Faults \subseteq {"silence"}, ShutdownInv, [Next]_vars
             PROVE  NamesKept' /\ ClientKept' /\ AloneKept'
  <2>1. Faults \subseteq {"silence"} /\ ShutdownInv /\ [Next]_vars => CleanInv' /\ TypeOK'
    BY CleanStep, TypeStep, NextActs, MarksStep DEF ShutdownInv, TypeOK
  <2> QED
    BY <2>1 DEF ShutdownInv
<1>0. /\ StateType /\ TypeOK /\ StartComesFirst /\ (Running => Working) /\ Main \in Procs
      /\ NamesKept /\ ClientKept /\ AloneKept
  BY DEF ShutdownInv, CleanInv, Working, ReadyInv, CredentialsInv, Procs, TypeOK
<1>1. ASSUME Remember, ~(phase = "serving" /\ phase' = "cleaning"), phase' # "starting"
      PROVE  /\ snapshot'.names = snapshot.names /\ snapshot'.client = snapshot.client
             /\ snapshot'.alone => snapshot.alone
  BY <1>0, <1>1 DEF Remember, TypeOK, Snapshots
<1>2. CASE NoAnswer \/ UNCHANGED vars
  <2>1. UNCHANGED <<client, asClient, lastClient, resources, created, life, phase, todo, pc,
                    loc, snapshot>>
    BY <1>2 DEF NoAnswer, vars, stateVars, serverVars, asVars, processVars
  <2> QED
    BY <1>0, <2>1
    DEF NamesKept, ClientKept, AloneKept, Stopping, ClientDeleted, Due, OfThisLife, AllIdle, Idle
<1>3. CASE Action /\ Remember
  <2>1. ASSUME NEW p \in Procs, Step(p), Running PROVE NamesKept' /\ ClientKept' /\ AloneKept'
    <3>1. /\ phase' = phase \/ phase' = "serving"
          /\ UNCHANGED <<life, created>>
      BY <1>0, <2>1, StepIsOwn
    <3>2. CASE Stopping
      BY <1>0, <1>1, <1>3, <2>1, <3>1, <3>2, NamesKeptStep, ClientKeptStep, AloneKeptStep
      DEF Stopping
    <3>3. CASE ~Stopping
      <4>1. phase' \in {"starting", "serving"}
        BY <1>0, <2>1, <3>1, <3>3, WorkingFacts DEF Stopping
      <4> QED
        BY <1>0, <2>1, <3>3, <4>1, ClientKeptStep, AloneKeptStep DEF NamesKept, Stopping
    <3> QED
      BY <3>2, <3>3
  <2>2. ASSUME NEW h \in Handlers, Begin(h), Running
        PROVE  NamesKept' /\ ClientKept' /\ AloneKept'
    BY <1>0, <1>3, <2>2, SnapshotBeside
  <2>3. CASE Running /\ Cleanup
    <3>1. /\ phase' # "starting" /\ ~(phase = "serving" /\ phase' = "cleaning")
      <4>1. phase \in {"cleaning", "draining"}
        BY <1>0, <2>3, WorkingFacts
        DEF Cleanup, NextResource, ReadClient, DeleteClient, ClearClient, Exit, At,
            StartComesFirst, RegisteringLabels
      <4>2. phase' \in {phase, "draining", "exited"}
        BY <2>3
        DEF Cleanup, NextResource, ReadClient, DeleteClient, ClearClient, Exit, End,
            EndCleanup, Continue, ContinueAs, GoOn, processVars
      <4> QED
        BY <4>1, <4>2
    <3> QED
      BY <1>0, <1>1, <1>3, <2>3, <3>1, SnapshotCleaned, SnapshotAtExit DEF Cleanup
  <2>4. CASE Running /\ Expire
    <3>1. UNCHANGED <<client, asClient, lastClient, resources, created, life, phase, todo,
                      pc, loc>>
      BY <2>4 DEF Expire, asVars, processVars
    <3>2. CASE Stopping
      <4>1. /\ snapshot'.names = snapshot.names /\ snapshot'.client = snapshot.client
            /\ snapshot'.alone => snapshot.alone
        BY <1>1, <1>3, <3>1, <3>2 DEF Stopping
      <4> QED
        BY <1>0, <3>1, <3>2, <4>1
        DEF NamesKept, ClientKept, AloneKept, Stopping, ClientDeleted, Due, OfThisLife,
            AllIdle, Idle
    <3>3. CASE ~Stopping
      <4>1. phase # "exited"
        BY <2>4 DEF Running
      <4> QED
        BY <1>0, <3>1, <3>3, <4>1
        DEF NamesKept, ClientKept, AloneKept, Stopping, ClientDeleted
    <3> QED
      BY <3>2, <3>3
  <2>5. CASE Running /\ Signal
    BY <1>0, <1>3, <2>5, SnapshotTaken
  <2>6. CASE Crash \/ Start
    <3>1. phase' \in {"crashed", "starting"} /\ UNCHANGED <<asClient, lastClient>>
      BY <2>6 DEF Crash, End, Start, asVars
    <3> QED
      BY <1>0, <3>1 DEF NamesKept, ClientKept, AloneKept, Stopping, ClientDeleted
  <2> QED
    BY <1>3, <2>1, <2>2, <2>3, <2>4, <2>5, <2>6 DEF Action
<1> QED
  BY <1>2, <1>3 DEF Next, Proceed

\* A process that was told to stop leaves neither the client nor a resource that
\* it knew then at the AS, whatever requests run beside Shutdown, and nothing
\* at all when none does. No call fails, but some may never return.
THEOREM ShutdownCleans ==
  ASSUME Faults \subseteq {"silence"} PROVE Spec => []ShutdownCleansUp
<1>1. ShutdownInv => ShutdownCleansUp
  BY
  DEF ShutdownInv, NamesKept, ClientKept, AloneKept, ClientDeleted, Stopping, Due,
      ShutdownCleansUp
<1>2. Init => ShutdownInv
  <2> SUFFICES ASSUME Init PROVE ShutdownInv
    OBVIOUS
  <2>1. CleanInv /\ TypeOK
    BY CleanInit, TypeInit DEF Init, TypeOK, Snapshots, NoSnapshot
  <2>2. NamesKept /\ ClientKept /\ AloneKept
    BY DEF Init, NamesKept, ClientKept, AloneKept, Stopping, ClientDeleted
  <2> QED
    BY <2>1, <2>2 DEF ShutdownInv
<1> QED
  BY <1>1, <1>2, SnapshotStep, PTL DEF Spec
-----------------------------------------------------------------------------
(***************************************************************************)
(* A call to the AS is one of ResourceRegistry                             *)
(***************************************************************************)
\* A call that is not over is at a label of such a call, and the resource whose id
\* is about to be stored is still there: only who has that id can delete it.
CallsInOrder ==
  /\ ~Running => DOMAIN ids = {}
  /\ \A p \in Procs :
       /\ loc[p].op \in {"register", "delete"} => pc[p] \notin OutsideLabels
       /\ ~(loc[p].op = "register" /\ pc[p] = "lookup")
       /\ ~(loc[p].op = "delete" /\ pc[p] = "sync")
       /\ pc[p] = "keepId" => OfThisLife(loc[p].res)

\* What a call relies on to succeed: its PAT is that of the registered client,
\* and a 409 leads to a resource that is there, under its name.
CallsAuthorized ==
  phase = "serving" =>
    \A p \in Procs : pc[p] \in {"call", "adopt"} => loc[p].cred = asClient

ConflictsResolve ==
  NamesAreIds =>
    /\ \A n \in DOMAIN resources : resources[n].id = n
    /\ \A p \in Procs :
         pc[p] = "adopt" => loc[p].res \in DOMAIN resources /\ loc[p].rid = loc[p].res

CallsInv == DeletersInv /\ CallsInOrder /\ CallsAuthorized /\ ConflictsResolve

\* While a resource is being registered no one deletes it.
LEMMA DeletionIsOfStored ==
  ASSUME OneRegistrar, DeletersKnow, NEW p \in Procs, NEW q \in Procs,
         RemoveResource(p), loc[p].op = "delete", pc[p] = "call",
         pc[q] \in {"adopt", "keepId"}
  PROVE  loc[q].res # loc[p].res
BY DEF OneRegistrar, DeletersKnow

\* So the steps of the goroutines keep the calls in order.
LEMMA CallsInOrderStep ==
  ASSUME StateType, OneRegistrar, DeletersKnow, CallsInOrder, Running, NEW p \in Procs, Step(p)
  PROVE  CallsInOrder'
<1>1. Running' /\ life' = life
  BY StepIsOwn DEF Running
<1>2. ASSUME NEW q \in Procs, loc'[q].op \in {"register", "delete"}
      PROVE  /\ pc'[q] \notin OutsideLabels
             /\ loc'[q].op = "register" => pc'[q] # "lookup"
             /\ loc'[q].op = "delete" => pc'[q] # "sync"
  <2>1. CASE q = p
    <3>1. loc'[p].op = "delete" => pc'[p] # "sync"
      BY RegistryMoves DEF Registers, Stores, Deletes, Forgets, Loses, Rests, NoLocals, In
    <3> QED
      BY <1>2, <2>1, <3>1, StepIsOwn DEF NoLocals, In
  <2>2. CASE q # p
    BY <1>2, <2>2, StepIsOwn DEF CallsInOrder
  <2> QED
    BY <2>1, <2>2
<1>3. ASSUME NEW q \in Procs, pc'[q] = "keepId" PROVE OfThisLife(loc[q].res)'
  <2>1. CASE q = p
    <3>1. Registers(p)
      BY <1>3, <2>1, RegistryMoves DEF Stores, Deletes, Forgets, Loses, Rests
    <3> QED
      BY <1>1, <2>1, <3>1 DEF Registers, RegistersAtAS, Assign, OfThisLife
  <2>2. CASE q # p
    <3>1. pc[q] = "keepId" /\ loc'[q] = loc[q] /\ OfThisLife(loc[q].res)
      BY <1>3, <2>2, StepIsOwn DEF CallsInOrder
    <3>2. CASE RegistersAtAS(p)
      BY <1>1, <3>1, <3>2 DEF RegistersAtAS, Assign, OfThisLife
    <3>3. CASE RemoveResource(p) /\ loc[p].op = "delete" /\ pc[p] = "call"
      <4>1. loc[q].res # loc[p].res
        BY <3>1, <3>3, DeletionIsOfStored
      <4> QED
        BY <1>1, <3>1, <3>3, <4>1 DEF RemoveResource, Drop, OfThisLife
    <3>4. CASE UNCHANGED resources
      BY <1>1, <3>1, <3>4 DEF OfThisLife
    <3> QED
      BY <3>2, <3>3, <3>4, RegistryMoves
      DEF Registers, Stores, Deletes, Forgets, Loses, Rests
  <2> QED
    BY <2>1, <2>2
<1> QED
  BY <1>1, <1>2, <1>3 DEF CallsInOrder

\* The other steps begin calls and end none but with the process.
LEMMA CallsInOrderElse ==
  ASSUME StateType, CallsInOrder, Action, ~\E p \in Procs : Running /\ Step(p)
  PROVE  CallsInOrder'
<1> USE DEF CallsInOrder, OutsideLabels
<1>1. ASSUME NEW h \in Handlers, Begin(h), Running PROVE CallsInOrder'
  <2>1. /\ pc'[h] \in {"pat", "lookup"} /\ phase' = phase
        /\ pc'[h] = "lookup" => loc'[h].op # "register"
        /\ UNCHANGED <<resources, life>>
        /\ \A q \in Procs : q # h => pc'[q] = pc[q] /\ loc'[q] = loc[q]
    BY <1>1 DEF Begin, Enter, In, Goto, StateType, GoroutinesType, Procs, asVars, processVars
  <2> QED
    BY <1>1, <2>1 DEF OfThisLife, Running
<1>2. CASE Running /\ (Signal \/ NextResource \/ ReadClient \/ DeleteClient \/ ClearClient)
  <2>1. /\ Running' /\ UNCHANGED <<resources, life>> /\ Main \in Procs
        /\ \A q \in Procs : q # Main => pc'[q] = pc[q] /\ loc'[q] = loc[q]
        /\ pc'[Main] # "keepId"
        /\ loc'[Main].op \in {"register", "delete"} =>
             loc'[Main].op = "delete" /\ pc'[Main] = "lookup"
    BY <1>2
    DEF Signal, NextResource, ReadClient, DeleteClient, ClearClient, EndCleanup, Continue,
        ContinueAs, GoOn, Goto, Enter, In, NoLocals, At, Procs, StateType, GoroutinesType,
        Locals, Running, asVars, processVars
  <2> QED
    BY <2>1 DEF OfThisLife
<1>3. CASE Expire
  BY <1>3 DEF Expire, asVars, processVars, OfThisLife, Running
<1>4. CASE Exit \/ Crash
  BY <1>4 DEF Exit, Crash, End, EmptyMap, NoLocals, In
<1>5. CASE Start
  <2>1. /\ Running' /\ Main \in Procs
        /\ \A q \in Procs : q # Main => pc'[q] = pc[q] /\ loc'[q] = loc[q]
        /\ pc'[Main] = "pat"
    BY <1>5 DEF Start, Enter, Goto, StateType, GoroutinesType, Procs, Running
  <2>2. \A q \in Procs : pc'[q] # "keepId"
    BY <1>5, <2>1
    DEF Start, StateType, GoroutinesType, AllIdle, Idle, Procs, Running, Phases
  <2> QED
    BY <2>1, <2>2
<1> QED
  BY <1>1, <1>2, <1>3, <1>4, <1>5 DEF Action, Cleanup

\* A process that serves has its client, and a call gets the PAT of that client.
LEMMA CallsAuthorizedStep ==
  ASSUME CredentialsInv, CallsAuthorized, NEW p \in Procs, Step(p)
  PROVE  CallsAuthorized'
<1>0. /\ StateType
      /\ phase = "serving" =>
           /\ {client, token} \subseteq {0, asClient} /\ pc[p] \notin RegisteringLabels
           /\ pc[p] \in {"requestToken", "keepToken"} => loc[p].cred = asClient
           /\ \A q \in Procs : pc[q] \in {"call", "adopt"} => loc[q].cred = asClient
  BY DEF CredentialsInv, ClientIsRegistered, OnlyStartRegisters, BeforeClientIsDeleted,
         CallsAuthorized
<1>00. phase' = "serving" /\ phase # "serving" =>
         \A q \in Procs : pc'[q] \notin {"call", "adopt"}
  <2> SUFFICES ASSUME phase' = "serving", phase # "serving", NEW q \in Procs
               PROVE  pc'[q] \notin {"call", "adopt"}
    OBVIOUS
  <2>1. phase = "starting" /\ \A h \in Handlers : pc[h] = "idle"
    BY <1>0, StepIsOwn DEF StateType, GoroutinesType, AllIdle, Idle
  <2>2. p = Main
    BY <1>0, <2>1, StepIsOwn DEF Procs
  <2>3. CASE q # Main
    BY <1>0, <2>1, <2>2, <2>3, StepIsOwn DEF Procs
  <2>4. CASE q = Main
    BY <1>0, <2>1, <2>2, <2>4, StepIsOwn
  <2> QED
    BY <2>3, <2>4
<1> SUFFICES ASSUME phase = "serving", phase' = "serving",
                    NEW q \in Procs, pc'[q] \in {"call", "adopt"}
             PROVE  loc'[q].cred = asClient'
  BY <1>00 DEF CallsAuthorized
<1> USE <1>0 DEF Return, Fail, GoOn, Continue, ContinueAs, ContinueWith, Goto, Call, asVars,
    processVars, At, StateType, GoroutinesType, Locals, AfterPAT, RegisteringLabels
<1>1. CASE GetPAT(p)
  BY <1>1 DEF GetPAT
<1>2. CASE PostClient(p)
  BY <1>2 DEF PostClient
<1>3. CASE FindClient(p)
  BY <1>3 DEF FindClient
<1>4. CASE DropClient(p)
  BY <1>4 DEF DropClient
<1>5. CASE RetryClient(p)
  BY <1>5 DEF RetryClient
<1>6. CASE KeepClient(p)
  BY <1>6 DEF KeepClient
<1>7. CASE RequestToken(p)
  BY <1>7 DEF RequestToken
<1>8. CASE KeepToken(p)
  BY <1>8 DEF KeepToken
<1>9. CASE PostResource(p)
  BY <1>9 DEF PostResource
<1>10. CASE Adopt(p)
  BY <1>10 DEF Adopt
<1>11. CASE KeepId(p)
  BY <1>11 DEF KeepId
<1>12. CASE Sync(p)
  BY <1>12 DEF Sync
<1>13. CASE Lookup(p)
  BY <1>13 DEF Lookup
<1>14. CASE PutResource(p)
  BY <1>14 DEF PutResource
<1>15. CASE DeleteResource(p)
  BY <1>15 DEF DeleteResource
<1>16. CASE Forget(p)
  BY <1>16 DEF Forget
<1>17. CASE Ask(p)
  BY <1>17 DEF Ask
<1> QED
  BY <1>1, <1>2, <1>3, <1>4, <1>5, <1>6, <1>7, <1>8, <1>9, <1>10, <1>11, <1>12, <1>13,
      <1>14, <1>15, <1>16, <1>17
  DEF Step

\* A registration under way finds its resource under its name: it looks no id
\* up, since the server has none, and no one deletes the resource meanwhile.
LEMMA ConflictsResolveStep ==
  ASSUME StateType, OneRegistrar, DeletersKnow, ConflictsResolve, NEW p \in Procs, Step(p)
  PROVE  ConflictsResolve'
<1> SUFFICES ASSUME NamesAreIds
             PROVE  /\ \A n \in DOMAIN resources' : resources'[n].id = n
                    /\ \A q \in Procs : pc'[q] = "adopt" =>
                         loc'[q].res \in DOMAIN resources' /\ loc'[q].rid = loc'[q].res
  BY DEF ConflictsResolve
<1>0. /\ \A n \in DOMAIN resources : resources[n].id = n
      /\ \A q \in Procs :
           pc[q] = "adopt" => loc[q].res \in DOMAIN resources /\ loc[q].rid = loc[q].res
  BY DEF ConflictsResolve
<1>1. ASSUME NEW n \in DOMAIN resources' PROVE resources'[n].id = n
  <2>1. CASE RegistersAtAS(p)
    <3>1. NewId(p) = loc[p].res
      BY <1>0, <2>1 DEF RegistersAtAS, NewId, AsId
    <3> QED
      BY <1>0, <1>1, <2>1, <3>1 DEF RegistersAtAS, Assign
  <2>2. CASE RemoveResource(p)
    BY <1>0, <1>1, <2>2 DEF RemoveResource, Drop
  <2>3. CASE UNCHANGED resources
    BY <1>0, <1>1, <2>3
  <2> QED
    BY <2>1, <2>2, <2>3, RegistryMoves DEF Registers, Stores, Deletes, Forgets, Loses, Rests
<1>2. ASSUME NEW q \in Procs, pc'[q] = "adopt"
      PROVE  loc'[q].res \in DOMAIN resources' /\ loc'[q].rid = loc'[q].res
  <2>1. CASE q = p
    <3>1. Rests(p)
      BY <1>2, <2>1, RegistryMoves DEF Registers, Stores, Deletes, Forgets, Loses
    <3>2. loc'[p].res = loc[p].res /\ pc[p] # "sync"
      BY <1>2, <2>1, <3>1, StepIsOwn DEF Rests, NoLocals, In
    <3>3. loc[p].res \notin DOMAIN ids
      BY <1>2, <2>1, <3>1, <3>2 DEF Rests, OneRegistrar
    <3> QED
      BY <1>2, <2>1, <3>1, <3>2, <3>3 DEF Rests, AuthorizationResourceID
  <2>2. CASE q # p
    <3>1. pc[q] = "adopt" /\ loc'[q] = loc[q]
      BY <1>2, <2>2, StepIsOwn
    <3>2. CASE RegistersAtAS(p)
      BY <1>0, <3>1, <3>2 DEF RegistersAtAS, Assign
    <3>3. CASE RemoveResource(p) /\ loc[p].op = "delete" /\ pc[p] = "call"
      <4>1. loc[q].res # loc[p].res
        BY <3>1, <3>3, DeletionIsOfStored
      <4> QED
        BY <1>0, <3>1, <3>3, <4>1 DEF RemoveResource, Drop
    <3>4. CASE UNCHANGED resources
      BY <1>0, <3>1, <3>4
    <3> QED
      BY <3>2, <3>3, <3>4, RegistryMoves DEF Registers, Stores, Deletes, Forgets, Loses, Rests
  <2> QED
    BY <2>1, <2>2
<1> QED
  BY <1>1, <1>2

\* The steps that are no goroutine's in a call: they change no resource, and
\* lead no one to a call.
LEMMA ElsewhereKeeps ==
  ASSUME StateType, StartComesFirst, CallsAuthorized, ConflictsResolve, Action,
         ~\E p \in Procs : Running /\ Step(p)
  PROVE  CallsAuthorized' /\ ConflictsResolve'
<1> USE DEF CallsAuthorized, ConflictsResolve
<1> SUFFICES /\ UNCHANGED resources
             /\ phase' = "serving" => UNCHANGED <<phase, asClient>>
             /\ \A q \in Procs : pc'[q] \in {"call", "adopt"} => pc'[q] = pc[q] /\ loc'[q] = loc[q]
  OBVIOUS
<1> USE DEF StateType, GoroutinesType, asVars, processVars, Goto, Enter, At
<1>1. ASSUME NEW h \in Handlers, Begin(h)
      PROVE  /\ UNCHANGED <<resources, phase, asClient>>
             /\ \A q \in Procs :
                  pc'[q] \in {"call", "adopt"} => pc'[q] = pc[q] /\ loc'[q] = loc[q]
  BY <1>1 DEF Begin, Procs
<1>2. CASE Signal \/ NextResource \/ ReadClient \/ DeleteClient \/ ClearClient
  <2>1. /\ UNCHANGED resources
        /\ phase' = "serving" => UNCHANGED <<phase, asClient>>
    BY <1>2
    DEF Signal, NextResource, ReadClient, DeleteClient, ClearClient, EndCleanup, Continue,
        ContinueAs, GoOn, StartComesFirst, serverVars
  <2> QED
    BY <1>2, <2>1
    DEF Signal, NextResource, ReadClient, DeleteClient, ClearClient, EndCleanup, Continue,
        ContinueAs, GoOn, Procs
<1>3. CASE Expire
  BY <1>3 DEF Expire
<1>4. CASE Exit \/ Crash
  BY <1>4 DEF Exit, Crash, End
<1>5. CASE Start
  BY <1>5 DEF Start, Procs
<1> QED
  BY <1>1, <1>2, <1>3, <1>4, <1>5 DEF Action, Cleanup

\* Before the first start there are no calls.
LEMMA CallsInit == Init => CallsInv
<1> SUFFICES ASSUME Init PROVE CallsInv
  OBVIOUS
<1>1. DeletersInv
  BY DeletersInit
<1>2. CallsInOrder /\ CallsAuthorized
  BY DEF Init, CallsInOrder, CallsAuthorized, OutsideLabels, EmptyMap, NoLocals, In, Procs, Running
<1>3. ConflictsResolve
  BY DEF Init, ConflictsResolve, EmptyMap, Procs
<1> QED
  BY <1>1, <1>2, <1>3 DEF CallsInv

\* Every step keeps all of it.
LEMMA CallsStep == CallsInv /\ [Action]_stateVars => CallsInv'
<1> SUFFICES ASSUME CallsInv, [Action]_stateVars
             PROVE  CallsInOrder' /\ CallsAuthorized' /\ ConflictsResolve'
  <2>1. CallsInv /\ [Action]_stateVars => DeletersInv'
    BY DeletersStep DEF CallsInv
  <2> QED
    BY <2>1 DEF CallsInv
<1>0. /\ StateType /\ CredentialsInv /\ StartComesFirst /\ OneRegistrar /\ DeletersKnow
      /\ CallsInOrder /\ CallsAuthorized /\ ConflictsResolve
  BY DEF CallsInv, DeletersInv, IInv, CredentialsInv, RegistrationInv
<1>1. ASSUME NEW p \in Procs, Running, Step(p)
      PROVE  CallsInOrder' /\ CallsAuthorized' /\ ConflictsResolve'
  BY <1>0, <1>1, CallsInOrderStep, CallsAuthorizedStep, ConflictsResolveStep
<1>2. CASE Action /\ ~\E p \in Procs : Running /\ Step(p)
  BY <1>0, <1>2, CallsInOrderElse, ElsewhereKeeps
<1>3. CASE UNCHANGED stateVars
  <2>1. UNCHANGED <<resources, ids, asClient, life, phase, pc, loc>>
    BY <1>3 DEF stateVars, serverVars, asVars, processVars
  <2> QED
    BY <1>0, <2>1 DEF CallsInOrder, CallsAuthorized, ConflictsResolve, OfThisLife, Running
<1> QED
  BY <1>1, <1>2, <1>3

\* Of the registry, as ResourceRegistry has it, a step changes this. What is
\* registered at the AS counts when its id is stored.
LEMMA HeldMoves ==
  ASSUME OneRegistrar, DeletersKnow, CallsInOrder, NEW p \in Procs, life' = life
  PROVE  /\ RegistersAtAS(p) => Held' = Held
         /\ Stores(p) => Held' = Held \cup {loc[p].res}
         /\ RemoveResource(p) /\ UNCHANGED ids /\ loc[p].op = "delete" /\ pc[p] = "call" =>
              Held' = Held \ {loc[p].res}
         /\ Forgets(p) => Held' = Held
         /\ UNCHANGED <<resources, ids>> => Held' = Held
<1>1. ASSUME RegistersAtAS(p) PROVE Held' = Held
  <2>1. loc[p].res \notin DOMAIN ids
    BY <1>1 DEF RegistersAtAS, OneRegistrar
  <2> QED
    BY <1>1, <2>1 DEF RegistersAtAS, Held, Assign
<1>2. ASSUME Stores(p) PROVE Held' = Held \cup {loc[p].res}
  <2>1. OfThisLife(loc[p].res)
    BY <1>2 DEF Stores, CallsInOrder
  <2> QED
    BY <1>2, <2>1 DEF Stores, Held, Assign, OfThisLife
<1>3. ASSUME RemoveResource(p), UNCHANGED ids, loc[p].op = "delete", pc[p] = "call"
      PROVE  Held' = Held \ {loc[p].res}
  <2>1. CASE HasId(loc[p].res, loc[p].rid)
    BY <1>3, <2>1 DEF RemoveResource, Held, Drop
  <2>2. CASE ~HasId(loc[p].res, loc[p].rid)
    <3>1. loc[p].res \notin Held
      BY <1>3, <2>2 DEF DeletersKnow, HasId, Held, OfThisLife
    <3> QED
      BY <1>3, <2>2, <3>1 DEF RemoveResource, Held
  <2> QED
    BY <2>1, <2>2
<1>4. ASSUME Forgets(p) PROVE Held' = Held
  <2>1. loc[p].res \notin Held
    BY <1>4 DEF Forgets, DeletersKnow, Held, OfThisLife
  <2> QED
    BY <1>4, <2>1 DEF Forgets, Held, Drop
<1>5. UNCHANGED <<resources, ids>> => Held' = Held
  BY DEF Held
<1> QED
  BY <1>1, <1>2, <1>3, <1>4, <1>5

\* When one goroutine moves, the calls of the others stay as they are.
LEMMA PendingOfOthers ==
  ASSUME NEW p \in Procs, \A q \in Procs : q # p => pc'[q] = pc[q] /\ loc'[q] = loc[q]
  PROVE  /\ [q \in Procs |-> Pending(q)]' =
              [[q \in Procs |-> Pending(q)] EXCEPT ![p] = Pending(p)']
         /\ Pending(p)' = Pending(p) =>
              [q \in Procs |-> Pending(q)]' = [q \in Procs |-> Pending(q)]
<1>1. \A q \in Procs : q # p => Pending(q)' = Pending(q)
  BY DEF Pending, BeforeEffect
<1> QED
  BY <1>1

\* So one that has no call begins one of a resource, or has none still.
LEMMA BeginsCall ==
  ASSUME NEW p \in Procs, Held' = Held, Pending(p) = <<>>,
         \A q \in Procs : q # p => pc'[q] = pc[q] /\ loc'[q] = loc[q],
         loc'[p].op \in {"register", "delete"} => loc'[p].res \in Resources
  PROVE  [Registry!Next]_(Registry!registryVars)
<1>1. CASE Pending(p)' = <<>>
  BY <1>1, PendingOfOthers DEF Registry!registryVars
<1>2. CASE Pending(p)' # <<>>
  <2>1. Pending(p)' \in Registry!Calls
    BY <1>2 DEF Pending, BeforeEffect, Registry!Calls
  <2>2. Registry!Invoke(p)
    BY <2>1, PendingOfOthers DEF Registry!Invoke, Registry!NoCall
  <2> QED
    BY <2>2 DEF Registry!Next
<1> QED
  BY <1>1, <1>2

\* The end of a call that had no effect: with an error, or after a deletion
\* found that there is nothing to delete.
LEMMA EndsCall ==
  ASSUME NEW p \in Procs, Held' = Held, Pending(p) # <<>>, Pending(p)' = <<>>,
         \A q \in Procs : q # p => pc'[q] = pc[q] /\ loc'[q] = loc[q],
         CallsMayFail \/ (loc[p].op = "delete" /\ loc[p].res \notin Held)
  PROVE  Registry!Next
<1>1. Registry!Finish(p)
  BY PendingOfOthers DEF Registry!Finish, Registry!NoCall
<1>2. CASE CallsMayFail
  BY <1>1, <1>2 DEF Registry!FailWithoutEffect, Registry!NoCall, Registry!Next
<1>3. CASE loc[p].op = "delete" /\ loc[p].res \notin Held
  <2>1. Pending(p) = <<"delete", loc[p].res>>
    BY <1>3 DEF Pending
  <2>2. Registry!Effect(Pending(p)) = Held \ {loc[p].res}
    BY <2>1 DEF Registry!Effect
  <2>3. Registry!TakeEffect(p)
    BY <1>1, <1>3, <2>2 DEF Registry!TakeEffect, Registry!NoCall
  <2> QED
    BY <2>3 DEF Registry!Next
<1> QED
  BY <1>2, <1>3

\* In a mode in which no call may fail, who is in a call has what it needs: a
\* client that the AS has registered, or the PAT of that client.
LEMMA CallsAreReady ==
  ASSUME ~CallsMayFail, CallsInv, CleanInv, Running, NEW p \in Procs, BeforeEffect(p),
         pc[p] \notin OutsideLabels
  PROVE  /\ ~asError /\ client = asClient /\ client # 0 /\ token \in {0, asClient}
         /\ pc[p] \notin RegisteringLabels
         /\ pc[p] \in {"requestToken", "keepToken", "call", "adopt"} => loc[p].cred = asClient
<1>1. Working /\ ~Overlap
  BY DEF CallsMayFail, Working, CleanInv
<1>2. /\ StateType /\ ~asError /\ p \in Procs
      /\ phase \in {"starting", "serving", "cleaning", "draining"}
      /\ phase \in {"starting", "cleaning", "draining"} => p = Main
  BY <1>1, WorkingFacts DEF OutsideLabels, Working, ShutdownProgress, AllIdle, Idle, Procs
<1>3. phase \in {"serving", "cleaning"}
  <2>1. phase # "starting"
    BY <1>2 DEF BeforeEffect, CleanInv, ReadyInv, CredentialsInv, StartComesFirst
  <2>2. phase # "draining"
    BY <1>2 DEF CleanInv, ShutdownProgress, OutsideLabels
  <2> QED
    BY <1>2, <2>1, <2>2
<1>4. BeforeClientIsDeleted
  BY <1>2, <1>3 DEF BeforeClientIsDeleted, OutsideLabels
<1>5. pc[p] \in {"call", "adopt"} => loc[p].cred = asClient
  BY <1>2, <1>3
  DEF CallsInv, CallsAuthorized, CleanInv, ShutdownProgress, DeletingLabels, OutsideLabels
<1> QED
  BY <1>1, <1>2, <1>3, <1>4, <1>5, WorkingFacts

\* There a call has its effect before it ends, but a deletion that finds no id.
LEMMA NoCallFails ==
  ASSUME ~CallsMayFail, CallsInv, CleanInv, Running, NEW p \in Procs, Step(p),
         BeforeEffect(p), loc'[p] = NoLocals, Rests(p)
  PROVE  loc[p].op = "delete" /\ loc[p].res \notin DOMAIN ids
<1>a. pc[p] \notin OutsideLabels /\ StateType
  BY DEF CallsInv, CallsInOrder, BeforeEffect, DeletersInv, IInv, CredentialsInv
<1>b. /\ ~StartFailed /\ ~Refused /\ ~Lost /\ client # 0 /\ token \in {0, asClient}
      /\ pc[p] \notin RegisteringLabels
      /\ pc[p] \in {"requestToken", "call", "adopt"} =>
           loc[p].cred = asClient /\ ~PATRefused(p)
  BY <1>a, CallsAreReady DEF StartFailed, Refused, Lost, PATRefused, CallsMayFail
<1>c. pc[p] = "adopt" => HasId(loc[p].res, loc[p].rid)
  BY DEF CallsInv, ConflictsResolve, CallsMayFail, HasId
<1>d. /\ loc[p].op \in {"register", "delete"} /\ loc[p] # NoLocals
      /\ pc[p] = "lookup" => loc[p].op = "delete"
      /\ pc[p] # "sync"
  BY DEF BeforeEffect, NoLocals, In, CallsInv, CallsInOrder
<1> USE <1>a, <1>b, <1>c, <1>d
    DEF Return, Fail, GoOn, Continue, ContinueAs, ContinueWith, Goto, Call, asVars,
        processVars, At, AfterPAT, RegisteringLabels, NoLocals, In, BeforeEffect, Rests,
        StateType, GoroutinesType, Locals
<1>1. CASE GetPAT(p)
  BY <1>1 DEF GetPAT
<1>2. CASE PostClient(p)
  BY <1>2 DEF PostClient
<1>3. CASE FindClient(p)
  BY <1>3 DEF FindClient
<1>4. CASE DropClient(p)
  BY <1>4 DEF DropClient
<1>5. CASE RetryClient(p)
  BY <1>5 DEF RetryClient
<1>6. CASE KeepClient(p)
  BY <1>6 DEF KeepClient
<1>7. CASE RequestToken(p)
  BY <1>7 DEF RequestToken
<1>8. CASE KeepToken(p)
  BY <1>8 DEF KeepToken
<1>9. CASE PostResource(p)
  BY <1>9 DEF PostResource
<1>10. CASE Adopt(p)
  BY <1>10 DEF Adopt
<1>11. CASE KeepId(p)
  BY <1>11 DEF KeepId
<1>12. CASE Sync(p)
  BY <1>12 DEF Sync
<1>13. CASE Lookup(p)
  BY <1>13 DEF Lookup
<1>14. CASE PutResource(p)
  BY <1>14 DEF PutResource
<1>15. CASE DeleteResource(p)
  BY <1>15 DEF DeleteResource
<1>16. CASE Forget(p)
  BY <1>16 DEF Forget
<1>17. CASE Ask(p)
  BY <1>17 DEF Ask
<1> QED
  BY <1>1, <1>2, <1>3, <1>4, <1>5, <1>6, <1>7, <1>8, <1>9, <1>10, <1>11, <1>12, <1>13,
      <1>14, <1>15, <1>16, <1>17
  DEF Step

\* A step of a goroutine is a step of the registry, or leaves it alone.
LEMMA StepImplements ==
  ASSUME CallsInv, ~CallsMayFail => CleanInv, Running, NEW p \in Procs, Step(p)
  PROVE  [Registry!Next]_(Registry!registryVars)
<1>0. StateType /\ OneRegistrar /\ DeletersKnow /\ CallsInOrder
  BY DEF CallsInv, DeletersInv, IInv, CredentialsInv, RegistrationInv
<1>1. /\ \A q \in Procs : q # p => pc'[q] = pc[q] /\ loc'[q] = loc[q]
      /\ life' = life
  BY <1>0, StepIsOwn
<1> USE DEF Pending, BeforeEffect
<1>2. ASSUME Pending(p)' = Pending(p), Held' = Held
      PROVE  [Registry!Next]_(Registry!registryVars)
  BY <1>1, <1>2, PendingOfOthers DEF Registry!registryVars
<1>3. ASSUME Pending(p) # <<>>, Pending(p)' = <<>>, Held' = Registry!Effect(Pending(p))
      PROVE  Registry!Next
  <2>1. Registry!Finish(p)
    BY <1>1, <1>3, PendingOfOthers DEF Registry!Finish, Registry!NoCall
  <2>2. Registry!TakeEffect(p)
    BY <1>3, <2>1 DEF Registry!TakeEffect, Registry!NoCall
  <2> QED
    BY <2>2 DEF Registry!Next
<1>4. CASE Registers(p)
  <2>1. Pending(p)' = Pending(p) /\ Held' = Held
    BY <1>0, <1>1, <1>4, HeldMoves DEF Registers, RegistersAtAS
  <2> QED
    BY <1>2, <2>1
<1>5. CASE Stores(p)
  <2>1. Pending(p) = <<"register", loc[p].res>> /\ Pending(p)' = <<>>
    BY <1>5 DEF Stores
  <2>2. Held' = Registry!Effect(Pending(p))
    BY <1>0, <1>1, <1>5, <2>1, HeldMoves DEF Registry!Effect
  <2> QED
    BY <1>3, <2>1, <2>2
<1>6. CASE /\ RemoveResource(p) /\ UNCHANGED ids /\ loc[p].op = "delete" /\ pc[p] = "call"
           /\ (pc'[p] = "forget" /\ loc'[p] = loc[p]) \/ loc'[p] = NoLocals
  <2>1. Pending(p) = <<"delete", loc[p].res>> /\ Pending(p)' = <<>>
    BY <1>6 DEF NoLocals, In
  <2>2. Held' = Registry!Effect(Pending(p))
    BY <1>0, <1>1, <1>6, <2>1, HeldMoves DEF Registry!Effect
  <2> QED
    BY <1>3, <2>1, <2>2
<1>7. CASE Forgets(p)
  <2>1. Pending(p)' = Pending(p) /\ Held' = Held
    BY <1>0, <1>1, <1>7, HeldMoves DEF Forgets, DeletersKnow, NoLocals, In
  <2> QED
    BY <1>2, <2>1
<1>8. CASE Loses(p) /\ RegistersAtAS(p)
  <2>1. Pending(p) # <<>> /\ Pending(p)' = <<>> /\ Held' = Held
    BY <1>0, <1>1, <1>8, HeldMoves DEF Loses, RegistersAtAS, NoLocals, In
  <2>2. CallsMayFail
    BY <1>8 DEF Loses, Lost, CallsMayFail
  <2> QED
    BY <1>1, <2>1, <2>2, EndsCall
<1>9. CASE Rests(p)
  <2>1. Held' = Held
    BY <1>0, <1>1, <1>9, HeldMoves DEF Rests
  <2>2. CASE loc'[p] = NoLocals /\ BeforeEffect(p)
    <3>1. Pending(p) # <<>> /\ Pending(p)' = <<>>
      BY <2>2 DEF NoLocals, In
    <3>2. CallsMayFail \/ (loc[p].op = "delete" /\ loc[p].res \notin Held)
      BY <1>9, <2>2, NoCallFails DEF Held
    <3> QED
      BY <1>1, <2>1, <3>1, <3>2, EndsCall
  <2>3. CASE loc'[p] = NoLocals /\ ~BeforeEffect(p)
    <3>1. Pending(p)' = Pending(p)
      BY <2>3 DEF NoLocals, In
    <3> QED
      BY <1>2, <2>1, <3>1
  <2>4. CASE loc'[p] # NoLocals
    <3>1. loc'[p].op = loc[p].op /\ loc'[p].res = loc[p].res /\ pc[p] # "sync"
      BY <1>0, <2>4, StepIsOwn
    <3>2. Pending(p)' = Pending(p)
      BY <1>9, <3>1 DEF Rests
    <3> QED
      BY <1>2, <2>1, <3>2
  <2> QED
    BY <2>2, <2>3, <2>4
<1> QED
  BY <1>0, <1>4, <1>5, <1>6, <1>7, <1>8, <1>9, RegistryMoves DEF Deletes, Loses

\* So is any other: a request or Shutdown begins a call, and the registry ends
\* with the process.
LEMMA ElsewhereImplements ==
  ASSUME CallsInv, Action, ~\E p \in Procs : Running /\ Step(p)
  PROVE  [Registry!Next]_(Registry!registryVars)
<1>0. StateType /\ CallsInOrder /\ Main \in Procs
  BY DEF CallsInv, DeletersInv, IInv, CredentialsInv, Procs
<1>1. ASSUME NEW h \in Handlers, Begin(h) PROVE [Registry!Next]_(Registry!registryVars)
  <2>1. /\ UNCHANGED <<ids, resources, life>> /\ pc[h] = "idle" /\ h \in Procs
        /\ \A q \in Procs : q # h => pc'[q] = pc[q] /\ loc'[q] = loc[q]
        /\ loc'[h].res \in Resources
    BY <1>0, <1>1
    DEF Begin, Enter, In, Goto, Idle, Procs, StateType, GoroutinesType, asVars, processVars
  <2>2. Pending(h) = <<>> /\ Held' = Held
    BY <1>0, <2>1 DEF Pending, BeforeEffect, Held, CallsInOrder, OutsideLabels
  <2> QED
    BY <2>1, <2>2, BeginsCall
<1>2. CASE Signal \/ NextResource \/ ReadClient \/ DeleteClient \/ ClearClient
  <2>1. /\ UNCHANGED <<ids, resources, life>> /\ pc[Main] \in OutsideLabels
        /\ \A q \in Procs : q # Main => pc'[q] = pc[q] /\ loc'[q] = loc[q]
        /\ loc'[Main].op \in {"register", "delete"} =>
             loc'[Main].res \in Resources \/ loc'[Main].op = loc[Main].op
    BY <1>0, <1>2
    DEF Signal, NextResource, ReadClient, DeleteClient, ClearClient, EndCleanup, Continue,
        ContinueAs, GoOn, Goto, Enter, In, NoLocals, At, Procs, StateType, GoroutinesType,
        Locals, OutsideLabels, asVars, processVars, serverVars
  <2>2. Pending(Main) = <<>> /\ Held' = Held /\ loc[Main].op \notin {"register", "delete"}
    BY <1>0, <2>1 DEF Pending, BeforeEffect, Held, CallsInOrder
  <2> QED
    BY <1>0, <2>1, <2>2, BeginsCall
<1>3. CASE Expire
  BY <1>3
  DEF Expire, asVars, processVars, Held, Pending, BeforeEffect, Registry!registryVars
<1>4. CASE Exit \/ Crash
  <2>1. Held' = {} /\ \A p \in Procs : Pending(p)' = <<>>
    BY <1>4 DEF Exit, Crash, End, EmptyMap, Held, Pending, BeforeEffect, NoLocals, In
  <2> QED
    BY <2>1 DEF Registry!Next, Registry!Stop, Registry!NoCall
<1>5. CASE Start
  <2>1. /\ Held = {} /\ Held' = {}
        /\ \A q \in Procs : q # Main => pc'[q] = pc[q] /\ loc'[q] = loc[q]
        /\ pc[Main] = "idle" /\ loc'[Main].op = "start"
    BY <1>0, <1>5
    DEF Start, CallsInOrder, Held, Enter, In, Goto, StateType, GoroutinesType, Procs,
        serverVars, StartComesFirst, CallsInv, DeletersInv, IInv, CredentialsInv, Idle
  <2>2. Pending(Main) = <<>>
    BY <1>0, <2>1 DEF Pending, BeforeEffect, CallsInOrder, OutsideLabels
  <2> QED
    BY <1>0, <2>1, <2>2, BeginsCall
<1> QED
  BY <1>1, <1>2, <1>3, <1>4, <1>5 DEF Action, Cleanup

\* The invariant all of it rests on.
RefinementInv == CallsInv /\ (~CallsMayFail => CleanInv)

\* Each of its parts is inductive in its mode.
LEMMA RefinementInvariant == Spec => []RefinementInv
<1>1. Init => RefinementInv
  BY CallsInit, CleanInit DEF RefinementInv
<1>2. RefinementInv /\ [Action]_stateVars => RefinementInv'
  BY CallsStep, CleanStep DEF RefinementInv, CallsMayFail
<1> QED
  BY <1>1, <1>2, NextActs, PTL DEF Spec

\* The registry starts empty.
LEMMA RegistryInit == Init => Registry!Init
<1> SUFFICES ASSUME Init PROVE Registry!Init
  OBVIOUS
<1>1. Held = {}
  BY DEF Init, Held, EmptyMap
<1>2. \A p \in Procs : Pending(p) = <<>>
  BY DEF Init, Pending, BeforeEffect, NoLocals, In, Procs
<1> QED
  BY <1>1, <1>2 DEF Registry!Init, Registry!NoCall

\* Every step is one of the registry's, or none.
LEMMA RegistryStep ==
  RefinementInv /\ [Action]_stateVars => [Registry!Next]_(Registry!registryVars)
<1> SUFFICES ASSUME RefinementInv, [Action]_stateVars
             PROVE  [Registry!Next]_(Registry!registryVars)
  OBVIOUS
<1>1. ASSUME NEW p \in Procs, Running, Step(p)
      PROVE  [Registry!Next]_(Registry!registryVars)
  BY <1>1, StepImplements DEF RefinementInv
<1>2. CASE Action /\ ~\E p \in Procs : Running /\ Step(p)
  BY <1>2, ElsewhereImplements DEF RefinementInv
<1>3. CASE UNCHANGED stateVars
  BY <1>3
  DEF stateVars, serverVars, asVars, processVars, Held, Pending, BeforeEffect,
      Registry!registryVars
<1> QED
  BY <1>1, <1>2, <1>3

\* What an answer said still holds when the server acts on it, whatever other
\* requests, failures, lost answers and restarts there are.
THEOREM AnswersAreActedOn == Spec => []AnswersStand
<1>1. CallsInv => AnswersStand
  BY DEF CallsInv, CallsInOrder, DeletersInv, IInv, RegistrationInv, OneRegistrar, DeletersKnow,
         AnswersStand, OfThisLife, At
<1> QED
  BY <1>1, CallsInit, CallsStep, NextActs, PTL DEF Spec

\* The client of the AS, with its PATs, its conflicts and its ids, is what the
\* handlers take it for: a call adds or removes one resource, at one moment,
\* or fails, and when nothing is amiss it does not fail.
THEOREM RegistryIsImplemented == Spec => ImplementsRegistry
  BY RegistryInit, RegistryStep, NextActs, RefinementInvariant, PTL
  DEF Spec, ImplementsRegistry, Registry!Spec
=============================================================================
