------------------------- MODULE ProtectionAPIProofs -------------------------
(***************************************************************************)
(* Theorems about ProtectionAPI, for every set of handlers and resources,  *)
(* every combination of faults and every number of restarts.               *)
(***************************************************************************)
EXTENDS ProtectionAPI, TLAPS

USE HandlersAssumption, FaultsAssumption, ModeAssumption, BoundsAssumption

LEMMA NoLocalsType == NoLocals \in Locals /\ \A o \in Ops, n \in Resources \cup {0} : In(o, n) \in Locals
  BY DEF Locals, NoLocals, In, Ops, Clients

LEMMA TypeInit == Init => StateType
<1> SUFFICES ASSUME Init PROVE StateType
  OBVIOUS
<1>1. loc \in [Procs -> Locals]
  BY NoLocalsType DEF Init, Procs, Ops
<1>2. /\ ids \in [DOMAIN ids -> AsIds] /\ DOMAIN ids \subseteq Resources
      /\ DOMAIN resources \subseteq Resources
      /\ \A n \in DOMAIN resources : resources[n] \in [id : AsIds, life : 1 .. life]
  BY DEF Init, EmptyMap
<1>3. pc \in [Procs -> Labels]
  BY DEF Init, Procs, Labels
<1>4. AllIdle /\ \A p \in Procs : pc[p] \in {"idle", "pat"} /\ loc[p].op \in {"none", "start"}
  BY DEF Init, Procs, AllIdle, Idle, NoLocals, In
<1>5. phase \in Phases /\ todo \subseteq Resources
  BY DEF Init, Phases
<1>6. /\ client \in Clients \cup {0} /\ token \in Clients \cup {0}
      /\ asClient \in Clients \cup {0} /\ lastClient \in 0 .. MaxClient
      /\ created \subseteq Resources /\ life \in Nat \ {0}
  BY DEF Init
<1>7. asError \in BOOLEAN
  BY DEF Init
<1> QED
  BY <1>1, <1>2, <1>3, <1>4, <1>5, <1>6, <1>7
  DEF StateType, FieldsType, GoroutinesType, ResourceOps, ResourceLabels

\* A goroutine changes its own locals, to values of their types.
LEMMA LocalsType ==
  ASSUME loc \in [Procs -> Locals], NEW p \in Procs
  PROVE /\ \A c \in Clients \cup {0} : [loc EXCEPT ![p].cred = c] \in [Procs -> Locals]
        /\ \A i \in AsIds \cup {NoId} : [loc EXCEPT ![p].rid = i] \in [Procs -> Locals]
        /\ \A o \in Ops, n \in Resources \cup {0} : [loc EXCEPT ![p] = In(o, n)] \in [Procs -> Locals]
        /\ [loc EXCEPT ![p] = NoLocals] \in [Procs -> Locals]
<1>1. \A c \in Clients \cup {0} : [loc EXCEPT ![p].cred = c] \in [Procs -> Locals]
  BY DEF Locals
<1>2. \A i \in AsIds \cup {NoId} : [loc EXCEPT ![p].rid = i] \in [Procs -> Locals]
  BY DEF Locals
<1> QED
  BY <1>1, <1>2, NoLocalsType
-----------------------------------------------------------------------------
(***************************************************************************)
(* What the ways a goroutine moves on do to the types.                     *)
(***************************************************************************)
LEMMA ReturnType ==
  ASSUME StateType, NEW p \in Procs, NEW ok \in BOOLEAN, Return(p, ok)
  PROVE GoroutinesType' /\ asError' \in BOOLEAN /\ life' = life
<1>1. asError' \in BOOLEAN
  <2>1. CASE phase = "starting"
    BY <2>1, Zenon DEF Return
  <2>2. CASE phase # "starting"
    BY <2>2, Zenon DEF Return, StateType
  <2> QED BY <2>1, <2>2
<1>2. loc' \in [Procs -> Locals]
  BY LocalsType DEF Return, StateType, GoroutinesType
<1>3. pc' \in [Procs -> Labels] /\ pc'[p] \in {"wait", "next", "idle"}
  BY DEF Return, Goto, StateType, GoroutinesType, Labels
<1>4. phase' \in Phases \ {"starting"} /\ todo' \subseteq Resources /\ life' = life
  BY DEF Return, StateType, GoroutinesType, Phases, processVars
<1>5. \A q \in Procs :
        /\ loc'[q].op \in ResourceOps => loc'[q].res \in Resources
        /\ pc'[q] \in ResourceLabels => loc'[q].op \in ResourceOps
        /\ pc'[q] \in {"adopt", "keepId"} => loc'[q].rid \in AsIds
  BY <1>3 DEF Return, Goto, StateType, GoroutinesType, NoLocals, In, ResourceOps, ResourceLabels
<1>6. phase' \in {"starting", "exited", "crashed"} => AllIdle'
  BY <1>4 DEF Return, Goto, processVars, StateType, GoroutinesType, AllIdle, Idle, Procs
<1> QED
  BY <1>1, <1>2, <1>3, <1>4, <1>5, <1>6 DEF GoroutinesType

LEMMA GoOnType ==
  ASSUME StateType, NEW p \in Procs, NEW l \in Labels, GoOn(p, l), pc[p] # "idle",
         loc' \in [Procs -> Locals],
         \A q \in Procs : loc'[q].res = loc[q].res /\ loc'[q].op = loc[q].op,
         \A q \in Procs \ {p} : loc'[q].rid = loc[q].rid,
         l \in {"adopt", "keepId"} => loc'[p].rid \in AsIds,
         l \in ResourceLabels => loc[p].op \in ResourceOps
  PROVE GoroutinesType' /\ asError' \in BOOLEAN /\ life' = life
<1>1. asError' \in BOOLEAN
  BY Zenon DEF GoOn, StateType
<1>2. pc' \in [Procs -> Labels] /\ pc' = [pc EXCEPT ![p] = l]
  BY DEF GoOn, Goto, StateType, GoroutinesType
<1>3. phase' = phase /\ life' = life /\ todo' = todo
  BY DEF GoOn, processVars
<1>4. phase' \in {"starting", "exited", "crashed"} => AllIdle'
  BY <1>2, <1>3 DEF StateType, GoroutinesType, AllIdle, Idle, Procs
<1>5. \A q \in Procs :
        /\ pc'[q] \in ResourceLabels => loc'[q].op \in ResourceOps
        /\ pc'[q] \in {"adopt", "keepId"} => loc'[q].rid \in AsIds
  BY <1>2 DEF StateType, GoroutinesType
<1> QED
  BY <1>1, <1>2, <1>3, <1>4, <1>5 DEF StateType, GoroutinesType

LEMMA ContinueType ==
  ASSUME StateType, NEW p \in Procs, NEW l \in Labels, pc[p] # "idle",
         l \in ResourceLabels => loc[p].op \in ResourceOps,
         l \in {"adopt", "keepId"} => loc'[p].rid \in AsIds,
         \/ Continue(p, l)
         \/ \E c \in Clients \cup {0} : ContinueAs(p, c, l)
         \/ \E i \in AsIds \cup {NoId} : ContinueWith(p, i, l)
  PROVE GoroutinesType' /\ asError' \in BOOLEAN /\ life' = life
<1>1. GoOn(p, l)
  BY DEF Continue, ContinueAs, ContinueWith
<1>2. loc' \in [Procs -> Locals]
  <2>1. loc \in [Procs -> Locals]
    BY DEF StateType, GoroutinesType
  <2>2. CASE Continue(p, l)
    BY <2>1, <2>2 DEF Continue
  <2>3. CASE \E c \in Clients \cup {0} : ContinueAs(p, c, l)
    <3>1. PICK c \in Clients \cup {0} : loc' = [loc EXCEPT ![p].cred = c]
      BY <2>3 DEF ContinueAs
    <3> QED BY <2>1, <3>1, LocalsType
  <2>4. CASE \E i \in AsIds \cup {NoId} : ContinueWith(p, i, l)
    <3>1. PICK i \in AsIds \cup {NoId} : loc' = [loc EXCEPT ![p].rid = i]
      BY <2>4 DEF ContinueWith
    <3> QED BY <2>1, <3>1, LocalsType
  <2> QED BY <2>2, <2>3, <2>4
<1>3. /\ \A q \in Procs : loc'[q].res = loc[q].res /\ loc'[q].op = loc[q].op
      /\ \A q \in Procs \ {p} : loc'[q].rid = loc[q].rid
  BY DEF Continue, ContinueAs, ContinueWith, StateType, GoroutinesType, Locals
<1> QED
  BY <1>1, <1>2, <1>3, GoOnType

\* The credentials and ids that goroutines and fields hand to one another.
LEMMA ParametersType ==
  ASSUME StateType, NEW p \in Procs
  PROVE /\ loc[p] \in Locals /\ loc[p].cred \in Clients \cup {0}
        /\ loc[p].rid \in AsIds \cup {NoId} /\ loc[p].op \in Ops
        /\ client \in Clients \cup {0} /\ token \in Clients \cup {0}
        /\ asClient \in Clients \cup {0}
        /\ \A n \in DOMAIN ids : n \in Resources /\ ids[n] \in AsIds
        /\ \A n \in Resources : AuthorizationResourceID(n) \in AsIds
        /\ \A n \in Resources : AsId(n, life) \in AsIds
  BY DEF StateType, FieldsType, GoroutinesType, Locals, AuthorizationResourceID, AsId, AsIds

LEMMA LabelsType ==
  /\ \A o \in Ops : AfterPAT(o) \in Labels /\ AfterPAT(o) \notin ResourceLabels
  /\ RegisteringLabels \subseteq Labels /\ ResourceLabels \subseteq Labels
  /\ {"call", "sync", "pat", "requestToken", "keepToken", "clearClient",
      "deleteClient"} \subseteq Labels
  BY DEF AfterPAT, Labels, RegisteringLabels, ResourceLabels

LEMMA FieldsKept ==
  ASSUME FieldsType, life' = life, UNCHANGED <<ids, created, resources>>,
         client' \in Clients \cup {0}, token' \in Clients \cup {0},
         asClient' \in Clients \cup {0}, lastClient' \in 0 .. MaxClient
  PROVE FieldsType'
  BY DEF FieldsType

LEMMA RegistrationType ==
  ASSUME FieldsType, NEW n \in Resources, NEW id \in AsIds, Registration(n, id), life' = life,
         UNCHANGED <<client, token, ids, created, asClient, lastClient>>
  PROVE FieldsType'
  BY DEF FieldsType, Registration, Assign

LEMMA RemovalType ==
  ASSUME FieldsType, NEW p \in Procs, RemoveResource(p), life' = life,
         UNCHANGED <<client, token, ids, created, asClient, lastClient>>
  PROVE FieldsType'
  BY DEF FieldsType, RemoveResource, Drop

LEMMA GiveType ==
  ASSUME FieldsType, GiveClient
  PROVE asClient' \in Clients \cup {0} /\ lastClient' \in 0 .. MaxClient
  BY DEF FieldsType, GiveClient, Clients

-----------------------------------------------------------------------------
LEMMA CredentialSteps ==
  ASSUME StateType, NEW p \in Procs,
         \/ GetPAT(p) \/ PostClient(p) \/ FindClient(p) \/ DropClient(p) \/ RetryClient(p)
         \/ KeepClient(p) \/ RequestToken(p) \/ KeepToken(p)
  PROVE StateType'
<1> USE ParametersType, LabelsType
<1>0. FieldsType /\ GoroutinesType /\ lastClient \in 0 .. MaxClient
  BY DEF StateType, FieldsType
<1>1. pc[p] # "idle"
  BY DEF At, GetPAT, PostClient, FindClient, DropClient, RetryClient, KeepClient,
         RequestToken, KeepToken
<1>2. \A l \in RegisteringLabels \cup {"requestToken"} : l \notin ResourceLabels
  BY DEF RegisteringLabels, ResourceLabels
<1>3. ASSUME NEW l \in RegisteringLabels \cup {"requestToken", "keepToken", AfterPAT(loc[p].op)},
             \/ Fail(p) \/ Continue(p, l)
             \/ \E c \in Clients \cup {0} : ContinueAs(p, c, l)
      PROVE GoroutinesType' /\ asError' \in BOOLEAN /\ life' = life
  <2>1. CASE Fail(p)
    BY <2>1, ReturnType DEF Fail
  <2>2. l \in Labels /\ l \notin ResourceLabels
    BY DEF AfterPAT, RegisteringLabels, ResourceLabels, Labels
  <2>3. l \notin {"adopt", "keepId"}
    BY <2>2 DEF ResourceLabels
  <2>4. CASE ~Fail(p)
    BY <1>1, <1>3, <2>2, <2>3, <2>4, ContinueType
  <2> QED BY <2>1, <2>4
<1>4. CASE GetPAT(p)
  <2>1. GoroutinesType' /\ asError' \in BOOLEAN /\ life' = life
    BY <1>3, <1>4 DEF GetPAT, RegisteringLabels
  <2> QED
    BY <1>0, <1>4, <2>1, FieldsKept DEF GetPAT, asVars, StateType
<1>5. CASE PostClient(p) \/ RetryClient(p)
  <2>1. asClient' \in Clients \cup {0} /\ lastClient' \in 0 .. MaxClient
    BY <1>0, <1>5, GiveType DEF PostClient, RetryClient, Call
  <2>2. GoroutinesType' /\ asError' \in BOOLEAN /\ life' = life
    BY <1>3, <1>5, <2>1 DEF PostClient, RetryClient, Call, RegisteringLabels
  <2> QED
    BY <1>0, <1>5, <2>1, <2>2, FieldsKept DEF PostClient, RetryClient, StateType
<1>6. CASE FindClient(p)
  <2>1. GoroutinesType' /\ asError' \in BOOLEAN /\ life' = life
    BY <1>3, <1>6 DEF FindClient, RegisteringLabels
  <2> QED
    BY <1>0, <1>6, <2>1, FieldsKept DEF FindClient, asVars, StateType
<1>7. CASE DropClient(p)
  <2>1. GoroutinesType' /\ asError' \in BOOLEAN /\ life' = life
    BY <1>3, <1>7 DEF DropClient, Call, RegisteringLabels
  <2>2. asClient' \in Clients \cup {0}
    BY <1>7 DEF DropClient, Call, RemoveClient
  <2> QED
    BY <1>0, <1>7, <2>1, <2>2, FieldsKept DEF DropClient, StateType
<1>8. CASE KeepClient(p)
  <2>1. GoroutinesType' /\ asError' \in BOOLEAN /\ life' = life
    BY <1>3, <1>8 DEF KeepClient
  <2> QED
    BY <1>0, <1>8, <2>1, FieldsKept DEF KeepClient, asVars, StateType
<1>9. CASE RequestToken(p)
  <2>1. GoroutinesType' /\ asError' \in BOOLEAN /\ life' = life
    BY <1>3, <1>9 DEF RequestToken
  <2> QED
    BY <1>0, <1>9, <2>1, FieldsKept DEF RequestToken, asVars, StateType
<1>10. CASE KeepToken(p)
  <2>1. GoroutinesType' /\ asError' \in BOOLEAN /\ life' = life
    BY <1>3, <1>10 DEF KeepToken
  <2> QED
    BY <1>0, <1>10, <2>1, FieldsKept DEF KeepToken, asVars, StateType
<1> QED
  BY <1>4, <1>5, <1>6, <1>7, <1>8, <1>9, <1>10

LEMMA ResourceSteps ==
  ASSUME StateType, NEW p \in Procs,
         \/ PostResource(p) \/ Adopt(p) \/ KeepId(p) \/ Sync(p)
         \/ Lookup(p) \/ PutResource(p) \/ DeleteResource(p) \/ Forget(p) \/ Ask(p)
  PROVE StateType'
<1> USE ParametersType
<1>0. /\ FieldsType /\ GoroutinesType /\ loc \in [Procs -> Locals]
      /\ loc[p].op \in ResourceOps => loc[p].res \in Resources
      /\ pc[p] \in ResourceLabels => loc[p].op \in ResourceOps
      /\ pc[p] \in {"adopt", "keepId"} => loc[p].rid \in AsIds
  BY DEF StateType, GoroutinesType
<1>1. pc[p] # "idle"
  BY DEF At, PostResource, Adopt, KeepId, Sync, Lookup, PutResource, DeleteResource, Forget, Ask
<1>2. ASSUME NEW ok \in BOOLEAN, Return(p, ok) \/ Fail(p)
      PROVE GoroutinesType' /\ asError' \in BOOLEAN /\ life' = life
  BY <1>2, ReturnType DEF Fail
<1>3. ASSUME loc[p].op \in ResourceOps,
             \/ Continue(p, "sync") \/ Continue(p, "forget")
             \/ loc[p].rid \in AsIds /\ Continue(p, "keepId")
             \/ \E i \in AsIds, l \in {"keepId", "adopt", "pat"} : ContinueWith(p, i, l)
      PROVE GoroutinesType' /\ asError' \in BOOLEAN /\ life' = life
  <2>1. CASE Continue(p, "sync") \/ Continue(p, "forget")
    BY <1>1, <1>3, <2>1, ContinueType DEF Labels
  <2>2. CASE loc[p].rid \in AsIds /\ Continue(p, "keepId")
    <3>1. loc'[p].rid \in AsIds
      BY <2>2 DEF Continue
    <3> QED BY <1>1, <1>3, <2>2, <3>1, ContinueType DEF Labels
  <2>3. ASSUME NEW i \in AsIds, NEW l \in {"keepId", "adopt", "pat"}, ContinueWith(p, i, l)
        PROVE GoroutinesType' /\ asError' \in BOOLEAN /\ life' = life
    <3>1. loc'[p].rid \in AsIds
      BY <1>0, <2>3 DEF ContinueWith, Locals
    <3> QED BY <1>1, <1>3, <2>3, <3>1, ContinueType DEF Labels
  <2> QED BY <1>3, <2>1, <2>2, <2>3
<1>4. CASE PostResource(p)
  <2> DEFINE n == loc[p].res
             id == AsId(n, life)
  <2>1. loc[p].op \in ResourceOps /\ n \in Resources /\ id \in AsIds
    BY <1>0, <1>4 DEF PostResource, ResourceOps
  <2>2. GoroutinesType' /\ asError' \in BOOLEAN /\ life' = life
    BY <1>2, <1>3, <1>4, <2>1 DEF PostResource, Call
  <2>3. FieldsType'
    <3>1. CASE Registration(n, id)
      BY <1>0, <1>4, <2>1, <2>2, <3>1, RegistrationType DEF PostResource
    <3>2. CASE UNCHANGED resources
      BY <1>0, <1>4, <2>2, <3>2 DEF PostResource, FieldsType
    <3> QED BY <1>4, <3>1, <3>2 DEF PostResource, Call
  <2> QED BY <2>2, <2>3 DEF StateType
<1>5. CASE Adopt(p)
  <2> DEFINE n == loc[p].res
             id == loc[p].rid
  <2>1. loc[p].op \in ResourceOps /\ n \in Resources /\ id \in AsIds
    BY <1>0, <1>5 DEF Adopt, At, ResourceLabels
  <2>2. GoroutinesType' /\ asError' \in BOOLEAN /\ life' = life
    BY <1>2, <1>3, <1>5, <2>1 DEF Adopt, Call
  <2>3. FieldsType'
    <3>1. CASE Registration(n, id)
      BY <1>0, <1>5, <2>1, <2>2, <3>1, RegistrationType DEF Adopt
    <3>2. CASE UNCHANGED resources
      BY <1>0, <1>5, <2>2, <3>2 DEF Adopt, FieldsType
    <3> QED BY <1>5, <3>1, <3>2 DEF Adopt, Call
  <2> QED BY <2>2, <2>3 DEF StateType
<1>6. CASE KeepId(p)
  <2>1. loc[p].op \in ResourceOps /\ loc[p].res \in Resources /\ loc[p].rid \in AsIds
    BY <1>0, <1>6 DEF KeepId, At, ResourceLabels
  <2>2. GoroutinesType' /\ asError' \in BOOLEAN /\ life' = life
    BY <1>3, <1>6, <2>1 DEF KeepId
  <2>3. FieldsType'
    BY <1>0, <1>6, <2>1, <2>2 DEF KeepId, FieldsType, Assign, asVars
  <2> QED BY <2>2, <2>3 DEF StateType
<1>7. CASE Forget(p)
  <2>1. GoroutinesType' /\ asError' \in BOOLEAN /\ life' = life
    BY <1>2, <1>7 DEF Forget
  <2>2. FieldsType'
    BY <1>0, <1>7, <2>1 DEF Forget, FieldsType, Drop, asVars
  <2> QED BY <2>1, <2>2 DEF StateType
<1>8. CASE DeleteResource(p)
  <2>1. GoroutinesType' /\ asError' \in BOOLEAN /\ life' = life
    BY <1>2, <1>3, <1>8 DEF DeleteResource, Call, ResourceOps
  <2>2. FieldsType'
    <3>1. CASE RemoveResource(p)
      BY <1>0, <1>8, <2>1, <3>1, RemovalType DEF DeleteResource
    <3>2. CASE UNCHANGED resources
      BY <1>0, <1>8, <2>1, <3>2 DEF DeleteResource, FieldsType
    <3> QED BY <1>8, <3>1, <3>2 DEF DeleteResource, Call
  <2> QED BY <2>1, <2>2 DEF StateType
<1>9. CASE Lookup(p)
  <2>1. loc[p].op \in ResourceOps
    BY <1>0, <1>9 DEF Lookup, At, ResourceLabels
  <2>2. GoroutinesType' /\ asError' \in BOOLEAN /\ life' = life
    <3>1. CASE Return(p, loc[p].op = "delete")
      BY <1>2, <3>1
    <3>2. CASE ~Return(p, loc[p].op = "delete")
      BY <1>3, <1>9, <2>1, <3>2 DEF Lookup
    <3> QED BY <3>1, <3>2
  <2>3. FieldsType'
    BY <1>0, <1>9, <2>2 DEF Lookup, FieldsType, asVars
  <2> QED BY <2>2, <2>3 DEF StateType
<1>10. CASE Sync(p) \/ PutResource(p) \/ Ask(p)
  <2>1. GoroutinesType' /\ asError' \in BOOLEAN /\ life' = life
    BY <1>2, <1>10 DEF Sync, PutResource, Ask
  <2>2. FieldsType'
    BY <1>0, <1>10, <2>1 DEF Sync, PutResource, Ask, FieldsType, asVars
  <2> QED BY <2>1, <2>2 DEF StateType
<1> QED
  BY <1>4, <1>5, <1>6, <1>7, <1>8, <1>9, <1>10

LEMMA MainSteps ==
  ASSUME StateType, Cleanup \/ Signal \/ Crash
  PROVE StateType'
<1> USE ParametersType
<1>0. /\ FieldsType /\ GoroutinesType /\ Main \in Procs
      /\ pc \in [Procs -> Labels] /\ loc \in [Procs -> Locals]
  BY DEF StateType, GoroutinesType, Procs
<1>1. ASSUME FieldsType', GoroutinesType', asError' \in BOOLEAN
      PROVE StateType'
  BY <1>1 DEF StateType
<1>2. ASSUME EndCleanup PROVE GoroutinesType' /\ asError' \in BOOLEAN /\ life' = life
  <2>1. asError' \in BOOLEAN
    BY <1>2, Zenon DEF EndCleanup, StateType
  <2>2. loc' \in [Procs -> Locals] /\ pc' \in [Procs -> Labels]
    BY <1>0, <1>2, LocalsType DEF EndCleanup, Goto, Labels
  <2>3. \A p \in Procs :
          /\ loc'[p].op \in ResourceOps => loc'[p].res \in Resources
          /\ pc'[p] \in ResourceLabels => loc'[p].op \in ResourceOps
          /\ pc'[p] \in {"adopt", "keepId"} => loc'[p].rid \in AsIds
    BY <1>0, <1>2
    DEF EndCleanup, Goto, GoroutinesType, NoLocals, In, ResourceOps, ResourceLabels
  <2> QED
    BY <1>0, <1>2, <2>1, <2>2, <2>3 DEF EndCleanup, GoroutinesType, Phases
<1>3. ASSUME End("exited") \/ End("crashed") PROVE StateType'
  <2>1. asError' \in BOOLEAN
    BY <1>3, Zenon DEF End
  <2>2. FieldsType'
    BY <1>0, <1>3 DEF End, FieldsType, EmptyMap, asVars
  <2>3. loc' \in [Procs -> Locals] /\ pc' \in [Procs -> Labels]
    BY <1>3, NoLocalsType DEF End, Labels
  <2>4. \A p \in Procs : loc'[p].op = "none" /\ pc'[p] = "idle"
    BY <1>3 DEF End, NoLocals, In
  <2>5. phase' \in Phases \ {"starting"} /\ todo' \subseteq Resources
    BY <1>3 DEF End, Phases
  <2>6. GoroutinesType'
    BY <2>3, <2>4, <2>5 DEF GoroutinesType, ResourceOps, ResourceLabels, AllIdle, Idle, Procs
  <2> QED BY <2>1, <2>2, <2>6, <1>1
<1>4. CASE Signal
  <2>1. asError' \in BOOLEAN
    BY <1>4, Zenon DEF Signal, serverVars, StateType
  <2>2. FieldsType' /\ todo' \subseteq Resources
    BY <1>0, <1>4 DEF Signal, FieldsType, serverVars, asVars
  <2>3. GoroutinesType'
    BY <1>0, <1>4, <2>2 DEF Signal, Goto, GoroutinesType, Phases, Labels, ResourceLabels
  <2> QED BY <2>1, <2>2, <2>3, <1>1
<1>5. CASE NextResource
  <2>1. asError' \in BOOLEAN
    BY <1>5, Zenon DEF NextResource, serverVars, StateType
  <2>2. FieldsType'
    BY <1>0, <1>5 DEF NextResource, FieldsType, serverVars, asVars
  <2>3. phase # "starting" \/ pc[Main] = "next"
    BY <1>5 DEF NextResource, At
  <2>4. phase' = phase /\ todo' \subseteq Resources
    BY <1>0, <1>5 DEF NextResource, Done, GoroutinesType
  <2>5. CASE \E n \in todo : Enter(Main, "delete", n, "lookup")
    <3>1. PICK n \in Resources : Enter(Main, "delete", n, "lookup")
      BY <1>0, <2>5 DEF GoroutinesType
    <3>2. loc' = [loc EXCEPT ![Main] = In("delete", n)] /\ pc' = [pc EXCEPT ![Main] = "lookup"]
      BY <3>1 DEF Enter, Goto
    <3>3. loc' \in [Procs -> Locals] /\ pc' \in [Procs -> Labels]
      BY <1>0, <3>2, LocalsType DEF Ops, ResourceOps, Labels
    <3>4. loc'[Main].op = "delete" /\ loc'[Main].res = n /\ pc'[Main] = "lookup"
      BY <1>0, <3>2 DEF In
    <3> QED
      BY <1>0, <1>1, <2>1, <2>2, <2>4, <3>2, <3>3, <3>4
      DEF GoroutinesType, ResourceOps, ResourceLabels, AllIdle, Idle, Procs
  <2>6. CASE Goto(Main, "readClient") /\ UNCHANGED <<todo, loc>>
    BY <1>0, <1>1, <2>1, <2>2, <2>4, <2>6
    DEF Goto, GoroutinesType, ResourceLabels, Labels, AllIdle, Idle, Procs
  <2> QED BY <1>5, <2>5, <2>6 DEF NextResource
<1>6. CASE ReadClient
  <2>1. GoroutinesType' /\ asError' \in BOOLEAN /\ life' = life
    BY <1>0, <1>2, <1>6, ContinueType, LabelsType DEF ReadClient, At, ResourceLabels
  <2>2. FieldsType'
    BY <1>0, <1>6, <2>1, FieldsKept DEF ReadClient, asVars, FieldsType
  <2> QED BY <2>1, <2>2, <1>1
<1>7. CASE DeleteClient
  <2>1. GoroutinesType' /\ asError' \in BOOLEAN /\ life' = life
    BY <1>0, <1>2, <1>7, ContinueType, LabelsType DEF DeleteClient, At, ResourceLabels
  <2>2. FieldsType'
    BY <1>0, <1>7, <2>1, FieldsKept DEF DeleteClient, RemoveClient, FieldsType
  <2> QED BY <2>1, <2>2, <1>1
<1>8. CASE ClearClient
  <2>1. GoroutinesType' /\ asError' \in BOOLEAN /\ life' = life
    BY <1>2, <1>8 DEF ClearClient
  <2>2. FieldsType'
    BY <1>0, <1>8, <2>1, FieldsKept DEF ClearClient, asVars, FieldsType
  <2> QED BY <2>1, <2>2, <1>1
<1>9. CASE Exit \/ Crash
  BY <1>3, <1>9 DEF Exit, Crash
<1> QED
  BY <1>4, <1>5, <1>6, <1>7, <1>8, <1>9 DEF Cleanup

LEMMA OtherSteps ==
  ASSUME StateType, \/ \E h \in Handlers : Begin(h)
                 \/ Expire \/ Start \/ UNCHANGED stateVars
  PROVE StateType'
<1>0. /\ FieldsType /\ GoroutinesType /\ Main \in Procs
      /\ pc \in [Procs -> Labels] /\ loc \in [Procs -> Locals]
  BY DEF StateType, GoroutinesType, Procs
<1>1. asError' \in BOOLEAN
  <2>1. UNCHANGED asError
    BY Zenon DEF Begin, Expire, Start, stateVars, serverVars
  <2> QED BY <2>1, Zenon DEF StateType
<1>2. CASE \E h \in Handlers : Begin(h)
  <2>1. PICK h \in Handlers : Begin(h)
    BY <1>2
  <2>2. PICK n \in Resources, o \in ResourceOps, l \in {"pat", "lookup"} : Enter(h, o, n, l)
    BY <2>1 DEF Begin, ResourceOps
  <2>3. h \in Procs /\ phase \notin {"starting", "exited", "crashed"}
    BY <2>1 DEF Begin, Accepting, Procs
  <2>4. loc' = [loc EXCEPT ![h] = In(o, n)] /\ pc' = [pc EXCEPT ![h] = l]
    BY <2>2 DEF Enter, Goto
  <2>5. loc' \in [Procs -> Locals] /\ pc' \in [Procs -> Labels]
    BY <1>0, <2>3, <2>4, LocalsType DEF Ops, Labels
  <2>6. loc'[h].op = o /\ loc'[h].res = n
    BY <1>0, <2>3, <2>4 DEF In
  <2>7. GoroutinesType'
    BY <1>0, <2>1, <2>3, <2>4, <2>5, <2>6
    DEF Begin, GoroutinesType, ResourceLabels, processVars
  <2>8. FieldsType'
    BY <1>0, <2>1 DEF Begin, FieldsType, asVars, processVars
  <2> QED BY <1>1, <2>7, <2>8 DEF StateType
<1>3. CASE Expire
  BY <1>0, <1>1, <1>3
  DEF Expire, StateType, FieldsType, GoroutinesType, AllIdle, Idle, asVars, processVars
<1>4. CASE Start
  <2>1. FieldsType'
    BY <1>0, <1>4 DEF Start, FieldsType, serverVars, asVars
  <2>2. loc' = [loc EXCEPT ![Main] = In("start", 0)] /\ pc' = [pc EXCEPT ![Main] = "pat"]
    BY <1>4 DEF Start, Enter, Goto
  <2>3. loc' \in [Procs -> Locals] /\ pc' \in [Procs -> Labels]
    BY <1>0, <2>2, LocalsType DEF Ops, Labels
  <2>4. loc'[Main].op = "start"
    BY <1>0, <2>2 DEF In
  <2>5. AllIdle'
    BY <1>0, <1>4, <2>2 DEF Start, Running, GoroutinesType, AllIdle, Idle, Procs
  <2>6. phase' \in Phases /\ todo' \subseteq Resources
    BY <1>0, <1>4 DEF Start, GoroutinesType, Phases
  <2>7. GoroutinesType'
    BY <1>0, <2>2, <2>3, <2>4, <2>5, <2>6 DEF GoroutinesType, ResourceOps, ResourceLabels
  <2> QED BY <1>1, <2>1, <2>7 DEF StateType
<1>5. CASE UNCHANGED stateVars
  BY <1>0, <1>1, <1>5
  DEF stateVars, serverVars, asVars, processVars, StateType, FieldsType, GoroutinesType, AllIdle, Idle
<1> QED
  BY <1>2, <1>3, <1>4, <1>5

LEMMA TypeStep == StateType /\ [Action]_stateVars => StateType'
  BY CredentialSteps, ResourceSteps, MainSteps, OtherSteps DEF Action, Step

\* What a step does to the variables of the program: an action, or nothing when
\* a call meets silence.
LEMMA NextActs == [Next]_vars => [Action]_stateVars
  BY DEF Next, Proceed, NoAnswer, vars

\* The silent goroutines and the snapshot have their types as well.
LEMMA MarksStep ==
  TypeOK /\ [Next]_vars => silent' \subseteq Procs /\ snapshot' \in Snapshots
<1> SUFFICES ASSUME TypeOK, [Next]_vars
             PROVE  silent' \subseteq Procs /\ snapshot' \in Snapshots
  OBVIOUS
<1>1. CASE Proceed(Action)
  <2>1. silent' \subseteq Procs
    BY <1>1 DEF Proceed, TypeOK
  <2>2. [names |-> DOMAIN ids, client |-> client, alone |-> AllIdle] \in Snapshots
    <3>1. AllIdle \in BOOLEAN
      BY DEF AllIdle
    <3> QED
      BY <3>1 DEF TypeOK, StateType, FieldsType, Snapshots
  <2>3. [snapshot EXCEPT !.alone = @ /\ (phase = "cleaning" => AllIdle')] \in Snapshots
    BY DEF TypeOK, Snapshots
  <2>4. NoSnapshot \in Snapshots
    BY DEF NoSnapshot, Snapshots
  <2> QED
    BY <1>1, <2>1, <2>2, <2>3, <2>4 DEF Proceed, Remember
<1>2. CASE NoAnswer \/ UNCHANGED vars
  BY <1>2 DEF NoAnswer, vars, TypeOK
<1> QED
  BY <1>1, <1>2 DEF Next

\* TypeOK, for every set of handlers and resources and all faults.
THEOREM TypeCorrect == Spec => []TypeOK
<1>1. Init => TypeOK
  BY TypeInit DEF Init, TypeOK, Snapshots, NoSnapshot
<1>2. TypeOK /\ [Next]_vars => TypeOK'
  BY TypeStep, NextActs, MarksStep DEF TypeOK
<1> QED
  BY <1>1, <1>2, PTL DEF Spec
-----------------------------------------------------------------------------
(***************************************************************************)
(* The credentials. The two ways of a goroutine to move on, with what is   *)
(* asked of the step that does.                                            *)
(***************************************************************************)
StartLabels == {"pat", "requestToken", "keepToken", "sync"} \cup RegisteringLabels

LEMMA ReturnKeeps ==
  ASSUME StateType, StartComesFirst, OnlyStartRegisters, Running,
         NEW p \in Procs, NEW ok \in BOOLEAN, Return(p, ok),
         pc[p] \notin {"idle", "wait", "clearClient"},
         UNCHANGED <<client, token>>,
         asClient' = asClient \/ pc[p] \in RegisteringLabels,
         ok /\ phase = "starting" => client # 0
  PROVE StartComesFirst' /\ OnlyStartRegisters' /\ (BeforeClientIsDeleted' => BeforeClientIsDeleted)
<1>1. /\ pc \in [Procs -> Labels] /\ Main \in Procs /\ loc \in [Procs -> Locals]
      /\ phase = "starting" => AllIdle /\ p = Main
  BY DEF StateType, GoroutinesType, Procs, AllIdle, Idle
<1>2. ~asError' => (phase # "starting" /\ ~asError) \/ client # 0
  <2>1. CASE phase = "starting"
    BY <2>1, Zenon DEF Return
  <2>2. CASE phase # "starting"
    BY <2>2, Zenon DEF Return
  <2> QED BY <2>1, <2>2
<1>3. pc'[p] \in {"wait", "next", "idle"} /\ \A q \in Procs \ {p} : pc'[q] = pc[q] /\ loc'[q] = loc[q]
  BY <1>1 DEF Return, Goto
<1>4. phase' # "starting" /\ Running' /\ (phase' = "serving" => pc'[Main] = "wait")
  BY <1>1 DEF Return, Goto, StartComesFirst, processVars, Running
<1>5. BeforeClientIsDeleted' => BeforeClientIsDeleted
  BY <1>1, <1>3 DEF Return, BeforeClientIsDeleted, processVars
<1>6. ASSUME BeforeClientIsDeleted', NEW q \in Procs
      PROVE /\ pc'[q] \in RegisteringLabels => q = Main /\ phase' = "starting"
            /\ pc'[q] = "keepClient" => loc'[q].cred # 0 /\ loc'[q].cred = asClient'
            /\ pc'[q] \in {"requestToken", "keepToken"} => client' # 0 /\ loc'[q].cred = client'
  BY <1>1, <1>3, <1>5, <1>6
  DEF OnlyStartRegisters, RegisteringLabels, AllIdle, Idle, Procs
<1>7. BeforeClientIsDeleted' => (~asError' => client' # 0) /\ (token' # 0 => token' = client')
  <2>1. BeforeClientIsDeleted' => (~asError' => client # 0)
    BY <1>2, <1>5 DEF OnlyStartRegisters
  <2> QED BY <1>5, <2>1 DEF OnlyStartRegisters
<1> QED
  BY <1>4, <1>5, <1>6, <1>7 DEF StartComesFirst, OnlyStartRegisters

LEMMA MoveKeeps ==
  ASSUME StateType, StartComesFirst, OnlyStartRegisters, Running,
         NEW p \in Procs, NEW l \in Labels \ {"idle", "wait", "clearClient"}, GoOn(p, l),
         pc[p] \notin {"idle", "wait", "clearClient"},
         \A q \in Procs \ {p} : loc'[q] = loc[q],
         loc'[p].op = loc[p].op,
         client' = client \/ (phase = "starting" /\ client' # 0),
         asClient' = asClient \/ pc[p] \in RegisteringLabels,
         phase = "starting" =>
           /\ l \in StartLabels
           /\ l \in RegisteringLabels => client' = 0
           /\ l = "sync" => client' # 0,
         BeforeClientIsDeleted =>
           /\ l \in RegisteringLabels => p = Main /\ phase = "starting"
           /\ l = "keepClient" => loc'[p].cred # 0 /\ loc'[p].cred = asClient'
           /\ l \in {"requestToken", "keepToken"} => client' # 0 /\ loc'[p].cred = client'
           /\ token' # 0 => token' = client'
  PROVE StartComesFirst' /\ OnlyStartRegisters' /\ (BeforeClientIsDeleted' => BeforeClientIsDeleted)
<1>1. /\ pc \in [Procs -> Labels] /\ Main \in Procs /\ loc \in [Procs -> Locals]
      /\ phase = "starting" => AllIdle /\ p = Main
  BY DEF StateType, GoroutinesType, Procs, AllIdle, Idle
<1>2. asError' <=> asError
  BY Zenon DEF GoOn
<1>3. pc'[p] = l /\ phase' = phase /\ \A q \in Procs \ {p} : pc'[q] = pc[q]
  BY <1>1 DEF GoOn, Goto, processVars
<1>4. BeforeClientIsDeleted' => BeforeClientIsDeleted
  BY <1>1, <1>3 DEF BeforeClientIsDeleted
<1>5. StartComesFirst'
  BY <1>1, <1>3 DEF StartComesFirst, StartLabels, Running
<1>6. ASSUME BeforeClientIsDeleted', NEW q \in Procs
      PROVE /\ pc'[q] \in RegisteringLabels => q = Main /\ phase' = "starting"
            /\ pc'[q] = "keepClient" => loc'[q].cred # 0 /\ loc'[q].cred = asClient'
            /\ pc'[q] \in {"requestToken", "keepToken"} => client' # 0 /\ loc'[q].cred = client'
  BY <1>1, <1>3, <1>4, <1>6
  DEF OnlyStartRegisters, RegisteringLabels, AllIdle, Idle, Procs
<1>7. BeforeClientIsDeleted' => (phase' # "starting" /\ ~asError' => client' # 0)
  BY <1>2, <1>3, <1>4 DEF OnlyStartRegisters
<1> QED
  BY <1>4, <1>5, <1>6, <1>7 DEF OnlyStartRegisters

\* What a goroutine at one of its labels may rely on.
LEMMA CredentialsKnown ==
  ASSUME CredentialsInv, Running, NEW p \in Procs, pc[p] \notin {"idle", "wait", "clearClient"}
  PROVE /\ StateType /\ StartComesFirst /\ OnlyStartRegisters /\ ClientIsRegistered
        /\ phase = "starting" => p = Main /\ loc[p].op = "start" /\ pc[p] \in StartLabels
        /\ BeforeClientIsDeleted /\ pc[p] \in RegisteringLabels =>
             p = Main /\ phase = "starting" /\ client = 0 /\ token = 0
        /\ BeforeClientIsDeleted => (token # 0 => token = client /\ client = asClient)
        /\ BeforeClientIsDeleted => (client # 0 => client = asClient)
        /\ phase = "starting" => BeforeClientIsDeleted
        /\ loc \in [Procs -> Locals] /\ Main \in Procs
<1>1. /\ StateType /\ StartComesFirst /\ OnlyStartRegisters /\ ClientIsRegistered
  BY DEF CredentialsInv
<1>2. loc \in [Procs -> Locals] /\ Main \in Procs
  BY <1>1 DEF StateType, GoroutinesType, Procs
<1>3. phase = "starting" => p = Main /\ loc[p].op = "start" /\ pc[p] \in StartLabels
  BY <1>1 DEF StateType, GoroutinesType, AllIdle, Idle, Procs, StartComesFirst, StartLabels
<1>4. phase = "starting" => BeforeClientIsDeleted
  BY DEF BeforeClientIsDeleted
<1>5. BeforeClientIsDeleted /\ pc[p] \in RegisteringLabels =>
             p = Main /\ phase = "starting" /\ client = 0 /\ token = 0
  BY <1>1 DEF OnlyStartRegisters, StartComesFirst
<1>6. BeforeClientIsDeleted => (token # 0 => token = client /\ client = asClient)
  BY <1>1 DEF OnlyStartRegisters, ClientIsRegistered
<1>7. BeforeClientIsDeleted => (client # 0 => client = asClient)
  BY <1>1 DEF ClientIsRegistered
<1> QED
  BY <1>1, <1>2, <1>3, <1>4, <1>5, <1>6, <1>7

CredentialsHold == StartComesFirst /\ OnlyStartRegisters /\ ClientIsRegistered

\* A step that returns or that goes on to a label without a condition.
LEMMA PlainSteps ==
  ASSUME CredentialsInv, Running, NEW p \in Procs,
         pc[p] \notin {"idle", "wait", "clearClient"},
         UNCHANGED <<client, token, asClient>>,
         NEW ok \in BOOLEAN, ok /\ phase = "starting" => client # 0,
         NEW l \in {"pat", "call", "adopt", "keepId", "sync", "forget", "deleteClient"},
         phase = "starting" => l \in StartLabels /\ (l = "sync" => client # 0),
         \/ Return(p, ok) \/ Continue(p, l)
         \/ \E x : ContinueWith(p, x, l) \/ ContinueAs(p, x, l)
  PROVE CredentialsHold'
<1> USE CredentialsKnown
<1>1. StartComesFirst' /\ OnlyStartRegisters' /\ (BeforeClientIsDeleted' => BeforeClientIsDeleted)
  <2>1. CASE Return(p, ok)
    BY <2>1, ReturnKeeps
  <2>2. CASE ~Return(p, ok)
    <3>1. GoOn(p, l)
      BY <2>2 DEF Continue, ContinueWith, ContinueAs
    <3>2. loc'[p].op = loc[p].op /\ \A q \in Procs \ {p} : loc'[q] = loc[q]
      BY <2>2 DEF Continue, ContinueWith, ContinueAs, Locals
    <3>3. l \notin RegisteringLabels \cup {"keepClient", "requestToken", "keepToken"} /\ l \in Labels
      BY DEF RegisteringLabels, Labels
    <3>4. BeforeClientIsDeleted => (token' # 0 => token' = client')
      OBVIOUS
    <3> QED BY <3>1, <3>2, <3>3, <3>4, MoveKeeps
  <2> QED BY <2>1, <2>2
<1>2. ClientIsRegistered'
  BY <1>1 DEF ClientIsRegistered
<1> QED BY <1>1, <1>2 DEF CredentialsHold

LEMMA ResourceStepsKeep ==
  ASSUME CredentialsInv, Running, NEW p \in Procs,
         \/ PostResource(p) \/ Adopt(p) \/ KeepId(p) \/ Sync(p)
         \/ Lookup(p) \/ PutResource(p) \/ DeleteResource(p) \/ Forget(p) \/ Ask(p)
  PROVE CredentialsHold'
<1>1. /\ pc[p] \in {"call", "adopt", "keepId", "sync", "lookup", "forget"}
      /\ UNCHANGED <<client, token, asClient>>
  BY DEF At, PostResource, Adopt, KeepId, Sync, Lookup, PutResource, DeleteResource, Forget, Ask, asVars
<1>2. phase = "starting" => pc[p] = "sync" /\ client # 0
  BY <1>1, CredentialsKnown DEF StartComesFirst, StartLabels, RegisteringLabels
<1>3. ASSUME NEW ok \in BOOLEAN, ok /\ phase = "starting" => client # 0, Return(p, ok)
      PROVE CredentialsHold'
  BY <1>1, <1>2, <1>3, PlainSteps DEF StartLabels
<1>4. ASSUME NEW l \in {"pat", "adopt", "keepId", "sync", "forget"},
             pc[p] # "sync",
             Continue(p, l) \/ \E i : ContinueWith(p, i, l)
      PROVE CredentialsHold'
  BY <1>1, <1>2, <1>4, PlainSteps
<1>5. CASE PostResource(p) \/ Adopt(p) \/ DeleteResource(p)
  <2>1. pc[p] # "sync"
    BY <1>5 DEF At, PostResource, Adopt, DeleteResource
  <2>2. \/ Return(p, FALSE)
        \/ \E l \in {"adopt", "keepId", "forget"} : Continue(p, l) \/ \E i : ContinueWith(p, i, l)
    BY <1>5 DEF PostResource, Adopt, DeleteResource, Call, Fail
  <2> QED BY <1>3, <1>4, <2>1, <2>2
<1>6. CASE KeepId(p)
  BY <1>4, <1>6 DEF KeepId, At
<1>7. CASE Lookup(p)
  <2>1. CASE Return(p, loc[p].op = "delete")
    BY <1>1, <1>2, <1>3, <1>7, <2>1 DEF Lookup, At
  <2>2. CASE \E i : ContinueWith(p, i, "pat")
    BY <1>4, <1>7, <2>2 DEF Lookup, At
  <2> QED BY <1>7, <2>1, <2>2 DEF Lookup
<1>8. CASE Sync(p) \/ PutResource(p) \/ Forget(p) \/ Ask(p)
  <2>1. Return(p, TRUE) \/ Return(p, FALSE)
    BY <1>8 DEF Sync, PutResource, Forget, Ask, Fail
  <2> QED BY <1>2, <1>3, <2>1
<1> QED
  BY <1>5, <1>6, <1>7, <1>8

LEMMA CredentialStepsKeep ==
  ASSUME CredentialsInv, Running, NEW p \in Procs,
         \/ GetPAT(p) \/ PostClient(p) \/ FindClient(p) \/ DropClient(p) \/ RetryClient(p)
         \/ KeepClient(p) \/ RequestToken(p) \/ KeepToken(p)
  PROVE CredentialsHold'
<1>1. pc[p] \in {"pat", "requestToken", "keepToken"} \cup RegisteringLabels
  BY DEF At, GetPAT, PostClient, FindClient, DropClient, RetryClient, KeepClient,
         RequestToken, KeepToken, RegisteringLabels
<1>2. pc[p] \notin {"idle", "wait", "clearClient"}
  BY <1>1 DEF RegisteringLabels
<1> USE <1>2, CredentialsKnown
<1>3. /\ phase = "starting" => AfterPAT(loc[p].op) = "sync"
      /\ AfterPAT(loc[p].op) \in {"call", "sync"}
  BY DEF AfterPAT
\* The steps of a registration, which only Main takes before Shutdown.
<1>4. ASSUME pc[p] \in RegisteringLabels, UNCHANGED <<client, token>>,
             NEW l \in RegisteringLabels,
             \/ Fail(p)
             \/ l # "keepClient" /\ Continue(p, l)
             \/ \E c : ContinueAs(p, c, l) /\ (l = "keepClient" => c # 0 /\ c = asClient')
      PROVE CredentialsHold'
  <2>1. StartComesFirst' /\ OnlyStartRegisters' /\ (BeforeClientIsDeleted' => BeforeClientIsDeleted)
    <3>1. CASE Fail(p)
      BY <1>4, <3>1, ReturnKeeps DEF Fail
    <3>2. CASE ~Fail(p)
      <4>1. GoOn(p, l)
        BY <1>4, <3>2 DEF Continue, ContinueAs
      <4>2. loc'[p].op = loc[p].op /\ \A q \in Procs \ {p} : loc'[q] = loc[q]
        BY <1>4, <3>2 DEF Continue, ContinueAs, Locals
      <4>3. l = "keepClient" => loc'[p].cred # 0 /\ loc'[p].cred = asClient'
        BY <1>4, <3>2 DEF ContinueAs, Locals
      <4>4. l \in Labels \ {"idle", "wait", "clearClient"} /\ l \in StartLabels
            /\ l \notin {"requestToken", "keepToken", "sync"}
        BY DEF Labels, StartLabels, RegisteringLabels
      <4> QED BY <1>4, <4>1, <4>2, <4>3, <4>4, MoveKeeps
    <3> QED BY <3>1, <3>2
  <2>2. ClientIsRegistered'
    BY <1>4, <2>1 DEF ClientIsRegistered
  <2> QED BY <2>1, <2>2 DEF CredentialsHold
<1>5. CASE GetPAT(p)
  <2>1. UNCHANGED <<client, token, asClient>>
    BY <1>5 DEF GetPAT, asVars
  <2>2. CASE Fail(p)
    BY <2>1, <2>2, PlainSteps DEF Fail, StartLabels
  <2>3. CASE token # 0 /\ ContinueAs(p, token, AfterPAT(loc[p].op))
    BY <1>3, <2>1, <2>3, PlainSteps DEF StartLabels
  <2>4. CASE client # 0 /\ ContinueAs(p, client, "requestToken")
    <3>1. /\ GoOn(p, "requestToken") /\ loc'[p].cred = client /\ loc'[p].op = loc[p].op
          /\ \A q \in Procs \ {p} : loc'[q] = loc[q]
      BY <2>4 DEF ContinueAs, Locals
    <3>2. "requestToken" \in (Labels \ {"idle", "wait", "clearClient"}) \cap StartLabels
          /\ "requestToken" \notin RegisteringLabels
      BY DEF Labels, StartLabels, RegisteringLabels
    <3>3. /\ StartComesFirst' /\ OnlyStartRegisters'
          /\ BeforeClientIsDeleted' => BeforeClientIsDeleted
      BY <2>1, <2>4, <3>1, <3>2, MoveKeeps
    <3> QED BY <2>1, <3>3 DEF ClientIsRegistered, CredentialsHold
  <2>5. CASE ~StartFailed /\ token = 0 /\ client = 0 /\ Continue(p, "postClient")
    <3>1. /\ GoOn(p, "postClient") /\ loc' = loc
      BY <2>5 DEF Continue
    <3>2. "postClient" \in (Labels \ {"idle", "wait", "clearClient"}) \cap StartLabels
          /\ "postClient" \in RegisteringLabels
      BY DEF Labels, StartLabels, RegisteringLabels
    <3>3. BeforeClientIsDeleted => phase = "starting"
      BY <2>5 DEF OnlyStartRegisters, StartFailed
    <3>4. /\ StartComesFirst' /\ OnlyStartRegisters'
          /\ BeforeClientIsDeleted' => BeforeClientIsDeleted
      BY <2>1, <2>5, <3>1, <3>2, <3>3, MoveKeeps
    <3> QED BY <2>1, <3>4 DEF ClientIsRegistered, CredentialsHold
  <2> QED BY <1>5, <2>2, <2>3, <2>4, <2>5 DEF GetPAT
<1>6. CASE PostClient(p) \/ RetryClient(p)
  <2>1. pc[p] \in RegisteringLabels /\ UNCHANGED <<client, token>>
    BY <1>6 DEF PostClient, RetryClient, At, RegisteringLabels
  <2>2. GiveClient => asClient' # 0
    BY DEF GiveClient, StateType, FieldsType
  <2>3. \/ Fail(p) \/ Continue(p, "findClient")
        \/ asClient' # 0 /\ ContinueAs(p, asClient', "keepClient")
    BY <1>6, <2>2 DEF PostClient, RetryClient, Call
  <2> QED BY <1>4, <2>1, <2>3 DEF RegisteringLabels
<1>7. CASE FindClient(p)
  BY <1>4, <1>7 DEF FindClient, At, RegisteringLabels
<1>8. CASE DropClient(p)
  BY <1>4, <1>8 DEF DropClient, Call, At, RegisteringLabels
<1>9. CASE KeepClient(p)
  <2>1. /\ GoOn(p, "requestToken") /\ loc' = loc /\ client' = loc[p].cred
        /\ UNCHANGED <<token, asClient>> /\ pc[p] = "keepClient"
        /\ "keepClient" \in RegisteringLabels
    BY <1>9 DEF KeepClient, Continue, At, asVars, RegisteringLabels
  <2>2. "requestToken" \in (Labels \ {"idle", "wait", "clearClient"}) \cap StartLabels
        /\ "requestToken" \notin RegisteringLabels
    BY DEF Labels, StartLabels, RegisteringLabels
  <2>3. BeforeClientIsDeleted => client' # 0 /\ client' = asClient' /\ phase = "starting"
    BY <2>1 DEF OnlyStartRegisters
  <2>4. CASE BeforeClientIsDeleted
    <3>1. /\ StartComesFirst' /\ OnlyStartRegisters'
          /\ BeforeClientIsDeleted' => BeforeClientIsDeleted
      BY <2>1, <2>2, <2>3, <2>4, MoveKeeps
    <3> QED BY <2>1, <2>3, <2>4, <3>1 DEF ClientIsRegistered, CredentialsHold
  <2>5. CASE ~BeforeClientIsDeleted
    <3>1. /\ phase' = phase /\ phase \notin {"starting", "serving"} /\ Running'
          /\ pc'[Main] = "clearClient" \/ phase # "cleaning"
      BY <2>1, <2>5 DEF GoOn, Goto, processVars, BeforeClientIsDeleted, Running
    <3>2. ~BeforeClientIsDeleted'
      BY <3>1 DEF BeforeClientIsDeleted
    <3>3. StartComesFirst'
      BY <3>1 DEF StartComesFirst
    <3> QED BY <3>2, <3>3 DEF OnlyStartRegisters, ClientIsRegistered, CredentialsHold
  <2> QED BY <2>4, <2>5
<1>10. CASE RequestToken(p)
  <2>1. UNCHANGED <<client, token, asClient>> /\ pc[p] = "requestToken"
    BY <1>10 DEF RequestToken, asVars, At
  <2>2. CASE Fail(p)
    BY <2>1, <2>2, PlainSteps DEF Fail, StartLabels
  <2>3. CASE Continue(p, "keepToken")
    <3>1. GoOn(p, "keepToken") /\ loc' = loc
      BY <2>3 DEF Continue
    <3>2. "keepToken" \in (Labels \ {"idle", "wait", "clearClient"}) \cap StartLabels
          /\ "keepToken" \notin RegisteringLabels
      BY DEF Labels, StartLabels, RegisteringLabels
    <3>3. BeforeClientIsDeleted => client # 0 /\ loc[p].cred = client
      BY <2>1 DEF OnlyStartRegisters
    <3>4. /\ StartComesFirst' /\ OnlyStartRegisters'
          /\ BeforeClientIsDeleted' => BeforeClientIsDeleted
      BY <2>1, <3>1, <3>2, <3>3, MoveKeeps
    <3> QED BY <2>1, <3>4 DEF ClientIsRegistered, CredentialsHold
  <2> QED BY <1>10, <2>2, <2>3 DEF RequestToken
<1>11. CASE KeepToken(p)
  <2>0. PICK l \in {"call", "sync"} : l = AfterPAT(loc[p].op) /\ (phase = "starting" => l = "sync")
    BY <1>3
  <2>1. /\ GoOn(p, l) /\ loc' = loc /\ token' = loc[p].cred
        /\ UNCHANGED <<client, asClient>> /\ pc[p] = "keepToken"
    BY <1>11, <2>0 DEF KeepToken, Continue, asVars, At
  <2>2. /\ l \in (Labels \ {"idle", "wait", "clearClient"})
        /\ l \notin RegisteringLabels \cup {"keepClient", "requestToken", "keepToken"}
        /\ phase = "starting" => l \in StartLabels
    BY <2>0 DEF Labels, StartLabels, RegisteringLabels
  <2>3. BeforeClientIsDeleted => client # 0 /\ loc[p].cred = client
    BY <2>1 DEF OnlyStartRegisters
  <2>4. /\ StartComesFirst' /\ OnlyStartRegisters'
        /\ BeforeClientIsDeleted' => BeforeClientIsDeleted
    <3>1. BeforeClientIsDeleted => client' # 0 /\ token' = client'
      BY <2>1, <2>3
    <3> QED BY <2>0, <2>1, <2>2, <3>1, MoveKeeps
  <2> QED BY <2>1, <2>3, <2>4 DEF ClientIsRegistered, CredentialsHold
<1> QED
  BY <1>5, <1>6, <1>7, <1>8, <1>9, <1>10, <1>11

LEMMA MainStepsKeep ==
  ASSUME CredentialsInv, Running, Cleanup \/ Signal \/ Crash
  PROVE CredentialsHold'
<1>0. /\ StateType /\ StartComesFirst /\ OnlyStartRegisters /\ ClientIsRegistered
      /\ Main \in Procs /\ pc \in [Procs -> Labels] /\ loc \in [Procs -> Locals]
  BY DEF CredentialsInv, StateType, GoroutinesType, Procs
\* After the cleanup nothing is asked of the credentials any more.
<1>1. ASSUME EndCleanup \/ (phase' = phase /\ phase \notin {"starting", "serving"} /\ pc'[Main] = "clearClient")
      PROVE CredentialsHold'
  <2>1. /\ ~BeforeClientIsDeleted' /\ Running' /\ phase' \notin {"starting", "serving"}
    BY <1>1 DEF EndCleanup, BeforeClientIsDeleted, Running
  <2>2. StartComesFirst'
    BY <2>1 DEF StartComesFirst
  <2> QED BY <2>1, <2>2 DEF OnlyStartRegisters, ClientIsRegistered, CredentialsHold
<1>2. ASSUME End("exited") \/ End("crashed")
      PROVE CredentialsHold'
  <2>1. /\ ~BeforeClientIsDeleted' /\ phase' \notin {"starting", "serving"}
        /\ client' = 0 /\ token' = 0 /\ \A p \in Procs : pc'[p] = "idle"
    BY <1>2 DEF End, BeforeClientIsDeleted
  <2> QED BY <2>1
    DEF StartComesFirst, OnlyStartRegisters, ClientIsRegistered, CredentialsHold, Idle
\* Before that, Main goes from one of its labels to another.
<1>3. ASSUME UNCHANGED <<client, token, asError, asClient>>,
             pc[Main] \in {"wait", "next", "readClient"}, phase # "starting",
             phase' = "cleaning" \/ (phase' = phase /\ phase # "serving"),
             pc'[Main] \in {"next", "lookup", "readClient", "deleteClient"},
             \A p \in Procs \ {Main} : pc'[p] = pc[p] /\ loc'[p] = loc[p],
             BeforeClientIsDeleted' => BeforeClientIsDeleted
      PROVE CredentialsHold'
  <2>1. StartComesFirst'
    BY <1>3 DEF StartComesFirst, Running
  <2>2. BeforeClientIsDeleted' => (~asError' => client' # 0)
    <3>1. ~asError' => ~asError
      BY <1>3, Zenon
    <3> QED BY <1>0, <1>3, <3>1 DEF OnlyStartRegisters
  <2>3. ASSUME BeforeClientIsDeleted', NEW p \in Procs
        PROVE /\ pc'[p] \notin RegisteringLabels
              /\ pc'[p] \in {"requestToken", "keepToken"} => client' # 0 /\ loc'[p].cred = client'
    BY <1>0, <1>3, <2>3 DEF OnlyStartRegisters, RegisteringLabels
  <2>4. OnlyStartRegisters'
    BY <1>0, <1>3, <2>2, <2>3 DEF OnlyStartRegisters, RegisteringLabels
  <2>5. ClientIsRegistered'
    BY <1>0, <1>3 DEF ClientIsRegistered
  <2> QED BY <2>1, <2>4, <2>5 DEF CredentialsHold
<1>4. pc[Main] \in {"next", "readClient", "deleteClient", "clearClient", "drain"} =>
        phase \notin {"starting", "serving"}
  BY <1>0 DEF StartComesFirst, RegisteringLabels
<1>5. CASE Signal
  <2>1. /\ pc[Main] = "wait" /\ phase = "serving" /\ phase' = "cleaning" /\ pc'[Main] = "next"
        /\ UNCHANGED <<client, token, asClient, loc>>
        /\ \A p \in Procs \ {Main} : pc'[p] = pc[p]
    BY <1>0, <1>5 DEF Signal, At, Goto, serverVars, asVars
  <2>2. UNCHANGED asError
    BY <1>5, Zenon DEF Signal, serverVars
  <2> QED BY <1>3, <2>1, <2>2 DEF BeforeClientIsDeleted
<1>6. CASE NextResource
  <2>1. /\ pc[Main] = "next" /\ phase' = phase /\ pc'[Main] \in {"lookup", "readClient"}
        /\ UNCHANGED <<client, token, asClient>>
        /\ \A p \in Procs \ {Main} : pc'[p] = pc[p] /\ loc'[p] = loc[p]
    BY <1>0, <1>6 DEF NextResource, At, Goto, Enter, serverVars, asVars
  <2>2. UNCHANGED asError
    BY <1>6, Zenon DEF NextResource, serverVars
  <2> QED BY <1>3, <1>4, <2>1, <2>2 DEF BeforeClientIsDeleted
<1>7. CASE ReadClient
  <2>1. CASE EndCleanup
    BY <1>1, <2>1
  <2>2. CASE ContinueAs(Main, client, "deleteClient")
    <3>1. /\ pc[Main] = "readClient" /\ phase' = phase /\ pc'[Main] = "deleteClient"
          /\ UNCHANGED <<client, token, asClient>>
          /\ \A p \in Procs \ {Main} : pc'[p] = pc[p] /\ loc'[p] = loc[p]
      BY <1>0, <1>7, <2>2
      DEF ReadClient, At, Goto, ContinueAs, GoOn, processVars, asVars
    <3>2. UNCHANGED asError
      BY <2>2, Zenon DEF ContinueAs, GoOn
    <3> QED BY <1>3, <1>4, <3>1, <3>2 DEF BeforeClientIsDeleted
  <2> QED BY <1>7, <2>1, <2>2 DEF ReadClient
<1>8. CASE DeleteClient
  <2>1. CASE EndCleanup
    BY <1>1, <2>1
  <2>2. CASE Continue(Main, "clearClient")
    <3>1. /\ pc[Main] = "deleteClient" /\ phase' = phase /\ pc'[Main] = "clearClient"
      BY <1>0, <1>8, <2>2 DEF DeleteClient, At, Goto, Continue, GoOn, processVars
    <3> QED BY <1>1, <1>4, <3>1
  <2> QED BY <1>8, <2>1, <2>2 DEF DeleteClient
<1>9. CASE ClearClient
  BY <1>1, <1>9 DEF ClearClient
<1>10. CASE Exit \/ Crash
  BY <1>2, <1>10 DEF Exit, Crash
<1> QED
  BY <1>5, <1>6, <1>7, <1>8, <1>9, <1>10 DEF Cleanup

LEMMA OtherStepsKeep ==
  ASSUME CredentialsInv, (\E h \in Handlers : Begin(h)) \/ Expire \/ Start \/ UNCHANGED stateVars
  PROVE CredentialsHold'
<1>0. /\ StateType /\ StartComesFirst /\ OnlyStartRegisters /\ ClientIsRegistered
      /\ Main \in Procs /\ pc \in [Procs -> Labels] /\ loc \in [Procs -> Locals]
  BY DEF CredentialsInv, StateType, GoroutinesType, Procs
<1>1. UNCHANGED asError
  BY Zenon DEF Begin, Expire, Start, stateVars, serverVars
<1>2. CASE \E h \in Handlers : Begin(h)
  <2>1. PICK h \in Handlers : Begin(h)
    BY <1>2
  <2>2. /\ h \in Procs \ {Main} /\ pc'[h] \in {"pat", "lookup"} /\ phase \in {"serving", "cleaning"}
        /\ \A p \in Procs \ {h} : pc'[p] = pc[p] /\ loc'[p] = loc[p]
        /\ UNCHANGED <<client, token, asClient, phase>>
    BY <1>0, <2>1 DEF Begin, Accepting, Enter, Goto, Procs, asVars, processVars
  <2>3. (BeforeClientIsDeleted' <=> BeforeClientIsDeleted) /\ StartComesFirst'
    BY <1>0, <2>2 DEF BeforeClientIsDeleted, StartComesFirst, Running
  <2>4. ClientIsRegistered'
    BY <1>0, <2>2, <2>3 DEF ClientIsRegistered
  <2>5. ASSUME BeforeClientIsDeleted, NEW p \in Procs
        PROVE /\ pc'[p] \in RegisteringLabels => p = Main /\ phase' = "starting"
              /\ pc'[p] = "keepClient" => loc'[p].cred # 0 /\ loc'[p].cred = asClient'
              /\ pc'[p] \in {"requestToken", "keepToken"} => client' # 0 /\ loc'[p].cred = client'
    BY <1>0, <2>2, <2>5 DEF OnlyStartRegisters, RegisteringLabels
  <2>6. BeforeClientIsDeleted => (~asError' => client' # 0) /\ (token' # 0 => token' = client')
    <3>1. ~asError' => ~asError
      BY <1>1, Zenon
    <3> QED BY <1>0, <2>2, <3>1 DEF OnlyStartRegisters
  <2>7. OnlyStartRegisters'
    BY <2>3, <2>5, <2>6 DEF OnlyStartRegisters
  <2> QED BY <2>3, <2>4, <2>7 DEF CredentialsHold
<1>3. CASE Start
  <2>1. /\ client' = 0 /\ token' = 0 /\ phase' = "starting" /\ pc'[Main] = "pat"
        /\ loc'[Main].op = "start" /\ \A p \in Procs \ {Main} : pc'[p] = "idle"
    BY <1>0, <1>3 DEF Start, Enter, Goto, In, serverVars, StartComesFirst, Idle
  <2>2. \A p \in Procs : pc'[p] \notin RegisteringLabels \cup {"keepClient", "requestToken", "keepToken"}
    BY <2>1 DEF RegisteringLabels
  <2>3. StartComesFirst'
    BY <2>1 DEF StartComesFirst, RegisteringLabels, Running
  <2>4. OnlyStartRegisters' /\ ClientIsRegistered'
    BY <2>1, <2>2 DEF OnlyStartRegisters, ClientIsRegistered
  <2> QED BY <2>3, <2>4 DEF CredentialsHold
<1>4. CASE Expire
  <2>1. UNCHANGED <<client, asClient, phase, pc, loc>> /\ token' = 0
    BY <1>4 DEF Expire, asVars, processVars
  <2>2. (BeforeClientIsDeleted' <=> BeforeClientIsDeleted) /\ StartComesFirst' /\ ClientIsRegistered'
    BY <1>0, <2>1 DEF BeforeClientIsDeleted, StartComesFirst, Running, ClientIsRegistered, Idle
  <2>3. BeforeClientIsDeleted' => (phase' # "starting" /\ ~asError' => client' # 0)
    <3>1. ~asError' => ~asError
      BY <1>1, Zenon
    <3> QED BY <1>0, <2>1, <2>2, <3>1 DEF OnlyStartRegisters
  <2>4. OnlyStartRegisters'
    BY <1>0, <2>1, <2>2, <2>3 DEF OnlyStartRegisters
  <2> QED BY <2>2, <2>4 DEF CredentialsHold
<1>5. CASE UNCHANGED stateVars
  <2>1. UNCHANGED <<client, token, asClient, phase, pc, loc>>
    BY <1>5 DEF stateVars, serverVars, asVars, processVars
  <2>2. (BeforeClientIsDeleted' <=> BeforeClientIsDeleted) /\ StartComesFirst' /\ ClientIsRegistered'
    BY <1>0, <2>1 DEF BeforeClientIsDeleted, StartComesFirst, Running, ClientIsRegistered, Idle
  <2>3. BeforeClientIsDeleted' => (phase' # "starting" /\ ~asError' => client' # 0)
    <3>1. ~asError' => ~asError
      BY <1>1, Zenon
    <3> QED BY <1>0, <2>1, <2>2, <3>1 DEF OnlyStartRegisters
  <2>4. OnlyStartRegisters'
    BY <1>0, <2>1, <2>2, <2>3 DEF OnlyStartRegisters
  <2> QED BY <2>2, <2>4 DEF CredentialsHold
<1> QED
  BY <1>2, <1>3, <1>4, <1>5

LEMMA CredentialsInit == Init => CredentialsInv
<1> SUFFICES ASSUME Init PROVE CredentialsInv
  OBVIOUS
<1>1. /\ client = 0 /\ token = 0 /\ phase = "starting" /\ pc[Main] = "pat" /\ loc[Main].op = "start"
      /\ \A p \in Procs : pc[p] \in {"pat", "idle"}
  BY DEF Init, Procs, In
<1> QED
  BY <1>1, TypeInit
  DEF CredentialsInv, StartComesFirst, OnlyStartRegisters, ClientIsRegistered, Running, RegisteringLabels

LEMMA CredentialsStep == CredentialsInv /\ [Action]_stateVars => CredentialsInv'
<1> SUFFICES ASSUME CredentialsInv, [Action]_stateVars PROVE CredentialsInv'
  OBVIOUS
<1>1. StateType'
  BY TypeStep DEF CredentialsInv
<1>2. CredentialsHold'
  BY CredentialStepsKeep, ResourceStepsKeep, MainStepsKeep, OtherStepsKeep DEF Action, Step
<1> QED BY <1>1, <1>2 DEF CredentialsInv, CredentialsHold

\* ClientIsRegistered: protectionAPIAuthorization, which decides without the
\* lock, never leaves the server with a client or a token of another one than
\* the one the AS has, whatever fails and whenever a token expires.
THEOREM CredentialsAreRegistered == Spec => []ClientIsRegistered
<1>1. CredentialsInv => ClientIsRegistered
  BY DEF CredentialsInv
<1> QED
  BY <1>1, CredentialsInit, CredentialsStep, NextActs, PTL DEF Spec
-----------------------------------------------------------------------------
(***************************************************************************)
(* The ids. What a step does to a goroutine q when it stores no id and     *)
(* gets none: nothing, or q ends its registration, or goes on with it.     *)
(***************************************************************************)
Keeps(q) ==
  \/ loc'[q] = loc[q] /\ pc'[q] = pc[q]
  \/ loc'[q].op # "register" /\ pc'[q] \notin {"adopt", "keepId"}
  \/ /\ loc'[q].op = loc[q].op /\ loc'[q].res = loc[q].res
     /\ pc[q] # "sync" /\ pc'[q] \notin {"adopt", "keepId"}

FewerIds == DOMAIN ids' \subseteq DOMAIN ids /\ \A n \in DOMAIN ids' : ids'[n] = ids[n]
FewerResources ==
  /\ DOMAIN resources' \subseteq DOMAIN resources
  /\ \A n \in DOMAIN resources' : resources'[n] = resources[n]

LEMMA KeepsIds ==
  ASSUME OneRegistrar, NoWrongId, FewerIds, FewerResources, UNCHANGED created,
         \A q \in Procs : Keeps(q)
  PROVE OneRegistrar' /\ NoWrongId'
<1>1. NoWrongId'
  BY DEF NoWrongId, FewerIds, FewerResources
<1>2. DOMAIN ids' \subseteq created'
  BY DEF OneRegistrar, FewerIds
<1>3. \A q \in Procs : loc'[q].op = "register" => loc[q].op = "register" /\ loc'[q].res = loc[q].res
  BY DEF Keeps
<1>4. ASSUME NEW q \in Procs
      PROVE /\ loc'[q].op = "register" => loc'[q].res \in created'
            /\ loc'[q].op = "register" /\ pc'[q] # "sync" => loc'[q].res \notin DOMAIN ids'
            /\ pc'[q] \in {"adopt", "keepId"} => loc'[q].op = "register"
            /\ pc'[q] = "keepId" /\ loc'[q].res \in DOMAIN resources' =>
                 resources'[loc'[q].res].id = loc'[q].rid
            /\ \A r \in Procs :
                 loc'[q].op = "register" /\ loc'[r].op = "register" /\ loc'[q].res = loc'[r].res => q = r
  <2>1. /\ loc'[q].op = "register" => loc'[q].res \in created'
        /\ \A r \in Procs :
             loc'[q].op = "register" /\ loc'[r].op = "register" /\ loc'[q].res = loc'[r].res => q = r
    BY <1>3 DEF OneRegistrar
  <2>2. Keeps(q)
    OBVIOUS
  <2>3. pc'[q] \in {"adopt", "keepId"} => loc'[q] = loc[q] /\ pc'[q] = pc[q]
    BY <2>2 DEF Keeps
  <2>4. loc'[q].op = "register" /\ pc'[q] # "sync" => pc[q] # "sync"
    BY <2>2 DEF Keeps
  <2>5. loc'[q].op = "register" /\ pc'[q] # "sync" => loc'[q].res \notin DOMAIN ids'
    BY <1>3, <2>4 DEF OneRegistrar, FewerIds
  <2>6. /\ pc'[q] \in {"adopt", "keepId"} => loc'[q].op = "register"
        /\ pc'[q] = "keepId" /\ loc'[q].res \in DOMAIN resources' =>
             resources'[loc'[q].res].id = loc'[q].rid
    BY <2>3 DEF OneRegistrar, FewerResources
  <2> QED BY <2>1, <2>5, <2>6
<1> QED
  BY <1>1, <1>2, <1>4 DEF OneRegistrar

LEMMA MovesKeep ==
  ASSUME StateType, NEW p \in Procs, NEW l \in Labels \ {"adopt", "keepId"},
         \/ \E ok \in BOOLEAN : Return(p, ok)
         \/ EndCleanup /\ p = Main
         \/ pc[p] # "sync" /\ Continue(p, l)
         \/ pc[p] # "sync" /\ \E x : ContinueAs(p, x, l) \/ ContinueWith(p, x, l)
  PROVE \A q \in Procs : Keeps(q)
<1>1. pc \in [Procs -> Labels] /\ loc \in [Procs -> Locals]
  BY DEF StateType, GoroutinesType
<1>2. CASE (\E ok \in BOOLEAN : Return(p, ok)) \/ (EndCleanup /\ p = Main)
  <2>1. pc'[p] \in {"wait", "next", "idle", "drain"} /\ loc'[p] = NoLocals
    BY <1>1, <1>2 DEF Return, EndCleanup, Goto
  <2>2. \A q \in Procs \ {p} : pc'[q] = pc[q] /\ loc'[q] = loc[q]
    BY <1>1, <1>2 DEF Return, EndCleanup, Goto
  <2> QED BY <2>1, <2>2 DEF Keeps, NoLocals, In
<1>3. CASE pc[p] # "sync" /\ Continue(p, l)
  BY <1>1, <1>3 DEF Continue, GoOn, Goto, Keeps
<1>4. CASE pc[p] # "sync" /\ \E x : ContinueAs(p, x, l) \/ ContinueWith(p, x, l)
  <2>1. pc'[p] = l /\ loc'[p].op = loc[p].op /\ loc'[p].res = loc[p].res
    BY <1>1, <1>4 DEF ContinueAs, ContinueWith, GoOn, Goto, Locals
  <2>2. \A q \in Procs \ {p} : pc'[q] = pc[q] /\ loc'[q] = loc[q]
    BY <1>1, <1>4 DEF ContinueAs, ContinueWith, GoOn, Goto
  <2> QED BY <1>4, <2>1, <2>2 DEF Keeps
<1> QED
  BY <1>2, <1>3, <1>4

\* The three steps that store an id, or find the one to be stored.
LEMMA RegisterStepsKeep ==
  ASSUME RegistrationInv, NEW p \in Procs, PostResource(p) \/ Adopt(p) \/ KeepId(p)
  PROVE OneRegistrar' /\ NoWrongId'
<1>0. /\ StateType /\ OneRegistrar /\ NoWrongId
      /\ pc \in [Procs -> Labels] /\ loc \in [Procs -> Locals]
  BY DEF RegistrationInv, StateType, GoroutinesType
<1> DEFINE n == loc[p].res
<1>1. /\ loc[p].op = "register" /\ n \in created /\ n \notin DOMAIN ids
      /\ pc[p] \in {"call", "adopt", "keepId"} /\ UNCHANGED created
  BY <1>0 DEF PostResource, Adopt, KeepId, At, OneRegistrar
<1>2. \A q \in Procs \ {p} : loc[q].op = "register" => loc[q].res # n
  BY <1>0, <1>1 DEF OneRegistrar
<1>3. CASE Fail(p) /\ ids' = ids
  <2>1. \A q \in Procs : Keeps(q)
    <3>1. /\ \E ok \in BOOLEAN : Return(p, ok)
          /\ "idle" \in Labels \ {"adopt", "keepId"}
      BY <1>3 DEF Fail, Labels
    <3> QED BY <1>0, <3>1, MovesKeep
  <2>2. pc'[p] \in {"wait", "next", "idle"} /\ loc'[p].op = "none"
    BY <1>0, <1>3 DEF Fail, Return, Goto, NoLocals, In
  <2>3. CASE UNCHANGED resources
    BY <1>0, <1>1, <1>3, <2>1, <2>3, KeepsIds DEF FewerIds, FewerResources
  <2>4. CASE \E id : Registration(n, id)
    <3>1. \A m \in DOMAIN resources' \ {n} : m \in DOMAIN resources /\ resources'[m] = resources[m]
      BY <2>4 DEF Registration, Assign
    <3>2. NoWrongId'
      BY <1>0, <1>1, <1>3, <3>1 DEF NoWrongId
    <3>3. \A q \in Procs \ {p} : pc'[q] = pc[q] /\ loc'[q] = loc[q]
      BY <1>0, <1>3 DEF Fail, Return, Goto
    <3>4. ASSUME NEW q \in Procs, pc'[q] = "keepId", loc'[q].res \in DOMAIN resources'
          PROVE resources'[loc'[q].res].id = loc'[q].rid
      <4>1. q # p /\ pc[q] = "keepId" /\ loc[q].op = "register"
        BY <1>0, <2>2, <3>3, <3>4 DEF OneRegistrar
      <4>2. loc[q].res # n
        BY <1>2, <4>1
      <4> QED BY <1>0, <3>1, <3>3, <3>4, <4>1, <4>2 DEF OneRegistrar
    <3>5. /\ DOMAIN ids' \subseteq created'
          /\ \A q \in Procs :
               /\ loc'[q].op = "register" => loc'[q].res \in created'
               /\ loc'[q].op = "register" /\ pc'[q] # "sync" => loc'[q].res \notin DOMAIN ids'
               /\ pc'[q] \in {"adopt", "keepId"} => loc'[q].op = "register"
               /\ \A r \in Procs :
                    loc'[q].op = "register" /\ loc'[r].op = "register" /\ loc'[q].res = loc'[r].res => q = r
      BY <1>0, <1>1, <1>3, <2>2, <3>3 DEF OneRegistrar
    <3> QED BY <3>2, <3>4, <3>5 DEF OneRegistrar
  <2>5. \/ UNCHANGED resources \/ \E id : Registration(n, id)
    <3>1. CASE PostResource(p)
      BY <3>1 DEF PostResource, Call
    <3>2. CASE Adopt(p)
      BY <3>2 DEF Adopt, Call
    <3>3. CASE KeepId(p)
      BY <3>3 DEF KeepId, asVars
    <3> QED BY <3>1, <3>2, <3>3
  <2> QED BY <2>3, <2>4, <2>5
\* Otherwise p goes on with its registration, with the right id.
<1>4. ASSUME ids' = ids \/ (pc'[p] = "sync" /\ ids' = Assign(ids, n, loc'[p].rid)),
             loc'[p].op = "register", loc'[p].res = n, pc'[p] \in {"adopt", "keepId", "sync"},
             \A q \in Procs \ {p} : pc'[q] = pc[q] /\ loc'[q] = loc[q],
             \A m \in DOMAIN resources' \ {n} : m \in DOMAIN resources /\ resources'[m] = resources[m],
             n \in DOMAIN resources' /\ pc'[p] \in {"keepId", "sync"} => resources'[n].id = loc'[p].rid
      PROVE OneRegistrar' /\ NoWrongId'
  <2>1. /\ DOMAIN ids' \subseteq DOMAIN ids \cup {n} /\ \A m \in DOMAIN ids : ids'[m] = ids[m]
        /\ n \in DOMAIN ids' => pc'[p] = "sync" /\ ids'[n] = loc'[p].rid
    BY <1>1, <1>4 DEF Assign
  <2>2. NoWrongId'
    BY <1>0, <1>4, <2>1 DEF NoWrongId
  <2>3. DOMAIN ids' \subseteq created'
    BY <1>0, <1>1, <2>1 DEF OneRegistrar
  <2>4. ASSUME NEW q \in Procs \ {p}
        PROVE /\ loc'[q].op = "register" => loc'[q].res \in created' /\ loc'[q].res # n
              /\ loc'[q].op = "register" /\ pc'[q] # "sync" => loc'[q].res \notin DOMAIN ids'
              /\ pc'[q] \in {"adopt", "keepId"} => loc'[q].op = "register"
              /\ pc'[q] = "keepId" /\ loc'[q].res \in DOMAIN resources' =>
                   resources'[loc'[q].res].id = loc'[q].rid
    <3>1. pc'[q] = pc[q] /\ loc'[q] = loc[q] /\ (loc[q].op = "register" => loc[q].res # n)
      BY <1>2, <1>4
    <3>2. loc'[q].op = "register" /\ pc'[q] # "sync" => loc'[q].res \notin DOMAIN ids'
      BY <1>0, <2>1, <3>1 DEF OneRegistrar
    <3>3. pc'[q] = "keepId" /\ loc'[q].res \in DOMAIN resources' =>
            resources'[loc'[q].res].id = loc'[q].rid
      BY <1>0, <1>4, <3>1 DEF OneRegistrar
    <3> QED BY <1>0, <1>1, <3>1, <3>2, <3>3 DEF OneRegistrar
  <2>5. /\ loc'[p].res \in created' /\ (pc'[p] # "sync" => loc'[p].res \notin DOMAIN ids')
        /\ pc'[p] = "keepId" /\ loc'[p].res \in DOMAIN resources' =>
             resources'[loc'[p].res].id = loc'[p].rid
    BY <1>1, <1>4, <2>1
  <2>6. \A q, r \in Procs :
          loc'[q].op = "register" /\ loc'[r].op = "register" /\ loc'[q].res = loc'[r].res => q = r
    BY <1>0, <1>4, <2>4 DEF OneRegistrar
  <2> QED BY <1>4, <2>2, <2>3, <2>4, <2>5, <2>6 DEF OneRegistrar
<1>5. CASE PostResource(p) /\ ~Fail(p)
  <2> DEFINE id == AsId(n, life)
  <2>1. \/ Registration(n, id) /\ ContinueWith(p, id, "keepId")
        \/ ContinueWith(p, AuthorizationResourceID(n), "adopt") /\ UNCHANGED resources
    BY <1>5 DEF PostResource, Call
  <2>2. ids' = ids
    BY <1>5 DEF PostResource
  <2>3. /\ loc'[p].op = "register" /\ loc'[p].res = n /\ pc'[p] \in {"adopt", "keepId"}
        /\ \A q \in Procs \ {p} : pc'[q] = pc[q] /\ loc'[q] = loc[q]
        /\ pc'[p] = "keepId" => loc'[p].rid = id /\ Registration(n, id)
    BY <1>0, <1>1, <2>1 DEF ContinueWith, GoOn, Goto, Locals
  <2>4. \A m \in DOMAIN resources' \ {n} : m \in DOMAIN resources /\ resources'[m] = resources[m]
    BY <2>1 DEF Registration, Assign
  <2>5. pc'[p] = "keepId" => resources'[n].id = loc'[p].rid
    BY <2>3 DEF Registration, Assign
  <2> QED BY <1>4, <2>2, <2>3, <2>4, <2>5
<1>6. CASE Adopt(p) /\ ~Fail(p)
  <2> DEFINE id == loc[p].rid
  <2>1. Registration(n, id) /\ Continue(p, "keepId") /\ ids' = ids
    BY <1>6 DEF Adopt, Call
  <2>2. /\ loc'[p].op = "register" /\ loc'[p].res = n /\ pc'[p] = "keepId" /\ loc'[p].rid = id
        /\ \A q \in Procs \ {p} : pc'[q] = pc[q] /\ loc'[q] = loc[q]
    BY <1>0, <1>1, <2>1 DEF Continue, GoOn, Goto
  <2>3. /\ \A m \in DOMAIN resources' \ {n} : m \in DOMAIN resources /\ resources'[m] = resources[m]
        /\ resources'[n].id = id
    BY <2>1 DEF Registration, Assign
  <2> QED BY <1>4, <2>1, <2>2, <2>3
<1>7. CASE KeepId(p)
  <2>1. /\ ids' = Assign(ids, n, loc[p].rid) /\ Continue(p, "sync") /\ pc[p] = "keepId"
        /\ resources' = resources
    BY <1>7 DEF KeepId, At, asVars
  <2>2. /\ pc'[p] = "sync" /\ loc' = loc /\ \A q \in Procs \ {p} : pc'[q] = pc[q]
    BY <1>0, <2>1 DEF Continue, GoOn, Goto
  <2>3. n \in DOMAIN resources => resources[n].id = loc[p].rid
    BY <1>0, <2>1 DEF OneRegistrar
  <2> QED BY <1>1, <1>4, <2>1, <2>2, <2>3
<1>8. PostResource(p) \/ Adopt(p) => ids' = ids
  BY DEF PostResource, Adopt
<1> QED
  BY <1>3, <1>5, <1>6, <1>7, <1>8

LEMMA OtherResourceStepsKeep ==
  ASSUME RegistrationInv, NEW p \in Procs,
         \/ Sync(p) \/ Lookup(p) \/ PutResource(p) \/ DeleteResource(p) \/ Forget(p) \/ Ask(p)
  PROVE OneRegistrar' /\ NoWrongId'
<1>0. StateType /\ OneRegistrar /\ NoWrongId
  BY DEF RegistrationInv
<1>1. \A q \in Procs : Keeps(q)
  <2>1. \/ \E ok \in BOOLEAN : Return(p, ok)
        \/ pc[p] # "sync" /\ Continue(p, "forget")
        \/ pc[p] # "sync" /\ \E x : ContinueWith(p, x, "pat")
    BY DEF Sync, Lookup, PutResource, DeleteResource, Forget, Ask, Call, Fail, At
  <2> QED BY <1>0, <2>1, MovesKeep DEF Labels
<1>2. UNCHANGED created /\ FewerIds
  BY DEF Sync, Lookup, PutResource, DeleteResource, Forget, Ask, FewerIds, Drop
<1>3. FewerResources
  BY DEF Sync, Lookup, PutResource, DeleteResource, Forget, Ask, Call, RemoveResource,
         FewerResources, Drop, asVars
<1> QED
  BY <1>0, <1>1, <1>2, <1>3, KeepsIds

LEMMA CredentialStepsKeepIds ==
  ASSUME RegistrationInv, NEW p \in Procs,
         \/ GetPAT(p) \/ PostClient(p) \/ FindClient(p) \/ DropClient(p) \/ RetryClient(p)
         \/ KeepClient(p) \/ RequestToken(p) \/ KeepToken(p)
  PROVE OneRegistrar' /\ NoWrongId'
<1>0. StateType /\ OneRegistrar /\ NoWrongId /\ loc[p].op \in Ops
  BY ParametersType DEF RegistrationInv
<1>1. \A q \in Procs : Keeps(q)
  <2>1. \E l \in RegisteringLabels \cup {"requestToken", "keepToken", "call", "sync"} :
        \/ Return(p, FALSE)
        \/ pc[p] # "sync" /\ Continue(p, l)
        \/ pc[p] # "sync" /\ \E x : ContinueAs(p, x, l)
    BY DEF GetPAT, PostClient, FindClient, DropClient, RetryClient, KeepClient, RequestToken,
           KeepToken, Call, Fail, At, AfterPAT, RegisteringLabels
  <2> QED BY <1>0, <2>1, MovesKeep DEF Labels, RegisteringLabels
<1>2. UNCHANGED <<created, ids, resources>>
  BY DEF GetPAT, PostClient, FindClient, DropClient, RetryClient, KeepClient, RequestToken,
         KeepToken, asVars
<1> QED
  BY <1>0, <1>1, <1>2, KeepsIds DEF FewerIds, FewerResources

LEMMA MainStepsKeepIds ==
  ASSUME RegistrationInv, Cleanup \/ Signal \/ Crash
  PROVE OneRegistrar' /\ NoWrongId'
<1>0. /\ StateType /\ OneRegistrar /\ NoWrongId /\ Main \in Procs
      /\ pc \in [Procs -> Labels] /\ loc \in [Procs -> Locals]
  BY DEF RegistrationInv, StateType, GoroutinesType, Procs
<1>1. CASE Exit \/ Crash
  BY <1>1
  DEF Exit, Crash, End, OneRegistrar, NoWrongId, EmptyMap, NoLocals, In
<1>2. CASE Signal \/ NextResource
  <2>1. \A q \in Procs \ {Main} : pc'[q] = pc[q] /\ loc'[q] = loc[q]
    BY <1>0, <1>2 DEF Signal, NextResource, Enter, Goto
  <2>2. \/ loc'[Main] = loc[Main] /\ pc[Main] # "sync"
        \/ loc'[Main].op = "delete"
    BY <1>0, <1>2 DEF Signal, NextResource, Enter, At, In
  <2>3. pc'[Main] \in {"next", "lookup", "readClient"}
    BY <1>0, <1>2 DEF Signal, NextResource, Enter, Goto
  <2>4. \A q \in Procs : Keeps(q)
    BY <2>1, <2>2, <2>3 DEF Keeps
  <2> QED
    BY <1>0, <1>2, <2>4, KeepsIds
    DEF Signal, NextResource, FewerIds, FewerResources, serverVars, asVars
<1>3. CASE ReadClient \/ DeleteClient \/ ClearClient
  <2>1. \E l \in {"deleteClient", "clearClient"} :
        \/ EndCleanup
        \/ pc[Main] # "sync" /\ Continue(Main, l)
        \/ pc[Main] # "sync" /\ \E x : ContinueAs(Main, x, l)
    BY <1>3 DEF ReadClient, DeleteClient, ClearClient, At
  <2>2. \A q \in Procs : Keeps(q)
    BY <1>0, <2>1, MovesKeep DEF Labels
  <2> QED
    BY <1>0, <1>3, <2>2, KeepsIds
    DEF ReadClient, DeleteClient, ClearClient, FewerIds, FewerResources, asVars
<1> QED
  BY <1>1, <1>2, <1>3 DEF Cleanup

LEMMA OtherStepsKeepIds ==
  ASSUME RegistrationInv, (\E h \in Handlers : Begin(h)) \/ Expire \/ Start \/ UNCHANGED stateVars
  PROVE OneRegistrar' /\ NoWrongId'
<1>0. /\ StateType /\ OneRegistrar /\ NoWrongId /\ Main \in Procs
      /\ pc \in [Procs -> Labels] /\ loc \in [Procs -> Locals]
  BY DEF RegistrationInv, StateType, GoroutinesType, Procs
<1>1. CASE Expire \/ Start \/ UNCHANGED stateVars
  <2>1. \A q \in Procs : Keeps(q)
    BY <1>0, <1>1
    DEF Expire, Start, Enter, Goto, In, Keeps, stateVars
  <2> QED
    BY <1>0, <1>1, <2>1, KeepsIds
    DEF Expire, Start, FewerIds, FewerResources, stateVars, serverVars, asVars
<1>2. CASE \E h \in Handlers : Begin(h)
  <2>1. PICK h \in Handlers : Begin(h)
    BY <1>2
  <2>2. PICK n \in Resources, o \in ResourceOps, l \in {"pat", "lookup"} :
          /\ Enter(h, o, n, l)
          /\ \/ o = "register" /\ n \notin created /\ created' = created \cup {n}
             \/ o # "register" /\ UNCHANGED created
    BY <2>1 DEF Begin, ResourceOps
  <2>3. /\ h \in Procs /\ pc'[h] = l /\ loc'[h] = In(o, n)
        /\ \A q \in Procs \ {h} : pc'[q] = pc[q] /\ loc'[q] = loc[q]
    BY <1>0, <2>2 DEF Enter, Goto, Procs
  <2>4. loc'[h].op = o /\ loc'[h].res = n
    BY <2>3 DEF In
  <2>5. UNCHANGED <<ids, resources>>
    BY <2>1 DEF Begin, asVars
  <2>6. CASE o # "register" /\ UNCHANGED created
    <3>1. \A q \in Procs : Keeps(q)
      BY <2>3, <2>4, <2>6 DEF Keeps
    <3> QED BY <1>0, <2>5, <2>6, <3>1, KeepsIds DEF FewerIds, FewerResources
  <2>7. CASE o = "register" /\ n \notin created /\ created' = created \cup {n}
    <3>1. \A q \in Procs \ {h} : loc'[q].op = "register" => loc'[q].res # n
      BY <1>0, <2>3, <2>7 DEF OneRegistrar
    <3>2. n \notin DOMAIN ids'
      BY <1>0, <2>5, <2>7 DEF OneRegistrar
    <3>3. NoWrongId'
      BY <1>0, <2>5 DEF NoWrongId
    <3>4. ASSUME NEW q \in Procs
          PROVE /\ loc'[q].op = "register" => loc'[q].res \in created'
                /\ loc'[q].op = "register" /\ pc'[q] # "sync" => loc'[q].res \notin DOMAIN ids'
                /\ pc'[q] \in {"adopt", "keepId"} => loc'[q].op = "register"
                /\ pc'[q] = "keepId" /\ loc'[q].res \in DOMAIN resources' =>
                     resources'[loc'[q].res].id = loc'[q].rid
      <4>1. CASE q = h
        BY <2>3, <2>4, <2>7, <3>2, <4>1
      <4>2. CASE q # h
        BY <1>0, <2>3, <2>5, <2>7, <4>2 DEF OneRegistrar
      <4> QED BY <4>1, <4>2
    <3>5. \A q, r \in Procs :
            loc'[q].op = "register" /\ loc'[r].op = "register" /\ loc'[q].res = loc'[r].res => q = r
      BY <1>0, <2>3, <2>4, <3>1 DEF OneRegistrar
    <3>6. DOMAIN ids' \subseteq created'
      BY <1>0, <2>5, <2>7 DEF OneRegistrar
    <3> QED BY <3>3, <3>4, <3>5, <3>6 DEF OneRegistrar
  <2> QED BY <2>2, <2>6, <2>7
<1> QED
  BY <1>1, <1>2

LEMMA RegistrationInit == Init => RegistrationInv
<1> SUFFICES ASSUME Init PROVE RegistrationInv
  OBVIOUS
<1>1. \A p \in Procs : loc[p].op \in {"start", "none"} /\ pc[p] \in {"pat", "idle"}
  BY DEF Init, In, NoLocals
<1> QED
  BY <1>1, TypeInit DEF Init, RegistrationInv, OneRegistrar, NoWrongId, EmptyMap

LEMMA RegistrationStep == RegistrationInv /\ [Action]_stateVars => RegistrationInv'
<1> SUFFICES ASSUME RegistrationInv, [Action]_stateVars PROVE RegistrationInv'
  OBVIOUS
<1>1. StateType'
  BY TypeStep DEF RegistrationInv
<1>2. OneRegistrar' /\ NoWrongId'
  BY RegisterStepsKeep, OtherResourceStepsKeep, CredentialStepsKeepIds, MainStepsKeepIds,
     OtherStepsKeepIds
  DEF Action, Step
<1> QED BY <1>1, <1>2 DEF RegistrationInv

\* NoWrongId: the id the server keeps for a resource is the AS's, or the AS has
\* none, so that no PUT and no DELETE goes to another resource, after a 409 or
\* a restart either.
THEOREM IdsAreRight == Spec => []NoWrongId
<1>1. RegistrationInv => NoWrongId
  BY DEF RegistrationInv
<1> QED
  BY <1>1, RegistrationInit, RegistrationStep, NextActs, PTL DEF Spec

\* IInv, the inductive invariant the two theorems come from and the runs check.
THEOREM Invariance == Spec => []IInv
<1>1. CredentialsInv /\ RegistrationInv => IInv
  BY DEF IInv
<1> QED
  BY <1>1, CredentialsInit, CredentialsStep, RegistrationInit, RegistrationStep, NextActs, PTL DEF Spec
=============================================================================
