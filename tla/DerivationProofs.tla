---------------------------- MODULE DerivationProofs ----------------------------
(***************************************************************************)
(* Theorems about Derivation, for every set of requests, services and      *)
(* sources, whatever sources the services share, every practice of the UAS *)
(* and any faults.                                                         *)
(***************************************************************************)
EXTENDS Derivation, TLAPS

USE SourcesAssumption, IdsAssumption, ServicesAssumption

Active(r) == pc[r] # "idle"

\* What a goroutine does fits what it was asked for.
Fits(r) ==
  /\ loc[r].i >= 1
  /\ Active(r) => Service(r) \in reserved
  /\ pc[r] \in {"json", "form", "keep", "store"} => ~Last(r)
  /\ pc[r] = "idle" <=> loc[r].op = "none"
  /\ pc[r] \in {"unregister", "cleanup", "drop"} <=> loc[r].op = "delete"
  /\ pc[r] = "register" => loc[r].op = "create"
  /\ pc[r] \in {"recheck", "serve"} => loc[r].op = "output"
  /\ loc[r].op = "create" => loc[r].method = "GET"

\* An id, if it is one, was issued for the source.
Of(id, x) == id # NoId => id \in Issued /\ issued[id] = x

\* The derivations that the output of s may have.
MayDerive(s, d) ==
  \/ d = NoId
  \/ d \in Issued /\ issued[d] \in Range(SourcesOf[s])
  \/ d = Prefixed(s) /\ practice = "terse"

CachedIsOfSource ==
  \A x \in Sources :
    /\ Of(tokens[x].id, x) /\ Of(tokens[x].response, x)
    /\ tokens[x].held /\ practice # "terse" => tokens[x].response # NoId

\* A UAS withholds an id only from one who has sent it.
ExchangedIsOfSource(r) ==
  /\ pc[r] \in {"json", "form"} => Of(loc[r].sent, Source(r))
  /\ pc[r] = "keep" => practice = "terse" /\ loc[r].answer = NoId
  /\ pc[r] = "store" =>
       /\ Of(loc[r].answer, Source(r)) /\ Of(loc[r].keep, Source(r))
       /\ practice # "terse" => loc[r].answer # NoId

EvidenceIsOfService(r) ==
  Active(r) =>
    /\ loc[r].up.id # NoId =>
         loc[r].up.id \in Issued /\ issued[loc[r].up.id] \in Range(SourcesOf[Service(r)])
    /\ loc[r].up.issuer /\ loc[r].up.id = NoId => practice = "terse"
    /\ MayDerive(Service(r), loc[r].from)

RecordsAreOfService ==
  /\ \A s \in DOMAIN derivedFrom : MayDerive(s, derivedFrom[s])
  /\ \A s \in DOMAIN assets : MayDerive(s, assets[s])
  /\ \A s \in DOMAIN services : MayDerive(s, services[s].from)

\* Who is at an exchange that may bring no id knows that one is cached.
KnownAtExchange(r) ==
  /\ pc[r] \in {"json", "form"} /\ loc[r].sent # NoId => tokens[Source(r)].id # NoId
  /\ pc[r] = "keep" => tokens[Source(r)].id # NoId
  /\ pc[r] = "store" => loc[r].keep # NoId

AloneUnlessOverlapped ==
  ~overlapped => \A r, q \in Requests : Active(r) /\ Active(q) => r = q

CheckedUntilUpdated(r) ==
  /\ pc[r] \in {"next", "json", "form", "keep", "store", "register", "put", "update"} =>
       overlapped \/ loc[r].checked
  /\ pc[r] = "serve" /\ ~loc[r].checked => overlapped \/ ~loc[r].ok

Creating(r, s) == loc[r].op = "create" /\ Service(r) = s

\* While a service is created nobody else works on it.
CreatorIsAlone ==
  \A r \in Requests : loc[r].op = "create" =>
    /\ Service(r) \notin DOMAIN services
    /\ \A q \in Requests : Active(q) /\ Service(q) = Service(r) => q = r

Deleted(t) ==
  /\ \A r \in Requests : ~Creating(r, t)
  /\ t \notin DOMAIN services \/ \E r \in Requests : At(r, "drop") /\ Service(r) = t

Taken(s) ==
  \E t \in reserved : Range(SourcesOf[t]) \cap Range(SourcesOf[s]) # {} /\ Deleted(t)

Stands(s, d) == d = NoId \/ d \in derivations \/ Taken(s)

Written(r) == pc[r] \in {"update", "commit"} \/ (pc[r] = "insert" /\ loc[r].ok)

DerivationsStand ==
  /\ \A s \in DOMAIN services : services[s].status = "ready" => Stands(s, services[s].from)
  /\ \A r \in Requests : Written(r) => Stands(Service(r), loc[r].from)

Agrees(s) ==
  /\ s \in DOMAIN derivedFrom /\ s \in DOMAIN assets
  /\ derivedFrom[s] = services[s].from /\ assets[s] = services[s].from

AgreeUnlessOverlapped ==
  ~overlapped =>
    /\ \A s \in DOMAIN services : services[s].status = "ready" =>
         Agrees(s) \/ \E r \in Requests : Service(r) = s /\ pc[r] \in {"commit", "insert", "cleanup", "drop"}
    /\ \A r \in Requests : pc[r] = "commit" \/ (pc[r] = "insert" /\ loc[r].ok) =>
         Service(r) \in DOMAIN derivedFrom /\ derivedFrom[Service(r)] = loc[r].from
    /\ \A r \in Requests : pc[r] = "insert" /\ loc[r].ok =>
         Service(r) \in DOMAIN assets /\ assets[Service(r)] = loc[r].from

IInv ==
  /\ TypeOK
  /\ \A r \in Requests :
       Fits(r) /\ ExchangedIsOfSource(r) /\ EvidenceIsOfService(r) /\ KnownAtExchange(r) /\ CheckedUntilUpdated(r)
  /\ CachedIsOfSource /\ RecordsAreOfService /\ AloneUnlessOverlapped
  /\ CreatorIsAlone /\ DerivationsStand /\ AgreeUnlessOverlapped
-----------------------------------------------------------------------------
(***************************************************************************)
(* What a step of one goroutine leaves alone.                              *)
(***************************************************************************)
\* Locals of an idle goroutine.
LEMMA IdleType == Idle \in Locals
  BY SMT DEF Idle, Locals, NoId, NoEvidence, Evidence, AnyId

\* Nothing of q's but whether its token has been checked is changed by another.
Same(q) ==
  /\ pc'[q] = pc[q]
  /\ loc'[q].op = loc[q].op /\ loc'[q].service = loc[q].service /\ loc'[q].method = loc[q].method
  /\ loc'[q].i = loc[q].i /\ loc'[q].sent = loc[q].sent /\ loc'[q].answer = loc[q].answer
  /\ loc'[q].keep = loc[q].keep /\ loc'[q].up = loc[q].up /\ loc'[q].from = loc[q].from
  /\ loc'[q].ok = loc[q].ok

\* What the server and the UAS have learned stays.
Grows ==
  /\ practice' = practice
  /\ Issued \subseteq Issued' /\ \A d \in Issued : issued'[d] = issued[d]
  /\ reserved \subseteq reserved'
  /\ \A x \in Sources : tokens[x].id # NoId => tokens'[x].id # NoId

\* Only an update of an output reaches into other goroutines: the AS expires
\* their tokens.
LEMMA OthersUnless ==
  ASSUME TypeOK, NEW r \in Requests, NEW q \in Requests \ {r}, Run(r)
  PROVE  /\ pc'[q] = pc[q]
         /\ loc'[q] \in {loc[q], [loc[q] EXCEPT !.checked = FALSE]}
         /\ ~UpdateOutput(r) => loc'[q] = loc[q]
<1> USE DEF TypeOK
<1> SUFFICES ASSUME ~UpdateOutput(r) PROVE pc'[q] = pc[q] /\ loc'[q] = loc[q]
  <2> SUFFICES ASSUME UpdateOutput(r)
               PROVE  pc'[q] = pc[q] /\ loc'[q] \in {loc[q], [loc[q] EXCEPT !.checked = FALSE]}
    OBVIOUS
  <2>1. pc'[q] = pc[q]
    BY DEF UpdateOutput, Goto, Failed
  <2>2. loc'[q] = loc[q] \/ loc'[q] = [loc[q] EXCEPT !.checked = FALSE]
    BY DEF UpdateOutput, Failed
  <2> QED
    BY <2>1, <2>2
<1>1. CASE CreateService(r) \/ GetOutput(r) \/ DeleteService(r)
  BY <1>1 DEF CreateService, GetOutput, DeleteService, Begin, Goto
<1>2. CASE AskSource(r) \/ DiscoveryFails(r) \/ Exchange(r)
  BY <1>2 DEF AskSource, DiscoveryFails, Exchange, Goto, GiveUp, Proceed, End, Staged, Materialize
<1>3. CASE KeepId(r) \/ StoreToken(r) \/ StillFresh(r) \/ Query(r)
  BY <1>3 DEF KeepId, StoreToken, StillFresh, Query, Goto, GiveUp, Proceed, End, Staged, Materialize
<1>4. CASE RegisterOutput(r) \/ PutDerivation(r) \/ StoreDerivedFrom(r) \/ InsertService(r)
  BY <1>4 DEF RegisterOutput, PutDerivation, StoreDerivedFrom, InsertService, Goto, End, Failed
<1>5. CASE ReplaceService(r) \/ Recheck(r) \/ ServeOutput(r)
  BY <1>5 DEF ReplaceService, Recheck, ServeOutput, Goto, End
<1>6. CASE UnregisterOutput(r) \/ Cleanup(r) \/ DropService(r)
  BY <1>6 DEF UnregisterOutput, Cleanup, DropService, Goto, End
<1> QED
  BY <1>1, <1>2, <1>3, <1>4, <1>5, <1>6 DEF Run

\* A step is of one goroutine.
LEMMA OneMoves ==
  ASSUME TypeOK, NEW r \in Requests, NEW q \in Requests \ {r}, Run(r)
  PROVE  Same(q)
<1>1. pc'[q] = pc[q] /\ loc'[q] \in {loc[q], [loc[q] EXCEPT !.checked = FALSE]}
  BY OthersUnless
<1>2. loc[q] \in Locals
  BY DEF TypeOK
<1> QED
  BY <1>1, <1>2 DEF Same, Locals
-----------------------------------------------------------------------------
(***************************************************************************)
(* Types of the locals.                                                    *)
(***************************************************************************)
\* On to the next source.
LEMMA AdvanceType ==
  ASSUME NEW r \in Requests, NEW l \in Locals
  PROVE  /\ Advance(r, l) \in Locals
         /\ Advance(r, l).i = l.i + 1 /\ Advance(r, l).sent = NoId /\ Advance(r, l).answer = NoId
         /\ Advance(r, l).keep = NoId
         /\ Advance(r, l).op = l.op /\ Advance(r, l).service = l.service
         /\ Advance(r, l).method = l.method /\ Advance(r, l).up = l.up
         /\ Advance(r, l).from = l.from /\ Advance(r, l).ok = l.ok /\ Advance(r, l).checked = l.checked
<1>1. Advance(r, l) \in Locals
  <2>1. ASSUME NEW n \in Nat
        PROVE  [l EXCEPT !.i = n, !.sent = NoId, !.answer = NoId, !.keep = NoId] \in Locals
    BY DEF Locals
  <2>2. l.i + 1 \in Nat
    BY DEF Locals
  <2> QED
    BY <2>1, <2>2 DEF Advance
<1>2. Advance(r, l).i = l.i + 1 /\ Advance(r, l).sent = NoId /\ Advance(r, l).answer = NoId
      /\ Advance(r, l).keep = NoId
  BY DEF Advance, Locals
<1>3. /\ Advance(r, l).op = l.op /\ Advance(r, l).service = l.service
      /\ Advance(r, l).method = l.method /\ Advance(r, l).up = l.up
      /\ Advance(r, l).from = l.from /\ Advance(r, l).ok = l.ok /\ Advance(r, l).checked = l.checked
  BY DEF Advance, Locals
<1> QED
  BY <1>1, <1>2, <1>3

\* The evidence after a source was read.
NewEvidence(l, id) == IF l.up.issuer THEN l.up ELSE [issuer |-> TRUE, id |-> id]

\* A source was read.
LEMMA StagedFacts ==
  ASSUME TypeOK, NEW r \in Requests, NEW id \in {NoId} \cup Ids, Staged(r, id)
  PROVE  /\ pc' = [pc EXCEPT ![r] = "next"] /\ loc' = [loc EXCEPT ![r] = loc'[r]]
         /\ loc'[r] \in Locals
         /\ loc'[r].up = NewEvidence(loc[r], id)
         /\ loc'[r].i = loc[r].i + 1
         /\ loc'[r].op = loc[r].op /\ loc'[r].service = loc[r].service
         /\ loc'[r].method = loc[r].method /\ loc'[r].from = loc[r].from
         /\ loc'[r].ok = loc[r].ok /\ loc'[r].checked = loc[r].checked
<1> DEFINE l == loc[r]
           m == IF l.up.issuer THEN l ELSE [l EXCEPT !.up = [issuer |-> TRUE, id |-> id]]
<1>1. l \in Locals
  BY DEF TypeOK
<1>2. /\ m \in Locals /\ m.up = NewEvidence(l, id)
      /\ m.i = l.i /\ m.op = l.op /\ m.service = l.service /\ m.method = l.method
      /\ m.from = l.from /\ m.ok = l.ok /\ m.checked = l.checked
  BY <1>1 DEF Locals, Evidence, NewEvidence, NoId, Ids
<1>3. loc' = [loc EXCEPT ![r] = Advance(r, m)] /\ pc' = [pc EXCEPT ![r] = "next"]
  BY DEF Staged, Goto
<1>4. loc'[r] = Advance(r, m)
  BY <1>3 DEF TypeOK
<1>5. loc' = [loc EXCEPT ![r] = loc'[r]]
  BY <1>3, <1>4
<1> HIDE DEF m
<1>6. /\ loc'[r] \in Locals /\ loc'[r].i = m.i + 1
      /\ loc'[r].op = m.op /\ loc'[r].service = m.service
      /\ loc'[r].method = m.method /\ loc'[r].up = m.up
      /\ loc'[r].from = m.from /\ loc'[r].ok = m.ok /\ loc'[r].checked = m.checked
  BY <1>2, <1>4, AdvanceType
<1> QED
  BY <1>2, <1>3, <1>5, <1>6

\* The sources are read from the first one on.
LEMMA MaterializeFacts ==
  ASSUME TypeOK, NEW r \in Requests, Materialize(r)
  PROVE  /\ pc' = [pc EXCEPT ![r] = "next"] /\ loc' = [loc EXCEPT ![r] = loc'[r]]
         /\ loc'[r] \in Locals
         /\ loc'[r].up = loc[r].up
         /\ loc'[r].i = 1 /\ loc'[r].method = "GET"
         /\ loc'[r].op = loc[r].op /\ loc'[r].service = loc[r].service
         /\ loc'[r].from = loc[r].from
         /\ loc'[r].ok = loc[r].ok /\ loc'[r].checked = loc[r].checked
<1> DEFINE l == loc[r]
           m == [l EXCEPT !.method = "GET", !.i = 0]
<1>1. l \in Locals
  BY DEF TypeOK
<1>2. /\ m \in Locals /\ m.up = l.up
      /\ m.i = 0 /\ m.op = l.op /\ m.service = l.service /\ m.method = "GET"
      /\ m.from = l.from /\ m.ok = l.ok /\ m.checked = l.checked
  BY <1>1 DEF Locals
<1>3. loc' = [loc EXCEPT ![r] = Advance(r, m)] /\ pc' = [pc EXCEPT ![r] = "next"]
  BY DEF Materialize, Goto
<1>4. loc'[r] = Advance(r, m)
  BY <1>3 DEF TypeOK
<1>5. loc' = [loc EXCEPT ![r] = loc'[r]]
  BY <1>3, <1>4
<1> HIDE DEF m
<1>6. /\ loc'[r] \in Locals /\ loc'[r].i = m.i + 1
      /\ loc'[r].op = m.op /\ loc'[r].service = m.service
      /\ loc'[r].method = m.method /\ loc'[r].up = m.up
      /\ loc'[r].from = m.from /\ loc'[r].ok = m.ok /\ loc'[r].checked = m.checked
  BY <1>2, <1>4, AdvanceType
<1> QED
  BY <1>2, <1>3, <1>5, <1>6

\* A source was left out.
LEMMA ProceedFacts ==
  ASSUME TypeOK, NEW r \in Requests, Proceed(r)
  PROVE  /\ pc' = [pc EXCEPT ![r] = "next"] /\ loc' = [loc EXCEPT ![r] = loc'[r]]
         /\ loc'[r] \in Locals
         /\ loc'[r].up = loc[r].up
         /\ loc'[r].i = loc[r].i + 1
         /\ loc'[r].op = loc[r].op /\ loc'[r].service = loc[r].service
         /\ loc'[r].method = loc[r].method /\ loc'[r].from = loc[r].from
         /\ loc'[r].ok = loc[r].ok /\ loc'[r].checked = loc[r].checked
<1>1. loc[r] \in Locals
  BY DEF TypeOK
<1>2. loc' = [loc EXCEPT ![r] = Advance(r, loc[r])] /\ pc' = [pc EXCEPT ![r] = "next"]
  BY DEF Proceed, Goto
<1>3. loc'[r] = Advance(r, loc[r])
  BY <1>2 DEF TypeOK
<1>4. loc' = [loc EXCEPT ![r] = loc'[r]]
  BY <1>2, <1>3
<1> QED
  BY <1>1, <1>2, <1>3, <1>4, AdvanceType

\* The request is answered.
LEMMA EndFacts ==
  ASSUME TypeOK, NEW r \in Requests, End(r)
  PROVE  /\ pc' = [pc EXCEPT ![r] = "idle"] /\ loc' = [loc EXCEPT ![r] = loc'[r]]
         /\ loc'[r] \in Locals /\ loc'[r].op = "none" /\ loc'[r].i = 1
         /\ loc'[r].checked
  BY IdleType DEF End, Goto, Idle, TypeOK
-----------------------------------------------------------------------------
(***************************************************************************)
(* The invariants that speak of one goroutine, and what preserves them.    *)
(***************************************************************************)
Own(r) == Fits(r) /\ ExchangedIsOfSource(r) /\ EvidenceIsOfService(r) /\ KnownAtExchange(r)

\* While sources are left, there is one at hand, and it is of the service.
LEMMA SourceType ==
  ASSUME TypeOK, NEW r \in Requests, Fits(r), ~Last(r)
  PROVE  Source(r) \in Sources /\ Source(r) \in Range(SourcesOf[Service(r)])
<1>1. loc[r].i \in Nat /\ Service(r) \in Services
  BY DEF TypeOK, Locals, Service
<1>2. SourcesOf[Service(r)] \in Seq(Sources)
  BY <1>1 DEF SourcesAssumption
<1>3. loc[r].i \in 1 .. Len(SourcesOf[Service(r)])
  BY <1>1, <1>2 DEF Fits, Last
<1>4. loc[r].i \in DOMAIN SourcesOf[Service(r)]
  BY <1>2, <1>3
<1> QED
  BY <1>2, <1>3, <1>4 DEF Source, Range

\* What was issued stays, and what is new was issued for the source.
LEMMA GrantFacts ==
  ASSUME TypeOK, NEW x \in Sources, NEW sent \in {NoId} \cup Ids, NEW id \in {NoId} \cup Ids,
         Of(sent, x), Grant(x, sent, id)
  PROVE  /\ issued' \in Seq(Sources) /\ Len(issued') <= MaxId
         /\ Issued \subseteq Issued' /\ \A d \in Issued : issued'[d] = issued[d]
         /\ derivations \subseteq derivations' /\ derivations' \subseteq Issued' \cup Services
         /\ id # NoId => id \in Issued' /\ issued'[id] = x
         /\ id = NoId => practice = "terse" /\ sent # NoId
<1> USE DEF TypeOK, Of, Issued, NoId, Ids
<1>1. CASE sent \in derivations /\ practice # "renews"
  <2>1. sent # NoId
    <3>1. 0 \notin Services
      BY DEF ServicesAssumption
    <3>2. DOMAIN issued = 1 .. Len(issued)
      OBVIOUS
    <3> QED
      BY <1>1, <3>1, <3>2
  <2>2. id = (IF practice = "keeps" THEN sent ELSE NoId) /\ UNCHANGED <<issued, derivations>>
    BY <1>1 DEF Grant
  <2>3. practice \in {"keeps", "terse"}
    BY <1>1 DEF Practices
  <2> QED
    BY <2>1, <2>2, <2>3
<1>2. CASE ~(sent \in derivations /\ practice # "renews")
  <2>1. /\ Len(issued) < MaxId /\ issued' = Append(issued, x)
        /\ id = Len(issued') /\ derivations' = derivations \cup {id}
    BY <1>2 DEF Grant
  <2>2. /\ issued' \in Seq(Sources) /\ Len(issued') = Len(issued) + 1
        /\ Len(issued) \in Nat /\ issued \in Seq(Sources)
    BY <2>1
  <2>3. /\ DOMAIN issued = 1 .. Len(issued) /\ DOMAIN issued' = 1 .. Len(issued')
        /\ \A d \in 1 .. Len(issued) : issued'[d] = issued[d]
        /\ issued'[Len(issued')] = x
    BY <2>1, <2>2
  <2>4. id \in Issued' /\ issued'[id] = x /\ id # NoId
    BY <2>1, <2>2, <2>3
  <2>5. derivations' \subseteq Issued' \cup Services
    BY <2>1, <2>2, <2>3, <2>4
  <2>6. Len(issued') <= MaxId
    BY <2>1, <2>2 DEF IdsAssumption
  <2> QED
    BY <2>1, <2>2, <2>3, <2>4, <2>5, <2>6
<1> QED
  BY <1>1, <1>2

\* What is known only grows, and nothing else touches the others.
LEMMA OthersOwn ==
  ASSUME TypeOK, Grows, NEW q \in Requests, Same(q), Own(q)
  PROVE  Own(q)'
<1> USE DEF Same, Grows, Service, Source
<1>1. Fits(q)'
  BY DEF Own, Fits, Active, Last
<1>2. ExchangedIsOfSource(q)'
  BY DEF Own, ExchangedIsOfSource, Of
<1>3. EvidenceIsOfService(q)'
  BY DEF Own, EvidenceIsOfService, Active, MayDerive, Prefixed
<1>4. KnownAtExchange(q)'
  <2>1. pc[q] \in {"json", "form", "keep", "store"} => Source(q) \in Sources
    BY SourceType DEF Own, Fits
  <2> QED
    BY <2>1 DEF Own, KnownAtExchange
<1> QED
  BY <1>1, <1>2, <1>3, <1>4 DEF Own

\* The request ends.
LEMMA EndOwn ==
  ASSUME TypeOK, NEW r \in Requests, End(r)
  PROVE  Own(r)'
<1>1. pc'[r] = "idle" /\ loc'[r].op = "none" /\ loc'[r].i = 1
  BY EndFacts DEF TypeOK
<1> QED
  BY <1>1 DEF Own, Fits, ExchangedIsOfSource, EvidenceIsOfService, KnownAtExchange, Active

\* The request goes on with the sources.
LEMMA NextOwn ==
  ASSUME TypeOK, Grows, NEW r \in Requests, Own(r), loc[r].op \in {"create", "output"},
         pc'[r] = "next", loc'[r].i >= 1,
         loc'[r].op = loc[r].op, loc'[r].service = loc[r].service, loc'[r].from = loc[r].from,
         loc'[r].method \in {loc[r].method, "GET"},
         NEW id, loc'[r].up = loc[r].up \/ loc'[r].up = [issuer |-> TRUE, id |-> id],
         id = NoId \/ (id \in Issued' /\ issued'[id] \in Range(SourcesOf[Service(r)])),
         id = NoId => practice = "terse"
  PROVE  Own(r)'
<1> USE DEF Grows, Service
<1>1. pc[r] # "idle"
  BY DEF Own, Fits
<1>2. Fits(r)'
  BY <1>1 DEF Own, Fits, Active
<1>3. EvidenceIsOfService(r)'
  BY <1>1 DEF Own, EvidenceIsOfService, Active, MayDerive, Prefixed
<1> QED
  BY <1>2, <1>3 DEF Own, ExchangedIsOfSource, KnownAtExchange

\* Nothing was read.
LEMMA ProceedOwn ==
  ASSUME TypeOK, Grows, NEW r \in Requests, Own(r), loc[r].op \in {"create", "output"},
         Proceed(r) \/ Materialize(r)
  PROVE  Own(r)'
<1>1. loc[r].i \in Nat /\ loc[r].i >= 1
  BY DEF TypeOK, Locals, Own, Fits
<1>2. /\ pc'[r] = "next" /\ loc'[r].i >= 1 /\ loc'[r].op = loc[r].op
      /\ loc'[r].service = loc[r].service /\ loc'[r].from = loc[r].from
      /\ loc'[r].method \in {loc[r].method, "GET"} /\ loc'[r].up = loc[r].up
  BY <1>1, ProceedFacts, MaterializeFacts DEF TypeOK
<1>3. pc[r] # "idle"
  BY DEF Own, Fits
<1>4. Fits(r)'
  BY <1>2, <1>3 DEF Own, Fits, Active, Grows, Service
<1>5. EvidenceIsOfService(r)'
  BY <1>2, <1>3 DEF Own, EvidenceIsOfService, Active, MayDerive, Prefixed, Grows, Service
<1> QED
  BY <1>2, <1>4, <1>5 DEF Own, ExchangedIsOfSource, KnownAtExchange

\* Something was read, and the first evidence stays.
LEMMA StagedOwn ==
  ASSUME TypeOK, Grows, NEW r \in Requests, Own(r), loc[r].op \in {"create", "output"},
         NEW id \in {NoId} \cup Ids, Staged(r, id),
         id = NoId \/ (id \in Issued' /\ issued'[id] \in Range(SourcesOf[Service(r)])),
         id = NoId => practice = "terse"
  PROVE  Own(r)'
<1>1. loc[r].i \in Nat /\ loc[r].i >= 1
  BY DEF TypeOK, Locals, Own, Fits
<1>2. /\ pc'[r] = "next" /\ loc'[r].i >= 1 /\ loc'[r].op = loc[r].op
      /\ loc'[r].service = loc[r].service /\ loc'[r].from = loc[r].from
      /\ loc'[r].method = loc[r].method /\ loc'[r].up = NewEvidence(loc[r], id)
  BY <1>1, StagedFacts DEF TypeOK
<1> QED
  BY <1>2, NextOwn DEF NewEvidence
-----------------------------------------------------------------------------
(***************************************************************************)
(* Every step of a goroutine keeps what was learned, and the ids apart.    *)
(***************************************************************************)
\* A record is written.
LEMMA AssignFacts ==
  ASSUME NEW f, NEW k, NEW v
  PROVE  /\ DOMAIN Assign(f, k, v) = DOMAIN f \cup {k}
         /\ Assign(f, k, v)[k] = v
         /\ \A x \in DOMAIN f \ {k} : Assign(f, k, v)[x] = f[x]
  BY DEF Assign

\* A record is deleted.
LEMMA DropFacts ==
  ASSUME NEW f, NEW k
  PROVE  DOMAIN Drop(f, k) = DOMAIN f \ {k} /\ \A x \in DOMAIN f \ {k} : Drop(f, k)[x] = f[x]
  BY DEF Drop, Restrict

\* The part of the invariant that is about one goroutine.
LEMMA OwnOf == ASSUME IInv, NEW r \in Requests PROVE Own(r)
  BY DEF IInv, Own

\* At an exchange there is a source at hand.
LEMMA AtSource ==
  ASSUME IInv, NEW r \in Requests, pc[r] \in {"json", "form", "keep", "store"}
  PROVE  Source(r) \in Sources /\ Source(r) \in Range(SourcesOf[Service(r)])
  BY SourceType DEF IInv, Fits

\* An exchange that was granted, whether or not its answer arrives.
LEMMA GrantedFacts ==
  ASSUME IInv, NEW r \in Requests, pc[r] \in {"json", "form"}, NEW id \in {NoId} \cup Ids,
         Grant(Source(r), loc[r].sent, id)
  PROVE  /\ issued' \in Seq(Sources) /\ Len(issued') <= MaxId
         /\ Issued \subseteq Issued' /\ \A d \in Issued : issued'[d] = issued[d]
         /\ derivations \subseteq derivations' /\ derivations' \subseteq Issued' \cup Services
         /\ id # NoId => id \in Issued' /\ issued'[id] = Source(r)
         /\ id = NoId => practice = "terse" /\ loc[r].sent # NoId
<1>1. TypeOK /\ Source(r) \in Sources
  BY AtSource DEF IInv
<1>2. loc[r].sent \in {NoId} \cup Ids
  BY <1>1 DEF TypeOK, Locals
<1>3. Of(loc[r].sent, Source(r))
  BY DEF IInv, ExchangedIsOfSource
<1> QED
  BY <1>1, <1>2, <1>3, GrantFacts

\* No step unlearns anything: it is here that the id an answer lacks is the one
\* that was read before.
LEMMA GrowsStep ==
  ASSUME IInv, NEW r \in Requests, Run(r)
  PROVE  Grows
<1> USE DEF Grows, Issued
<1>1. CASE Exchange(r)
  <2>1. practice' = practice /\ reserved' = reserved /\ tokens' = tokens /\ pc[r] \in {"json", "form"}
    BY <1>1 DEF Exchange, serverVars
  <2>2. CASE UNCHANGED issued
    BY <2>1, <2>2
  <2>3. CASE \E id \in {NoId} \cup Ids : Grant(Source(r), loc[r].sent, id)
    BY <2>1, <2>3, GrantedFacts
  <2> QED
    BY <1>1, <2>2, <2>3 DEF Exchange
<1>2. CASE StoreToken(r)
  <2>1. loc[r].keep # NoId /\ Source(r) \in Sources
    BY <1>2, AtSource DEF IInv, KnownAtExchange, StoreToken, At
  <2> QED
    BY <1>2, <2>1 DEF StoreToken, uasVars, IInv, TypeOK
<1>3. CASE CreateService(r) \/ GetOutput(r) \/ DeleteService(r)
  BY <1>3 DEF CreateService, GetOutput, DeleteService, Begin, uasVars
<1>4. CASE AskSource(r) \/ DiscoveryFails(r) \/ KeepId(r) \/ StillFresh(r) \/ Query(r)
  BY <1>4 DEF AskSource, DiscoveryFails, KeepId, StillFresh, Query, uasVars, serverVars
<1>5. CASE RegisterOutput(r) \/ PutDerivation(r) \/ UpdateOutput(r) \/ StoreDerivedFrom(r)
  BY <1>5 DEF RegisterOutput, PutDerivation, UpdateOutput, StoreDerivedFrom, uasVars, serverVars
<1>6. CASE InsertService(r) \/ ReplaceService(r) \/ Recheck(r) \/ ServeOutput(r)
  BY <1>6 DEF InsertService, ReplaceService, Recheck, ServeOutput, uasVars, serverVars
<1>7. CASE UnregisterOutput(r) \/ Cleanup(r) \/ DropService(r)
  BY <1>7 DEF UnregisterOutput, Cleanup, DropService, uasVars, serverVars
<1> QED
  BY <1>1, <1>2, <1>3, <1>4, <1>5, <1>6, <1>7 DEF Run

\* The token cache has the ids of its source.
LEMMA CachedStep ==
  ASSUME IInv, NEW r \in Requests, Run(r)
  PROVE  CachedIsOfSource'
<1>1. Grows
  BY GrowsStep
<1>2. CASE tokens' = tokens
  BY <1>1, <1>2 DEF IInv, CachedIsOfSource, Of, Grows
<1>3. CASE StoreToken(r)
  <2>1. /\ Source(r) \in Sources /\ Of(loc[r].answer, Source(r)) /\ Of(loc[r].keep, Source(r))
        /\ practice # "terse" => loc[r].answer # NoId
    BY <1>3, AtSource DEF IInv, ExchangedIsOfSource, StoreToken, At
  <2>2. /\ tokens' = [tokens EXCEPT ![Source(r)] =
              [held |-> TRUE, id |-> loc[r].keep, response |-> loc[r].answer]]
        /\ issued' = issued /\ practice' = practice
    BY <1>3 DEF StoreToken, uasVars
  <2>3. tokens \in [Sources -> Tokens]
    BY DEF IInv, TypeOK
  <2>4. SUFFICES ASSUME NEW x \in Sources
                 PROVE  /\ Of(tokens[x].id, x)' /\ Of(tokens[x].response, x)'
                        /\ tokens'[x].held /\ practice # "terse" => tokens'[x].response # NoId
    BY <2>2 DEF CachedIsOfSource
  <2>5. CASE x = Source(r)
    BY <2>1, <2>2, <2>3, <2>5 DEF Of, Issued
  <2>6. CASE x # Source(r)
    BY <2>2, <2>3, <2>6 DEF Of, Issued, IInv, CachedIsOfSource
  <2> QED
    BY <2>5, <2>6
<1>4. CASE CreateService(r) \/ GetOutput(r) \/ DeleteService(r)
  BY <1>2, <1>4 DEF CreateService, GetOutput, DeleteService, Begin
<1>5. CASE AskSource(r) \/ DiscoveryFails(r) \/ KeepId(r) \/ StillFresh(r) \/ Query(r)
  BY <1>2, <1>5 DEF AskSource, DiscoveryFails, KeepId, StillFresh, Query, serverVars
<1>6. CASE RegisterOutput(r) \/ PutDerivation(r) \/ UpdateOutput(r) \/ StoreDerivedFrom(r) \/ Exchange(r)
  BY <1>2, <1>6 DEF RegisterOutput, PutDerivation, UpdateOutput, StoreDerivedFrom, Exchange, serverVars
<1>7. CASE InsertService(r) \/ ReplaceService(r) \/ Recheck(r) \/ ServeOutput(r)
  BY <1>2, <1>7 DEF InsertService, ReplaceService, Recheck, ServeOutput, serverVars
<1>8. CASE UnregisterOutput(r) \/ Cleanup(r) \/ DropService(r)
  BY <1>2, <1>8 DEF UnregisterOutput, Cleanup, DropService, serverVars
<1> QED
  BY <1>3, <1>4, <1>5, <1>6, <1>7, <1>8 DEF Run

\* Entries that are added to the records are of the service they are added for.
LEMMA RecordsStep ==
  ASSUME IInv, NEW r \in Requests, Run(r)
  PROVE  RecordsAreOfService'
<1>1. Grows
  BY GrowsStep
<1>2. \A s, d : MayDerive(s, d) => MayDerive(s, d)'
  BY <1>1 DEF Grows, MayDerive, Prefixed
<1>3. pc[r] # "idle" => MayDerive(Service(r), loc[r].from)
  BY DEF IInv, EvidenceIsOfService, Active
<1>4. \A s : MayDerive(s, NoId)
  BY DEF MayDerive
<1> USE DEF IInv, RecordsAreOfService
<1>5. CASE UNCHANGED <<derivedFrom, assets, services>>
  BY <1>2, <1>5
<1>6. CASE RegisterOutput(r)
  BY <1>2, <1>4, <1>6 DEF RegisterOutput, Assign
<1>7. CASE UpdateOutput(r)
  BY <1>2, <1>3, <1>7 DEF UpdateOutput, Assign, At, serverVars
<1>8. CASE StoreDerivedFrom(r)
  BY <1>2, <1>3, <1>8 DEF StoreDerivedFrom, Assign, At
<1>9. CASE InsertService(r) \/ ReplaceService(r)
  <2>1. Entry(r).from \in {NoId, loc[r].from}
    BY DEF Entry
  <2>2. services' \in {services, Assign(services, Service(r), Entry(r))}
    BY <1>9 DEF InsertService, ReplaceService, Replaced
  <2>3. \A s \in DOMAIN services' : \/ services'[s] = services[s] /\ s \in DOMAIN services
                                    \/ s = Service(r) /\ services'[s] = Entry(r)
    <3>1. CASE services' = services
      BY <3>1
    <3>2. CASE services' = Assign(services, Service(r), Entry(r))
      BY <3>2 DEF Assign
    <3> QED
      BY <2>2, <3>1, <3>2
  <2>4. pc[r] # "idle" /\ derivedFrom' = derivedFrom /\ assets' = assets
    BY <1>9 DEF InsertService, ReplaceService, At
  <2>5. MayDerive(Service(r), Entry(r).from)
    BY <1>3, <1>4, <2>1, <2>4
  <2>6. \A s \in DOMAIN services : MayDerive(s, services[s].from)
    OBVIOUS
  <2>7. \A s \in DOMAIN services' : MayDerive(s, services'[s].from)
    <3>1. SUFFICES ASSUME NEW s \in DOMAIN services'
                   PROVE  MayDerive(s, services'[s].from)
      OBVIOUS
    <3>2. CASE services'[s] = services[s] /\ s \in DOMAIN services
      BY <2>6, <3>2
    <3>3. CASE s = Service(r) /\ services'[s] = Entry(r)
      BY <2>5, <3>3
    <3> QED
      BY <2>3, <3>2, <3>3
  <2> QED
    BY <1>2, <2>4, <2>7
<1>10. CASE UnregisterOutput(r) \/ Cleanup(r) \/ DropService(r)
  BY <1>2, <1>10 DEF UnregisterOutput, Cleanup, DropService, Drop, Restrict, serverVars
<1>11. CASE CreateService(r) \/ GetOutput(r) \/ DeleteService(r)
  BY <1>5, <1>11 DEF CreateService, GetOutput, DeleteService, Begin
<1>12. CASE AskSource(r) \/ DiscoveryFails(r) \/ Exchange(r) \/ KeepId(r) \/ StoreToken(r)
  BY <1>5, <1>12 DEF AskSource, DiscoveryFails, Exchange, KeepId, StoreToken, serverVars
<1>13. CASE StillFresh(r) \/ Query(r) \/ PutDerivation(r) \/ Recheck(r) \/ ServeOutput(r)
  BY <1>5, <1>13 DEF StillFresh, Query, PutDerivation, Recheck, ServeOutput, serverVars
<1> QED
  BY <1>6, <1>7, <1>8, <1>9, <1>10, <1>11, <1>12, <1>13 DEF Run
-----------------------------------------------------------------------------
(***************************************************************************)
(* The request that moves.                                                 *)
(***************************************************************************)
\* A request begins.
LEMMA BeginFacts ==
  ASSUME TypeOK, NEW r \in Requests, NEW op \in {"create", "output", "delete"},
         NEW s \in Services, NEW label \in Labels, Begin(r, op, s, label),
         op = "delete" => services[s].from \in AnyId
  PROVE  /\ pc[r] = "idle"
         /\ pc' = [pc EXCEPT ![r] = label] /\ loc' = [loc EXCEPT ![r] = loc'[r]]
         /\ loc'[r] \in Locals
         /\ loc'[r].op = op /\ loc'[r].service = s /\ loc'[r].i = 1
         /\ loc'[r].method = (IF op = "output" THEN "HEAD" ELSE "GET")
         /\ loc'[r].up = NoEvidence /\ loc'[r].checked
         /\ loc'[r].from = (IF op = "delete" THEN services[s].from ELSE NoId)
<1> DEFINE m == IF op = "output" THEN "HEAD" ELSE "GET"
           d == IF op = "delete" THEN services[s].from ELSE NoId
           l == [Idle EXCEPT !.op = op, !.service = s, !.method = m, !.from = d]
<1>1. loc' = [loc EXCEPT ![r] = l] /\ pc' = [pc EXCEPT ![r] = label] /\ pc[r] = "idle"
  BY DEF Begin, Goto, At
<1>2. m \in {"GET", "HEAD"} /\ d \in AnyId
  BY DEF AnyId
<1> HIDE DEF m, d
<1>3. /\ l \in Locals /\ l.op = op /\ l.service = s /\ l.method = m /\ l.from = d
      /\ l.i = 1 /\ l.up = NoEvidence /\ l.checked
  BY <1>2, IdleType DEF Locals, Idle
<1>4. loc'[r] = l
  BY <1>1 DEF TypeOK
<1> QED
  BY <1>1, <1>3, <1>4 DEF m, d

\* A deletion takes its derivation from the service.
LEMMA BeginOwn ==
  ASSUME IInv, NEW r \in Requests,
         CreateService(r) \/ GetOutput(r) \/ DeleteService(r)
  PROVE  Own(r)' /\ pc'[r] \in Labels /\ loc'[r] \in Locals
<1> USE DEF Own, Fits, ExchangedIsOfSource, EvidenceIsOfService, KnownAtExchange, Active, Service
<1>1. TypeOK /\ 1 >= 1 /\ 1 <= 1
  BY DEF IInv
<1>2. CASE CreateService(r)
  <2>1. PICK s \in Services : Begin(r, "create", s, "next") /\ reserved' = reserved \cup {s}
    BY <1>2 DEF CreateService
  <2>2. /\ pc'[r] = "next" /\ loc'[r] \in Locals
        /\ loc'[r].op = "create" /\ loc'[r].service = s /\ loc'[r].i = 1
        /\ loc'[r].method = "GET" /\ loc'[r].up = NoEvidence /\ loc'[r].from = NoId
    BY <1>1, <2>1, BeginFacts DEF TypeOK, Labels
  <2> QED
    BY <2>1, <2>2 DEF NoEvidence, MayDerive, Labels
<1>3. CASE GetOutput(r)
  <2>1. PICK s \in DOMAIN services : Begin(r, "output", s, "next") /\ reserved' = reserved
    BY <1>3 DEF GetOutput
  <2>2. s \in reserved /\ s \in Services
    BY <1>1 DEF TypeOK
  <2>3. /\ pc'[r] = "next" /\ loc'[r] \in Locals
        /\ loc'[r].op = "output" /\ loc'[r].service = s /\ loc'[r].i = 1
        /\ loc'[r].method = "HEAD" /\ loc'[r].up = NoEvidence /\ loc'[r].from = NoId
    BY <1>1, <2>1, <2>2, BeginFacts DEF TypeOK, Labels
  <2> QED
    BY <2>1, <2>2, <2>3 DEF NoEvidence, MayDerive, Labels
<1>4. CASE DeleteService(r)
  <2>1. PICK s \in DOMAIN services : Begin(r, "delete", s, "unregister") /\ reserved' = reserved
    BY <1>4 DEF DeleteService
  <2>2. s \in reserved /\ s \in Services /\ services[s].from \in AnyId
    BY <1>1 DEF TypeOK
  <2>3. /\ pc'[r] = "unregister" /\ loc'[r] \in Locals
        /\ loc'[r].op = "delete" /\ loc'[r].service = s /\ loc'[r].i = 1
        /\ loc'[r].method = "GET" /\ loc'[r].up = NoEvidence /\ loc'[r].from = services[s].from
    BY <1>1, <2>1, <2>2, BeginFacts DEF TypeOK, Labels
  <2>4. MayDerive(s, services[s].from)
    BY DEF IInv, RecordsAreOfService
  <2>5. issued' = issued /\ practice' = practice
    BY <2>1 DEF Begin, uasVars
  <2> QED
    BY <2>1, <2>2, <2>3, <2>4, <2>5 DEF NoEvidence, MayDerive, Labels, Issued, Prefixed
<1> QED
  BY <1>2, <1>3, <1>4

\* The outcomes of a request to a source.
LEMMA ReadOwn ==
  ASSUME IInv, Grows, NEW r \in Requests, loc[r].op \in {"create", "output"},
         NEW id \in {NoId} \cup Ids,
         Proceed(r) \/ Materialize(r) \/ GiveUp(r) \/ End(r) \/ Staged(r, id),
         id = NoId \/ (id \in Issued' /\ issued'[id] \in Range(SourcesOf[Service(r)])),
         id = NoId => practice = "terse"
  PROVE  Own(r)' /\ pc'[r] \in Labels /\ loc'[r] \in Locals
<1>1. TypeOK /\ Own(r)
  BY OwnOf DEF IInv
<1>2. CASE Proceed(r)
  BY <1>1, <1>2, ProceedOwn, ProceedFacts DEF TypeOK, Labels
<1>3. CASE Materialize(r)
  BY <1>1, <1>3, ProceedOwn, MaterializeFacts DEF TypeOK, Labels
<1>4. CASE End(r)
  BY <1>1, <1>4, EndOwn, EndFacts DEF TypeOK, Labels
<1>5. CASE Staged(r, id)
  <2>1. Own(r)'
    BY <1>1, <1>5, StagedOwn
  <2>2. pc'[r] = "next" /\ loc'[r] \in Locals
    BY <1>1, <1>5, StagedFacts DEF TypeOK
  <2> QED
    BY <2>1, <2>2 DEF Labels
<1> QED
  BY <1>2, <1>3, <1>4, <1>5 DEF GiveUp

\* The same without anything read.
LEMMA GoOnOwn ==
  ASSUME IInv, Grows, NEW r \in Requests, loc[r].op \in {"create", "output"},
         Proceed(r) \/ Materialize(r) \/ GiveUp(r) \/ End(r)
  PROVE  Own(r)' /\ pc'[r] \in Labels /\ loc'[r] \in Locals
<1>1. TypeOK /\ Own(r)
  BY OwnOf DEF IInv
<1>2. CASE Proceed(r)
  BY <1>1, <1>2, ProceedOwn, ProceedFacts DEF TypeOK, Labels
<1>3. CASE Materialize(r)
  BY <1>1, <1>3, ProceedOwn, MaterializeFacts DEF TypeOK, Labels
<1>4. CASE End(r)
  BY <1>1, <1>4, EndOwn, EndFacts DEF TypeOK, Labels
<1> QED
  BY <1>2, <1>3, <1>4 DEF GiveUp

\* Only creations and outputs ask sources.
LEMMA AtWork ==
  ASSUME IInv, NEW r \in Requests,
         pc[r] \in {"next", "json", "form", "keep", "store"}
  PROVE  loc[r].op \in {"create", "output"}
<1>1. loc[r] \in Locals /\ Fits(r)
  BY DEF IInv, TypeOK
<1> QED
  BY <1>1 DEF Fits, Locals

\* The id that is sent with the exchange, and the evidence of a source read with
\* the cached token, come from the cache.
LEMMA AskSourceOwn ==
  ASSUME IInv, Grows, NEW r \in Requests, AskSource(r)
  PROVE  Own(r)' /\ pc'[r] \in Labels /\ loc'[r] \in Locals
<1>1. TypeOK /\ Own(r) /\ pc[r] = "next" /\ ~Last(r)
  BY OwnOf DEF IInv, AskSource, At
<1>2. loc[r].op \in {"create", "output"} /\ loc[r] \in Locals
  BY <1>1, AtWork DEF TypeOK
<1>3. Source(r) \in Sources /\ Source(r) \in Range(SourcesOf[Service(r)])
  BY <1>1, SourceType DEF Own
<1>4. /\ issued' = issued /\ practice' = practice /\ derivations' = derivations
      /\ tokens' = tokens /\ reserved' = reserved
  BY DEF AskSource, uasVars, serverVars
<1>5. tokens[Source(r)] \in Tokens /\ Of(tokens[Source(r)].id, Source(r))
      /\ Of(tokens[Source(r)].response, Source(r))
      /\ (tokens[Source(r)].held /\ practice # "terse" => tokens[Source(r)].response # NoId)
  BY <1>1, <1>3 DEF TypeOK, IInv, CachedIsOfSource
<1>6. CASE Goto(r, "json") /\ loc' = [loc EXCEPT ![r].sent = tokens[Source(r)].id]
  <2>1. pc'[r] = "json" /\ loc'[r] = [loc[r] EXCEPT !.sent = tokens[Source(r)].id]
    BY <1>1, <1>6 DEF Goto, TypeOK
  <2>2. loc'[r] \in Locals /\ loc'[r].sent = tokens[Source(r)].id
        /\ loc'[r].op = loc[r].op /\ loc'[r].service = loc[r].service /\ loc'[r].method = loc[r].method
        /\ loc'[r].i = loc[r].i /\ loc'[r].up = loc[r].up /\ loc'[r].from = loc[r].from
    BY <1>2, <1>5, <2>1 DEF Locals, Tokens
  <2>3. Service(r)' = Service(r) /\ Source(r)' = Source(r) /\ Last(r)' = Last(r)
    BY <2>2 DEF Service, Source, Last
  <2>4. Fits(r)'
    BY <1>1, <1>2, <1>4, <2>1, <2>2, <2>3 DEF Own, Fits, Active
  <2>5. ExchangedIsOfSource(r)'
    BY <1>4, <1>5, <2>1, <2>2, <2>3 DEF ExchangedIsOfSource, Of, Issued
  <2>6. EvidenceIsOfService(r)'
    BY <1>1, <1>4, <2>1, <2>2, <2>3 DEF Own, EvidenceIsOfService, Active, MayDerive, Issued, Prefixed
  <2>7. KnownAtExchange(r)'
    BY <1>4, <2>1, <2>2, <2>3 DEF KnownAtExchange
  <2> QED
    BY <2>1, <2>2, <2>4, <2>5, <2>6, <2>7 DEF Own, Labels
<1>7. CASE tokens[Source(r)].held /\ Staged(r, tokens[Source(r)].response)
  <2>1. tokens[Source(r)].response \in {NoId} \cup Ids
    BY <1>5 DEF Tokens
  <2>2. tokens[Source(r)].response = NoId \/
          (/\ tokens[Source(r)].response \in Issued'
           /\ issued'[tokens[Source(r)].response] \in Range(SourcesOf[Service(r)]))
    BY <1>3, <1>4, <1>5 DEF Of, Issued
  <2> QED
    BY <1>2, <1>5, <1>7, <2>1, <2>2, ReadOwn
<1> QED
  BY <1>2, <1>6, <1>7, GoOnOwn DEF AskSource

\* The answer has an id of the source, or the cache has one.
LEMMA ExchangeOwn ==
  ASSUME IInv, Grows, NEW r \in Requests, Exchange(r)
  PROVE  Own(r)' /\ pc'[r] \in Labels /\ loc'[r] \in Locals
<1>1. TypeOK /\ Own(r) /\ pc[r] \in {"json", "form"}
  BY OwnOf DEF IInv, Exchange
<1>2. loc[r].op \in {"create", "output"} /\ loc[r] \in Locals
  BY <1>1, AtWork DEF TypeOK
<1>3. practice' = practice /\ tokens' = tokens /\ reserved' = reserved
  BY DEF Exchange, serverVars
<1>4. CASE IF At(r, "json") THEN Goto(r, "form") /\ UNCHANGED loc ELSE GiveUp(r)
  <2>1. CASE GiveUp(r)
    BY <1>2, <2>1, GoOnOwn
  <2>2. CASE Goto(r, "form") /\ UNCHANGED loc
    <3>1. pc'[r] = "form" /\ loc'[r] = loc[r]
      BY <1>1, <2>2 DEF Goto, TypeOK
    <3>2. Service(r)' = Service(r) /\ Source(r)' = Source(r) /\ Last(r)' = Last(r)
      BY <3>1 DEF Service, Source, Last
    <3>3. Fits(r)'
      BY <1>1, <1>2, <1>3, <3>1, <3>2 DEF Own, Fits, Active
    <3>4. ExchangedIsOfSource(r)'
      BY <1>1, <3>1, <3>2 DEF Own, ExchangedIsOfSource, Of, Grows
    <3>5. EvidenceIsOfService(r)'
      BY <1>1, <3>1, <3>2 DEF Own, EvidenceIsOfService, Active, MayDerive, Prefixed, Grows
    <3>6. KnownAtExchange(r)'
      BY <1>1, <1>3, <3>1, <3>2 DEF Own, KnownAtExchange
    <3> QED
      BY <1>2, <3>1, <3>3, <3>4, <3>5, <3>6 DEF Own, Labels
  <2> QED
    BY <1>4, <2>1, <2>2
<1>5. CASE \E id \in {NoId} \cup Ids :
             /\ Grant(Source(r), loc[r].sent, id)
             /\ loc' = [loc EXCEPT ![r].answer = id, ![r].keep = id]
             /\ Goto(r, IF id = NoId THEN "keep" ELSE "store")
  <2>1. PICK id \in {NoId} \cup Ids :
             /\ Grant(Source(r), loc[r].sent, id)
             /\ loc' = [loc EXCEPT ![r].answer = id, ![r].keep = id]
             /\ Goto(r, IF id = NoId THEN "keep" ELSE "store")
    BY <1>5
  <2>2. /\ id # NoId => id \in Issued' /\ issued'[id] = Source(r)
        /\ id = NoId => practice = "terse" /\ loc[r].sent # NoId
    BY <1>1, <2>1, GrantedFacts
  <2>3. pc'[r] = (IF id = NoId THEN "keep" ELSE "store")
        /\ loc'[r] = [loc[r] EXCEPT !.answer = id, !.keep = id]
    BY <1>1, <2>1 DEF Goto, TypeOK
  <2>4. loc'[r] \in Locals /\ loc'[r].answer = id /\ loc'[r].keep = id
        /\ loc'[r].op = loc[r].op /\ loc'[r].service = loc[r].service /\ loc'[r].method = loc[r].method
        /\ loc'[r].i = loc[r].i /\ loc'[r].up = loc[r].up /\ loc'[r].from = loc[r].from
    BY <1>2, <2>3 DEF Locals
  <2>5. Service(r)' = Service(r) /\ Source(r)' = Source(r) /\ Last(r)' = Last(r)
    BY <2>4 DEF Service, Source, Last
  <2>6. Fits(r)'
    BY <1>1, <1>2, <1>3, <2>3, <2>4, <2>5 DEF Own, Fits, Active
  <2>7. ExchangedIsOfSource(r)'
    BY <1>3, <2>2, <2>3, <2>4, <2>5 DEF ExchangedIsOfSource, Of
  <2>8. EvidenceIsOfService(r)'
    BY <1>1, <2>4, <2>5 DEF Own, EvidenceIsOfService, Active, MayDerive, Prefixed, Grows
  <2>9. KnownAtExchange(r)'
    BY <1>1, <1>3, <2>2, <2>3, <2>4, <2>5 DEF Own, KnownAtExchange
  <2> QED
    BY <2>3, <2>4, <2>6, <2>7, <2>8, <2>9 DEF Own, Labels
<1> QED
  BY <1>4, <1>5 DEF Exchange

\* The cached id is of the source.
LEMMA KeepIdOwn ==
  ASSUME IInv, Grows, NEW r \in Requests, KeepId(r)
  PROVE  Own(r)' /\ pc'[r] \in Labels /\ loc'[r] \in Locals
<1>1. TypeOK /\ Own(r) /\ pc[r] = "keep"
  BY OwnOf DEF IInv, KeepId, At
<1>2. loc[r].op \in {"create", "output"} /\ loc[r] \in Locals
  BY <1>1, AtWork DEF TypeOK
<1>3. practice' = practice /\ tokens' = tokens /\ reserved' = reserved /\ issued' = issued
  BY DEF KeepId, serverVars, uasVars
<1>4. Source(r) \in Sources
  BY <1>1, AtSource
<1>5. tokens[Source(r)].id \in {NoId} \cup Ids /\ Of(tokens[Source(r)].id, Source(r))
  BY <1>1, <1>4 DEF TypeOK, Tokens, IInv, CachedIsOfSource
<1>6. pc'[r] = "store" /\ loc'[r] = [loc[r] EXCEPT !.keep = tokens[Source(r)].id]
  BY <1>1 DEF KeepId, Goto, TypeOK
<1>7. loc'[r] \in Locals /\ loc'[r].keep = tokens[Source(r)].id /\ loc'[r].answer = loc[r].answer
      /\ loc'[r].op = loc[r].op /\ loc'[r].service = loc[r].service /\ loc'[r].method = loc[r].method
      /\ loc'[r].i = loc[r].i /\ loc'[r].up = loc[r].up /\ loc'[r].from = loc[r].from
  BY <1>2, <1>5, <1>6 DEF Locals
<1>8. Service(r)' = Service(r) /\ Source(r)' = Source(r) /\ Last(r)' = Last(r)
  BY <1>7 DEF Service, Source, Last
<1>9. Fits(r)'
  BY <1>1, <1>2, <1>3, <1>6, <1>7, <1>8 DEF Own, Fits, Active
<1>10. ExchangedIsOfSource(r)'
  BY <1>1, <1>3, <1>5, <1>6, <1>7, <1>8 DEF Own, ExchangedIsOfSource, Of, Issued
<1>11. EvidenceIsOfService(r)'
  BY <1>1, <1>7, <1>8 DEF Own, EvidenceIsOfService, Active, MayDerive, Prefixed, Grows
<1>12. KnownAtExchange(r)'
  BY <1>1, <1>6, <1>7 DEF Own, KnownAtExchange
<1> QED
  BY <1>6, <1>7, <1>9, <1>10, <1>11, <1>12 DEF Own, Labels

\* The evidence of a source read with a new token comes from the answer.
LEMMA StoreTokenOwn ==
  ASSUME IInv, Grows, NEW r \in Requests, StoreToken(r)
  PROVE  Own(r)' /\ pc'[r] \in Labels /\ loc'[r] \in Locals
<1>1. TypeOK /\ Own(r) /\ pc[r] = "store"
  BY OwnOf DEF IInv, StoreToken, At
<1>2. loc[r].op \in {"create", "output"} /\ loc[r] \in Locals
  BY <1>1, AtWork DEF TypeOK
<1>3. issued' = issued
  BY DEF StoreToken, uasVars
<1>4. Source(r) \in Range(SourcesOf[Service(r)])
  BY <1>1, AtSource
<1>5. /\ loc[r].answer \in {NoId} \cup Ids /\ Of(loc[r].answer, Source(r))
      /\ loc[r].answer = NoId => practice = "terse"
  BY <1>1, <1>2 DEF Locals, Own, ExchangedIsOfSource
<1>6. loc[r].answer = NoId \/
        (loc[r].answer \in Issued' /\ issued'[loc[r].answer] \in Range(SourcesOf[Service(r)]))
  BY <1>3, <1>4, <1>5 DEF Of, Issued
<1>7. CASE Staged(r, loc[r].answer)
  BY <1>2, <1>5, <1>6, <1>7, ReadOwn
<1> QED
  BY <1>2, <1>7, GoOnOwn DEF StoreToken

\* The derivation is the first evidence's id, or the server's own name.
LEMMA QueryOwn ==
  ASSUME IInv, Grows, NEW r \in Requests, Query(r)
  PROVE  Own(r)' /\ pc'[r] \in Labels /\ loc'[r] \in Locals
<1>1. TypeOK /\ Own(r) /\ pc[r] = "next"
  BY OwnOf DEF IInv, Query, At
<1>2. loc[r].op \in {"create", "output"} /\ loc[r] \in Locals
  BY <1>1, AtWork DEF TypeOK
<1>3. CASE End(r)
  BY <1>2, <1>3, GoOnOwn
<1>4. CASE /\ loc' = [loc EXCEPT ![r].from = DerivationOf(r), ![r].up = NoEvidence]
           /\ Goto(r, IF loc[r].op = "create" THEN "register" ELSE "put")
  <2>1. DerivationOf(r) \in AnyId
    BY <1>2 DEF DerivationOf, AnyId, Locals, Evidence, Prefixed, Service
  <2>2. MayDerive(Service(r), DerivationOf(r))
    BY <1>1 DEF DerivationOf, MayDerive, Own, EvidenceIsOfService, Active
  <2>3. /\ pc'[r] = (IF loc[r].op = "create" THEN "register" ELSE "put")
        /\ loc'[r] = [loc[r] EXCEPT !.from = DerivationOf(r), !.up = NoEvidence]
    BY <1>1, <1>4 DEF Goto, TypeOK
  <2>4. NoEvidence \in Evidence
    BY DEF NoEvidence, Evidence
  <2>5. loc'[r] \in Locals /\ loc'[r].from = DerivationOf(r) /\ loc'[r].up = NoEvidence
        /\ loc'[r].op = loc[r].op /\ loc'[r].service = loc[r].service /\ loc'[r].method = loc[r].method
        /\ loc'[r].i = loc[r].i
    BY <1>2, <2>1, <2>3, <2>4 DEF Locals
  <2>6. Service(r)' = Service(r)
    BY <2>5 DEF Service
  <2>7. Fits(r)'
    BY <1>1, <1>2, <2>3, <2>5, <2>6 DEF Own, Fits, Active, Grows
  <2>8. EvidenceIsOfService(r)'
    BY <2>2, <2>5, <2>6 DEF EvidenceIsOfService, Active, MayDerive, Prefixed, Grows, NoEvidence
  <2>9. ExchangedIsOfSource(r)' /\ KnownAtExchange(r)'
    BY <1>2, <2>3 DEF ExchangedIsOfSource, KnownAtExchange
  <2> QED
    BY <2>3, <2>5, <2>7, <2>8, <2>9 DEF Own, Labels
<1> QED
  BY <1>3, <1>4 DEF Query

\* The request goes on to a label behind the exchanges.
LEMMA LateOwn ==
  ASSUME IInv, Grows, NEW r \in Requests, pc[r] # "idle",
         pc'[r] \in Labels \ {"idle", "json", "form", "keep", "store"},
         pc'[r] \in {"unregister", "cleanup", "drop"} <=> loc[r].op = "delete",
         pc'[r] # "register",
         pc'[r] \in {"recheck", "serve"} => loc[r].op = "output",
         NEW ok \in BOOLEAN, NEW checked \in BOOLEAN,
         loc'[r] = [loc[r] EXCEPT !.ok = ok, !.checked = checked]
  PROVE  Own(r)' /\ pc'[r] \in Labels /\ loc'[r] \in Locals
<1>1. Own(r) /\ loc[r] \in Locals
  BY OwnOf DEF IInv, TypeOK
<1>2. loc'[r] \in Locals /\ loc'[r].from = loc[r].from /\ loc'[r].up = loc[r].up
      /\ loc'[r].op = loc[r].op /\ loc'[r].service = loc[r].service /\ loc'[r].method = loc[r].method
      /\ loc'[r].i = loc[r].i
  BY <1>1 DEF Locals
<1>3. Service(r)' = Service(r)
  BY <1>2 DEF Service
<1>4. Fits(r)'
  BY <1>1, <1>2, <1>3 DEF Own, Fits, Active, Grows
<1>5. EvidenceIsOfService(r)'
  BY <1>1, <1>2, <1>3 DEF Own, EvidenceIsOfService, Active, MayDerive, Prefixed, Grows
<1> QED
  BY <1>2, <1>4, <1>5 DEF Own, ExchangedIsOfSource, KnownAtExchange

\* A token that was checked again.
LEMMA KeepOk ==
  ASSUME NEW l \in Locals
  PROVE  [l EXCEPT !.checked = TRUE] = [l EXCEPT !.ok = l.ok, !.checked = TRUE]
  BY DEF Locals

\* Nothing about the request changes.
LEMMA StayOwn ==
  ASSUME IInv, Grows, NEW r \in Requests, pc[r] # "idle",
         pc'[r] \in Labels \ {"idle", "json", "form", "keep", "store"},
         pc'[r] \in {"unregister", "cleanup", "drop"} <=> loc[r].op = "delete",
         pc'[r] # "register",
         pc'[r] \in {"recheck", "serve"} => loc[r].op = "output",
         loc'[r] = loc[r]
  PROVE  Own(r)' /\ pc'[r] \in Labels /\ loc'[r] \in Locals
<1>1. loc[r] \in Locals
  BY DEF IInv, TypeOK
<1>2. /\ loc[r].ok \in BOOLEAN /\ loc[r].checked \in BOOLEAN
      /\ loc[r] = [loc[r] EXCEPT !.ok = loc[r].ok, !.checked = loc[r].checked]
  BY <1>1 DEF Locals
<1> QED
  BY <1>2, LateOwn

\* The update is given up.
LEMMA FailedOwn ==
  ASSUME IInv, Grows, NEW r \in Requests, pc[r] # "idle", loc[r].op # "delete",
         pc'[r] = "insert", NEW checked \in BOOLEAN,
         loc'[r] = [loc[r] EXCEPT !.ok = FALSE, !.checked = checked]
  PROVE  Own(r)' /\ pc'[r] \in Labels /\ loc'[r] \in Locals
<1>1. FALSE \in BOOLEAN /\ pc'[r] \in Labels
  BY DEF Labels
<1> QED
  BY <1>1, LateOwn

\* The output is registered, its derivation resource written.
LEMMA RegisterPutOwn ==
  ASSUME IInv, Grows, NEW r \in Requests, RegisterOutput(r) \/ PutDerivation(r)
  PROVE  Own(r)' /\ pc'[r] \in Labels /\ loc'[r] \in Locals
<1>1. TypeOK /\ Own(r) /\ pc[r] \in {"register", "put"} /\ loc[r] \in Locals
  BY OwnOf DEF IInv, RegisterOutput, PutDerivation, At, TypeOK
<1>2. loc[r].op # "delete" /\ loc[r].op # "none"
  BY <1>1 DEF Own, Fits
<1>3. CASE End(r)
  BY <1>1, <1>3, EndOwn, EndFacts DEF TypeOK, Labels
<1>4. CASE loc' = loc /\ (Goto(r, "put") \/ Goto(r, "update"))
  <2>1. pc'[r] \in {"put", "update"} /\ loc'[r] = loc[r]
    BY <1>1, <1>4 DEF Goto, TypeOK
  <2> QED
    BY <1>1, <1>2, <2>1, StayOwn DEF Labels
<1>5. CASE Failed(r)
  <2>1. loc[r].checked \in BOOLEAN /\ pc'[r] = "insert"
        /\ loc'[r] = [loc[r] EXCEPT !.ok = FALSE, !.checked = loc[r].checked]
    BY <1>1, <1>5 DEF Failed, Goto, TypeOK, Locals
  <2> QED
    BY <1>1, <1>2, <2>1, FailedOwn
<1> QED
  BY <1>3, <1>4, <1>5 DEF RegisterOutput, PutDerivation

\* The AS is told.
LEMMA UpdateOutputOwn ==
  ASSUME IInv, Grows, NEW r \in Requests, UpdateOutput(r)
  PROVE  Own(r)' /\ pc'[r] \in Labels /\ loc'[r] \in Locals
<1>1. TypeOK /\ Own(r) /\ pc[r] = "update" /\ loc[r] \in Locals
  BY OwnOf DEF IInv, UpdateOutput, At, TypeOK
<1>2. loc[r].op # "delete" /\ loc[r].op # "none"
  BY <1>1 DEF Own, Fits
<1> DEFINE e == [q \in Requests |->
                   IF loc[q].op = "output" /\ Service(q) = Service(r)
                   THEN [loc[q] EXCEPT !.checked = FALSE] ELSE loc[q]]
<1>3. PICK c \in BOOLEAN : e[r] = [loc[r] EXCEPT !.ok = loc[r].ok, !.checked = c]
  BY <1>1 DEF Locals
<1>4. loc[r].ok \in BOOLEAN /\ loc[r].checked \in BOOLEAN
  BY <1>1 DEF Locals
<1>5. CASE loc' = e /\ Goto(r, "commit")
  <2>1. pc'[r] = "commit" /\ pc'[r] \in Labels /\ loc'[r] = e[r]
    BY <1>1, <1>5 DEF Goto, TypeOK, Labels
  <2> QED
    BY <1>1, <1>2, <1>3, <1>4, <2>1, LateOwn
<1>6. CASE loc' = [e EXCEPT ![r].ok = FALSE] /\ Goto(r, "insert")
  <2>1. pc'[r] = "insert" /\ loc'[r] = [e[r] EXCEPT !.ok = FALSE]
    BY <1>1, <1>6 DEF Goto, TypeOK
  <2>2. loc'[r] = [loc[r] EXCEPT !.ok = FALSE, !.checked = c]
    BY <1>1, <1>3, <2>1 DEF Locals
  <2> QED
    BY <1>1, <1>2, <2>1, <2>2, FailedOwn
<1>7. CASE Failed(r)
  <2>1. pc'[r] = "insert"
        /\ loc'[r] = [loc[r] EXCEPT !.ok = FALSE, !.checked = loc[r].checked]
    BY <1>1, <1>7 DEF Failed, Goto, TypeOK, Locals
  <2> QED
    BY <1>1, <1>2, <1>4, <2>1, FailedOwn
<1> QED
  BY <1>5, <1>6, <1>7 DEF UpdateOutput

\* The steps behind the update, and those of a deletion.
LEMMA LastStepsOwn ==
  ASSUME IInv, Grows, NEW r \in Requests,
         \/ StillFresh(r) \/ StoreDerivedFrom(r) \/ InsertService(r) \/ ReplaceService(r)
         \/ Recheck(r) \/ ServeOutput(r) \/ UnregisterOutput(r) \/ Cleanup(r) \/ DropService(r)
  PROVE  Own(r)' /\ pc'[r] \in Labels /\ loc'[r] \in Locals
<1>1. TypeOK /\ Own(r) /\ loc[r] \in Locals
  BY OwnOf DEF IInv, TypeOK
<1> USE DEF At, Goto, TypeOK
<1>2. CASE StillFresh(r)
  <2>1. pc[r] = "next" /\ pc'[r] = "serve" /\ loc'[r] = loc[r] /\ loc[r].method = "HEAD"
    BY <1>1, <1>2 DEF StillFresh
  <2>2. loc[r].op = "output"
    BY <1>1, <2>1, AtWork DEF Own, Fits
  <2> QED
    BY <2>1, <2>2, StayOwn DEF Labels
<1>3. CASE StoreDerivedFrom(r)
  <2>1. pc[r] = "commit" /\ pc'[r] = "insert" /\ loc'[r] = loc[r]
    BY <1>1, <1>3 DEF StoreDerivedFrom
  <2>2. loc[r].op # "delete"
    BY <1>1, <2>1 DEF Own, Fits
  <2> QED
    BY <2>1, <2>2, StayOwn DEF Labels
<1>4. CASE ReplaceService(r)
  <2>1. pc[r] = "insert" /\ pc'[r] \in {"serve", "recheck"} /\ loc'[r] = loc[r] /\ loc[r].op = "output"
    BY <1>1, <1>4 DEF ReplaceService
  <2> QED
    BY <2>1, StayOwn DEF Labels
<1>5. CASE At(r, "recheck") /\ Goto(r, "serve") /\ loc' = [loc EXCEPT ![r].checked = TRUE]
  <2>1. /\ pc[r] = "recheck" /\ pc'[r] = "serve"
        /\ loc'[r] = [loc[r] EXCEPT !.checked = TRUE]
    BY <1>1, <1>5
  <2>2. loc[r].op = "output"
    BY <1>1, <2>1 DEF Own, Fits
  <2>3. /\ loc[r].ok \in BOOLEAN /\ TRUE \in BOOLEAN
        /\ loc'[r] = [loc[r] EXCEPT !.ok = loc[r].ok, !.checked = TRUE]
    BY <1>1, <2>1, KeepOk DEF Locals
  <2>4. pc'[r] \in Labels \ {"idle", "json", "form", "keep", "store"}
    BY <2>1 DEF Labels
  <2> QED
    BY <2>1, <2>2, <2>3, <2>4, LateOwn
<1>6. CASE UnregisterOutput(r) \/ Cleanup(r)
  <2>1. pc[r] \in {"unregister", "cleanup"} /\ pc'[r] \in {"cleanup", "drop"} /\ loc'[r] = loc[r]
    BY <1>1, <1>6 DEF UnregisterOutput, Cleanup
  <2>2. loc[r].op = "delete"
    BY <1>1, <2>1 DEF Own, Fits
  <2> QED
    BY <2>1, <2>2, StayOwn DEF Labels
<1>7. CASE End(r)
  BY <1>1, <1>7, EndOwn, EndFacts DEF Labels
<1> QED
  BY <1>2, <1>3, <1>4, <1>5, <1>6, <1>7 DEF InsertService, Recheck, ServeOutput, DropService

\* The request that moves.
LEMMA MoverStep ==
  ASSUME IInv, NEW r \in Requests, Run(r)
  PROVE  Own(r)' /\ pc'[r] \in Labels /\ loc'[r] \in Locals
<1>1. Grows
  BY GrowsStep
<1>2. CASE DiscoveryFails(r)
  <2>1. GiveUp(r) /\ loc[r].op \in {"create", "output"}
    BY <1>2, AtWork DEF DiscoveryFails, At
  <2> QED
    BY <1>1, <2>1, GoOnOwn
<1>3. CASE CreateService(r) \/ GetOutput(r) \/ DeleteService(r)
  BY <1>3, BeginOwn
<1>4. CASE AskSource(r) \/ Exchange(r) \/ KeepId(r) \/ StoreToken(r) \/ Query(r)
  BY <1>1, <1>4, AskSourceOwn, ExchangeOwn, KeepIdOwn, StoreTokenOwn, QueryOwn
<1>5. CASE RegisterOutput(r) \/ PutDerivation(r) \/ UpdateOutput(r)
  BY <1>1, <1>5, RegisterPutOwn, UpdateOutputOwn
<1>6. CASE \/ StillFresh(r) \/ StoreDerivedFrom(r) \/ InsertService(r) \/ ReplaceService(r)
           \/ Recheck(r) \/ ServeOutput(r) \/ UnregisterOutput(r) \/ Cleanup(r) \/ DropService(r)
  BY <1>1, <1>6, LastStepsOwn
<1> QED
  BY <1>2, <1>3, <1>4, <1>5, <1>6 DEF Run

\* Every request.
LEMMA OwnStep ==
  ASSUME IInv, NEW r \in Requests, Run(r), NEW q \in Requests
  PROVE  Own(q)' /\ pc'[q] \in Labels /\ loc'[q] \in Locals
<1>1. CASE q = r
  BY <1>1, MoverStep
<1>2. CASE q # r
  <2>1. TypeOK /\ Grows /\ Same(q) /\ Own(q)
    BY <1>2, OneMoves, GrowsStep, OwnOf DEF IInv
  <2>2. Own(q)'
    BY <2>1, OthersOwn
  <2>3. pc'[q] \in Labels
    BY <2>1 DEF Same, TypeOK
  <2>4. loc'[q] \in {loc[q], [loc[q] EXCEPT !.checked = FALSE]}
    BY <1>2, <2>1, OthersUnless
  <2>5. loc'[q] \in Locals
    BY <2>1, <2>4 DEF TypeOK, Locals
  <2> QED
    BY <2>2, <2>3, <2>5
<1> QED
  BY <1>1, <1>2
-----------------------------------------------------------------------------
(***************************************************************************)
(* Types                                                                   *)
(***************************************************************************)
\* Both stay functions on the requests.
LEMMA Frames ==
  ASSUME TypeOK, NEW r \in Requests, Run(r)
  PROVE  pc' = [pc EXCEPT ![r] = pc'[r]] /\ loc' = [q \in Requests |-> loc'[q]]
<1> USE DEF TypeOK
<1>1. CASE CreateService(r) \/ GetOutput(r) \/ DeleteService(r)
  BY <1>1 DEF CreateService, GetOutput, DeleteService, Begin, Goto
<1>2. CASE AskSource(r) \/ DiscoveryFails(r) \/ Exchange(r)
  BY <1>2 DEF AskSource, DiscoveryFails, Exchange, Goto, GiveUp, Proceed, End, Staged, Materialize
<1>3. CASE KeepId(r) \/ StoreToken(r) \/ StillFresh(r) \/ Query(r)
  BY <1>3 DEF KeepId, StoreToken, StillFresh, Query, Goto, GiveUp, Proceed, End, Staged, Materialize
<1>4. CASE RegisterOutput(r) \/ PutDerivation(r) \/ StoreDerivedFrom(r) \/ InsertService(r)
  BY <1>4 DEF RegisterOutput, PutDerivation, StoreDerivedFrom, InsertService, Goto, End, Failed
<1>5. CASE ReplaceService(r) \/ Recheck(r) \/ ServeOutput(r)
  BY <1>5 DEF ReplaceService, Recheck, ServeOutput, Goto, End
<1>6. CASE UnregisterOutput(r) \/ Cleanup(r) \/ DropService(r)
  BY <1>6 DEF UnregisterOutput, Cleanup, DropService, Goto, End
<1>7. CASE UpdateOutput(r)
  BY <1>7 DEF UpdateOutput, Goto, Failed
<1> QED
  BY <1>1, <1>2, <1>3, <1>4, <1>5, <1>6, <1>7 DEF Run

\* No more ids are issued than there are.
LEMMA IssuedAreIds ==
  ASSUME NEW f \in Seq(Sources), Len(f) <= MaxId
  PROVE  DOMAIN f \subseteq Ids
  BY DEF Ids, IdsAssumption

\* What an output may be derived from is an id.
LEMMA MayDeriveType ==
  ASSUME TypeOK, NEW s \in Services, NEW d, MayDerive(s, d)
  PROVE  d \in AnyId /\ (d # NoId => d \in Issued \cup Services)
  BY IssuedAreIds DEF TypeOK, MayDerive, AnyId, Prefixed, Issued

\* What the UAS has made.
LEMMA MadeStep ==
  ASSUME IInv, NEW r \in Requests, Run(r)
  PROVE  /\ issued' \in Seq(Sources) /\ Len(issued') <= MaxId
         /\ derivations' \subseteq Issued' \cup Services
         /\ lost' \subseteq Ids
<1>1. TypeOK /\ lost \subseteq Ids
  BY DEF IInv, TypeOK
<1>2. CASE UNCHANGED <<issued, derivations, lost>>
  BY <1>1, <1>2 DEF TypeOK, Issued
<1>3. CASE Exchange(r)
  <2>1. pc[r] \in {"json", "form"}
    BY <1>3 DEF Exchange
  <2>2. /\ UNCHANGED <<issued, derivations, lost>>
           \/ \E id \in {NoId} \cup Ids :
                 /\ Grant(Source(r), loc[r].sent, id)
                 /\ lost' = lost \/ lost' = lost \cup ({id} \ {NoId, loc[r].sent})
    BY <1>3 DEF Exchange
  <2>3. ASSUME NEW id \in {NoId} \cup Ids, Grant(Source(r), loc[r].sent, id),
               lost' = lost \/ lost' = lost \cup ({id} \ {NoId, loc[r].sent})
        PROVE  /\ issued' \in Seq(Sources) /\ Len(issued') <= MaxId
               /\ derivations' \subseteq Issued' \cup Services
               /\ lost' \subseteq Ids
    <3>1. /\ issued' \in Seq(Sources) /\ Len(issued') <= MaxId
          /\ derivations' \subseteq Issued' \cup Services
      BY <2>1, <2>3, GrantedFacts
    <3> QED
      BY <1>1, <2>3, <3>1
  <2> QED
    BY <1>2, <2>2, <2>3
<1>4. CASE PutDerivation(r)
  <2>1. loc[r].from # NoId => loc[r].from \in Issued \cup Services
    <3>1. Service(r) \in Services
      BY <1>1 DEF TypeOK, Locals, Service
    <3>2. MayDerive(Service(r), loc[r].from)
      BY <1>4 DEF PutDerivation, At, IInv, EvidenceIsOfService, Active
    <3> QED
      BY <1>1, <3>1, <3>2, MayDeriveType
  <2>2. /\ derivations' = derivations \/ (loc[r].from # NoId /\ derivations' = derivations \cup {loc[r].from})
        /\ issued' = issued /\ lost' = lost
    BY <1>4 DEF PutDerivation, historyVars
  <2> QED
    BY <1>1, <2>1, <2>2 DEF TypeOK, Issued
<1>5. CASE Cleanup(r)
  BY <1>1, <1>5 DEF Cleanup, historyVars, TypeOK, Issued
<1>6. CASE CreateService(r) \/ GetOutput(r) \/ DeleteService(r)
  BY <1>2, <1>6 DEF CreateService, GetOutput, DeleteService, Begin, uasVars
<1>7. CASE AskSource(r) \/ DiscoveryFails(r) \/ KeepId(r) \/ StoreToken(r) \/ StillFresh(r) \/ Query(r)
  BY <1>2, <1>7 DEF AskSource, DiscoveryFails, KeepId, StoreToken, StillFresh, Query, uasVars, historyVars
<1>8. CASE RegisterOutput(r) \/ UpdateOutput(r) \/ StoreDerivedFrom(r)
  BY <1>2, <1>8 DEF RegisterOutput, UpdateOutput, StoreDerivedFrom, uasVars, historyVars
<1>9. CASE InsertService(r) \/ ReplaceService(r) \/ Recheck(r) \/ ServeOutput(r)
  BY <1>2, <1>9 DEF InsertService, ReplaceService, Recheck, ServeOutput, uasVars, historyVars
<1>10. CASE UnregisterOutput(r) \/ DropService(r)
  BY <1>2, <1>10 DEF UnregisterOutput, DropService, uasVars, historyVars
<1> QED
  BY <1>3, <1>4, <1>5, <1>6, <1>7, <1>8, <1>9, <1>10 DEF Run

\* The token cache.
LEMMA TokensType ==
  ASSUME IInv, NEW r \in Requests, Run(r)
  PROVE  tokens' \in [Sources -> Tokens]
<1>1. tokens \in [Sources -> Tokens]
  BY DEF IInv, TypeOK
<1>2. CASE tokens' = tokens
  BY <1>1, <1>2
<1>3. CASE StoreToken(r)
  <2>1. loc[r] \in Locals
    BY DEF IInv, TypeOK
  <2>2. [held |-> TRUE, id |-> loc[r].keep, response |-> loc[r].answer] \in Tokens
    BY <2>1 DEF Locals, Tokens
  <2> QED
    BY <1>1, <1>3, <2>2 DEF StoreToken
<1>4. CASE CreateService(r) \/ GetOutput(r) \/ DeleteService(r)
  BY <1>2, <1>4 DEF CreateService, GetOutput, DeleteService, Begin
<1>5. CASE AskSource(r) \/ DiscoveryFails(r) \/ KeepId(r) \/ StillFresh(r) \/ Query(r)
  BY <1>2, <1>5 DEF AskSource, DiscoveryFails, KeepId, StillFresh, Query, serverVars
<1>6. CASE RegisterOutput(r) \/ PutDerivation(r) \/ UpdateOutput(r) \/ StoreDerivedFrom(r) \/ Exchange(r)
  BY <1>2, <1>6 DEF RegisterOutput, PutDerivation, UpdateOutput, StoreDerivedFrom, Exchange, serverVars
<1>7. CASE InsertService(r) \/ ReplaceService(r) \/ Recheck(r) \/ ServeOutput(r)
  BY <1>2, <1>7 DEF InsertService, ReplaceService, Recheck, ServeOutput, serverVars
<1>8. CASE UnregisterOutput(r) \/ Cleanup(r) \/ DropService(r)
  BY <1>2, <1>8 DEF UnregisterOutput, Cleanup, DropService, serverVars
<1> QED
  BY <1>3, <1>4, <1>5, <1>6, <1>7, <1>8 DEF Run

\* The records are kept of services whose id is taken.
LEMMA DomainsStep ==
  ASSUME IInv, NEW r \in Requests, Run(r)
  PROVE  /\ reserved' \subseteq Services
         /\ DOMAIN derivedFrom' \subseteq reserved' /\ DOMAIN assets' \subseteq reserved'
         /\ DOMAIN services' \subseteq reserved'
         /\ \A s \in DOMAIN services' : services'[s].status \in {"ready", "failed"} /\
              services'[s] = [status |-> services'[s].status, from |-> services'[s].from]
<1> DEFINE Shape(e) == e.status \in {"ready", "failed"} /\ e = [status |-> e.status, from |-> e.from]
<1>1. /\ reserved \subseteq Services
      /\ DOMAIN derivedFrom \subseteq reserved /\ DOMAIN assets \subseteq reserved
      /\ DOMAIN services \subseteq reserved
  BY DEF IInv, TypeOK
<1>2. \A s \in DOMAIN services : Shape(services[s])
  BY DEF IInv, TypeOK
<1>3. Shape(Entry(r))
  BY DEF Entry
<1>4. pc[r] # "idle" => Service(r) \in reserved
  BY DEF IInv, Fits, Active
<1> HIDE DEF Shape
<1> SUFFICES /\ reserved' \subseteq Services
             /\ DOMAIN derivedFrom' \subseteq reserved' /\ DOMAIN assets' \subseteq reserved'
             /\ DOMAIN services' \subseteq reserved'
             /\ \A s \in DOMAIN services' : Shape(services'[s])
  BY DEF Shape
<1>5. CASE UNCHANGED <<derivedFrom, assets, services, reserved>>
  BY <1>1, <1>2, <1>5
<1>6. CASE RegisterOutput(r)
  BY <1>1, <1>2, <1>4, <1>6 DEF RegisterOutput, Assign, At
<1>7. CASE UpdateOutput(r)
  BY <1>1, <1>2, <1>4, <1>7 DEF UpdateOutput, Assign, At, serverVars
<1>8. CASE StoreDerivedFrom(r)
  BY <1>1, <1>2, <1>4, <1>8 DEF StoreDerivedFrom, Assign, At
<1>9. CASE InsertService(r) \/ ReplaceService(r)
  <2>1. pc[r] # "idle" /\ derivedFrom' = derivedFrom /\ assets' = assets /\ reserved' = reserved
    BY <1>9 DEF InsertService, ReplaceService, At
  <2>2. CASE services' = services
    BY <1>1, <1>2, <2>1, <2>2
  <2>3. CASE services' = Assign(services, Service(r), Entry(r))
    BY <1>1, <1>2, <1>3, <1>4, <2>1, <2>3 DEF Assign
  <2> QED
    BY <1>9, <2>2, <2>3 DEF InsertService, ReplaceService, Replaced
<1>10. CASE UnregisterOutput(r) \/ Cleanup(r) \/ DropService(r)
  BY <1>1, <1>2, <1>10 DEF UnregisterOutput, Cleanup, DropService, Drop, Restrict, serverVars
<1>11. CASE CreateService(r) \/ GetOutput(r) \/ DeleteService(r)
  BY <1>1, <1>2, <1>11 DEF CreateService, GetOutput, DeleteService, Begin
<1>12. CASE AskSource(r) \/ DiscoveryFails(r) \/ Exchange(r) \/ KeepId(r) \/ StoreToken(r)
  BY <1>5, <1>12 DEF AskSource, DiscoveryFails, Exchange, KeepId, StoreToken, serverVars
<1>13. CASE StillFresh(r) \/ Query(r) \/ PutDerivation(r) \/ Recheck(r) \/ ServeOutput(r)
  BY <1>5, <1>13 DEF StillFresh, Query, PutDerivation, Recheck, ServeOutput, serverVars
<1> QED
  BY <1>6, <1>7, <1>8, <1>9, <1>10, <1>11, <1>12, <1>13 DEF Run

\* Requests are counted as they begin.
LEMMA HistoryStep ==
  ASSUME TypeOK, NEW r \in Requests, Run(r)
  PROVE  /\ begun' \in 0 .. MaxRequests /\ overlapped' \in BOOLEAN /\ account' = account
         /\ overlapped => overlapped'
<1> USE DEF TypeOK
<1>1. CASE UNCHANGED <<begun, overlapped, account>>
  BY <1>1
<1>2. CASE CreateService(r) \/ GetOutput(r) \/ DeleteService(r)
  <2>1. /\ begun < MaxRequests /\ begun' = begun + 1 /\ account' = account
        /\ overlapped' = (overlapped \/ \E q \in Requests \ {r} : pc[q] # "idle")
    BY <1>2 DEF CreateService, GetOutput, DeleteService, Begin
  <2>2. begun' \in 0 .. MaxRequests
    BY <2>1 DEF IdsAssumption
  <2>3. overlapped' \in BOOLEAN /\ (overlapped => overlapped')
    BY <2>1
  <2> QED
    BY <2>1, <2>2, <2>3
<1>3. CASE AskSource(r) \/ DiscoveryFails(r) \/ Exchange(r) \/ KeepId(r) \/ StoreToken(r)
  BY <1>1, <1>3 DEF AskSource, DiscoveryFails, Exchange, KeepId, StoreToken, serverVars, historyVars
<1>4. CASE StillFresh(r) \/ Query(r) \/ RegisterOutput(r) \/ PutDerivation(r) \/ UpdateOutput(r)
  BY <1>1, <1>4 DEF StillFresh, Query, RegisterOutput, PutDerivation, UpdateOutput, serverVars, historyVars
<1>5. CASE StoreDerivedFrom(r) \/ InsertService(r) \/ ReplaceService(r) \/ Recheck(r) \/ ServeOutput(r)
  BY <1>1, <1>5 DEF StoreDerivedFrom, InsertService, ReplaceService, Recheck, ServeOutput, serverVars, historyVars
<1>6. CASE UnregisterOutput(r) \/ Cleanup(r) \/ DropService(r)
  BY <1>1, <1>6 DEF UnregisterOutput, Cleanup, DropService, serverVars, historyVars
<1> QED
  BY <1>2, <1>3, <1>4, <1>5, <1>6 DEF Run

\* All together.
LEMMA TypeStep ==
  ASSUME IInv, NEW r \in Requests, Run(r)
  PROVE  TypeOK'
<1>1. TypeOK /\ Grows
  BY GrowsStep DEF IInv
<1>2. /\ issued' \in Seq(Sources) /\ Len(issued') <= MaxId
      /\ derivations' \subseteq Issued' \cup Services
      /\ lost' \subseteq Ids
  BY MadeStep
<1>3. /\ reserved' \subseteq Services
      /\ DOMAIN derivedFrom' \subseteq reserved' /\ DOMAIN assets' \subseteq reserved'
      /\ DOMAIN services' \subseteq reserved'
      /\ \A s \in DOMAIN services' : services'[s].status \in {"ready", "failed"} /\
              services'[s] = [status |-> services'[s].status, from |-> services'[s].from]
  BY DomainsStep
<1>4. \A s \in Services : \A d : MayDerive(s, d)' => d \in AnyId
  <2>1. Issued' \subseteq Ids
    BY <1>2, IssuedAreIds DEF Issued
  <2> QED
    BY <2>1 DEF MayDerive, AnyId, Prefixed
<1>5. /\ \A s \in DOMAIN derivedFrom' : derivedFrom'[s] \in AnyId
      /\ \A s \in DOMAIN assets' : assets'[s] \in AnyId
      /\ \A s \in DOMAIN services' : services'[s].from \in AnyId
  <2>1. /\ \A s \in DOMAIN derivedFrom' : MayDerive(s, derivedFrom[s])'
        /\ \A s \in DOMAIN assets' : MayDerive(s, assets[s])'
        /\ \A s \in DOMAIN services' : MayDerive(s, services[s].from)'
    BY RecordsStep DEF RecordsAreOfService
  <2> QED
    BY <1>3, <1>4, <2>1
<1>6. \A s \in DOMAIN services' : services'[s] \in [status : {"ready", "failed"}, from : AnyId]
  BY <1>3, <1>5
<1>7. pc' \in [Requests -> Labels] /\ loc' \in [Requests -> Locals]
  <2>1. \A q \in Requests : pc'[q] \in Labels /\ loc'[q] \in Locals
    BY OwnStep
  <2>2. pc \in [Requests -> Labels]
    BY <1>1 DEF TypeOK
  <2>3. pc' = [pc EXCEPT ![r] = pc'[r]] /\ loc' = [q \in Requests |-> loc'[q]]
    BY <1>1, Frames
  <2> QED
    BY <2>1, <2>2, <2>3
<1>8. begun' \in 0 .. MaxRequests /\ overlapped' \in BOOLEAN /\ account' = account
  BY <1>1, HistoryStep
<1>9. tokens' \in [Sources -> Tokens] /\ practice' \in Practices
  BY <1>1, TokensType DEF Grows, TypeOK
<1>10. account' \in Starting \cup {"token", "error"}
  BY <1>1, <1>8 DEF TypeOK
<1> QED
  BY <1>2, <1>3, <1>5, <1>6, <1>7, <1>8, <1>9, <1>10 DEF TypeOK
-----------------------------------------------------------------------------
(***************************************************************************)
(* Who is at work on what.                                                 *)
(***************************************************************************)
Begins(r) == CreateService(r) \/ GetOutput(r) \/ DeleteService(r)

\* A goroutine that is at work stays with its operation until it ends.
LEMMA SameWork ==
  ASSUME NEW l \in Locals, NEW m,
         \/ m = l
         \/ \E v : m = [l EXCEPT !.sent = v] \/ m = [l EXCEPT !.keep = v] \/ m = [l EXCEPT !.ok = v]
         \/ \E v, w : m = [l EXCEPT !.answer = v, !.keep = w] \/ m = [l EXCEPT !.from = v, !.up = w]
  PROVE  m.op = l.op /\ m.service = l.service /\ m.checked = l.checked
  BY DEF Locals

\* The same for checked.
LEMMA CheckedWork ==
  ASSUME NEW l \in Locals, NEW v
  PROVE  LET m == [l EXCEPT !.checked = v] IN m.op = l.op /\ m.service = l.service
  BY DEF Locals

\* The next label, and what becomes of the locals.
LEMMA NextWork ==
  ASSUME IInv, NEW r \in Requests, NEW l \in Labels, NEW m, Goto(r, l), loc' = [loc EXCEPT ![r] = m]
  PROVE  pc'[r] = l /\ loc'[r] = m
  BY DEF Goto, IInv, TypeOK

\* The same where the locals stay.
LEMMA Unchanged ==
  ASSUME IInv, NEW r \in Requests, NEW l \in Labels, Goto(r, l), loc' = loc
  PROVE  pc'[r] = l /\ loc'[r] = loc[r]
  BY DEF Goto, IInv, TypeOK

\* A goroutine that is at work stays with its operation until it ends.
LEMMA WorkFacts ==
  ASSUME IInv, NEW r \in Requests, Run(r), ~Begins(r)
  PROVE  /\ Active(r) /\ overlapped' = overlapped /\ reserved' = reserved
         /\ \/ End(r)
            \/ /\ pc'[r] # "idle" /\ loc'[r].op = loc[r].op /\ loc'[r].service = loc[r].service
               /\ UpdateOutput(r) \/ Recheck(r) \/ loc'[r].checked = loc[r].checked
<1> DEFINE Stays == /\ pc'[r] # "idle" /\ loc'[r].op = loc[r].op /\ loc'[r].service = loc[r].service
                    /\ UpdateOutput(r) \/ Recheck(r) \/ loc'[r].checked = loc[r].checked
<1>1. TypeOK /\ loc[r] \in Locals
  BY DEF IInv, TypeOK
<1>2. Active(r) /\ overlapped' = overlapped /\ reserved' = reserved
  <2>1. CASE AskSource(r) \/ DiscoveryFails(r) \/ Exchange(r) \/ KeepId(r) \/ StoreToken(r)
    BY <2>1 DEF AskSource, DiscoveryFails, Exchange, KeepId, StoreToken, serverVars, historyVars, Active, At
  <2>2. CASE StillFresh(r) \/ Query(r) \/ RegisterOutput(r) \/ PutDerivation(r) \/ UpdateOutput(r)
    BY <2>2 DEF StillFresh, Query, RegisterOutput, PutDerivation, UpdateOutput, serverVars, historyVars, Active, At
  <2>3. CASE StoreDerivedFrom(r) \/ InsertService(r) \/ ReplaceService(r) \/ Recheck(r) \/ ServeOutput(r)
    BY <2>3 DEF StoreDerivedFrom, InsertService, ReplaceService, Recheck, ServeOutput, serverVars, historyVars, Active, At
  <2>4. CASE UnregisterOutput(r) \/ Cleanup(r) \/ DropService(r)
    BY <2>4 DEF UnregisterOutput, Cleanup, DropService, serverVars, historyVars, Active, At
  <2> QED
    BY <2>1, <2>2, <2>3, <2>4 DEF Run, Begins
<1> SUFFICES End(r) \/ Stays
  BY <1>2
<1>3. ASSUME NEW id \in {NoId} \cup Ids, Staged(r, id)
      PROVE  Stays
  BY <1>1, <1>3, StagedFacts DEF TypeOK
<1>4. Proceed(r) \/ Materialize(r) => Stays
  BY <1>1, ProceedFacts, MaterializeFacts DEF TypeOK
<1>5. ASSUME NEW l \in Labels, l # "idle", NEW m, Goto(r, l), loc' = [loc EXCEPT ![r] = m],
             m.op = loc[r].op, m.service = loc[r].service,
             UpdateOutput(r) \/ Recheck(r) \/ m.checked = loc[r].checked
      PROVE  Stays
  BY <1>5, NextWork
<1>6. ASSUME NEW l \in Labels, l # "idle", Goto(r, l), loc' = loc
      PROVE  Stays
  BY <1>6, Unchanged
<1> HIDE DEF Stays
<1>7. Failed(r) => Stays
  <2> SUFFICES ASSUME Failed(r) PROVE Stays
    OBVIOUS
  <2>1. Goto(r, "insert") /\ loc' = [loc EXCEPT ![r] = [loc[r] EXCEPT !.ok = FALSE]]
    BY DEF Failed
  <2> QED
    BY <1>1, <1>5, <2>1, SameWork DEF Labels
<1>8. CASE AskSource(r)
  <2>1. pc[r] = "next" /\ ~Last(r)
    BY <1>8 DEF AskSource, At
  <2>2. Source(r) \in Sources
    BY <1>1, <2>1, SourceType DEF IInv
  <2>3. tokens[Source(r)].response \in {NoId} \cup Ids
    BY <1>1, <2>2 DEF TypeOK, Tokens
  <2>4. CASE Goto(r, "json") /\ loc' = [loc EXCEPT ![r].sent = tokens[Source(r)].id]
    <3>1. loc' = [loc EXCEPT ![r] = [loc[r] EXCEPT !.sent = tokens[Source(r)].id]]
      BY <2>4
    <3> QED
      BY <1>1, <1>5, <2>4, <3>1, SameWork DEF Labels
  <2>5. CASE Staged(r, tokens[Source(r)].response)
    BY <1>3, <2>3, <2>5
  <2> QED
    BY <1>4, <1>8, <2>4, <2>5 DEF AskSource
<1>9. CASE DiscoveryFails(r)
  BY <1>4, <1>9 DEF DiscoveryFails, GiveUp
<1>10. CASE Exchange(r)
  <2>1. CASE Goto(r, "form") /\ loc' = loc
    BY <1>6, <2>1 DEF Labels
  <2>2. CASE GiveUp(r)
    BY <1>4, <2>2 DEF GiveUp
  <2>3. CASE \E id \in {NoId} \cup Ids : /\ loc' = [loc EXCEPT ![r].answer = id, ![r].keep = id]
                                         /\ Goto(r, IF id = NoId THEN "keep" ELSE "store")
    <3>1. PICK id \in {NoId} \cup Ids : /\ loc' = [loc EXCEPT ![r].answer = id, ![r].keep = id]
                                        /\ Goto(r, IF id = NoId THEN "keep" ELSE "store")
      BY <2>3
    <3>2. loc' = [loc EXCEPT ![r] = [loc[r] EXCEPT !.answer = id, !.keep = id]]
      BY <1>1, <3>1 DEF TypeOK
    <3>3. (IF id = NoId THEN "keep" ELSE "store") \in Labels \ {"idle"}
      BY DEF Labels
    <3> QED
      BY <1>1, <1>5, <3>1, <3>2, <3>3, SameWork
  <2> QED
    BY <1>10, <2>1, <2>2, <2>3 DEF Exchange
<1>11. CASE KeepId(r)
  <2>1. loc' = [loc EXCEPT ![r] = [loc[r] EXCEPT !.keep = tokens[Source(r)].id]] /\ Goto(r, "store")
    BY <1>11 DEF KeepId
  <2> QED
    BY <1>1, <1>5, <2>1, SameWork DEF Labels
<1>12. CASE StoreToken(r)
  <2>1. loc[r].answer \in {NoId} \cup Ids
    BY <1>1 DEF Locals
  <2>2. CASE Staged(r, loc[r].answer)
    BY <1>3, <2>1, <2>2
  <2> QED
    BY <1>4, <1>12, <2>2 DEF StoreToken, GiveUp
<1>13. CASE Query(r)
  <2>1. CASE /\ loc' = [loc EXCEPT ![r].from = DerivationOf(r), ![r].up = NoEvidence]
             /\ Goto(r, IF loc[r].op = "create" THEN "register" ELSE "put")
    <3>1. loc' = [loc EXCEPT ![r] = [loc[r] EXCEPT !.from = DerivationOf(r), !.up = NoEvidence]]
      BY <1>1, <2>1 DEF TypeOK
    <3>2. (IF loc[r].op = "create" THEN "register" ELSE "put") \in Labels \ {"idle"}
      BY DEF Labels
    <3>3. ASSUME NEW l \in Locals, NEW d, NEW u
          PROVE  LET m == [l EXCEPT !.from = d, !.up = u] IN
                   m.op = l.op /\ m.service = l.service /\ m.checked = l.checked
      BY <3>3, SameWork
    <3> DEFINE m == [loc[r] EXCEPT !.from = DerivationOf(r), !.up = NoEvidence]
    <3>4. m.op = loc[r].op /\ m.service = loc[r].service /\ m.checked = loc[r].checked
      BY <1>1, <3>3
    <3> HIDE DEF m
    <3> QED
      BY <1>5, <2>1, <3>1, <3>2, <3>4 DEF m
  <2> QED
    BY <1>13, <2>1 DEF Query
<1>14. CASE StillFresh(r) \/ RegisterOutput(r) \/ PutDerivation(r) \/ StoreDerivedFrom(r)
  <2>1. End(r) \/ Failed(r) \/ \E l \in {"serve", "put", "update", "insert"} : Goto(r, l) /\ loc' = loc
    BY <1>14 DEF StillFresh, RegisterOutput, PutDerivation, StoreDerivedFrom
  <2> QED
    BY <1>6, <1>7, <2>1 DEF Labels
<1>15. CASE \/ InsertService(r) \/ ReplaceService(r) \/ ServeOutput(r)
            \/ UnregisterOutput(r) \/ Cleanup(r) \/ DropService(r)
  <2>1. End(r) \/ \E l \in {"recheck", "serve", "cleanup", "drop"} : Goto(r, l) /\ loc' = loc
    BY <1>15 DEF InsertService, ReplaceService, ServeOutput, UnregisterOutput, Cleanup, DropService
  <2> QED
    BY <1>6, <2>1 DEF Labels
<1>16. CASE Recheck(r)
  <2>1. CASE Goto(r, "serve") /\ loc' = [loc EXCEPT ![r].checked = TRUE]
    <3>1. loc' = [loc EXCEPT ![r] = [loc[r] EXCEPT !.checked = TRUE]]
      BY <2>1
    <3> QED
      BY <1>1, <1>5, <1>16, <2>1, <3>1, CheckedWork DEF Labels
  <2> QED
    BY <1>16, <2>1 DEF Recheck
<1>17. CASE UpdateOutput(r)
  <2> DEFINE e == [q \in Requests |->
                     IF loc[q].op = "output" /\ Service(q) = Service(r)
                     THEN [loc[q] EXCEPT !.checked = FALSE] ELSE loc[q]]
  <2>1. e[r].op = loc[r].op /\ e[r].service = loc[r].service
    BY <1>1, CheckedWork
  <2>2. e[r] \in Locals
    BY <1>1 DEF Locals
  <2>3. DOMAIN pc = Requests /\ pc = [q \in Requests |-> pc[q]]
    BY <1>1 DEF TypeOK
  <2>4. CASE loc' = e /\ Goto(r, "commit")
    BY <1>17, <2>1, <2>3, <2>4 DEF Goto, Stays
  <2>5. CASE loc' = [e EXCEPT ![r].ok = FALSE] /\ Goto(r, "insert")
    <3>1. loc'[r] = [e[r] EXCEPT !.ok = FALSE] /\ pc'[r] = "insert"
      BY <2>3, <2>5 DEF Goto
    <3> HIDE DEF e
    <3>2. loc'[r].op = e[r].op /\ loc'[r].service = e[r].service
      BY <2>2, <3>1, SameWork
    <3> QED
      BY <1>17, <2>1, <3>1, <3>2 DEF Stays
  <2> QED
    BY <1>7, <1>17, <2>4, <2>5 DEF UpdateOutput
<1> QED
  BY <1>8, <1>9, <1>10, <1>11, <1>12, <1>13, <1>14, <1>15, <1>16, <1>17 DEF Run, Begins

\* A request begins on a new service, or on one that is listed.
LEMMA BeginsFacts ==
  ASSUME IInv, NEW r \in Requests, Begins(r)
  PROVE  /\ pc[r] = "idle" /\ loc'[r].checked /\ pc'[r] \in {"next", "unregister"}
         /\ loc'[r].up = NoEvidence
         /\ \A q \in Requests \ {r} : pc'[q] = pc[q] /\ loc'[q] = loc[q]
         /\ overlapped' = (overlapped \/ \E q \in Requests \ {r} : Active(q))
         /\ UNCHANGED <<derivations, derivedFrom, assets, services>>
         /\ \/ loc'[r].op = "create" /\ loc'[r].service \notin reserved
               /\ loc'[r].service \in Services /\ reserved' = reserved \cup {loc'[r].service}
            \/ /\ loc'[r].op \in {"output", "delete"} /\ loc'[r].service \in DOMAIN services
               /\ reserved' = reserved
<1>1. TypeOK
  BY DEF IInv
<1>2. /\ pc[r] = "idle" /\ UNCHANGED <<derivations, derivedFrom, assets, services>>
      /\ overlapped' = (overlapped \/ \E q \in Requests \ {r} : Active(q))
  BY DEF Begins, CreateService, GetOutput, DeleteService, Begin, uasVars, Active, At
<1>3. \A q \in Requests \ {r} : pc'[q] = pc[q] /\ loc'[q] = loc[q]
  BY <1>1, OthersUnless, <1>2 DEF Begins, Run, UpdateOutput, At
<1>4. CASE CreateService(r)
  <2>1. PICK s \in Services \ reserved : Begin(r, "create", s, "next") /\ reserved' = reserved \cup {s}
    BY <1>4 DEF CreateService
  <2>2. pc'[r] = "next" /\ loc'[r].op = "create" /\ loc'[r].service = s /\ loc'[r].checked
        /\ loc'[r].up = NoEvidence
    BY <1>1, <2>1, BeginFacts DEF TypeOK, Labels
  <2> QED
    BY <1>2, <1>3, <2>1, <2>2
<1>5. CASE GetOutput(r)
  <2>1. PICK s \in DOMAIN services : Begin(r, "output", s, "next") /\ reserved' = reserved
    BY <1>5 DEF GetOutput
  <2>2. s \in Services
    BY <1>1 DEF TypeOK
  <2>3. pc'[r] = "next" /\ loc'[r].op = "output" /\ loc'[r].service = s /\ loc'[r].checked
        /\ loc'[r].up = NoEvidence
    BY <1>1, <2>1, <2>2, BeginFacts DEF TypeOK, Labels
  <2> QED
    BY <1>2, <1>3, <2>1, <2>3
<1>6. CASE DeleteService(r)
  <2>1. PICK s \in DOMAIN services : Begin(r, "delete", s, "unregister") /\ reserved' = reserved
    BY <1>6 DEF DeleteService
  <2>2. s \in Services /\ services[s].from \in AnyId
    BY <1>1 DEF TypeOK
  <2>3. pc'[r] = "unregister" /\ loc'[r].op = "delete" /\ loc'[r].service = s /\ loc'[r].checked
        /\ loc'[r].up = NoEvidence
    BY <1>1, <2>1, <2>2, BeginFacts DEF TypeOK, Labels
  <2> QED
    BY <1>2, <1>3, <2>1, <2>3
<1> QED
  BY <1>4, <1>5, <1>6 DEF Begins

\* Who begins while another is at work has overlapped it.
LEMMA AloneStep ==
  ASSUME IInv, NEW r \in Requests, Run(r)
  PROVE  AloneUnlessOverlapped'
<1>1. \A q \in Requests \ {r} : Active(q)' <=> Active(q)
  BY OthersUnless DEF IInv, Active
<1>2. CASE Begins(r)
  BY <1>1, <1>2, BeginsFacts DEF AloneUnlessOverlapped
<1>3. CASE ~Begins(r)
  <2>1. Active(r) /\ overlapped' = overlapped
    BY <1>3, WorkFacts
  <2> QED
    BY <1>1, <2>1 DEF IInv, AloneUnlessOverlapped
<1> QED
  BY <1>2, <1>3

\* The token of a request is expired by its own update, or by an overlapping one.
LEMMA CheckedStep ==
  ASSUME IInv, NEW r \in Requests, Run(r), NEW q \in Requests
  PROVE  CheckedUntilUpdated(q)'
<1>1. TypeOK /\ CheckedUntilUpdated(q) /\ CheckedUntilUpdated(r)
  BY DEF IInv
<1>2. overlapped => overlapped'
  BY <1>1, HistoryStep
<1>3. CASE q # r
  <2>1. pc'[q] = pc[q] /\ loc'[q].ok = loc[q].ok
    BY <1>1, <1>3, OneMoves DEF Same
  <2>2. CASE loc'[q] = loc[q]
    BY <1>1, <1>2, <2>1, <2>2 DEF CheckedUntilUpdated
  <2>3. CASE UpdateOutput(r)
    <3>1. Active(r) /\ overlapped' = overlapped
      BY <2>3 DEF UpdateOutput, At, Active, historyVars
    <3>2. Active(q) => overlapped
      BY <1>3, <3>1 DEF IInv, AloneUnlessOverlapped
    <3> QED
      BY <2>1, <3>1, <3>2 DEF CheckedUntilUpdated, Active
  <2> QED
    BY <1>1, <1>3, <2>2, <2>3, OthersUnless
<1>4. CASE q = r
  <2> SUFFICES CheckedUntilUpdated(r)'
    BY <1>4
  <2>1. CASE Begins(r)
    BY <2>1, BeginsFacts DEF CheckedUntilUpdated
  <2>2. CASE End(r)
    BY <1>1, <2>2, EndFacts DEF CheckedUntilUpdated, TypeOK
  <2>3. CASE ~Begins(r) /\ ~End(r) /\ ~UpdateOutput(r) /\ ~Recheck(r)
    <3>1. loc'[r].checked = loc[r].checked
      BY <2>3, WorkFacts
    <3>2. CASE pc[r] \in {"next", "json", "form", "keep", "store", "register", "put", "update"}
      BY <1>1, <1>2, <3>1, <3>2 DEF CheckedUntilUpdated
    <3>3. CASE StoreDerivedFrom(r)
      BY <1>1, <3>3 DEF StoreDerivedFrom, Goto, CheckedUntilUpdated, TypeOK
    <3>4. CASE ReplaceService(r)
      BY <1>1, <3>4 DEF ReplaceService, Goto, CheckedUntilUpdated, TypeOK
    <3>5. CASE UnregisterOutput(r) \/ Cleanup(r)
      BY <1>1, <3>5 DEF UnregisterOutput, Cleanup, Goto, CheckedUntilUpdated, TypeOK
    <3>6. CASE InsertService(r) \/ ServeOutput(r) \/ DropService(r)
      BY <2>3, <3>6 DEF InsertService, ServeOutput, DropService
    <3>7. CASE AskSource(r) \/ DiscoveryFails(r) \/ Exchange(r) \/ KeepId(r) \/ StoreToken(r)
      BY <3>2, <3>7 DEF AskSource, DiscoveryFails, Exchange, KeepId, StoreToken, At
    <3>8. CASE StillFresh(r) \/ Query(r) \/ RegisterOutput(r) \/ PutDerivation(r)
      BY <3>2, <3>8 DEF StillFresh, Query, RegisterOutput, PutDerivation, At
    <3> QED
      BY <2>3, <3>3, <3>4, <3>5, <3>6, <3>7, <3>8 DEF Run, Begins
  <2>4. CASE UpdateOutput(r)
    <3>1. pc'[r] \in {"commit", "insert"}
      BY <1>1, <2>4 DEF UpdateOutput, Failed, Goto, TypeOK
    <3> QED
      BY <3>1 DEF CheckedUntilUpdated
  <2>5. CASE Recheck(r) /\ ~End(r)
    <3>1. Goto(r, "serve") /\ loc' = [loc EXCEPT ![r].checked = TRUE]
      BY <2>5 DEF Recheck
    <3>2. pc'[r] = "serve" /\ loc'[r].checked
      BY <1>1, <3>1 DEF Goto, TypeOK, Locals
    <3> QED
      BY <3>2 DEF CheckedUntilUpdated
  <2> QED
    BY <2>1, <2>2, <2>3, <2>4, <2>5
<1> QED
  BY <1>3, <1>4

\* What happens to the records of services.
LEMMA ServicesFacts ==
  ASSUME IInv, NEW r \in Requests, Run(r)
  PROVE  \/ services' = services
         \/ /\ pc[r] = "insert" /\ services' = Assign(services, Service(r), Entry(r))
            /\ (loc[r].op = "create" /\ End(r)) \/ (loc[r].op = "output" /\ Service(r) \in DOMAIN services)
         \/ pc[r] = "drop" /\ End(r) /\ services' = Drop(services, Service(r))
<1>1. CASE InsertService(r)
  BY <1>1 DEF InsertService, At
<1>2. CASE ReplaceService(r)
  BY <1>2 DEF ReplaceService, Replaced, At
<1>3. CASE DropService(r)
  BY <1>3 DEF DropService, At
<1>4. CASE CreateService(r) \/ GetOutput(r) \/ DeleteService(r)
  BY <1>4 DEF CreateService, GetOutput, DeleteService, Begin
<1>5. CASE AskSource(r) \/ DiscoveryFails(r) \/ Exchange(r) \/ KeepId(r) \/ StoreToken(r)
  BY <1>5 DEF AskSource, DiscoveryFails, Exchange, KeepId, StoreToken, serverVars
<1>6. CASE StillFresh(r) \/ Query(r) \/ RegisterOutput(r) \/ PutDerivation(r) \/ UpdateOutput(r)
  BY <1>6 DEF StillFresh, Query, RegisterOutput, PutDerivation, UpdateOutput, serverVars
<1>7. CASE StoreDerivedFrom(r) \/ Recheck(r) \/ ServeOutput(r) \/ UnregisterOutput(r) \/ Cleanup(r)
  BY <1>7 DEF StoreDerivedFrom, Recheck, ServeOutput, UnregisterOutput, Cleanup, serverVars
<1> QED
  BY <1>1, <1>2, <1>3, <1>4, <1>5, <1>6, <1>7 DEF Run

\* A service gets its id before anybody else can name it, and is listed at the end.
LEMMA CreatorStep ==
  ASSUME IInv, NEW r \in Requests, Run(r)
  PROVE  CreatorIsAlone'
<1>1. TypeOK /\ CreatorIsAlone
  BY DEF IInv
<1>2. \A q \in Requests \ {r} : pc'[q] = pc[q] /\ loc'[q].op = loc[q].op /\ Service(q)' = Service(q)
  BY <1>1, OneMoves DEF Same, Service
<1>3. \A q \in Requests : (loc[q].op # "none" => Active(q)) /\ (Active(q) => Service(q) \in reserved)
  BY DEF IInv, Fits, Active
<1>4. DOMAIN services \subseteq reserved
  BY <1>1 DEF TypeOK
<1>5. CASE Begins(r)
  <2>1. services' = services
    BY <1>5, BeginsFacts
  <2>2. CASE loc'[r].op = "create" /\ Service(r)' \notin reserved
    BY <1>1, <1>2, <1>3, <1>4, <2>1, <2>2 DEF CreatorIsAlone, Active
  <2>3. CASE loc'[r].op # "create" /\ Service(r)' \in DOMAIN services
    BY <1>1, <1>2, <1>3, <1>4, <2>1, <2>3 DEF CreatorIsAlone, Active
  <2> QED
    BY <1>5, <2>2, <2>3, BeginsFacts DEF Service
<1>6. CASE ~Begins(r)
  <2>1. Active(r) /\ (\/ loc'[r].op = "none" /\ pc'[r] = "idle"
                      \/ ~End(r) /\ loc'[r].op = loc[r].op /\ Service(r)' = Service(r))
    BY <1>1, <1>6, WorkFacts, EndFacts DEF Service, TypeOK
  <2>2. \A s \in DOMAIN services' : s \in DOMAIN services \/ (loc[r].op = "create" /\ End(r) /\ s = Service(r))
    BY ServicesFacts DEF Assign, Drop, Restrict
  <2>3. End(r) => loc'[r].op = "none"
    BY <1>1, EndFacts
  <2>4. ASSUME NEW p \in Requests, loc'[p].op = "create"
        PROVE  Service(p)' \notin DOMAIN services' /\
               \A q \in Requests : Active(q)' /\ Service(q)' = Service(p)' => q = p
    <3>1. loc[p].op = "create" /\ Service(p)' = Service(p)
      BY <1>2, <2>1, <2>4
    <3>2. \A q \in Requests : Active(q)' => Active(q) /\ Service(q)' = Service(q)
      BY <1>2, <2>1 DEF Active
    <3>3. \A q \in Requests : Active(q) /\ Service(q) = Service(p) => q = p
      BY <1>1, <3>1 DEF CreatorIsAlone
    <3>4. Service(p)' \notin DOMAIN services'
      BY <1>1, <2>1, <2>2, <2>3, <2>4, <3>1, <3>3 DEF CreatorIsAlone
    <3> QED
      BY <3>1, <3>2, <3>3, <3>4
  <2> QED
    BY <2>4 DEF CreatorIsAlone
<1> QED
  BY <1>5, <1>6
-----------------------------------------------------------------------------
(***************************************************************************)
(* Derivations stand until a service over one of the sources is deleted.   *)
(***************************************************************************)
\* A service that was deleted does not come back.
LEMMA TakenStep ==
  ASSUME IInv, NEW r \in Requests, Run(r), NEW s, Taken(s)
  PROVE  Taken(s)'
<1>1. PICK t \in reserved : Range(SourcesOf[t]) \cap Range(SourcesOf[s]) # {} /\ Deleted(t)
  BY DEF Taken
<1>2. TypeOK /\ t \in reserved'
  BY <1>1, GrowsStep DEF IInv, Grows
<1>3. \A q \in Requests \ {r} : pc'[q] = pc[q] /\ loc'[q].op = loc[q].op /\ Service(q)' = Service(q)
  BY <1>2, OneMoves DEF Same, Service
<1>4. \A q \in Requests : ~Creating(q, t)'
  <2>1. CASE Begins(r)
    <3>1. ~Creating(r, t)'
      BY <1>1, <2>1, BeginsFacts DEF Creating, Service
    <3> QED
      BY <1>1, <1>3, <3>1 DEF Deleted, Creating
  <2>2. CASE ~Begins(r)
    <3>1. ~Creating(r, t)'
      BY <1>1, <1>2, <2>2, WorkFacts, EndFacts DEF Creating, Service, Deleted
    <3> QED
      BY <1>1, <1>3, <3>1 DEF Deleted, Creating
  <2> QED
    BY <2>1, <2>2
<1>5. t \notin DOMAIN services' \/ \E q \in Requests : pc'[q] = "drop" /\ Service(q)' = t
  <2>1. CASE t \notin DOMAIN services
    BY <1>1, <2>1, ServicesFacts DEF Assign, Drop, Restrict, Deleted, Creating
  <2>2. CASE \E q \in Requests : pc[q] = "drop" /\ Service(q) = t
    <3>1. PICK q \in Requests : pc[q] = "drop" /\ Service(q) = t
      BY <2>2
    <3>2. CASE q # r
      BY <1>3, <3>1, <3>2
    <3>3. CASE q = r
      <4>1. services' = Drop(services, t)
        BY <3>1, <3>3 DEF Run, CreateService, GetOutput, DeleteService, Begin, AskSource, DiscoveryFails,
                Exchange, KeepId, StoreToken, StillFresh, Query, RegisterOutput, PutDerivation, UpdateOutput,
                StoreDerivedFrom, InsertService, ReplaceService, Recheck, ServeOutput, UnregisterOutput,
                Cleanup, DropService, At
      <4> QED
        BY <4>1 DEF Drop, Restrict
    <3> QED
      BY <3>2, <3>3
  <2> QED
    BY <1>1, <2>1, <2>2 DEF Deleted, At
<1>6. Deleted(t)'
  BY <1>4, <1>5 DEF Deleted, At
<1> QED
  BY <1>1, <1>2, <1>6 DEF Taken

\* A derivation resource goes only when a service is deleted that had it.
LEMMA StandsStep ==
  ASSUME IInv, NEW r \in Requests, Run(r), NEW s \in reserved, NEW d, MayDerive(s, d), Stands(s, d)
  PROVE  Stands(s, d)'
<1>1. TypeOK /\ s \in Services
  BY DEF IInv, TypeOK
<1>2. CASE d = NoId \/ Taken(s)
  BY <1>2, TakenStep DEF Stands
<1>3. CASE d \in derivations /\ d \in derivations'
  BY <1>3 DEF Stands
<1>4. CASE d \in derivations \ derivations' /\ d # NoId
  <2>1. Cleanup(r) /\ d = Removed(r)
    <3>1. CASE Cleanup(r)
      BY <1>4, <3>1 DEF Cleanup
    <3>2. CASE Exchange(r)
      BY <1>4, <3>2, GrantedFacts DEF Exchange
    <3>3. CASE PutDerivation(r)
      BY <1>4, <3>3 DEF PutDerivation
    <3>4. CASE CreateService(r) \/ GetOutput(r) \/ DeleteService(r)
      BY <1>4, <3>4 DEF CreateService, GetOutput, DeleteService, Begin, uasVars
    <3>5. CASE AskSource(r) \/ DiscoveryFails(r) \/ KeepId(r) \/ StoreToken(r) \/ StillFresh(r) \/ Query(r)
      BY <1>4, <3>5 DEF AskSource, DiscoveryFails, KeepId, StoreToken, StillFresh, Query, uasVars
    <3>6. CASE RegisterOutput(r) \/ UpdateOutput(r) \/ StoreDerivedFrom(r) \/ InsertService(r)
      BY <1>4, <3>6 DEF RegisterOutput, UpdateOutput, StoreDerivedFrom, InsertService, uasVars
    <3>7. CASE ReplaceService(r) \/ Recheck(r) \/ ServeOutput(r) \/ UnregisterOutput(r) \/ DropService(r)
      BY <1>4, <3>7 DEF ReplaceService, Recheck, ServeOutput, UnregisterOutput, DropService, uasVars
    <3> QED
      BY <3>1, <3>2, <3>3, <3>4, <3>5, <3>6, <3>7 DEF Run
  <2> DEFINE t == Service(r)
  <2>2. t \in reserved /\ MayDerive(t, d) /\ loc[r].op = "delete"
    <3>1. pc[r] = "cleanup" /\ Active(r)
      BY <2>1 DEF Cleanup, At, Active
    <3>2. t \in reserved /\ loc[r].op = "delete" /\ MayDerive(t, loc[r].from)
      BY <3>1 DEF IInv, Fits, EvidenceIsOfService
    <3>3. \A x \in DOMAIN assets : MayDerive(x, assets[x])
      BY DEF IInv, RecordsAreOfService
    <3> QED
      BY <2>1, <3>2, <3>3 DEF Removed
  <2>3. t \in Services
    BY <1>1, <2>2 DEF TypeOK
  <2>4. Range(SourcesOf[t]) \cap Range(SourcesOf[s]) # {}
    <3>1. CASE d \in Issued
      <4>1. d \notin Services
        <5>1. Issued \subseteq Nat
          BY <1>1 DEF TypeOK, Issued
        <5> QED
          BY <3>1, <5>1 DEF ServicesAssumption
      <4> QED
        BY <1>1, <1>4, <2>2, <2>3, <4>1 DEF MayDerive, Prefixed
    <3>2. CASE d \notin Issued
      <4>1. d = s /\ d = t
        BY <1>4, <2>2, <3>2 DEF MayDerive, Prefixed
      <4>2. SourcesOf[s] \in Seq(Sources) \ {<< >>}
        BY <1>1, SourcesAssumption
      <4>3. 1 \in DOMAIN SourcesOf[s]
        BY <4>2
      <4> QED
        BY <4>1, <4>3 DEF Range
    <3> QED
      BY <3>1, <3>2
  <2>5. pc'[r] = "drop" /\ Service(r)' = t /\ loc'[r].op = "delete" /\ reserved' = reserved
    BY <1>1, <2>1, <2>2 DEF Cleanup, Goto, TypeOK, Service
  <2>6. \A q \in Requests : ~Creating(q, t)'
    <3>1. \A q \in Requests : ~Creating(q, t)
      BY <2>1, <2>2 DEF IInv, CreatorIsAlone, Creating, Active, Cleanup, At
    <3>2. ASSUME NEW q \in Requests \ {r}
          PROVE  loc'[q].op = loc[q].op /\ Service(q)' = Service(q)
      BY <1>1, OneMoves DEF Same, Service
    <3> QED
      BY <2>5, <3>1, <3>2 DEF Creating
  <2>7. Deleted(t)'
    BY <2>5, <2>6 DEF Deleted, At
  <2> QED
    BY <2>2, <2>4, <2>5, <2>7 DEF Stands, Taken
<1> QED
  BY <1>2, <1>3, <1>4 DEF Stands

\* Who is past the PUT of the derivation resource was there, or has come from it.
LEMMA WrittenFacts ==
  ASSUME IInv, NEW r \in Requests, Run(r), Written(r)'
  PROVE  /\ Active(r) /\ Service(r)' = Service(r) /\ loc'[r].from = loc[r].from
         /\ Written(r) \/ (PutDerivation(r) /\ (loc[r].from = NoId \/ loc[r].from \in derivations'))
<1>1. TypeOK /\ loc[r] \in Locals
  BY DEF IInv, TypeOK
<1>2. pc'[r] \in {"update", "commit", "insert"} /\ (pc'[r] = "insert" => loc'[r].ok)
  BY DEF Written
<1>3. CASE Begins(r)
  BY <1>2, <1>3, BeginsFacts
<1>4. CASE End(r)
  BY <1>1, <1>2, <1>4, EndFacts DEF TypeOK
<1>5. ASSUME NEW l \in Labels, Goto(r, l)
      PROVE  pc'[r] = l
  BY <1>1, <1>5 DEF TypeOK, Goto
<1>6. Proceed(r) \/ Materialize(r) \/ (\E id : Staged(r, id)) => pc'[r] = "next"
  BY <1>5 DEF Proceed, Materialize, Staged, Labels
<1>7. CASE AskSource(r) \/ DiscoveryFails(r) \/ Exchange(r) \/ KeepId(r) \/ StoreToken(r)
  <2>1. pc'[r] \in {"next", "json", "form", "keep", "store"} \/ End(r)
    BY <1>5, <1>6, <1>7 DEF AskSource, DiscoveryFails, Exchange, KeepId, StoreToken, GiveUp, Labels
  <2> QED
    BY <1>2, <1>4, <2>1
<1>8. CASE StillFresh(r) \/ Query(r) \/ RegisterOutput(r)
  <2>1. pc'[r] \in {"serve", "register", "put"} \/ End(r)
    BY <1>5, <1>8 DEF StillFresh, Query, RegisterOutput, Labels
  <2> QED
    BY <1>2, <1>4, <2>1
<1>9. CASE ReplaceService(r) \/ Recheck(r) \/ UnregisterOutput(r) \/ Cleanup(r)
  <2>1. pc'[r] \in {"serve", "recheck", "cleanup", "drop"} \/ End(r)
    BY <1>5, <1>9 DEF ReplaceService, Recheck, UnregisterOutput, Cleanup, Labels
  <2> QED
    BY <1>2, <1>4, <2>1
<1>10. CASE InsertService(r) \/ ServeOutput(r) \/ DropService(r)
  BY <1>4, <1>10 DEF InsertService, ServeOutput, DropService
<1>11. Failed(r) => FALSE
  <2> SUFFICES ASSUME Failed(r) PROVE FALSE
    OBVIOUS
  <2>1. pc'[r] = "insert" /\ loc'[r] = [loc[r] EXCEPT !.ok = FALSE]
    BY <1>1, <1>5 DEF Failed, TypeOK, Labels
  <2> QED
    BY <1>1, <1>2, <2>1 DEF Locals
<1>12. CASE PutDerivation(r)
  <2>1. loc' = loc /\ pc[r] = "put" /\ (loc[r].from = NoId \/ loc[r].from \in derivations')
    BY <1>11, <1>12 DEF PutDerivation, At
  <2> QED
    BY <1>12, <2>1 DEF Active, Service
<1>13. CASE UpdateOutput(r)
  <2> DEFINE e == [q \in Requests |->
                     IF loc[q].op = "output" /\ Service(q) = Service(r)
                     THEN [loc[q] EXCEPT !.checked = FALSE] ELSE loc[q]]
  <2>1. e[r] \in Locals /\ e[r].service = loc[r].service /\ e[r].from = loc[r].from /\ pc[r] = "update"
    BY <1>1, <1>13 DEF Locals, UpdateOutput, At
  <2>2. CASE loc' = e
    BY <2>1, <2>2 DEF Active, Service, Written
  <2>3. CASE loc' = [e EXCEPT ![r].ok = FALSE] /\ Goto(r, "insert")
    <3>1. loc'[r] = [e[r] EXCEPT !.ok = FALSE] /\ pc'[r] = "insert"
      BY <1>5, <2>3 DEF Labels
    <3> HIDE DEF e
    <3>2. ~loc'[r].ok
      BY <2>1, <3>1 DEF Locals
    <3> QED
      BY <1>2, <3>1, <3>2
  <2> QED
    BY <1>11, <1>13, <2>2, <2>3 DEF UpdateOutput
<1>14. CASE StoreDerivedFrom(r)
  BY <1>14 DEF StoreDerivedFrom, At, Active, Service, Written
<1> QED
  BY <1>3, <1>7, <1>8, <1>9, <1>10, <1>12, <1>13, <1>14 DEF Run, Begins

\* A service, and a request past the PUT, rely on a resource that is there.
LEMMA DerivationsStep ==
  ASSUME IInv, NEW r \in Requests, Run(r)
  PROVE  DerivationsStand'
<1>1. TypeOK /\ DerivationsStand
  BY DEF IInv
<1>2. ASSUME NEW q \in Requests, Written(q)'
      PROVE  Stands(Service(q), loc[q].from)'
  <2>1. CASE q # r
    <3>1. Written(q) /\ Active(q) /\ Service(q)' = Service(q) /\ loc'[q].from = loc[q].from
      BY <1>1, <1>2, <2>1, OneMoves DEF Same, Written, Active, Service
    <3>2. Service(q) \in reserved /\ MayDerive(Service(q), loc[q].from)
      BY <3>1 DEF IInv, Fits, EvidenceIsOfService
    <3>3. Stands(Service(q), loc[q].from)
      BY <1>1, <3>1 DEF DerivationsStand
    <3>4. \A s, d : s = Service(q) /\ d = loc[q].from => Stands(s, d)'
      BY <3>2, <3>3, StandsStep
    <3> QED
      BY <3>1, <3>4 DEF Stands, Taken
  <2>2. CASE q = r
    <3>1. /\ Active(r) /\ Service(r)' = Service(r) /\ loc'[r].from = loc[r].from
          /\ Written(r) \/ (PutDerivation(r) /\ (loc[r].from = NoId \/ loc[r].from \in derivations'))
      BY <1>2, <2>2, WrittenFacts
    <3>2. CASE Written(r)
      <4>1. Service(r) \in reserved /\ MayDerive(Service(r), loc[r].from)
        BY <3>1 DEF IInv, Fits, EvidenceIsOfService
      <4>2. Stands(Service(r), loc[r].from)
        BY <1>1, <3>2 DEF DerivationsStand
      <4>3. \A s, d : s = Service(r) /\ d = loc[r].from => Stands(s, d)'
        BY <4>1, <4>2, StandsStep
      <4> QED
        BY <2>2, <3>1, <4>3 DEF Stands, Taken
    <3>3. CASE loc[r].from = NoId \/ loc[r].from \in derivations'
      BY <2>2, <3>1, <3>3 DEF Stands
    <3> QED
      BY <3>1, <3>2, <3>3
  <2> QED
    BY <2>1, <2>2
<1>3. ASSUME NEW s \in DOMAIN services', services'[s].status = "ready"
      PROVE  Stands(s, services[s].from)'
  <2>1. ASSUME NEW d, s \in reserved, MayDerive(s, d), Stands(s, d), services'[s].from = d
        PROVE  Stands(s, services[s].from)'
    BY <2>1, StandsStep DEF Stands, Taken
  <2>2. CASE s \in DOMAIN services /\ services'[s] = services[s]
    <3>1. s \in reserved /\ MayDerive(s, services[s].from)
      BY <2>2 DEF IInv, TypeOK, RecordsAreOfService
    <3>2. Stands(s, services[s].from)
      BY <1>1, <1>3, <2>2 DEF DerivationsStand
    <3> QED
      BY <2>1, <2>2, <3>1, <3>2
  <2>3. CASE pc[r] = "insert" /\ s = Service(r) /\ services'[s] = Entry(r)
    <3>1. loc[r].ok /\ services'[s].from = loc[r].from
      BY <1>3, <2>3 DEF Entry
    <3>2. Active(r) /\ Written(r)
      BY <2>3, <3>1 DEF Active, Written
    <3>3. s \in reserved /\ MayDerive(s, loc[r].from)
      BY <2>3, <3>2 DEF IInv, Fits, EvidenceIsOfService
    <3>4. Stands(s, loc[r].from)
      BY <1>1, <2>3, <3>2 DEF DerivationsStand
    <3> QED
      BY <2>1, <3>1, <3>3, <3>4
  <2>4. \/ s \in DOMAIN services /\ services'[s] = services[s]
        \/ pc[r] = "insert" /\ s = Service(r) /\ services'[s] = Entry(r)
    <3>1. CASE services' = services
      BY <3>1
    <3>2. CASE pc[r] = "insert" /\ services' = Assign(services, Service(r), Entry(r))
      BY <3>2 DEF Assign
    <3>3. CASE services' = Drop(services, Service(r))
      BY <3>3 DEF Drop, Restrict
    <3> QED
      BY <3>1, <3>2, <3>3, ServicesFacts
  <2> QED
    BY <2>2, <2>3, <2>4
<1> QED
  BY <1>2, <1>3 DEF DerivationsStand
-----------------------------------------------------------------------------
(***************************************************************************)
(* What the AS, the asset and the service say agrees.                      *)
(***************************************************************************)
\* While requests come one at a time the others are idle.
LEMMA NobodyElse ==
  ASSUME IInv, NEW r \in Requests, Run(r), ~overlapped'
  PROVE  \A q \in Requests \ {r} : pc[q] = "idle" /\ pc'[q] = "idle"
<1>1. TypeOK /\ ~overlapped
  BY HistoryStep DEF IInv
<1>2. \A q \in Requests \ {r} : pc'[q] = pc[q]
  BY <1>1, OthersUnless
<1>3. \A q \in Requests \ {r} : ~Active(q)
  <2>1. CASE Begins(r)
    BY <2>1, BeginsFacts
  <2>2. CASE ~Begins(r)
    BY <1>1, <2>2, WorkFacts DEF IInv, AloneUnlessOverlapped
  <2> QED
    BY <2>1, <2>2
<1> QED
  BY <1>2, <1>3 DEF Active

\* The AS is updated before the asset, and both before the service.
LEMMA AgreeStep ==
  ASSUME IInv, NEW r \in Requests, Run(r)
  PROVE  AgreeUnlessOverlapped'
<1>1. TypeOK /\ AgreeUnlessOverlapped
  BY DEF IInv
<1> SUFFICES ASSUME ~overlapped' PROVE AgreeUnlessOverlapped'
  BY DEF AgreeUnlessOverlapped
<1>2. ~overlapped
  BY <1>1, HistoryStep
<1>3. /\ \A s \in DOMAIN services : services[s].status = "ready" =>
           Agrees(s) \/ \E q \in Requests : Service(q) = s /\ pc[q] \in {"commit", "insert", "cleanup", "drop"}
      /\ \A q \in Requests : pc[q] = "commit" \/ (pc[q] = "insert" /\ loc[q].ok) =>
           Service(q) \in DOMAIN derivedFrom /\ derivedFrom[Service(q)] = loc[q].from
      /\ \A q \in Requests : pc[q] = "insert" /\ loc[q].ok =>
           Service(q) \in DOMAIN assets /\ assets[Service(q)] = loc[q].from
  BY <1>1, <1>2 DEF AgreeUnlessOverlapped
<1>4. \A q \in Requests \ {r} : pc[q] = "idle" /\ pc'[q] = "idle"
  BY NobodyElse
<1>5. ASSUME NEW l \in Labels, Goto(r, l)
      PROVE  pc'[r] = l
  BY <1>1, <1>5 DEF TypeOK, Goto
\* What is left to show.
<1>6. SUFFICES /\ \A s \in DOMAIN services' : services'[s].status = "ready" =>
                    \/ /\ s \in DOMAIN derivedFrom' /\ s \in DOMAIN assets'
                       /\ derivedFrom'[s] = services'[s].from /\ assets'[s] = services'[s].from
                    \/ Service(r)' = s /\ pc'[r] \in {"commit", "insert", "cleanup", "drop"}
               /\ pc'[r] = "commit" \/ (pc'[r] = "insert" /\ loc'[r].ok) =>
                    Service(r)' \in DOMAIN derivedFrom' /\ derivedFrom'[Service(r)'] = loc'[r].from
               /\ pc'[r] = "insert" /\ loc'[r].ok =>
                    Service(r)' \in DOMAIN assets' /\ assets'[Service(r)'] = loc'[r].from
  BY <1>4, <1>6 DEF AgreeUnlessOverlapped, Agrees
<1>7. CASE /\ UNCHANGED <<derivedFrom, assets, services>>
           /\ pc[r] \notin {"commit", "insert", "cleanup", "drop"}
           /\ pc'[r] \notin {"commit", "insert"} \/ (pc'[r] = "insert" /\ ~loc'[r].ok)
  BY <1>3, <1>4, <1>7 DEF Agrees
<1>8. CASE Begins(r)
  BY <1>7, <1>8, BeginsFacts
<1>9. CASE AskSource(r) \/ DiscoveryFails(r) \/ Exchange(r) \/ KeepId(r) \/ StoreToken(r)
  <2>1. Proceed(r) \/ Materialize(r) \/ (\E id : Staged(r, id)) => pc'[r] = "next"
    BY <1>5 DEF Proceed, Materialize, Staged, Labels
  <2>2. End(r) => pc'[r] = "idle"
    BY <1>5 DEF End, Labels
  <2>3. pc'[r] \in {"idle", "next", "json", "form", "keep", "store"}
    BY <1>5, <1>9, <2>1, <2>2 DEF AskSource, DiscoveryFails, Exchange, KeepId, StoreToken, GiveUp, Labels
  <2>4. pc[r] \in {"next", "json", "form", "keep", "store"} /\ UNCHANGED <<derivedFrom, assets, services>>
    BY <1>9 DEF AskSource, DiscoveryFails, Exchange, KeepId, StoreToken, At, serverVars
  <2> QED
    BY <1>7, <2>3, <2>4
<1>10. End(r) => pc'[r] = "idle"
  BY <1>5 DEF End, Labels
<1>11. CASE StillFresh(r) \/ Query(r)
  <2>1. pc'[r] \in {"idle", "serve", "register", "put"} /\ pc[r] = "next"
        /\ UNCHANGED <<derivedFrom, assets, services>>
    BY <1>5, <1>10, <1>11 DEF StillFresh, Query, At, serverVars, Labels
  <2> QED
    BY <1>7, <2>1
<1>12. Failed(r) => pc'[r] = "insert" /\ ~loc'[r].ok
  <2> SUFFICES ASSUME Failed(r) PROVE pc'[r] = "insert" /\ ~loc'[r].ok
    OBVIOUS
  <2>1. pc'[r] = "insert" /\ loc'[r] = [loc[r] EXCEPT !.ok = FALSE] /\ loc[r] \in Locals
    BY <1>1, <1>5 DEF Failed, TypeOK, Labels
  <2> QED
    BY <2>1 DEF Locals
<1>13. CASE PutDerivation(r)
  <2>1. pc[r] = "put" /\ UNCHANGED <<derivedFrom, assets, services>>
        /\ (pc'[r] = "update" \/ Failed(r))
    BY <1>5, <1>13 DEF PutDerivation, At, serverVars, Labels
  <2> QED
    BY <1>7, <1>12, <2>1
<1>14. CASE Recheck(r) \/ ServeOutput(r)
  <2>1. pc[r] \in {"recheck", "serve"} /\ UNCHANGED <<derivedFrom, assets, services>>
        /\ pc'[r] \in {"idle", "serve"}
    BY <1>5, <1>10, <1>14 DEF Recheck, ServeOutput, At, serverVars, Labels
  <2> QED
    BY <1>7, <2>1
\* A service that is created is not listed.
<1>15. CASE RegisterOutput(r)
  <2>1. pc[r] = "register" /\ Service(r) \notin DOMAIN services
    BY <1>15 DEF RegisterOutput, At, IInv, Fits, CreatorIsAlone
  <2>2. /\ services' = services /\ pc'[r] \in {"idle", "put"}
        /\ assets' = Assign(assets, Service(r), NoId)
        /\ derivedFrom' = derivedFrom \/ derivedFrom' = Assign(derivedFrom, Service(r), NoId)
    BY <1>5, <1>10, <1>15 DEF RegisterOutput, Labels
  <2> QED
    BY <1>3, <1>4, <2>1, <2>2 DEF Agrees, Assign
<1>16. CASE UpdateOutput(r)
  <2>1. pc[r] = "update" /\ assets' = assets /\ services' = services
    BY <1>16 DEF UpdateOutput, At, serverVars
  <2>2. CASE Failed(r) /\ derivedFrom' = derivedFrom
    BY <1>7, <1>12, <2>1, <2>2
  <2>3. CASE ~(Failed(r) /\ derivedFrom' = derivedFrom)
    <3>1. /\ derivedFrom' = Assign(derivedFrom, Service(r), loc[r].from)
          /\ pc'[r] \in {"commit", "insert"}
      BY <1>5, <1>16, <2>3 DEF UpdateOutput, Labels
    <3>2. /\ Service(r)' = Service(r) /\ loc'[r].from = loc[r].from
          /\ pc'[r] = "insert" => ~loc'[r].ok
      <4> DEFINE e == [q \in Requests |->
                         IF loc[q].op = "output" /\ Service(q) = Service(r)
                         THEN [loc[q] EXCEPT !.checked = FALSE] ELSE loc[q]]
      <4>1. loc[r] \in Locals
        BY <1>1 DEF TypeOK
      <4>2. e[r] \in Locals /\ e[r].service = loc[r].service /\ e[r].from = loc[r].from
        BY <4>1 DEF Locals
      <4>3. CASE loc' = e /\ Goto(r, "commit")
        <5>1. pc'[r] = "commit" /\ loc'[r] = e[r]
          BY <1>5, <4>3 DEF Labels
        <5> HIDE DEF e
        <5> QED
          BY <4>2, <5>1 DEF Service
      <4>4. CASE loc' = [e EXCEPT ![r].ok = FALSE] /\ Goto(r, "insert")
        <5>1. loc'[r] = [e[r] EXCEPT !.ok = FALSE]
          BY <4>4
        <5> HIDE DEF e
        <5> QED
          BY <4>2, <5>1 DEF Locals, Service
      <4> QED
        BY <1>16, <2>3, <4>3, <4>4 DEF UpdateOutput
    <3> QED
      BY <1>3, <1>4, <2>1, <3>1, <3>2 DEF Agrees, Assign
  <2> QED
    BY <2>2, <2>3
<1>17. CASE StoreDerivedFrom(r)
  <2>1. /\ pc[r] = "commit" /\ pc'[r] = "insert" /\ loc' = loc /\ services' = services
        /\ derivedFrom' = derivedFrom /\ assets' = Assign(assets, Service(r), loc[r].from)
    BY <1>5, <1>17 DEF StoreDerivedFrom, At, Labels
  <2> QED
    BY <1>3, <1>4, <2>1 DEF Agrees, Assign, Service
<1>18. CASE InsertService(r) \/ ReplaceService(r)
  <2>1. /\ pc[r] = "insert" /\ pc'[r] \in {"idle", "recheck", "serve"}
        /\ assets' = assets /\ derivedFrom' = derivedFrom
    BY <1>5, <1>10, <1>18 DEF InsertService, ReplaceService, At, Labels
  <2>2. services' = Assign(services, Service(r), Entry(r))
          \/ (services' = services /\ Service(r) \notin DOMAIN services)
    BY <1>18 DEF InsertService, ReplaceService, Replaced
  <2>3. Entry(r).status = "ready" => loc[r].ok /\ Entry(r).from = loc[r].from
    BY DEF Entry
  <2> QED
    BY <1>3, <1>4, <2>1, <2>2, <2>3 DEF Agrees, Assign
<1>19. CASE UnregisterOutput(r)
  <2>1. /\ pc[r] = "unregister" /\ pc'[r] = "cleanup" /\ loc' = loc /\ services' = services /\ assets' = assets
        /\ derivedFrom' = derivedFrom \/ derivedFrom' = Drop(derivedFrom, Service(r))
    BY <1>5, <1>19 DEF UnregisterOutput, At, Labels, serverVars
  <2> QED
    BY <1>3, <1>4, <2>1 DEF Agrees, Drop, Restrict, Service
<1>20. CASE Cleanup(r)
  <2>1. /\ pc[r] = "cleanup" /\ pc'[r] = "drop" /\ loc' = loc /\ services' = services
        /\ derivedFrom' = derivedFrom /\ assets' = Drop(assets, Service(r))
    BY <1>5, <1>20 DEF Cleanup, At, Labels
  <2> QED
    BY <1>3, <1>4, <2>1 DEF Agrees, Drop, Restrict, Service
<1>21. CASE DropService(r)
  <2>1. /\ pc[r] = "drop" /\ pc'[r] = "idle" /\ services' = Drop(services, Service(r))
        /\ derivedFrom' = derivedFrom /\ assets' = assets
    BY <1>10, <1>21 DEF DropService, At
  <2> QED
    BY <1>3, <1>4, <2>1 DEF Agrees, Drop, Restrict
<1> QED
  BY <1>8, <1>9, <1>11, <1>13, <1>14, <1>15, <1>16, <1>17, <1>18, <1>19, <1>20, <1>21 DEF Run, Begins
-----------------------------------------------------------------------------
(***************************************************************************)
(* The theorems                                                            *)
(***************************************************************************)
\* At the start there is nothing.
LEMMA Initially == Init => IInv
<1> SUFFICES ASSUME Init PROVE IInv
  OBVIOUS
<1>1. TypeOK
  <2>1. "index" \in Starting
    BY DEF Starting, AccountCalls, Range
  <2>2. Head(AccountCalls) = "index"
    BY DEF AccountCalls
  <2>3. issued = << >> /\ << >> \in Seq(Sources) /\ Len(<< >>) = 0
    BY DEF Init
  <2>4. NoToken \in Tokens
    BY DEF NoToken, Tokens
  <2>5. pc \in [Requests -> Labels] /\ loc \in [Requests -> Locals] /\ tokens \in [Sources -> Tokens]
    BY <2>4, IdleType DEF Init, Labels
  <2>6. 0 \in 0 .. MaxRequests
    BY DEF IdsAssumption
  <2>7. DOMAIN EmptyMap = {}
    BY DEF EmptyMap
  <2>8. /\ DOMAIN derivedFrom = {} /\ DOMAIN assets = {} /\ DOMAIN services = {}
        /\ derivations = {} /\ reserved = {} /\ lost = {} /\ overlapped = FALSE /\ practice \in Practices
        /\ account \in Starting /\ begun = 0
    BY <2>1, <2>2, <2>7 DEF Init
  <2>9. Len(issued) <= MaxId
    BY <2>3 DEF IdsAssumption
  <2> HIDE SourcesAssumption
  <2> QED
    BY <2>3, <2>5, <2>6, <2>8, <2>9 DEF TypeOK
<1>2. ASSUME NEW r \in Requests
      PROVE  Fits(r) /\ ExchangedIsOfSource(r) /\ EvidenceIsOfService(r) /\ KnownAtExchange(r) /\ CheckedUntilUpdated(r)
  <2>1. pc[r] = "idle" /\ loc[r].op = "none" /\ loc[r].i = 1
    BY DEF Init, Idle
  <2> QED
    BY <2>1 DEF Fits, ExchangedIsOfSource, EvidenceIsOfService, KnownAtExchange, CheckedUntilUpdated, Active
<1>3. CachedIsOfSource /\ RecordsAreOfService
  BY DEF Init, CachedIsOfSource, RecordsAreOfService, Of, NoToken, EmptyMap
<1>4. AloneUnlessOverlapped
  BY DEF Init, AloneUnlessOverlapped, Active
<1>5. CreatorIsAlone /\ DerivationsStand /\ AgreeUnlessOverlapped
  BY <1>2 DEF Init, CreatorIsAlone, DerivationsStand, AgreeUnlessOverlapped, EmptyMap, Written, Fits
<1> QED
  BY <1>1, <1>2, <1>3, <1>4, <1>5 DEF IInv

\* A step of a request.
LEMMA RunKeepsInv == ASSUME IInv, NEW r \in Requests, Run(r) PROVE IInv'
<1>1. TypeOK' /\ CachedIsOfSource' /\ RecordsAreOfService' /\ AloneUnlessOverlapped'
  BY TypeStep, CachedStep, RecordsStep, AloneStep
<1>2. CreatorIsAlone' /\ DerivationsStand' /\ AgreeUnlessOverlapped'
  BY CreatorStep, DerivationsStep, AgreeStep
<1>3. \A q \in Requests : Own(q)' /\ CheckedUntilUpdated(q)'
  BY OwnStep, CheckedStep
<1> QED
  BY <1>1, <1>2, <1>3 DEF IInv, Own

\* The account token is asked for call by call.
LEMMA AccountCallFacts ==
  ASSUME TypeOK, AccountCall
  PROVE  account' \in Starting \cup {"token", "error"}
<1>1. \A n \in DOMAIN AccountCalls : n # Len(AccountCalls) => AccountCalls[n + 1] \in Starting
  BY DEF AccountCalls, Starting, Range
<1> QED
  BY <1>1 DEF AccountCall

\* The calls for the account token change nothing else.
LEMMA InvStep == IInv /\ [Next]_vars => IInv'
<1> SUFFICES ASSUME IInv, [Next]_vars PROVE IInv'
  OBVIOUS
<1>1. ASSUME NEW r \in Requests, Run(r) PROVE IInv'
  BY <1>1, RunKeepsInv
<1>2. ASSUME account' \in Starting \cup {"token", "error"},
             UNCHANGED <<uasVars, derivedFrom, tokens, reserved, assets, services, pc, loc, historyVars>>
      PROVE  IInv'
  <2> USE <1>2 DEF uasVars, historyVars
  <2>1. TypeOK'
    BY DEF IInv, TypeOK, Issued
  <2>2. ASSUME NEW r \in Requests
        PROVE  /\ Fits(r)' /\ ExchangedIsOfSource(r)' /\ EvidenceIsOfService(r)'
               /\ KnownAtExchange(r)' /\ CheckedUntilUpdated(r)'
    <3>1. Fits(r) /\ ExchangedIsOfSource(r) /\ EvidenceIsOfService(r) /\ KnownAtExchange(r) /\ CheckedUntilUpdated(r)
      BY DEF IInv
    <3>2. Fits(r)' /\ KnownAtExchange(r)' /\ CheckedUntilUpdated(r)'
      BY <3>1 DEF Fits, KnownAtExchange, CheckedUntilUpdated, Active, Service, Last, Source
    <3>3. ExchangedIsOfSource(r)' /\ EvidenceIsOfService(r)'
      BY <3>1 DEF ExchangedIsOfSource, EvidenceIsOfService, Of, Issued, MayDerive, Prefixed, Active, Service, Source
    <3> QED
      BY <3>2, <3>3
  <2>3. CachedIsOfSource' /\ RecordsAreOfService'
    BY DEF IInv, CachedIsOfSource, RecordsAreOfService, Of, Issued, MayDerive, Prefixed
  <2>4. AloneUnlessOverlapped' /\ CreatorIsAlone'
    BY DEF IInv, AloneUnlessOverlapped, CreatorIsAlone, Active, Service
  <2>5. DerivationsStand'
    BY DEF IInv, DerivationsStand, Stands, Taken, Deleted, Creating, Written, Service, At
  <2>6. AgreeUnlessOverlapped'
    BY DEF IInv, AgreeUnlessOverlapped, Agrees, Service
  <2> QED
    BY <2>1, <2>2, <2>3, <2>4, <2>5, <2>6 DEF IInv
<1>3. CASE AccountCall
  <2>1. account' \in Starting \cup {"token", "error"}
    BY <1>3, AccountCallFacts DEF IInv
  <2> QED
    BY <1>2, <1>3, <2>1 DEF AccountCall
<1>4. CASE UNCHANGED vars
  <2>1. account' \in Starting \cup {"token", "error"}
    BY <1>4 DEF vars, serverVars, IInv, TypeOK
  <2> QED
    BY <1>2, <1>4, <2>1 DEF vars, serverVars
<1> QED
  BY <1>1, <1>3, <1>4 DEF Next

\* The inductive invariant.
THEOREM Invariance == Spec => []IInv
  BY Initially, InvStep, PTL DEF Spec

\* Ids of derivation resources and the server's own names stay apart wherever
\* they are kept: in the cache, the records and the goroutines.
THEOREM TypeCorrect == Spec => []TypeOK
<1>1. IInv => TypeOK
  BY DEF IInv
<1> QED
  BY <1>1, Invariance, PTL

\* What the AS says an output is derived from was issued for a source of its
\* service, or is the server's own name for it at a UAS that answers without ids
\* (updateOutputAssetDerivedFrom, storeUpstreamToken).
THEOREM DerivationIsOfSource == Spec => []DerivedFromItsSources
<1>1. IInv => DerivedFromItsSources
  BY DEF IInv, RecordsAreOfService, MayDerive, DerivedFromItsSources
<1> QED
  BY <1>1, Invariance, PTL

\* No step forgets the id of a derivation resource (storeUpstreamToken,
\* cachedUpstreamDerivationResourceID).
THEOREM KnownStaysKnown == Spec => KnownIdIsKept
<1>1. IInv /\ [Next]_vars => [\A x \in Sources : tokens[x].id # NoId => tokens'[x].id # NoId]_vars
  <2> SUFFICES ASSUME IInv, Next
               PROVE  \A x \in Sources : tokens[x].id # NoId => tokens'[x].id # NoId
    OBVIOUS
  <2>1. CASE AccountCall
    BY <2>1 DEF AccountCall
  <2>2. CASE \E r \in Requests : Run(r)
    BY <2>2, GrowsStep DEF Grows
  <2> QED
    BY <2>1, <2>2 DEF Next
<1> QED
  BY <1>1, Invariance, PTL DEF Spec, KnownIdIsKept

\* The derivation of a ready service is there unless a service over one of its
\* sources was deleted (updateUASDerivationResource, cleanupServiceAssets).
THEOREM DerivationsAreThere == Spec => []DerivationStands
<1>1. IInv => DerivationStands
  <2> SUFFICES ASSUME IInv, NEW s \in DOMAIN services,
                      services[s].status = "ready", services[s].from # NoId, services[s].from \notin derivations
               PROVE  \E t \in reserved :
                        /\ Range(SourcesOf[t]) \cap Range(SourcesOf[s]) # {}
                        /\ t \notin DOMAIN services \/ \E r \in Requests : At(r, "drop") /\ Service(r) = t
    BY DEF DerivationStands
  <2>1. Taken(s)
    BY DEF IInv, DerivationsStand, Stands
  <2> QED
    BY <2>1 DEF Taken, Deleted
<1> QED
  BY <1>1, Invariance, PTL

\* While requests come one at a time, the AS, the asset and the description of
\* a ready service agree on what it is derived from (updateOutputAssetDerivedFrom).
THEOREM RecordsAgree == Spec => []ReadyServiceAgrees
<1>1. IInv => ReadyServiceAgrees
  BY DEF IInv, AgreeUnlessOverlapped, Agrees, ReadyServiceAgrees, At
<1> QED
  BY <1>1, Invariance, PTL

\* A recomputed output is served to a token that was checked after the update
\* (handleServiceOutput, outputRPTIsValid).
THEOREM RecheckPrecedesOutput == Spec => []ServedAfterRecheck
<1>1. IInv => ServedAfterRecheck
  BY DEF IInv, CheckedUntilUpdated, ServedAfterRecheck, At
<1> QED
  BY <1>1, Invariance, PTL
-----------------------------------------------------------------------------
(***************************************************************************)
(* One derivation resource for each source, while requests come one at a   *)
(* time and the UAS honours what it is sent.                               *)
(***************************************************************************)
Sole == ~overlapped /\ practice # "renews" /\ \A s \in Services : IsInjective(SourcesOf[s])

\* The id is the one that is cached, or its answer was lost.
Current(d) == d \in lost \/ tokens[issued[d]].id = d

\* It still is after the step.
Remains(d) == d \in lost' \/ tokens'[issued'[d]].id = d

\* An exchange sends what is cached, and gets something else only if the UAS does
\* not have that any more.
ExchangeIsCurrent(r) ==
  /\ pc[r] \in {"json", "form"} => loc[r].sent = tokens[Source(r)].id
  /\ pc[r] = "store" =>
       /\ loc[r].answer # NoId => loc[r].keep = loc[r].answer
       /\ tokens[Source(r)].id \in derivations => loc[r].keep = tokens[Source(r)].id

\* The evidence is of a source that is behind, so its id is not replaced.
EvidenceIsCurrent(r) ==
  /\ pc[r] \in {"next", "json", "form", "keep", "store"} =>
       /\ loc[r].method = "HEAD" => loc[r].up.id = NoId
       /\ loc[r].up.id # NoId =>
            /\ Current(loc[r].up.id)
            /\ \E j \in DOMAIN SourcesOf[Service(r)] :
                 j < loc[r].i /\ issued[loc[r].up.id] = SourcesOf[Service(r)][j]
  /\ pc[r] \in {"register", "put"} /\ loc[r].from \in Ids => Current(loc[r].from)

ResponsesAreCached ==
  \A x \in Sources : tokens[x].response # NoId => tokens[x].response = tokens[x].id

ResourcesAreCurrent ==
  \A d \in derivations \cap Ids :
    Current(d) \/ \E r \in Requests : At(r, "store") /\ loc[r].keep = d

OneEach ==
  Sole =>
    /\ ResponsesAreCached /\ ResourcesAreCurrent
    /\ \A r \in Requests : ExchangeIsCurrent(r) /\ EvidenceIsCurrent(r)

\* What the UAS has under a number it has issued.
LEMMA ResourcesAreIssued ==
  ASSUME TypeOK, NEW d \in derivations, d \in Nat
  PROVE  d \in Issued /\ d # NoId
<1>1. derivations \subseteq Issued \cup Services /\ issued \in Seq(Sources)
  BY DEF TypeOK
<1>2. 0 \notin DOMAIN issued
  BY <1>1
<1> QED
  BY <1>1, <1>2 DEF ServicesAssumption, Issued, NoId

\* An exchange brings the id that was sent, none, or a new one that replaces one the
\* UAS does not have any more.
LEMMA GrantOne ==
  ASSUME IInv, practice # "renews", NEW r \in Requests, pc[r] \in {"json", "form"},
         NEW id \in {NoId} \cup Ids, Grant(Source(r), loc[r].sent, id)
  PROVE  \/ id \in {loc[r].sent, NoId} /\ derivations' = derivations
         \/ /\ loc[r].sent \notin derivations' /\ id # loc[r].sent /\ id # NoId
            /\ derivations' = derivations \cup {id}
<1>1. /\ TypeOK /\ Of(loc[r].sent, Source(r))
      /\ loc[r].sent \in {NoId} \cup Ids
  BY DEF IInv, ExchangedIsOfSource, TypeOK, Locals
<1>2. CASE loc[r].sent \in derivations
  BY <1>2 DEF Grant
<1>3. CASE loc[r].sent \notin derivations
  <2>1. /\ issued' = Append(issued, Source(r)) /\ id = Len(issued')
        /\ derivations' = derivations \cup {id}
    BY <1>3 DEF Grant
  <2>2. issued \in Seq(Sources) /\ Source(r) \in Sources
    BY <1>1, AtSource DEF TypeOK
  <2>3. id = Len(issued) + 1 /\ Len(issued) \in Nat /\ DOMAIN issued = 1 .. Len(issued)
    BY <2>1, <2>2
  <2>4. id # NoId /\ id \notin Issued
    BY <2>3 DEF NoId, Issued
  <2>5. id # loc[r].sent
    BY <1>1, <2>4 DEF Of
  <2> QED
    BY <1>3, <2>1, <2>4, <2>5
<1> QED
  BY <1>2, <1>3

\* A request goes on with the sources, with evidence that is current.
LEMMA ReadCurrent ==
  ASSUME IInv, Grows, NEW r \in Requests, EvidenceIsCurrent(r),
         pc[r] \in {"next", "json", "form", "keep", "store"},
         loc[r].up.id # NoId => Remains(loc[r].up.id),
         NEW id \in {NoId} \cup Ids,
         \/ Proceed(r) \/ GiveUp(r) \/ End(r)
         \/ loc[r].method = "HEAD" /\ Materialize(r)
         \/ loc[r].method = "GET" /\ Staged(r, id) /\ ~Last(r),
         id # NoId => id \in Issued' /\ issued'[id] = Source(r) /\ Remains(id)
  PROVE  EvidenceIsCurrent(r)' /\ ExchangeIsCurrent(r)'
<1>1. TypeOK /\ Fits(r) /\ EvidenceIsOfService(r) /\ loc[r] \in Locals
  BY DEF IInv, TypeOK
<1>2. loc[r].i \in Nat /\ loc[r].i >= 1 /\ Service(r) \in Services
  BY <1>1 DEF Locals, Fits, Service
<1>3. loc[r].up.id # NoId => issued'[loc[r].up.id] = issued[loc[r].up.id]
  BY <1>1 DEF EvidenceIsOfService, Active, Grows
<1>4. CASE End(r)
  BY <1>1, <1>4, EndFacts DEF EvidenceIsCurrent, ExchangeIsCurrent, TypeOK, Remains, Current
<1>5. CASE Proceed(r)
  <2>1. /\ pc'[r] = "next" /\ loc'[r].up = loc[r].up /\ loc'[r].i = loc[r].i + 1
        /\ loc'[r].method = loc[r].method /\ Service(r)' = Service(r)
    BY <1>1, <1>5, ProceedFacts DEF TypeOK, Service
  <2>2. \A j \in DOMAIN SourcesOf[Service(r)] : j < loc[r].i => j < loc[r].i + 1
    <3>1. SourcesOf[Service(r)] \in Seq(Sources)
      BY <1>2 DEF SourcesAssumption
    <3> QED
      BY <1>2, <3>1
  <2> QED
    BY <1>3, <2>1, <2>2 DEF EvidenceIsCurrent, ExchangeIsCurrent, Remains, Current
<1>6. CASE loc[r].method = "HEAD" /\ Materialize(r)
  <2>1. pc'[r] = "next" /\ loc'[r].up = loc[r].up /\ loc'[r].method = "GET"
    BY <1>1, <1>6, MaterializeFacts DEF TypeOK
  <2>2. loc'[r].up.id = NoId
    BY <1>6, <2>1 DEF EvidenceIsCurrent, Remains, Current
  <2> QED
    BY <2>1, <2>2 DEF EvidenceIsCurrent, ExchangeIsCurrent, Remains, Current
<1>7. CASE loc[r].method = "GET" /\ Staged(r, id) /\ ~Last(r)
  <2>1. /\ pc'[r] = "next" /\ loc'[r].up = NewEvidence(loc[r], id) /\ loc'[r].i = loc[r].i + 1
        /\ loc'[r].method = "GET" /\ Service(r)' = Service(r)
    BY <1>1, <1>7, StagedFacts DEF TypeOK, Service
  <2>2. SourcesOf[Service(r)] \in Seq(Sources)
    BY <1>2 DEF SourcesAssumption
  <2>3. /\ loc[r].i \in DOMAIN SourcesOf[Service(r)] /\ loc[r].i < loc[r].i + 1
        /\ Source(r) = SourcesOf[Service(r)][loc[r].i]
        /\ \A j \in DOMAIN SourcesOf[Service(r)] : j < loc[r].i => j < loc[r].i + 1
    BY <1>2, <1>7, <2>2 DEF Last, Source
  <2>4. CASE loc[r].up.issuer
    <3>1. loc'[r].up = loc[r].up
      BY <2>1, <2>4 DEF NewEvidence
    <3> QED
      BY <1>3, <2>1, <2>3, <3>1 DEF EvidenceIsCurrent, ExchangeIsCurrent, Remains, Current
  <2>5. CASE ~loc[r].up.issuer
    <3>1. loc'[r].up.id = id
      BY <2>1, <2>5 DEF NewEvidence
    <3> QED
      BY <2>1, <2>3, <3>1 DEF EvidenceIsCurrent, ExchangeIsCurrent, Remains, Current
  <2> QED
    BY <2>4, <2>5
<1> QED
  BY <1>4, <1>5, <1>6, <1>7 DEF GiveUp

\* Steps that neither learn an id nor make a derivation resource.
LEMMA QuietStep ==
  ASSUME IInv, NEW r \in Requests, Run(r), Sole, Sole', OneEach, Grows,
         tokens' = tokens, lost' = lost, derivations' \subseteq derivations, pc[r] # "store"
  PROVE  /\ ResponsesAreCached' /\ ResourcesAreCurrent'
         /\ \A d \in Issued : Current(d) => Remains(d)
<1>1. ResponsesAreCached'
  BY DEF OneEach, ResponsesAreCached
<1>2. \A d \in Issued : Current(d) => Remains(d)
  BY DEF Grows, Current, Remains
<1>3. \A q \in Requests \ {r} : pc[q] = "idle"
  BY NobodyElse DEF Sole
<1>4. \A d \in derivations \cap Ids : d \in Issued /\ Current(d)
  <2>1. \A d \in derivations \cap Ids : d \in Issued
    BY ResourcesAreIssued DEF IInv, Ids
  <2> QED
    BY <1>3, <2>1 DEF OneEach, ResourcesAreCurrent, At, Remains, Current
<1> QED
  BY <1>1, <1>2, <1>4 DEF ResourcesAreCurrent, Remains, Current

\* Labels of which nothing is said here.
LEMMA Elsewhere ==
  ASSUME NEW r \in Requests,
         pc'[r] \notin {"next", "json", "form", "keep", "store", "register", "put"}
  PROVE  ExchangeIsCurrent(r)' /\ EvidenceIsCurrent(r)'
  BY DEF ExchangeIsCurrent, EvidenceIsCurrent, Remains, Current

\* Nothing that the evidence is about changes.
LEMMA SameEvidence ==
  ASSUME IInv, Grows, NEW r \in Requests, EvidenceIsCurrent(r),
         pc[r] \in {"next", "json", "form", "keep", "store"},
         pc'[r] \in {"json", "form", "keep", "store"},
         \A d \in Issued : Current(d) => Remains(d),
         loc'[r].method = loc[r].method, loc'[r].up = loc[r].up, loc'[r].i = loc[r].i,
         loc'[r].service = loc[r].service
  PROVE  EvidenceIsCurrent(r)'
<1>1. Service(r)' = Service(r)
  BY DEF Service
<1>2. loc[r].up.id # NoId => loc[r].up.id \in Issued /\ issued'[loc[r].up.id] = issued[loc[r].up.id]
  BY DEF IInv, EvidenceIsOfService, Active, Grows
<1> QED
  BY <1>1, <1>2 DEF EvidenceIsCurrent, Remains, Current

\* What is cached is sent.
LEMMA AskSourceOne ==
  ASSUME IInv, NEW r \in Requests, AskSource(r), Sole, Sole', OneEach, Grows
  PROVE  /\ ResponsesAreCached' /\ ResourcesAreCurrent'
         /\ ExchangeIsCurrent(r)' /\ EvidenceIsCurrent(r)'
<1>1. /\ TypeOK /\ loc[r] \in Locals /\ pc[r] = "next" /\ ~Last(r) /\ Fits(r)
      /\ EvidenceIsCurrent(r) /\ ResponsesAreCached /\ EvidenceIsOfService(r)
  BY DEF IInv, TypeOK, AskSource, At, OneEach
<1>2. /\ tokens' = tokens /\ lost' = lost /\ derivations' = derivations /\ issued' = issued /\ Run(r)
  BY DEF AskSource, uasVars, serverVars, historyVars, Run
<1>3. /\ ResponsesAreCached' /\ ResourcesAreCurrent'
      /\ \A d \in Issued : Current(d) => Remains(d)
  BY <1>1, <1>2, QuietStep
<1>4. Source(r) \in Sources
  BY <1>1, SourceType
<1>5. CASE Goto(r, "json") /\ loc' = [loc EXCEPT ![r].sent = tokens[Source(r)].id]
  <2>1. pc'[r] = "json" /\ loc'[r] = [loc[r] EXCEPT !.sent = tokens[Source(r)].id]
    BY <1>1, <1>5 DEF Goto, TypeOK
  <2>2. /\ loc'[r].sent = tokens[Source(r)].id /\ loc'[r].method = loc[r].method /\ loc'[r].up = loc[r].up
        /\ loc'[r].i = loc[r].i /\ loc'[r].service = loc[r].service
    BY <1>1, <2>1 DEF Locals
  <2>3. ExchangeIsCurrent(r)'
    BY <1>2, <2>1, <2>2 DEF ExchangeIsCurrent, Source, Service
  <2>4. EvidenceIsCurrent(r)'
    BY <1>1, <1>3, <2>1, <2>2, SameEvidence
  <2> QED
    BY <1>3, <2>3, <2>4
<1>6. loc[r].up.id # NoId => Remains(loc[r].up.id)
  BY <1>1, <1>3 DEF EvidenceIsCurrent, EvidenceIsOfService, Active, Remains, Current
<1>7. CASE ~(Goto(r, "json") /\ loc' = [loc EXCEPT ![r].sent = tokens[Source(r)].id])
  <2> DEFINE id == tokens[Source(r)].response
  <2>1. id \in {NoId} \cup Ids
    BY <1>1, <1>4 DEF TypeOK, Tokens
  <2>2. id # NoId => id \in Issued' /\ issued'[id] = Source(r) /\ Remains(id)
    <3>1. Of(id, Source(r)) /\ (id # NoId => id = tokens[Source(r)].id)
      BY <1>1, <1>4 DEF IInv, CachedIsOfSource, ResponsesAreCached
    <3> QED
      BY <1>2, <3>1 DEF Of, Current, Issued, Remains
  <2>3. \/ Proceed(r) \/ End(r) \/ (loc[r].method = "HEAD" /\ Materialize(r))
        \/ (loc[r].method = "GET" /\ Staged(r, id) /\ ~Last(r))
    BY <1>1, <1>7 DEF AskSource
  <2> HIDE DEF id
  <2> QED
    BY <1>1, <1>3, <1>6, <2>1, <2>2, <2>3, ReadCurrent
<1> QED
  BY <1>5, <1>7

\* What is new is about to be cached, or its answer is lost.
LEMMA ExchangeOne ==
  ASSUME IInv, NEW r \in Requests, Exchange(r), Sole, Sole', OneEach, Grows
  PROVE  /\ ResponsesAreCached' /\ ResourcesAreCurrent'
         /\ ExchangeIsCurrent(r)' /\ EvidenceIsCurrent(r)'
<1>1. /\ TypeOK /\ loc[r] \in Locals /\ pc[r] \in {"json", "form"} /\ EvidenceIsOfService(r)
      /\ EvidenceIsCurrent(r) /\ ExchangeIsCurrent(r) /\ ResponsesAreCached /\ ResourcesAreCurrent
      /\ practice # "renews"
  BY DEF IInv, TypeOK, Exchange, OneEach, Sole
<1>2. tokens' = tokens /\ lost \subseteq lost' /\ Run(r)
  BY DEF Exchange, serverVars, Run
<1>3. ResponsesAreCached'
  BY <1>1, <1>2 DEF ResponsesAreCached
<1>4. \A d \in Issued : Current(d) => Remains(d)
  BY <1>2 DEF Grows, Current, Remains
<1>5. \A d \in derivations \cap Ids : Remains(d)
  <2>1. \A q \in Requests \ {r} : pc[q] = "idle"
    BY <1>2, NobodyElse DEF Sole
  <2>2. \A d \in derivations \cap Ids : d \in Issued
    BY ResourcesAreIssued, <1>1 DEF Ids
  <2> QED
    BY <1>1, <1>4, <2>1, <2>2 DEF ResourcesAreCurrent, At, Remains, Current
<1>6. loc[r].up.id # NoId => Remains(loc[r].up.id)
  BY <1>1, <1>4 DEF EvidenceIsCurrent, EvidenceIsOfService, Active, Remains, Current
\* The next attempt, or none.
<1>7. ASSUME IF At(r, "json") THEN Goto(r, "form") /\ UNCHANGED loc ELSE GiveUp(r)
      PROVE  ExchangeIsCurrent(r)' /\ EvidenceIsCurrent(r)'
  <2>1. CASE GiveUp(r)
    BY <1>1, <1>6, <2>1, ReadCurrent
  <2>2. CASE Goto(r, "form") /\ loc' = loc
    <3>1. pc'[r] = "form"
      BY <1>1, <2>2 DEF Goto, TypeOK
    <3>2. EvidenceIsCurrent(r)'
      BY <1>1, <1>4, <2>2, <3>1, SameEvidence
    <3>3. ExchangeIsCurrent(r)'
      BY <1>1, <1>2, <2>2, <3>1 DEF ExchangeIsCurrent, Source, Service
    <3> QED
      BY <3>2, <3>3
  <2> QED
    BY <1>7, <2>1, <2>2
<1>8. CASE UNCHANGED <<issued, derivations, lost>>
           /\ (IF At(r, "json") THEN Goto(r, "form") /\ UNCHANGED loc ELSE GiveUp(r))
  BY <1>3, <1>5, <1>7, <1>8 DEF ResourcesAreCurrent, Remains, Current
<1>9. ASSUME NEW id \in {NoId} \cup Ids, Grant(Source(r), loc[r].sent, id),
             lost' = lost \cup ({id} \ {NoId, loc[r].sent}),
             IF At(r, "json") THEN Goto(r, "form") /\ UNCHANGED loc ELSE GiveUp(r)
      PROVE  ResourcesAreCurrent' /\ ExchangeIsCurrent(r)' /\ EvidenceIsCurrent(r)'
  <2>1. \/ derivations' = derivations
        \/ derivations' = derivations \cup {id} /\ id \in lost'
    BY <1>1, <1>9, GrantOne
  <2> QED
    BY <1>5, <1>7, <1>9, <2>1 DEF ResourcesAreCurrent, Current, Remains
<1>10. ASSUME NEW id \in {NoId} \cup Ids, Grant(Source(r), loc[r].sent, id),
              loc' = [loc EXCEPT ![r].answer = id, ![r].keep = id],
              Goto(r, IF id = NoId THEN "keep" ELSE "store")
       PROVE  ResourcesAreCurrent' /\ ExchangeIsCurrent(r)' /\ EvidenceIsCurrent(r)'
  <2>1. \/ id \in {loc[r].sent, NoId} /\ derivations' = derivations
        \/ /\ loc[r].sent \notin derivations' /\ id # NoId /\ derivations' = derivations \cup {id}
    BY <1>1, <1>10, GrantOne
  <2>2. /\ pc'[r] = (IF id = NoId THEN "keep" ELSE "store")
        /\ loc'[r] = [loc[r] EXCEPT !.answer = id, !.keep = id]
    BY <1>1, <1>10 DEF Goto, TypeOK
  <2>3. /\ loc'[r].answer = id /\ loc'[r].keep = id
        /\ loc'[r].method = loc[r].method /\ loc'[r].up = loc[r].up
        /\ loc'[r].i = loc[r].i /\ loc'[r].service = loc[r].service
    BY <1>1, <2>2 DEF Locals
  <2>4. loc[r].sent = tokens[Source(r)].id /\ Source(r)' = Source(r)
    BY <1>1, <2>3 DEF ExchangeIsCurrent, Source, Service
  <2>5. EvidenceIsCurrent(r)'
    BY <1>1, <1>4, <2>2, <2>3, SameEvidence
  <2>6. ExchangeIsCurrent(r)'
    BY <1>2, <2>1, <2>2, <2>3, <2>4 DEF ExchangeIsCurrent
  <2>7. ResourcesAreCurrent'
    <3>1. derivations' # derivations => pc'[r] = "store" /\ loc'[r].keep = id /\ derivations' = derivations \cup {id}
      BY <2>1, <2>2, <2>3
    <3> QED
      BY <1>5, <3>1 DEF ResourcesAreCurrent, At, Remains, Current
  <2> QED
    BY <2>5, <2>6, <2>7
<1> QED
  BY <1>3, <1>8, <1>9, <1>10 DEF Exchange

\* What is cached stays.
LEMMA KeepIdOne ==
  ASSUME IInv, NEW r \in Requests, KeepId(r), Sole, Sole', OneEach, Grows
  PROVE  /\ ResponsesAreCached' /\ ResourcesAreCurrent'
         /\ ExchangeIsCurrent(r)' /\ EvidenceIsCurrent(r)'
<1>1. /\ TypeOK /\ loc[r] \in Locals /\ pc[r] = "keep" /\ EvidenceIsCurrent(r)
      /\ loc[r].answer = NoId
  BY DEF IInv, TypeOK, KeepId, At, OneEach, ExchangedIsOfSource
<1>2. /\ tokens' = tokens /\ lost' = lost /\ derivations' = derivations /\ issued' = issued /\ Run(r)
  BY DEF KeepId, uasVars, serverVars, historyVars, Run
<1>3. /\ ResponsesAreCached' /\ ResourcesAreCurrent'
      /\ \A d \in Issued : Current(d) => Remains(d)
  BY <1>1, <1>2, QuietStep
<1>4. pc'[r] = "store" /\ loc'[r] = [loc[r] EXCEPT !.keep = tokens[Source(r)].id]
  BY <1>1 DEF KeepId, Goto, TypeOK
<1>5. /\ loc'[r].keep = tokens[Source(r)].id /\ loc'[r].answer = NoId
      /\ loc'[r].method = loc[r].method /\ loc'[r].up = loc[r].up
      /\ loc'[r].i = loc[r].i /\ loc'[r].service = loc[r].service
  BY <1>1, <1>4 DEF Locals
<1>6. EvidenceIsCurrent(r)'
  BY <1>1, <1>3, <1>4, <1>5, SameEvidence
<1>7. ExchangeIsCurrent(r)'
  BY <1>2, <1>4, <1>5 DEF ExchangeIsCurrent, Source, Service
<1> QED
  BY <1>3, <1>6, <1>7

\* What is replaced is not at the UAS any more, and no evidence is about it.
LEMMA StoreTokenOne ==
  ASSUME IInv, NEW r \in Requests, StoreToken(r), Sole, Sole', OneEach, Grows
  PROVE  /\ ResponsesAreCached' /\ ResourcesAreCurrent'
         /\ ExchangeIsCurrent(r)' /\ EvidenceIsCurrent(r)'
<1> DEFINE x == Source(r)
<1>1. /\ TypeOK /\ loc[r] \in Locals /\ pc[r] = "store" /\ Fits(r) /\ EvidenceIsOfService(r)
      /\ EvidenceIsCurrent(r) /\ ExchangeIsCurrent(r) /\ ResponsesAreCached /\ ResourcesAreCurrent
      /\ ExchangedIsOfSource(r)
  BY DEF IInv, TypeOK, StoreToken, At, OneEach
<1>2. /\ x \in Sources /\ ~Last(r) /\ tokens \in [Sources -> Tokens]
      /\ loc[r].i \in Nat /\ Service(r) \in Services
  BY <1>1, AtSource DEF Fits, TypeOK, Locals, Service
<1>3. /\ tokens' = [tokens EXCEPT ![x] = [held |-> TRUE, id |-> loc[r].keep, response |-> loc[r].answer]]
      /\ lost' = lost /\ derivations' = derivations /\ issued' = issued /\ Run(r)
  BY DEF StoreToken, uasVars, historyVars, Run
<1>4. /\ tokens'[x].id = loc[r].keep /\ tokens'[x].response = loc[r].answer
      /\ \A y \in Sources \ {x} : tokens'[y] = tokens[y]
  BY <1>2, <1>3
<1>5. ResponsesAreCached'
  BY <1>1, <1>2, <1>4 DEF ResponsesAreCached, ExchangeIsCurrent
<1>6. \A d \in Issued : issued[d] \in Sources
  BY <1>1 DEF TypeOK, Issued
<1>7. \A d \in Issued : Current(d) /\ issued[d] # x => Remains(d)
  BY <1>2, <1>3, <1>4, <1>6 DEF Current, Remains
<1>8. ResourcesAreCurrent'
  <2> SUFFICES ASSUME NEW d \in derivations \cap Ids, d \notin lost
               PROVE  Remains(d)
    BY <1>3 DEF ResourcesAreCurrent, Current, Remains
  <2>1. d \in Issued /\ d # NoId
    BY <1>1, ResourcesAreIssued DEF Ids
  <2>2. CASE loc[r].keep = d
    BY <1>1, <1>3, <1>4, <2>1, <2>2 DEF ExchangedIsOfSource, Of, Current, Remains
  <2>3. CASE loc[r].keep # d
    <3>1. tokens[issued[d]].id = d
      <4>1. \A q \in Requests \ {r} : pc[q] = "idle"
        BY <1>3, NobodyElse DEF Sole
      <4> QED
        BY <1>1, <2>3, <4>1 DEF ResourcesAreCurrent, Current, At, Remains
    <3>2. issued[d] # x
      BY <1>1, <2>3, <3>1 DEF ExchangeIsCurrent
    <3> QED
      BY <1>7, <2>1, <3>1, <3>2 DEF Current, Remains
  <2> QED
    BY <2>2, <2>3
<1>9. loc[r].up.id # NoId => Remains(loc[r].up.id)
  <2> SUFFICES ASSUME loc[r].up.id # NoId PROVE Remains(loc[r].up.id)
    OBVIOUS
  <2>1. PICK j \in DOMAIN SourcesOf[Service(r)] :
             j < loc[r].i /\ issued[loc[r].up.id] = SourcesOf[Service(r)][j]
    BY <1>1 DEF EvidenceIsCurrent, Remains, Current
  <2>2. SourcesOf[Service(r)] \in Seq(Sources) /\ IsInjective(SourcesOf[Service(r)])
    BY <1>2 DEF SourcesAssumption, Sole
  <2>3. loc[r].i \in DOMAIN SourcesOf[Service(r)] /\ x = SourcesOf[Service(r)][loc[r].i] /\ j # loc[r].i
    BY <1>1, <1>2, <2>1, <2>2 DEF Last, Source, Fits
  <2>4. issued[loc[r].up.id] # x
    BY <2>1, <2>2, <2>3 DEF IsInjective
  <2>5. loc[r].up.id \in Issued /\ Current(loc[r].up.id)
    BY <1>1 DEF EvidenceIsOfService, Active, EvidenceIsCurrent, Remains, Current
  <2> QED
    BY <1>7, <2>4, <2>5
<1>10. ExchangeIsCurrent(r)' /\ EvidenceIsCurrent(r)'
  <2>1. loc[r].answer \in {NoId} \cup Ids
    BY <1>1 DEF Locals
  <2>2. loc[r].answer # NoId => loc[r].answer \in Issued' /\ issued'[loc[r].answer] = Source(r) /\ Remains(loc[r].answer)
    BY <1>1, <1>3, <1>4 DEF ExchangedIsOfSource, ExchangeIsCurrent, Of, Current, Issued, Remains
  <2>3. \/ Proceed(r) \/ GiveUp(r) \/ (loc[r].method = "HEAD" /\ Materialize(r))
        \/ (loc[r].method = "GET" /\ Staged(r, loc[r].answer) /\ ~Last(r))
    BY <1>2 DEF StoreToken
  <2> QED
    BY <1>1, <1>9, <2>1, <2>2, <2>3, ReadCurrent
<1> QED
  BY <1>5, <1>8, <1>10

\* The evidence becomes what the output is derived from.
LEMMA QueryOne ==
  ASSUME IInv, NEW r \in Requests, Query(r), Sole, Sole', OneEach, Grows
  PROVE  /\ ResponsesAreCached' /\ ResourcesAreCurrent'
         /\ ExchangeIsCurrent(r)' /\ EvidenceIsCurrent(r)'
<1>1. /\ TypeOK /\ loc[r] \in Locals /\ pc[r] = "next" /\ EvidenceIsCurrent(r) /\ EvidenceIsOfService(r)
  BY DEF IInv, TypeOK, Query, At, OneEach
<1>2. tokens' = tokens /\ lost' = lost /\ derivations' = derivations /\ issued' = issued /\ Run(r)
  BY DEF Query, uasVars, serverVars, historyVars, Run
<1>3. /\ ResponsesAreCached' /\ ResourcesAreCurrent'
      /\ \A d \in Issued : Current(d) => Remains(d)
  BY <1>1, <1>2, QuietStep DEF Current, Remains
<1>4. CASE End(r)
  <2>1. pc'[r] = "idle"
    BY <1>1, <1>4, EndFacts DEF TypeOK
  <2> QED
    BY <1>3, <2>1, Elsewhere
<1>5. CASE /\ loc' = [loc EXCEPT ![r].from = DerivationOf(r), ![r].up = NoEvidence]
           /\ Goto(r, IF loc[r].op = "create" THEN "register" ELSE "put")
  <2>1. pc'[r] \in {"register", "put"} /\ loc'[r] = [loc[r] EXCEPT !.from = DerivationOf(r), !.up = NoEvidence]
    BY <1>1, <1>5 DEF Goto, TypeOK
  <2>2. loc'[r].from = DerivationOf(r)
    BY <1>1, <2>1 DEF Locals
  <2>3. DerivationOf(r) \in Ids => Remains(DerivationOf(r))
    <3>1. Service(r) \in Services /\ Services \cap Ids = {} /\ NoId \notin Ids
      BY <1>1 DEF Locals, Service, ServicesAssumption, Ids, NoId
    <3>2. DerivationOf(r) \in Ids => DerivationOf(r) = loc[r].up.id /\ loc[r].up.id # NoId
      BY <3>1 DEF DerivationOf, Prefixed
    <3>3. loc[r].up.id # NoId => Remains(loc[r].up.id)
      BY <1>1, <1>3 DEF EvidenceIsCurrent, EvidenceIsOfService, Active
    <3> QED
      BY <3>2, <3>3
  <2>4. ExchangeIsCurrent(r)' /\ EvidenceIsCurrent(r)'
    BY <2>1, <2>2, <2>3 DEF ExchangeIsCurrent, EvidenceIsCurrent, Current, Remains
  <2> QED
    BY <1>3, <2>4
<1> QED
  BY <1>4, <1>5 DEF Query

\* The PUT brings nothing back that is not current.
LEMMA RegisterPutOne ==
  ASSUME IInv, NEW r \in Requests, RegisterOutput(r) \/ PutDerivation(r), Sole, Sole', OneEach, Grows
  PROVE  /\ ResponsesAreCached' /\ ResourcesAreCurrent'
         /\ ExchangeIsCurrent(r)' /\ EvidenceIsCurrent(r)'
<1>1. /\ TypeOK /\ loc[r] \in Locals /\ pc[r] \in {"register", "put"} /\ EvidenceIsCurrent(r)
      /\ ResponsesAreCached /\ ResourcesAreCurrent /\ EvidenceIsOfService(r)
  BY DEF IInv, TypeOK, RegisterOutput, PutDerivation, At, OneEach
<1>2. tokens' = tokens /\ lost' = lost /\ issued' = issued /\ Run(r)
  BY DEF RegisterOutput, PutDerivation, uasVars, serverVars, historyVars, Run
<1>3. ResponsesAreCached'
  BY <1>1, <1>2 DEF ResponsesAreCached
<1>4. loc[r].from \in Ids => Current(loc[r].from)
  BY <1>1 DEF EvidenceIsCurrent
<1>5. ResourcesAreCurrent'
  <2>1. \A d \in derivations \cap Ids : Current(d)
    <3>1. \A q \in Requests \ {r} : pc[q] = "idle"
      BY <1>2, NobodyElse DEF Sole
    <3> QED
      BY <1>1, <3>1 DEF ResourcesAreCurrent, At
  <2>2. derivations' = derivations \/ derivations' = derivations \cup {loc[r].from}
    BY DEF RegisterOutput, PutDerivation, uasVars
  <2> QED
    BY <1>2, <1>4, <2>1, <2>2 DEF ResourcesAreCurrent, Current
<1>6. CASE Goto(r, "put") /\ loc' = loc
  <2>1. pc'[r] = "put"
    BY <1>1, <1>6 DEF Goto, TypeOK
  <2>2. ExchangeIsCurrent(r)' /\ EvidenceIsCurrent(r)'
    BY <1>2, <1>4, <1>6, <2>1 DEF ExchangeIsCurrent, EvidenceIsCurrent, Current
  <2> QED
    BY <1>3, <1>5, <2>2
<1>7. CASE End(r) \/ Failed(r) \/ Goto(r, "update")
  <2>1. pc'[r] \in {"idle", "insert", "update"}
    BY <1>1, <1>7 DEF End, Failed, Goto, TypeOK
  <2> QED
    BY <1>3, <1>5, <2>1, Elsewhere
<1> QED
  BY <1>6, <1>7 DEF RegisterOutput, PutDerivation

\* The rest.
LEMMA OthersOne ==
  ASSUME IInv, NEW r \in Requests, Run(r), Sole, Sole', OneEach, Grows,
         \/ StillFresh(r) \/ UpdateOutput(r) \/ StoreDerivedFrom(r) \/ InsertService(r) \/ ReplaceService(r)
         \/ Recheck(r) \/ ServeOutput(r) \/ UnregisterOutput(r) \/ Cleanup(r) \/ DropService(r)
  PROVE  /\ ResponsesAreCached' /\ ResourcesAreCurrent'
         /\ ExchangeIsCurrent(r)' /\ EvidenceIsCurrent(r)'
<1>1. TypeOK
  BY DEF IInv
<1>2. CASE StillFresh(r) \/ UpdateOutput(r) \/ StoreDerivedFrom(r)
  <2>1. /\ tokens' = tokens /\ lost' = lost /\ derivations' = derivations /\ pc[r] # "store"
        /\ \E l \in {"serve", "commit", "insert"} : Goto(r, l)
    BY <1>2 DEF StillFresh, UpdateOutput, StoreDerivedFrom, Failed, At, uasVars, serverVars, historyVars
  <2>2. pc'[r] \in {"serve", "commit", "insert"}
    BY <1>1, <2>1 DEF Goto, TypeOK
  <2> QED
    BY <2>1, <2>2, QuietStep, Elsewhere
<1>3. CASE InsertService(r) \/ ReplaceService(r) \/ Recheck(r) \/ ServeOutput(r)
  <2>1. /\ tokens' = tokens /\ lost' = lost /\ derivations' = derivations /\ pc[r] # "store"
        /\ \E l \in {"idle", "serve", "recheck"} : Goto(r, l)
    BY <1>3 DEF InsertService, ReplaceService, Recheck, ServeOutput, End, At, uasVars, serverVars, historyVars
  <2>2. pc'[r] \in {"idle", "serve", "recheck"}
    BY <1>1, <2>1 DEF Goto, TypeOK
  <2> QED
    BY <2>1, <2>2, QuietStep, Elsewhere
<1>4. CASE UnregisterOutput(r) \/ Cleanup(r) \/ DropService(r)
  <2>1. /\ tokens' = tokens /\ lost' = lost /\ derivations' \subseteq derivations /\ pc[r] # "store"
        /\ \E l \in {"cleanup", "drop", "idle"} : Goto(r, l)
    BY <1>4 DEF UnregisterOutput, Cleanup, DropService, End, At, uasVars, serverVars, historyVars
  <2>2. pc'[r] \in {"cleanup", "drop", "idle"}
    BY <1>1, <2>1 DEF Goto, TypeOK
  <2> QED
    BY <2>1, <2>2, QuietStep, Elsewhere
<1> QED
  BY <1>2, <1>3, <1>4

\* A request begins without evidence.
LEMMA BeginsOne ==
  ASSUME IInv, NEW r \in Requests, Begins(r), Run(r), Sole, Sole', OneEach, Grows
  PROVE  /\ ResponsesAreCached' /\ ResourcesAreCurrent'
         /\ ExchangeIsCurrent(r)' /\ EvidenceIsCurrent(r)'
<1>1. pc[r] = "idle" /\ pc'[r] \in {"next", "unregister"} /\ loc'[r].up = NoEvidence
  BY BeginsFacts
<1>2. tokens' = tokens /\ lost' = lost /\ derivations' = derivations
  BY DEF Begins, CreateService, GetOutput, DeleteService, Begin, uasVars
<1>3. loc'[r].up.id = NoId
  BY <1>1 DEF NoEvidence
<1>4. ExchangeIsCurrent(r)' /\ EvidenceIsCurrent(r)'
  BY <1>1, <1>3 DEF ExchangeIsCurrent, EvidenceIsCurrent
<1> QED
  BY <1>1, <1>2, <1>4, QuietStep

\* All steps.
LEMMA OneEachStep ==
  ASSUME IInv, OneEach, NEW r \in Requests, Run(r)
  PROVE  OneEach'
<1> SUFFICES ASSUME Sole' PROVE OneEach'
  BY DEF OneEach
<1>1. Grows
  BY GrowsStep
<1>2. Sole
  BY <1>1, HistoryStep DEF IInv, Sole, Grows
<1>3. \A q \in Requests \ {r} : ExchangeIsCurrent(q)' /\ EvidenceIsCurrent(q)'
  BY NobodyElse DEF Sole, ExchangeIsCurrent, EvidenceIsCurrent
<1> SUFFICES /\ ResponsesAreCached' /\ ResourcesAreCurrent'
             /\ ExchangeIsCurrent(r)' /\ EvidenceIsCurrent(r)'
  BY <1>3 DEF OneEach
<1>4. CASE DiscoveryFails(r)
  <2>1. /\ pc[r] = "json" /\ GiveUp(r)
        /\ tokens' = tokens /\ lost' = lost /\ derivations' = derivations
    BY <1>4 DEF DiscoveryFails, At, uasVars, serverVars, historyVars
  <2>2. /\ ResponsesAreCached' /\ ResourcesAreCurrent'
        /\ \A d \in Issued : Current(d) => Remains(d)
    BY <1>1, <1>2, <2>1, QuietStep DEF Current, Remains
  <2>3. EvidenceIsCurrent(r) /\ EvidenceIsOfService(r)
    BY <1>2 DEF OneEach, IInv
  <2>4. loc[r].up.id # NoId => Remains(loc[r].up.id)
    BY <2>1, <2>2, <2>3 DEF EvidenceIsCurrent, EvidenceIsOfService, Active
  <2>5. NoId \in {NoId} \cup Ids
    OBVIOUS
  <2> QED
    BY <1>1, <2>1, <2>2, <2>3, <2>4, <2>5, ReadCurrent
<1>5. CASE AskSource(r) \/ Exchange(r) \/ KeepId(r) \/ StoreToken(r)
  BY <1>1, <1>2, <1>5, AskSourceOne, ExchangeOne, KeepIdOne, StoreTokenOne
<1>6. CASE Query(r) \/ RegisterOutput(r) \/ PutDerivation(r)
  BY <1>1, <1>2, <1>6, QueryOne, RegisterPutOne
<1>7. CASE \/ StillFresh(r) \/ UpdateOutput(r) \/ StoreDerivedFrom(r) \/ InsertService(r) \/ ReplaceService(r)
           \/ Recheck(r) \/ ServeOutput(r) \/ UnregisterOutput(r) \/ Cleanup(r) \/ DropService(r)
  BY <1>1, <1>2, <1>7, OthersOne
<1>8. CASE Begins(r)
  BY <1>1, <1>2, <1>8, BeginsOne
<1> QED
  BY <1>4, <1>5, <1>6, <1>7, <1>8 DEF Run, Begins

\* While requests come one at a time, a UAS that honours the id it is sent has
\* one derivation resource for each source: the one that is cached or about to
\* be, besides those whose answer was lost (obtainUpstreamRPT).
THEOREM OneForEachSource == Spec => []OneDerivationPerSource
<1>1. Init => OneEach
  BY DEF Init, OneEach, ResponsesAreCached, ResourcesAreCurrent, ExchangeIsCurrent, EvidenceIsCurrent, NoToken
<1>2. IInv /\ OneEach /\ [Next]_vars => OneEach'
  <2> SUFFICES ASSUME IInv, OneEach, [Next]_vars PROVE OneEach'
    OBVIOUS
  <2>1. CASE \E r \in Requests : Run(r)
    BY <2>1, OneEachStep
  <2>2. CASE UNCHANGED <<uasVars, tokens, pc, loc, historyVars>>
    BY <2>2 DEF uasVars, historyVars, OneEach, Sole, ResponsesAreCached, ResourcesAreCurrent,
                ExchangeIsCurrent, EvidenceIsCurrent, Current, At, Source, Service
  <2>3. CASE AccountCall
    BY <2>2, <2>3 DEF AccountCall
  <2>4. CASE UNCHANGED vars
    BY <2>2, <2>4 DEF vars, serverVars
  <2> QED
    BY <2>1, <2>3, <2>4 DEF Next
<1>3. OneEach => OneDerivationPerSource
  BY DEF OneEach, Sole, ResourcesAreCurrent, Current, OneDerivationPerSource
<1> QED
  BY <1>1, <1>2, <1>3, Invariance, PTL DEF Spec
=============================================================================
