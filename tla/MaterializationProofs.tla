------------------------- MODULE MaterializationProofs -------------------------
(***************************************************************************)
(* Theorems about Materialization, for every set of requests, services and *)
(* sources, any of which may be tagged, protected, both or neither, and    *)
(* whatever calls fail.                                                    *)
(***************************************************************************)
EXTENDS Materialization, TLAPS

USE SourcesAssumption, ModeAssumption, BoundsAssumption

Active(r) == pc[r] # "idle"

Recorded(r) == DOMAIN loc[r].copy.etags

\* Where a request has a copy of what is known of the output, and compares it
\* with the sources.
Checking(r) ==
  \/ pc[r] \in {"stat", "validate", "head"}
  \/ pc[r] \in {"exchange", "keep", "retry"} /\ loc[r].method = "HEAD"

\* It has found an output that was made from all sources.
Validating(r) == Checking(r) /\ pc[r] # "stat"

\* A materialization is at work on a source that it has not recorded.
Fetching(r) == pc[r] \in {"cached", "exchange", "keep", "retry", "stage"} /\ loc[r].method = "GET"

\* What a request does fits what it was asked for.
Fits(r) ==
  /\ Active(r) => Service(r) \in reserved /\ loc[r].op # "none"
  /\ Checking(r) \/ pc[r] = "serve" => loc[r].op = "output"
  /\ pc[r] \in {"next", "stage", "load", "write", "store", "cached", "serve", "stat", "validate"} =>
       loc[r].method = "GET"
  /\ pc[r] = "head" => loc[r].method = "HEAD"
  /\ pc[r] = "cached" => Source(r) \in Protected
  /\ Validating(r) =>
       /\ Recorded(r) = SourcesOf[Service(r)]
       /\ loc[r].todo \subseteq Recorded(r)
       /\ pc[r] # "validate" => Source(r) \in loc[r].todo

TypeInv == TypeOK /\ \A r \in Requests : Fits(r)

\* The output has one name if it was made from sources, and another if not.
PathFits(k) == DOMAIN k.etags # {} => k.path = "output"

\* The ETags are those of versions that the sources have had.
ETagsWere(k) ==
  \A x \in DOMAIN k.etags :
    IF x \in Tagged THEN k.etags[x] \in 1 .. version[x] ELSE k.etags[x] = NoETag

KnownFits(k) == PathFits(k) /\ ETagsWere(k)

HasCopy(r) == Checking(r) \/ Materializing(r) \/ pc[r] = "serve"

KnownIsPast ==
  /\ \A s \in DOMAIN services : KnownFits(services[s])
  /\ \A r \in Requests : HasCopy(r) => KnownFits(loc[r].copy)

\* The history of a request lies in the past.
HistoryIsPast ==
  \A r \in Requests : (\A x \in Tagged : since[r][x] <= version[x]) /\ barred[r] \cap allowed = {}

\* Version v of source x is in the output of s, or may get there without another
\* request to the source, or could not be loaded into it.
Holds(s, x, v) ==
  \/ \E f \in DOMAIN output[s] : <<x, v>> \in output[s][f].data
  \/ <<x, v>> \in store[s] \/ <<x, v>> \in unloaded[s]
  \/ x \in DOMAIN staged[s] /\ staged[s][x] = v
  \/ \E r \in Requests :
       pc[r] \in {"stage", "load"} /\ Service(r) = s /\ Source(r) = x /\ loc[r].body = v

HeldIsPast ==
  \A s \in Services : \A x, v : Holds(s, x, v) => x \in SourcesOf[s] /\ v <= version[x]

\* In a materialization a source is recorded, in hand, left to do or left out.
SourcesFit(r) ==
  Materializing(r) =>
    LET s == Service(r) IN
    /\ Recorded(r) \subseteq SourcesOf[s] /\ loc[r].todo \subseteq SourcesOf[s] \ Recorded(r)
    /\ At(r, "load") => Source(r) \in Recorded(r)
    /\ pc[r] \in {"write", "store"} => loc[r].todo = {}
    /\ At(r, "write") => Recorded(r) # {}
    /\ Fetching(r) => Source(r) \in SourcesOf[s] \ (Recorded(r) \cup loc[r].todo)
    /\ loc[r].copy.path = IF At(r, "store") /\ Recorded(r) = {} THEN "empty" ELSE "output"

\* Two requests that materialize a service have its directories mingled.
AloneInDirectories ==
  \A r, q \in Requests :
    (Materializing(r) /\ Materializing(q) /\ Service(r) = Service(q)) => r = q \/ mingled[Service(r)]

\* What is staged is what has been recorded.
StagedFits(r, s) ==
  /\ DOMAIN staged[s] = Recorded(r)
  /\ \A x \in Recorded(r) : loc[r].copy.etags[x] = ETag(x, staged[s][x])
  /\ At(r, "load") => staged[s][Source(r)] = loc[r].body

\* All of it was loaded, but for what oxigraph failed to load and what is next.
StoreFits(r, s) ==
  /\ \A x, v : <<x, v>> \in store[s] \cup unloaded[s] => x \in Recorded(r) /\ v = staged[s][x]
  /\ \A x \in Recorded(r) :
       (At(r, "load") /\ x = Source(r)) \/ <<x, staged[s][x]>> \in store[s] \cup unloaded[s]

\* There is no output before the last steps, which write the contents of the store.
OutputFits(r, s) ==
  IF pc[r] \in {"write", "store"}
  THEN /\ DOMAIN output[s] = {loc[r].copy.path}
       /\ output[s][loc[r].copy.path] =
            [data |-> store[s], writers |-> IF At(r, "write") THEN {r} ELSE {}]
  ELSE DOMAIN output[s] = {}

DirectoriesFit(r) ==
  \A s \in Services : (Materializing(r) /\ Service(r) = s /\ ~mingled[s]) =>
    StagedFits(r, s) /\ StoreFits(r, s) /\ OutputFits(r, s)

\* The data of a service is not older than the ETags of k.
NotOlder(s, k) ==
  \A x \in Tagged \cap DOMAIN k.etags : \A v : Holds(s, x, v) => v >= k.etags[x]

KnownIsNotNewer ==
  /\ \A s \in DOMAIN services : mingled[s] \/ NotOlder(s, services[s])
  /\ \A r \in Requests : Checking(r) => mingled[Service(r)] \/ NotOlder(Service(r), loc[r].copy)

\* What a request that validates has found so far.
Validated(r) ==
  Validating(r) =>
    \A x \in (Tagged \cap Recorded(r)) \ loc[r].todo :
      loc[r].copy.etags[x] >= since[r][x] /\ x \notin barred[r]

\* Version v of source x may be served to r.
Admits(r, x, v) == x \in Tagged => v >= since[r][x] /\ x \notin barred[r]

AdmitsHeld(r) ==
  (Materializing(r) \/ pc[r] = "serve") =>
    mingled[Service(r)] \/ \A x, v : Holds(Service(r), x, v) => Admits(r, x, v)

\* A source was left out of a materialization.
Gap(r) ==
  \E x \in SourcesOf[Service(r)] :
    x \notin Recorded(r) \cup loc[r].todo /\ ~(Fetching(r) /\ x = Source(r))

GapsAreKnown ==
  \A p \in Requests : Materializing(p) /\ Gap(p) =>
    \A r \in Requests : Active(r) /\ Service(r) = Service(p) => failed[r]

\* An output that is there in full has data of every source but those that could
\* not be loaded.
Covered(s) ==
  "output" \in DOMAIN output[s] /\ output[s]["output"].writers = {} =>
    \A x \in SourcesOf[s] : \E d \in output[s]["output"].data \cup unloaded[s] : d[1] = x

\* A request that has met no failure, and has not found a source missing from what
\* is known of the output, finds none missing in the output.
CoveredUnlessFailed(r) ==
  ~failed[r] =>
    /\ pc[r] = "serve" => loc[r].copy.path = "output"
    /\ pc[r] = "serve" \/ (Checking(r) /\ Recorded(r) = SourcesOf[Service(r)]) =>
         mingled[Service(r)] \/ Covered(Service(r))

\* The inductive invariant: what a request relies on in the directories holds as
\* long as they are not mingled.
IInv ==
  /\ TypeInv
  /\ HistoryIsPast /\ KnownIsPast /\ HeldIsPast /\ GapsAreKnown
  /\ AloneInDirectories /\ KnownIsNotNewer /\ ETagsDescribeOutput
  /\ \A r \in Requests :
       /\ SourcesFit(r) /\ DirectoriesFit(r)
       /\ Validated(r) /\ AdmitsHeld(r) /\ CoveredUnlessFailed(r)
-----------------------------------------------------------------------------
(***************************************************************************)
(* The parts of the types.                                                 *)
(***************************************************************************)
ETagMaps == UNION {[X -> Versions \cup {NoETag}] : X \in SUBSET Sources}

Locals ==
  [op : {"none", "create", "output"}, service : Services, copy : Known,
   method : {"GET", "HEAD"}, source : Sources, token : Tokens \cup {NoToken},
   body : Versions \cup {0}, todo : SUBSET Sources]

\* ETags are kept for sources.
LEMMA ETagMapsAre ==
  /\ \A e \in ETagMaps : /\ DOMAIN e \subseteq Sources
                         /\ \A x \in DOMAIN e : e[x] \in Versions \cup {NoETag}
                         /\ e = [x \in DOMAIN e |-> e[x]]
  /\ \A X \in SUBSET Sources : \A e \in [X -> Versions \cup {NoETag}] : e \in ETagMaps
  BY DEF ETagMaps

LEMMA AssignETag ==
  ASSUME NEW e \in ETagMaps, NEW x \in Sources, NEW v \in Versions \cup {NoETag}
  PROVE  /\ Assign(e, x, v) \in ETagMaps
         /\ DOMAIN Assign(e, x, v) = DOMAIN e \cup {x}
         /\ Assign(e, x, v)[x] = v
         /\ \A y \in DOMAIN e : y # x => Assign(e, x, v)[y] = e[y]
<1>1. DOMAIN e \in SUBSET Sources /\ \A y \in DOMAIN e : e[y] \in Versions \cup {NoETag}
  BY ETagMapsAre
<1>2. Assign(e, x, v) \in [DOMAIN e \cup {x} -> Versions \cup {NoETag}]
  BY <1>1 DEF Assign
<1>3. DOMAIN e \cup {x} \in SUBSET Sources
  BY <1>1
<1>4. Assign(e, x, v) \in ETagMaps
  BY <1>2, <1>3, ETagMapsAre
<1> QED
  BY <1>4 DEF Assign

LEMMA KnownIs ==
  /\ Known = [etags : ETagMaps, path : Paths]
  /\ Unknown \in Known /\ DOMAIN Unknown.etags = {} /\ Unknown.path = "output"
<1>1. Known = [etags : ETagMaps, path : Paths]
  BY DEF Known, ETagMaps
<1>2. EmptyMap \in [{} -> Versions \cup {NoETag}] /\ DOMAIN EmptyMap = {}
  BY DEF EmptyMap
<1>3. EmptyMap \in ETagMaps
  BY <1>2, ETagMapsAre
<1> QED
  BY <1>1, <1>2, <1>3 DEF Unknown, Paths

LEMMA IdleIs ==
  /\ Idle \in Locals
  /\ Idle.op = "none" /\ Idle.copy = Unknown /\ Idle.method = "GET" /\ Idle.source \in Sources
  /\ Idle.token = NoToken /\ Idle.body = 0 /\ Idle.todo = {}
<1>1. (CHOOSE s \in Services : TRUE) \in Services
  OBVIOUS
<1>2. (CHOOSE x \in Sources : TRUE) \in Sources
  <2>1. PICK s \in Services : TRUE
    OBVIOUS
  <2>2. SourcesOf[s] \subseteq Sources /\ SourcesOf[s] # {}
    OBVIOUS
  <2> QED
    BY <2>2
<1> DEFINE aService == CHOOSE s \in Services : TRUE
           aSource == CHOOSE x \in Sources : TRUE
<1> HIDE DEF aService, aSource
<1>3. Idle = [op |-> "none", service |-> aService, copy |-> Unknown, method |-> "GET",
              source |-> aSource, token |-> NoToken, body |-> 0, todo |-> {}]
  BY DEF Idle, aService, aSource
<1>4. aService \in Services /\ aSource \in Sources
  BY <1>1, <1>2 DEF aService, aSource
<1> QED
  BY <1>3, <1>4, KnownIs DEF Locals, NoToken

\* The types of the locals.
LEMMA LocalTypes ==
  ASSUME TypeOK
  PROVE  /\ loc \in [Requests -> Locals]
         /\ \A r \in Requests :
              /\ loc[r] \in Locals /\ Service(r) \in Services /\ Source(r) \in Sources
              /\ loc[r].copy \in Known
              /\ loc[r].copy.etags \in ETagMaps /\ loc[r].copy.path \in Paths
              /\ Recorded(r) \subseteq Sources /\ loc[r].todo \subseteq Sources
<1>1. loc \in [Requests -> Locals]
  BY DEF TypeOK, Locals
<1>2. ASSUME NEW r \in Requests
      PROVE  /\ loc[r] \in Locals /\ loc[r].service \in Services /\ loc[r].source \in Sources
             /\ loc[r].copy \in Known /\ loc[r].todo \subseteq Sources
  BY <1>1 DEF Locals
<1>3. ASSUME NEW r \in Requests
      PROVE  loc[r].copy.etags \in ETagMaps /\ loc[r].copy.path \in Paths
  BY <1>2, KnownIs
<1> QED
  BY <1>1, <1>2, <1>3, ETagMapsAre DEF Service, Source, Recorded

\* Back from the function that asked a source.
LEMMA ReturnIs ==
  ASSUME TypeOK, NEW r \in Requests, NEW X \in SUBSET Sources
  PROVE  LET l == [Return(r) EXCEPT !.todo = X] IN
         /\ Return(r) \in Locals /\ l \in Locals
         /\ Return(r).todo = loc[r].todo /\ l.todo = X
         /\ l.op = loc[r].op /\ l.service = Service(r) /\ l.copy = loc[r].copy
         /\ l.method = "GET" /\ l.token = NoToken /\ l.body = 0
         /\ Return(r).op = loc[r].op /\ Return(r).service = Service(r)
         /\ Return(r).copy = loc[r].copy /\ Return(r).method = "GET"
  BY LocalTypes, IdleIs DEF Return, Locals, Service, NoToken
-----------------------------------------------------------------------------
(***************************************************************************)
(* What a step does to a request.                                          *)
(***************************************************************************)
\* r is at label l afterwards, and no other request has moved.
Becomes(r, l) ==
  /\ pc' = [pc EXCEPT ![r] = l]
  /\ loc' = [loc EXCEPT ![r] = loc'[r]]
  /\ loc'[r] \in Locals

\* ... with the same thing to do.
Continues(r, l) ==
  /\ Becomes(r, l)
  /\ loc'[r].op = loc[r].op /\ loc'[r].service = loc[r].service

LEMMA BecomesIs ==
  ASSUME TypeOK, NEW r \in Requests, NEW l \in Labels, Becomes(r, l)
  PROVE  /\ pc' \in [Requests -> Labels] /\ loc' \in [Requests -> Locals]
         /\ pc'[r] = l
         /\ \A q \in Requests \ {r} : pc'[q] = pc[q] /\ loc'[q] = loc[q]
  BY LocalTypes DEF Becomes, TypeOK

LEMMA GoesOn ==
  ASSUME TypeOK, NEW r \in Requests, NEW l \in Labels, Goto(r, l), UNCHANGED loc
  PROVE  Continues(r, l) /\ loc'[r] = loc[r]
  BY LocalTypes DEF Continues, Becomes, Goto

LEMMA BeginIs ==
  ASSUME TypeOK, NEW r \in Requests, NEW s \in Services, NEW op \in {"create", "output"},
         NEW copy \in Known, NEW l \in Labels, Begin(r, s, op, copy, l)
  PROVE  /\ Becomes(r, l)
         /\ loc'[r].op = op /\ loc'[r].service = s /\ loc'[r].copy = copy
         /\ loc'[r].method = "GET" /\ loc'[r].todo = {}
<1> DEFINE m == [Idle EXCEPT !.op = op, !.service = s, !.copy = copy]
<1>1. /\ m \in Locals /\ m.op = op /\ m.service = s /\ m.copy = copy
      /\ m.method = "GET" /\ m.todo = {}
  BY IdleIs DEF Locals
<1> HIDE DEF m
<1>2. loc' = [loc EXCEPT ![r] = m] /\ pc' = [pc EXCEPT ![r] = l]
  BY DEF Begin, Goto, m
<1> QED
  BY <1>1, <1>2, LocalTypes DEF Becomes

LEMMA AnswerIs ==
  ASSUME TypeOK, NEW r \in Requests, Answer(r)
  PROVE  Becomes(r, "idle") /\ loc'[r] = Idle
  BY LocalTypes, IdleIs DEF Answer, Goto, Becomes

LEMMA AbandonIs ==
  ASSUME TypeOK, NEW r \in Requests, Abandon(r)
  PROVE  Becomes(r, "idle") /\ loc'[r] = Idle /\ Fail(r)
  BY AnswerIs DEF Abandon

LEMMA SkipIs ==
  ASSUME TypeOK, NEW r \in Requests, NEW x, Skip(r, x)
  PROVE  /\ Continues(r, "next")
         /\ loc'[r].copy = loc[r].copy /\ loc'[r].method = "GET"
         /\ loc'[r].todo = loc[r].todo \ {x}
<1> DEFINE m == [Return(r) EXCEPT !.todo = loc[r].todo \ {x}]
<1>1. loc[r].todo \ {x} \in SUBSET Sources
  BY LocalTypes
<1>2. /\ m \in Locals /\ m.op = loc[r].op /\ m.service = loc[r].service
      /\ m.copy = loc[r].copy /\ m.method = "GET" /\ m.todo = loc[r].todo \ {x}
      /\ Return(r).todo = loc[r].todo /\ Return(r) \in Locals
  BY <1>1, ReturnIs DEF Service
<1>3. loc' = [loc EXCEPT ![r] = [Return(r) EXCEPT !.todo = @ \ {x}]] /\ pc' = [pc EXCEPT ![r] = "next"]
  BY DEF Skip, Goto
<1>4. loc' = [loc EXCEPT ![r] = m]
  BY <1>2, <1>3
<1> HIDE DEF m
<1> QED
  BY <1>2, <1>3, <1>4, LocalTypes DEF Continues, Becomes

LEMMA ReceivedIs ==
  ASSUME TypeOK, NEW r \in Requests, NEW x \in Sources, Received(r, x)
  PROVE  /\ Continues(r, "stage")
         /\ loc'[r].copy = loc[r].copy /\ loc'[r].method = "GET"
         /\ loc'[r].source = x /\ loc'[r].body = version[x]
         /\ loc'[r].todo = loc[r].todo \ {x}
<1> DEFINE m == [loc[r] EXCEPT !.method = "GET", !.source = x, !.body = version[x],
                               !.todo = loc[r].todo \ {x}]
<1>1. loc[r] \in Locals /\ version[x] \in Versions
  BY LocalTypes DEF TypeOK
<1>2. /\ m \in Locals /\ m.op = loc[r].op /\ m.service = loc[r].service
      /\ m.copy = loc[r].copy /\ m.method = "GET" /\ m.todo = loc[r].todo \ {x}
      /\ m.source = x /\ m.body = version[x]
  BY <1>1 DEF Locals
<1>3. loc' = [loc EXCEPT ![r].method = "GET", ![r].source = x, ![r].body = version[x],
                        ![r].todo = @ \ {x}] /\ pc' = [pc EXCEPT ![r] = "stage"]
  BY DEF Received, Goto
<1>4. loc' = [loc EXCEPT ![r] = m]
  BY <1>1, <1>3, LocalTypes DEF Locals
<1> HIDE DEF m
<1> QED
  BY <1>2, <1>3, <1>4, LocalTypes DEF Continues, Becomes

LEMMA CompareIs ==
  ASSUME TypeOK, NEW r \in Requests, Compare(r)
  PROVE  \/ /\ version[Source(r)] = loc[r].copy.etags[Source(r)]
            /\ Continues(r, "validate")
            /\ loc'[r].copy = loc[r].copy /\ loc'[r].method = "GET"
            /\ loc'[r].todo = loc[r].todo \ {Source(r)}
         \/ Continues(r, "clear") /\ loc'[r] = loc[r]
<1> DEFINE m == [Return(r) EXCEPT !.todo = loc[r].todo \ {Source(r)}]
<1>1. CASE version[Source(r)] = loc[r].copy.etags[Source(r)]
  <2>1. loc[r].todo \ {Source(r)} \in SUBSET Sources
    BY LocalTypes
  <2>2. /\ m \in Locals /\ m.op = loc[r].op /\ m.service = loc[r].service
        /\ m.copy = loc[r].copy /\ m.method = "GET" /\ m.todo = loc[r].todo \ {Source(r)}
        /\ Return(r).todo = loc[r].todo /\ Return(r) \in Locals
    BY <2>1, ReturnIs DEF Service
  <2>3. loc' = [loc EXCEPT ![r] = [Return(r) EXCEPT !.todo = @ \ {Source(r)}]]
        /\ pc' = [pc EXCEPT ![r] = "validate"]
    BY <1>1 DEF Compare, Goto
  <2>4. loc' = [loc EXCEPT ![r] = m]
    BY <2>2, <2>3
  <2> HIDE DEF m
  <2> QED
    BY <1>1, <2>2, <2>3, <2>4, LocalTypes DEF Continues, Becomes
<1>2. CASE version[Source(r)] # loc[r].copy.etags[Source(r)]
  BY <1>2, GoesOn DEF Compare, Labels
<1> QED
  BY <1>1, <1>2

LEMMA HeadFailsIs ==
  ASSUME TypeOK, NEW r \in Requests, HeadFails(r)
  PROVE  \/ Becomes(r, "idle") /\ loc'[r] = Idle
         \/ Continues(r, "clear") /\ loc'[r] = loc[r]
  BY AbandonIs, GoesOn DEF HeadFails, Labels
-----------------------------------------------------------------------------
(***************************************************************************)
(* The actions, as far as they concern the request alone.                  *)
(***************************************************************************)
\* The request is asked for something.
LEMMA ReserveIs ==
  ASSUME TypeOK, NEW r \in Requests, Reserve(r)
  PROVE  /\ Becomes(r, "clear") /\ Service(r)' \in Services \ reserved
         /\ loc'[r].op = "create" /\ loc'[r].copy = Unknown
         /\ loc'[r].method = "GET" /\ loc'[r].todo = {}
         /\ Begin(r, Service(r)', "create", Unknown, "clear")
         /\ reserved' = reserved \cup {Service(r)'}
<1>1. PICK s \in Services \ reserved :
        Begin(r, s, "create", Unknown, "clear") /\ reserved' = reserved \cup {s}
  BY DEF Reserve
<1>2. /\ Becomes(r, "clear") /\ loc'[r].service = s
      /\ loc'[r].op = "create" /\ loc'[r].copy = Unknown
      /\ loc'[r].method = "GET" /\ loc'[r].todo = {}
  BY <1>1, BeginIs, KnownIs DEF Labels
<1> QED
  BY <1>1, <1>2 DEF Service

LEMMA LookupIs ==
  ASSUME TypeOK, NEW r \in Requests, Lookup(r)
  PROVE  /\ Becomes(r, "stat") /\ Service(r)' \in DOMAIN services
         /\ loc'[r].op = "output" /\ loc'[r].copy = services[Service(r)']
         /\ loc'[r].method = "GET" /\ loc'[r].todo = {}
         /\ Begin(r, Service(r)', "output", services[Service(r)'], "stat")
         /\ reserved' = reserved
<1>1. PICK s \in DOMAIN services :
        Begin(r, s, "output", services[s], "stat") /\ reserved' = reserved
  BY DEF Lookup
<1>2. s \in Services /\ services[s] \in Known
  BY DEF TypeOK
<1>3. /\ Becomes(r, "stat") /\ loc'[r].service = s
      /\ loc'[r].op = "output" /\ loc'[r].copy = services[s]
      /\ loc'[r].method = "GET" /\ loc'[r].todo = {}
  BY <1>1, <1>2, BeginIs DEF Labels
<1> QED
  BY <1>1, <1>3 DEF Service

\* What is known of the output is compared with the sources.
LEMMA StatIs ==
  ASSUME TypeOK, NEW r \in Requests, Stat(r)
  PROVE  /\ pc[r] = "stat"
         /\ \/ Outdated(r) /\ Continues(r, "clear") /\ loc'[r] = loc[r]
            \/ /\ ~Outdated(r) /\ Continues(r, "validate")
               /\ loc'[r].copy = loc[r].copy /\ loc'[r].method = loc[r].method
               /\ loc'[r].todo = {x \in Recorded(r) : loc[r].copy.etags[x] # NoETag}
<1> DEFINE X == {x \in Recorded(r) : loc[r].copy.etags[x] # NoETag}
           m == [loc[r] EXCEPT !.todo = X]
<1>1. CASE Outdated(r)
  BY <1>1, GoesOn DEF Stat, Labels, At
<1>2. CASE ~Outdated(r)
  <2>1. loc[r] \in Locals /\ X \subseteq Sources
    BY LocalTypes
  <2>2. /\ m \in Locals /\ m.op = loc[r].op /\ m.service = loc[r].service
        /\ m.copy = loc[r].copy /\ m.method = loc[r].method /\ m.todo = X
    BY <2>1 DEF Locals
  <2>3. loc' = [loc EXCEPT ![r].todo = X] /\ pc' = [pc EXCEPT ![r] = "validate"]
    BY <1>2 DEF Stat, Goto, Recorded
  <2>4. loc' = [loc EXCEPT ![r] = m]
    BY <2>3
  <2> HIDE DEF m
  <2> QED
    BY <1>2, <2>2, <2>3, <2>4, LocalTypes DEF Continues, Becomes, Stat, At
<1> QED
  BY <1>1, <1>2

LEMMA ValidateIs ==
  ASSUME TypeOK, NEW r \in Requests, Validate(r)
  PROVE  /\ pc[r] = "validate"
         /\ \/ loc[r].todo = {} /\ Continues(r, "serve") /\ loc'[r] = loc[r]
            \/ /\ Continues(r, "head") /\ Source(r)' \in loc[r].todo
               /\ loc'[r].copy = loc[r].copy /\ loc'[r].method = "HEAD"
               /\ loc'[r].todo = loc[r].todo
<1>1. CASE loc[r].todo = {}
  BY <1>1, GoesOn DEF Validate, Labels, At
<1>2. CASE loc[r].todo # {}
  <2>1. PICK x \in loc[r].todo :
          loc' = [loc EXCEPT ![r].method = "HEAD", ![r].source = x, ![r].token = tokens[x]]
    BY <1>2 DEF Validate
  <2> DEFINE m == [loc[r] EXCEPT !.method = "HEAD", !.source = x, !.token = tokens[x]]
  <2>2. loc[r] \in Locals /\ x \in Sources /\ tokens[x] \in Tokens \cup {NoToken}
    BY LocalTypes DEF TypeOK
  <2>3. /\ m \in Locals /\ m.op = loc[r].op /\ m.service = loc[r].service /\ m.source = x
        /\ m.copy = loc[r].copy /\ m.method = "HEAD" /\ m.todo = loc[r].todo
    BY <2>2 DEF Locals
  <2>4. loc' = [loc EXCEPT ![r] = m]
    BY <2>1, <2>2, LocalTypes DEF Locals
  <2>5. pc[r] = "validate" /\ pc' = [pc EXCEPT ![r] = "head"]
    BY <1>2 DEF Validate, Goto, At
  <2> HIDE DEF m
  <2> QED
    BY <2>3, <2>4, <2>5, LocalTypes DEF Continues, Becomes, Source
<1> QED
  BY <1>1, <1>2

\* The answer to a request for the ETag, from a source that may be read then.
Compared(r) ==
  \/ /\ version[Source(r)] = loc[r].copy.etags[Source(r)]
     /\ Source(r) \notin Protected \ allowed
     /\ Continues(r, "validate")
     /\ loc'[r].copy = loc[r].copy /\ loc'[r].method = "GET"
     /\ loc'[r].todo = loc[r].todo \ {Source(r)}
  \/ Continues(r, "clear") /\ loc'[r] = loc[r]

LEMMA HeadIs ==
  ASSUME TypeOK, NEW r \in Requests, Head(r)
  PROVE  /\ pc[r] = "head"
         /\ \/ Compared(r) /\ UNCHANGED failed
            \/ Source(r) \in Protected /\ Continues(r, "exchange") /\ loc'[r] = loc[r] /\ UNCHANGED failed
            \/ Becomes(r, "idle") /\ loc'[r] = Idle /\ Fail(r)
            \/ Continues(r, "clear") /\ loc'[r] = loc[r] /\ Fail(r)
<1>1. CASE Readable(Source(r), loc[r].token) /\ Compare(r) /\ UNCHANGED failed
  BY <1>1, CompareIs DEF Head, Compared, Readable, At
<1>2. CASE ~Readable(Source(r), loc[r].token) /\ Goto(r, "exchange") /\ UNCHANGED <<loc, failed>>
  BY <1>2, GoesOn DEF Head, Readable, Labels, At
<1>3. CASE Abandon(r)
  BY <1>3, AbandonIs DEF Head, Abandon, At
<1>4. CASE Goto(r, "clear") /\ Fail(r) /\ UNCHANGED loc
  BY <1>4, GoesOn DEF Head, Labels, At
<1> QED
  BY <1>1, <1>2, <1>3, <1>4 DEF Head, HeadFails

\* A source was skipped or received.
Skips(r, x) ==
  /\ Continues(r, "next") /\ Fail(r)
  /\ loc'[r].copy = loc[r].copy /\ loc'[r].method = "GET"
  /\ loc'[r].todo = loc[r].todo \ {x}

Receives(r, x) ==
  /\ Continues(r, "stage") /\ UNCHANGED failed
  /\ x \notin Protected \ allowed
  /\ loc'[r].copy = loc[r].copy /\ loc'[r].method = "GET"
  /\ loc'[r].source = x /\ loc'[r].body = version[x]
  /\ loc'[r].todo = loc[r].todo \ {x}

LEMMA FetchIs ==
  ASSUME TypeOK, NEW r \in Requests, Fetch(r)
  PROVE  /\ pc[r] = "next"
         /\ \E x \in loc[r].todo :
              \/ Receives(r, x)
              \/ Skips(r, x)
              \/ /\ x \in Protected /\ UNCHANGED failed
                 /\ Continues(r, IF tokens[x] = NoToken THEN "exchange" ELSE "cached")
                 /\ loc'[r].copy = loc[r].copy /\ loc'[r].method = "GET"
                 /\ loc'[r].source = x /\ loc'[r].todo = loc[r].todo \ {x}
                 /\ tokens[x] # NoToken => loc'[r].token # NoToken
<1>1. pc[r] = "next"
  BY DEF Fetch, At
<1>2. PICK x \in loc[r].todo :
       \/ x \notin Protected /\ Received(r, x) /\ UNCHANGED failed
       \/ /\ x \in Protected
          /\ loc' = [loc EXCEPT ![r].method = "GET", ![r].source = x, ![r].token = tokens[x],
                                ![r].todo = @ \ {x}]
          /\ Goto(r, IF tokens[x] = NoToken THEN "exchange" ELSE "cached")
          /\ UNCHANGED failed
       \/ MayFail("source") /\ Skip(r, x)
  BY DEF Fetch
<1>3. x \in Sources
  BY LocalTypes
<1>4. CASE x \notin Protected /\ Received(r, x) /\ UNCHANGED failed
  BY <1>1, <1>3, <1>4, ReceivedIs DEF Receives
<1>5. CASE Skip(r, x)
  BY <1>1, <1>5, SkipIs DEF Skips, Skip
<1>6. CASE /\ x \in Protected
           /\ loc' = [loc EXCEPT ![r].method = "GET", ![r].source = x, ![r].token = tokens[x],
                                 ![r].todo = @ \ {x}]
           /\ Goto(r, IF tokens[x] = NoToken THEN "exchange" ELSE "cached")
           /\ UNCHANGED failed
  <2> DEFINE m == [loc[r] EXCEPT !.method = "GET", !.source = x, !.token = tokens[x],
                                 !.todo = loc[r].todo \ {x}]
  <2>1. loc[r] \in Locals /\ tokens[x] \in Tokens \cup {NoToken}
    BY <1>3, LocalTypes DEF TypeOK
  <2>2. /\ m \in Locals /\ m.op = loc[r].op /\ m.service = loc[r].service /\ m.source = x
        /\ m.copy = loc[r].copy /\ m.method = "GET" /\ m.todo = loc[r].todo \ {x}
        /\ m.token = tokens[x]
    BY <1>3, <2>1 DEF Locals
  <2>3. loc' = [loc EXCEPT ![r] = m]
    BY <1>6, <2>1, LocalTypes DEF Locals
  <2> HIDE DEF m
  <2>4. loc'[r] = m /\ pc' = [pc EXCEPT ![r] = IF tokens[x] = NoToken THEN "exchange" ELSE "cached"]
    BY <1>6, <2>3, LocalTypes DEF Goto
  <2>5. Continues(r, IF tokens[x] = NoToken THEN "exchange" ELSE "cached")
    BY <2>2, <2>3, <2>4 DEF Continues, Becomes
  <2> QED
    BY <1>1, <1>6, <2>2, <2>4, <2>5
<1> QED
  BY <1>2, <1>4, <1>5, <1>6

LEMMA FetchCachedIs ==
  ASSUME TypeOK, NEW r \in Requests, FetchCached(r)
  PROVE  /\ pc[r] = "cached"
         /\ \/ Receives(r, Source(r))
            \/ Skips(r, Source(r))
            \/ Continues(r, "exchange") /\ loc'[r] = loc[r] /\ UNCHANGED failed
<1>1. pc[r] = "cached"
  BY DEF FetchCached, At
<1>2. CASE Readable(Source(r), loc[r].token) /\ Received(r, Source(r)) /\ UNCHANGED failed
  BY <1>1, <1>2, ReceivedIs, LocalTypes DEF Receives, Readable
<1>3. CASE Goto(r, "exchange") /\ UNCHANGED <<loc, failed>>
  BY <1>1, <1>3, GoesOn DEF Labels
<1>4. CASE Skip(r, Source(r))
  BY <1>1, <1>4, SkipIs DEF Skips, Skip
<1> QED
  BY <1>2, <1>3, <1>4 DEF FetchCached

LEMMA ExchangeIs ==
  ASSUME TypeOK, NEW r \in Requests, Exchange(r)
  PROVE  /\ pc[r] = "exchange"
         /\ \/ /\ Continues(r, "keep") /\ UNCHANGED failed
               /\ loc'[r].copy = loc[r].copy /\ loc'[r].method = loc[r].method
               /\ loc'[r].source = loc[r].source /\ loc'[r].todo = loc[r].todo
               /\ loc'[r].token # NoToken
            \/ loc[r].method = "HEAD" /\ Becomes(r, "idle") /\ loc'[r] = Idle /\ Fail(r)
            \/ loc[r].method # "HEAD" /\ Skips(r, Source(r))
<1>1. pc[r] = "exchange"
  BY DEF Exchange, At
<1>2. CASE loc' = [loc EXCEPT ![r].token = generation[Source(r)]] /\ Goto(r, "keep") /\ UNCHANGED failed
  <2> DEFINE m == [loc[r] EXCEPT !.token = generation[Source(r)]]
  <2>1. loc[r] \in Locals /\ generation[Source(r)] \in Tokens
    BY LocalTypes DEF TypeOK
  <2>2. /\ m \in Locals /\ m.op = loc[r].op /\ m.service = loc[r].service
        /\ m.source = loc[r].source /\ m.copy = loc[r].copy /\ m.method = loc[r].method
        /\ m.todo = loc[r].todo /\ m.token # NoToken
    BY <2>1 DEF Locals, Tokens, NoToken
  <2>3. loc' = [loc EXCEPT ![r] = m] /\ pc' = [pc EXCEPT ![r] = "keep"]
    BY <1>2 DEF Goto
  <2> HIDE DEF m
  <2> QED
    BY <1>1, <1>2, <2>2, <2>3, LocalTypes DEF Continues, Becomes
<1>3. CASE loc[r].method = "HEAD" /\ Abandon(r)
  BY <1>1, <1>3, AbandonIs DEF Abandon
<1>4. CASE loc[r].method # "HEAD" /\ Skip(r, Source(r))
  BY <1>1, <1>4, SkipIs DEF Skips, Skip
<1> QED
  BY <1>2, <1>3, <1>4 DEF Exchange

LEMMA KeepTokenIs ==
  ASSUME TypeOK, NEW r \in Requests, KeepToken(r)
  PROVE  pc[r] = "keep" /\ Continues(r, "retry") /\ loc'[r] = loc[r]
  BY GoesOn DEF KeepToken, Labels, At

LEMMA RetryIs ==
  ASSUME TypeOK, NEW r \in Requests, Retry(r)
  PROVE  /\ pc[r] = "retry"
         /\ \/ /\ loc[r].method = "HEAD"
               /\ \/ Compared(r) /\ UNCHANGED failed
                  \/ Becomes(r, "idle") /\ loc'[r] = Idle /\ Fail(r)
                  \/ Continues(r, "clear") /\ loc'[r] = loc[r] /\ Fail(r)
            \/ loc[r].method # "HEAD" /\ (Receives(r, Source(r)) \/ Skips(r, Source(r)))
<1>1. pc[r] = "retry"
  BY DEF Retry, At
<1>2. CASE loc[r].method = "HEAD"
  <2>1. CASE Readable(Source(r), loc[r].token) /\ Compare(r) /\ UNCHANGED failed
    BY <1>1, <1>2, <2>1, CompareIs DEF Compared, Readable
  <2>2. CASE Goto(r, "clear") /\ Fail(r) /\ UNCHANGED loc
    BY <1>1, <1>2, <2>2, GoesOn DEF Labels
  <2>3. CASE Abandon(r)
    BY <1>1, <1>2, <2>3, AbandonIs DEF Abandon
  <2> QED
    BY <1>2, <2>1, <2>2, <2>3 DEF Retry, HeadFails
<1>3. CASE loc[r].method # "HEAD"
  <2>1. CASE Readable(Source(r), loc[r].token) /\ Received(r, Source(r)) /\ UNCHANGED failed
    BY <1>1, <1>3, <2>1, ReceivedIs, LocalTypes DEF Receives, Readable
  <2>2. CASE Skip(r, Source(r))
    BY <1>1, <1>3, <2>2, SkipIs DEF Skips, Skip
  <2> QED
    BY <1>3, <2>1, <2>2 DEF Retry
<1> QED
  BY <1>2, <1>3

\* The directories are emptied for a materialization to begin, or in part only.
Clears(r) ==
  /\ Continues(r, "next") /\ UNCHANGED failed
  /\ EmptyWorkspace(r) /\ EmptyOutput(r)
  /\ mingled' = [mingled EXCEPT ![Service(r)] = Interferes(r)]
  /\ loc'[r].copy = Unknown /\ loc'[r].method = "GET" /\ loc'[r].todo = SourcesOf[Service(r)]

FailsToClear(r) ==
  /\ Becomes(r, "idle") /\ loc'[r] = Idle /\ Fail(r)
  /\ (EmptyWorkspace(r) \/ UNCHANGED <<staged, store>>)
  /\ (EmptyOutput(r) \/ UNCHANGED <<output, unloaded>>)
  /\ Disturb(r)

LEMMA ClearIs ==
  ASSUME TypeOK, NEW r \in Requests, Clear(r)
  PROVE  pc[r] = "clear" /\ (Clears(r) \/ FailsToClear(r))
<1> DEFINE m == [Return(r) EXCEPT !.copy = Unknown, !.todo = SourcesOf[Service(r)]]
<1>1. Service(r) \in Services /\ SourcesOf[Service(r)] \subseteq Sources /\ Return(r) \in Locals
      /\ Return(r).op = loc[r].op /\ Return(r).service = loc[r].service /\ Return(r).method = "GET"
  BY LocalTypes, ReturnIs DEF Service
<1>2. /\ m \in Locals /\ m.op = loc[r].op /\ m.service = loc[r].service
      /\ m.copy = Unknown /\ m.method = "GET" /\ m.todo = SourcesOf[Service(r)]
  BY <1>1, KnownIs DEF Locals
<1>3. pc[r] = "clear"
  BY DEF Clear, At
<1>5. CASE ClearFails(r)
  BY <1>3, <1>5, AbandonIs DEF ClearFails, FailsToClear
<1>6. CASE /\ EmptyWorkspace(r) /\ EmptyOutput(r) /\ Begun(r)
           /\ mingled' = [mingled EXCEPT ![Service(r)] = Interferes(r)]
  <2>1. loc' = [loc EXCEPT ![r] = m] /\ pc' = [pc EXCEPT ![r] = "next"] /\ UNCHANGED failed
    BY <1>6 DEF Begun, Goto
  <2> HIDE DEF m
  <2>2. Continues(r, "next") /\ loc'[r] = m
    BY <1>2, <2>1, LocalTypes DEF Continues, Becomes
  <2> QED
    BY <1>2, <1>3, <1>6, <2>1, <2>2 DEF Clears
<1> QED
  BY <1>5, <1>6 DEF Clear

\* A source was staged, and its ETag recorded.
StagesIt(r) ==
  /\ Continues(r, "load") /\ UNCHANGED failed
  /\ staged' = [staged EXCEPT ![Service(r)] = Assign(@, Source(r), loc[r].body)]
  /\ loc'[r].copy.path = loc[r].copy.path
  /\ loc'[r].copy.etags = Assign(loc[r].copy.etags, Source(r), ETag(Source(r), loc[r].body))
  /\ loc'[r].source = loc[r].source /\ loc'[r].todo = loc[r].todo /\ loc'[r].method = loc[r].method
  /\ loc'[r].body = loc[r].body

LEMMA StageIs ==
  ASSUME TypeOK, NEW r \in Requests, Stage(r)
  PROVE  /\ pc[r] = "stage" /\ loc[r].body \in Versions
         /\ ETag(Source(r), loc[r].body) \in Versions \cup {NoETag}
         /\ \/ StagesIt(r)
            \/ Skips(r, Source(r)) /\ UNCHANGED staged
<1> DEFINE x == Source(r)
           v == ETag(x, loc[r].body)
           e == Assign(loc[r].copy.etags, x, v)
<1>1. pc[r] = "stage"
  BY DEF Stage, At
<1>2. loc[r] \in Locals /\ loc[r].body \in Versions /\ x \in Sources
  <2>1. loc[r] \in Locals /\ loc[r].body # 0 /\ x \in Sources
    BY <1>1, LocalTypes DEF TypeOK
  <2> QED
    BY <2>1 DEF Locals
<1>3. v \in Versions \cup {NoETag}
  BY <1>2 DEF ETag
<1>4. CASE Skip(r, x) /\ UNCHANGED staged
  BY <1>1, <1>2, <1>3, <1>4, SkipIs DEF Skips, Skip
<1>5. CASE /\ staged' = [staged EXCEPT ![Service(r)] = Assign(@, x, loc[r].body)]
           /\ Note(r) /\ Goto(r, "load") /\ UNCHANGED failed
  <2>1. loc[r].copy.etags \in ETagMaps /\ loc[r].copy.path \in Paths /\ loc[r].copy \in Known
    BY LocalTypes
  <2> HIDE DEF v
  <2>2. e \in ETagMaps
    BY <1>2, <1>3, <2>1, AssignETag
  <2> HIDE DEF e
  <2> DEFINE k == [loc[r].copy EXCEPT !.etags = e]
             m == [loc[r] EXCEPT !.copy = k]
  <2>3. k \in Known /\ k.etags = e /\ k.path = loc[r].copy.path
    BY <2>1, <2>2, KnownIs
  <2> HIDE DEF k
  <2>4. /\ m \in Locals /\ m.op = loc[r].op /\ m.service = loc[r].service /\ m.source = loc[r].source
        /\ m.copy = k /\ m.method = loc[r].method /\ m.todo = loc[r].todo /\ m.body = loc[r].body
    BY <1>2, <2>3 DEF Locals
  <2>5. loc' = [loc EXCEPT ![r].copy.etags = Assign(@, x, v)] /\ pc' = [pc EXCEPT ![r] = "load"]
    BY <1>5 DEF Note, Goto, v
  <2>6. loc' = [loc EXCEPT ![r] = m]
    BY <2>5 DEF e, k
  <2> HIDE DEF m
  <2>7. Continues(r, "load") /\ loc'[r] = m
    BY <2>4, <2>5, <2>6, LocalTypes DEF Continues, Becomes
  <2> QED
    BY <1>1, <1>2, <1>3, <1>5, <2>3, <2>4, <2>7 DEF e, v, StagesIt
<1> QED
  BY <1>4, <1>5 DEF Stage

LEMMA LoadIs ==
  ASSUME TypeOK, NEW r \in Requests, Load(r)
  PROVE  /\ pc[r] = "load" /\ Continues(r, "next")
         /\ loc'[r].copy = loc[r].copy /\ loc'[r].method = "GET" /\ loc'[r].todo = loc[r].todo
<1>1. Return(r) \in Locals /\ Return(r).op = loc[r].op /\ Return(r).service = loc[r].service
      /\ Return(r).copy = loc[r].copy /\ Return(r).method = "GET" /\ Return(r).todo = loc[r].todo
  BY ReturnIs DEF Service
<1>2. loc' = [loc EXCEPT ![r] = Return(r)] /\ pc' = [pc EXCEPT ![r] = "next"] /\ pc[r] = "load"
  BY DEF Load, Goto, At
<1> QED
  BY <1>1, <1>2, LocalTypes DEF Continues, Becomes

\* The file of an output was created.
Creates(r, path, data, writers, label) ==
  /\ Continues(r, label) /\ UNCHANGED failed
  /\ output' = [output EXCEPT ![Service(r)] =
       Assign(@, path, [data |-> data, writers |-> writers])]
  /\ loc'[r].copy.path = path /\ loc'[r].copy.etags = loc[r].copy.etags
  /\ loc'[r].method = loc[r].method /\ loc'[r].todo = {}

LEMMA CreateIs ==
  ASSUME TypeOK, NEW r \in Requests, NEW path \in Paths, NEW data, NEW writers,
         NEW label \in Labels, Create(r, path, data, writers, label), loc[r].todo = {}
  PROVE  Creates(r, path, data, writers, label)
<1> DEFINE k == [loc[r].copy EXCEPT !.path = path]
           m == [loc[r] EXCEPT !.copy = k]
<1>1. loc[r].copy.etags \in ETagMaps /\ loc[r].copy \in Known /\ loc[r] \in Locals
  BY LocalTypes
<1>2. k \in Known /\ k.path = path /\ k.etags = loc[r].copy.etags
  BY <1>1, KnownIs
<1>3. loc' = [loc EXCEPT ![r].copy.path = path] /\ pc' = [pc EXCEPT ![r] = label]
  BY DEF Create, Goto
<1>4. loc' = [loc EXCEPT ![r] = m]
  BY <1>3
<1> HIDE DEF k
<1>5. /\ m \in Locals /\ m.op = loc[r].op /\ m.service = loc[r].service
      /\ m.copy = k /\ m.method = loc[r].method /\ m.todo = loc[r].todo
  BY <1>1, <1>2 DEF Locals
<1> HIDE DEF m
<1> QED
  BY <1>2, <1>3, <1>4, <1>5, LocalTypes DEF Creates, Create, Continues, Becomes

LEMMA CreateOutputIs ==
  ASSUME TypeOK, NEW r \in Requests, CreateOutput(r)
  PROVE  /\ pc[r] = "next" /\ loc[r].todo = {}
         /\ \/ Recorded(r) = {} /\ Creates(r, "empty", {}, {}, "store")
            \/ Recorded(r) # {} /\ Creates(r, "output", store[Service(r)], Writers(r), "write")
            \/ Becomes(r, "idle") /\ loc'[r] = Idle /\ Fail(r) /\ UNCHANGED output
<1>1. pc[r] = "next" /\ loc[r].todo = {}
  BY DEF CreateOutput, At
<1>2. CASE Recorded(r) = {} /\ Create(r, "empty", {}, {}, "store")
  BY <1>1, <1>2, CreateIs DEF Paths, Labels
<1>3. CASE Recorded(r) # {} /\ Create(r, "output", store[Service(r)], Writers(r), "write")
  BY <1>1, <1>3, CreateIs DEF Paths, Labels
<1>4. CASE Abandon(r) /\ UNCHANGED output
  BY <1>1, <1>4, AbandonIs
<1> QED
  BY <1>2, <1>3, <1>4 DEF CreateOutput, Recorded

\* The files of a service when r has written its results.
Written(r) ==
  [f \in DOMAIN output[Service(r)] |->
     [data |-> output[Service(r)][f].data,
      writers |-> IF output[Service(r)][f].writers = {r} THEN {} ELSE output[Service(r)][f].writers]]

LEMMA FileWritten ==
  ASSUME NEW r, NEW c \in [data : SUBSET Data, writers : SUBSET Requests]
  PROVE  Closed(c, r) = [data |-> c.data, writers |-> IF c.writers = {r} THEN {} ELSE c.writers]
<1>1. ASSUME NEW D, NEW W, NEW k \in [data : D, writers : W], NEW w
      PROVE  [k EXCEPT !.writers = w] = [data |-> k.data, writers |-> w]
  BY <1>1
<1> QED
  BY <1>1 DEF Closed

LEMMA WriteOutputIs ==
  ASSUME TypeOK, NEW r \in Requests, WriteOutput(r)
  PROVE  /\ pc[r] = "write"
         /\ \/ /\ Continues(r, "store") /\ loc'[r] = loc[r] /\ UNCHANGED failed
               /\ output' = [output EXCEPT ![Service(r)] = Written(r)]
            \/ Becomes(r, "idle") /\ loc'[r] = Idle /\ Fail(r) /\ UNCHANGED output
<1> DEFINE s == Service(r)
<1>1. pc[r] = "write" /\ s \in Services
  BY LocalTypes DEF WriteOutput, At
<1>2. CASE /\ output' = [output EXCEPT ![s] = [f \in DOMAIN @ |-> Closed(@[f], r)]]
           /\ Goto(r, "store") /\ UNCHANGED <<loc, failed>>
  <2>1. \A f \in DOMAIN output[s] : output[s][f] \in [data : SUBSET Data, writers : SUBSET Requests]
    BY <1>1 DEF TypeOK
  <2>2. \A f \in DOMAIN output[s] :
          Closed(output[s][f], r)
            = [data |-> output[s][f].data,
               writers |-> IF output[s][f].writers = {r} THEN {} ELSE output[s][f].writers]
    BY <2>1, FileWritten
  <2>3. [f \in DOMAIN output[s] |-> Closed(output[s][f], r)] = Written(r)
    BY <2>2 DEF Written
  <2>4. output' = [output EXCEPT ![s] = [f \in DOMAIN output[s] |-> Closed(output[s][f], r)]]
    BY <1>2
  <2>5. output' = [output EXCEPT ![s] = Written(r)]
    BY <2>3, <2>4
  <2> QED
    BY <1>1, <1>2, <2>5, GoesOn DEF Labels
<1>3. CASE Abandon(r) /\ UNCHANGED output
  BY <1>1, <1>3, AbandonIs
<1> QED
  BY <1>2, <1>3 DEF WriteOutput

LEMMA StoreIs ==
  ASSUME TypeOK, NEW r \in Requests, Store(r)
  PROVE  /\ pc[r] = "store"
         /\ \/ loc[r].op = "create" /\ Becomes(r, "idle") /\ loc'[r] = Idle
            \/ loc[r].op # "create" /\ Continues(r, "serve") /\ loc'[r] = loc[r]
<1>1. CASE loc[r].op = "create"
  BY <1>1, AnswerIs DEF Store, At
<1>2. CASE loc[r].op # "create"
  BY <1>2, GoesOn DEF Store, Labels, At
<1> QED
  BY <1>1, <1>2

LEMMA ServeIs ==
  ASSUME TypeOK, NEW r \in Requests, Serve(r)
  PROVE  pc[r] = "serve" /\ Becomes(r, "idle") /\ loc'[r] = Idle
  BY AnswerIs DEF Serve, At
-----------------------------------------------------------------------------
(***************************************************************************)
(* Types.                                                                  *)
(***************************************************************************)
\* The part of TypeOK that is about what is there to be done at a label.
LabelFits(r) ==
  /\ pc[r] \in {"exchange", "keep"} => Source(r) \in Protected
  /\ pc[r] \in {"cached", "keep", "retry"} => loc[r].token # NoToken
  /\ pc[r] \in {"stage", "load"} => loc[r].body # 0
  /\ pc[r] \in {"validate", "head"} => loc[r].todo \subseteq Recorded(r)

LEMMA LabelsFit ==
  ASSUME TypeOK, NEW r \in Requests
  PROVE  LabelFits(r) /\ pc[r] \in Labels
  BY DEF TypeOK, LabelFits, Recorded

\* The labels after an exchange with a source.
LEMMA SkipsFits ==
  ASSUME TypeInv, NEW r \in Requests, NEW x, Skips(r, x), Active(r), reserved \subseteq reserved'
  PROVE  Fits(r)' /\ LabelFits(r)'
<1>1. pc'[r] = "next" /\ loc'[r].service = loc[r].service /\ loc'[r].op = loc[r].op
      /\ loc'[r].method = "GET"
  BY BecomesIs DEF TypeInv, Skips, Continues, Labels
<1>2. Service(r) \in reserved /\ loc[r].op # "none"
  BY DEF TypeInv, Fits
<1> QED
  BY <1>1, <1>2 DEF Fits, LabelFits, Active, Checking, Validating, Service

LEMMA ReceivesFits ==
  ASSUME TypeInv, NEW r \in Requests, NEW x \in Sources, Receives(r, x), Active(r),
         reserved \subseteq reserved'
  PROVE  Fits(r)' /\ LabelFits(r)'
<1>1. /\ pc'[r] = "stage" /\ loc'[r].service = loc[r].service /\ loc'[r].method = "GET"
      /\ loc'[r].body # 0 /\ loc'[r].op = loc[r].op
  BY BecomesIs DEF TypeInv, TypeOK, Receives, Continues, Labels, Versions
<1>2. Service(r) \in reserved /\ loc[r].op # "none"
  BY DEF TypeInv, Fits
<1> QED
  BY <1>1, <1>2 DEF Fits, LabelFits, Active, Checking, Validating, Service

LEMMA AnsweredFits ==
  ASSUME TypeInv, NEW r \in Requests, Becomes(r, "idle")
  PROVE  Fits(r)' /\ LabelFits(r)'
<1>1. pc'[r] = "idle"
  BY BecomesIs DEF TypeInv, Labels
<1> QED
  BY <1>1 DEF Fits, LabelFits, Active, Checking, Validating

LEMMA ClearingFits ==
  ASSUME TypeInv, NEW r \in Requests, Continues(r, "clear"), loc'[r] = loc[r],
         Checking(r), reserved \subseteq reserved'
  PROVE  Fits(r)' /\ LabelFits(r)'
<1>1. pc'[r] = "clear" /\ loc'[r] = loc[r]
  BY BecomesIs DEF TypeInv, Continues, Labels
<1>2. Service(r) \in reserved /\ loc[r].op = "output"
  BY DEF TypeInv, Fits, Checking, Active
<1> QED
  BY <1>1, <1>2 DEF Fits, LabelFits, Active, Checking, Validating, Service

LEMMA ComparedFits ==
  ASSUME TypeInv, NEW r \in Requests, Compared(r), Validating(r), pc[r] # "validate",
         reserved \subseteq reserved'
  PROVE  Fits(r)' /\ LabelFits(r)'
<1>1. CASE Continues(r, "clear") /\ loc'[r] = loc[r]
  BY <1>1, ClearingFits DEF Validating
<1>2. CASE /\ Continues(r, "validate") /\ loc'[r].copy = loc[r].copy /\ loc'[r].method = "GET"
           /\ loc'[r].todo = loc[r].todo \ {Source(r)}
  <2>1. pc'[r] = "validate" /\ loc'[r].service = loc[r].service /\ loc'[r].op = loc[r].op
    BY <1>2, BecomesIs DEF TypeInv, Continues, Labels
  <2>2. /\ Service(r) \in reserved /\ loc[r].op = "output"
        /\ Recorded(r) = SourcesOf[Service(r)] /\ loc[r].todo \subseteq Recorded(r)
    BY DEF TypeInv, Fits, Validating, Checking, Active
  <2> QED
    BY <1>2, <2>1, <2>2 DEF Fits, LabelFits, Active, Checking, Validating, Service, Recorded
<1> QED
  BY <1>1, <1>2 DEF Compared

\* What a request does after its step fits.
LEMMA HandleFits ==
  ASSUME TypeInv, NEW r \in Requests, Handle(r)
  PROVE  /\ reserved \subseteq reserved' /\ reserved' \subseteq Services
         /\ Fits(r)' /\ LabelFits(r)'
         /\ \E l \in Labels : Becomes(r, l)
<1> USE DEF TypeInv
<1>1. CASE Reserve(r)
  <2>1. /\ Becomes(r, "clear") /\ loc'[r].op = "create" /\ loc'[r].copy = Unknown
        /\ loc'[r].service \in Services /\ reserved' = reserved \cup {loc'[r].service}
    BY <1>1, ReserveIs DEF Service
  <2>2. pc'[r] = "clear" /\ reserved \subseteq Services
    BY <2>1, BecomesIs DEF Labels, TypeOK
  <2>3. Fits(r)' /\ LabelFits(r)'
    BY <2>1, <2>2 DEF Fits, LabelFits, Active, Checking, Validating, Service
  <2> QED
    BY <2>1, <2>2, <2>3 DEF Labels
<1>2. CASE Lookup(r)
  <2>1. /\ Becomes(r, "stat") /\ loc'[r].op = "output" /\ loc'[r].method = "GET"
        /\ loc'[r].service \in DOMAIN services /\ reserved' = reserved
    BY <1>2, LookupIs DEF Service
  <2>2. pc'[r] = "stat" /\ reserved \subseteq Services /\ loc'[r].service \in reserved
    BY <2>1, BecomesIs DEF Labels, TypeOK
  <2>3. Fits(r)' /\ LabelFits(r)'
    BY <2>1, <2>2 DEF Fits, LabelFits, Active, Checking, Validating, Service
  <2> QED
    BY <2>1, <2>2, <2>3 DEF Labels
<1>3. SUFFICES ASSUME ~Reserve(r), ~Lookup(r)
               PROVE  /\ reserved' = reserved
                      /\ Fits(r)' /\ LabelFits(r)'
                      /\ \E l \in Labels : Becomes(r, l)
  BY <1>1, <1>2 DEF TypeOK
<1>4. reserved' = reserved
  BY <1>3 DEF Handle, Stat, Validate, Head, Fetch, FetchCached, Exchange, KeepToken, Retry,
              Clear, Stage, Load, CreateOutput, WriteOutput, Store, Serve, serverVars
<1>5. LabelFits(r) /\ Fits(r) /\ Service(r) \in Services /\ Source(r) \in Sources
      /\ loc[r].method \in {"GET", "HEAD"} /\ loc[r].op \in {"none", "create", "output"}
  BY LabelsFit, LocalTypes DEF Locals
<1> SUFFICES Fits(r)' /\ LabelFits(r)' /\ \E l \in Labels : Becomes(r, l)
  BY <1>4
<1>6. CASE Stat(r)
  <2>1. CASE Continues(r, "clear") /\ loc'[r] = loc[r]
    BY <1>4, <1>6, <2>1, StatIs, ClearingFits DEF Checking, Continues, Labels
  <2>2. CASE ~Outdated(r) /\ Continues(r, "validate")
    <3>1. /\ pc[r] = "stat" /\ pc'[r] = "validate"
          /\ loc'[r].op = loc[r].op /\ loc'[r].service = loc[r].service
          /\ loc'[r].copy = loc[r].copy /\ loc'[r].method = loc[r].method
          /\ loc'[r].todo \subseteq Recorded(r)
      BY <1>6, <2>2, StatIs, BecomesIs DEF Continues, Labels
    <3>2. Recorded(r) = SourcesOf[Service(r)]
      BY <2>2 DEF Outdated, Recorded
    <3> QED
      BY <1>4, <1>5, <2>2, <3>1, <3>2
      DEF Fits, LabelFits, Active, Checking, Validating, Service, Recorded, Continues, Labels
  <2> QED
    BY <1>6, <2>1, <2>2, StatIs
<1>7. CASE Validate(r)
  <2>1. CASE Continues(r, "serve") /\ loc'[r] = loc[r]
    <3>1. pc[r] = "validate" /\ pc'[r] = "serve"
      BY <1>7, <2>1, ValidateIs, BecomesIs DEF Continues, Labels
    <3> QED
      BY <1>4, <1>5, <2>1, <3>1
      DEF Fits, LabelFits, Active, Checking, Validating, Service, Continues, Labels
  <2>2. CASE Continues(r, "head") /\ Source(r)' \in loc[r].todo
    <3>1. /\ pc[r] = "validate" /\ pc'[r] = "head"
          /\ loc'[r].op = loc[r].op /\ loc'[r].service = loc[r].service
          /\ loc'[r].copy = loc[r].copy /\ loc'[r].method = "HEAD"
          /\ loc'[r].todo = loc[r].todo /\ Source(r)' \in loc[r].todo
      BY <1>7, <2>2, ValidateIs, BecomesIs DEF Continues, Labels
    <3> QED
      BY <1>4, <1>5, <2>2, <3>1
      DEF Fits, LabelFits, Active, Checking, Validating, Service, Recorded, Continues, Labels
  <2> QED
    BY <1>7, <2>1, <2>2, ValidateIs
<1>8. CASE Head(r)
  <2>1. pc[r] = "head" /\ Checking(r) /\ Validating(r)
    BY <1>8, HeadIs DEF Checking, Validating
  <2>2. CASE Compared(r)
    BY <1>4, <2>1, <2>2, ComparedFits DEF Compared, Continues, Labels
  <2>3. CASE Source(r) \in Protected /\ Continues(r, "exchange") /\ loc'[r] = loc[r]
    <3>1. pc'[r] = "exchange"
      BY <2>3, BecomesIs DEF Continues, Labels
    <3> QED
      BY <1>4, <1>5, <2>1, <2>3, <3>1
      DEF Fits, LabelFits, Active, Checking, Validating, Service, Source, Recorded, Continues, Labels
  <2>4. CASE Becomes(r, "idle")
    BY <2>4, AnsweredFits DEF Labels
  <2>5. CASE Continues(r, "clear") /\ loc'[r] = loc[r]
    BY <1>4, <2>1, <2>5, ClearingFits DEF Continues, Labels
  <2> QED
    BY <1>8, <2>2, <2>3, <2>4, <2>5, HeadIs
<1>9. CASE Fetch(r)
  <2>1. PICK x \in loc[r].todo :
          \/ Receives(r, x)
          \/ Skips(r, x)
          \/ /\ x \in Protected /\ UNCHANGED failed
             /\ Continues(r, IF tokens[x] = NoToken THEN "exchange" ELSE "cached")
             /\ loc'[r].copy = loc[r].copy /\ loc'[r].method = "GET"
             /\ loc'[r].source = x /\ loc'[r].todo = loc[r].todo \ {x}
             /\ tokens[x] # NoToken => loc'[r].token # NoToken
    BY <1>9, FetchIs
  <2>2. pc[r] = "next" /\ Active(r) /\ x \in Sources
    BY <1>9, FetchIs, LocalTypes DEF Active
  <2>3. CASE Receives(r, x)
    BY <1>4, <2>2, <2>3, ReceivesFits DEF Receives, Continues, Labels
  <2>4. CASE Skips(r, x)
    BY <1>4, <2>2, <2>4, SkipsFits DEF Skips, Continues, Labels
  <2>5. CASE /\ x \in Protected
             /\ Continues(r, IF tokens[x] = NoToken THEN "exchange" ELSE "cached")
             /\ loc'[r].method = "GET" /\ loc'[r].source = x
             /\ tokens[x] # NoToken => loc'[r].token # NoToken
    <3> DEFINE l == IF tokens[x] = NoToken THEN "exchange" ELSE "cached"
    <3>1. l \in Labels /\ Continues(r, l)
      BY <2>5 DEF Labels
    <3>2. pc'[r] = l /\ loc'[r].service = loc[r].service /\ loc'[r].op = loc[r].op
      BY <3>1, BecomesIs DEF Continues
    <3> QED
      BY <1>4, <1>5, <2>2, <2>5, <3>1, <3>2
      DEF Fits, LabelFits, Active, Checking, Validating, Service, Source, Continues
  <2> QED
    BY <2>1, <2>3, <2>4, <2>5
<1>10. CASE FetchCached(r)
  <2>1. pc[r] = "cached" /\ Active(r)
    BY <1>10, FetchCachedIs DEF Active
  <2>2. CASE Receives(r, Source(r))
    BY <1>4, <1>5, <2>1, <2>2, ReceivesFits DEF Receives, Continues, Labels
  <2>3. CASE Skips(r, Source(r))
    BY <1>4, <2>1, <2>3, SkipsFits DEF Skips, Continues, Labels
  <2>4. CASE Continues(r, "exchange") /\ loc'[r] = loc[r]
    <3>1. pc'[r] = "exchange"
      BY <2>4, BecomesIs DEF Continues, Labels
    <3> QED
      BY <1>4, <1>5, <2>1, <2>4, <3>1
      DEF Fits, LabelFits, Active, Checking, Validating, Service, Source, Continues, Labels
  <2> QED
    BY <1>10, <2>2, <2>3, <2>4, FetchCachedIs
<1>11. CASE Exchange(r)
  <2>1. pc[r] = "exchange" /\ Active(r)
    BY <1>11, ExchangeIs DEF Active
  <2>2. CASE Continues(r, "keep") /\ loc'[r].token # NoToken
    <3>1. /\ pc'[r] = "keep" /\ loc'[r].op = loc[r].op /\ loc'[r].service = loc[r].service
          /\ loc'[r].token # NoToken
          /\ loc'[r].copy = loc[r].copy /\ loc'[r].method = loc[r].method
          /\ loc'[r].source = loc[r].source /\ loc'[r].todo = loc[r].todo
      BY <1>11, <2>2, ExchangeIs, BecomesIs DEF Continues, Skips, Labels
    <3> QED
      BY <1>4, <1>5, <2>1, <2>2, <3>1
      DEF Fits, LabelFits, Active, Checking, Validating, Service, Source, Recorded, Continues, Labels
  <2>3. CASE Becomes(r, "idle")
    BY <2>3, AnsweredFits DEF Labels
  <2>4. CASE Skips(r, Source(r))
    BY <1>4, <2>1, <2>4, SkipsFits DEF Skips, Continues, Labels
  <2> QED
    BY <1>11, <2>2, <2>3, <2>4, ExchangeIs
<1>12. CASE KeepToken(r)
  <2>1. pc[r] = "keep" /\ pc'[r] = "retry" /\ loc'[r] = loc[r] /\ Becomes(r, "retry")
    BY <1>12, KeepTokenIs, BecomesIs DEF Continues, Labels
  <2> QED
    BY <1>4, <1>5, <2>1
    DEF Fits, LabelFits, Active, Checking, Validating, Service, Source, Recorded, Labels
<1>13. CASE Retry(r)
  <2>1. pc[r] = "retry" /\ Active(r)
    BY <1>13, RetryIs DEF Active
  <2>2. CASE loc[r].method = "HEAD" /\ Compared(r)
    <3>1. Checking(r) /\ Validating(r) /\ pc[r] # "validate"
      BY <2>1, <2>2 DEF Checking, Validating
    <3> QED
      BY <1>4, <2>2, <3>1, ComparedFits DEF Compared, Continues, Labels
  <2>3. CASE Becomes(r, "idle")
    BY <2>3, AnsweredFits DEF Labels
  <2>4. CASE loc[r].method = "HEAD" /\ Continues(r, "clear") /\ loc'[r] = loc[r]
    BY <1>4, <2>1, <2>4, ClearingFits DEF Checking, Continues, Labels
  <2>5. CASE Receives(r, Source(r))
    BY <1>4, <1>5, <2>1, <2>5, ReceivesFits DEF Receives, Continues, Labels
  <2>6. CASE Skips(r, Source(r))
    BY <1>4, <2>1, <2>6, SkipsFits DEF Skips, Continues, Labels
  <2> QED
    BY <1>13, <2>2, <2>3, <2>4, <2>5, <2>6, RetryIs
<1>14. CASE Clear(r)
  <2>1. CASE Clears(r)
    <3>1. /\ pc[r] = "clear" /\ pc'[r] = "next" /\ Becomes(r, "next") /\ loc'[r].method = "GET"
          /\ loc'[r].service = loc[r].service /\ loc'[r].op = loc[r].op
      BY <1>14, <2>1, ClearIs, BecomesIs DEF Clears, Continues, Labels
    <3> QED
      BY <1>4, <1>5, <3>1 DEF Fits, LabelFits, Active, Checking, Validating, Service, Labels
  <2>2. CASE FailsToClear(r)
    BY <2>2, AnsweredFits DEF FailsToClear, Labels
  <2> QED
    BY <1>14, <2>1, <2>2, ClearIs
<1>15. CASE Stage(r)
  <2>1. pc[r] = "stage" /\ Active(r)
    BY <1>15, StageIs DEF Active
  <2>2. CASE StagesIt(r)
    <3>1. /\ pc'[r] = "load" /\ Becomes(r, "load") /\ loc'[r].method = loc[r].method
          /\ loc'[r].service = loc[r].service /\ loc'[r].op = loc[r].op
          /\ loc'[r].body = loc[r].body
      BY <2>2, BecomesIs DEF StagesIt, Continues, Labels
    <3> QED
      BY <1>4, <1>5, <2>1, <3>1 DEF Fits, LabelFits, Active, Checking, Validating, Service, Labels
  <2>3. CASE Skips(r, Source(r))
    BY <1>4, <2>1, <2>3, SkipsFits DEF Skips, Continues, Labels
  <2> QED
    BY <1>15, <2>2, <2>3, StageIs
<1>16. CASE Load(r)
  <2>1. /\ pc[r] = "load" /\ pc'[r] = "next" /\ Becomes(r, "next") /\ loc'[r].method = "GET"
        /\ loc'[r].service = loc[r].service /\ loc'[r].op = loc[r].op
    BY <1>16, LoadIs, BecomesIs DEF Continues, Labels
  <2> QED
    BY <1>4, <1>5, <2>1 DEF Fits, LabelFits, Active, Checking, Validating, Service, Labels
<1>17. CASE CreateOutput(r)
  <2>1. pc[r] = "next"
    BY <1>17, CreateOutputIs
  <2>2. CASE Becomes(r, "idle")
    BY <2>2, AnsweredFits DEF Labels
  <2>3. ASSUME NEW path, NEW data, NEW writers, NEW l \in {"write", "store"},
               Creates(r, path, data, writers, l)
        PROVE  Fits(r)' /\ LabelFits(r)' /\ \E k \in Labels : Becomes(r, k)
    <3>1. /\ pc'[r] = l /\ l \in Labels /\ Becomes(r, l) /\ loc'[r].method = loc[r].method
          /\ loc'[r].service = loc[r].service /\ loc'[r].op = loc[r].op
      BY <2>3, BecomesIs DEF Creates, Continues, Labels
    <3> QED
      BY <1>4, <1>5, <2>1, <3>1 DEF Fits, LabelFits, Active, Checking, Validating, Service
  <2> QED
    BY <1>17, <2>2, <2>3, CreateOutputIs
<1>20. CASE WriteOutput(r)
  <2>1. pc[r] = "write"
    BY <1>20, WriteOutputIs
  <2>2. CASE Becomes(r, "idle")
    BY <2>2, AnsweredFits DEF Labels
  <2>3. CASE Continues(r, "store") /\ loc'[r] = loc[r]
    <3>1. pc'[r] = "store" /\ Becomes(r, "store")
      BY <2>3, BecomesIs DEF Continues, Labels
    <3> QED
      BY <1>4, <1>5, <2>1, <2>3, <3>1 DEF Fits, LabelFits, Active, Checking, Validating, Service, Labels
  <2> QED
    BY <1>20, <2>2, <2>3, WriteOutputIs
<1>18. CASE Store(r)
  <2>1. CASE Becomes(r, "idle")
    BY <2>1, AnsweredFits DEF Labels
  <2>2. CASE loc[r].op # "create" /\ Continues(r, "serve") /\ loc'[r] = loc[r]
    <3>1. pc[r] = "store" /\ pc'[r] = "serve"
      BY <1>18, <2>2, StoreIs, BecomesIs DEF Continues, Labels
    <3> QED
      BY <1>4, <1>5, <2>2, <3>1
      DEF Fits, LabelFits, Active, Checking, Validating, Service, Continues, Labels
  <2> QED
    BY <1>18, <2>1, <2>2, StoreIs
<1>19. CASE Serve(r)
  BY <1>19, ServeIs, AnsweredFits DEF Labels
<1> QED
  BY <1>3, <1>6, <1>7, <1>8, <1>9, <1>10, <1>11, <1>12, <1>13, <1>14, <1>15, <1>16, <1>17,
     <1>18, <1>19, <1>20 DEF Handle
-----------------------------------------------------------------------------
DiskType ==
  /\ DOMAIN staged = Services
  /\ \A s \in Services : DOMAIN staged[s] \subseteq Sources
  /\ \A s \in Services : \A x \in DOMAIN staged[s] : staged[s][x] \in Versions
  /\ store \in [Services -> SUBSET Data]
  /\ DOMAIN output = Services
  /\ \A s \in Services : DOMAIN output[s] \subseteq Paths
  /\ \A s \in Services : \A f \in DOMAIN output[s] :
       output[s][f] \in [data : SUBSET Data, writers : SUBSET Requests]
  /\ unloaded \in [Services -> SUBSET Data]
  /\ mingled \in [Services -> BOOLEAN]

\* The directories are changed by these actions only, and those of one service.
LEMMA DiskStays ==
  ASSUME NEW r \in Requests, Handle(r), ~Clear(r), ~Stage(r), ~Load(r), ~CreateOutput(r),
         ~WriteOutput(r)
  PROVE  UNCHANGED diskVars
  BY DEF Handle, Reserve, Lookup, Begin, Stat, Validate, Head, Fetch, FetchCached, Exchange,
         KeepToken, Retry, Store, Serve

LEMMA StageWrites ==
  ASSUME TypeOK, NEW r \in Requests, Stage(r)
  PROVE  /\ UNCHANGED <<store, output, unloaded, mingled>>
         /\ \/ UNCHANGED staged
            \/ staged' = [staged EXCEPT ![Service(r)] = Assign(staged[Service(r)], Source(r), loc[r].body)]
  BY DEF Stage

LEMMA LoadWrites ==
  ASSUME TypeOK, NEW r \in Requests, Load(r)
  PROVE  /\ UNCHANGED <<staged, output, mingled>>
         /\ PutInStore(r) \/ UNCHANGED store
         /\ \/ PutInStore(r) /\ UNCHANGED unloaded
            \/ unloaded' = [unloaded EXCEPT ![Service(r)] = @ \cup {<<Source(r), loc[r].body>>}]
  BY DEF Load

LEMMA CreateOutputWrites ==
  ASSUME TypeOK, NEW r \in Requests, CreateOutput(r)
  PROVE  /\ UNCHANGED <<staged, store, unloaded, mingled>>
         /\ \/ UNCHANGED output
            \/ output' = [output EXCEPT ![Service(r)] =
                            Assign(output[Service(r)], "empty", [data |-> {}, writers |-> {}])]
            \/ output' = [output EXCEPT ![Service(r)] =
                            Assign(output[Service(r)], "output",
                                   [data |-> store[Service(r)], writers |-> Writers(r)])]
  BY DEF CreateOutput, Create

LEMMA WriteOutputWrites ==
  ASSUME TypeOK, NEW r \in Requests, WriteOutput(r)
  PROVE  UNCHANGED <<staged, store, unloaded, mingled>>
  BY DEF WriteOutput

LEMMA DiskTypeStep ==
  ASSUME TypeInv, NEW r \in Requests, Handle(r)
  PROVE  DiskType'
<1> DEFINE s == Service(r)
           x == Source(r)
<1>1. DiskType /\ TypeOK /\ s \in Services /\ x \in Sources
  BY LocalTypes DEF TypeInv, TypeOK, DiskType
<1>2. CASE Clear(r)
  <2>1. EmptyMap = [y \in {} |-> y] /\ DOMAIN EmptyMap = {}
    BY DEF EmptyMap
  <2>2. Interferes(r) \in BOOLEAN /\ mingled[s] \in BOOLEAN
    BY <1>1 DEF Interferes, DiskType
  <2> DEFINE b == mingled'[s]
  <2>3. b \in BOOLEAN /\ mingled' = [mingled EXCEPT ![s] = b]
    <3>1. (mingled[s] \/ Interferes(r)) \in BOOLEAN
      BY <2>2
    <3>2. \/ mingled' = [mingled EXCEPT ![s] = Interferes(r)]
          \/ mingled' = [mingled EXCEPT ![s] = mingled[s] \/ Interferes(r)]
      BY <1>1, <1>2, ClearIs DEF Clears, FailsToClear, Disturb
    <3> HIDE DEF s
    <3>3. CASE mingled' = [mingled EXCEPT ![s] = Interferes(r)]
      BY <1>1, <2>2, <3>3 DEF DiskType
    <3>4. CASE mingled' = [mingled EXCEPT ![s] = mingled[s] \/ Interferes(r)]
      BY <1>1, <3>1, <3>4 DEF DiskType
    <3> QED
      BY <3>2, <3>3, <3>4
  <2>4. /\ \/ staged' = [staged EXCEPT ![s] = EmptyMap] /\ store' = [store EXCEPT ![s] = {}]
           \/ UNCHANGED <<staged, store>>
        /\ \/ output' = [output EXCEPT ![s] = EmptyMap] /\ unloaded' = [unloaded EXCEPT ![s] = {}]
           \/ UNCHANGED <<output, unloaded>>
    BY <1>1, <1>2, ClearIs DEF Clears, FailsToClear, EmptyWorkspace, EmptyOutput
  <2> HIDE DEF s, b
  <2>5. mingled' \in [Services -> BOOLEAN]
    BY <1>1, <2>3 DEF DiskType
  <2>6. /\ DOMAIN staged' = Services
        /\ \A z \in Services : DOMAIN staged'[z] \subseteq Sources
        /\ \A z \in Services : \A y \in DOMAIN staged'[z] : staged'[z][y] \in Versions
        /\ store' \in [Services -> SUBSET Data]
    BY <1>1, <2>1, <2>4 DEF DiskType
  <2>7. /\ DOMAIN output' = Services
        /\ \A z \in Services : DOMAIN output'[z] \subseteq Paths
        /\ \A z \in Services : \A f \in DOMAIN output'[z] :
             output'[z][f] \in [data : SUBSET Data, writers : SUBSET Requests]
        /\ unloaded' \in [Services -> SUBSET Data]
    BY <1>1, <2>1, <2>4 DEF DiskType
  <2> QED
    BY <2>5, <2>6, <2>7 DEF DiskType
<1>3. CASE Stage(r)
  <2>1. CASE UNCHANGED staged
    BY <1>1, <1>3, <2>1, StageWrites DEF DiskType
  <2>2. CASE staged' = [staged EXCEPT ![s] = Assign(staged[s], x, loc[r].body)]
    <3>1. loc[r].body \in Versions
      BY <1>1, <1>3, StageIs
    <3>2. UNCHANGED <<store, output, unloaded, mingled>>
      BY <1>1, <1>3, StageWrites
    <3> HIDE DEF s, x
    <3>3. /\ DOMAIN Assign(staged[s], x, loc[r].body) \subseteq Sources
          /\ \A y \in DOMAIN Assign(staged[s], x, loc[r].body) :
               Assign(staged[s], x, loc[r].body)[y] \in Versions
      BY <1>1, <3>1 DEF Assign, DiskType
    <3> QED
      BY <1>1, <2>2, <3>2, <3>3 DEF DiskType
  <2> QED
    BY <1>1, <1>3, <2>1, <2>2, StageWrites
<1>4. CASE Load(r)
  <2>1. UNCHANGED <<staged, output, mingled>>
    BY <1>1, <1>4, LoadWrites
  <2>2. store' \in [Services -> SUBSET Data]
    <3>1. CASE PutInStore(r)
      <4>1. x \in DOMAIN staged[s] /\ store' = [store EXCEPT ![s] = store[s] \cup {<<x, staged[s][x]>>}]
        BY <3>1 DEF PutInStore
      <4> HIDE DEF s, x
      <4>2. <<x, staged[s][x]>> \in Data
        BY <1>1, <4>1 DEF DiskType, Data
      <4> QED
        BY <1>1, <4>1, <4>2 DEF DiskType
    <3> QED
      BY <1>1, <1>4, <3>1, LoadWrites DEF DiskType
  <2>3. unloaded' \in [Services -> SUBSET Data]
    <3>1. loc[r].body \in Versions
      BY <1>1, <1>4, LoadIs, LabelsFit, LocalTypes DEF LabelFits, Locals
    <3>2. <<x, loc[r].body>> \in Data
      BY <1>1, <3>1 DEF Data
    <3>3. UNCHANGED unloaded \/ unloaded' = [unloaded EXCEPT ![s] = unloaded[s] \cup {<<x, loc[r].body>>}]
      BY <1>1, <1>4, LoadWrites
    <3> HIDE DEF s, x
    <3> QED
      BY <1>1, <3>2, <3>3 DEF DiskType
  <2> QED
    BY <1>1, <2>1, <2>2, <2>3 DEF DiskType
<1>5. CASE CreateOutput(r)
  <2>1. UNCHANGED <<staged, store, unloaded, mingled>>
    BY <1>1, <1>5, CreateOutputWrites
  <2>2. ASSUME NEW f \in Paths, NEW c \in [data : SUBSET Data, writers : SUBSET Requests],
               output' = [output EXCEPT ![s] = Assign(output[s], f, c)]
        PROVE  DiskType'
    <3> HIDE DEF s
    <3>1. /\ DOMAIN Assign(output[s], f, c) \subseteq Paths
          /\ \A g \in DOMAIN Assign(output[s], f, c) :
               Assign(output[s], f, c)[g] \in [data : SUBSET Data, writers : SUBSET Requests]
      BY <1>1 DEF Assign, DiskType
    <3> QED
      BY <1>1, <2>1, <2>2, <3>1 DEF DiskType
  <2>3. CASE UNCHANGED output
    BY <1>1, <2>1, <2>3 DEF DiskType
  <2>4. /\ [data |-> store[s], writers |-> Writers(r)] \in [data : SUBSET Data, writers : SUBSET Requests]
        /\ [data |-> {}, writers |-> {}] \in [data : SUBSET Data, writers : SUBSET Requests]
        /\ "empty" \in Paths /\ "output" \in Paths
    BY <1>1 DEF DiskType, Paths, Writers
  <2> QED
    BY <1>1, <1>5, <2>2, <2>3, <2>4, CreateOutputWrites
<1>6. CASE WriteOutput(r)
  <2>1. UNCHANGED <<staged, store, unloaded, mingled>>
    BY <1>1, <1>6, WriteOutputWrites
  <2>2. UNCHANGED output \/ output' = [output EXCEPT ![s] = Written(r)]
    BY <1>1, <1>6, WriteOutputIs
  <2>3. /\ DOMAIN Written(r) \subseteq Paths
        /\ \A f \in DOMAIN Written(r) : Written(r)[f] \in [data : SUBSET Data, writers : SUBSET Requests]
    <3> USE DEF Written
    <3> QED
      BY <1>1 DEF DiskType
  <2> HIDE DEF s
  <2> QED
    BY <1>1, <2>1, <2>2, <2>3 DEF DiskType
<1>7. CASE UNCHANGED diskVars
  BY <1>1, <1>7 DEF DiskType, diskVars
<1> QED
  BY <1>2, <1>3, <1>4, <1>5, <1>6, <1>7, DiskStays

\* What the web and the server know has the right type after a step.
LEMMA StateTypeStep ==
  ASSUME TypeInv, NEW r \in Requests, Handle(r)
  PROVE  /\ UNCHANGED <<version, allowed, generation>> /\ requested' \subseteq Protected
         /\ DOMAIN services' \subseteq reserved' /\ \A s \in DOMAIN services' : services'[s] \in Known
         /\ tokens' \in [Sources -> Tokens \cup {NoToken}]
<1> USE DEF TypeInv
<1>1. reserved \subseteq reserved'
  BY HandleFits
<1>2. CASE Exchange(r)
  <2>1. Source(r) \in Protected
    BY <1>2, ExchangeIs, LabelsFit DEF LabelFits
  <2> QED
    BY <1>1, <1>2, <2>1 DEF Exchange, TypeOK, serverVars
<1>3. CASE KeepToken(r)
  <2>1. loc[r].token \in Tokens
    BY <1>3, LocalTypes DEF KeepToken, TypeOK, At, Locals
  <2> QED
    BY <1>1, <1>3, <2>1 DEF KeepToken, TypeOK, worldVars
<1>4. CASE Store(r)
  <2>1. /\ services' = Assign(services, Service(r), loc[r].copy)
        /\ UNCHANGED <<worldVars, reserved, tokens>>
    BY <1>4 DEF Store
  <2>2. Service(r) \in reserved /\ loc[r].copy \in Known
    BY <1>4, LocalTypes DEF Store, At, Fits, Active
  <2> QED
    BY <2>1, <2>2 DEF Assign, TypeOK, worldVars
<1>5. CASE ~Exchange(r) /\ ~KeepToken(r) /\ ~Store(r)
  <2>1. UNCHANGED <<worldVars, services, tokens>>
    BY <1>5 DEF Handle, Reserve, Lookup, Begin, Stat, Validate, Head, Fetch, FetchCached, Retry,
                Clear, Stage, Load, CreateOutput, WriteOutput, Serve, serverVars
  <2> QED
    BY <1>1, <2>1 DEF worldVars, TypeOK
<1> QED
  BY <1>2, <1>3, <1>4, <1>5

\* What Fail does.
LEMMA FailIs ==
  ASSUME TypeOK, NEW r \in Requests, Fail(r)
  PROVE  /\ failed' \in [Requests -> BOOLEAN] /\ failed'[r]
         /\ \A q \in Requests : failed[q] \/ Service(q) = Service(r) => failed'[q]
         /\ \A q \in Requests \ {r} : Service(q) # Service(r) => failed'[q] = failed[q]
  BY Zenon DEF Fail, TypeOK

LEMMA FailedStep ==
  ASSUME TypeOK, NEW r \in Requests, Handle(r), ~Reserve(r), ~Lookup(r)
  PROVE  UNCHANGED failed \/ Fail(r)
<1>1. CASE Stat(r) \/ Validate(r) \/ KeepToken(r) \/ Load(r) \/ Store(r) \/ Serve(r)
  BY <1>1 DEF Stat, Validate, KeepToken, Load, Store, Serve, historyVars
<1>2. CASE Head(r)
  BY <1>2, HeadIs
<1>3. CASE Fetch(r)
  BY <1>3, FetchIs DEF Receives, Skips
<1>4. CASE FetchCached(r)
  BY <1>4, FetchCachedIs DEF Receives, Skips
<1>5. CASE Exchange(r)
  BY <1>5, ExchangeIs DEF Skips
<1>6. CASE Retry(r)
  BY <1>6, RetryIs DEF Receives, Skips
<1>7. CASE Stage(r)
  BY <1>7, StageIs DEF StagesIt, Skips
<1>8. CASE CreateOutput(r) \/ WriteOutput(r)
  BY <1>8, CreateOutputIs, WriteOutputIs DEF Creates
<1>9. CASE Clear(r)
  BY <1>9, ClearIs DEF Clears, FailsToClear
<1> QED
  BY <1>1, <1>2, <1>3, <1>4, <1>5, <1>6, <1>7, <1>8, <1>9 DEF Handle

HistoryType ==
  /\ since \in [Requests -> [Tagged -> Versions]]
  /\ barred \in [Requests -> SUBSET Protected]
  /\ failed \in [Requests -> BOOLEAN]

\* The history of a request begins with it.
LEMMA HistoryStays ==
  ASSUME TypeOK, NEW r \in Requests, Handle(r), ~Reserve(r), ~Lookup(r)
  PROVE  UNCHANGED <<since, barred>>
  BY DEF Handle, Stat, Validate, Head, Fetch, FetchCached, Exchange, KeepToken, Retry, Clear,
         Stage, Load, CreateOutput, WriteOutput, Store, Serve, historyVars, requestHistory

LEMMA HistoryTypeStep ==
  ASSUME TypeInv, NEW r \in Requests, Handle(r)
  PROVE  HistoryType'
<1> USE DEF TypeInv
<1>1. HistoryType /\ version \in [Sources -> Versions]
  BY DEF TypeOK, HistoryType
<1>2. ASSUME NEW s \in Services, NEW op, NEW copy, NEW l, Begin(r, s, op, copy, l)
      PROVE  HistoryType'
  <2>1. [x \in Tagged |-> version[x]] \in [Tagged -> Versions]
    BY <1>1
  <2>2. (\E q \in Requests \ {r} : Materializing(q) /\ Service(q) = s /\ failed[q]) \in BOOLEAN
    OBVIOUS
  <2>3. /\ since' = [since EXCEPT ![r] = [x \in Tagged |-> version[x]]]
        /\ barred' = [barred EXCEPT ![r] = Protected \ allowed]
        /\ failed' = [failed EXCEPT ![r] =
              \E q \in Requests \ {r} : Materializing(q) /\ Service(q) = s /\ failed[q]]
    BY <1>2 DEF Begin
  <2>4. failed' \in [Requests -> BOOLEAN]
    BY <1>1, <2>2, <2>3, Zenon DEF HistoryType
  <2>5. since' \in [Requests -> [Tagged -> Versions]]
    BY <1>1, <2>1, <2>3 DEF HistoryType
  <2> QED
    BY <1>1, <2>3, <2>4, <2>5 DEF HistoryType
<1>3. CASE Reserve(r)
  BY <1>2, <1>3, ReserveIs
<1>4. CASE Lookup(r)
  <2>1. Service(r)' \in Services
    BY <1>4, LookupIs DEF TypeOK
  <2> QED
    BY <1>2, <1>4, <2>1, LookupIs
<1>5. CASE ~Reserve(r) /\ ~Lookup(r)
  <2>1. failed' \in [Requests -> BOOLEAN]
    BY <1>1, <1>5, FailedStep, FailIs DEF HistoryType
  <2>2. UNCHANGED <<since, barred>>
    BY <1>5, HistoryStays
  <2> QED
    BY <1>1, <2>1, <2>2 DEF HistoryType
<1> QED
  BY <1>3, <1>4, <1>5

\* Only the sources change.
WebMoves(x) ==
  /\ \/ version' = version
     \/ version' = [version EXCEPT ![x] = @ + 1] /\ allowed' = allowed /\ barred' = barred
  /\ barred' \in [Requests -> SUBSET Protected]
  /\ \A r \in Requests : barred'[r] \subseteq barred[r]
  /\ \A r \in Requests : barred[r] \cap allowed = {} => barred'[r] \cap allowed' = {}
  /\ UNCHANGED <<serverVars, diskVars, pc, loc, since, failed>>

LEMMA WebStep ==
  ASSUME TypeOK, NEW x \in Sources, Publish(x) \/ Expire(x) \/ Withdraw(x) \/ Grant(x)
  PROVE  TypeOK' /\ WebMoves(x)
<1> USE DEF TypeOK, serverVars, diskVars, historyVars, requestHistory
<1>0. barred \in [Requests -> SUBSET Protected] /\ version \in [Sources -> Versions]
  OBVIOUS
<1>1. CASE Publish(x)
  <2>1. version[x] + 1 \in Versions
    BY <1>0, <1>1 DEF Publish, Versions
  <2>2. version' = [version EXCEPT ![x] = @ + 1] /\ version' \in [Sources -> Versions]
    BY <1>0, <1>1, <2>1 DEF Publish
  <2> QED
    BY <1>0, <1>1, <2>2 DEF Publish, WebMoves, Service, Source
<1>2. CASE Expire(x)
  <2>1. generation[x] + 1 \in Tokens
    BY <1>2 DEF Expire, Tokens
  <2>2. generation' \in [Sources -> Tokens]
    BY <1>2, <2>1 DEF Expire
  <2> QED
    BY <1>0, <1>2, <2>2 DEF Expire, WebMoves, Service, Source
<1>3. CASE Withdraw(x)
  BY <1>0, <1>3 DEF Withdraw, WebMoves, Service, Source
<1>4. CASE Grant(x)
  <2>1. /\ barred' \in [Requests -> SUBSET Protected]
        /\ \A r \in Requests : barred'[r] = barred[r] \ {x}
    BY <1>0, <1>4 DEF Grant
  <2>2. allowed' = allowed \cup {x} /\ requested' = requested \ {x} /\ x \in requested
    BY <1>4 DEF Grant
  <2>3. UNCHANGED <<version, generation, serverVars, diskVars, pc, loc, since, failed>>
    BY <1>4 DEF Grant
  <2> QED
    BY <2>1, <2>2, <2>3 DEF WebMoves, Service, Source
<1> QED
  BY <1>1, <1>2, <1>3, <1>4

LEMMA TypeStep ==
  ASSUME TypeInv, [Next]_vars
  PROVE  TypeInv'
<1>1. ASSUME NEW r \in Requests, Handle(r)
      PROVE  TypeInv'
  <2>1. /\ reserved \subseteq reserved' /\ reserved' \subseteq Services
        /\ Fits(r)' /\ LabelFits(r)' /\ \E l \in Labels : Becomes(r, l)
    BY <1>1, HandleFits
  <2>2. /\ pc' \in [Requests -> Labels] /\ loc' \in [Requests -> Locals]
        /\ \A q \in Requests \ {r} : pc'[q] = pc[q] /\ loc'[q] = loc[q]
    BY <2>1, BecomesIs DEF TypeInv
  <2>3. ASSUME NEW q \in Requests
        PROVE  Fits(q)' /\ LabelFits(q)'
    <3>1. CASE q = r
      BY <2>1, <3>1
    <3>2. CASE q # r
      <4>1. pc'[q] = pc[q] /\ loc'[q] = loc[q] /\ Fits(q) /\ LabelFits(q)
        BY <2>2, <3>2, LabelsFit DEF TypeInv
      <4> QED
        BY <2>1, <4>1 DEF Fits, LabelFits, Active, Checking, Validating, Service, Source, Recorded
    <3> QED
      BY <3>1, <3>2
  <2>4. DiskType' /\ HistoryType'
    BY <1>1, DiskTypeStep, HistoryTypeStep
  <2>5. /\ UNCHANGED <<version, allowed, generation>> /\ requested' \subseteq Protected
        /\ DOMAIN services' \subseteq reserved' /\ \A s \in DOMAIN services' : services'[s] \in Known
        /\ tokens' \in [Sources -> Tokens \cup {NoToken}]
    BY <1>1, StateTypeStep
  <2>6. version \in [Sources -> Versions] /\ allowed \subseteq Protected /\ generation \in [Sources -> Tokens]
    BY DEF TypeInv, TypeOK
  <2>7. TypeOK'
    BY <2>1, <2>2, <2>3, <2>4, <2>5, <2>6
    DEF TypeOK, DiskType, HistoryType, LabelFits, Locals, Recorded
  <2> QED
    BY <2>3, <2>7 DEF TypeInv
<1>2. ASSUME NEW x \in Sources, Publish(x) \/ Expire(x) \/ Withdraw(x) \/ Grant(x)
      PROVE  TypeInv'
  <2>1. TypeOK' /\ UNCHANGED <<pc, loc, reserved>>
    BY <1>2, WebStep DEF TypeInv, WebMoves, serverVars
  <2> QED
    BY <2>1 DEF TypeInv, Fits, Active, Checking, Validating, Service, Source, Recorded
<1>3. CASE UNCHANGED vars
  BY <1>3 DEF vars, worldVars, serverVars, diskVars, historyVars, requestHistory, TypeInv, TypeOK,
     Fits, Active, Checking, Validating, Service, Source, Recorded
<1> QED
  BY <1>1, <1>2, <1>3 DEF Next
-----------------------------------------------------------------------------
(***************************************************************************)
(* The kinds of steps that the invariants tell apart.                      *)
(***************************************************************************)
Quiet == UNCHANGED <<diskVars, since, barred>>

\* A comparison of what is known with the sources goes on, or ends.
Checks(r) ==
  /\ Checking(r) /\ Quiet /\ UNCHANGED services
  /\ UNCHANGED failed \/ Fail(r)
  /\ \/ /\ pc[r] = "stat" /\ ~Outdated(r) /\ Continues(r, "validate")
        /\ loc'[r].copy = loc[r].copy /\ loc'[r].method = "GET"
        /\ loc'[r].todo = {x \in Recorded(r) : loc[r].copy.etags[x] # NoETag}
     \/ pc[r] = "validate" /\ loc[r].todo = {} /\ Continues(r, "serve") /\ loc'[r] = loc[r]
     \/ /\ Validating(r)
        /\ \E l \in {"head", "exchange", "keep", "retry"} : Continues(r, l)
        /\ loc'[r].copy = loc[r].copy /\ loc'[r].method = "HEAD" /\ loc'[r].todo = loc[r].todo
     \/ /\ Validating(r) /\ pc[r] # "validate" /\ Continues(r, "validate")
        /\ version[Source(r)] = loc[r].copy.etags[Source(r)]
        /\ Source(r) \notin Protected \ allowed
        /\ loc'[r].copy = loc[r].copy /\ loc'[r].method = "GET"
        /\ loc'[r].todo = loc[r].todo \ {Source(r)}
     \/ Continues(r, "clear") /\ loc'[r] = loc[r]
     \/ Becomes(r, "idle") /\ loc'[r] = Idle

\* A materialization asks for a source, or leaves it out.
Pursues(r) ==
  /\ pc[r] = "next" \/ Fetching(r)
  /\ Quiet /\ UNCHANGED services
  /\ loc'[r].copy = loc[r].copy /\ loc'[r].method = "GET"
  /\ \/ /\ Continues(r, "next") /\ Fail(r)
        /\ loc'[r].todo \subseteq loc[r].todo
     \/ /\ \E l \in {"cached", "exchange", "keep", "retry", "stage"} : Continues(r, l)
        /\ UNCHANGED failed
        /\ IF pc[r] = "next"
           THEN loc'[r].source \in loc[r].todo /\ loc'[r].todo = loc[r].todo \ {loc'[r].source}
           ELSE /\ loc'[r].source = loc[r].source
                /\ loc'[r].todo \in {loc[r].todo, loc[r].todo \ {Source(r)}}
        /\ pc'[r] = "stage" =>
             loc'[r].body = version[loc'[r].source] /\ loc'[r].source \notin Protected \ allowed

LEMMA SkipsPursue ==
  ASSUME TypeOK, NEW r \in Requests, NEW x, Skips(r, x), pc[r] = "next" \/ Fetching(r),
         Quiet, UNCHANGED services
  PROVE  Pursues(r)
  BY DEF Skips, Pursues

LEMMA ReceivesPursue ==
  ASSUME TypeOK, NEW r \in Requests, NEW x, Receives(r, x), pc[r] = "next" \/ Fetching(r),
         IF pc[r] = "next" THEN x \in loc[r].todo ELSE x = Source(r),
         Quiet, UNCHANGED services
  PROVE  Pursues(r)
  BY DEF Receives, Pursues, Source

LEMMA Kinds ==
  ASSUME TypeInv, NEW r \in Requests, Handle(r)
  PROVE  \/ Reserve(r) \/ Lookup(r) \/ Checks(r) \/ Clear(r) \/ Pursues(r)
         \/ Stage(r) /\ StagesIt(r)
         \/ Load(r) \/ CreateOutput(r) \/ WriteOutput(r) \/ Store(r) \/ Serve(r)
<1> USE DEF TypeInv
<1>0. Fits(r) /\ loc[r].method \in {"GET", "HEAD"}
  BY LocalTypes DEF Locals
<1> SUFFICES ASSUME Stat(r) \/ Validate(r) \/ Head(r) \/ Fetch(r) \/ FetchCached(r) \/ Exchange(r)
                    \/ KeepToken(r) \/ Retry(r) \/ (Stage(r) /\ Skips(r, Source(r)) /\ UNCHANGED staged)
             PROVE  Checks(r) \/ Pursues(r)
  BY StageIs DEF Handle
<1>1. Quiet /\ UNCHANGED services
  BY DEF Stat, Validate, Head, Fetch, FetchCached, Exchange, KeepToken, Retry, Stage,
         Quiet, serverVars, diskVars, historyVars, requestHistory
<1>2. CASE Stat(r)
  BY <1>0, <1>1, <1>2, StatIs DEF Checks, Checking, Fits, Stat, historyVars
<1>3. CASE Validate(r)
  <2>1. pc[r] = "validate" /\ Checking(r) /\ Validating(r)
    BY <1>3, ValidateIs DEF Checking, Validating
  <2>2. UNCHANGED failed
    BY <1>3 DEF Validate, historyVars
  <2> QED
    BY <1>1, <1>3, <2>1, <2>2, ValidateIs DEF Checks
<1>4. CASE Head(r)
  <2>1. pc[r] = "head" /\ Checking(r) /\ Validating(r) /\ loc[r].method = "HEAD"
    BY <1>0, <1>4, HeadIs DEF Checking, Validating, Fits
  <2>2. CASE Compared(r) /\ UNCHANGED failed
    BY <1>1, <2>1, <2>2 DEF Checks, Compared
  <2>3. CASE Continues(r, "exchange") /\ loc'[r] = loc[r] /\ UNCHANGED failed
    BY <1>1, <2>1, <2>3 DEF Checks
  <2>4. CASE Becomes(r, "idle") /\ loc'[r] = Idle /\ Fail(r)
    BY <1>1, <2>1, <2>4 DEF Checks
  <2>5. CASE Continues(r, "clear") /\ loc'[r] = loc[r] /\ Fail(r)
    BY <1>1, <2>1, <2>5 DEF Checks
  <2> QED
    BY <1>4, <2>2, <2>3, <2>4, <2>5, HeadIs
<1>5. CASE Fetch(r)
  <2>1. pc[r] = "next"
    BY <1>5, FetchIs
  <2>2. PICK x \in loc[r].todo :
          \/ Receives(r, x)
          \/ Skips(r, x)
          \/ /\ x \in Protected /\ UNCHANGED failed
             /\ Continues(r, IF tokens[x] = NoToken THEN "exchange" ELSE "cached")
             /\ loc'[r].copy = loc[r].copy /\ loc'[r].method = "GET"
             /\ loc'[r].source = x /\ loc'[r].todo = loc[r].todo \ {x}
             /\ tokens[x] # NoToken => loc'[r].token # NoToken
    BY <1>5, FetchIs
  <2>3. CASE Receives(r, x)
    BY <1>1, <2>1, <2>3, ReceivesPursue
  <2>4. CASE Skips(r, x)
    BY <1>1, <2>1, <2>4, SkipsPursue
  <2>5. CASE /\ UNCHANGED failed
             /\ Continues(r, IF tokens[x] = NoToken THEN "exchange" ELSE "cached")
             /\ loc'[r].copy = loc[r].copy /\ loc'[r].method = "GET"
             /\ loc'[r].source = x /\ loc'[r].todo = loc[r].todo \ {x}
    <3>1. PICK l \in {"cached", "exchange"} : Continues(r, l)
      BY <2>5
    <3>2. pc'[r] = l
      BY <3>1, BecomesIs DEF Continues, Labels
    <3> QED
      BY <1>1, <2>1, <2>5, <3>1, <3>2 DEF Pursues
  <2> QED
    BY <2>2, <2>3, <2>4, <2>5
<1>6. CASE FetchCached(r)
  <2>1. pc[r] = "cached" /\ Fetching(r) /\ pc[r] # "next" /\ loc[r].method = "GET"
    BY <1>0, <1>6, FetchCachedIs DEF Fits, Fetching
  <2>2. CASE Receives(r, Source(r))
    BY <1>1, <2>1, <2>2, ReceivesPursue
  <2>3. CASE Skips(r, Source(r))
    BY <1>1, <2>1, <2>3, SkipsPursue
  <2>4. CASE Continues(r, "exchange") /\ loc'[r] = loc[r] /\ UNCHANGED failed
    <3>1. pc'[r] = "exchange"
      BY <2>4, BecomesIs DEF Continues, Labels
    <3> QED
      BY <1>1, <2>1, <2>4, <3>1 DEF Pursues
  <2> QED
    BY <1>6, <2>2, <2>3, <2>4, FetchCachedIs
<1>7. CASE Exchange(r)
  <2>1. pc[r] = "exchange"
    BY <1>7, ExchangeIs
  <2>2. CASE loc[r].method = "HEAD"
    <3>1. Checking(r) /\ Validating(r)
      BY <2>1, <2>2 DEF Checking, Validating
    <3> QED
      BY <1>1, <1>7, <2>2, <3>1, ExchangeIs DEF Checks
  <2>3. CASE loc[r].method = "GET"
    <3>1. Fetching(r)
      BY <2>1, <2>3 DEF Fetching
    <3>2. CASE Skips(r, Source(r))
      BY <1>1, <3>1, <3>2, SkipsPursue
    <3>3. CASE /\ Continues(r, "keep") /\ UNCHANGED failed
               /\ loc'[r].copy = loc[r].copy /\ loc'[r].method = loc[r].method
               /\ loc'[r].source = loc[r].source /\ loc'[r].todo = loc[r].todo
      <4>1. pc'[r] = "keep"
        BY <3>3, BecomesIs DEF Continues, Labels
      <4> QED
        BY <1>1, <2>1, <2>3, <3>1, <3>3, <4>1 DEF Pursues
    <3> QED
      BY <1>7, <2>3, <3>2, <3>3, ExchangeIs
  <2> QED
    BY <1>0, <2>2, <2>3
<1>8. CASE KeepToken(r)
  <2>1. pc[r] = "keep" /\ Continues(r, "retry") /\ loc'[r] = loc[r] /\ pc'[r] = "retry"
    BY <1>8, KeepTokenIs, BecomesIs DEF Continues, Labels
  <2>2. UNCHANGED failed
    BY <1>8 DEF KeepToken, historyVars
  <2>3. CASE loc[r].method = "HEAD"
    BY <1>1, <2>1, <2>2, <2>3 DEF Checks, Checking, Validating
  <2>4. CASE loc[r].method = "GET"
    BY <1>1, <2>1, <2>2, <2>4 DEF Pursues, Fetching
  <2> QED
    BY <1>0, <2>3, <2>4
<1>9. CASE Retry(r)
  <2>1. pc[r] = "retry"
    BY <1>9, RetryIs
  <2>2. CASE loc[r].method = "HEAD"
    <3>1. Checking(r) /\ Validating(r) /\ pc[r] # "validate"
      BY <2>1, <2>2 DEF Checking, Validating
    <3>2. CASE Compared(r) /\ UNCHANGED failed
      BY <1>1, <3>1, <3>2 DEF Checks, Compared
    <3>3. CASE Becomes(r, "idle") /\ loc'[r] = Idle /\ Fail(r)
      BY <1>1, <3>1, <3>3 DEF Checks
    <3>4. CASE Continues(r, "clear") /\ loc'[r] = loc[r] /\ Fail(r)
      BY <1>1, <3>1, <3>4 DEF Checks
    <3> QED
      BY <1>9, <2>2, <3>2, <3>3, <3>4, RetryIs
  <2>3. CASE loc[r].method = "GET"
    <3>1. Fetching(r) /\ pc[r] # "next"
      BY <2>1, <2>3 DEF Fetching
    <3>2. CASE Receives(r, Source(r))
      BY <1>1, <3>1, <3>2, ReceivesPursue
    <3>3. CASE Skips(r, Source(r))
      BY <1>1, <3>1, <3>3, SkipsPursue
    <3> QED
      BY <1>9, <2>3, <3>2, <3>3, RetryIs
  <2> QED
    BY <1>0, <2>2, <2>3
<1>10. CASE Stage(r) /\ Skips(r, Source(r)) /\ UNCHANGED staged
  <2>1. pc[r] = "stage" /\ Fetching(r)
    BY <1>0, <1>10, StageIs DEF Fits, Fetching
  <2> QED
    BY <1>1, <1>10, <2>1, SkipsPursue
<1> QED
  BY <1>2, <1>3, <1>4, <1>5, <1>6, <1>7, <1>8, <1>9, <1>10
-----------------------------------------------------------------------------
(***************************************************************************)
(* Who works in which directories.                                         *)
(***************************************************************************)
\* The output is created, or its results are written.
CreatesIt(r) ==
  \/ Recorded(r) = {} /\ Creates(r, "empty", {}, {}, "store")
  \/ Recorded(r) # {} /\ Creates(r, "output", store[Service(r)], Writers(r), "write")

WritesIt(r) ==
  /\ Continues(r, "store") /\ loc'[r] = loc[r] /\ UNCHANGED failed
  /\ output' = [output EXCEPT ![Service(r)] = Written(r)]

\* A materialization goes on.
Works(r) ==
  \/ Pursues(r) \/ (Stage(r) /\ StagesIt(r)) \/ Load(r)
  \/ (CreateOutput(r) /\ CreatesIt(r)) \/ (WriteOutput(r) /\ WritesIt(r))

\* Nothing happens in the directories of a service.
Untouched(s) ==
  /\ staged'[s] = staged[s] /\ store'[s] = store[s]
  /\ output'[s] = output[s] /\ unloaded'[s] = unloaded[s]
  /\ mingled'[s] <=> mingled[s]

LEMMA FetchingMaterializes ==
  ASSUME NEW r \in Requests, pc[r] = "next" \/ Fetching(r)
  PROVE  Materializing(r)
  BY DEF Fetching, Materializing

LEMMA PursuesIs ==
  ASSUME TypeInv, NEW r \in Requests, Pursues(r)
  PROVE  /\ Materializing(r) /\ Materializing(r)'
         /\ loc'[r].op = loc[r].op /\ loc'[r].service = loc[r].service
         /\ \A q \in Requests \ {r} : pc'[q] = pc[q] /\ loc'[q] = loc[q]
         /\ \/ pc'[r] = "next" /\ Fail(r) /\ loc'[r].todo \subseteq loc[r].todo
            \/ Fetching(r)' /\ UNCHANGED failed
<1> USE DEF TypeInv
<1>1. Materializing(r)
  BY FetchingMaterializes DEF Pursues
<1>2. CASE Continues(r, "next") /\ Fail(r) /\ loc'[r].todo \subseteq loc[r].todo
  <2>1. pc'[r] = "next" /\ \A q \in Requests \ {r} : pc'[q] = pc[q] /\ loc'[q] = loc[q]
    BY <1>2, BecomesIs DEF Continues, Labels
  <2> QED
    BY <1>1, <1>2, <2>1 DEF Materializing, Continues
<1>3. CASE (\E l \in {"cached", "exchange", "keep", "retry", "stage"} : Continues(r, l)) /\ UNCHANGED failed
  <2>1. PICK l \in {"cached", "exchange", "keep", "retry", "stage"} : Continues(r, l)
    BY <1>3
  <2>2. pc'[r] = l /\ \A q \in Requests \ {r} : pc'[q] = pc[q] /\ loc'[q] = loc[q]
    BY <2>1, BecomesIs DEF Continues, Labels
  <2>3. loc'[r].method = "GET"
    BY DEF Pursues
  <2> QED
    BY <1>1, <1>3, <2>1, <2>2, <2>3 DEF Materializing, Fetching, Continues
<1> QED
  BY <1>2, <1>3 DEF Pursues

LEMMA WorksIs ==
  ASSUME TypeInv, NEW r \in Requests, Works(r)
  PROVE  /\ Materializing(r) /\ Materializing(r)'
         /\ loc'[r].op = loc[r].op /\ loc'[r].service = loc[r].service
         /\ \A q \in Requests \ {r} : pc'[q] = pc[q] /\ loc'[q] = loc[q]
<1> USE DEF TypeInv
<1>1. CASE Pursues(r)
  BY <1>1, PursuesIs
<1>2. CASE Stage(r) /\ StagesIt(r)
  <2>1. pc[r] = "stage" /\ Continues(r, "load")
    BY <1>2, StageIs DEF StagesIt
  <2>2. pc'[r] = "load" /\ \A q \in Requests \ {r} : pc'[q] = pc[q] /\ loc'[q] = loc[q]
    BY <2>1, BecomesIs DEF Continues, Labels
  <2> QED
    BY <2>1, <2>2 DEF Continues, Materializing
<1>3. CASE Load(r)
  <2>1. pc[r] = "load" /\ Continues(r, "next")
    BY <1>3, LoadIs
  <2>2. pc'[r] = "next" /\ \A q \in Requests \ {r} : pc'[q] = pc[q] /\ loc'[q] = loc[q]
    BY <2>1, BecomesIs DEF Continues, Labels
  <2> QED
    BY <2>1, <2>2 DEF Continues, Materializing
<1>4. CASE CreateOutput(r) /\ CreatesIt(r)
  <2>1. pc[r] = "next" /\ \E l \in {"store", "write"} : Continues(r, l)
    BY <1>4, CreateOutputIs DEF CreatesIt, Creates
  <2>2. PICK l \in {"store", "write"} : Continues(r, l)
    BY <2>1
  <2>3. pc'[r] = l /\ \A q \in Requests \ {r} : pc'[q] = pc[q] /\ loc'[q] = loc[q]
    BY <2>2, BecomesIs DEF Continues, Labels
  <2> QED
    BY <2>1, <2>2, <2>3 DEF Continues, Materializing
<1>5. CASE WriteOutput(r) /\ WritesIt(r)
  <2>1. pc[r] = "write" /\ Continues(r, "store")
    BY <1>5, WriteOutputIs DEF WritesIt
  <2>2. pc'[r] = "store" /\ \A q \in Requests \ {r} : pc'[q] = pc[q] /\ loc'[q] = loc[q]
    BY <2>1, BecomesIs DEF Continues, Labels
  <2> QED
    BY <2>1, <2>2 DEF Continues, Materializing
<1> QED
  BY <1>1, <1>2, <1>3, <1>4, <1>5 DEF Works

\* Whoever is materializing after a step was before, or has emptied the directories.
LEMMA MaterializingStep ==
  ASSUME TypeInv, NEW r \in Requests, Handle(r)
  PROVE  Materializing(r)' => (Clear(r) /\ Clears(r)) \/ Works(r)
<1> SUFFICES ASSUME ~(Clear(r) /\ Clears(r)), ~Works(r) PROVE ~Materializing(r)'
  OBVIOUS
<1> USE DEF TypeInv, Materializing
<1>0. ASSUME NEW l \in {"idle", "stat", "validate", "serve", "clear"}, Becomes(r, l)
      PROVE  ~Materializing(r)'
  <2>1. pc'[r] = l
    BY <1>0, BecomesIs DEF Labels
  <2> QED
    BY <2>1
<1>1. CASE Reserve(r)
  BY <1>0, <1>1, ReserveIs
<1>2. CASE Lookup(r)
  BY <1>0, <1>2, LookupIs
<1>3. CASE Checks(r)
  <2>1. ASSUME NEW l \in {"head", "exchange", "keep", "retry"}, Becomes(r, l), loc'[r].method = "HEAD"
        PROVE  ~Materializing(r)'
    <3>1. pc'[r] = l
      BY <2>1, BecomesIs DEF Labels
    <3> QED
      BY <2>1, <3>1
  <2> QED
    BY <1>0, <1>3, <2>1 DEF Checks, Continues
<1>4. CASE Clear(r)
  BY <1>0, <1>4, ClearIs DEF FailsToClear
<1>5. CASE CreateOutput(r)
  BY <1>0, <1>5, CreateOutputIs DEF Works, CreatesIt
<1>6. CASE WriteOutput(r)
  BY <1>0, <1>6, WriteOutputIs DEF Works, WritesIt
<1>7. CASE Store(r)
  BY <1>0, <1>7, StoreIs DEF Continues
<1>8. CASE Serve(r)
  BY <1>0, <1>8, ServeIs
<1> QED
  BY <1>1, <1>2, <1>3, <1>4, <1>5, <1>6, <1>7, <1>8, Kinds DEF Works

\* The directories when a request has tried to empty them.
LEMMA ClearEmpties ==
  ASSUME TypeInv, NEW r \in Requests, Clear(r)
  PROVE  LET s == Service(r) IN
         /\ \A t \in Services \ {s} : Untouched(t)
         /\ \/ staged'[s] = EmptyMap /\ store'[s] = {}
            \/ staged'[s] = staged[s] /\ store'[s] = store[s]
         /\ \/ output'[s] = EmptyMap /\ unloaded'[s] = {}
            \/ output'[s] = output[s] /\ unloaded'[s] = unloaded[s]
         /\ Clears(r) => /\ staged'[s] = EmptyMap /\ store'[s] = {}
                         /\ output'[s] = EmptyMap /\ unloaded'[s] = {}
                         /\ mingled'[s] <=> Interferes(r)
         /\ FailsToClear(r) => (mingled'[s] <=> mingled[s] \/ Interferes(r))
<1>s. PICK s \in Services : s = Service(r)
  BY LocalTypes DEF TypeInv
<1> USE <1>s
<1>1. DiskType
  BY DEF TypeInv, TypeOK, DiskType
<1>2. /\ EmptyWorkspace(r) => /\ staged'[s] = EmptyMap /\ store'[s] = {}
                              /\ \A t \in Services \ {s} : staged'[t] = staged[t] /\ store'[t] = store[t]
      /\ EmptyOutput(r) => /\ output'[s] = EmptyMap /\ unloaded'[s] = {}
                           /\ \A t \in Services \ {s} : output'[t] = output[t] /\ unloaded'[t] = unloaded[t]
  BY <1>1 DEF EmptyWorkspace, EmptyOutput, DiskType
<1>3. CASE Clears(r)
  <2>1. mingled' = [mingled EXCEPT ![s] = Interferes(r)]
    BY <1>3 DEF Clears
  <2>2. (mingled'[s] <=> Interferes(r)) /\ \A t \in Services \ {s} : mingled'[t] <=> mingled[t]
    BY <1>1, <2>1, Zenon DEF DiskType
  <2>3. ~FailsToClear(r)
    <3>1. pc'[r] = "next"
      BY <1>3, BecomesIs DEF TypeInv, Clears, Continues, Labels
    <3> QED
      BY <3>1, BecomesIs DEF TypeInv, FailsToClear, Labels
  <2> QED
    BY <1>2, <1>3, <2>2, <2>3 DEF Clears, Untouched
<1>4. CASE FailsToClear(r)
  <2>1. mingled' = [mingled EXCEPT ![s] = mingled[s] \/ Interferes(r)]
    BY <1>4 DEF FailsToClear, Disturb
  <2>2. (mingled'[s] <=> mingled[s] \/ Interferes(r)) /\ \A t \in Services \ {s} : mingled'[t] <=> mingled[t]
    BY <1>1, <2>1, Zenon DEF DiskType
  <2>3. ~Clears(r)
    <3>1. pc'[r] = "idle"
      BY <1>4, BecomesIs DEF TypeInv, FailsToClear, Labels
    <3> QED
      BY <3>1, BecomesIs DEF TypeInv, Clears, Continues, Labels
  <2> QED
    BY <1>2, <1>4, <2>2, <2>3 DEF FailsToClear, Untouched
<1> QED
  BY <1>3, <1>4, ClearIs DEF TypeInv

\* Who empties the directories mingles them, or starts anew.
LEMMA MingledStays ==
  ASSUME TypeInv, NEW r \in Requests, Handle(r), ~Clear(r)
  PROVE  mingled' = mingled
  BY DiskStays, StageWrites, LoadWrites, CreateOutputWrites, WriteOutputWrites
  DEF TypeInv, diskVars

LEMMA UnmingledStep ==
  ASSUME TypeInv, NEW r \in Requests, Handle(r), NEW s \in Services, ~mingled'[s]
  PROVE  \/ ~mingled[s]
         \/ Clear(r) /\ Clears(r) /\ s = Service(r) /\ ~Interferes(r)
<1>1. CASE ~Clear(r)
  BY <1>1, MingledStays
<1>2. CASE Clear(r) /\ s # Service(r)
  BY <1>2, ClearEmpties DEF Untouched
<1>3. CASE Clear(r) /\ s = Service(r)
  BY <1>3, ClearEmpties, ClearIs DEF TypeInv
<1> QED
  BY <1>1, <1>2, <1>3

\* A step of r leaves the directories of other services alone, and those of its
\* own service if it is neither materializing it nor about to.
LEMMA OtherDirectories ==
  ASSUME TypeInv, NEW r \in Requests, Handle(r), NEW s \in Services,
         s # Service(r) \/ (~Clear(r) /\ ~Materializing(r))
  PROVE  Untouched(s)
<1> USE DEF TypeInv, Untouched
<1>1. DiskType
  BY DEF TypeOK, DiskType
<1>2. CASE Clear(r)
  BY <1>2, ClearEmpties
<1>3. CASE Stage(r)
  <2>1. Materializing(r)
    BY <1>3, StageIs DEF Materializing
  <2>2. s # Service(r)
    BY <1>3, <2>1 DEF Clear, Stage, At
  <2> QED
    BY <1>1, <1>3, <2>2, StageWrites DEF DiskType
<1>4. CASE Load(r)
  <2>1. Materializing(r)
    BY <1>4, LoadIs DEF Materializing
  <2>2. s # Service(r)
    BY <1>4, <2>1 DEF Clear, Load, At
  <2>3. /\ UNCHANGED <<staged, output, mingled>>
        /\ PutInStore(r) \/ UNCHANGED store
        /\ UNCHANGED unloaded \/
           unloaded' = [unloaded EXCEPT ![Service(r)] = @ \cup {<<Source(r), loc[r].body>>}]
    BY <1>4, LoadWrites
  <2> QED
    BY <1>1, <2>2, <2>3 DEF DiskType, PutInStore
<1>5. CASE CreateOutput(r)
  <2>1. Materializing(r)
    BY <1>5, CreateOutputIs DEF Materializing
  <2>2. s # Service(r)
    BY <1>5, <2>1 DEF Clear, CreateOutput, At
  <2> QED
    BY <1>1, <1>5, <2>2, CreateOutputWrites DEF DiskType
<1>6. CASE WriteOutput(r)
  <2>1. Materializing(r)
    BY <1>6, WriteOutputIs DEF Materializing
  <2>2. s # Service(r)
    BY <1>6, <2>1 DEF Clear, WriteOutput, At
  <2>3. UNCHANGED output \/ output' = [output EXCEPT ![Service(r)] = Written(r)]
    BY <1>6, WriteOutputIs
  <2> QED
    BY <1>1, <1>6, <2>2, <2>3, WriteOutputWrites DEF DiskType
<1> QED
  BY <1>2, <1>3, <1>4, <1>5, <1>6, DiskStays DEF diskVars

\* In the directories of a materialization nobody else is at work, or they are mingled.
LEMMA OthersKeepOut ==
  ASSUME TypeInv, AloneInDirectories, NEW r \in Requests, Handle(r),
         NEW q \in Requests \ {r}, Materializing(q), ~mingled'[Service(q)]
  PROVE  Untouched(Service(q)) /\ ~mingled[Service(q)]
<1>s. PICK s \in Services : s = Service(q)
  BY LocalTypes DEF TypeInv
<1> USE <1>s
<1>1. SUFFICES Untouched(s)
  BY DEF Untouched
<1>2. CASE s # Service(r)
  BY <1>2, OtherDirectories
<1>3. CASE s = Service(r)
  <2>1. ~Clear(r)
    <3>1. SUFFICES ASSUME Clear(r) PROVE FALSE
      OBVIOUS
    <3>2. Interferes(r)
      BY <1>3 DEF Interferes
    <3> QED
      BY <1>3, <3>1, <3>2, ClearEmpties, ClearIs DEF TypeInv
  <2>2. ~mingled[s]
    BY <2>1, MingledStays
  <2>3. ~Materializing(r)
    BY <1>3, <2>2 DEF AloneInDirectories
  <2> QED
    BY <2>1, <2>3, OtherDirectories
<1> QED
  BY <1>2, <1>3

\* Others do not move.
LEMMA OthersStay ==
  ASSUME TypeInv, NEW r \in Requests, Handle(r), NEW q \in Requests \ {r}
  PROVE  pc'[q] = pc[q] /\ loc'[q] = loc[q]
  BY HandleFits, BecomesIs DEF TypeInv

LEMMA AloneStep ==
  ASSUME TypeInv, AloneInDirectories, NEW r \in Requests, Handle(r)
  PROVE  AloneInDirectories'
<1> SUFFICES ASSUME NEW p \in Requests, NEW q \in Requests, p # q,
                    Materializing(p)', Materializing(q)', Service(p)' = Service(q)'
             PROVE  mingled'[Service(p)']
  BY DEF AloneInDirectories
<1>1. \A o \in Requests \ {r} : pc'[o] = pc[o] /\ loc'[o] = loc[o]
  BY OthersStay
<1>2. \A o \in Requests \ {r} : (Materializing(o)' <=> Materializing(o)) /\ Service(o)' = Service(o)
  BY <1>1 DEF Materializing, Service
<1>3. CASE Clear(r) /\ Clears(r)
  <2>1. Service(r)' = Service(r)
    BY <1>3 DEF Clears, Continues, Service
  <2>2. PICK o \in Requests \ {r} : Materializing(o) /\ Service(o) = Service(p)'
    BY <1>2, <2>1
  <2>s. PICK s \in Services : s = Service(o)
    BY LocalTypes DEF TypeInv
  <2>3. CASE s = Service(r)
    BY <1>3, <2>2, <2>s, <2>3, ClearEmpties DEF Interferes
  <2>4. CASE s # Service(r)
    <3>1. p # r /\ q # r
      BY <2>1, <2>2, <2>s, <2>4
    <3>2. mingled[s]
      BY <1>2, <2>2, <2>s, <3>1 DEF AloneInDirectories
    <3> QED
      BY <1>3, <2>2, <2>s, <2>4, <3>2, ClearEmpties DEF Untouched
  <2> QED
    BY <2>3, <2>4
<1>4. CASE ~(Clear(r) /\ Clears(r))
  <2>1. Materializing(r)' => Works(r)
    BY <1>4, MaterializingStep
  <2>2. \A o \in {p, q} : Materializing(o) /\ Service(o)' = Service(o)
    BY <1>2, <2>1, WorksIs DEF Service
  <2>s. PICK s \in Services : s = Service(p)
    BY LocalTypes DEF TypeInv
  <2>3. mingled[s]
    BY <2>2, <2>s DEF AloneInDirectories
  <2> QED
    BY <1>4, <2>2, <2>s, <2>3, UnmingledStep
<1> QED
  BY <1>3, <1>4
-----------------------------------------------------------------------------
(***************************************************************************)
(* A materialization, its sources and its directories.                     *)
(***************************************************************************)
\* Where a materialization is after a step.
LEMMA WorksAt ==
  ASSUME TypeInv, NEW r \in Requests
  PROVE  /\ Clear(r) /\ Clears(r) => pc'[r] = "next"
         /\ Stage(r) /\ StagesIt(r) => pc[r] = "stage" /\ Fetching(r) /\ pc'[r] = "load"
         /\ Load(r) => pc[r] = "load" /\ pc'[r] = "next"
         /\ CreateOutput(r) /\ CreatesIt(r) =>
              pc[r] = "next" /\ pc'[r] = IF Recorded(r) = {} THEN "store" ELSE "write"
         /\ WriteOutput(r) /\ WritesIt(r) => pc[r] = "write" /\ pc'[r] = "store"
<1> USE DEF TypeInv
<1>1. \A l \in Labels : Continues(r, l) => pc'[r] = l
  BY BecomesIs DEF Continues
<1>2. pc[r] = "stage" => Fetching(r)
  BY DEF Fits, Fetching
<1> QED
  BY <1>1, <1>2, StageIs, LoadIs, CreateOutputIs, WriteOutputIs
  DEF Clears, StagesIt, CreatesIt, Creates, WritesIt, Labels

LEMMA PursuesFitsSources ==
  ASSUME TypeInv, NEW r \in Requests, SourcesFit(r), Pursues(r)
  PROVE  SourcesFit(r)'
<1>s. PICK s \in Services : s = Service(r)
  BY LocalTypes DEF TypeInv
<1> USE <1>s
<1> USE DEF TypeInv
<1>1. /\ Materializing(r) /\ Service(r)' = s
      /\ pc'[r] = "next" \/ Fetching(r)'
  BY PursuesIs DEF Service
<1>2. loc'[r].copy = loc[r].copy /\ (pc[r] = "next" \/ Fetching(r))
  BY DEF Pursues
<1>3. /\ ~At(r, "load") /\ ~At(r, "write") /\ ~At(r, "store")
      /\ ~At(r, "load")' /\ ~At(r, "write")' /\ ~At(r, "store")' /\ pc'[r] \notin {"write", "store"}
  BY <1>1, <1>2 DEF At, Fetching
<1>4. Recorded(r)' = Recorded(r)
  BY <1>2 DEF Recorded
<1>5. CASE pc'[r] = "next" /\ loc'[r].todo \subseteq loc[r].todo
  <2>1. ~Fetching(r)'
    BY <1>5 DEF Fetching
  <2> QED
    BY <1>1, <1>2, <1>3, <1>4, <1>5, <2>1 DEF SourcesFit
<1>6. CASE Fetching(r)'
  <2>1. \/ /\ pc[r] = "next" /\ loc'[r].source \in loc[r].todo
           /\ loc'[r].todo = loc[r].todo \ {loc'[r].source}
        \/ /\ pc[r] # "next" /\ loc'[r].source = loc[r].source
           /\ loc'[r].todo \in {loc[r].todo, loc[r].todo \ {Source(r)}}
    <3>1. pc'[r] # "next"
      BY <1>6 DEF Fetching
    <3>2. ~Continues(r, "next")
      BY <3>1, BecomesIs DEF Continues, Labels
    <3> QED
      BY <3>2 DEF Pursues
  <2>2. CASE /\ pc[r] = "next" /\ loc'[r].source \in loc[r].todo
             /\ loc'[r].todo = loc[r].todo \ {loc'[r].source}
    BY <1>1, <1>2, <1>3, <1>4, <2>2 DEF SourcesFit, Source
  <2>3. CASE /\ pc[r] # "next" /\ loc'[r].source = loc[r].source
             /\ loc'[r].todo \in {loc[r].todo, loc[r].todo \ {Source(r)}}
    BY <1>1, <1>2, <1>3, <1>4, <2>3 DEF SourcesFit, Source
  <2> QED
    BY <2>1, <2>2, <2>3
<1> QED
  BY <1>5, <1>6, PursuesIs

\* What is recorded when a source has been staged.
LEMMA StageRecords ==
  ASSUME TypeInv, NEW r \in Requests, Stage(r), StagesIt(r)
  PROVE  LET x == Source(r) IN
         /\ Recorded(r)' = Recorded(r) \cup {x}
         /\ loc'[r].copy.etags[x] = ETag(x, loc[r].body)
         /\ \A y \in Recorded(r) : y # x => loc'[r].copy.etags[y] = loc[r].copy.etags[y]
<1> USE DEF TypeInv
<1>x. PICK x \in Sources : x = Source(r)
  BY LocalTypes
<1>v. PICK v \in Versions \cup {NoETag} : v = ETag(x, loc[r].body)
  BY <1>x, StageIs
<1>e. PICK e \in ETagMaps : e = loc[r].copy.etags
  BY LocalTypes
<1>1. loc'[r].copy.etags = Assign(e, x, v)
  BY <1>x, <1>v, <1>e DEF StagesIt
<1>2. /\ DOMAIN Assign(e, x, v) = DOMAIN e \cup {x} /\ Assign(e, x, v)[x] = v
      /\ \A y \in DOMAIN e : y # x => Assign(e, x, v)[y] = e[y]
  BY <1>e DEF Assign
<1> QED
  BY <1>x, <1>v, <1>e, <1>1, <1>2 DEF Recorded

LEMMA SourcesFitStep ==
  ASSUME TypeInv, \A q \in Requests : SourcesFit(q), NEW r \in Requests, Handle(r),
         NEW q \in Requests
  PROVE  SourcesFit(q)'
<1> USE DEF TypeInv
<1>1. CASE q # r
  <2>1. pc'[q] = pc[q] /\ loc'[q] = loc[q]
    BY <1>1, OthersStay
  <2> QED
    BY <2>1 DEF SourcesFit, Materializing, Fetching, At, Service, Source, Recorded
<1>2. CASE q = r /\ Works(r)
  <2>0. Materializing(r) /\ Service(r)' = Service(r)
    BY <1>2, WorksIs DEF Service
  <2>1. CASE Pursues(r)
    BY <1>2, <2>1, PursuesFitsSources
  <2>2. CASE Stage(r) /\ StagesIt(r)
    <3>1. Fetching(r) /\ ~Fetching(r)' /\ ~At(r, "store") /\ ~At(r, "store")'
      BY <2>2, WorksAt DEF Fetching, At
    <3>2. /\ Source(r)' = Source(r) /\ loc'[r].todo = loc[r].todo
          /\ loc'[r].copy.path = loc[r].copy.path
      BY <2>2 DEF StagesIt, Source
    <3> QED
      BY <1>2, <2>0, <2>2, <3>1, <3>2, StageRecords, WorksAt DEF SourcesFit, At
  <2>3. CASE Load(r)
    <3>1. ~Fetching(r)' /\ ~At(r, "store") /\ ~At(r, "store")' /\ ~At(r, "load")'
      BY <2>3, WorksAt DEF Fetching, At
    <3>2. Recorded(r)' = Recorded(r) /\ loc'[r].todo = loc[r].todo /\ loc'[r].copy = loc[r].copy
      BY <2>3, LoadIs DEF Recorded
    <3> QED
      BY <1>2, <2>0, <2>3, <3>1, <3>2, WorksAt DEF SourcesFit, At
  <2>4. CASE CreateOutput(r) /\ CreatesIt(r)
    <3>1. ~Fetching(r)' /\ ~At(r, "load")' /\ (At(r, "store")' <=> Recorded(r) = {})
      BY <2>4, WorksAt DEF Fetching, At
    <3>2. /\ Recorded(r)' = Recorded(r) /\ loc'[r].todo = {}
          /\ loc'[r].copy.path = IF Recorded(r) = {} THEN "empty" ELSE "output"
      BY <2>4 DEF CreatesIt, Creates, Recorded
    <3> QED
      BY <1>2, <2>0, <2>4, <3>1, <3>2, WorksAt DEF SourcesFit, At
  <2>5. CASE WriteOutput(r) /\ WritesIt(r)
    <3>1. ~Fetching(r)' /\ ~At(r, "load")' /\ ~At(r, "store")
      BY <2>5, WorksAt DEF Fetching, At
    <3>2. Recorded(r)' = Recorded(r) /\ loc'[r] = loc[r]
      BY <2>5 DEF WritesIt, Recorded
    <3>3. Recorded(r) # {}
      BY <1>2, <2>0, <2>5, WorksAt DEF SourcesFit, At
    <3> QED
      BY <1>2, <2>0, <2>5, <3>1, <3>2, <3>3, WorksAt DEF SourcesFit, At
  <2> QED
    BY <1>2, <2>1, <2>2, <2>3, <2>4, <2>5 DEF Works
<1>3. CASE q = r /\ Clear(r) /\ Clears(r)
  <2>1. Service(r)' = Service(r) /\ loc'[r].copy = Unknown /\ loc'[r].todo = SourcesOf[Service(r)]
    BY <1>3 DEF Clears, Continues, Service
  <2>2. /\ ~Fetching(r)' /\ pc'[r] \notin {"write", "store"}
        /\ ~At(r, "load")' /\ ~At(r, "write")' /\ ~At(r, "store")'
    BY <1>3, WorksAt DEF Fetching, At
  <2> QED
    BY <1>3, <2>1, <2>2, KnownIs DEF SourcesFit, Recorded
<1>4. CASE q = r /\ ~Works(r) /\ ~(Clear(r) /\ Clears(r))
  BY <1>4, MaterializingStep DEF SourcesFit
<1> QED
  BY <1>1, <1>2, <1>3, <1>4

\* The directories of a service, for the request that materializes it alone.
Fitting(r, s) == StagedFits(r, s) /\ StoreFits(r, s) /\ OutputFits(r, s)

LEMMA ClearFitsDirectories ==
  ASSUME TypeInv, NEW r \in Requests, Clear(r), Clears(r)
  PROVE  Fitting(r, Service(r))'
<1>s. PICK s \in Services : s = Service(r)
  BY LocalTypes DEF TypeInv
<1>1. Service(r)' = s /\ pc'[r] = "next"
  BY <1>s, WorksAt DEF Clears, Continues, Service
<1>2. Recorded(r)' = {}
  BY KnownIs DEF Recorded, Clears
<1>3. DOMAIN EmptyMap = {}
  BY DEF EmptyMap
<1>4. staged'[s] = EmptyMap /\ store'[s] = {} /\ output'[s] = EmptyMap /\ unloaded'[s] = {}
  BY <1>s, ClearEmpties
<1>5. StagedFits(r, s)' /\ StoreFits(r, s)' /\ OutputFits(r, s)'
  BY <1>1, <1>2, <1>3, <1>4 DEF StagedFits, StoreFits, OutputFits, At
<1> QED
  BY <1>1, <1>5 DEF Fitting

LEMMA PursuesFitsDirectories ==
  ASSUME TypeInv, NEW r \in Requests, Pursues(r), NEW s \in Services, Fitting(r, s)
  PROVE  Fitting(r, s)'
<1>1. pc'[r] = "next" \/ Fetching(r)'
  BY PursuesIs
<1>2. /\ UNCHANGED <<staged, store, output, unloaded>> /\ loc'[r].copy = loc[r].copy
      /\ pc[r] = "next" \/ Fetching(r)
  BY DEF Pursues, Quiet, diskVars
<1>3. /\ ~At(r, "load") /\ ~At(r, "load")'
      /\ pc[r] \notin {"write", "store"} /\ pc'[r] \notin {"write", "store"}
  BY <1>1, <1>2 DEF At, Fetching
<1>4. Recorded(r)' = Recorded(r)
  BY <1>2 DEF Recorded
<1>5. StagedFits(r, s)'
  BY <1>2, <1>3, <1>4 DEF Fitting, StagedFits
<1>6. StoreFits(r, s)'
  BY <1>2, <1>3, <1>4 DEF Fitting, StoreFits
<1>7. OutputFits(r, s)'
  BY <1>2, <1>3 DEF Fitting, OutputFits
<1> QED
  BY <1>5, <1>6, <1>7 DEF Fitting

LEMMA StageFitsDirectories ==
  ASSUME TypeInv, NEW r \in Requests, Stage(r), StagesIt(r), SourcesFit(r),
         NEW s \in Services, s = Service(r), Fitting(r, s)
  PROVE  Fitting(r, s)'
<1>x. PICK x \in Sources : x = Source(r)
  BY LocalTypes DEF TypeInv
<1>1. /\ pc[r] = "stage" /\ Fetching(r) /\ pc'[r] = "load" /\ Source(r)' = x
      /\ loc'[r].body = loc[r].body
  BY <1>x, WorksAt DEF StagesIt, Source
<1>2. x \notin Recorded(r)
  BY <1>1, <1>x, FetchingMaterializes DEF SourcesFit
<1>3. /\ UNCHANGED <<store, output, unloaded>>
      /\ staged'[s] = Assign(staged[s], x, loc[r].body)
  <2>1. DOMAIN staged = Services
    BY DEF TypeInv, TypeOK
  <2> QED
    BY <1>x, <2>1, StageWrites DEF StagesIt, TypeInv
<1>4. /\ Recorded(r)' = Recorded(r) \cup {x}
      /\ loc'[r].copy.etags[x] = ETag(x, loc[r].body)
      /\ \A y \in Recorded(r) : loc'[r].copy.etags[y] = loc[r].copy.etags[y]
  BY <1>x, <1>2, StageRecords
<1>5. /\ DOMAIN staged'[s] = DOMAIN staged[s] \cup {x} /\ staged'[s][x] = loc[r].body
      /\ \A y \in DOMAIN staged[s] : y # x => staged'[s][y] = staged[s][y]
  BY <1>3 DEF Assign
<1>6. /\ ~At(r, "load") /\ At(r, "load")'
      /\ pc[r] \notin {"write", "store"} /\ pc'[r] \notin {"write", "store"}
  BY <1>1 DEF At
<1>7. StagedFits(r, s)'
  BY <1>1, <1>2, <1>4, <1>5 DEF Fitting, StagedFits, ETag
<1>8. StoreFits(r, s)'
  <2>1. \A y \in Recorded(r) : staged'[s][y] = staged[s][y]
    BY <1>2, <1>5 DEF Fitting, StagedFits
  <2> QED
    BY <1>1, <1>3, <1>4, <1>6, <2>1 DEF Fitting, StoreFits
<1>9. OutputFits(r, s)'
  BY <1>3, <1>6 DEF Fitting, OutputFits
<1> QED
  BY <1>7, <1>8, <1>9 DEF Fitting

LEMMA LoadFitsDirectories ==
  ASSUME TypeInv, NEW r \in Requests, Load(r), SourcesFit(r),
         NEW s \in Services, s = Service(r), Fitting(r, s)
  PROVE  Fitting(r, s)'
<1>x. PICK x \in Sources : x = Source(r)
  BY LocalTypes DEF TypeInv
<1>1. pc[r] = "load" /\ pc'[r] = "next" /\ loc'[r].copy = loc[r].copy
  BY LoadIs, WorksAt DEF TypeInv
<1>2. /\ At(r, "load") /\ ~At(r, "load")'
      /\ pc[r] \notin {"write", "store"} /\ pc'[r] \notin {"write", "store"}
  BY <1>1 DEF At
<1>3. Recorded(r)' = Recorded(r)
  BY <1>1 DEF Recorded
<1>4. x \in Recorded(r) /\ staged[s][x] = loc[r].body
  BY <1>x, <1>2 DEF SourcesFit, Materializing, At, Fitting, StagedFits
<1>5. /\ UNCHANGED <<staged, output>>
      /\ store[s] \subseteq store'[s] /\ store'[s] \subseteq store[s] \cup {<<x, staged[s][x]>>}
      /\ unloaded[s] \subseteq unloaded'[s] /\ unloaded'[s] \subseteq unloaded[s] \cup {<<x, staged[s][x]>>}
      /\ <<x, staged[s][x]>> \in store'[s] \cup unloaded'[s]
  <2>1. DiskType
    BY DEF TypeInv, TypeOK, DiskType
  <2>2. PutInStore(r) => store'[s] = store[s] \cup {<<x, staged[s][x]>>}
    BY <1>x, <2>1 DEF PutInStore, DiskType
  <2>3. unloaded' = [unloaded EXCEPT ![s] = @ \cup {<<x, loc[r].body>>}] =>
          unloaded'[s] = unloaded[s] \cup {<<x, staged[s][x]>>}
    BY <1>4, <2>1 DEF DiskType
  <2> QED
    BY <1>x, <2>2, <2>3, LoadWrites DEF TypeInv
<1>6. StagedFits(r, s)'
  BY <1>1, <1>2, <1>3, <1>5 DEF Fitting, StagedFits
<1>7. StoreFits(r, s)'
  <2>1. \A y, w : <<y, w>> \in store'[s] \cup unloaded'[s] => y \in Recorded(r) /\ w = staged[s][y]
    <3> SUFFICES ASSUME NEW y, NEW w, <<y, w>> \in store'[s] \cup unloaded'[s],
                        <<y, w>> \notin store[s] \cup unloaded[s]
                 PROVE  y \in Recorded(r) /\ w = staged[s][y]
      BY DEF Fitting, StoreFits
    <3>1. <<y, w>> = <<x, staged[s][x]>>
      BY <1>5
    <3> QED
      BY <1>4, <3>1
  <2>2. \A y \in Recorded(r) : <<y, staged[s][y]>> \in store'[s] \cup unloaded'[s]
    BY <1>x, <1>5 DEF Fitting, StoreFits
  <2> QED
    BY <1>3, <1>5, <2>1, <2>2 DEF StoreFits
<1>8. OutputFits(r, s)'
  BY <1>2, <1>5 DEF Fitting, OutputFits
<1> QED
  BY <1>6, <1>7, <1>8 DEF Fitting

LEMMA CreateFitsDirectories ==
  ASSUME TypeInv, AloneInDirectories, NEW r \in Requests, CreateOutput(r), CreatesIt(r),
         NEW s \in Services, s = Service(r), ~mingled[s], Fitting(r, s)
  PROVE  Fitting(r, s)'
<1>1. /\ pc[r] = "next" /\ pc'[r] = IF Recorded(r) = {} THEN "store" ELSE "write"
      /\ loc'[r].copy.etags = loc[r].copy.etags
  BY WorksAt DEF CreatesIt, Creates
<1>2. ~At(r, "load") /\ ~At(r, "load")' /\ pc'[r] \in {"write", "store"} /\ pc[r] \notin {"write", "store"}
  BY <1>1 DEF At
<1>3. Recorded(r)' = Recorded(r)
  BY <1>1 DEF Recorded
<1>4. Writers(r) = {r}
  <2>1. Materializing(r)
    BY <1>1 DEF Materializing
  <2>2. \A q \in Requests : At(q, "write") => Materializing(q)
    BY DEF Materializing, At
  <2> QED
    BY <2>1, <2>2 DEF Writers, AloneInDirectories
<1>5. Recorded(r) = {} => store[s] = {}
  <2>1. SUFFICES ASSUME Recorded(r) = {} PROVE store[s] = {}
    OBVIOUS
  <2>2. \A x, v : <<x, v>> \notin store[s]
    BY <2>1 DEF Fitting, StoreFits
  <2>3. store[s] \subseteq Sources \X Versions
    BY DEF TypeInv, TypeOK, Data
  <2> QED
    BY <2>2, <2>3
<1>6. PICK path : path = IF Recorded(r) = {} THEN "empty" ELSE "output"
  OBVIOUS
<1>7. PICK c : c = [data |-> store[s], writers |-> IF Recorded(r) = {} THEN {} ELSE {r}]
  OBVIOUS
<1>8. /\ UNCHANGED <<staged, store, unloaded>>
      /\ output'[s] = Assign(output[s], path, c) /\ loc'[r].copy.path = path
  <2>1. DOMAIN output = Services
    BY DEF TypeInv, TypeOK
  <2>2. output' = [output EXCEPT ![s] = Assign(output[s], path, c)] /\ loc'[r].copy.path = path
    BY <1>4, <1>5, <1>6, <1>7 DEF CreatesIt, Creates
  <2> QED
    BY <2>1, <2>2, CreateOutputWrites DEF TypeInv
<1>9. StagedFits(r, s)'
  BY <1>1, <1>2, <1>3, <1>8 DEF Fitting, StagedFits
<1>10. StoreFits(r, s)'
  BY <1>2, <1>3, <1>8 DEF Fitting, StoreFits
<1>11. OutputFits(r, s)'
  <2>1. DOMAIN output[s] = {}
    BY <1>2 DEF Fitting, OutputFits
  <2>2. DOMAIN output'[s] = {path} /\ output'[s][path] = c
    BY <1>8, <2>1 DEF Assign
  <2>3. (At(r, "write"))' <=> Recorded(r) # {}
    BY <1>1 DEF At
  <2> QED
    BY <1>2, <1>7, <1>8, <2>2, <2>3 DEF OutputFits
<1> QED
  BY <1>9, <1>10, <1>11 DEF Fitting

LEMMA WriteFitsDirectories ==
  ASSUME TypeInv, NEW r \in Requests, WriteOutput(r), WritesIt(r),
         NEW s \in Services, s = Service(r), Fitting(r, s)
  PROVE  Fitting(r, s)'
<1>1. pc[r] = "write" /\ pc'[r] = "store" /\ loc'[r] = loc[r]
  BY WorksAt DEF WritesIt
<1>2. ~At(r, "load") /\ ~At(r, "load")' /\ At(r, "write") /\ ~At(r, "write")'
  BY <1>1 DEF At
<1>3. Recorded(r)' = Recorded(r)
  BY <1>1 DEF Recorded
<1>4. UNCHANGED <<staged, store, unloaded>> /\ output'[s] = Written(r)
  <2>1. DOMAIN output = Services
    BY DEF TypeInv, TypeOK
  <2> QED
    BY <2>1, WriteOutputWrites DEF TypeInv, WritesIt
<1>5. StagedFits(r, s)'
  BY <1>1, <1>2, <1>3, <1>4 DEF Fitting, StagedFits
<1>6. StoreFits(r, s)'
  BY <1>2, <1>3, <1>4 DEF Fitting, StoreFits
<1>7. OutputFits(r, s)'
  <2>1. PICK path : path = loc[r].copy.path
    OBVIOUS
  <2>2. DOMAIN output[s] = {path} /\ output[s][path] = [data |-> store[s], writers |-> {r}]
    BY <1>1, <1>2, <2>1 DEF Fitting, OutputFits
  <2>3. DOMAIN output'[s] = {path} /\ output'[s][path] = [data |-> store[s], writers |-> {}]
    <3>1. /\ DOMAIN Written(r) = DOMAIN output[s]
          /\ Written(r)[path] = [data |-> output[s][path].data,
                writers |-> IF output[s][path].writers = {r} THEN {} ELSE output[s][path].writers]
      BY <2>2 DEF Written
    <3>2. output[s][path].data = store[s] /\ output[s][path].writers = {r}
      BY <2>2
    <3> QED
      BY <1>4, <2>2, <3>1, <3>2
  <2> QED
    BY <1>1, <1>2, <1>4, <2>1, <2>3 DEF OutputFits
<1> QED
  BY <1>5, <1>6, <1>7 DEF Fitting

LEMMA DirectoriesStep ==
  ASSUME TypeInv, AloneInDirectories, \A q \in Requests : SourcesFit(q) /\ DirectoriesFit(q),
         NEW r \in Requests, Handle(r), NEW q \in Requests
  PROVE  DirectoriesFit(q)'
<1> SUFFICES ASSUME NEW s \in Services, Materializing(q)', Service(q)' = s, ~mingled'[s]
             PROVE  Fitting(q, s)'
  BY DEF DirectoriesFit, Fitting
<1>1. CASE q # r
  <2>1. pc'[q] = pc[q] /\ loc'[q] = loc[q]
    BY <1>1, OthersStay
  <2>2. Materializing(q) /\ Service(q) = s
    BY <2>1 DEF Materializing, Service
  <2>3. Untouched(s) /\ ~mingled[s]
    BY <1>1, <2>2, OthersKeepOut
  <2>4. Fitting(q, s)
    BY <2>2, <2>3 DEF DirectoriesFit, Fitting
  <2> QED
    BY <2>1, <2>3, <2>4
    DEF Fitting, StagedFits, StoreFits, OutputFits, Untouched, At, Source, Recorded
<1>2. CASE q = r /\ Clear(r) /\ Clears(r)
  <2>1. s = Service(r)
    BY <1>2 DEF Clears, Continues, Service
  <2> QED
    BY <1>2, <2>1, ClearFitsDirectories DEF Clears, Continues, Service
<1>3. CASE q = r /\ Works(r)
  <2>1. s = Service(r) /\ Materializing(r)
    BY <1>3, WorksIs DEF Service
  <2>2. ~mingled[s]
    BY <1>3, <2>1, UnmingledStep, WorksIs DEF Clear, At, Materializing
  <2>3. Fitting(r, s)
    BY <2>1, <2>2 DEF DirectoriesFit, Fitting
  <2>4. CASE Pursues(r)
    BY <1>3, <2>3, <2>4, PursuesFitsDirectories
  <2>5. CASE Stage(r) /\ StagesIt(r)
    BY <1>3, <2>1, <2>3, <2>5, StageFitsDirectories
  <2>6. CASE Load(r)
    BY <1>3, <2>1, <2>3, <2>6, LoadFitsDirectories
  <2>7. CASE CreateOutput(r) /\ CreatesIt(r)
    BY <1>3, <2>1, <2>2, <2>3, <2>7, CreateFitsDirectories
  <2>8. CASE WriteOutput(r) /\ WritesIt(r)
    BY <1>3, <2>1, <2>3, <2>8, WriteFitsDirectories
  <2> QED
    BY <1>3, <2>4, <2>5, <2>6, <2>7, <2>8 DEF Works
<1> QED
  BY <1>1, <1>2, <1>3, MaterializingStep
-----------------------------------------------------------------------------
(***************************************************************************)
(* What the output of a service may hold.                                  *)
(***************************************************************************)
\* r has just received version v of source x for s.
Obtains(r, s, x, v) ==
  /\ Materializing(r) /\ Service(r) = s
  /\ x \in SourcesOf[s] /\ v = version[x] /\ x \notin Protected \ allowed

\* What gets into an output was received in the same state from a source that the
\* server could read.
LEMMA HoldsStep ==
  ASSUME TypeInv, NEW r \in Requests, SourcesFit(r), Handle(r),
         NEW s \in Services, NEW x, NEW v, Holds(s, x, v)'
  PROVE  Holds(s, x, v) \/ Obtains(r, s, x, v)
<1> USE DEF TypeInv
<1>1. DiskType
  BY DEF TypeOK, DiskType
<1>0. ASSUME s # Service(r) \/ (~Clear(r) /\ ~Materializing(r))
      PROVE  staged'[s] = staged[s] /\ store'[s] = store[s] /\ output'[s] = output[s] /\ unloaded'[s] = unloaded[s]
  BY <1>0, OtherDirectories DEF Untouched
<1>2. CASE \E f \in DOMAIN output'[s] : <<x, v>> \in output'[s][f].data
  <2>1. PICK f \in DOMAIN output'[s] : <<x, v>> \in output'[s][f].data
    BY <1>2
  <2>2. CASE output'[s] = output[s]
    BY <2>1, <2>2 DEF Holds
  <2>3. CASE Clear(r) /\ s = Service(r) /\ output'[s] # output[s]
    <3>1. output'[s] = EmptyMap
      BY <2>3, ClearEmpties
    <3> QED
      BY <2>1, <3>1 DEF EmptyMap
  <2>4. CASE CreateOutput(r) /\ s = Service(r) /\ output'[s] # output[s]
    <3>1. PICK p, d : output'[s] = Assign(output[s], p, d) /\ d.data \in {{}, store[s]}
      <4>1. \/ output' = [output EXCEPT ![s] = Assign(output[s], "empty", [data |-> {}, writers |-> {}])]
            \/ output' = [output EXCEPT ![s] =
                 Assign(output[s], "output", [data |-> store[s], writers |-> Writers(r)])]
        BY <2>4, CreateOutputWrites
      <4>2. \/ output'[s] = Assign(output[s], "empty", [data |-> {}, writers |-> {}])
            \/ output'[s] = Assign(output[s], "output", [data |-> store[s], writers |-> Writers(r)])
        BY <1>1, <4>1 DEF DiskType
      <4> QED
        BY <4>2
    <3>2. (f \in DOMAIN output[s] /\ output'[s][f] = output[s][f]) \/ output'[s][f] = d
      BY <2>1, <3>1 DEF Assign
    <3> QED
      BY <2>1, <3>1, <3>2 DEF Holds
  <2>5. CASE WriteOutput(r) /\ s = Service(r) /\ output'[s] # output[s]
    <3>1. output'[s] = Written(r)
      BY <1>1, <2>5, WriteOutputIs DEF DiskType
    <3>2. f \in DOMAIN output[s] /\ output'[s][f].data = output[s][f].data
      BY <2>1, <2>5, <3>1 DEF Written
    <3> QED
      BY <2>1, <3>2 DEF Holds
  <2>6. CASE ~Clear(r) /\ ~CreateOutput(r) /\ ~WriteOutput(r)
    <3>1. output' = output
      BY <2>6, DiskStays, StageWrites, LoadWrites DEF diskVars
    <3> QED
      BY <2>2, <3>1
  <2> QED
    BY <1>0, <2>2, <2>3, <2>4, <2>5, <2>6
<1>3. CASE <<x, v>> \in store'[s]
  <2>1. CASE store'[s] = store[s]
    BY <1>3, <2>1 DEF Holds
  <2>2. CASE Clear(r) /\ s = Service(r)
    BY <1>3, <2>1, <2>2, ClearEmpties
  <2>3. CASE Load(r) /\ s = Service(r) /\ store'[s] # store[s]
    <3>1. PutInStore(r)
      BY <2>3, LoadWrites
    <3>2. /\ Source(r) \in DOMAIN staged[s]
          /\ store'[s] = store[s] \cup {<<Source(r), staged[s][Source(r)]>>}
      BY <1>1, <2>3, <3>1 DEF PutInStore, DiskType
    <3> QED
      BY <1>3, <3>2 DEF Holds
  <2>4. CASE ~Clear(r) /\ ~Load(r)
    <3>1. store' = store
      BY <2>4, DiskStays, StageWrites, CreateOutputWrites, WriteOutputWrites DEF diskVars
    <3> QED
      BY <2>1, <3>1
  <2> QED
    BY <1>0, <2>1, <2>2, <2>3, <2>4
<1>4. CASE <<x, v>> \in unloaded'[s]
  <2>1. CASE unloaded'[s] = unloaded[s]
    BY <1>4, <2>1 DEF Holds
  <2>2. CASE Clear(r) /\ s = Service(r)
    BY <1>4, <2>1, <2>2, ClearEmpties
  <2>3. CASE Load(r) /\ s = Service(r) /\ unloaded'[s] # unloaded[s]
    <3>1. unloaded' = [unloaded EXCEPT ![Service(r)] = @ \cup {<<Source(r), loc[r].body>>}]
      BY <2>3, LoadWrites
    <3>2. unloaded'[s] = unloaded[s] \cup {<<Source(r), loc[r].body>>}
      BY <1>1, <2>3, <3>1 DEF DiskType
    <3>3. pc[r] = "load"
      BY <2>3, LoadIs
    <3>4. <<x, v>> \in unloaded[s] \/ (x = Source(r) /\ v = loc[r].body)
      BY <1>4, <3>2
    <3> QED
      BY <2>3, <3>3, <3>4 DEF Holds
  <2>4. CASE ~Clear(r) /\ ~Load(r)
    <3>1. unloaded' = unloaded
      BY <2>4, DiskStays, StageWrites, CreateOutputWrites, WriteOutputWrites DEF diskVars
    <3> QED
      BY <2>1, <3>1
  <2> QED
    BY <1>0, <2>1, <2>2, <2>3, <2>4
<1>5. CASE x \in DOMAIN staged'[s] /\ staged'[s][x] = v
  <2>1. CASE staged'[s] = staged[s]
    BY <1>5, <2>1 DEF Holds
  <2>2. CASE Clear(r) /\ s = Service(r) /\ staged'[s] # staged[s]
    <3>1. staged'[s] = EmptyMap
      BY <2>2, ClearEmpties
    <3> QED
      BY <1>5, <3>1 DEF EmptyMap
  <2>3. CASE Stage(r) /\ s = Service(r) /\ staged'[s] # staged[s]
    <3>1. pc[r] = "stage"
      BY <2>3, StageIs
    <3>2. staged'[s] = Assign(staged[s], Source(r), loc[r].body)
      BY <1>1, <2>3, StageWrites DEF DiskType
    <3>3. \/ x \in DOMAIN staged[s] /\ staged[s][x] = v
          \/ x = Source(r) /\ v = loc[r].body
      BY <1>5, <3>2 DEF Assign
    <3> QED
      BY <2>3, <3>1, <3>3 DEF Holds
  <2>4. CASE ~Clear(r) /\ ~Stage(r)
    <3>1. staged' = staged
      BY <2>4, DiskStays, LoadWrites, CreateOutputWrites, WriteOutputWrites DEF diskVars
    <3> QED
      BY <2>1, <3>1
  <2> QED
    BY <1>0, <2>1, <2>2, <2>3, <2>4
<1>6. ASSUME NEW q \in Requests, pc'[q] \in {"stage", "load"}, loc'[q].service = s,
             loc'[q].source = x, loc'[q].body = v
      PROVE  Holds(s, x, v) \/ Obtains(r, s, x, v)
  <2>1. CASE q # r
    <3>1. pc[q] \in {"stage", "load"} /\ Service(q) = s /\ Source(q) = x /\ loc[q].body = v
      BY <1>6, <2>1, OthersStay DEF Service, Source
    <3> QED
      BY <3>1 DEF Holds
  <2>2. CASE q = r
    <3>1. Materializing(r)'
      BY <1>6, <2>2 DEF Materializing
    <3>2. CASE Stage(r) /\ StagesIt(r)
      <4>1. /\ pc[r] = "stage" /\ Service(r) = s /\ Source(r) = x /\ loc[r].body = v
        BY <1>6, <2>2, <3>2, StageIs DEF StagesIt, Continues, Service, Source
      <4> QED
        BY <4>1 DEF Holds
    <3>3. CASE Pursues(r)
      <4>1. Service(r)' = s /\ Source(r)' = x /\ Materializing(r) /\ Service(r) = s
        BY <1>6, <2>2, <3>3, PursuesIs DEF Service, Source
      <4>2. Fetching(r)' /\ pc'[r] = "stage"
        BY <1>6, <2>2, <3>3, PursuesIs DEF Fetching
      <4>3. ~Continues(r, "next")
        BY <4>2, BecomesIs DEF Continues, Labels
      <4>4. v = version[x] /\ x \notin Protected \ allowed
        BY <1>6, <2>2, <3>3, <4>2, <4>3 DEF Pursues
      <4>5. x \in SourcesOf[s]
        BY <3>1, <3>3, <4>1, <4>2, PursuesFitsSources DEF SourcesFit
      <4> QED
        BY <4>1, <4>4, <4>5 DEF Obtains
    <3>4. ~(Clear(r) /\ Clears(r)) /\ ~Load(r) /\ ~(CreateOutput(r) /\ CreatesIt(r))
          /\ ~(WriteOutput(r) /\ WritesIt(r))
      BY <1>6, <2>2, WorksAt
    <3> QED
      BY <3>1, <3>2, <3>3, <3>4, MaterializingStep DEF Works
  <2> QED
    BY <2>1, <2>2
<1> QED
  BY <1>2, <1>3, <1>4, <1>5, <1>6 DEF Holds, Service, Source

LEMMA HeldIsPastStep ==
  ASSUME TypeInv, NEW r \in Requests, SourcesFit(r), Handle(r), HeldIsPast
  PROVE  HeldIsPast'
<1>1. SUFFICES ASSUME NEW s \in Services, NEW x, NEW v, Holds(s, x, v)'
               PROVE  x \in SourcesOf[s] /\ v <= version'[x]
  BY DEF HeldIsPast
<1>2. version' = version
  BY StateTypeStep
<1>3. CASE Holds(s, x, v)
  BY <1>2, <1>3 DEF HeldIsPast
<1>4. CASE Obtains(r, s, x, v)
  <2>1. version[x] \in Nat
    BY <1>4 DEF Obtains, TypeInv, TypeOK, Versions
  <2> QED
    BY <1>2, <1>4, <2>1 DEF Obtains
<1> QED
  BY <1>1, <1>3, <1>4, HoldsStep

\* What the history of a request says after its first step.
LEMMA BeginsHistory ==
  ASSUME TypeInv, NEW r \in Requests, Reserve(r) \/ Lookup(r)
  PROVE  /\ \A q \in Requests \ {r} : since'[q] = since[q] /\ barred'[q] = barred[q]
                                      /\ failed'[q] = failed[q]
         /\ since'[r] = [x \in Tagged |-> version[x]] /\ barred'[r] = Protected \ allowed
         /\ failed'[r] = \E q \in Requests \ {r} :
                           Materializing(q) /\ Service(q) = Service(r)' /\ failed[q]
<1>1. HistoryType
  BY DEF TypeInv, TypeOK, HistoryType
<1>2. PICK s, op, copy, l : Begin(r, s, op, copy, l) /\ s = Service(r)'
  BY ReserveIs, LookupIs DEF TypeInv
<1>3. /\ since' = [since EXCEPT ![r] = [x \in Tagged |-> version[x]]]
      /\ barred' = [barred EXCEPT ![r] = Protected \ allowed]
      /\ failed' = [failed EXCEPT ![r] =
            \E q \in Requests \ {r} : Materializing(q) /\ Service(q) = s /\ failed[q]]
  BY <1>2 DEF Begin
<1> QED
  BY <1>1, <1>2, <1>3 DEF HistoryType

LEMMA HistoryIsPastStep ==
  ASSUME TypeInv, NEW r \in Requests, Handle(r), HistoryIsPast
  PROVE  HistoryIsPast'
<1>1. version' = version /\ allowed' = allowed
  BY StateTypeStep
<1>2. CASE UNCHANGED <<since, barred>>
  BY <1>1, <1>2 DEF HistoryIsPast
<1>3. CASE Reserve(r) \/ Lookup(r)
  <2>1. \A x \in Tagged : version[x] \in Nat
    BY DEF TypeInv, TypeOK, Versions
  <2>2. \A q \in Requests \ {r} : since'[q] = since[q] /\ barred'[q] = barred[q]
    BY <1>3, BeginsHistory
  <2>3. since'[r] = [x \in Tagged |-> version[x]] /\ barred'[r] = Protected \ allowed
    BY <1>3, BeginsHistory
  <2>4. \A x \in Tagged : since'[r][x] <= version[x]
    BY <2>1, <2>3
  <2>5. barred'[r] \cap allowed = {}
    BY <2>3
  <2> QED
    BY <1>1, <2>2, <2>4, <2>5 DEF HistoryIsPast
<1> QED
  BY <1>2, <1>3, HistoryStays DEF TypeInv

\* A step begins a request, or it leaves the beginning alone.
LEMMA HistoryOf ==
  ASSUME TypeInv, NEW r \in Requests, Handle(r), NEW q \in Requests,
         q # r \/ (~Reserve(r) /\ ~Lookup(r))
  PROVE  since'[q] = since[q] /\ barred'[q] = barred[q]
  BY BeginsHistory, HistoryStays DEF TypeInv

-----------------------------------------------------------------------------
(***************************************************************************)
(* What is known of an output, and what the sources say of it.             *)
(***************************************************************************)
LEMMA ChecksIs ==
  ASSUME TypeInv, NEW r \in Requests, Checks(r)
  PROVE  \/ pc'[r] \in {"idle", "clear"}
         \/ /\ Checking(r)' \/ pc'[r] = "serve"
            /\ loc'[r].copy = loc[r].copy /\ loc'[r].service = loc[r].service
<1> USE DEF TypeInv
<1>1. ASSUME NEW l \in {"idle", "clear"}, Becomes(r, l)
      PROVE  pc'[r] \in {"idle", "clear"}
  BY <1>1, BecomesIs DEF Labels
<1>2. ASSUME NEW l \in {"validate", "serve", "head"}, Continues(r, l)
      PROVE  /\ Checking(r)' \/ pc'[r] = "serve" 
             /\ loc'[r].service = loc[r].service
  BY <1>2, BecomesIs DEF Labels, Continues, Checking
<1>3. ASSUME NEW l \in {"head", "exchange", "keep", "retry"}, Continues(r, l),
             loc'[r].method = "HEAD"
      PROVE  Checking(r)' /\ loc'[r].service = loc[r].service
  BY <1>3, BecomesIs DEF Labels, Continues, Checking
<1> QED
  BY <1>1, <1>2, <1>3 DEF Checks, Continues

\* Where a request that has a copy got it.
LEMMA CopyStep ==
  ASSUME TypeInv, NEW r \in Requests, Handle(r), HasCopy(r)'
  PROVE  \/ HasCopy(r) /\ loc'[r].copy = loc[r].copy
         \/ Lookup(r)
         \/ Clear(r) /\ Clears(r)
         \/ Stage(r) /\ StagesIt(r)
         \/ CreateOutput(r) /\ CreatesIt(r)
<1> USE DEF TypeInv
<1>1. pc'[r] \notin {"clear", "idle"}
  BY DEF HasCopy, Checking, Materializing
<1>0. ~Becomes(r, "idle")
  BY <1>1, BecomesIs DEF Labels
<1>2. CASE Reserve(r)
  BY <1>1, <1>2, ReserveIs, BecomesIs DEF Labels
<1>3. CASE Checks(r)
  BY <1>1, <1>3, ChecksIs DEF Checks, HasCopy
<1>4. CASE Pursues(r)
  BY <1>4, PursuesIs DEF Pursues, HasCopy
<1>5. CASE Load(r)
  <2>1. Works(r)
    BY <1>5 DEF Works
  <2> QED
    BY <1>5, <2>1, WorksIs, LoadIs DEF HasCopy
<1>6. CASE CreateOutput(r)
  BY <1>0, <1>6, CreateOutputIs DEF CreatesIt
<1>7. CASE WriteOutput(r)
  BY <1>0, <1>7, WriteOutputIs DEF HasCopy, Materializing
<1>8. CASE Store(r)
  BY <1>0, <1>8, StoreIs DEF HasCopy, Materializing
<1>9. CASE Serve(r) \/ Clear(r)
  BY <1>0, <1>9, ServeIs, ClearIs DEF FailsToClear
<1> QED
  BY <1>2, <1>3, <1>4, <1>5, <1>6, <1>7, <1>8, <1>9, Kinds

\* Only Store changes what is known of an output.
LEMMA KnownStep ==
  ASSUME TypeInv, NEW r \in Requests, Handle(r), NEW s \in DOMAIN services'
  PROVE  \/ s \in DOMAIN services /\ services'[s] = services[s]
         \/ Store(r) /\ s = Service(r) /\ services'[s] = loc[r].copy
<1>1. CASE Store(r)
  BY <1>1 DEF Store, Assign
<1>2. CASE ~Store(r)
  <2>1. services' = services
    BY <1>2 DEF Handle, Reserve, Lookup, Begin, Stat, Validate, Head, Fetch, FetchCached, Exchange,
                KeepToken, Retry, Clear, Stage, Load, CreateOutput, WriteOutput, Serve, serverVars
  <2> QED
    BY <2>1
<1> QED
  BY <1>1, <1>2

LEMMA KnownFitsStays ==
  ASSUME TypeInv, NEW r \in Requests, Handle(r), NEW k
  PROVE  KnownFits(k)' <=> KnownFits(k)
  BY StateTypeStep DEF KnownFits, PathFits, ETagsWere

LEMMA CopyIsPast ==
  ASSUME TypeInv, NEW r \in Requests, SourcesFit(r), KnownIsPast, HeldIsPast,
         Handle(r), HasCopy(r)'
  PROVE  \A k : k = loc'[r].copy => KnownFits(k)
<1> USE DEF TypeInv
<1>1. TAKE k
<1>2. HAVE k = loc'[r].copy
<1>3. CASE HasCopy(r) /\ loc'[r].copy = loc[r].copy
  BY <1>2, <1>3 DEF KnownIsPast
<1>4. CASE Lookup(r)
  BY <1>2, <1>4, LookupIs DEF KnownIsPast
<1>5. CASE Clear(r) /\ Clears(r)
  <2>1. k = Unknown
    BY <1>2, <1>5 DEF Clears
  <2> QED
    BY <2>1, KnownIs DEF KnownFits, PathFits, ETagsWere
<1>6. CASE Stage(r) /\ StagesIt(r)
  <2>s. PICK s \in Services : s = Service(r)
    BY LocalTypes
  <2>x. PICK x \in Sources : x = Source(r)
    BY LocalTypes
  <2>1. pc[r] = "stage" /\ loc[r].body \in Versions /\ Materializing(r)
    BY <1>6, StageIs DEF Materializing
  <2>2. Holds(s, x, loc[r].body)
    BY <2>s, <2>x, <2>1 DEF Holds, At
  <2>3. loc[r].body \in 1 .. version[x]
    BY <2>1, <2>2 DEF HeldIsPast, Versions, TypeOK
  <2>4. PICK e \in ETagMaps : e = loc[r].copy.etags
    BY LocalTypes
  <2>5. PICK v \in Versions \cup {NoETag} : v = ETag(x, loc[r].body)
    BY <1>6, <2>x, StageIs
  <2>6. k.etags = Assign(e, x, v) /\ k.path = loc[r].copy.path
    BY <1>2, <1>6, <2>x, <2>4, <2>5 DEF StagesIt
  <2>7. /\ DOMAIN k.etags = DOMAIN e \cup {x} /\ k.etags[x] = v
        /\ \A y \in DOMAIN e : y # x => k.etags[y] = e[y]
    <3>1. /\ DOMAIN Assign(e, x, v) = DOMAIN e \cup {x} /\ Assign(e, x, v)[x] = v
          /\ \A y \in DOMAIN e : y # x => Assign(e, x, v)[y] = e[y]
      BY DEF Assign
    <3> QED
      BY <2>6, <3>1
  <2>8. k.path = "output"
    BY <2>1, <2>6 DEF SourcesFit, At
  <2>9. ETagsWere(loc[r].copy)
    BY <2>1 DEF KnownIsPast, HasCopy, KnownFits
  <2>10. IF x \in Tagged THEN v \in 1 .. version[x] ELSE v = NoETag
    BY <2>3, <2>5 DEF ETag
  <2>11. ETagsWere(k)
    BY <2>4, <2>7, <2>9, <2>10 DEF ETagsWere
  <2> QED
    BY <2>8, <2>11 DEF KnownFits, PathFits
<1>7. CASE CreateOutput(r) /\ CreatesIt(r)
  <2>1. pc[r] = "next"
    BY <1>7, CreateOutputIs
  <2>2. KnownFits(loc[r].copy)
    BY <2>1 DEF KnownIsPast, HasCopy, Materializing
  <2>3. (Recorded(r) # {} => k.path = "output") /\ k.etags = loc[r].copy.etags
    BY <1>2, <1>7 DEF CreatesIt, Creates
  <2> QED
    BY <2>2, <2>3 DEF KnownFits, PathFits, ETagsWere, Recorded
<1> QED
  BY <1>3, <1>4, <1>5, <1>6, <1>7, CopyStep

LEMMA KnownIsPastStep ==
  ASSUME TypeInv, NEW r \in Requests, SourcesFit(r), KnownIsPast, HeldIsPast, Handle(r)
  PROVE  KnownIsPast'
<1>1. ASSUME NEW s \in DOMAIN services'
      PROVE  KnownFits(services[s])'
  <2>1. PICK k : k = services'[s]
    OBVIOUS
  <2>4. KnownFits(k)
    <3>1. CASE s \in DOMAIN services /\ k = services[s]
      BY <3>1 DEF KnownIsPast
    <3>2. CASE Store(r) /\ k = loc[r].copy
      <4>1. HasCopy(r)
        BY <3>2, StoreIs DEF TypeInv, HasCopy, Materializing
      <4> QED
        BY <3>2, <4>1 DEF KnownIsPast
    <3> QED
      BY <1>1, <2>1, <3>1, <3>2, KnownStep
  <2>5. KnownFits(k)'
    BY <2>4, KnownFitsStays
  <2> QED
    BY <2>1, <2>5 DEF KnownFits, PathFits, ETagsWere
<1>2. ASSUME NEW q \in Requests, HasCopy(q)'
      PROVE  KnownFits(loc[q].copy)'
  <2>1. PICK k : k = loc'[q].copy
    OBVIOUS
  <2>4. KnownFits(k)
    <3>1. CASE q # r
      <4>1. pc'[q] = pc[q] /\ loc'[q] = loc[q]
        BY <3>1, OthersStay
      <4>2. HasCopy(q)
        BY <1>2, <4>1 DEF HasCopy, Checking, Materializing
      <4> QED
        BY <2>1, <4>1, <4>2 DEF KnownIsPast
    <3>2. CASE q = r
      BY <1>2, <2>1, <3>2, CopyIsPast
    <3> QED
      BY <3>1, <3>2
  <2>5. KnownFits(k)'
    BY <2>4, KnownFitsStays
  <2> QED
    BY <2>1, <2>5 DEF KnownFits, PathFits, ETagsWere
<1> QED
  BY <1>1, <1>2 DEF KnownIsPast
-----------------------------------------------------------------------------
(***************************************************************************)
(* The data of an output only gets newer than what is known of it.         *)
(***************************************************************************)
LEMMA StaysNotOlder ==
  ASSUME TypeInv, NEW r \in Requests, SourcesFit(r), Handle(r), NEW s \in Services,
         NEW k, ETagsWere(k), NotOlder(s, k)
  PROVE  NotOlder(s, k)'
<1>1. SUFFICES ASSUME NEW x \in Tagged \cap DOMAIN k.etags, NEW v, Holds(s, x, v)'
               PROVE  v >= k.etags[x]
  BY DEF NotOlder
<1>2. CASE Holds(s, x, v)
  BY <1>2 DEF NotOlder
<1>3. CASE Obtains(r, s, x, v)
  <2>1. k.etags[x] \in 1 .. version[x]
    BY DEF ETagsWere
  <2> QED
    BY <1>3, <2>1 DEF Obtains
<1> QED
  BY <1>1, <1>2, <1>3, HoldsStep

\* When a materialization records its result, the output holds what is recorded.
LEMMA StoreHolds ==
  ASSUME TypeInv, AloneInDirectories, NEW r \in Requests, DirectoriesFit(r), At(r, "store"),
         NEW s \in Services, s = Service(r), ~mingled[s], NEW x, NEW v, Holds(s, x, v)
  PROVE  x \in Recorded(r) /\ loc[r].copy.etags[x] = ETag(x, v)
<1>1. Materializing(r)
  BY DEF At, Materializing
<1>2. StagedFits(r, s) /\ StoreFits(r, s) /\ OutputFits(r, s)
  BY <1>1 DEF DirectoriesFit
<1>3. CASE <<x, v>> \in store[s] \/ <<x, v>> \in unloaded[s]
  BY <1>2, <1>3 DEF StagedFits, StoreFits
<1>4. CASE \E f \in DOMAIN output[s] : <<x, v>> \in output[s][f].data
  <2>1. <<x, v>> \in store[s]
    BY <1>2, <1>4 DEF OutputFits, At
  <2> QED
    BY <1>3, <2>1
<1>5. CASE x \in DOMAIN staged[s] /\ staged[s][x] = v
  BY <1>2, <1>5 DEF StagedFits
<1>6. ASSUME NEW q \in Requests, pc[q] \in {"stage", "load"}, Service(q) = s
      PROVE  FALSE
  <2>1. Materializing(q)
    BY <1>6 DEF Materializing
  <2>2. q = r
    BY <1>1, <1>6, <2>1 DEF AloneInDirectories
  <2> QED
    BY <1>6, <2>2 DEF At
<1> QED
  BY <1>3, <1>4, <1>5, <1>6 DEF Holds

\* Directories that were just emptied for one request alone hold nothing.
LEMMA ClearHolds ==
  ASSUME TypeInv, NEW r \in Requests, Handle(r), Clear(r), Clears(r), ~Interferes(r),
         NEW s \in Services, s = Service(r), NEW x, NEW v
  PROVE  ~Holds(s, x, v)'
<1>1. staged'[s] = EmptyMap /\ store'[s] = {} /\ output'[s] = EmptyMap /\ unloaded'[s] = {}
  BY ClearEmpties
<1>2. ASSUME NEW q \in Requests, pc'[q] \in {"stage", "load"}, loc'[q].service = s
      PROVE  FALSE
  <2>1. q # r
    BY <1>2, WorksAt
  <2>2. pc[q] \in {"stage", "load"} /\ Service(q) = Service(r)
    BY <1>2, <2>1, OthersStay DEF Service
  <2> QED
    BY <2>1, <2>2 DEF Interferes, Materializing
<1> QED
  BY <1>1, <1>2 DEF Holds, EmptyMap, Service

\* Whoever compares was comparing before, or has just looked the service up.
LEMMA CheckingStep ==
  ASSUME TypeInv, NEW r \in Requests, Handle(r), Checking(r)'
  PROVE  Lookup(r) \/ Checks(r)
<1> USE DEF TypeInv
<1>1. ASSUME NEW l \in {"idle", "clear", "next", "serve"}, Becomes(r, l)
      PROVE  FALSE
  <2>1. pc'[r] = l
    BY <1>1, BecomesIs DEF Labels
  <2> QED
    BY <2>1 DEF Checking
<1>2. ~Works(r)
  BY WorksIs DEF Checking, Materializing
<1>3. ~Reserve(r) /\ ~Clear(r) /\ ~Store(r) /\ ~Serve(r)
  BY <1>1, ReserveIs, ClearIs, StoreIs, ServeIs DEF Clears, FailsToClear, Continues
<1>4. ~CreateOutput(r) /\ ~WriteOutput(r)
  BY <1>1, <1>2, CreateOutputIs, WriteOutputIs DEF Works, CreatesIt, WritesIt
<1> QED
  BY <1>2, <1>3, <1>4, Kinds DEF Works

LEMMA KnownIsNotNewerStep ==
  ASSUME TypeInv, AloneInDirectories, NEW r \in Requests, SourcesFit(r), DirectoriesFit(r),
         KnownIsPast, KnownIsNotNewer, Handle(r)
  PROVE  KnownIsNotNewer'
<1> USE DEF TypeInv
<1>0. \A s \in DOMAIN services : s \in Services
  BY DEF TypeOK
<1>s. \A s \in DOMAIN services' : s \in Services
  BY TypeStep DEF Next, TypeOK
<1>1. ASSUME NEW s \in Services, NEW k, ~mingled[s] => ETagsWere(k) /\ NotOlder(s, k), ~mingled'[s]
      PROVE  NotOlder(s, k)'
  <2>1. CASE ~mingled[s]
    BY <1>1, <2>1, StaysNotOlder
  <2>2. CASE Clear(r) /\ Clears(r) /\ s = Service(r) /\ ~Interferes(r)
    BY <2>2, ClearHolds DEF NotOlder
  <2> QED
    BY <1>1, <2>1, <2>2, UnmingledStep
<1>2. ASSUME NEW s \in DOMAIN services', ~mingled'[s]
      PROVE  NotOlder(s, services[s])'
  <2>1. PICK k : k = services'[s]
    OBVIOUS
  <2>2. ASSUME ~mingled[s]
        PROVE  ETagsWere(k) /\ NotOlder(s, k)
    <3>1. CASE s \in DOMAIN services /\ k = services[s]
      BY <2>2, <3>1 DEF KnownIsPast, KnownIsNotNewer, KnownFits
    <3>2. CASE Store(r) /\ s = Service(r) /\ k = loc[r].copy
      <4>1. At(r, "store") /\ HasCopy(r)
        BY <3>2 DEF Store, At, HasCopy, Materializing
      <4>2. ETagsWere(k)
        BY <3>2, <4>1 DEF KnownIsPast, KnownFits
      <4>3. ASSUME NEW x \in Tagged \cap DOMAIN k.etags, NEW v, Holds(s, x, v)
            PROVE  v >= k.etags[x]
        <5>1. k.etags[x] = v
          BY <1>s, <2>2, <3>2, <4>1, <4>3, StoreHolds DEF ETag
        <5>2. k.etags[x] \in 1 .. version[x]
          BY <4>2 DEF ETagsWere
        <5> QED
          BY <5>1, <5>2
      <4> QED
        BY <4>2, <4>3 DEF NotOlder
    <3> QED
      BY <2>1, <3>1, <3>2, KnownStep
  <2>3. NotOlder(s, k)'
    BY <1>1, <1>2, <1>s, <2>2
  <2> QED
    BY <2>1, <2>3 DEF NotOlder
<1>3. ASSUME NEW q \in Requests, Checking(q)', ~mingled'[Service(q)']
      PROVE  NotOlder(Service(q), loc[q].copy)'
  <2>1. PICK k, s : k = loc'[q].copy /\ s = Service(q)'
    OBVIOUS
  <2>2. s \in Services
    BY <2>1, HandleFits, BecomesIs DEF Service, Locals
  <2>3. ASSUME ~mingled[s]
        PROVE  ETagsWere(k) /\ NotOlder(s, k)
    <3>1. ASSUME Checking(q), k = loc[q].copy, s = Service(q)
          PROVE  ETagsWere(k) /\ NotOlder(s, k)
      BY <2>3, <3>1, LocalTypes DEF KnownIsPast, KnownIsNotNewer, KnownFits, HasCopy
    <3>2. CASE q # r
      <4>1. pc'[q] = pc[q] /\ loc'[q] = loc[q]
        BY <3>2, OthersStay
      <4>2. Checking(q)
        BY <1>3, <4>1 DEF Checking
      <4> QED
        BY <2>1, <3>1, <4>1, <4>2 DEF Service
    <3>3. CASE q = r /\ Lookup(r)
      <4>1. s \in DOMAIN services /\ k = services[s]
        BY <2>1, <3>3, LookupIs
      <4> QED
        BY <2>3, <4>1 DEF KnownIsPast, KnownIsNotNewer, KnownFits
    <3>4. CASE q = r /\ Checks(r)
      <4>1. loc'[r].copy = loc[r].copy /\ loc'[r].service = loc[r].service
        BY <1>3, <3>4, ChecksIs DEF Checking
      <4> QED
        BY <2>1, <3>1, <3>4, <4>1 DEF Service, Checks
    <3> QED
      BY <1>3, <3>2, <3>3, <3>4, CheckingStep
  <2>4. ~mingled'[s]
    BY <1>3, <2>1
  <2>5. NotOlder(s, k)'
    BY <1>1, <2>2, <2>3, <2>4
  <2> QED
    BY <2>1, <2>5 DEF NotOlder
<1> QED
  BY <1>2, <1>3 DEF KnownIsNotNewer

LEMMA ValidatedStep ==
  ASSUME TypeInv, NEW r \in Requests, HistoryIsPast, KnownIsPast, Validated(r), Handle(r)
  PROVE  Validated(r)'
<1> USE DEF TypeInv
<1>1. SUFFICES ASSUME Validating(r)', NEW x \in (Tagged \cap Recorded(r)') \ loc'[r].todo
               PROVE  loc'[r].copy.etags[x] >= since'[r][x] /\ x \notin barred'[r]
  BY DEF Validated
<1>2. Checks(r)
  <2>1. Lookup(r) => pc'[r] = "stat"
    BY LookupIs, BecomesIs DEF Labels
  <2> QED
    BY <1>1, <2>1, CheckingStep DEF Validating
<1>3. UNCHANGED <<since, barred>> /\ loc'[r].copy = loc[r].copy
  BY <1>1, <1>2, ChecksIs DEF Checks, Quiet, Validating, Checking
<1>4. Recorded(r)' = Recorded(r) /\ HasCopy(r)
  BY <1>2, <1>3 DEF Recorded, Checks, HasCopy
<1>5. loc[r].copy.etags[x] \in 1 .. version[x]
  BY <1>1, <1>4 DEF KnownIsPast, KnownFits, ETagsWere, Recorded
<1>6. CASE pc[r] = "stat" /\ loc'[r].todo = {y \in Recorded(r) : loc[r].copy.etags[y] # NoETag}
  BY <1>1, <1>4, <1>5, <1>6 DEF NoETag
<1>7. CASE Validating(r) /\ loc'[r].todo = loc[r].todo
  BY <1>1, <1>3, <1>4, <1>7 DEF Validated
<1>8. CASE /\ Validating(r) /\ loc'[r].todo = loc[r].todo \ {Source(r)}
           /\ version[Source(r)] = loc[r].copy.etags[Source(r)]
           /\ Source(r) \notin Protected \ allowed
  <2>1. CASE x = Source(r)
    <3>1. loc[r].copy.etags[x] >= since[r][x]
      BY <1>5, <1>8, <2>1 DEF HistoryIsPast
    <3>2. x \notin barred[r]
      BY <1>8, <2>1 DEF HistoryIsPast, TypeOK
    <3> QED
      BY <1>3, <3>1, <3>2
  <2>2. CASE x # Source(r)
    BY <1>1, <1>3, <1>4, <1>8, <2>2 DEF Validated
  <2> QED
    BY <2>1, <2>2
<1>9. ~Becomes(r, "idle") /\ ~Continues(r, "clear") /\ ~Continues(r, "serve")
  BY <1>1, BecomesIs DEF Continues, Labels, Validating, Checking
<1> QED
  BY <1>2, <1>6, <1>7, <1>8, <1>9 DEF Checks

-----------------------------------------------------------------------------
(***************************************************************************)
(* What the output of a service holds may be served.                       *)
(***************************************************************************)
\* What is obtained may be served to every request that is under way.
LEMMA ObtainedIsAdmitted ==
  ASSUME TypeInv, HistoryIsPast, NEW r \in Requests, NEW s \in Services, NEW x, NEW v,
         Obtains(r, s, x, v), NEW q \in Requests
  PROVE  Admits(q, x, v)
<1>1. CASE x \in Tagged
  <2>1. x \notin barred[q]
    BY DEF HistoryIsPast, TypeInv, TypeOK, Obtains
  <2>2. since[q][x] <= version[x]
    BY <1>1 DEF HistoryIsPast
  <2> QED
    BY <2>1, <2>2 DEF Admits, Obtains
<1> QED
  BY <1>1 DEF Admits

\* A request comes to serve an output that it has found up to date or has made.
LEMMA ServeStep ==
  ASSUME TypeInv, NEW r \in Requests, Handle(r), pc'[r] = "serve"
  PROVE  \/ pc[r] = "validate" /\ loc[r].todo = {} /\ loc'[r] = loc[r] /\ Checks(r)
         \/ At(r, "store") /\ Store(r) /\ loc'[r] = loc[r] /\ loc[r].op # "create"
<1> USE DEF TypeInv
<1>1. ~Reserve(r) /\ ~Lookup(r)
  BY ReserveIs, LookupIs, BecomesIs DEF Labels
<1>2. ~Clear(r)
  BY ClearIs, BecomesIs DEF Clears, FailsToClear, Continues, Labels
<1>3. ~Works(r)
  BY WorksIs DEF Materializing
<1>4. ~Serve(r)
  BY ServeIs, BecomesIs DEF Continues, Labels
<1>5. ~Becomes(r, "idle") /\ ~Continues(r, "clear") /\ ~Continues(r, "validate")
  BY BecomesIs DEF Continues, Labels
<1>6. CASE Checks(r)
  <2>1. \A l \in {"head", "exchange", "keep", "retry"} : ~Continues(r, l)
    BY BecomesIs DEF Continues, Labels
  <2> QED
    BY <1>5, <1>6, <2>1 DEF Checks
<1>7. CASE Store(r)
  BY <1>5, <1>7, StoreIs DEF At
<1> QED
  BY <1>1, <1>2, <1>3, <1>4, <1>5, <1>6, <1>7, Kinds, CreateOutputIs, WriteOutputIs
  DEF Works, CreatesIt, WritesIt

\* Versions are held.
LEMMA HeldTypes ==
  ASSUME TypeOK, NEW s \in Services, NEW x, NEW v, Holds(s, x, v)
  PROVE  x \in Sources /\ v \in Versions
<1>1. ASSUME NEW q \in Requests, pc[q] \in {"stage", "load"}, Source(q) = x, loc[q].body = v
      PROVE  x \in Sources /\ v \in Versions
  BY <1>1, LocalTypes DEF TypeOK, Locals
<1>2. CASE \E f \in DOMAIN output[s] : <<x, v>> \in output[s][f].data
  BY <1>2 DEF TypeOK, Data
<1>3. CASE <<x, v>> \in store[s] \/ <<x, v>> \in unloaded[s]
  BY <1>3 DEF TypeOK, Data
<1>4. CASE x \in DOMAIN staged[s] /\ staged[s][x] = v
  BY <1>4 DEF TypeOK
<1> QED
  BY <1>1, <1>2, <1>3, <1>4 DEF Holds

\* A comparison without a difference admits what the output holds.
LEMMA ValidatedAdmits ==
  ASSUME TypeInv, HeldIsPast, KnownIsPast, KnownIsNotNewer,
         NEW r \in Requests, Validated(r), HistoryIsPast,
         pc[r] = "validate", loc[r].todo = {},
         NEW s \in Services, s = Service(r), ~mingled[s], NEW x, NEW v, Holds(s, x, v)
  PROVE  Admits(r, x, v)
<1>1. Validating(r) /\ Checking(r)
  BY DEF Validating, Checking
<1>2. x \in Recorded(r)
  BY <1>1 DEF HeldIsPast, TypeInv, Fits
<1>3. CASE x \in Tagged
  <2>1. loc[r].copy.etags[x] >= since[r][x] /\ x \notin barred[r]
    BY <1>1, <1>2, <1>3 DEF Validated
  <2>2. v >= loc[r].copy.etags[x]
    BY <1>1, <1>2, <1>3 DEF KnownIsNotNewer, NotOlder, Recorded
  <2>3. v \in Nat /\ loc[r].copy.etags[x] \in Nat /\ since[r][x] \in Nat
    <3>1. version[x] \in Nat /\ since[r][x] \in Nat
      BY <1>3 DEF TypeInv, TypeOK, Versions
    <3>2. loc[r].copy.etags[x] \in 1 .. version[x]
      BY <1>1, <1>2, <1>3 DEF KnownIsPast, KnownFits, ETagsWere, HasCopy, Recorded
    <3> QED
      BY <3>1, <3>2, HeldTypes DEF TypeInv, Versions
  <2> QED
    BY <2>1, <2>2, <2>3 DEF Admits
<1> QED
  BY <1>3 DEF Admits

LEMMA AdmitsHeldStep ==
  ASSUME TypeInv, HistoryIsPast, HeldIsPast, KnownIsPast, KnownIsNotNewer,
         NEW r \in Requests, Handle(r), SourcesFit(r), Validated(r),
         NEW q \in Requests, AdmitsHeld(q)
  PROVE  AdmitsHeld(q)'
<1> USE DEF TypeInv
<1>1. SUFFICES ASSUME Materializing(q)' \/ pc'[q] = "serve",
                      NEW s \in Services, s = Service(q)', ~mingled'[s],
                      NEW x, NEW v, Holds(s, x, v)'
               PROVE  Admits(q, x, v)'
  <2>1. Service(q)' \in Services
    BY HandleFits, BecomesIs DEF Service, Locals
  <2> QED
    BY <2>1 DEF AdmitsHeld, Holds, Admits
<1>2. Holds(s, x, v) \/ Obtains(r, s, x, v)
  BY <1>1, HoldsStep
<1>m. ~mingled[s] /\ ~(Clear(r) /\ Clears(r) /\ s = Service(r) /\ ~Interferes(r))
  BY <1>1, ClearHolds, UnmingledStep
<1>3. ASSUME ~Admits(q, x, v)
      PROVE  FALSE
  <2>1. Holds(s, x, v)
    BY <1>2, <1>3, ObtainedIsAdmitted
  <2>2. ~(Materializing(q) \/ pc[q] = "serve") \/ Service(q) # s
    BY <1>3, <1>m, <2>1 DEF AdmitsHeld
  <2>3. q = r
    <3>1. CASE q # r
      <4>1. pc'[q] = pc[q] /\ loc'[q] = loc[q]
        BY <3>1, OthersStay
      <4> QED
        BY <1>1, <2>2, <4>1 DEF Materializing, Service
    <3> QED
      BY <3>1
  <2>4. CASE Materializing(r)'
    <3>1. CASE Clear(r) /\ Clears(r)
      <4>1. s = Service(r)
        BY <1>1, <2>3, <3>1 DEF Clears, Continues, Service
      <4> QED
        BY <1>1, <1>m, <3>1, <4>1, ClearEmpties
    <3>2. CASE Works(r)
      BY <1>1, <2>2, <2>3, <3>2, WorksIs DEF Service
    <3> QED
      BY <2>4, <3>1, <3>2, MaterializingStep
  <2>5. CASE pc'[r] = "serve"
    <3>1. CASE pc[r] = "validate" /\ loc[r].todo = {} /\ loc'[r] = loc[r]
      <4>1. s = Service(r)
        BY <1>1, <2>3, <3>1 DEF Service
      <4> QED
        BY <1>3, <1>m, <2>1, <2>3, <3>1, <4>1, ValidatedAdmits
    <3>2. CASE At(r, "store") /\ loc'[r] = loc[r]
      BY <1>1, <2>2, <2>3, <3>2 DEF At, Materializing, Service
    <3> QED
      BY <2>5, <3>1, <3>2, ServeStep
  <2> QED
    BY <1>1, <2>3, <2>4, <2>5
<1>4. UNCHANGED <<since, barred>> \/ q # r
  <2>1. ASSUME Reserve(r) \/ Lookup(r)
        PROVE  pc'[r] \in {"clear", "stat"}
    BY <2>1, ReserveIs, LookupIs, BecomesIs DEF Labels
  <2> QED
    BY <1>1, <2>1, HistoryStays DEF Materializing
<1>5. since'[q] = since[q] /\ barred'[q] = barred[q]
  BY <1>4, HistoryOf
<1> QED
  BY <1>3, <1>5 DEF Admits
-----------------------------------------------------------------------------
(***************************************************************************)
(* Gaps: sources that a materialization leaves out.                        *)
(***************************************************************************)
LEMMA FailedGrows ==
  ASSUME TypeInv, NEW r \in Requests, Handle(r), NEW q \in Requests, failed[q],
         q # r \/ (~Reserve(r) /\ ~Lookup(r))
  PROVE  failed'[q]
<1>1. CASE Reserve(r) \/ Lookup(r)
  BY <1>1, BeginsHistory
<1>2. CASE ~Reserve(r) /\ ~Lookup(r)
  BY <1>2, FailedStep, FailIs DEF TypeInv
<1> QED
  BY <1>1, <1>2

\* A request that is under way after a step was before, or has just begun.
LEMMA ActiveStep ==
  ASSUME TypeInv, NEW r \in Requests, Handle(r), Active(r)', ~Reserve(r), ~Lookup(r)
  PROVE  Active(r) /\ Service(r)' = Service(r)
<1> USE DEF TypeInv
<1>1. ~Becomes(r, "idle")
  BY BecomesIs DEF Labels, Active
<1>2. Service(r)' = Service(r) <=> loc'[r].service = loc[r].service
  BY DEF Service
<1>3. CASE Checks(r)
  BY <1>1, <1>2, <1>3 DEF Checks, Checking, Active, Continues
<1>4. CASE Works(r)
  BY <1>2, <1>4, WorksIs DEF Materializing, Active
<1>5. CASE Clear(r)
  BY <1>1, <1>2, <1>5, ClearIs DEF Active, Clears, FailsToClear, Continues
<1>6. CASE Store(r)
  BY <1>1, <1>2, <1>6, StoreIs DEF Active, Continues
<1>7. CASE Serve(r)
  BY <1>1, <1>7, ServeIs
<1>8. CASE CreateOutput(r) \/ WriteOutput(r)
  BY <1>1, <1>4, <1>8, CreateOutputIs, WriteOutputIs DEF Works, CreatesIt, WritesIt
<1> QED
  BY <1>3, <1>4, <1>5, <1>6, <1>7, <1>8, Kinds DEF Works

\* A materialization leaves a source out only where a call fails.
LEMMA GapStep ==
  ASSUME TypeInv, NEW r \in Requests, Works(r), Gap(r)'
  PROVE  Gap(r) \/ Fail(r)
<1> USE DEF TypeInv
<1>1. Service(r)' = Service(r)
  BY WorksIs DEF Service
<1>2. PICK x \in SourcesOf[Service(r)] :
        x \notin Recorded(r)' \cup loc'[r].todo /\ ~(Fetching(r)' /\ x = Source(r)')
  BY <1>1 DEF Gap
<1>3. CASE Pursues(r)
  <2>1. Recorded(r)' = Recorded(r)
    BY <1>3 DEF Pursues, Recorded
  <2>2. SUFFICES ASSUME ~Fail(r) PROVE Gap(r)
    OBVIOUS
  <2>3. Fetching(r)' /\ x # loc'[r].source
    BY <1>2, <1>3, <2>2, PursuesIs DEF Source
  <2>4. CASE /\ pc[r] = "next" /\ loc'[r].todo = loc[r].todo \ {loc'[r].source}
    BY <1>2, <2>1, <2>3, <2>4 DEF Gap, Fetching
  <2>5. CASE /\ pc[r] # "next" /\ loc'[r].source = loc[r].source
             /\ loc'[r].todo \in {loc[r].todo, loc[r].todo \ {Source(r)}}
    BY <1>2, <2>1, <2>3, <2>5 DEF Gap, Source
  <2> QED
    BY <1>3, <2>2, <2>4, <2>5 DEF Pursues
<1>4. CASE Stage(r) /\ StagesIt(r)
  <2>1. DOMAIN Assign(loc[r].copy.etags, Source(r), ETag(Source(r), loc[r].body))
          = Recorded(r) \cup {Source(r)}
    BY DEF Assign, Recorded
  <2>2. Recorded(r)' = Recorded(r) \cup {Source(r)} /\ loc'[r].todo = loc[r].todo
    BY <1>4, <2>1 DEF StagesIt, Recorded
  <2> QED
    BY <1>2, <2>2 DEF Gap
<1>5. CASE Load(r) \/ (CreateOutput(r) /\ CreatesIt(r)) \/ (WriteOutput(r) /\ WritesIt(r))
  <2>1. ~Fetching(r) /\ loc'[r].todo = loc[r].todo
    BY <1>5, LoadIs, CreateOutputIs, WriteOutputIs DEF Fetching, CreatesIt, Creates, WritesIt
  <2>2. Recorded(r)' = Recorded(r)
    BY <1>5, LoadIs DEF Recorded, CreatesIt, Creates, WritesIt
  <2> QED
    BY <1>2, <2>1, <2>2 DEF Gap
<1> QED
  BY <1>3, <1>4, <1>5 DEF Works

LEMMA GapsAreKnownStep ==
  ASSUME TypeInv, NEW r \in Requests, GapsAreKnown, Handle(r)
  PROVE  GapsAreKnown'
<1> USE DEF TypeInv
<1>1. SUFFICES ASSUME NEW p \in Requests, Materializing(p)', Gap(p)',
                      NEW q \in Requests, Active(q)', Service(q)' = Service(p)'
               PROVE  failed'[q]
  BY DEF GapsAreKnown
<1>2. ASSUME NEW o \in Requests \ {r}
      PROVE  /\ Active(o)' <=> Active(o)
             /\ Materializing(o)' <=> Materializing(o)
             /\ Gap(o)' <=> Gap(o)
             /\ Service(o)' = Service(o)
  BY <1>2, OthersStay DEF Active, Materializing, Gap, Service, Recorded, Fetching, Source
<1>3. CASE p # r
  <2>1. Materializing(p) /\ Gap(p) /\ Active(p) /\ Service(p)' = Service(p)
    BY <1>1, <1>2, <1>3 DEF Materializing, Active
  <2>2. CASE q # r
    <3>1. failed[q]
      BY <1>1, <1>2, <2>1, <2>2 DEF GapsAreKnown
    <3> QED
      BY <2>2, <3>1, FailedGrows
  <2>3. CASE q = r /\ Reserve(r)
    BY <1>1, <2>1, <2>3, ReserveIs DEF Fits
  <2>4. CASE q = r /\ Lookup(r)
    <3>1. failed[p]
      BY <2>1 DEF GapsAreKnown
    <3>2. \E o \in Requests \ {r} : Materializing(o) /\ Service(o) = Service(r)' /\ failed[o]
      BY <1>1, <1>3, <2>1, <2>4, <3>1
    <3> QED
      BY <2>4, <3>2, BeginsHistory
  <2>5. CASE q = r /\ ~Reserve(r) /\ ~Lookup(r)
    <3>1. Active(r) /\ Service(r) = Service(p)
      BY <1>1, <2>1, <2>5, ActiveStep
    <3>2. failed[r]
      BY <2>1, <3>1 DEF GapsAreKnown
    <3> QED
      BY <2>5, <3>2, FailedGrows
  <2> QED
    BY <2>2, <2>3, <2>4, <2>5
<1>4. CASE p = r /\ Clear(r) /\ Clears(r)
  <2>1. /\ Service(r)' = Service(r)
        /\ loc'[r].todo = SourcesOf[Service(r)]
    BY <1>4 DEF Clears, Continues, Service
  <2> QED
    BY <1>1, <1>4, <2>1 DEF Gap
<1>5. CASE p = r /\ Works(r)
  <2>1. Service(r)' = Service(r) /\ Materializing(r) /\ Active(r)
    BY <1>5, WorksIs DEF Materializing, Active, Service
  <2>2. Active(q) /\ Service(q) = Service(r)
    BY <1>1, <1>2, <1>5, <2>1
  <2>3. CASE Fail(r)
    BY <2>2, <2>3, FailIs
  <2>4. CASE Gap(r)
    <3>1. failed[q]
      BY <2>1, <2>2, <2>4 DEF GapsAreKnown
    <3>2. ~Reserve(r) /\ ~Lookup(r)
      BY <2>1 DEF Reserve, Lookup, Begin, At, Active
    <3> QED
      BY <3>1, <3>2, FailedGrows
  <2> QED
    BY <1>1, <1>5, <2>3, <2>4, GapStep
<1> QED
  BY <1>1, <1>3, <1>4, <1>5, MaterializingStep

LEMMA HasFirst ==
  ASSUME NEW S, NEW x, NEW y, <<x, y>> \in S
  PROVE  \E d \in S : d[1] = x
<1>1. <<x, y>>[1] = x
  OBVIOUS
<1> QED
  BY <1>1

\* A materialization without a gap that has come to an end has recorded all sources.
LEMMA NoGap ==
  ASSUME TypeInv, NEW r \in Requests, SourcesFit(r), pc[r] \in {"write", "store"}, ~Gap(r)
  PROVE  Recorded(r) = SourcesOf[Service(r)] /\ SourcesOf[Service(r)] # {}
<1>1. Materializing(r) /\ ~Fetching(r)
  BY DEF Materializing, Fetching
<1>2. Service(r) \in Services
  BY LocalTypes DEF TypeInv
<1> QED
  BY <1>1, <1>2 DEF SourcesFit, Gap

\* What is in its store covers them.
LEMMA StoreCovers ==
  ASSUME TypeInv, NEW r \in Requests, SourcesFit(r), DirectoriesFit(r), ~Gap(r),
         pc[r] \in {"write", "store"}, NEW s \in Services, s = Service(r), ~mingled[s]
  PROVE  \A x \in SourcesOf[s] : \E d \in store[s] \cup unloaded[s] : d[1] = x
<1>1. Materializing(r) /\ ~At(r, "load")
  BY DEF Materializing, At
<1>2. StoreFits(r, s)
  BY <1>1 DEF DirectoriesFit
<1>3. \A x \in SourcesOf[s] : <<x, staged[s][x]>> \in store[s] \cup unloaded[s]
  BY <1>1, <1>2, NoGap DEF StoreFits
<1> QED
  BY <1>3, HasFirst

LEMMA OutputCovers ==
  ASSUME TypeInv, NEW r \in Requests, SourcesFit(r), DirectoriesFit(r), ~Gap(r), Materializing(r),
         NEW s \in Services, s = Service(r), ~mingled[s]
  PROVE  Covered(s)
<1>1. OutputFits(r, s)
  BY DEF DirectoriesFit
<1>2. CASE At(r, "write")
  BY <1>1, <1>2 DEF OutputFits, Covered, At
<1>3. CASE At(r, "store")
  <2>1. loc[r].copy.path = "output" /\ output[s]["output"].data = store[s]
    BY <1>1, <1>3, NoGap DEF OutputFits, SourcesFit, At
  <2>2. \A x \in SourcesOf[s] : \E d \in store[s] \cup unloaded[s] : d[1] = x
    BY <1>3, StoreCovers DEF At
  <2> QED
    BY <2>1, <2>2 DEF Covered
<1>4. CASE ~At(r, "write") /\ ~At(r, "store")
  BY <1>1, <1>4 DEF OutputFits, Covered, At
<1> QED
  BY <1>2, <1>3, <1>4

\* An output that covers all sources does so until one is written that was made
\* without some.
LEMMA CoveredStep ==
  ASSUME TypeInv, NEW r \in Requests, SourcesFit(r), DirectoriesFit(r), Handle(r),
         NEW s \in Services, Covered(s), ~mingled[s]
  PROVE  Covered(s)' \/ (Materializing(r) /\ Gap(r) /\ Service(r) = s)
<1> USE DEF TypeInv
<1>1. DiskType
  BY DEF TypeOK, DiskType
<1>2. CASE output'[s] = output[s] /\ unloaded[s] \subseteq unloaded'[s]
  BY <1>2 DEF Covered
<1>3. CASE Clear(r) /\ Service(r) = s
  <2>1. CASE output'[s] = EmptyMap
    BY <2>1 DEF EmptyMap, Covered
  <2> QED
    BY <1>2, <1>3, <2>1, ClearEmpties
<1>4. CASE Stage(r)
  BY <1>2, <1>4, StageWrites
<1>5. CASE Load(r)
  <2>1. UNCHANGED output
    BY <1>5, LoadWrites
  <2>2. unloaded[s] \subseteq unloaded'[s]
    BY <1>1, <1>5, LoadWrites DEF DiskType
  <2> QED
    BY <1>2, <2>1, <2>2
<1>6. CASE CreateOutput(r) /\ Service(r) = s
  <2>1. pc[r] = "next" /\ Materializing(r)
    BY <1>6, CreateOutputIs DEF Materializing
  <2>2. DOMAIN output[s] = {}
    BY <1>6, <2>1 DEF DirectoriesFit, OutputFits
  <2>3. unloaded' = unloaded
    BY <1>6, CreateOutputWrites
  <2>4. CASE output' = [output EXCEPT ![s] = Assign(output[s], "empty", [data |-> {}, writers |-> {}])]
    <3>1. output'[s] = Assign(output[s], "empty", [data |-> {}, writers |-> {}])
      BY <1>1, <2>4 DEF DiskType
    <3>2. DOMAIN output'[s] = {"empty"}
      BY <2>2, <3>1 DEF Assign
    <3> QED
      BY <3>2 DEF Covered
  <2>5. CASE output' = [output EXCEPT ![s] =
                          Assign(output[s], "output", [data |-> store[s], writers |-> Writers(r)])]
    <3>1. output'[s] = Assign(output[s], "output", [data |-> store[s], writers |-> Writers(r)])
      BY <1>1, <2>5 DEF DiskType
    <3>2. output'[s]["output"].writers = Writers(r)
      BY <3>1 DEF Assign
    <3>3. Writers(r) # {}
      BY DEF Writers
    <3> QED
      BY <3>2, <3>3 DEF Covered
  <2>6. CASE output' = output
    BY <1>2, <2>3, <2>6
  <2> QED
    BY <1>6, <2>4, <2>5, <2>6, CreateOutputWrites
<1>7. CASE WriteOutput(r) /\ Service(r) = s
  <2>1. pc[r] = "write" /\ Materializing(r) /\ At(r, "write")
    BY <1>7, WriteOutputIs DEF Materializing, At
  <2>2. unloaded' = unloaded
    BY <1>7, WriteOutputWrites
  <2>3. CASE output' = output
    BY <1>2, <2>2, <2>3
  <2>4. CASE ~Gap(r) /\ output' = [output EXCEPT ![s] = Written(r)]
    <3>1. output'[s] = Written(r)
      BY <1>1, <2>4 DEF DiskType
    <3>2. "output" \in DOMAIN output[s] /\ output[s]["output"].data = store[s]
      <4>1. OutputFits(r, s)
        BY <1>7, <2>1 DEF DirectoriesFit
      <4>2. loc[r].copy.path = "output"
        BY <2>1 DEF SourcesFit, At
      <4> QED
        BY <2>1, <4>1, <4>2 DEF OutputFits, At
    <3>3. output'[s]["output"].data = store[s]
      BY <1>7, <3>1, <3>2 DEF Written
    <3> QED
      BY <1>7, <2>1, <2>2, <2>4, <3>3, StoreCovers DEF Covered
  <2> QED
    BY <1>7, <2>1, <2>3, <2>4, WriteOutputIs
<1>8. CASE Service(r) # s
  BY <1>2, <1>8, OtherDirectories DEF Untouched
<1> QED
  BY <1>2, <1>3, <1>4, <1>5, <1>6, <1>7, <1>8, DiskStays DEF diskVars
-----------------------------------------------------------------------------
(***************************************************************************)
(* The ETags that are kept, and the output they are kept with.             *)
(***************************************************************************)
LEMMA LeavesMaterializing ==
  ASSUME TypeInv, NEW r \in Requests, Handle(r), Materializing(r), ~Materializing(r)'
  PROVE  \/ Store(r)
         \/ /\ CreateOutput(r) \/ WriteOutput(r)
            /\ UNCHANGED <<output, unloaded, services>>
<1> USE DEF TypeInv
<1>1. ~Reserve(r) /\ ~Lookup(r)
  BY DEF Reserve, Lookup, Begin, At, Materializing
<1>2. ~Clear(r) /\ ~Serve(r)
  BY DEF Clear, Serve, At, Materializing
<1>3. ~Checks(r)
  BY DEF Checks, Checking, Materializing
<1>4. ~Works(r)
  BY WorksIs
<1>5. CASE CreateOutput(r)
  <2>1. UNCHANGED output
    BY <1>4, <1>5, CreateOutputIs DEF Works, CreatesIt
  <2> QED
    BY <1>5, <2>1 DEF CreateOutput, serverVars
<1>6. CASE WriteOutput(r)
  <2>1. UNCHANGED output
    BY <1>4, <1>6, WriteOutputIs DEF Works, WritesIt
  <2> QED
    BY <1>6, <2>1 DEF WriteOutput, serverVars
<1> QED
  BY <1>1, <1>2, <1>3, <1>4, <1>5, <1>6, Kinds DEF Works

\* The ETags of k are those of the data in the output of s, or no newer.
DescribesWhole(s, k) ==
  LET file == output[s][k.path] IN
  /\ {d[1] : d \in file.data} \subseteq DOMAIN k.etags
  /\ DOMAIN k.etags \subseteq {d[1] : d \in file.data \cup unloaded[s]}
  /\ \A d \in file.data : ETag(d[1], d[2]) = k.etags[d[1]]

DescribesPart(s, k) ==
  \A d \in output[s][k.path].data : d[1] \in Tagged \cap DOMAIN k.etags => d[2] >= k.etags[d[1]]

Describes(s, k) ==
  \/ k.path \notin DOMAIN output[s]
  \/ IF output[s][k.path].writers = {} THEN DescribesWhole(s, k) ELSE DescribesPart(s, k)

LEMMA ETagsDescribeOutputIs ==
  ETagsDescribeOutput <=>
    \A s \in DOMAIN services :
      \/ mingled[s] \/ \E r \in Requests : Materializing(r) /\ Service(r) = s
      \/ Describes(s, services[s])
  BY DEF ETagsDescribeOutput, Describes, DescribesWhole, DescribesPart

LEMMA StoreDescribes ==
  ASSUME TypeInv, NEW r \in Requests, DirectoriesFit(r), At(r, "store"),
         NEW s \in Services, s = Service(r), ~mingled[s]
  PROVE  Describes(s, loc[r].copy)
<1>1. Materializing(r) /\ ~At(r, "load") /\ ~At(r, "write")
  BY DEF Materializing, At
<1>2. StagedFits(r, s) /\ StoreFits(r, s) /\ OutputFits(r, s)
  BY <1>1 DEF DirectoriesFit
<1>3. /\ output[s][loc[r].copy.path].data = store[s]
      /\ output[s][loc[r].copy.path].writers = {}
  BY <1>1, <1>2 DEF OutputFits, At
<1>4. \A d \in store[s] : d = <<d[1], d[2]>>
  BY DEF TypeInv, TypeOK, Data
<1>5. \A d \in store[s] : /\ d[1] \in Recorded(r) /\ d[2] = staged[s][d[1]]
                          /\ ETag(d[1], d[2]) = loc[r].copy.etags[d[1]]
  BY <1>2, <1>4 DEF StoreFits, StagedFits
<1>6. \A x \in Recorded(r) : <<x, staged[s][x]>> \in store[s] \cup unloaded[s]
  BY <1>1, <1>2 DEF StoreFits
<1>7. \A x \in Recorded(r) : \E d \in store[s] \cup unloaded[s] : d[1] = x
  BY <1>6, HasFirst
<1> QED
  BY <1>3, <1>5, <1>7 DEF Describes, DescribesWhole, Recorded

\* What a query left in part holds is no older than the ETags that are kept.
LEMMA PartDescribes ==
  ASSUME TypeInv, NEW s \in Services, NEW k, NotOlder(s, k)
  PROVE  k.path \in DOMAIN output[s] => DescribesPart(s, k)
<1> SUFFICES ASSUME k.path \in DOMAIN output[s], NEW d \in output[s][k.path].data,
                    d[1] \in Tagged \cap DOMAIN k.etags
             PROVE  d[2] >= k.etags[d[1]]
  BY DEF DescribesPart
<1>1. d = <<d[1], d[2]>>
  BY DEF TypeInv, TypeOK, Data
<1>2. Holds(s, d[1], d[2])
  BY <1>1 DEF Holds
<1> QED
  BY <1>2 DEF NotOlder

LEMMA ETagsDescribeOutputStep ==
  ASSUME TypeInv, NEW r \in Requests, SourcesFit(r), DirectoriesFit(r), KnownIsNotNewer,
         ETagsDescribeOutput, Handle(r)
  PROVE  ETagsDescribeOutput'
<1> USE DEF TypeInv
<1>1. SUFFICES ASSUME NEW s \in DOMAIN services', ~mingled'[s],
                      \A q \in Requests : ~(Materializing(q)' /\ Service(q)' = s)
               PROVE  Describes(s, services[s])'
  <2>1. SUFFICES ASSUME NEW s \in DOMAIN services', ~mingled'[s],
                        ~\E q \in Requests : Materializing(q)' /\ Service(q)' = s
                 PROVE  Describes(s, services[s])'
    BY DEF ETagsDescribeOutput, Describes, DescribesWhole, DescribesPart
  <2> QED
    BY <1>1, <2>1
<1>s. s \in Services
  BY StateTypeStep, HandleFits
<1>c. ~(Clear(r) /\ Clears(r) /\ Service(r) = s)
  <2>1. Clear(r) /\ Clears(r) => Materializing(r)' /\ Service(r)' = Service(r)
    BY WorksAt DEF Clears, Continues, Materializing, Service
  <2> QED
    BY <1>1, <2>1
<1>m. ~mingled[s]
  BY <1>1, <1>s, <1>c, UnmingledStep
<1>2. CASE Materializing(r) /\ Service(r) = s
  <2>1. ~Materializing(r)'
    <3>1. Works(r) => Service(r)' = Service(r)
      BY WorksIs DEF Service
    <3> QED
      BY <1>1, <1>2, <1>c, <3>1, MaterializingStep
  <2>2. CASE Store(r)
    <3>1. output' = output /\ unloaded' = unloaded
      BY <2>2 DEF Store, diskVars
    <3>2. services'[s] = loc[r].copy
      BY <1>2, <2>2 DEF Store, Assign
    <3>3. Describes(s, loc[r].copy)
      BY <1>s, <1>m, <1>2, <2>2, StoreDescribes DEF Store
    <3> QED
      BY <3>1, <3>2, <3>3 DEF Describes, DescribesWhole, DescribesPart
  <2>3. CASE (CreateOutput(r) \/ WriteOutput(r)) /\ UNCHANGED <<output, unloaded, services>>
    <3>1. OutputFits(r, s)
      BY <1>s, <1>m, <1>2 DEF DirectoriesFit
    <3>2. DOMAIN output[s] = {} \/ \A f \in DOMAIN output[s] : output[s][f].writers # {}
      BY <2>3, <3>1, CreateOutputIs, WriteOutputIs DEF OutputFits, At
    <3>3. NotOlder(s, services[s])
      BY <1>m, <2>3 DEF KnownIsNotNewer
    <3>4. Describes(s, services[s])
      BY <1>s, <3>2, <3>3, PartDescribes DEF Describes
    <3> QED
      BY <2>3, <3>4 DEF Describes, DescribesWhole, DescribesPart
  <2> QED
    BY <1>2, <2>1, <2>2, <2>3, LeavesMaterializing
<1>3. CASE ~(Materializing(r) /\ Service(r) = s)
  <2>1. \A q \in Requests : ~(Materializing(q) /\ Service(q) = s)
    <3>1. \A q \in Requests \ {r} : (Materializing(q)' <=> Materializing(q)) /\ Service(q)' = Service(q)
      BY OthersStay DEF Materializing, Service
    <3> QED
      BY <1>1, <1>3, <3>1
  <2>2. services'[s] = services[s] /\ s \in DOMAIN services
    <3>1. Store(r) => Materializing(r)
      BY StoreIs DEF Materializing
    <3> QED
      BY <1>1, <1>3, <3>1, KnownStep
  <2>3. Describes(s, services[s])
    BY <1>m, <2>1, <2>2, ETagsDescribeOutputIs
  <2>4. CASE output'[s] = EmptyMap
    BY <2>4 DEF Describes, EmptyMap
  <2>5. CASE output'[s] = output[s] /\ unloaded'[s] = unloaded[s]
    BY <2>2, <2>3, <2>5 DEF Describes, DescribesWhole, DescribesPart
  <2>6. CASE Clear(r) /\ Service(r) = s
    BY <2>4, <2>5, <2>6, ClearEmpties
  <2>7. CASE ~(Clear(r) /\ Service(r) = s)
    BY <1>s, <1>3, <2>5, <2>7, OtherDirectories DEF Untouched
  <2> QED
    BY <2>6, <2>7
<1> QED
  BY <1>2, <1>3
-----------------------------------------------------------------------------
(***************************************************************************)
(* Gaps heal.                                                              *)
(***************************************************************************)
\* A request that finds the ETags of all sources finds an output that covers them.
LEMMA LookupCovers ==
  ASSUME TypeInv, NEW r \in Requests, \A q \in Requests : SourcesFit(q) /\ DirectoriesFit(q),
         Lookup(r), Handle(r), ETagsDescribeOutput, GapsAreKnown, KnownIsPast, ~failed'[r]
  PROVE  \A s \in DOMAIN services :
           s = loc'[r].service /\ DOMAIN services[s].etags = SourcesOf[s] /\ ~mingled[s] =>
             Covered(s)
<1> USE DEF TypeInv
<1>0. SUFFICES ASSUME NEW s \in DOMAIN services, s = Service(r)',
                      DOMAIN services[s].etags = SourcesOf[s], ~mingled[s]
               PROVE  Covered(s)
  BY DEF Service
<1>1. s \in Services
  BY DEF TypeOK
<1>2. CASE \E q \in Requests : Materializing(q) /\ Service(q) = s
  <2>1. PICK q \in Requests : Materializing(q) /\ Service(q) = s
    BY <1>2
  <2>2. q # r
    BY <2>1 DEF Lookup, Begin, At, Materializing
  <2>3. ~failed[q]
    <3>1. failed'[r] = \E p \in Requests \ {r} :
                         Materializing(p) /\ Service(p) = Service(r)' /\ failed[p]
      BY BeginsHistory
    <3>2. \A p \in Requests \ {r} : ~(Materializing(p) /\ Service(p) = Service(r)' /\ failed[p])
      BY <3>1
    <3> QED
      BY <1>0, <2>1, <2>2, <3>2
  <2>4. ~Gap(q)
    BY <2>1, <2>3 DEF GapsAreKnown, Active, Materializing
  <2> QED
    BY <1>0, <1>1, <2>1, <2>4, OutputCovers
<1>3. CASE ~\E q \in Requests : Materializing(q) /\ Service(q) = s
  <2>1. services[s].path = "output"
    BY <1>0, <1>1 DEF KnownIsPast, KnownFits, PathFits
  <2>2. Describes(s, services[s])
    BY <1>0, <1>3, ETagsDescribeOutputIs
  <2>3. CASE "output" \in DOMAIN output[s] /\ output[s]["output"].writers = {}
    <3>1. SourcesOf[s] \subseteq {d[1] : d \in output[s]["output"].data \cup unloaded[s]}
      BY <1>0, <2>1, <2>2, <2>3 DEF Describes, DescribesWhole
    <3> QED
      BY <3>1 DEF Covered
  <2> QED
    BY <2>3 DEF Covered
<1> QED
  BY <1>2, <1>3

LEMMA CoveredUnlessFailedStep ==
  ASSUME TypeInv, NEW r \in Requests, \A p \in Requests : SourcesFit(p) /\ DirectoriesFit(p),
         Handle(r), ETagsDescribeOutput, GapsAreKnown, KnownIsPast,
         NEW q \in Requests, CoveredUnlessFailed(q)
  PROVE  CoveredUnlessFailed(q)'
<1> USE DEF TypeInv
<1>1. SUFFICES ASSUME ~failed'[q], NEW s \in Services, s = Service(q)',
                      pc'[q] = "serve" \/ (Checking(q)' /\ Recorded(q)' = SourcesOf[s])
               PROVE  /\ mingled'[s] \/ Covered(s)'
                      /\ pc'[q] = "serve" => loc'[q].copy.path = "output"
  <2>1. Service(q)' \in Services
    BY HandleFits, BecomesIs DEF Service, Locals
  <2> QED
    BY <2>1 DEF CoveredUnlessFailed, Covered
<1>2. ASSUME Active(q), Service(q) = s, mingled[s] \/ Covered(s),
             ~(q = r /\ (Reserve(r) \/ Lookup(r)))
      PROVE  mingled'[s] \/ Covered(s)'
  <2>0. SUFFICES ASSUME ~mingled'[s] PROVE Covered(s)'
    OBVIOUS
  <2>1. ~failed[q]
    BY <1>1, <1>2, FailedGrows
  <2>2. ~(Materializing(r) /\ Gap(r) /\ Service(r) = s)
    BY <1>2, <2>1 DEF GapsAreKnown
  <2>3. CASE ~mingled[s]
    BY <1>2, <2>2, <2>3, CoveredStep
  <2>4. CASE Clear(r) /\ Clears(r) /\ s = Service(r)
    <3>1. output'[s] = EmptyMap
      BY <2>4, ClearEmpties
    <3> QED
      BY <3>1 DEF EmptyMap, Covered
  <2> QED
    BY <2>0, <2>3, <2>4, UnmingledStep
<1>3. CASE q # r
  <2>1. pc'[q] = pc[q] /\ loc'[q] = loc[q]
    BY <1>3, OthersStay
  <2>2. ~failed[q] /\ Service(q) = s /\ Active(q)
    BY <1>1, <1>3, <2>1, FailedGrows DEF Active, Service, Checking
  <2>3. pc[q] = "serve" \/ (Checking(q) /\ Recorded(q) = SourcesOf[s])
    BY <1>1, <2>1 DEF Checking, Recorded
  <2>4. (mingled[s] \/ Covered(s)) /\ (pc[q] = "serve" => loc[q].copy.path = "output")
    BY <2>2, <2>3 DEF CoveredUnlessFailed
  <2> QED
    BY <1>2, <1>3, <2>1, <2>2, <2>4
<1>4. CASE q = r /\ Lookup(r)
  <2>1. /\ s \in DOMAIN services /\ loc'[r].copy = services[s] /\ pc'[r] = "stat"
    BY <1>1, <1>4, LookupIs, BecomesIs DEF Labels
  <2>2. mingled[s] \/ Covered(s)
    <3>1. DOMAIN services[s].etags = SourcesOf[s] /\ ~failed'[r] /\ s = loc'[r].service
      BY <1>1, <1>4, <2>1 DEF Recorded, Checking, Service
    <3> QED
      BY <1>4, <2>1, <3>1, LookupCovers
  <2>3. output' = output /\ unloaded' = unloaded /\ mingled' = mingled
    BY <1>4 DEF Lookup, Begin, diskVars
  <2> QED
    BY <1>4, <2>1, <2>2, <2>3 DEF Covered
<1>5. CASE q = r /\ Checks(r) /\ pc'[r] # "serve"
  <2>1. loc'[r].copy = loc[r].copy /\ loc'[r].service = loc[r].service
    BY <1>1, <1>5, ChecksIs DEF Checking
  <2>2. Checking(r) /\ Recorded(r) = SourcesOf[s] /\ Service(r) = s /\ Active(r)
    BY <1>1, <1>5, <2>1 DEF Checks, Recorded, Service, Active, Checking
  <2>3. ~Reserve(r) /\ ~Lookup(r)
    BY <2>2 DEF Reserve, Lookup, Begin, At, Active
  <2>4. ~failed[r]
    BY <1>1, <1>5, <2>3, FailedGrows
  <2> QED
    BY <1>2, <1>5, <2>2, <2>3, <2>4 DEF CoveredUnlessFailed
<1>6. CASE q = r /\ pc'[r] = "serve" /\ pc[r] = "validate" /\ loc'[r] = loc[r]
  <2>1. Checking(r) /\ Validating(r) /\ Active(r) /\ HasCopy(r) /\ Service(r) = s
    BY <1>1, <1>6 DEF Checking, Validating, Active, HasCopy, Service
  <2>2. Recorded(r) = SourcesOf[s] /\ SourcesOf[s] # {}
    BY <2>1 DEF Fits
  <2>3. loc[r].copy.path = "output"
    BY <2>1, <2>2 DEF KnownIsPast, KnownFits, PathFits, Recorded
  <2>4. ~Reserve(r) /\ ~Lookup(r)
    BY <2>1 DEF Reserve, Lookup, Begin, At, Active
  <2>5. ~failed[r]
    BY <1>1, <1>6, <2>4, FailedGrows
  <2>6. mingled[s] \/ Covered(s)
    BY <1>6, <2>1, <2>2, <2>5 DEF CoveredUnlessFailed
  <2> QED
    BY <1>2, <1>6, <2>1, <2>3, <2>4, <2>6
<1>7. CASE q = r /\ At(r, "store") /\ loc'[r] = loc[r]
  <2>1. Materializing(r) /\ Active(r) /\ Service(r) = s
    BY <1>1, <1>7 DEF Materializing, At, Active, Service
  <2>2. ~Reserve(r) /\ ~Lookup(r)
    BY <2>1 DEF Reserve, Lookup, Begin, At, Active
  <2>3. ~failed[r]
    BY <1>1, <1>7, <2>2, FailedGrows
  <2>4. ~Gap(r)
    BY <2>1, <2>3 DEF GapsAreKnown
  <2>5. mingled[s] \/ Covered(s)
    BY <2>1, <2>4, OutputCovers
  <2>6. loc[r].copy.path = "output"
    BY <1>7, <2>1, <2>4, NoGap DEF SourcesFit, At
  <2> QED
    BY <1>2, <1>7, <2>1, <2>2, <2>5, <2>6
<1> QED
  BY <1>1, <1>3, <1>4, <1>5, <1>6, <1>7, CheckingStep, ServeStep
-----------------------------------------------------------------------------
(***************************************************************************)
(* The invariant.                                                          *)
(***************************************************************************)
LEMMA InitTypes ==
  ASSUME Init
  PROVE  TypeInv
<1> USE DEF Init
<1>1. 1 \in Versions /\ 1 \in Tokens
  BY DEF Versions, Tokens
<1>2. \A r \in Requests : pc[r] = "idle" /\ loc[r] = Idle
  OBVIOUS
<1>3. DOMAIN EmptyMap = {}
  BY DEF EmptyMap
<1>4. TypeOK
  <2>1. /\ version \in [Sources -> Versions] /\ allowed \subseteq Protected
        /\ requested \subseteq Protected /\ generation \in [Sources -> Tokens]
        /\ tokens \in [Sources -> Tokens \cup {NoToken}]
    BY <1>1
  <2>2. /\ reserved \subseteq Services /\ DOMAIN services \subseteq reserved
        /\ \A s \in DOMAIN services : services[s] \in Known
    BY <1>3
  <2>3. DiskType
    BY <1>3 DEF DiskType
  <2>4. HistoryType
    <3>1. \A x \in Tagged : version[x] \in Versions
      BY <1>1
    <3> QED
      BY <3>1 DEF HistoryType
  <2>5. pc \in [Requests -> Labels] /\ loc \in [Requests -> Locals]
    BY IdleIs DEF Labels
  <2>6. \A r \in Requests : LabelFits(r)
    BY <1>2 DEF LabelFits
  <2> QED
    BY <2>1, <2>2, <2>3, <2>4, <2>5, <2>6 DEF TypeOK, DiskType, HistoryType, LabelFits, Locals, Recorded
<1>5. \A r \in Requests : Fits(r)
  BY <1>2 DEF Fits, Active, Checking, Validating
<1> QED
  BY <1>4, <1>5 DEF TypeInv

LEMMA InitInv ==
  ASSUME Init
  PROVE  IInv
<1>0. TypeInv
  BY InitTypes
<1> USE DEF Init
<1>1. \A r \in Requests : pc[r] = "idle" /\ loc[r] = Idle
  OBVIOUS
<1>2. DOMAIN EmptyMap = {}
  BY DEF EmptyMap
<1>3. \A r \in Requests : /\ ~Materializing(r) /\ ~Checking(r) /\ ~Validating(r) /\ ~HasCopy(r)
                          /\ pc[r] \notin {"serve", "stage", "load"}
  BY <1>1 DEF Materializing, Checking, Validating, HasCopy
<1>4. \A s \in Services : \A x, v : ~Holds(s, x, v)
  BY <1>2, <1>3 DEF Holds
<1>5. HistoryIsPast
  <2>1. \A x \in Tagged : version[x] \in Nat
    OBVIOUS
  <2>2. \A r \in Requests : \A x \in Tagged : since[r][x] = version[x]
    OBVIOUS
  <2>3. \A r \in Requests : barred[r] = {}
    OBVIOUS
  <2>4. \A r \in Requests : \A x \in Tagged : since[r][x] <= version[x]
    BY <2>1, <2>2
  <2>5. \A r \in Requests : barred[r] \cap allowed = {}
    BY <2>3
  <2> HIDE DEF Init
  <2> QED
    BY <2>4, <2>5 DEF HistoryIsPast
<1>6. DOMAIN services = {}
  BY <1>2
<1> HIDE DEF Init
<1>7. KnownIsPast /\ HeldIsPast /\ KnownIsNotNewer
  BY <1>3, <1>4, <1>6 DEF KnownIsPast, HeldIsPast, KnownIsNotNewer
<1>8. GapsAreKnown /\ AloneInDirectories /\ ETagsDescribeOutput
  BY <1>3, <1>6 DEF GapsAreKnown, AloneInDirectories, ETagsDescribeOutput
<1>9. ASSUME NEW r \in Requests
      PROVE  SourcesFit(r) /\ DirectoriesFit(r) /\ Validated(r) /\ AdmitsHeld(r) /\ CoveredUnlessFailed(r)
  BY <1>3 DEF SourcesFit, DirectoriesFit, Validated, AdmitsHeld, CoveredUnlessFailed
<1> QED
  BY <1>0, <1>5, <1>7, <1>8, <1>9 DEF IInv

\* A step of the web, or none: sources get newer, what was readable remains so.
Ages ==
  /\ \A x \in Sources : version[x] <= version'[x]
  /\ \A r \in Requests : barred'[r] \subseteq barred[r]
  /\ \A r \in Requests : barred[r] \cap allowed = {} => barred'[r] \cap allowed' = {}
  /\ UNCHANGED <<services, reserved, staged, store, output, unloaded, mingled, pc, loc, since, failed>>

LEMMA WebAges ==
  ASSUME TypeOK, UNCHANGED vars \/ \E x \in Sources : Publish(x) \/ Expire(x) \/ Withdraw(x) \/ Grant(x)
  PROVE  Ages
<1>1. \A x \in Sources : version[x] \in Nat
  BY DEF TypeOK, Versions
<1>2. CASE UNCHANGED vars
  BY <1>1, <1>2 DEF Ages, vars, worldVars, serverVars, diskVars, historyVars, requestHistory
<1>3. CASE \E x \in Sources : Publish(x) \/ Expire(x) \/ Withdraw(x) \/ Grant(x)
  <2>1. PICK x \in Sources : WebMoves(x)
    BY <1>3, WebStep
  <2>2. \A y \in Sources : version[y] <= version'[y]
    BY <1>1, <2>1 DEF WebMoves, TypeOK
  <2> QED
    BY <2>1, <2>2 DEF WebMoves, Ages, serverVars, diskVars
<1> QED
  BY <1>2, <1>3

LEMMA InvAges ==
  ASSUME TypeInv', IInv, Ages
  PROVE  IInv'
<1>t. TypeInv
  BY DEF IInv
<1>1. UNCHANGED <<services, reserved, staged, store, output, unloaded, mingled, pc, loc, since, failed>>
  BY DEF Ages
<1>2. /\ \A x \in Sources : version[x] \in Nat /\ version'[x] \in Nat /\ version[x] <= version'[x]
      /\ Tagged \subseteq Sources
  BY <1>t DEF Ages, TypeInv, TypeOK, Versions
<1>3. AloneInDirectories'
  BY <1>1 DEF IInv, AloneInDirectories, Materializing, Service
<1>4. ASSUME NEW r \in Requests
      PROVE  SourcesFit(r)' /\ DirectoriesFit(r)'
  <2>1. SourcesFit(r)'
    BY <1>1 DEF IInv, SourcesFit, Materializing, Service, Recorded, At, Source, Fetching
  <2>2. \A s \in Services : /\ StagedFits(r, s)' <=> StagedFits(r, s)
                            /\ StoreFits(r, s)' <=> StoreFits(r, s)
                            /\ OutputFits(r, s)' <=> OutputFits(r, s)
    BY <1>1 DEF StagedFits, StoreFits, OutputFits, Recorded, At, Source
  <2>3. DirectoriesFit(r)'
    BY <1>1, <2>2 DEF IInv, DirectoriesFit, Materializing, Service
  <2> QED
    BY <2>1, <2>3
<1>5. HistoryIsPast'
  <2>1. \A r \in Requests : since'[r] = since[r]
    BY <1>1
  <2>2. \A r \in Requests : \A x \in Tagged : since[r][x] \in Nat
    BY <1>t DEF TypeInv, TypeOK, Versions
  <2> QED
    BY <1>2, <2>1, <2>2 DEF IInv, Ages, HistoryIsPast
<1>6. ASSUME NEW k, KnownFits(k)
      PROVE  KnownFits(k)'
  <2>1. ASSUME NEW x \in DOMAIN k.etags, x \in Tagged, k.etags[x] \in 1 .. version[x]
        PROVE  k.etags[x] \in 1 .. version'[x]
    BY <1>2, <2>1
  <2> QED
    BY <1>6, <2>1 DEF KnownFits, PathFits, ETagsWere
<1>7. KnownIsPast'
  <2>1. ASSUME NEW s \in DOMAIN services'
        PROVE  KnownFits(services[s])'
    <3>1. PICK k : k = services[s] /\ k = services'[s]
      BY <1>1
    <3>2. KnownFits(k)'
      BY <1>1, <1>6, <2>1, <3>1 DEF IInv, KnownIsPast
    <3> QED
      BY <3>1, <3>2 DEF KnownFits, PathFits, ETagsWere
  <2>2. ASSUME NEW r \in Requests, HasCopy(r)'
        PROVE  KnownFits(loc[r].copy)'
    <3>1. PICK k : k = loc[r].copy /\ k = loc'[r].copy
      BY <1>1
    <3>2. HasCopy(r)
      BY <1>1, <2>2 DEF HasCopy, Checking, Materializing
    <3>3. KnownFits(k)'
      BY <1>6, <3>1, <3>2 DEF IInv, KnownIsPast
    <3> QED
      BY <3>1, <3>3 DEF KnownFits, PathFits, ETagsWere
  <2> QED
    BY <2>1, <2>2 DEF KnownIsPast
<1>8. \A s, x, v : Holds(s, x, v)' <=> Holds(s, x, v)
  BY <1>1 DEF Holds, Service, Source
<1>9. HeldIsPast'
  <2>1. ASSUME NEW s \in Services, NEW x, NEW v, Holds(s, x, v)
        PROVE  x \in SourcesOf[s] /\ v <= version'[x]
    <3>1. x \in SourcesOf[s] /\ v <= version[x] /\ x \in Sources /\ v \in Nat
      BY <1>t, <2>1, HeldTypes DEF IInv, HeldIsPast, TypeInv, Versions
    <3> QED
      BY <1>2, <3>1
  <2> QED
    BY <1>8, <2>1 DEF HeldIsPast
<1>10. KnownIsNotNewer'
  BY <1>1, <1>8 DEF IInv, KnownIsNotNewer, NotOlder, Checking, Service
<1>11. \A r \in Requests : Validated(r)'
  BY <1>1 DEF Ages, IInv, Validated, Validating, Checking, Recorded
<1>12. \A r \in Requests : AdmitsHeld(r)'
  <2>1. \A r \in Requests : \A x, v : Admits(r, x, v) => Admits(r, x, v)'
    BY <1>1 DEF Ages, Admits
  <2> QED
    BY <1>1, <1>8, <2>1 DEF IInv, AdmitsHeld, Materializing, Service
<1>13. ETagsDescribeOutput'
  BY <1>1 DEF IInv, ETagsDescribeOutput, Materializing, Service
<1>14. GapsAreKnown'
  BY <1>1 DEF IInv, GapsAreKnown, Gap, Materializing, Active, Service, Source, Recorded, Fetching
<1>15. \A r \in Requests : CoveredUnlessFailed(r)'
  BY <1>1 DEF IInv, CoveredUnlessFailed, Covered, Checking, Service, Recorded
<1> QED
  BY <1>3, <1>4, <1>5, <1>7, <1>9, <1>10, <1>11, <1>12, <1>13, <1>14, <1>15 DEF IInv

LEMMA InvStep ==
  ASSUME IInv, TypeInv', NEW r \in Requests, Handle(r)
  PROVE  IInv'
<1> USE DEF IInv
<1>1. AloneInDirectories' /\ \A q \in Requests : SourcesFit(q)' /\ DirectoriesFit(q)'
  BY AloneStep, SourcesFitStep, DirectoriesStep
<1>2. HistoryIsPast' /\ KnownIsPast' /\ HeldIsPast' /\ KnownIsNotNewer'
  BY HistoryIsPastStep, KnownIsPastStep, HeldIsPastStep, KnownIsNotNewerStep
<1>3. ASSUME NEW q \in Requests
      PROVE  Validated(q)'
  <2>1. CASE q = r
    BY <2>1, ValidatedStep
  <2>2. CASE q # r
    <3>1. pc'[q] = pc[q] /\ loc'[q] = loc[q] /\ since'[q] = since[q] /\ barred'[q] = barred[q]
      BY <2>2, OthersStay, HistoryOf
    <3> QED
      BY <3>1 DEF Validated, Validating, Checking, Recorded
  <2> QED
    BY <2>1, <2>2
<1>4. \A q \in Requests : AdmitsHeld(q)'
  BY AdmitsHeldStep
<1>5. \A q \in Requests : CoveredUnlessFailed(q)'
  BY CoveredUnlessFailedStep
<1>6. ETagsDescribeOutput' /\ GapsAreKnown'
  BY ETagsDescribeOutputStep, GapsAreKnownStep
<1> QED
  BY <1>1, <1>2, <1>3, <1>4, <1>5, <1>6

LEMMA Inductive ==
  IInv /\ [Next]_vars => IInv'
<1> SUFFICES ASSUME IInv, [Next]_vars
             PROVE  IInv'
  OBVIOUS
<1>1. TypeInv /\ TypeInv'
  BY TypeStep DEF IInv
<1>2. CASE \E r \in Requests : Handle(r)
  BY <1>1, <1>2, InvStep
<1>3. CASE UNCHANGED vars \/ \E x \in Sources : Publish(x) \/ Expire(x) \/ Withdraw(x) \/ Grant(x)
  BY <1>1, <1>3, WebAges, InvAges DEF TypeInv
<1> QED
  BY <1>2, <1>3 DEF Next

\* The inductive invariant: what a request relies on in the directories of its
\* service, and what is kept of them, fit together as long as no other request has
\* been at work there at the same time.
THEOREM Invariance == Spec => []IInv
<1>1. Init => IInv
  BY InitInv
<1> QED
  BY <1>1, Inductive, PTL DEF Spec

\* Every variable has its type.
THEOREM TypeCorrect == Spec => []TypeOK
<1>1. IInv => TypeOK
  BY DEF IInv, TypeInv
<1> QED
  BY <1>1, Invariance, PTL

\* What a request is served may be served to it.
LEMMA ServedIsAdmitted ==
  ASSUME IInv, NEW r \in Requests, ServesUnmingled(r), NEW d \in File(r).data
  PROVE  Admits(r, d[1], d[2])
<1> DEFINE s == Service(r)
<1>1. s \in Services
  BY LocalTypes DEF IInv, TypeInv
<1>2. loc[r].copy.path \in DOMAIN output[s] /\ pc[r] = "serve" /\ ~mingled[s]
  BY DEF ServesUnmingled, Serves, At
<1>3. d = <<d[1], d[2]>>
  BY <1>1, <1>2 DEF IInv, TypeInv, TypeOK, Data, File
<1>4. Holds(s, d[1], d[2])
  BY <1>2, <1>3 DEF Holds, File
<1> QED
  BY <1>2, <1>4 DEF IInv, AdmitsHeld

\* No request is served data of a version of a tagged source that was replaced
\* before the request began, unless two requests were in the directories of the
\* service at a time: what passes the freshness check was compared with ETags that
\* the data is not older than (routes.go, serviceNeedsMaterialization), and what
\* another request for it writes was read since.
THEOREM FreshIsServed == Spec => []ServedIsFresh
<1>1. IInv => ServedIsFresh
  BY ServedIsAdmitted DEF ServedIsFresh, Admits
<1> QED
  BY <1>1, Invariance, PTL

\* Nor is one served data of a tagged source that could not be read since it began.
THEOREM ReadableIsServed == Spec => []ServedWasReadable
<1>1. IInv => ServedWasReadable
  BY ServedIsAdmitted DEF ServedWasReadable, Admits
<1> QED
  BY <1>1, Invariance, PTL

\* A request that is served an output in full is served data of all sources, if no
\* call failed for it and for those that it overlapped with, but for what oxigraph
\* could not load and has not changed: a gap is known to all who come by it.
THEOREM CompleteIsServed == Spec => []ServedIsComplete
<1>1. IInv => ServedIsComplete
  <2> SUFFICES ASSUME IInv, NEW r \in Requests, ServesUnmingled(r), File(r).writers = {}, ~failed[r],
                      NEW x \in SourcesOf[Service(r)]
               PROVE  \/ \E d \in File(r).data : d[1] = x
                      \/ \E d \in unloaded[Service(r)] :
                           d[1] = x /\ (x \in Tagged => d[2] >= since[r][x])
    BY DEF ServedIsComplete
  <2> DEFINE s == Service(r)
  <2>1. s \in Services
    BY LocalTypes DEF IInv, TypeInv
  <2>2. loc[r].copy.path \in DOMAIN output[s] /\ pc[r] = "serve" /\ ~mingled[s]
    BY DEF ServesUnmingled, Serves, At
  <2>3. loc[r].copy.path = "output" /\ Covered(s)
    BY <2>2 DEF IInv, CoveredUnlessFailed
  <2>4. PICK d \in File(r).data \cup unloaded[s] : d[1] = x
    BY <2>2, <2>3 DEF Covered, File
  <2>5. CASE d \in unloaded[s]
    <3>1. d = <<d[1], d[2]>>
      BY <2>1, <2>5 DEF IInv, TypeInv, TypeOK, Data
    <3>2. Holds(s, d[1], d[2])
      BY <2>5, <3>1 DEF Holds
    <3>3. Admits(r, d[1], d[2])
      BY <2>2, <3>2 DEF IInv, AdmitsHeld
    <3> QED
      BY <2>4, <2>5, <3>3 DEF Admits
  <2> QED
    BY <2>4, <2>5
<1> QED
  BY <1>1, Invariance, PTL

\* The ETags that are kept with a service are those of the data in its output, as
\* long as no request is computing it, whatever failed in computing it and however
\* much of it a query left (routes.go, materialize).
THEOREM ETagsDescribe == Spec => []ETagsDescribeOutput
<1>1. IInv => ETagsDescribeOutput
  BY DEF IInv
<1> QED
  BY <1>1, Invariance, PTL
=============================================================================
