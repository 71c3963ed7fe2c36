-------------------------- MODULE ServiceCollection --------------------------
(***************************************************************************)
(* What the service collections of the aggregator promise their clients,   *)
(* whatever happens inside the server: an aggregator is opened once and    *)
(* closed once, a service is listed at most once in its life, and every    *)
(* change a client could observe moves the collection to a new revision    *)
(* (the revision is what the ETag of GET and HEAD .../services shows).     *)
(* AggregatorServer is shown to implement this module.                     *)
(***************************************************************************)
EXTENDS Naturals

CONSTANT Ids  \* the ids of aggregators and of services

VARIABLES
  collections,  \* live aggregator -> the ids of the services it lists
  revision,     \* live aggregator -> the revision of its collection
  opened,       \* every aggregator id there has ever been
  listed        \* every service id there has ever been in a collection

collectionVars == <<collections, revision, opened, listed>>

Live == DOMAIN collections

Init ==
  /\ collections = [a \in {} |-> {}]
  /\ revision = [a \in {} |-> 0]
  /\ opened = {}
  /\ listed = {}

\* POST on the registration endpoint: a new aggregator, with an id of its own,
\* an empty collection and revision 0.
Open(a) ==
  /\ a \notin opened
  /\ collections' = [x \in Live \cup {a} |-> IF x = a THEN {} ELSE collections[x]]
  /\ revision' = [x \in Live \cup {a} |-> IF x = a THEN 0 ELSE revision[x]]
  /\ opened' = opened \cup {a}
  /\ UNCHANGED listed

\* DELETE of an aggregator: its collection goes with it.
Close(a) ==
  /\ collections' = [x \in Live \ {a} |-> collections[x]]
  /\ revision' = [x \in Live \ {a} |-> revision[x]]
  /\ UNCHANGED <<opened, listed>>

\* A collection never moves to another membership, and no service of it is
\* refreshed, without moving to the next revision.
Advance(a, members) ==
  /\ collections' = [collections EXCEPT ![a] = members]
  /\ revision' = [revision EXCEPT ![a] = @ + 1]
  /\ UNCHANGED opened

List(a, s) ==
  /\ s \notin listed
  /\ Advance(a, collections[a] \cup {s})
  /\ listed' = listed \cup {s}

Unlist(a, s) ==
  /\ s \in collections[a]
  /\ Advance(a, collections[a] \ {s})
  /\ UNCHANGED listed

\* The description of a listed service changes: its output was materialized
\* again.
Refresh(a) ==
  /\ collections[a] # {}
  /\ Advance(a, collections[a])
  /\ UNCHANGED listed

Next ==
  \/ \E a \in Ids : Open(a)
  \/ \E a \in Live :
       \/ Close(a)
       \/ Refresh(a)
       \/ \E s \in Ids : List(a, s) \/ Unlist(a, s)

Spec == Init /\ [][Next]_collectionVars
=============================================================================
