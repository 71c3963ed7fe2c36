-------------------------- MODULE MCAggregatorServer --------------------------
(***************************************************************************)
(* Workloads of AggregatorServer for TLC: which operations each of a few   *)
(* requests may be. Requests are one-shot, so their number bounds a run,   *)
(* and MCIds has an id for each of them: the bound on ids never binds.     *)
(***************************************************************************)
EXTENDS AggregatorServerInvariant, FiniteSets, TLC

CONSTANTS p, c, d, x, y,  \* the requests
          u               \* a derivation resource that the UAS names

MCIds == 1 .. Cardinality(Requests)

Workload(others) == [r \in Requests |->
  CASE r = p -> {"provision"}
    [] r = c -> {"createService"}
    [] r = d -> {"deleteService"}
    [] OTHER -> others]

\* An aggregator, a service, and two more requests: one of any kind, and one
\* that ends the service or is long at work on its output.
AnyAndDeleteOrGet ==
  [Workload(Ops \ {"provision"}) EXCEPT ![y] = {"deleteService", "getOutput"}]

\* Two more requests that change the state.
ChangingTwo == Workload(Ops \ {"provision", "getCollection", "headCollection"})

\* An aggregator, a service, its deletion, and two requests that use or
\* change the service or the collection at the same time.
OneService == Workload({"getOutput", "deleteService", "getCollection"})

\* The last two requests have the same workload.
SameRole == Permutations({x, y})
=============================================================================
