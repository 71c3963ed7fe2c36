--------------------------- MODULE MCMaterialization ---------------------------
(***************************************************************************)
(* Materialization for TLC: requests for one service over one or two       *)
(* sources.                                                                *)
(***************************************************************************)
EXTENDS Materialization, TLC

CONSTANTS
  s1,   \* a service
  a, b  \* sources

OneService == {s1}
OfOne == [s \in OneService |-> {a}]
OfBoth == [s \in OneService |-> {a, b}]

\* Requests are alike.
Symmetry == Permutations(Requests)
=============================================================================
