----------------------------- MODULE MCDerivation -----------------------------
(***************************************************************************)
(* Derivation for TLC: a service over one source, and one over this source *)
(* and another.                                                            *)
(***************************************************************************)
EXTENDS Derivation, TLC

CONSTANTS
  s1, s2,  \* services
  x1, x2   \* sources

TwoServices == {s1, s2}
Sharing == [s \in TwoServices |-> IF s = s1 THEN <<x1>> ELSE <<x1, x2>>]

\* Requests are alike.
Symmetry == Permutations(Requests)
=============================================================================
