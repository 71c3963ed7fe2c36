--------------------------- MODULE MCProtectionAPI ---------------------------
(***************************************************************************)
(* ProtectionAPI for TLC: two requests at a time and the main goroutine.   *)
(***************************************************************************)
EXTENDS ProtectionAPI, TLC

\* Requests are alike, and so are resources.
Symmetry == Permutations(Handlers) \cup Permutations(Resources)
=============================================================================
