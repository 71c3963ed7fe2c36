--------------------------- MODULE ResourceRegistry ---------------------------
(***************************************************************************)
(* What the handlers take the client of the authorization server (AS) for: *)
(* a set of registered resources, and calls that add one or remove one. A  *)
(* call has its effect at one moment, once, or fails and has none, and     *)
(* nothing else moves the set; a server that stops holds nothing any more. *)
(* RegisterAtAS and UnregisterAtAS of AggregatorServer are such calls in   *)
(* one step each. ProtectionAPI is shown to implement this module.         *)
(***************************************************************************)
CONSTANTS
  Procs,    \* the goroutines
  Names,    \* the resources
  MayFail   \* TRUE iff a call may fail

VARIABLES
  registered,  \* what the AS holds and the server has the id of
  pending      \* goroutine -> the call it makes that had no effect yet

registryVars == <<registered, pending>>

NoCall == <<>>
Calls == {"register", "delete"} \X Names

Init ==
  /\ registered = {}
  /\ pending = [p \in Procs |-> NoCall]

Invoke(p) ==
  /\ pending[p] = NoCall
  /\ \E c \in Calls : pending' = [pending EXCEPT ![p] = c]
  /\ UNCHANGED registered

Finish(p) == pending' = [pending EXCEPT ![p] = NoCall]

Effect(c) ==
  IF c[1] = "register" THEN registered \cup {c[2]} ELSE registered \ {c[2]}

TakeEffect(p) ==
  /\ pending[p] # NoCall
  /\ registered' = Effect(pending[p])
  /\ Finish(p)

FailWithoutEffect(p) ==
  /\ MayFail /\ pending[p] # NoCall
  /\ Finish(p)
  /\ UNCHANGED registered

\* The process ends, and what it knew and was doing with it.
Stop ==
  /\ registered' = {}
  /\ pending' = [p \in Procs |-> NoCall]

Next ==
  \/ \E p \in Procs : Invoke(p) \/ TakeEffect(p) \/ FailWithoutEffect(p)
  \/ Stop

Spec == Init /\ [][Next]_registryVars
=============================================================================
