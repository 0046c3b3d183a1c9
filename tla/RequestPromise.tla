--------------------------- MODULE RequestPromise ---------------------------
(***************************************************************************)
(* What the execution controller promises to the caller of executeRequest, *)
(* whatever happens to its process, to the RPC node or to the network:     *)
(*                                                                         *)
(*   - requests are served one at a time;                                  *)
(*   - the state change a request asks for (its primary transaction) takes *)
(*     effect at most once, and only between the acceptance of the request *)
(*     and its result;                                                     *)
(*   - a risk stop closes the strategy instead: once the strategy has been *)
(*     docked for risk, the change the request asked for can no longer     *)
(*     take effect.                                                        *)
(*                                                                         *)
(* The comments "durable, idempotent request" (execution-controller.ts)    *)
(* and the recovery table of execution-recovery.md state this promise;     *)
(* ExecutionController is shown to keep it.                                *)
(***************************************************************************)
CONSTANT Requests       \* the request identifiers callers may use

VARIABLES
  phase,                \* phase[r]: "new", "accepted" or "done"
  applied,              \* the requests whose own change has taken effect
  stopped               \* the requests whose strategy was docked for risk

vars == <<phase, applied, stopped>>

TypeOK ==
  /\ phase \in [Requests -> {"new", "accepted", "done"}]
  /\ applied \subseteq Requests
  /\ stopped \subseteq Requests

Init ==
  /\ phase = [r \in Requests |-> "new"]
  /\ applied = {}
  /\ stopped = {}

Accept(r) ==
  /\ phase[r] = "new"
  /\ \A q \in Requests : phase[q] # "accepted"
  /\ phase' = [phase EXCEPT ![r] = "accepted"]
  /\ UNCHANGED <<applied, stopped>>

Apply(r) ==
  /\ phase[r] = "accepted"
  /\ r \notin applied \cup stopped
  /\ applied' = applied \cup {r}
  /\ UNCHANGED <<phase, stopped>>

Stop(r) ==
  /\ phase[r] = "accepted"
  /\ r \notin stopped
  /\ stopped' = stopped \cup {r}
  /\ UNCHANGED <<phase, applied>>

Conclude(r) ==
  /\ phase[r] = "accepted"
  /\ phase' = [phase EXCEPT ![r] = "done"]
  /\ UNCHANGED <<applied, stopped>>

Next == \E r \in Requests : Accept(r) \/ Apply(r) \/ Stop(r) \/ Conclude(r)

Spec == Init /\ [][Next]_vars
=============================================================================
