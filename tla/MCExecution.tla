----------------------------- MODULE MCExecution -----------------------------
(***************************************************************************)
(* Small instances of ExecutionController for TLC.                         *)
(***************************************************************************)
EXTENDS ExecutionController, TLC

CONSTANTS r1, r2, r3, s1, s2, A, B

Ship(s, x) == [action |-> "ship", session |-> s, strategy |-> x,
               expected |-> None, revoke |-> FALSE]
Rebalance(s, x, y) == [action |-> "rebalance", session |-> s, strategy |-> y,
                       expected |-> x, revoke |-> FALSE]
On(act, s, x) == [action |-> act, session |-> s, strategy |-> None,
                  expected |-> x, revoke |-> FALSE]
Revoke(s, x) == [On("dock", s, x) EXCEPT !.revoke = TRUE]

\* Two sessions that share the accounts and may even name the same strategy.
TwoSessions ==
  {Ship(s1, A), Rebalance(s1, A, B), On("swap", s1, A), On("monitor", s1, A),
   On("monitor", s1, B), On("dock", s1, A), Revoke(s1, B),
   Ship(s2, A), Ship(s2, B), On("dock", s2, A)}

\* Everything a caller can ask of one session.
OneSession ==
  {Ship(s1, A), Rebalance(s1, A, B), Revoke(s1, A)}
    \cup {On(act, s1, x) : act \in {"swap", "monitor", "dock"}, x \in {A, B}}

\* ... while a second session tries to ship the same strategy.
SharedStrategy == OneSession \cup {Ship(s2, A)}

\* Shipping and closing only.
ShipAndClose == {Ship(s1, A), On("dock", s1, A), Revoke(s1, A)}

\* The model treats request identifiers alike.
RequestSymmetry == Permutations(Requests)
=============================================================================
