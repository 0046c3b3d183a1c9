--------------------------- MODULE MCEventSource ----------------------------
(* An instance of EventSource for TLC: one source and two logs.            *)
EXTENDS EventSource

CONSTANTS a, l1, l2

OneSource == <<a>>
AllOfIt == [l \in {l1, l2} |-> a]
=============================================================================
