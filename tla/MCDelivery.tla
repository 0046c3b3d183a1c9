----------------------------- MODULE MCDelivery -----------------------------
(* Instances of ReportDelivery for TLC.                                    *)
EXTENDS ReportDelivery, TLC

CONSTANTS alice, bob, a, b

Caps(n) == [most |-> [t \in Token |-> n], post |-> [t \in Token |-> n]]
Trade == [dirs |-> {0}, caps |-> Caps(1)]
Pause == [dirs |-> {}, caps |-> Caps(0)]

OneOwner == (a :> alice @@ b :> alice)
TwoOwners == (a :> alice @@ b :> bob)

TradeOrPause == {Trade, Pause}

SwitchSymmetry == Permutations({a, b})
\* Swapping the owners swaps their strategies.
OwnerSymmetry == {[x \in {alice, bob, a, b} |-> x], (alice :> bob @@ bob :> alice @@ a :> b @@ b :> a)}
=============================================================================
