------------------------------ MODULE MCWallet ------------------------------
(* Instances of WalletExecution for TLC: a registration's approval and ship. *)
EXTENDS WalletExecution, TLC

CONSTANTS approve, ship

ApproveFirst == approve :> None @@ ship :> approve
=============================================================================
