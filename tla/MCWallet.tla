------------------------------ MODULE MCWallet ------------------------------
(* Payments and slots for checking Wallet. *)
EXTENDS Wallet

CONSTANTS p1, p2

TwoPayments == {p1, p2}
MCPaid == [p \in Payment |-> IF p = p1 THEN 1 ELSE 2]
=============================================================================
