------------------------------- MODULE MCNftGate -------------------------------
(* A form for holders with one wallet.                                     *)
EXTENDS NftGate

CONSTANT w1

OneWallet == {w1}
=============================================================================
