------------------------------- MODULE MCLedger -------------------------------
(* An instance of Ledger for TLC: balances of -4..3, so that credits wrap. *)
EXTENDS Ledger
CONSTANTS k1, k2, k3, none
===============================================================================
