----------------------------- MODULE MCWalletCore -----------------------------
(* Instances of WalletCore and Ledger for TLC. *)
EXTENDS WalletCore, TLC

CONSTANTS k1, k2, k3, none

Call(op, from, to, amount, key) ==
  [op |-> op, from |-> from, to |-> to, amount |-> amount, key |-> key]

\* Two wallets: money comes in, moves both ways and goes out.
\* k1 is also sent for the other wallet, k2 and k3 with other payloads.  Both
\* top-ups of wallet 1 together exceed MaxInt.
MoneyCalls ==
  {Call("TOPUP", 1, 1, 1, k1), Call("TOPUP", 2, 2, 1, k1),
   Call("TRANSFER", 1, 2, 1, k2), Call("TRANSFER", 2, 1, 1, k3),
   Call("WITHDRAWAL", 1, 1, 2, k2), Call("TRANSFER", 1, 1, 1, k3),
   Call("WITHDRAWAL", 2, 2, -1, k3), Call("TOPUP", 1, 1, 2, k3)}

\* Goroutines are alike.
Goroutines == Permutations(Procs)

\* Transfers in both directions and a withdrawal to settle: every pair of
\* goroutines can wait for each other's locks.
LockCalls ==
  {Call("TOPUP", 1, 1, 2, k1), Call("TRANSFER", 1, 2, 1, k2),
   Call("TRANSFER", 2, 1, 1, k3), Call("WITHDRAWAL", 1, 1, 2, k3)}

\* Two top-ups that together exceed MaxInt.
BigCalls ==
  {Call("TOPUP", 1, 1, 3, k1), Call("TOPUP", 1, 1, 1, k2),
   Call("TRANSFER", 1, 2, 1, k3)}
===============================================================================
