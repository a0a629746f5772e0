----------------------------- MODULE MCPayoutFlow -----------------------------
(* Instances of PayoutFlow for TLC. *)
EXTENDS PayoutFlow

CONSTANTS k1, k2, k3, none

Call(op, amount, key) == [op |-> op, wallet |-> 1, amount |-> amount, key |-> key]

\* One top-up, and two withdrawals it covers; Xendit may not take the larger.
TwoWithdrawals ==
  {Call("TOPUP", 3, k1), Call("WITHDRAWAL", 1, k2), Call("WITHDRAWAL", 2, k3)}

\* The key of the top-up is used again for a withdrawal of the same amount.
SameKey == {Call("TOPUP", 2, k1), Call("WITHDRAWAL", 2, k1)}

OneWithdrawal == {Call("TOPUP", 1, k1), Call("WITHDRAWAL", 1, k2)}

EventsFor(refs, statuses) == [ref : refs, status : statuses]

FinalEvents == EventsFor(2 .. MaxRows, Ends)
AllEvents == EventsFor({2}, Ends \union {"REQUESTED"})
===============================================================================
