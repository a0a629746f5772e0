--------------------------------- MODULE Order --------------------------------
(***************************************************************************)
(* What a checkout promises, seen from the customer's payment and the      *)
(* user's wallet: an order is credited once, and only after its customer   *)
(* paid.  TopUpFlow, with its records, webhooks and redeliveries,          *)
(* implements it.                                                          *)
(***************************************************************************)
EXTENDS Naturals

CONSTANT Orders

VARIABLES
  payment,  \* none, open, failed, paid, or refunded: paid and paid back
  credited  \* how often an order's amount was added to its owner's wallet

vars == <<payment, credited>>

Init == payment = [k \in Orders |-> "none"] /\ credited = [k \in Orders |-> 0]

PaymentMoves(k, from, to) ==
  /\ payment[k] = from /\ payment' = [payment EXCEPT ![k] = to]
  /\ UNCHANGED credited

Open(k) == PaymentMoves(k, "none", "open")

\* A failed payment may succeed later, where the provider lets it.
Pay(k) == PaymentMoves(k, "open", "paid") \/ PaymentMoves(k, "failed", "paid")

Miss(k) == PaymentMoves(k, "open", "failed")

PayBack(k) == PaymentMoves(k, "paid", "refunded")

\* The word that the customer paid may be a while old.
Credit(k) ==
  /\ payment[k] \in {"paid", "refunded"} /\ credited[k] = 0
  /\ credited' = [credited EXCEPT ![k] = 1]
  /\ UNCHANGED payment

Next == \E k \in Orders : Open(k) \/ Pay(k) \/ Miss(k) \/ PayBack(k) \/ Credit(k)

Spec == Init /\ [][Next]_vars

===============================================================================
