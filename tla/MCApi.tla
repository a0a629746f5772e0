--------------------------------- MODULE MCApi --------------------------------
(* Instances of Api for TLC. *)
EXTENDS Api, TLC

CONSTANTS k1, k2, none

Call(route, user, to, amount, key, flaws) ==
  [route |-> route, user |-> user, to |-> to, amount |-> amount, key |-> key,
   id |-> 0, flaws |-> flaws]

\* User 1 tops up, and user 2 with the same key and amount; user 1 transfers, also to
\* itself, withdraws and pays for a checkout, all with one key and the latter two with
\* one amount; both ask for transactions; providers send webhooks; some calls are
\* flawed.
Calls ==
  {Call("TOPUP", 1, 1, 2, k1, {}), Call("TOPUP", 2, 2, 2, k1, {}),
   Call("TRANSFER", 1, 2, 1, k2, {}), Call("TRANSFER", 1, 1, 1, k2, {}),
   Call("WITHDRAWAL", 1, 1, 2, k2, {}), Call("CHECKOUT", 1, 1, 2, k2, {}),
   Call("DETAIL", 1, 1, 0, none, {}), Call("DETAIL", 2, 2, 0, none, {}),
   Call("MIDTRANS", 1, 1, 0, none, {}),
   Call("WITHDRAWAL", 1, 1, -1, k2, {}), Call("CHECKOUT", 1, 1, 1, none, {}),
   Call("TOPUP", 1, 1, 2, k1, {"token", "body"}),
   Call("MIDTRANS", 1, 1, 0, none, {"size"}), Call("XENDIT", 1, 1, 0, none, {"signature"})}

Goroutines == Permutations(Procs)
===============================================================================
