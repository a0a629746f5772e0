------------------------------ MODULE MCTopUpFlow -----------------------------
(* Instances of TopUpFlow for TLC. *)
EXTENDS TopUpFlow

CONSTANTS k1, k2, none

Owners == [k \in Keys |-> IF k = k1 THEN 1 ELSE 2]
Sums == [k \in Keys |-> IF k = k1 THEN 2 ELSE 1]

AllEvents == [order : Keys, status : Ends \union {"pending"}]
===============================================================================
