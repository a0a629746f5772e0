------------------------------ MODULE MCHistory -------------------------------
(* Instances of History for TLC. *)
EXTENDS History, TLC
CONSTANTS k1, k2, k3, none
Symmetric == Permutations({k1, k2, k3})

Ask(type, start, end, limit) ==
  [type |-> type, start |-> start, end |-> end, limit |-> limit]

\* All rows one by one, two by two, of one type, of the first day, since then.
AllRequests == {Ask(AnyType, NoDate, NoDate, 1), Ask(AnyType, NoDate, NoDate, 0),
                Ask("TOPUP", NoDate, NoDate, 1), Ask(AnyType, 0, 0, 1),
                Ask(AnyType, 0, NoDate, 0)}
FirstDay == {Ask(AnyType, 0, 0, 0)}
SinceFirstDay == {Ask(AnyType, 0, NoDate, 0)}
===============================================================================
