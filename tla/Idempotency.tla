----------------------------- MODULE Idempotency ------------------------------
(***************************************************************************)
(* The table "idempotency_keys" and the service over it.  The service has  *)
(* no state of its own; the actions are the statements it sends, for the   *)
(* use cases to place among their own steps.                               *)
(***************************************************************************)
EXTENDS LedgerRows

VARIABLE idem  \* for each key, its row; NONE is "no such row"

KeyRow == [status : {"NONE", "PROCESSING", "COMPLETED", "FAILED"},
           hash : (Wallets \union {0}) \X Int, resp : Nat]

\* RequestHash covers the payload only: the recipient of a transfer (0 for the
\* payloads without one) and the amount.  The caller and the endpoint are
\* stored with the key but not compared.
Hash(op, to, amount) == IF op = "TRANSFER" THEN <<to, amount>> ELSE <<0, amount>>

NoKeys == [k \in Keys |-> [status |-> "NONE", hash |-> <<0, 0>>, resp |-> 0]]

\* Variant: a failed attempt gives the key up.
UnknownOrFailed(k) == idem[k].status \in {"NONE", "FAILED"}

\* INSERT relies on UNIQUE(idem_key): it succeeds for an unknown key only.
Unknown(k) == idem[k].status = "NONE"

InsertKey(k, hash) ==
  idem' = [idem EXCEPT ![k] = [status |-> "PROCESSING", hash |-> hash, resp |-> 0]]

\* Variant: the hashes are not compared.
ReplayableAnyPayload(k, hash) == idem[k].status = "COMPLETED"

\* A known key is replayed when its call completed with the same payload; it is
\* refused when the payload differs or the status is PROCESSING or FAILED.
Replayable(k, hash) == idem[k].hash = hash /\ idem[k].status = "COMPLETED"

\* UPDATE by key, whatever the status was.
SetKey(k, status, response) ==
  idem' = [idem EXCEPT ![k].status = status, ![k].resp = response]

===============================================================================
