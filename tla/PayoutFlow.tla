------------------------------ MODULE PayoutFlow ------------------------------
(***************************************************************************)
(* Withdrawals: CreateWithdrawal in the API, Xendit, and the worker that   *)
(* handles Xendit's webhooks.  The calls into the wallet domain are atomic *)
(* steps of Ledger, which WalletCore implements; the idempotency key of a  *)
(* withdrawal is claimed, completed and replayed as in WalletCore.         *)
(* The reference of a payout is computed from the id and the creation time *)
(* of a transaction row (and sent to Xendit as its idempotency key), so a  *)
(* row's id stands for the reference.                                      *)
(***************************************************************************)
EXTENDS Idempotency, WebhookQueue

CONSTANTS
  Apis,           \* goroutines of the API
  Requests,       \* the calls clients may make
  Resend,         \* clients may send a key again
  GatewayErrors,  \* why CreatePayout may return an error: Xendit refused, or
                  \* it accepted and the reply was lost
  MaxPayout,      \* largest amount CreatePayout sends, 2^24 in the code
  EarlyWebhooks,  \* a webhook may overtake the call that made the payout
  Ends,           \* how Xendit may end a payout it accepted
  MaxRows,        \* bound: row ids that withdrawals and top-ups may have
  MaxFaults       \* bound: crashes and database errors

Refs == 1 .. MaxRows

ASSUME PayoutAssumption ==
  /\ Requests \subseteq [op : {"TOPUP", "WITHDRAWAL"}, wallet : Wallets,
                         amount : Amounts, key : Keys]
  /\ Resend \in BOOLEAN /\ GatewayErrors \subseteq {"refused", "lost"}
  /\ MaxPayout \in Nat /\ EarlyWebhooks \in BOOLEAN
  /\ Ends \subseteq {"SUCCEEDED", "FAILED", "CANCELLED", "REVERSED", "OTHER"}
  /\ MaxRows \in Nat /\ MaxFaults \in Nat
  /\ Events \subseteq [ref : Refs, status : Ends \union {"REQUESTED", "ACCEPTED"}]

VARIABLES
  wallets, balance, rows,  \* the wallet domain's tables
  records,  \* payment_transactions: status by reference, NONE if absent
  payouts,  \* Xendit: status by reference
  erred,    \* history: references whose CreatePayout was sent and returned an error
  pc, req, row,  \* API goroutines: control, call, transaction of the call
  wpc,      \* the worker's control
  faults

ledger == <<wallets, balance, rows>>
api == <<pc, req, row>>
vars == <<ledger, idem, records, payouts, erred, api, wpc, broker, faults>>

Wallet == INSTANCE Ledger

NoReq == [op |-> "NONE", wallet |-> 0, amount |-> 0, key |-> NoKey]

Init ==
  /\ wallets = Wallets /\ balance = [w \in Wallets |-> 0] /\ rows = <<>>
  /\ idem = NoKeys
  /\ records = [i \in Refs |-> "NONE"] /\ payouts = [i \in Refs |-> "NONE"]
  /\ erred = {}
  /\ pc = [p \in Apis |-> "idle"]
  /\ req = [p \in Apis |-> NoReq] /\ row = [p \in Apis |-> 0]
  /\ wpc = "find" /\ faults = 0
  /\ BrokerInit

-------------------------------------------------------------------------------
\* The API

Goto(p, to) == pc' = [pc EXCEPT ![p] = to] /\ UNCHANGED <<req, row>>

End(p) ==
  /\ pc' = [pc EXCEPT ![p] = "idle"]
  /\ req' = [req EXCEPT ![p] = NoReq]
  /\ row' = [row EXCEPT ![p] = 0]

Room == Len(rows) < MaxRows

\* A direct top-up, whole: claim, credit, complete.  Here it funds wallets.
TopUp(r) ==
  /\ r.op = "TOPUP" /\ Unknown(r.key) /\ Room
  /\ Wallet!Deposit(r.wallet, r.amount, r.key)
  /\ idem' = [idem EXCEPT ![r.key] =
       [status |-> "COMPLETED", hash |-> Hash(r.op, 0, r.amount), resp |-> Len(rows) + 1]]
  /\ UNCHANGED <<records, payouts, erred, api, wpc, broker, faults>>

\* Withdraw claims the key, or goes on to the payout with the replayed row.
\* A refused call changes nothing.
Request(p, r) ==
  /\ pc[p] = "idle" /\ r.op = "WITHDRAWAL"
  /\ req' = [req EXCEPT ![p] = r]
  /\ LET hash == Hash(r.op, 0, r.amount) IN
       \/ /\ Unknown(r.key)
          /\ InsertKey(r.key, hash)
          /\ pc' = [pc EXCEPT ![p] = "debit"]
          /\ UNCHANGED row
       \/ /\ Replayable(r.key, hash)
          /\ Resend
          /\ pc' = [pc EXCEPT ![p] = "payout"]
          /\ row' = [row EXCEPT ![p] = idem[r.key].resp]
          /\ UNCHANGED idem
  /\ UNCHANGED <<ledger, records, payouts, erred, wpc, broker, faults>>

Debit(p) ==
  /\ pc[p] = "debit" /\ Room
  /\ Wallet!Debit(req[p].wallet, req[p].amount, req[p].key)
  /\ pc' = [pc EXCEPT ![p] = "complete"]
  /\ row' = [row EXCEPT ![p] = Len(rows) + 1]
  /\ UNCHANGED <<idem, req, records, payouts, erred, wpc, broker, faults>>

Insufficient(p) ==
  /\ pc[p] = "debit" /\ balance[req[p].wallet] < req[p].amount
  /\ SetKey(req[p].key, "FAILED", 0)
  /\ End(p)
  /\ UNCHANGED <<ledger, records, payouts, erred, wpc, broker, faults>>

\* The transaction fails, or COMMIT's reply is lost: the key is marked FAILED.
DebitError(p) ==
  /\ faults < MaxFaults /\ faults' = faults + 1
  /\ pc[p] = "debit"
  /\ \/ UNCHANGED ledger
     \/ Room /\ Wallet!Debit(req[p].wallet, req[p].amount, req[p].key)
  /\ SetKey(req[p].key, "FAILED", 0)
  /\ End(p)
  /\ UNCHANGED <<records, payouts, erred, wpc, broker>>

Complete(p) ==
  /\ pc[p] = "complete"
  /\ SetKey(req[p].key, "COMPLETED", row[p])
  /\ Goto(p, "payout")
  /\ UNCHANGED <<ledger, records, payouts, erred, wpc, broker, faults>>

\* The update of the key fails: it is only logged.
CompleteError(p) ==
  /\ faults < MaxFaults /\ faults' = faults + 1
  /\ pc[p] = "complete"
  /\ Goto(p, "payout")
  /\ UNCHANGED <<ledger, idem, records, payouts, erred, wpc, broker>>

\* Xendit creates one payout per reference.
Accept(i) == payouts' = [payouts EXCEPT ![i] = IF @ = "NONE" THEN "ACCEPTED" ELSE @]

\* The API of Xendit takes amounts as float32, exact up to MaxPayout.
TooLarge(p) == req[p].amount > MaxPayout

\* Variant: the amount is sent whatever it is.
CreatePayoutAnyAmount(p) ==
  /\ pc[p] = "payout"
  /\ Accept(row[p])
  /\ Goto(p, "record")
  /\ UNCHANGED <<ledger, idem, records, erred, wpc, broker, faults>>

CreatePayout(p) ==
  /\ pc[p] = "payout" /\ ~TooLarge(p)
  /\ Accept(row[p])
  /\ Goto(p, "record")
  /\ UNCHANGED <<ledger, idem, records, erred, wpc, broker, faults>>

\* Any error is taken for a refusal: an amount that is not sent, Xendit's refusal,
\* and the lost reply to a payout that it accepted.
PayoutError(p) ==
  /\ pc[p] = "payout"
  /\ \/ TooLarge(p) /\ UNCHANGED <<payouts, erred>>
     \/ /\ ~TooLarge(p) /\ erred' = erred \union {row[p]}
        /\ \/ "refused" \in GatewayErrors /\ UNCHANGED payouts
           \/ "lost" \in GatewayErrors /\ Accept(row[p])
  /\ Goto(p, "reverse")
  /\ UNCHANGED <<ledger, idem, records, wpc, broker, faults>>

\* ReverseWithdrawal: the row must be a pending withdrawal.
Reversible(i) == Wallet!IsPending(i) /\ rows[i].type = "WITHDRAWAL"

\* The withdrawal is reversed; if it cannot be, that is only logged.
Reverse(p) ==
  /\ pc[p] = "reverse"
  /\ IF Reversible(row[p]) THEN Wallet!ReverseWithdrawal(row[p]) ELSE UNCHANGED ledger
  /\ End(p)
  /\ UNCHANGED <<idem, records, payouts, erred, wpc, broker, faults>>

\* A record that exists already is kept: a replay.
SaveRecord(p) ==
  /\ pc[p] = "record"
  /\ records' = [records EXCEPT ![row[p]] = IF @ = "NONE" THEN "PENDING" ELSE @]
  /\ End(p)
  /\ UNCHANGED <<ledger, idem, payouts, erred, wpc, broker, faults>>

\* The process dies, or the call ends with Reverse's or SaveRecord's error, which
\* is only logged.
ApiFault(p) ==
  /\ faults < MaxFaults /\ faults' = faults + 1
  /\ pc[p] # "idle"
  /\ End(p)
  /\ UNCHANGED <<ledger, idem, records, payouts, erred, wpc, broker>>

-------------------------------------------------------------------------------
\* Xendit

\* A payout ends once, and one that succeeded may still be reversed.
Finish(i) ==
  /\ \E s \in Ends :
       /\ payouts[i] = IF s = "REVERSED" THEN "SUCCEEDED" ELSE "ACCEPTED"
       /\ payouts' = [payouts EXCEPT ![i] = s]
  /\ UNCHANGED <<ledger, idem, records, erred, api, wpc, broker, faults>>

\* The API verifies a webhook and publishes it.  An event tells a status the
\* payout has reached.
ReceivePayoutWebhook(e) ==
  /\ \/ payouts[e.ref] = e.status
     \/ payouts[e.ref] = "ACCEPTED" /\ e.status = "REQUESTED"
  /\ EarlyWebhooks \/ \A p \in Apis : row[p] # e.ref
  /\ Publish(e)
  /\ UNCHANGED <<ledger, idem, records, payouts, erred, api, wpc, faults>>

-------------------------------------------------------------------------------
\* The worker: HandlePayoutWebhook for the message in hand

Take ==
  /\ \E m \in queue : Deliver(m)
  /\ wpc' = "find"
  /\ UNCHANGED <<ledger, idem, records, payouts, erred, api, faults>>

\* Variant: a status the code does not know is taken for a transitional one.
ParseAnything(status) ==
  CASE status = "SUCCEEDED" -> "SUCCEEDED"
    [] status \in {"FAILED", "CANCELLED", "REVERSED"} -> "FAILED"
    [] OTHER -> "PENDING"

\* ParsePayoutWebhook: what a status means to the handler.
Parse(status) ==
  CASE status = "SUCCEEDED" -> "SUCCEEDED"
    [] status \in {"FAILED", "CANCELLED", "REVERSED"} -> "FAILED"
    [] status \in {"ACCEPTED", "REQUESTED"} -> "PENDING"
    [] OTHER -> "ERROR"

\* Variant: the record is updated before the withdrawal is settled.
FindRecordFirst(m) ==
  /\ m \in hand /\ wpc = "find"
  /\ wpc' = IF records[m.event.ref] = "PENDING" THEN "record" ELSE "ack"
  /\ UNCHANGED <<ledger, idem, records, payouts, erred, api, broker, faults>>

Find(m) ==
  /\ m \in hand /\ wpc = "find"
  /\ LET status == Parse(m.event.status)
         record == records[m.event.ref]
         final == status \in {"SUCCEEDED", "FAILED"}
     IN  \/ /\ status = "ERROR" \/ (final /\ record = "NONE")
            /\ Return(m) /\ wpc' = "find"
         \/ /\ status = "PENDING" \/ (final /\ record \in {"SETTLED", "FAILED"})
            /\ wpc' = "ack" /\ UNCHANGED broker
         \/ /\ final /\ record = "PENDING"
            /\ wpc' = "settle" /\ UNCHANGED broker
  /\ UNCHANGED <<ledger, idem, records, payouts, erred, api, faults>>

\* SUCCEEDED: any failure of FinalizeWithdrawal, "already settled" included,
\* sends the message back.
Finalize(m) ==
  /\ m \in hand /\ wpc = "settle" /\ Parse(m.event.status) = "SUCCEEDED"
  /\ IF Wallet!IsPending(m.event.ref)
     THEN /\ Wallet!FinalizeWithdrawal(m.event.ref)
          /\ wpc' = "record" /\ UNCHANGED broker
     ELSE Return(m) /\ wpc' = "find" /\ UNCHANGED ledger
  /\ UNCHANGED <<idem, records, payouts, erred, api, faults>>

\* Variant: every final status refunds.
RefundAnyStatus(m) ==
  /\ m \in hand /\ wpc = "settle" /\ Reversible(m.event.ref)
  /\ Wallet!ReverseWithdrawal(m.event.ref)
  /\ wpc' = "record"
  /\ UNCHANGED <<idem, records, payouts, erred, api, broker, faults>>

\* FAILED: "already settled" is tolerated, as if it meant "already reversed".
Refund(m) ==
  /\ m \in hand /\ wpc = "settle" /\ Parse(m.event.status) = "FAILED"
  /\ LET i == m.event.ref IN
       IF i \in DOMAIN rows /\ rows[i].type = "WITHDRAWAL"
       THEN /\ IF Reversible(i) THEN Wallet!ReverseWithdrawal(i) ELSE UNCHANGED ledger
            /\ wpc' = "record" /\ UNCHANGED broker
       ELSE Return(m) /\ wpc' = "find" /\ UNCHANGED ledger
  /\ UNCHANGED <<idem, records, payouts, erred, api, faults>>

UpdateRecord(m) ==
  /\ m \in hand /\ wpc = "record"
  /\ records' = [records EXCEPT ![m.event.ref] =
       IF Parse(m.event.status) = "SUCCEEDED" THEN "SETTLED" ELSE "FAILED"]
  /\ wpc' = "ack"
  /\ UNCHANGED <<ledger, idem, payouts, erred, api, broker, faults>>

Done(m) ==
  /\ m \in hand /\ wpc = "ack"
  /\ Ack /\ wpc' = "find"
  /\ UNCHANGED <<ledger, idem, records, payouts, erred, api, faults>>

\* A database call fails (the message is nacked), or the worker dies before it
\* could acknowledge the message.
WorkerFault(m) ==
  /\ m \in hand /\ faults < MaxFaults /\ faults' = faults + 1
  /\ Return(m) /\ wpc' = "find"
  /\ UNCHANGED <<ledger, idem, records, payouts, erred, api>>

Handle(m) == Find(m) \/ Finalize(m) \/ Refund(m) \/ UpdateRecord(m) \/ Done(m)

Serve(p) ==
  \/ Debit(p) \/ Insufficient(p) \/ Complete(p) \/ CreatePayout(p) \/ PayoutError(p)
  \/ Reverse(p) \/ SaveRecord(p)

Next ==
  \/ \E r \in Requests : TopUp(r) \/ \E p \in Apis : Request(p, r)
  \/ \E p \in Apis : Serve(p) \/ DebitError(p) \/ CompleteError(p) \/ ApiFault(p)
  \/ \E i \in Refs : Finish(i)
  \/ \E e \in Events : ReceivePayoutWebhook(e)
  \/ Take
  \/ \E m \in hand : Handle(m) \/ WorkerFault(m)

Spec == Init /\ [][Next]_vars

\* Goroutines run on, the broker delivers, the worker handles what it has.
Fairness ==
  /\ \A p \in Apis : WF_vars(Serve(p))
  /\ WF_vars(Take) /\ WF_vars(\E m \in hand : Handle(m))

FairSpec == Spec /\ Fairness

-------------------------------------------------------------------------------

TypeOK ==
  /\ Wallet!TypeOK
  /\ idem \in [Keys -> KeyRow]
  /\ records \in [Refs -> {"NONE", "PENDING", "SETTLED", "FAILED"}]
  /\ payouts \in [Refs -> {"NONE", "ACCEPTED"} \union Ends] /\ erred \subseteq Refs
  /\ pc \in [Apis -> {"idle", "debit", "complete", "payout", "reverse", "record"}]
  /\ req \in [Apis -> Requests \union {NoReq}] /\ row \in [Apis -> 0 .. MaxRows]
  /\ wpc \in {"find", "settle", "record", "ack"} /\ faults \in 0 .. MaxFaults
  /\ BrokerTypeOK

Status(i) == IF i \in DOMAIN rows THEN rows[i].status ELSE "NONE"

\* A user is not both paid and refunded: the withdrawal behind a payout that
\* Xendit accepted or paid out has not been reversed.
PaidIsNotRefunded ==
  \A i \in Refs : payouts[i] \in {"ACCEPTED", "SUCCEEDED"} => Status(i) # "FAILED"

\* A user is both paid and refunded only behind a CreatePayout that was sent and
\* returned an error.  No retry, webhook, redelivery or crash does it by itself,
\* nor does an amount that is not sent.
OnlyErrorsPayTwice ==
  \A i \in Refs :
    payouts[i] \in {"ACCEPTED", "SUCCEEDED"} /\ Status(i) = "FAILED" => i \in erred

\* A payout is made for a withdrawal.
PayoutIsOfWithdrawal ==
  \A i \in Refs : payouts[i] # "NONE" => rows[i].type = "WITHDRAWAL"

\* Withdrawal, as the tables and Xendit show it.
MoneyOf(i) ==
  IF i \notin DOMAIN rows \/ rows[i].type \notin {"TOPUP", "WITHDRAWAL"} THEN "none"
  ELSE IF rows[i].type = "TOPUP" THEN "added"
  ELSE CASE rows[i].status = "PENDING" -> "taken"
         [] rows[i].status = "SUCCESS" -> "paid"
         [] rows[i].status = "FAILED" -> "returned"

BankOf(i) ==
  CASE payouts[i] = "NONE" -> "none"
    [] payouts[i] = "SUCCEEDED" -> "sent"
    [] payouts[i] \in {"FAILED", "CANCELLED"} -> "refused"
    [] payouts[i] = "REVERSED" -> "reversed"
    [] OTHER -> "asked"

Promise ==
  INSTANCE Withdrawal WITH Withdrawals <- Refs,
                           money <- [i \in Refs |-> MoneyOf(i)],
                           bank <- [i \in Refs |-> BankOf(i)]

\* Whatever requests, retries, webhooks, crashes and errors of the gateway do, a
\* withdrawal goes through Withdrawal's life: taken, then asked for, then paid or
\* returned, once; an error of the gateway opens the ways out that it names.
RefinesWithdrawal == Promise!Spec

\* The payment record and the wallet transaction agree on the outcome; only a
\* payout that was paid and reversed leaves FAILED beside SUCCESS.
RecordAgreesWithRow ==
  \A i \in Refs :
    /\ records[i] = "SETTLED" => Status(i) = "SUCCESS"
    /\ records[i] = "FAILED" =>
         Status(i) = "FAILED" \/ (Status(i) = "SUCCESS" /\ payouts[i] = "REVERSED")

\* A webhook that was received, unless its status is a transitional one, settles
\* the withdrawal or ends in the dead-letter queue for an operator to see.
FinalEventSettles ==
  \A e \in Events :
    (sent[e] > 0 /\ e.status \notin {"ACCEPTED", "REQUESTED"}) ~>
      (Status(e.ref) # "PENDING" \/ \E m \in dead : m.event = e)

\* A webhook of success that finds its record settles it, in spite of fewer
\* faults than the queue redelivers.
SuccessIsRecorded ==
  \A e \in Events :
    (sent[e] > 0 /\ e.status = "SUCCEEDED" /\ records[e.ref] = "PENDING") ~>
      records[e.ref] = "SETTLED"

===============================================================================
