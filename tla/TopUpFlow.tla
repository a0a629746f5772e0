------------------------------- MODULE TopUpFlow ------------------------------
(***************************************************************************)
(* Top-ups through Midtrans: CreateTopUpCheckout in the API, Midtrans, and *)
(* the worker that handles its webhooks.  A client's checkout key is       *)
(* claimed at most once and its call makes at most one order, so a key     *)
(* also stands for its order; "checkout" is the status of the client's     *)
(* key, "idem" the row of the key "midtrans-topup:<order>" with which the  *)
(* worker calls TopUp.  The credit itself is one step, Ledger's Deposit:   *)
(* nothing but the claim of the key keeps a second one away.               *)
(***************************************************************************)
EXTENDS Idempotency, WebhookQueue, FiniteSets

CONSTANTS
  Apis,           \* goroutines of the API
  OwnerOf,        \* the wallet a checkout key is for
  AmountOf,       \* and the amount
  Ends,           \* what Midtrans may say of an order when it is decided
  PaidLater,      \* an order it reported as failed may be paid after all
  MaxFaults       \* bound: crashes and database errors

ASSUME TopUpAssumption ==
  /\ OwnerOf \in [Keys -> Wallets] /\ AmountOf \in [Keys -> Amounts]
  /\ Ends \subseteq {"capture", "settlement", "challenge", "deny", "cancel",
                    "expire", "refund"}
  /\ PaidLater \in BOOLEAN /\ MaxFaults \in Nat
  /\ Events \subseteq [order : Keys, status : Ends \union {"pending"}]

VARIABLES
  wallets, balance, rows,  \* the wallet domain's tables
  checkout,  \* status of the client's idempotency keys
  records,   \* payment_transactions by order: status and wallet transaction
  charges,   \* Midtrans: status by order
  pc, order, \* API goroutines: control and the key of the call
  wpc, resp, \* the worker: control, row TopUp returned
  faults

ledger == <<wallets, balance, rows>>
api == <<pc, order>>
worker == <<wpc, resp>>
vars == <<ledger, idem, checkout, records, charges, api, worker, broker, faults>>

Wallet == INSTANCE Ledger

Absent == [status |-> "NONE", tx |-> 0]

Init ==
  /\ wallets = Wallets /\ balance = [w \in Wallets |-> 0] /\ rows = <<>>
  /\ idem = NoKeys
  /\ checkout = [k \in Keys |-> "NONE"]
  /\ records = [k \in Keys |-> Absent] /\ charges = [k \in Keys |-> "NONE"]
  /\ pc = [p \in Apis |-> "idle"] /\ order = [p \in Apis |-> NoKey]
  /\ wpc = "find" /\ resp = 0 /\ faults = 0
  /\ BrokerInit

-------------------------------------------------------------------------------
\* The API: CreateTopUpCheckout

Goto(p, to) == pc' = [pc EXCEPT ![p] = to] /\ UNCHANGED order

End(p) == pc' = [pc EXCEPT ![p] = "idle"] /\ order' = [order EXCEPT ![p] = NoKey]

Mark(p, status) == checkout' = [checkout EXCEPT ![order[p]] = status]

\* A key that is known is replayed or refused: either way nothing changes.
Checkout(p, k) ==
  /\ pc[p] = "idle" /\ checkout[k] = "NONE"
  /\ checkout' = [checkout EXCEPT ![k] = "PROCESSING"]
  /\ order' = [order EXCEPT ![p] = k]
  /\ pc' = [pc EXCEPT ![p] = "charge"]
  /\ UNCHANGED <<ledger, idem, records, charges, worker, broker, faults>>

CreateCharge(p) ==
  /\ pc[p] = "charge"
  /\ charges' = [charges EXCEPT ![order[p]] = "OPEN"]
  /\ Goto(p, "save")
  /\ UNCHANGED <<ledger, idem, checkout, records, worker, broker, faults>>

SaveRecord(p) ==
  /\ pc[p] = "save"
  /\ records' = [records EXCEPT ![order[p]] = [status |-> "PENDING", tx |-> 0]]
  /\ Goto(p, "complete")
  /\ UNCHANGED <<ledger, idem, checkout, charges, worker, broker, faults>>

\* The answer: the redirect URL reaches the client, who may pay from now on.
Offer(p) ==
  /\ charges' = [charges EXCEPT ![order[p]] = IF @ = "OPEN" THEN "OFFERED" ELSE @]
  /\ End(p)

Complete(p) ==
  /\ pc[p] = "complete"
  /\ Mark(p, "COMPLETED") /\ Offer(p)
  /\ UNCHANGED <<ledger, idem, records, worker, broker, faults>>

\* The update of the key fails: it is only logged.
CompleteError(p) ==
  /\ faults < MaxFaults /\ faults' = faults + 1
  /\ pc[p] = "complete"
  /\ Offer(p)
  /\ UNCHANGED <<ledger, idem, checkout, records, worker, broker>>

\* CreateCharge or the record's Create fails: the key is marked FAILED.
CheckoutError(p) ==
  /\ faults < MaxFaults /\ faults' = faults + 1
  /\ pc[p] \in {"charge", "save"}
  /\ Mark(p, "FAILED")
  /\ End(p)
  /\ UNCHANGED <<ledger, idem, records, charges, worker, broker>>

\* The process dies.
ApiFault(p) ==
  /\ faults < MaxFaults /\ faults' = faults + 1
  /\ pc[p] # "idle"
  /\ End(p)
  /\ UNCHANGED <<ledger, idem, checkout, records, charges, worker, broker>>

-------------------------------------------------------------------------------
\* Midtrans

\* What may come after a status.  A charge expires by itself; the rest takes a
\* customer who has the URL.  A captured payment is settled later, and a paid
\* one may be refunded.
Later(status) ==
  CASE status = "OPEN" -> {"expire"}
    [] status = "OFFERED" -> Ends \ {"refund"}
    [] status = "capture" -> {"settlement", "refund"}
    [] status = "settlement" -> {"refund"}
    [] status \in {"challenge", "deny"} /\ PaidLater -> {"settlement"}
    [] OTHER -> {}

Pay(k) ==
  /\ \E s \in Later(charges[k]) \intersect Ends : charges' = [charges EXCEPT ![k] = s]
  /\ UNCHANGED <<ledger, idem, checkout, records, api, worker, broker, faults>>

\* The API verifies a webhook and publishes it: "pending" once the customer has
\* begun to pay, each outcome as it comes.  They may be handled in any order.
ReceiveWebhook(e) ==
  /\ charges[e.order] \notin {"NONE", "OPEN"}
  /\ e.status \in {"pending", charges[e.order]}
  /\ Publish(e)
  /\ UNCHANGED <<ledger, idem, checkout, records, charges, api, worker, faults>>

-------------------------------------------------------------------------------
\* The worker: HandleWebhook for the message in hand

Take ==
  /\ \E m \in queue : Deliver(m)
  /\ wpc' = "find" /\ resp' = 0
  /\ UNCHANGED <<ledger, idem, checkout, records, charges, api, faults>>

\* The handler returns an error and the message goes back.
Fail(m) == Return(m) /\ wpc' = "find" /\ resp' = 0

Step(m, from, to) == m \in hand /\ wpc = from /\ wpc' = to

\* ParseWebhookPayload.  "challenge" is a capture whose fraud status is not
\* "accept"; "refund" is one of the statuses the code does not know.
Parse(status) ==
  CASE status \in {"capture", "settlement"} -> "SETTLED"
    [] status = "pending" -> "PENDING"
    [] status \in {"challenge", "deny", "cancel"} -> "FAILED"
    [] status = "expire" -> "EXPIRED"
    [] OTHER -> "ERROR"

\* Variant: the status of the event is not looked at.
FindAnyEvent(m) ==
  /\ m \in hand /\ wpc = "find"
  /\ IF records[m.event.order].status = "PENDING"
     THEN Step(m, "find", "claim") /\ UNCHANGED <<resp, broker>>
     ELSE Fail(m)
  /\ UNCHANGED <<ledger, idem, checkout, records, charges, api, faults>>

Find(m) ==
  /\ m \in hand /\ wpc = "find"
  /\ LET status == records[m.event.order].status IN
       \/ (Parse(m.event.status) = "ERROR" \/ status = "NONE") /\ Fail(m)
       \/ /\ Parse(m.event.status) # "ERROR" /\ status \notin {"NONE", "PENDING"}
          /\ Step(m, "find", "ack") /\ UNCHANGED <<resp, broker>>
       \/ /\ Parse(m.event.status) # "ERROR" /\ status = "PENDING"
          /\ Step(m, "find", IF Parse(m.event.status) = "SETTLED" THEN "claim" ELSE "record")
          /\ UNCHANGED <<resp, broker>>
  /\ UNCHANGED <<ledger, idem, checkout, records, charges, api, faults>>

\* Variant: a call that TopUp refuses is acknowledged.
ClaimOrForget(m) ==
  /\ m \in hand /\ wpc = "claim"
  /\ LET k == m.event.order IN
       IF Unknown(k)
       THEN InsertKey(k, Hash("TOPUP", 0, AmountOf[k])) /\ Step(m, "claim", "credit")
       ELSE Step(m, "claim", "ack") /\ UNCHANGED idem
  /\ UNCHANGED <<ledger, checkout, records, charges, api, resp, broker, faults>>

\* Variant: a key left in PROCESSING is taken up again.
ClaimResumes(m) ==
  /\ m \in hand /\ wpc = "claim"
  /\ LET k == m.event.order
         hash == Hash("TOPUP", 0, AmountOf[k])
     IN  \/ /\ Unknown(k) \/ idem[k].status = "PROCESSING"
            /\ InsertKey(k, hash)
            /\ Step(m, "claim", "credit") /\ UNCHANGED <<resp, broker>>
         \/ /\ Replayable(k, hash) /\ resp' = idem[k].resp
            /\ Step(m, "claim", "record") /\ UNCHANGED <<idem, broker>>
         \/ idem[k].status = "FAILED" /\ Fail(m) /\ UNCHANGED idem
  /\ UNCHANGED <<ledger, checkout, records, charges, api, faults>>

\* TopUp: claim the order's key, or replay the credit it stands for; a key in
\* PROCESSING or FAILED is an error.
Claim(m) ==
  /\ m \in hand /\ wpc = "claim"
  /\ LET k == m.event.order
         hash == Hash("TOPUP", 0, AmountOf[k])
     IN  \/ /\ Unknown(k) /\ InsertKey(k, hash)
            /\ Step(m, "claim", "credit") /\ UNCHANGED <<resp, broker>>
         \/ /\ Replayable(k, hash) /\ resp' = idem[k].resp
            /\ Step(m, "claim", "record") /\ UNCHANGED <<idem, broker>>
         \/ ~Unknown(k) /\ ~Replayable(k, hash) /\ Fail(m) /\ UNCHANGED idem
  /\ UNCHANGED <<ledger, checkout, records, charges, api, faults>>

Credit(m) ==
  /\ Step(m, "credit", "complete")
  /\ LET k == m.event.order IN Wallet!Deposit(OwnerOf[k], AmountOf[k], k)
  /\ resp' = Len(rows) + 1
  /\ UNCHANGED <<idem, checkout, records, charges, api, broker, faults>>

\* The transaction of TopUp fails, or COMMIT's reply is lost: the key is marked
\* FAILED.
CreditError(m) ==
  /\ faults < MaxFaults /\ faults' = faults + 1
  /\ m \in hand /\ wpc = "credit"
  /\ LET k == m.event.order IN
       /\ UNCHANGED ledger \/ Wallet!Deposit(OwnerOf[k], AmountOf[k], k)
       /\ SetKey(k, "FAILED", 0)
  /\ Fail(m)
  /\ UNCHANGED <<checkout, records, charges, api>>

CompleteTopUp(m) ==
  /\ Step(m, "complete", "record")
  /\ SetKey(m.event.order, "COMPLETED", resp)
  /\ UNCHANGED <<ledger, checkout, records, charges, api, resp, broker, faults>>

\* The update of the key fails: it is only logged.
CompleteTopUpError(m) ==
  /\ faults < MaxFaults /\ faults' = faults + 1
  /\ Step(m, "complete", "record")
  /\ UNCHANGED <<ledger, idem, checkout, records, charges, api, resp, broker>>

\* Variant: the record is not linked to the transaction.
UpdateRecordUnlinked(m) ==
  /\ Step(m, "record", "ack")
  /\ records' = [records EXCEPT ![m.event.order] = [status |-> Parse(m.event.status), tx |-> 0]]
  /\ UNCHANGED <<ledger, idem, checkout, charges, api, resp, broker, faults>>

\* UpdateStatus writes whatever the event says, without looking at the status.
UpdateRecord(m) ==
  /\ Step(m, "record", "ack")
  /\ records' = [records EXCEPT ![m.event.order] = [status |-> Parse(m.event.status), tx |-> resp]]
  /\ UNCHANGED <<ledger, idem, checkout, charges, api, resp, broker, faults>>

Done(m) ==
  /\ Step(m, "ack", "find") /\ Ack /\ resp' = 0
  /\ UNCHANGED <<ledger, idem, checkout, records, charges, api, faults>>

\* Another database call fails (the message is nacked), or the worker dies
\* before it could acknowledge the message.
WorkerFault(m) ==
  /\ m \in hand /\ faults < MaxFaults /\ faults' = faults + 1
  /\ Fail(m)
  /\ UNCHANGED <<ledger, idem, checkout, records, charges, api>>

Handle(m) ==
  \/ Find(m) \/ Claim(m) \/ Credit(m) \/ CompleteTopUp(m) \/ UpdateRecord(m) \/ Done(m)

Serve(p) == CreateCharge(p) \/ SaveRecord(p) \/ Complete(p)

Next ==
  \/ \E p \in Apis :
       (\E k \in Keys : Checkout(p, k)) \/ Serve(p)
       \/ CheckoutError(p) \/ CompleteError(p) \/ ApiFault(p)
  \/ \E k \in Keys : Pay(k)
  \/ \E e \in Events : ReceiveWebhook(e)
  \/ Take
  \/ \E m \in hand : Handle(m) \/ CreditError(m) \/ CompleteTopUpError(m) \/ WorkerFault(m)

Spec == Init /\ [][Next]_vars

Fairness ==
  /\ \A p \in Apis : WF_vars(Serve(p))
  /\ WF_vars(Take) /\ WF_vars(\E m \in hand : Handle(m))

FairSpec == Spec /\ Fairness

-------------------------------------------------------------------------------

KeyStatus == {"NONE", "PROCESSING", "COMPLETED", "FAILED"}

TypeOK ==
  /\ Wallet!TypeOK
  /\ idem \in [Keys -> KeyRow] /\ checkout \in [Keys -> KeyStatus]
  /\ records \in [Keys -> [status : {"NONE", "PENDING", "SETTLED", "FAILED", "EXPIRED"},
                          tx : Nat]]
  /\ charges \in [Keys -> {"NONE", "OPEN", "OFFERED"} \union Ends]
  /\ pc \in [Apis -> {"idle", "charge", "save", "complete"}]
  /\ order \in [Apis -> Keys \union {NoKey}]
  /\ wpc \in {"find", "claim", "credit", "complete", "record", "ack"}
  /\ resp \in Nat /\ faults \in 0 .. MaxFaults
  /\ BrokerTypeOK

Credits(k) == {i \in DOMAIN rows : rows[i].key = k}

Credited(k) == Credits(k) # {}

\* Money is credited only for an order Midtrans captured or settled, refunded or
\* not later, to the wallet and in the amount of its checkout.
CreditedOnlyIfPaid ==
  \A i \in DOMAIN rows :
    LET k == rows[i].key IN
      /\ charges[k] \in {"capture", "settlement", "refund"}
      /\ rows[i].wallet = OwnerOf[k] /\ rows[i].amount = AmountOf[k]

\* A record is SETTLED only with the transaction that credited its order.
SettledIsCredited ==
  \A k \in Keys :
    records[k].status = "SETTLED" =>
      records[k].tx \in DOMAIN rows /\ rows[records[k].tx].key = k

PaymentOf(k) ==
  CASE charges[k] = "NONE" -> "none"
    [] charges[k] \in {"OPEN", "OFFERED"} -> "open"
    [] charges[k] \in {"capture", "settlement"} -> "paid"
    [] charges[k] = "refund" -> "refunded"
    [] OTHER -> "failed"

Promise ==
  INSTANCE Order WITH Orders <- Keys,
                      payment <- [k \in Keys |-> PaymentOf(k)],
                      credited <- [k \in Keys |-> Cardinality(Credits(k))]

\* However webhooks are repeated, reordered and redelivered, and wherever the
\* worker dies, an order is credited at most once, after its customer paid (Order).
RefinesOrder == Promise!Spec

\* A webhook of settlement that was received credits the wallet, or ends in
\* the dead-letter queue for an operator to see.
PaidIsCreditedOrDead ==
  \A e \in Events :
    (sent[e] > 0 /\ Parse(e.status) = "SETTLED") ~>
      (Credited(e.order) \/ \E m \in dead : m.event = e)

\* A webhook of settlement that was received credits the wallet, in spite of
\* fewer faults than the queue redelivers.
PaidIsCredited ==
  \A e \in Events : (sent[e] > 0 /\ Parse(e.status) = "SETTLED") ~> Credited(e.order)

===============================================================================
