--------------------------- MODULE TopUpFlow_proofs ---------------------------
(***************************************************************************)
(* For every set of checkouts, webhooks, API goroutines and limits, an     *)
(* order is credited once and only after its customer paid, wherever the   *)
(* worker dies: Deposit itself would credit it again.                      *)
(***************************************************************************)
EXTENDS TopUpFlow, LedgerRows_proofs, FiniteSetTheorems

Paid == {"capture", "settlement", "refund"}

Messages == queue \union hand \union dead

\* Row i of the table credited order k.
Names(rs, i, k) == i \in DOMAIN rs /\ rs[i].key = k

\* A key has one call at most, and no charge or record before that call made it.
ApiInv ==
  /\ \A p \in Apis : pc[p] # "idle" => order[p] \in Keys /\ checkout[order[p]] # "NONE"
  /\ \A p, q \in Apis :
       pc[p] # "idle" /\ pc[q] # "idle" /\ order[p] = order[q] => p = q
  /\ \A k \in Keys :
       checkout[k] = "NONE" => charges[k] = "NONE" /\ records[k].status = "NONE"
  /\ \A p \in Apis : pc[p] = "charge" => charges[order[p]] = "NONE"
  /\ \A p \in Apis : pc[p] \in {"charge", "save"} => records[order[p]].status = "NONE"

\* A webhook of a payment tells the truth, for good.
TrueEvent(e, ch) == e.status \in {"capture", "settlement"} => ch[e.order] \in Paid

EventInv ==
  /\ \A m, n \in hand : m = n
  /\ \A m \in Messages : TrueEvent(m.event, charges)

\* What the worker has found out about the message in its hand.
WorkerTrue(e, control, res, recs, rs) ==
  /\ control \in {"claim", "credit", "complete"} => Parse(e.status) = "SETTLED"
  /\ control # "find" => Parse(e.status) # "ERROR" /\ recs[e.order].status # "NONE"
  /\ control = "complete" => Names(rs, res, e.order)
  /\ control = "record" /\ Parse(e.status) = "SETTLED" => Names(rs, res, e.order)

\* No key is credited before it is claimed, nor again by the worker that claimed it.
ClaimInv ==
  /\ \A k \in Keys : Unknown(k) => ~Credited(k)
  /\ \A m \in hand : wpc = "credit" => ~Unknown(m.event.order) /\ ~Credited(m.event.order)

MoneyInv ==
  /\ \A m \in hand : WorkerTrue(m.event, wpc, resp, records, rows)
  /\ \A k \in Keys : idem[k].status = "COMPLETED" => Names(rows, idem[k].resp, k)
  /\ \A i \in DOMAIN rows : rows[i].key \in Keys
  /\ CreditedOnlyIfPaid
  /\ SettledIsCredited

FlowInv == TypeOK /\ ApiInv /\ EventInv /\ MoneyInv /\ ClaimInv

-------------------------------------------------------------------------------
\* What the broker does with the messages it has, and the worker with it.
BrokerStep ==
  \/ UNCHANGED broker \/ Ack
  \/ \E m \in queue : Deliver(m)
  \/ \E m \in hand : Return(m)

\* No step of the broker invents an event or hands over two messages.
LEMMA BrokerKeeps ==
  ASSUME BrokerTypeOK, EventInv, BrokerStep
  PROVE  /\ BrokerTypeOK'
         /\ \A m, n \in hand' : m = n
         /\ \A m \in Messages' : \E n \in Messages : n.event = m.event
<1>1. CASE UNCHANGED broker
  BY <1>1 DEF broker, BrokerTypeOK, EventInv, Messages
<1>2. CASE Ack
  BY <1>2 DEF Ack, BrokerTypeOK, Messages
<1>3. ASSUME NEW m \in queue, Deliver(m)
      PROVE  /\ BrokerTypeOK'
             /\ \A n, o \in hand' : n = o
             /\ \A n \in Messages' : \E o \in Messages : o.event = n.event
  BY <1>3 DEF Deliver, BrokerTypeOK, Messages
<1>4. ASSUME NEW m \in hand, Return(m)
      PROVE  /\ BrokerTypeOK'
             /\ \A n, o \in hand' : n = o
             /\ \A n \in Messages' : \E o \in Messages : o.event = n.event
  <2> DEFINE more == [m EXCEPT !.returns = m.returns + 1]
  <2>1. m \in Message
    BY DEF BrokerTypeOK
  <2>2. more.event = m.event
    BY <2>1 DEF Message
  <2>3. m.returns # DeliveryLimit => more \in Message
    BY <2>1, LimitsAssumption DEF Message
  <2>4. /\ hand' = {} /\ sent' = sent
        /\ \/ dead' = dead \union {m} /\ queue' = queue
           \/ m.returns # DeliveryLimit /\ queue' = queue \union {more} /\ dead' = dead
    BY <1>4 DEF Return
  <2> HIDE DEF more
  <2> QED BY <2>1, <2>2, <2>3, <2>4 DEF BrokerTypeOK, Messages
<1> QED BY <1>1, <1>2, <1>3, <1>4 DEF BrokerStep

\* The API's publishing adds one message.
LEMMA PublishKeeps ==
  ASSUME BrokerTypeOK, EventInv, NEW e \in Events, Publish(e)
  PROVE  /\ BrokerTypeOK'
         /\ hand' = hand
         /\ \A m \in Messages' : m \in Messages \/ m.event = e
<1> DEFINE m == [event |-> e, copy |-> sent[e] + 1, returns |-> 0]
<1>1. sent[e] \in 0 .. MaxSends /\ sent[e] < MaxSends /\ MaxSends \in Nat
  BY LimitsAssumption DEF BrokerTypeOK, Publish
<1>2. sent[e] + 1 \in 1 .. MaxSends /\ 0 \in 0 .. DeliveryLimit
  BY <1>1, LimitsAssumption
<1>3. m \in Message /\ m.event = e
  BY <1>2 DEF Message
<1>4. sent' = [sent EXCEPT ![e] = sent[e] + 1] /\ queue' = queue \union {m}
      /\ hand' = hand /\ dead' = dead
  BY DEF Publish
<1> HIDE DEF m
<1>5. sent' \in [Events -> 0 .. MaxSends]
  BY <1>2, <1>4 DEF BrokerTypeOK
<1> QED BY <1>3, <1>4, <1>5 DEF BrokerTypeOK, Messages

-------------------------------------------------------------------------------
\* Ledger computes rows and balances as LedgerRows does here.
LEMMA SameRows ==
  /\ Wallet!TypeOK <=> /\ wallets \subseteq Wallets
                       /\ balance \in [Wallets -> Balances]
                       /\ rows \in Seq(Row)
  /\ Wallet!TypeOK' <=> /\ wallets' \subseteq Wallets
                        /\ balance' \in [Wallets -> Balances]
                        /\ rows' \in Seq(Row)
  /\ \A x : Wallet!Wrap(x) = Wrap(x)
  /\ \A type, w, a, b, k, o : Wallet!Entry(type, w, a, b, k, o) = Entry(type, w, a, b, k, o)
<1>1. \A x : Wallet!Wrap(x) = Wrap(x)
  BY DEF Wallet!Wrap, Wrap
<1>2. \A type, b, a : Wallet!After(type, b, a) = After(type, b, a)
  BY <1>1 DEF Wallet!After, After, Wallet!CreditTypes, CreditTypes
<1>3. \A type, w, a, b, k, o : Wallet!Entry(type, w, a, b, k, o) = Entry(type, w, a, b, k, o)
  BY <1>2 DEF Wallet!Entry, Entry
<1>4. Wallet!Balances = Balances /\ Wallet!Amounts = Amounts /\ Wallet!Statuses = Statuses
      /\ Wallet!CreditTypes = CreditTypes /\ Wallet!DebitTypes = DebitTypes
  BY DEF Wallet!Balances, Balances, Wallet!Amounts, Amounts, Wallet!Statuses, Statuses,
         Wallet!CreditTypes, CreditTypes, Wallet!DebitTypes, DebitTypes
<1>5. Wallet!Row = Row
  BY <1>4 DEF Wallet!Row, Row
<1> QED BY <1>1, <1>3, <1>4, <1>5 DEF Wallet!TypeOK

\* A credit adds one row, for its order.
LEMMA CreditProps ==
  ASSUME TypeOK, NEW k \in Keys, Wallet!Deposit(OwnerOf[k], AmountOf[k], k)
  PROVE  /\ Wallet!TypeOK'
         /\ DOMAIN rows' = DOMAIN rows \union {Len(rows) + 1}
         /\ Len(rows) \in Nat /\ Len(rows) + 1 \notin DOMAIN rows
         /\ \A i \in DOMAIN rows : rows'[i] = rows[i]
         /\ rows'[Len(rows) + 1].key = k
         /\ rows'[Len(rows) + 1].wallet = OwnerOf[k]
         /\ rows'[Len(rows) + 1].amount = AmountOf[k]
<1> DEFINE w == OwnerOf[k]
           a == AmountOf[k]
           e == Entry("TOPUP", w, a, balance[w], k, 0)
<1>1. w \in Wallets /\ a \in Amounts
  BY TopUpAssumption
<1>2. wallets \subseteq Wallets /\ balance \in [Wallets -> Balances] /\ rows \in Seq(Row)
  BY SameRows DEF TypeOK
<1>3. e \in Row /\ Wrap(balance[w] + a) \in Balances
  BY <1>1, <1>2, EntryType, WrapType DEF CreditTypes, DebitTypes
<1>4. e.key = k /\ e.wallet = w /\ e.amount = a
  BY DEF Entry
<1>5. /\ rows' = Append(rows, e) /\ wallets' = wallets
      /\ balance' = [balance EXCEPT ![w] = Wrap(balance[w] + a)]
  BY SameRows DEF Wallet!Deposit
<1> HIDE DEF e, w, a
<1>6. /\ rows' \in Seq(Row) /\ Len(rows) \in Nat
      /\ DOMAIN rows' = DOMAIN rows \union {Len(rows) + 1} /\ DOMAIN rows = 1 .. Len(rows)
      /\ \A i \in DOMAIN rows : rows'[i] = rows[i]
      /\ rows'[Len(rows) + 1] = e
  BY <1>2, <1>3, <1>5, AppendProps
<1>7. Wallet!TypeOK'
  BY <1>1, <1>2, <1>3, <1>5, <1>6, SameRows
<1> QED BY <1>4, <1>5, <1>6, <1>7 DEF w, a

-------------------------------------------------------------------------------
\* What a status of a key and the events may be.
LEMMA Data ==
  /\ \A e \in Events : e.order \in Keys /\ Parse(e.status) \in
                         {"SETTLED", "PENDING", "FAILED", "EXPIRED", "ERROR"}
  /\ \A e \in Events : Parse(e.status) = "SETTLED" => e.status \in {"capture", "settlement"}
  /\ \A k \in Keys, status \in {"NONE", "PROCESSING", "COMPLETED", "FAILED"}, i \in Nat :
       [status |-> status, hash |-> Hash("TOPUP", 0, AmountOf[k]), resp |-> i] \in KeyRow
<1>1. \A e \in Events : e.order \in Keys
  BY TopUpAssumption
<1>2. \A s : Parse(s) \in {"SETTLED", "PENDING", "FAILED", "EXPIRED", "ERROR"}
             /\ (Parse(s) = "SETTLED" => s \in {"capture", "settlement"})
  BY DEF Parse
<1>3. \A k \in Keys : Hash("TOPUP", 0, AmountOf[k]) \in (Wallets \union {0}) \X Int
  BY TopUpAssumption, MaxIntAssumption DEF Hash, Amounts
<1> QED BY <1>1, <1>2, <1>3 DEF KeyRow

-------------------------------------------------------------------------------
\* Every step keeps the types.
LEMMA TypeStep == FlowInv /\ [Next]_vars => TypeOK'
<1> SUFFICES ASSUME FlowInv, [Next]_vars PROVE TypeOK'
  OBVIOUS
<1> USE DEF TypeOK
<1>0. TypeOK /\ EventInv
  BY DEF FlowInv
<1>a. ASSUME UNCHANGED ledger PROVE Wallet!TypeOK'
  BY <1>0, <1>a, SameRows DEF ledger
<1>b. ASSUME UNCHANGED broker PROVE BrokerTypeOK'
  BY <1>0, <1>b DEF broker, BrokerTypeOK
<1>c. \A m \in hand : m.event \in Events /\ m.event.order \in Keys
  BY <1>0, Data DEF BrokerTypeOK, Message
<1>1. ASSUME NEW p \in Apis, NEW k \in Keys, Checkout(p, k) PROVE TypeOK'
  BY <1>0, <1>1, <1>a, <1>b DEF Checkout, KeyStatus, worker
<1>2. ASSUME NEW p \in Apis, Serve(p) PROVE TypeOK'
  <2>1. CASE CreateCharge(p)
    BY <1>0, <2>1, <1>a, <1>b DEF CreateCharge, Goto, worker
  <2>2. CASE SaveRecord(p)
    BY <1>0, <2>2, <1>a, <1>b DEF SaveRecord, Goto, worker
  <2>3. CASE Complete(p)
    BY <1>0, <2>3, <1>a, <1>b DEF Complete, Offer, End, Mark, KeyStatus, worker
  <2> QED BY <1>2, <2>1, <2>2, <2>3 DEF Serve
<1>3. ASSUME NEW p \in Apis, CheckoutError(p) \/ CompleteError(p) \/ ApiFault(p) PROVE TypeOK'
  BY <1>0, <1>3, <1>a, <1>b, TopUpAssumption
     DEF CheckoutError, CompleteError, ApiFault, Offer, End, Mark, KeyStatus, worker
<1>4. ASSUME NEW k \in Keys, Pay(k) PROVE TypeOK'
  BY <1>0, <1>4, <1>a, <1>b DEF Pay, worker, api
<1>5. ASSUME NEW e \in Events, ReceiveWebhook(e) PROVE TypeOK'
  BY <1>0, <1>5, <1>a, PublishKeeps DEF ReceiveWebhook, worker, api
<1>6. CASE Take
  <2>1. BrokerTypeOK'
    BY <1>0, <1>6, BrokerKeeps DEF Take, BrokerStep
  <2> QED BY <1>0, <1>6, <1>a, <2>1 DEF Take, api
<1>7. ASSUME NEW m \in hand, Fail(m) PROVE BrokerTypeOK' /\ wpc' = "find" /\ resp' = 0
  BY <1>0, <1>7, BrokerKeeps DEF Fail, BrokerStep
<1>8. ASSUME NEW m \in hand, Find(m) PROVE TypeOK'
  BY <1>0, <1>7, <1>8, <1>a, <1>b DEF Find, Step, api
<1>9. ASSUME NEW m \in hand, Claim(m) PROVE TypeOK'
  <2> DEFINE k == m.event.order
             hash == Hash("TOPUP", 0, AmountOf[k])
  <2>0. k \in Keys /\ [status |-> "PROCESSING", hash |-> hash, resp |-> 0] \in KeyRow
    BY <1>c, Data
  <2>1. /\ idem' = idem \/ InsertKey(k, hash)
        /\ resp' = 0 \/ resp' = resp \/ resp' = idem[k].resp
    BY <1>7, <1>9 DEF Claim, Step
  <2>2. idem[k].resp \in Nat
    BY <1>0, <2>0 DEF KeyRow
  <2> HIDE DEF hash, k
  <2>3. idem' \in [Keys -> KeyRow] /\ resp' \in Nat
    BY <1>0, <2>0, <2>1, <2>2 DEF InsertKey
  <2> QED BY <1>0, <1>7, <1>9, <1>a, <1>b, <2>3 DEF Claim, Step, api
<1>10. ASSUME NEW m \in hand, Credit(m) PROVE TypeOK'
  BY <1>0, <1>10, <1>b, <1>c, CreditProps DEF Credit, Step, api
<1>11. ASSUME NEW m \in hand, CreditError(m) PROVE TypeOK'
  <2>1. Wallet!TypeOK'
    BY <1>0, <1>11, <1>a, <1>c, CreditProps DEF CreditError
  <2>2. idem' \in [Keys -> KeyRow]
    BY <1>0, <1>11, <1>c DEF CreditError, SetKey, KeyRow
  <2> QED BY <1>0, <1>7, <1>11, <2>1, <2>2, TopUpAssumption DEF CreditError, api
<1>12. ASSUME NEW m \in hand, CompleteTopUp(m) PROVE TypeOK'
  <2>1. idem' \in [Keys -> KeyRow]
    BY <1>0, <1>12, <1>c DEF CompleteTopUp, SetKey, KeyRow
  <2> QED BY <1>0, <1>12, <1>a, <1>b, <2>1 DEF CompleteTopUp, Step, api
<1>13. ASSUME NEW m \in hand, CompleteTopUpError(m) PROVE TypeOK'
  BY <1>0, <1>13, <1>a, <1>b, TopUpAssumption DEF CompleteTopUpError, Step, api
<1>14. ASSUME NEW m \in hand, UpdateRecord(m) PROVE TypeOK'
  <2>1. Parse(m.event.status) \in {"SETTLED", "PENDING", "FAILED", "EXPIRED"}
    BY <1>14, <1>c, Data DEF UpdateRecord, Step, FlowInv, MoneyInv, WorkerTrue
  <2> QED BY <1>0, <1>14, <1>a, <1>b, <2>1 DEF UpdateRecord, Step, api
<1>15. ASSUME NEW m \in hand, Done(m) PROVE TypeOK'
  <2>1. BrokerTypeOK'
    BY <1>0, <1>15, BrokerKeeps DEF Done, BrokerStep
  <2> QED BY <1>0, <1>15, <1>a, <2>1 DEF Done, Step, api
<1>16. ASSUME NEW m \in hand, WorkerFault(m) PROVE TypeOK'
  BY <1>0, <1>7, <1>16, <1>a, TopUpAssumption DEF WorkerFault, api
<1>17. CASE UNCHANGED vars
  BY <1>0, <1>17, <1>a, <1>b DEF vars, api, worker
<1> QED BY <1>1, <1>2, <1>3, <1>4, <1>5, <1>6, <1>8, <1>9, <1>10, <1>11, <1>12, <1>13,
           <1>14, <1>15, <1>16, <1>17 DEF Next, Handle

-------------------------------------------------------------------------------
\* What the worker's steps leave alone.
LEMMA WorkerAlone ==
  ASSUME FlowInv, NEW m \in hand,
         Handle(m) \/ CreditError(m) \/ CompleteTopUpError(m) \/ WorkerFault(m)
  PROVE  /\ UNCHANGED <<pc, order, checkout, charges>>
         /\ \A k \in Keys : records[k].status = "NONE" => records'[k] = records[k]
<1>1. /\ records \in [Keys -> [status : {"NONE", "PENDING", "SETTLED", "FAILED", "EXPIRED"},
                              tx : Nat]]
      /\ m.event.order \in Keys
  BY Data DEF FlowInv, TypeOK, BrokerTypeOK, Message
<1>2. wpc = "record" => records[m.event.order].status # "NONE"
  BY DEF FlowInv, MoneyInv, WorkerTrue
<1>3. UNCHANGED <<pc, order, checkout, charges>>
  BY DEF Handle, Find, Claim, Credit, CompleteTopUp, UpdateRecord, Done, CreditError,
         CompleteTopUpError, WorkerFault, api
<1>4. UNCHANGED records \/ UpdateRecord(m)
  BY DEF Handle, Find, Claim, Credit, CompleteTopUp, Done, CreditError,
         CompleteTopUpError, WorkerFault
<1> QED BY <1>1, <1>2, <1>3, <1>4 DEF UpdateRecord, Step

\* Every step keeps the facts about the API's calls.
LEMMA ApiStep == FlowInv /\ [Next]_vars => ApiInv'
<1> SUFFICES ASSUME FlowInv, [Next]_vars PROVE ApiInv'
  OBVIOUS
<1>0. /\ ApiInv
      /\ checkout \in [Keys -> KeyStatus] /\ pc \in [Apis -> {"idle", "charge", "save", "complete"}]
      /\ order \in [Apis -> Keys \union {NoKey}]
      /\ records \in [Keys -> [status : {"NONE", "PENDING", "SETTLED", "FAILED", "EXPIRED"},
                              tx : Nat]]
      /\ charges \in [Keys -> {"NONE", "OPEN", "OFFERED"} \union Ends]
  BY DEF FlowInv, TypeOK
<1>k. KeyStatus = {"NONE", "PROCESSING", "COMPLETED", "FAILED"}
  BY DEF KeyStatus
<1> USE DEF ApiInv
<1>1. ASSUME NEW p \in Apis, NEW k \in Keys, Checkout(p, k) PROVE ApiInv'
  BY <1>0, <1>1 DEF Checkout
<1>2. ASSUME NEW p \in Apis, CreateCharge(p) PROVE ApiInv'
  BY <1>0, <1>2 DEF CreateCharge, Goto
<1>3. ASSUME NEW p \in Apis, SaveRecord(p) PROVE ApiInv'
  BY <1>0, <1>3 DEF SaveRecord, Goto
<1>4. ASSUME NEW p \in Apis, Complete(p) \/ CompleteError(p) PROVE ApiInv'
  <2>1. /\ pc[p] = "complete" /\ order[p] \in Keys /\ checkout[order[p]] # "NONE"
        /\ pc' = [pc EXCEPT ![p] = "idle"] /\ order' = [order EXCEPT ![p] = NoKey]
        /\ records' = records
        /\ charges' = [charges EXCEPT ![order[p]] =
                        IF charges[order[p]] = "OPEN" THEN "OFFERED" ELSE charges[order[p]]]
    BY <1>0, <1>4 DEF Complete, CompleteError, Offer, End
  <2>2. checkout' = checkout \/ checkout' = [checkout EXCEPT ![order[p]] = "COMPLETED"]
    BY <1>4 DEF Complete, CompleteError, Mark
  <2>3. \A k \in Keys : checkout'[k] = "NONE" => checkout[k] = "NONE" /\ k # order[p]
    BY <1>0, <2>1, <2>2
  <2>4. \A k \in Keys : checkout[k] # "NONE" => checkout'[k] # "NONE"
    BY <1>0, <2>1, <2>2
  <2>5. \A k \in Keys : charges[k] = "NONE" => charges'[k] = "NONE"
    BY <1>0, <2>1
  <2> QED BY <1>0, <2>1, <2>3, <2>4, <2>5
<1>5. ASSUME NEW p \in Apis, CheckoutError(p) \/ ApiFault(p) PROVE ApiInv'
  <2>1. /\ pc[p] # "idle" /\ order[p] \in Keys /\ checkout[order[p]] # "NONE"
        /\ pc' = [pc EXCEPT ![p] = "idle"] /\ order' = [order EXCEPT ![p] = NoKey]
        /\ records' = records /\ charges' = charges
    BY <1>0, <1>5 DEF CheckoutError, ApiFault, End
  <2>2. checkout' = checkout \/ checkout' = [checkout EXCEPT ![order[p]] = "FAILED"]
    BY <1>5 DEF CheckoutError, ApiFault, Mark
  <2>3. \A k \in Keys : checkout'[k] = "NONE" <=> checkout[k] = "NONE"
    BY <1>0, <2>1, <2>2
  <2> QED BY <1>0, <2>1, <2>3
<1>6. ASSUME NEW k \in Keys, Pay(k) PROVE ApiInv'
  <2>1. charges[k] # "NONE"
    BY <1>6 DEF Pay, Later
  <2> QED BY <1>0, <1>6, <2>1 DEF Pay, api
<1>7. ASSUME NEW e \in Events, ReceiveWebhook(e) PROVE ApiInv'
  BY <1>0, <1>7 DEF ReceiveWebhook, api
<1>8. CASE Take
  BY <1>0, <1>8 DEF Take, api
<1>9. ASSUME NEW m \in hand,
             Handle(m) \/ CreditError(m) \/ CompleteTopUpError(m) \/ WorkerFault(m)
      PROVE  ApiInv'
  BY <1>0, <1>9, WorkerAlone
<1>10. CASE UNCHANGED vars
  BY <1>0, <1>10 DEF vars, api
<1> QED BY <1>1, <1>2, <1>3, <1>4, <1>5, <1>6, <1>7, <1>8, <1>9, <1>10 DEF Next, Serve

-------------------------------------------------------------------------------
\* A payment stays a payment, and an order's charge is made once.
LEMMA ChargesMove ==
  ASSUME FlowInv, [Next]_vars
  PROVE  /\ \A k \in Keys : charges[k] \in Paid => charges'[k] \in Paid
         /\ \/ UNCHANGED charges
            \/ UNCHANGED <<wpc, resp, rows, broker>>
<1>0. charges \in [Keys -> {"NONE", "OPEN", "OFFERED"} \union Ends] /\ ApiInv
  BY DEF FlowInv, TypeOK
<1>1. ASSUME NEW p \in Apis, CreateCharge(p)
      PROVE  /\ \A k \in Keys : charges[k] \in Paid => charges'[k] \in Paid
             /\ UNCHANGED <<wpc, resp, rows, broker>>
  BY <1>0, <1>1 DEF CreateCharge, ApiInv, Paid, worker, ledger
<1>2. ASSUME NEW p \in Apis, Complete(p) \/ CompleteError(p)
      PROVE  /\ \A k \in Keys : charges[k] \in Paid => charges'[k] \in Paid
             /\ UNCHANGED <<wpc, resp, rows, broker>>
  BY <1>0, <1>2 DEF Complete, CompleteError, Offer, Paid, worker, ledger
<1>3. ASSUME NEW k \in Keys, Pay(k)
      PROVE  /\ \A j \in Keys : charges[j] \in Paid => charges'[j] \in Paid
             /\ UNCHANGED <<wpc, resp, rows, broker>>
  <2>1. charges[k] \in Paid => Later(charges[k]) \subseteq Paid
    BY DEF Later, Paid
  <2> QED BY <1>0, <1>3, <2>1 DEF Pay, worker, ledger
<1>4. CASE \/ \E p \in Apis : (\E k \in Keys : Checkout(p, k)) \/ SaveRecord(p)
                              \/ CheckoutError(p) \/ ApiFault(p)
           \/ \E e \in Events : ReceiveWebhook(e)
           \/ Take \/ UNCHANGED vars
  BY <1>4 DEF Checkout, SaveRecord, CheckoutError, ApiFault, ReceiveWebhook, Take, vars
<1>5. ASSUME NEW m \in hand,
             Handle(m) \/ CreditError(m) \/ CompleteTopUpError(m) \/ WorkerFault(m)
      PROVE  UNCHANGED charges
  BY <1>5, WorkerAlone
<1> QED BY <1>1, <1>2, <1>3, <1>4, <1>5 DEF Next, Serve

\* Every step keeps the truth of the webhooks under way.
LEMMA EventStep == FlowInv /\ [Next]_vars => EventInv'
<1> SUFFICES ASSUME FlowInv, [Next]_vars PROVE EventInv'
  OBVIOUS
<1>0. EventInv /\ BrokerTypeOK /\ \A m \in Messages : m.event.order \in Keys
  BY Data DEF FlowInv, TypeOK, BrokerTypeOK, Message, Messages
<1>1. ASSUME BrokerStep PROVE EventInv'
  <2>1. ASSUME NEW m \in Messages' PROVE TrueEvent(m.event, charges')
    <3>1. PICK n \in Messages : n.event = m.event
      BY <1>0, <1>1, BrokerKeeps
    <3> QED BY <1>0, <3>1, ChargesMove DEF EventInv, TrueEvent
  <2> QED BY <1>0, <1>1, <2>1, BrokerKeeps DEF EventInv
<1>2. ASSUME NEW e \in Events, ReceiveWebhook(e) PROVE EventInv'
  <2>1. TrueEvent(e, charges) /\ UNCHANGED charges /\ Publish(e)
    BY <1>2 DEF ReceiveWebhook, TrueEvent, Paid
  <2> QED BY <1>0, <2>1, PublishKeeps DEF EventInv
<1>3. ASSUME NEW p \in Apis,
             \/ \E k \in Keys : Checkout(p, k)
             \/ Serve(p) \/ CheckoutError(p) \/ CompleteError(p) \/ ApiFault(p)
      PROVE  UNCHANGED broker
  BY <1>3 DEF Checkout, Serve, CreateCharge, SaveRecord, Complete, CheckoutError,
              CompleteError, ApiFault
<1>4. ASSUME NEW m \in hand,
             Handle(m) \/ CreditError(m) \/ CompleteTopUpError(m) \/ WorkerFault(m)
      PROVE  BrokerStep
  BY <1>4 DEF Handle, Find, Claim, Credit, CompleteTopUp, UpdateRecord, Done, CreditError,
              CompleteTopUpError, WorkerFault, Fail, BrokerStep
<1> QED BY <1>1, <1>2, <1>3, <1>4 DEF Next, BrokerStep, Pay, Take, vars

-------------------------------------------------------------------------------
\* The worker credits only an order that was paid and not credited before.
LEMMA CreditIsDue ==
  ASSUME FlowInv, NEW m \in hand, wpc = "credit",
         Wallet!Deposit(OwnerOf[m.event.order], AmountOf[m.event.order], m.event.order)
  PROVE  /\ m.event.order \in Keys /\ charges[m.event.order] \in Paid
         /\ DOMAIN rows' = DOMAIN rows \union {Len(rows) + 1}
         /\ Len(rows) \in Nat /\ Len(rows) + 1 \notin DOMAIN rows
         /\ \A i \in DOMAIN rows : rows'[i] = rows[i] /\ rows[i].key # m.event.order
         /\ rows'[Len(rows) + 1].key = m.event.order
         /\ rows'[Len(rows) + 1].wallet = OwnerOf[m.event.order]
         /\ rows'[Len(rows) + 1].amount = AmountOf[m.event.order]
<1>1. m.event \in Events /\ m.event.order \in Keys /\ TypeOK
  BY Data DEF FlowInv, TypeOK, BrokerTypeOK, Message
<1>2. m.event.status \in {"capture", "settlement"}
  BY <1>1, Data DEF FlowInv, MoneyInv, WorkerTrue
<1>3. charges[m.event.order] \in Paid
  BY <1>2 DEF FlowInv, EventInv, TrueEvent, Messages
<1>4. \A i \in DOMAIN rows : rows[i].key # m.event.order
  BY DEF FlowInv, ClaimInv, Credited, Credits
<1> QED BY <1>1, <1>3, <1>4, CreditProps

\* Rows are added by such a credit only, and never change.
LEMMA RowsGrow ==
  ASSUME FlowInv, [Next]_vars
  PROVE  \/ UNCHANGED rows
         \/ \E m \in hand :
              /\ wpc = "credit" /\ UNCHANGED <<wallets, charges>>
              /\ Wallet!Deposit(OwnerOf[m.event.order], AmountOf[m.event.order], m.event.order)
  BY DEF Next, Checkout, Serve, CreateCharge, SaveRecord, Complete, CheckoutError, CompleteError,
         ApiFault, Pay, ReceiveWebhook, Take, Handle, Find, Claim, Credit, CompleteTopUp,
         UpdateRecord, Done, CreditError, CompleteTopUpError, WorkerFault, vars, ledger, Step,
         Wallet!Deposit

\* A row that credited an order goes on to do so.
LEMMA NamesStay ==
  ASSUME FlowInv, [Next]_vars, NEW i, NEW k, Names(rows, i, k)
  PROVE  Names(rows', i, k)
  BY RowsGrow, CreditIsDue DEF Names

\* Every step keeps the rows explained by payments.
LEMMA RowsStep ==
  ASSUME FlowInv, [Next]_vars
  PROVE  (\A i \in DOMAIN rows' : rows'[i].key \in Keys) /\ CreditedOnlyIfPaid'
<1>0. (\A i \in DOMAIN rows : rows[i].key \in Keys) /\ CreditedOnlyIfPaid
  BY DEF FlowInv, MoneyInv
<1>1. CASE UNCHANGED rows
  BY <1>0, <1>1, ChargesMove DEF CreditedOnlyIfPaid, Paid
<1>2. CASE \E m \in hand :
             /\ wpc = "credit" /\ UNCHANGED <<wallets, charges>>
             /\ Wallet!Deposit(OwnerOf[m.event.order], AmountOf[m.event.order], m.event.order)
  BY <1>0, <1>2, CreditIsDue DEF CreditedOnlyIfPaid, Paid
<1> QED BY <1>1, <1>2, RowsGrow

\* Every step keeps a COMPLETED key in step with the row its answer names.
LEMMA KeysStep ==
  ASSUME FlowInv, [Next]_vars
  PROVE  \A k \in Keys : idem'[k].status = "COMPLETED" => Names(rows', idem'[k].resp, k)
<1>0. /\ \A k \in Keys : idem[k].status = "COMPLETED" => Names(rows, idem[k].resp, k)
      /\ idem \in [Keys -> KeyRow]
      /\ \A m \in hand : m.event.order \in Keys
  BY Data DEF FlowInv, MoneyInv, TypeOK, BrokerTypeOK, Message
<1>1. CASE UNCHANGED idem
  BY <1>0, <1>1, NamesStay
<1>2. ASSUME NEW m \in hand, Claim(m), idem' # idem
      PROVE  \A k \in Keys : idem'[k].status = "COMPLETED" => Names(rows', idem'[k].resp, k)
  BY <1>0, <1>2, NamesStay DEF Claim, InsertKey, KeyRow
<1>3. ASSUME NEW m \in hand, CreditError(m)
      PROVE  \A k \in Keys : idem'[k].status = "COMPLETED" => Names(rows', idem'[k].resp, k)
  BY <1>0, <1>3, NamesStay DEF CreditError, SetKey, KeyRow
<1>4. ASSUME NEW m \in hand, CompleteTopUp(m)
      PROVE  \A k \in Keys : idem'[k].status = "COMPLETED" => Names(rows', idem'[k].resp, k)
  <2>1. Names(rows, resp, m.event.order)
    BY <1>4 DEF CompleteTopUp, Step, FlowInv, MoneyInv, WorkerTrue
  <2> QED BY <1>0, <1>4, <2>1, NamesStay DEF CompleteTopUp, SetKey, KeyRow
<1>5. \/ UNCHANGED idem
      \/ \E m \in hand : (Claim(m) /\ idem' # idem) \/ CreditError(m) \/ CompleteTopUp(m)
  BY DEF Next, Checkout, Serve, CreateCharge, SaveRecord, Complete, CheckoutError, CompleteError,
         ApiFault, Pay, ReceiveWebhook, Take, Handle, Find, Credit,
         UpdateRecord, Done, CompleteTopUpError, WorkerFault, vars
<1> QED BY <1>1, <1>2, <1>3, <1>4, <1>5

\* A key that is known stays known.
LEMMA KeyStays ==
  ASSUME FlowInv, [Next]_vars
  PROVE  \A k \in Keys : ~Unknown(k) => ~Unknown(k)'
<1>0. idem \in [Keys -> KeyRow] /\ \A m \in hand : m.event.order \in Keys
  BY Data DEF FlowInv, TypeOK, BrokerTypeOK, Message
<1>1. \/ UNCHANGED idem
      \/ \E m \in hand : \E h : InsertKey(m.event.order, h)
      \/ \E m \in hand, s \in {"COMPLETED", "FAILED"} : \E r : SetKey(m.event.order, s, r)
  BY DEF Next, Checkout, Serve, CreateCharge, SaveRecord, Complete, CheckoutError, CompleteError,
         ApiFault, Pay, ReceiveWebhook, Take, Handle, Find, Claim, Credit, CreditError,
         CompleteTopUp, UpdateRecord, Done, CompleteTopUpError, WorkerFault, vars
<1>2. ASSUME NEW m \in hand, NEW h, InsertKey(m.event.order, h)
      PROVE  \A k \in Keys : ~Unknown(k) => ~Unknown(k)'
  BY <1>0, <1>2 DEF InsertKey, Unknown
<1>3. ASSUME NEW m \in hand, NEW s \in {"COMPLETED", "FAILED"}, NEW r,
             SetKey(m.event.order, s, r)
      PROVE  \A k \in Keys : ~Unknown(k) => ~Unknown(k)'
  BY <1>0, <1>3 DEF SetKey, Unknown, KeyRow
<1> QED BY <1>1, <1>2, <1>3 DEF Unknown

\* The worker's view of its message stays true as others move.
LEMMA WorkerKept ==
  ASSUME FlowInv, [Next]_vars, UNCHANGED <<wpc, resp>>,
         \A k \in Keys : records[k].status # "NONE" => records'[k].status # "NONE",
         NEW m \in hand
  PROVE  WorkerTrue(m.event, wpc', resp', records', rows')
<1>1. WorkerTrue(m.event, wpc, resp, records, rows) /\ m.event.order \in Keys
  BY Data DEF FlowInv, MoneyInv, TypeOK, BrokerTypeOK, Message
<1> QED BY <1>1, NamesStay DEF WorkerTrue

\* Every step keeps what the worker knows of its message.
LEMMA WorkerStep ==
  ASSUME FlowInv, [Next]_vars
  PROVE  \A m \in hand' : WorkerTrue(m.event, wpc', resp', records', rows')
<1>0. /\ \A m \in hand : WorkerTrue(m.event, wpc, resp, records, rows)
      /\ \A m \in hand : m.event.order \in Keys /\ m.event \in Events
      /\ \A m, n \in hand : m = n
      /\ records \in [Keys -> [status : {"NONE", "PENDING", "SETTLED", "FAILED", "EXPIRED"},
                              tx : Nat]]
  BY Data DEF FlowInv, MoneyInv, EventInv, TypeOK, BrokerTypeOK, Message
<1>1. ASSUME wpc' = "find" PROVE \A m \in hand' : WorkerTrue(m.event, wpc', resp', records', rows')
  BY <1>1 DEF WorkerTrue
<1>2. ASSUME NEW p \in Apis,
             \/ \E k \in Keys : Checkout(p, k)
             \/ Serve(p) \/ CheckoutError(p) \/ CompleteError(p) \/ ApiFault(p)
      PROVE  \A m \in hand' : WorkerTrue(m.event, wpc', resp', records', rows')
  <2>1. UNCHANGED <<wpc, resp, hand>>
    BY <1>2 DEF Checkout, Serve, CreateCharge, SaveRecord, Complete, CheckoutError,
                CompleteError, ApiFault, worker, broker
  <2>2. UNCHANGED records \/ SaveRecord(p)
    BY <1>2 DEF Checkout, Serve, CreateCharge, Complete, CheckoutError,
                CompleteError, ApiFault
  <2>3. \A k \in Keys : records[k].status # "NONE" => records'[k].status # "NONE"
    BY <1>0, <2>2 DEF SaveRecord
  <2> QED BY <2>1, <2>3, WorkerKept
<1>3. ASSUME UNCHANGED <<wpc, resp, hand, records>>
      PROVE  \A m \in hand' : WorkerTrue(m.event, wpc', resp', records', rows')
  BY <1>3, WorkerKept
<1>4. CASE \/ \E k \in Keys : Pay(k)
           \/ \E e \in Events : ReceiveWebhook(e)
           \/ UNCHANGED vars
  BY <1>3, <1>4, PublishKeeps DEF Pay, ReceiveWebhook, Publish, vars, worker, broker
<1>5. CASE Take
  BY <1>1, <1>5 DEF Take
<1>6. ASSUME NEW m \in hand, Find(m)
      PROVE  \A n \in hand' : WorkerTrue(n.event, wpc', resp', records', rows')
  <2>1. CASE Fail(m)
    BY <1>1, <2>1 DEF Fail
  <2>2. CASE ~Fail(m)
    <3>1. /\ hand' = hand /\ records' = records /\ wpc' \in {"claim", "record", "ack"}
          /\ Parse(m.event.status) # "ERROR" /\ records[m.event.order].status # "NONE"
          /\ wpc' = "claim" => Parse(m.event.status) = "SETTLED"
          /\ wpc' = "record" => Parse(m.event.status) # "SETTLED"
      BY <1>6, <2>2 DEF Find, Step, broker
    <3> QED BY <1>0, <3>1 DEF WorkerTrue
  <2> QED BY <2>1, <2>2
<1>7. ASSUME NEW m \in hand, Claim(m)
      PROVE  \A n \in hand' : WorkerTrue(n.event, wpc', resp', records', rows')
  <2>1. CASE Fail(m)
    BY <1>1, <2>1 DEF Fail
  <2>2. CASE ~Fail(m)
    <3>1. /\ wpc = "claim" /\ hand' = hand /\ records' = records /\ wpc' \in {"credit", "record"}
          /\ wpc' = "record" => /\ resp' = idem[m.event.order].resp
                                /\ idem[m.event.order].status = "COMPLETED"
      BY <1>7, <2>2 DEF Claim, Step, broker, Replayable
    <3>2. wpc' = "record" => Names(rows', resp', m.event.order)
      BY <1>0, <3>1, NamesStay DEF FlowInv, MoneyInv
    <3> QED BY <1>0, <3>1, <3>2 DEF WorkerTrue
  <2> QED BY <2>1, <2>2
<1>8. ASSUME NEW m \in hand, Credit(m)
      PROVE  \A n \in hand' : WorkerTrue(n.event, wpc', resp', records', rows')
  <2>1. /\ wpc = "credit" /\ wpc' = "complete" /\ hand' = hand /\ records' = records
        /\ resp' = Len(rows) + 1
        /\ Wallet!Deposit(OwnerOf[m.event.order], AmountOf[m.event.order], m.event.order)
    BY <1>8 DEF Credit, Step, broker
  <2>2. Names(rows', resp', m.event.order)
    BY <2>1, CreditIsDue DEF Names
  <2> QED BY <1>0, <2>1, <2>2 DEF WorkerTrue
<1>9. ASSUME NEW m \in hand, CompleteTopUp(m) \/ CompleteTopUpError(m)
      PROVE  \A n \in hand' : WorkerTrue(n.event, wpc', resp', records', rows')
  <2>1. /\ wpc = "complete" /\ wpc' = "record" /\ hand' = hand
        /\ UNCHANGED <<records, resp, rows>>
    BY <1>9 DEF CompleteTopUp, CompleteTopUpError, Step, broker, ledger
  <2> QED BY <1>0, <2>1 DEF WorkerTrue
<1>10. ASSUME NEW m \in hand, UpdateRecord(m)
       PROVE  \A n \in hand' : WorkerTrue(n.event, wpc', resp', records', rows')
  <2>1. /\ wpc = "record" /\ wpc' = "ack" /\ hand' = hand
        /\ records' = [records EXCEPT ![m.event.order] =
                         [status |-> Parse(m.event.status), tx |-> resp]]
    BY <1>10 DEF UpdateRecord, Step, broker
  <2>2. Parse(m.event.status) # "ERROR" /\ Parse(m.event.status) # "NONE"
    BY <1>0, <2>1, Data DEF WorkerTrue
  <2> QED BY <1>0, <2>1, <2>2 DEF WorkerTrue
<1>11. ASSUME NEW m \in hand, CreditError(m) \/ Done(m) \/ WorkerFault(m)
       PROVE  wpc' = "find"
  BY <1>11 DEF CreditError, Done, WorkerFault, Fail, Step
<1> QED BY <1>1, <1>2, <1>4, <1>5, <1>6, <1>7, <1>8, <1>9, <1>10, <1>11 DEF Next, Handle

\* Every step keeps SETTLED records linked to their credit.
LEMMA RecordsStep == ASSUME FlowInv, [Next]_vars PROVE SettledIsCredited'
<1>0. /\ SettledIsCredited
      /\ records \in [Keys -> [status : {"NONE", "PENDING", "SETTLED", "FAILED", "EXPIRED"},
                              tx : Nat]]
  BY DEF FlowInv, MoneyInv, TypeOK
<1>1. SUFFICES \A k \in Keys : records'[k].status = "SETTLED" => Names(rows', records'[k].tx, k)
  BY DEF SettledIsCredited, Names
<1>2. CASE UNCHANGED records
  BY <1>0, <1>2, NamesStay DEF SettledIsCredited, Names
<1>3. ASSUME NEW p \in Apis, SaveRecord(p)
      PROVE  \A k \in Keys : records'[k].status = "SETTLED" => Names(rows', records'[k].tx, k)
  BY <1>0, <1>3, NamesStay DEF SaveRecord, SettledIsCredited, Names
<1>4. ASSUME NEW m \in hand, UpdateRecord(m)
      PROVE  \A k \in Keys : records'[k].status = "SETTLED" => Names(rows', records'[k].tx, k)
  <2>1. Parse(m.event.status) = "SETTLED" => Names(rows', resp, m.event.order)
    BY <1>4, NamesStay DEF UpdateRecord, Step, FlowInv, MoneyInv, WorkerTrue
  <2> QED BY <1>0, <1>4, <2>1, NamesStay DEF UpdateRecord, SettledIsCredited, Names
<1>5. \/ UNCHANGED records
      \/ \E p \in Apis : SaveRecord(p)
      \/ \E m \in hand : UpdateRecord(m)
  BY DEF Next, Checkout, Serve, CreateCharge, Complete, CheckoutError, CompleteError,
         ApiFault, Pay, ReceiveWebhook, Take, Handle, Find, Claim, Credit, CompleteTopUp,
         Done, CreditError, CompleteTopUpError, WorkerFault, vars
<1> QED BY <1>2, <1>3, <1>4, <1>5

\* Every step keeps a key uncredited until the one call that claims it credits it.
LEMMA ClaimStep == ASSUME FlowInv, [Next]_vars PROVE ClaimInv'
<1>0. /\ ClaimInv /\ idem \in [Keys -> KeyRow]
      /\ \A m \in hand : m.event.order \in Keys
      /\ \A m, n \in hand : m = n
  BY Data DEF FlowInv, EventInv, TypeOK, BrokerTypeOK, Message
<1>1. \A k \in Keys : Unknown(k)' => Unknown(k)
  BY <1>0, KeyStays
<1>2. \A k \in Keys : Credited(k)' => Credited(k) \/ ~Unknown(k)
  <2>1. CASE UNCHANGED rows
    BY <2>1 DEF Credited, Credits
  <2>2. CASE \E m \in hand :
               /\ wpc = "credit" /\ UNCHANGED <<wallets, charges>>
               /\ Wallet!Deposit(OwnerOf[m.event.order], AmountOf[m.event.order], m.event.order)
    BY <1>0, <2>2, CreditIsDue DEF Credited, Credits, ClaimInv
  <2> QED BY <2>1, <2>2, RowsGrow
<1>3. \A k \in Keys : Unknown(k)' => ~Credited(k)'
  BY <1>0, <1>1, <1>2 DEF ClaimInv
<1>4. ASSUME NEW m \in hand', wpc' = "credit"
      PROVE  ~Unknown(m.event.order)' /\ ~Credited(m.event.order)'
  <2>1. CASE \E n \in hand : Claim(n)
    <3>1. PICK n \in hand : Claim(n)
      BY <2>1
    <3>2. /\ Unknown(n.event.order) /\ UNCHANGED <<rows, hand>>
          /\ InsertKey(n.event.order, Hash("TOPUP", 0, AmountOf[n.event.order]))
      BY <1>4, <3>1 DEF Claim, Fail, Step, broker, ledger
    <3>3. m = n /\ n.event.order \in Keys
      BY <1>0, <3>2
    <3>4. ~Unknown(n.event.order)'
      BY <1>0, <3>2, <3>3 DEF InsertKey, Unknown
    <3>5. ~Credited(n.event.order)'
      BY <1>0, <3>2, <3>3 DEF ClaimInv, Credited, Credits
    <3> QED BY <3>3, <3>4, <3>5
  <2>2. CASE ~\E n \in hand : Claim(n)
    <3>1. wpc = "credit" /\ UNCHANGED <<rows, hand>>
      BY <1>4, <2>2, PublishKeeps
         DEF Next, Checkout, Serve, CreateCharge, SaveRecord, Complete, CheckoutError,
             CompleteError, ApiFault, Pay, ReceiveWebhook, Publish, Take, Handle, Find, Credit,
             CompleteTopUp, UpdateRecord, Done, CreditError, CompleteTopUpError, WorkerFault,
             Fail, Step, vars, ledger, worker, broker
    <3> QED BY <1>0, <1>1, <1>4, <3>1, KeyStays DEF ClaimInv, Credited, Credits
  <2> QED BY <2>1, <2>2
<1> QED BY <1>3, <1>4 DEF ClaimInv

-------------------------------------------------------------------------------
LEMMA FlowInit == Init => FlowInv
<1> SUFFICES ASSUME Init PROVE FlowInv
  OBVIOUS
<1>1. TypeOK
  <2>1. Wallet!TypeOK
    BY SameRows, MaxIntAssumption DEF Init, Balances
  <2>2. idem \in [Keys -> KeyRow]
    BY DEF Init, NoKeys, KeyRow
  <2>3. BrokerTypeOK
    BY LimitsAssumption DEF Init, BrokerInit, BrokerTypeOK
  <2> QED BY <2>1, <2>2, <2>3, TopUpAssumption DEF Init, TypeOK, KeyStatus, Absent
<1>2. ApiInv /\ EventInv
  BY DEF Init, BrokerInit, ApiInv, EventInv, Messages, Absent
<1>3. /\ hand = {} /\ rows = <<>> /\ DOMAIN <<>> = {}
      /\ \A k \in Keys : idem[k].status = "NONE" /\ records[k].status = "NONE"
  BY DEF Init, BrokerInit, NoKeys, Absent
<1>4. MoneyInv
  BY <1>3 DEF MoneyInv, CreditedOnlyIfPaid, SettledIsCredited
<1>5. ClaimInv
  BY <1>3 DEF ClaimInv, Credited, Credits
<1> QED BY <1>1, <1>2, <1>4, <1>5 DEF FlowInv

LEMMA FlowInvHolds == Spec => []FlowInv
<1>1. FlowInv /\ [Next]_vars => FlowInv'
  BY TypeStep, ApiStep, EventStep, RowsStep, KeysStep, WorkerStep, RecordsStep, ClaimStep
     DEF FlowInv, MoneyInv
<1> QED BY <1>1, FlowInit, PTL DEF Spec

\* For any checkouts, webhooks and limits, the tables, the keys, the calls and the
\* messages keep their types; no message exceeds its delivery limit.
THEOREM FlowTyped == Spec => []TypeOK
<1>1. FlowInv => TypeOK
  BY DEF FlowInv
<1> QED BY <1>1, FlowInvHolds, PTL

\* Whatever webhooks say and in whatever order they come, a wallet is credited only
\* for an order that was paid, with its amount.
THEOREM CreditsArePaid == Spec => []CreditedOnlyIfPaid
<1>1. FlowInv => CreditedOnlyIfPaid
  BY DEF FlowInv, MoneyInv
<1> QED BY <1>1, FlowInvHolds, PTL

\* Whatever is redelivered or fails, a SETTLED record names the credit of its order.
THEOREM SettledAreCredited == Spec => []SettledIsCredited
<1>1. FlowInv => SettledIsCredited
  BY DEF FlowInv, MoneyInv
<1> QED BY <1>1, FlowInvHolds, PTL

-------------------------------------------------------------------------------
\* A step that changes neither payments nor rows is a stutter of Order.
LEMMA QuietStep ==
  ASSUME UNCHANGED <<charges, rows>>
  PROVE  UNCHANGED Promise!vars
  BY DEF Promise!vars, PaymentOf, Credits

\* One payment moves and no row is written.
LEMMA PaymentStep ==
  ASSUME FlowInv, NEW k \in Keys, NEW s, charges' = [charges EXCEPT ![k] = s], UNCHANGED rows
  PROVE  LET before == [j \in Keys |-> PaymentOf(j)]
             after == [j \in Keys |-> PaymentOf(j)']
         IN  /\ after = [before EXCEPT ![k] = PaymentOf(k)']
             /\ UNCHANGED [j \in Keys |-> Cardinality(Credits(j))]
<1>1. charges \in [Keys -> {"NONE", "OPEN", "OFFERED"} \union Ends]
  BY DEF FlowInv, TypeOK
<1> QED BY <1>1 DEF PaymentOf, Credits

\* Every step is a step of Order, or none.
LEMMA OrderStep == FlowInv /\ [Next]_vars => [Promise!Next]_Promise!vars
<1> SUFFICES ASSUME FlowInv, [Next]_vars PROVE [Promise!Next]_Promise!vars
  OBVIOUS
<1>0. charges \in [Keys -> {"NONE", "OPEN", "OFFERED"} \union Ends] /\ ApiInv
  BY DEF FlowInv, TypeOK
<1>1. ASSUME NEW p \in Apis, CreateCharge(p) PROVE Promise!Next
  <2>1. PICK k \in Keys : k = order[p]
    BY <1>0, <1>1 DEF CreateCharge, ApiInv
  <2>2. /\ charges[k] = "NONE" /\ charges' = [charges EXCEPT ![k] = "OPEN"]
        /\ UNCHANGED rows
    BY <1>0, <1>1, <2>1 DEF CreateCharge, ApiInv, ledger
  <2>3. PaymentOf(k) = "none" /\ PaymentOf(k)' = "open"
    BY <1>0, <2>2 DEF PaymentOf
  <2>4. Promise!Open(k)
    BY <2>2, <2>3, PaymentStep DEF Promise!Open, Promise!PaymentMoves
  <2> QED BY <2>4 DEF Promise!Next
<1>2. ASSUME NEW p \in Apis, Complete(p) \/ CompleteError(p) PROVE UNCHANGED Promise!vars
  <2>1. /\ rows' = rows /\ charges' = [charges EXCEPT ![order[p]] =
                        IF charges[order[p]] = "OPEN" THEN "OFFERED" ELSE charges[order[p]]]
    BY <1>2 DEF Complete, CompleteError, Offer, ledger
  <2>2. \A k \in Keys : PaymentOf(k)' = PaymentOf(k)
    BY <1>0, <2>1 DEF PaymentOf
  <2> QED BY <2>1, <2>2 DEF Promise!vars, Credits
<1>3. ASSUME NEW k \in Keys, Pay(k) PROVE [Promise!Next]_Promise!vars
  <2>1. PICK s \in Later(charges[k]) \intersect Ends : charges' = [charges EXCEPT ![k] = s]
    BY <1>3 DEF Pay
  <2>2. UNCHANGED rows
    BY <1>3 DEF Pay, ledger
  <2>3. s \in {"capture", "settlement", "challenge", "deny", "cancel", "expire", "refund"}
    BY <2>1, TopUpAssumption
  <2>4. \/ charges[k] = "OPEN" /\ s = "expire"
        \/ charges[k] = "OFFERED" /\ s # "refund"
        \/ charges[k] = "capture" /\ s \in {"settlement", "refund"}
        \/ charges[k] = "settlement" /\ s = "refund"
        \/ charges[k] \in {"challenge", "deny"} /\ s = "settlement"
    BY <2>1 DEF Later
  <2>5. \/ PaymentOf(k) = "open" /\ PaymentOf(k)' \in {"paid", "failed"}
        \/ PaymentOf(k) = "paid" /\ PaymentOf(k)' \in {"paid", "refunded"}
        \/ PaymentOf(k) = "failed" /\ PaymentOf(k)' = "paid"
    <3>1. PaymentOf(k)' = CASE s \in {"capture", "settlement"} -> "paid"
                            [] s = "refund" -> "refunded"
                            [] OTHER -> "failed"
      BY <1>0, <2>1, <2>3 DEF PaymentOf
    <3> QED BY <2>3, <2>4, <3>1 DEF PaymentOf
  <2>6. CASE PaymentOf(k)' = PaymentOf(k)
    <3>1. \A j \in Keys : PaymentOf(j)' = PaymentOf(j)
      BY <1>0, <2>1, <2>6 DEF PaymentOf
    <3> QED BY <2>2, <3>1 DEF Promise!vars, Credits
  <2>7. CASE PaymentOf(k)' # PaymentOf(k)
    <3>1. Promise!Pay(k) \/ Promise!Miss(k) \/ Promise!PayBack(k)
      BY <2>1, <2>2, <2>5, <2>7, PaymentStep
         DEF Promise!Pay, Promise!Miss, Promise!PayBack, Promise!PaymentMoves
    <3> QED BY <3>1 DEF Promise!Next
  <2> QED BY <2>6, <2>7
<1>4. ASSUME NEW m \in hand, wpc = "credit", UNCHANGED charges,
             Wallet!Deposit(OwnerOf[m.event.order], AmountOf[m.event.order], m.event.order)
      PROVE  Promise!Next
  <2> DEFINE k == m.event.order
  <2>1. k \in Keys /\ PaymentOf(k) \in {"paid", "refunded"} /\ Credits(k) = {}
    BY <1>4, CreditIsDue DEF Paid, PaymentOf, Credits
  <2>2. /\ \A j \in Keys : j # k => Credits(j)' = Credits(j)
        /\ Credits(k)' = {Len(rows) + 1}
    BY <1>4, CreditIsDue DEF Credits
  <2>c. Cardinality(Credits(k)) = 0 /\ Cardinality(Credits(k)') = 1
    BY <2>1, <2>2, FS_EmptySet, FS_Singleton
  <2>3. \A j \in Keys : PaymentOf(j)' = PaymentOf(j)
    BY <1>4 DEF PaymentOf
  <2> HIDE DEF k
  <2>4. Promise!Credit(k)
    BY <2>1, <2>2, <2>3, <2>c DEF Promise!Credit
  <2> QED BY <2>1, <2>4 DEF Promise!Next
<1>5. CASE UNCHANGED charges
  BY <1>4, <1>5, QuietStep, RowsGrow
<1>6. \/ UNCHANGED charges
      \/ \E p \in Apis : CreateCharge(p) \/ Complete(p) \/ CompleteError(p)
      \/ \E k \in Keys : Pay(k)
  BY DEF Next, Checkout, Serve, SaveRecord, CheckoutError,
         ApiFault, ReceiveWebhook, Take, Handle, Find, Claim, Credit, CompleteTopUp,
         UpdateRecord, Done, CreditError, CompleteTopUpError, WorkerFault, vars, api
<1> QED BY <1>1, <1>2, <1>3, <1>5, <1>6

\* The flow of checkouts, webhooks and redeliveries implements Order: for every
\* set of checkouts and webhooks an order is credited at most once, after it was
\* paid, wherever the worker dies or a statement fails.
THEOREM ImplementsOrder == Spec => RefinesOrder
<1>1. Init => Promise!Init
  <2>1. ASSUME Init PROVE \A k \in Keys : Cardinality(Credits(k)) = 0
    BY <2>1, FS_EmptySet DEF Init, Credits
  <2> QED BY <2>1 DEF Init, Promise!Init, PaymentOf
<1> QED BY <1>1, OrderStep, FlowInvHolds, PTL DEF Spec, RefinesOrder, Promise!Spec

===============================================================================
