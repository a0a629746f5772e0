-------------------------- MODULE PayoutFlow_proofs ---------------------------
(***************************************************************************)
(* For every set of requests, webhooks, API goroutines and limits, and     *)
(* whatever Xendit answers, a withdrawal goes through Withdrawal's life.   *)
(***************************************************************************)
EXTENDS PayoutFlow, LedgerRows_proofs

Messages == queue \union hand \union dead

Refused == {"FAILED", "CANCELLED", "REVERSED"}

\* Row i of the table was written for the key and the amount of a request.
Names(rs, i, k, a) == i \in DOMAIN rs /\ i \in Refs /\ rs[i].key = k /\ rs[i].amount = a

\* A call in progress: its key stands for its amount, and, once there is a row, the
\* row stands for both.
CallTrue(control, r, i, rs, keys) ==
  control # "idle" =>
    /\ r \in Requests /\ r.op = "WITHDRAWAL"
    /\ keys[r.key].status # "NONE" /\ keys[r.key].hash = <<0, r.amount>>
    /\ control # "debit" => Names(rs, i, r.key, r.amount)
    /\ control = "complete" => rs[i].type = "WITHDRAWAL"

\* A COMPLETED key names the row some request wrote for it.
KeyTrue(key, k, rs) ==
  key.status = "COMPLETED" =>
    /\ Names(rs, key.resp, k, key.hash[2])
    /\ \E r \in Requests : r.key = k /\ r.op = rs[key.resp].type

\* A webhook tells what Xendit decided, for good.
TrueEvent(e, ps) ==
  /\ Parse(e.status) = "SUCCEEDED" => ps[e.ref] \in {"SUCCEEDED", "REVERSED"}
  /\ Parse(e.status) = "FAILED" => ps[e.ref] \in Refused

\* Only a withdrawal is pending or failed, and only a payout makes it a success.
RowTrue(rs, i, ps) ==
  /\ rs[i].status \in {"PENDING", "FAILED"} => rs[i].type = "WITHDRAWAL"
  /\ rs[i].type = "WITHDRAWAL" /\ rs[i].status = "SUCCESS" =>
       i \in Refs /\ ps[i] \in {"SUCCEEDED", "REVERSED"}

\* A row that has been settled as a webhook said, or before the payout was reversed.
Settled(rs, i, ps, outcome) ==
  IF outcome = "SUCCEEDED"
  THEN i \in DOMAIN rs /\ rs[i].status = "SUCCESS"
  ELSE i \in DOMAIN rs /\ \/ rs[i].status = "FAILED"
                          \/ rs[i].status = "SUCCESS" /\ ps[i] = "REVERSED"

WorkerTrue(e, control, rs, ps) ==
  /\ control \in {"settle", "record"} => Parse(e.status) \in {"SUCCEEDED", "FAILED"}
  /\ control = "record" => Settled(rs, e.ref, ps, Parse(e.status))

RecordTrue(record, rs, i, ps) ==
  /\ record = "SETTLED" => Settled(rs, i, ps, "SUCCEEDED")
  /\ record = "FAILED" => Settled(rs, i, ps, "FAILED")

EventInv ==
  /\ \A m, n \in hand : m = n
  /\ \A m \in Messages : TrueEvent(m.event, payouts)

FlowInv ==
  /\ TypeOK
  /\ EventInv
  /\ \A p \in Apis : CallTrue(pc[p], req[p], row[p], rows, idem)
  /\ \A k \in Keys : KeyTrue(idem[k], k, rows)
  /\ \A i \in DOMAIN rows : RowTrue(rows, i, payouts)
  /\ \A m \in hand : WorkerTrue(m.event, wpc, rows, payouts)
  /\ \A i \in Refs : RecordTrue(records[i], rows, i, payouts)

-------------------------------------------------------------------------------
\* What the broker does with the messages it has, and the worker with it.
BrokerStep ==
  \/ UNCHANGED broker \/ Ack
  \/ \E m \in queue : Deliver(m)
  \/ \E m \in hand : Return(m)

\* No step of the broker invents an event or hands over two messages.
LEMMA BrokerKeeps ==
  ASSUME BrokerTypeOK, EventInv, BrokerStep
  PROVE  /\ BrokerTypeOK'
         /\ \A m, n \in hand' : m = n
         /\ \A m \in Messages' : \E n \in Messages : n.event = m.event
<1>1. CASE UNCHANGED broker
  BY <1>1 DEF broker, BrokerTypeOK, EventInv, Messages
<1>2. CASE Ack
  BY <1>2 DEF Ack, BrokerTypeOK, Messages
<1>3. ASSUME NEW m \in queue, Deliver(m)
      PROVE  /\ BrokerTypeOK'
             /\ \A n, o \in hand' : n = o
             /\ \A n \in Messages' : \E o \in Messages : o.event = n.event
  BY <1>3 DEF Deliver, BrokerTypeOK, Messages
<1>4. ASSUME NEW m \in hand, Return(m)
      PROVE  /\ BrokerTypeOK'
             /\ \A n, o \in hand' : n = o
             /\ \A n \in Messages' : \E o \in Messages : o.event = n.event
  <2> DEFINE more == [m EXCEPT !.returns = m.returns + 1]
  <2>1. m \in Message
    BY DEF BrokerTypeOK
  <2>2. more.event = m.event
    BY <2>1 DEF Message
  <2>3. m.returns # DeliveryLimit => more \in Message
    BY <2>1, LimitsAssumption DEF Message
  <2>4. /\ hand' = {} /\ sent' = sent
        /\ \/ dead' = dead \union {m} /\ queue' = queue
           \/ m.returns # DeliveryLimit /\ queue' = queue \union {more} /\ dead' = dead
    BY <1>4 DEF Return
  <2> HIDE DEF more
  <2> QED BY <2>1, <2>2, <2>3, <2>4 DEF BrokerTypeOK, Messages
<1> QED BY <1>1, <1>2, <1>3, <1>4 DEF BrokerStep

\* The API's publishing adds one message.
LEMMA PublishKeeps ==
  ASSUME BrokerTypeOK, EventInv, NEW e \in Events, Publish(e)
  PROVE  /\ BrokerTypeOK'
         /\ hand' = hand
         /\ \A m \in Messages' : m \in Messages \/ m.event = e
<1> DEFINE m == [event |-> e, copy |-> sent[e] + 1, returns |-> 0]
<1>1. sent[e] \in 0 .. MaxSends /\ sent[e] < MaxSends /\ MaxSends \in Nat
  BY LimitsAssumption DEF BrokerTypeOK, Publish
<1>2. sent[e] + 1 \in 1 .. MaxSends /\ 0 \in 0 .. DeliveryLimit
  BY <1>1, LimitsAssumption
<1>3. m \in Message /\ m.event = e
  BY <1>2 DEF Message
<1>4. sent' = [sent EXCEPT ![e] = sent[e] + 1] /\ queue' = queue \union {m}
      /\ hand' = hand /\ dead' = dead
  BY DEF Publish
<1> HIDE DEF m
<1>5. sent' \in [Events -> 0 .. MaxSends]
  BY <1>2, <1>4 DEF BrokerTypeOK
<1> QED BY <1>3, <1>4, <1>5 DEF BrokerTypeOK, Messages

-------------------------------------------------------------------------------
\* Ledger computes rows and balances as LedgerRows does here.
LEMMA SameRows ==
  /\ Wallet!TypeOK <=> /\ wallets \subseteq Wallets
                       /\ balance \in [Wallets -> Balances]
                       /\ rows \in Seq(Row)
  /\ Wallet!TypeOK' <=> /\ wallets' \subseteq Wallets
                        /\ balance' \in [Wallets -> Balances]
                        /\ rows' \in Seq(Row)
  /\ \A x : Wallet!Wrap(x) = Wrap(x)
  /\ \A rs, i, s : Wallet!WithStatus(rs, i, s) = WithStatus(rs, i, s)
  /\ \A type, w, a, b, k, o : Wallet!Entry(type, w, a, b, k, o) = Entry(type, w, a, b, k, o)
<1>1. \A x : Wallet!Wrap(x) = Wrap(x)
  BY DEF Wallet!Wrap, Wrap
<1>2. \A type, b, a : Wallet!After(type, b, a) = After(type, b, a)
  BY <1>1 DEF Wallet!After, After, Wallet!CreditTypes, CreditTypes
<1>3. \A type, w, a, b, k, o : Wallet!Entry(type, w, a, b, k, o) = Entry(type, w, a, b, k, o)
  BY <1>2 DEF Wallet!Entry, Entry
<1>4. Wallet!Balances = Balances /\ Wallet!Amounts = Amounts /\ Wallet!Statuses = Statuses
      /\ Wallet!CreditTypes = CreditTypes /\ Wallet!DebitTypes = DebitTypes
  BY DEF Wallet!Balances, Balances, Wallet!Amounts, Amounts, Wallet!Statuses, Statuses,
         Wallet!CreditTypes, CreditTypes, Wallet!DebitTypes, DebitTypes
<1>5. Wallet!Row = Row
  BY <1>4 DEF Wallet!Row, Row
<1>6. \A rs, i, s : Wallet!WithStatus(rs, i, s) = WithStatus(rs, i, s)
  BY DEF Wallet!WithStatus, WithStatus
<1> QED BY <1>1, <1>3, <1>4, <1>5, <1>6 DEF Wallet!TypeOK

-------------------------------------------------------------------------------
\* What no step takes back: rows stay, and only a pending one is settled.
Grown(rs, new) ==
  \A i \in DOMAIN rs :
    /\ i \in DOMAIN new
    /\ new[i].type = rs[i].type /\ new[i].amount = rs[i].amount /\ new[i].key = rs[i].key
    /\ new[i].status = rs[i].status \/ rs[i].status = "PENDING"

\* One row is added.
Added(rs, new, type, a, k) ==
  /\ DOMAIN new = DOMAIN rs \union {Len(rs) + 1}
  /\ Len(rs) \in Nat /\ Len(rs) + 1 \notin DOMAIN rs
  /\ \A i \in DOMAIN rs : new[i] = rs[i]
  /\ new[Len(rs) + 1].type = type /\ new[Len(rs) + 1].amount = a /\ new[Len(rs) + 1].key = k
  /\ new[Len(rs) + 1].status = IF type = "WITHDRAWAL" THEN "PENDING" ELSE "SUCCESS"

\* One row is settled, and a refund may be added.
SettledAs(rs, new, i, status) ==
  /\ i \in DOMAIN rs /\ rs[i].status = "PENDING"
  /\ new[i].type = rs[i].type /\ new[i].amount = rs[i].amount /\ new[i].key = rs[i].key
  /\ new[i].status = status
  /\ \A j \in DOMAIN rs : j # i => new[j] = rs[j]
  /\ DOMAIN rs \subseteq DOMAIN new
  /\ \A j \in DOMAIN new \ DOMAIN rs :
       new[j].type = "WITHDRAWAL_REVERT" /\ new[j].status = "SUCCESS"

\* A top-up or a withdrawal adds its row.
LEMMA AddProps ==
  ASSUME TypeOK, NEW w \in Wallets, NEW a \in Amounts, NEW k \in Keys,
         NEW type \in {"TOPUP", "WITHDRAWAL"},
         IF type = "TOPUP" THEN Wallet!Deposit(w, a, k) ELSE Wallet!Debit(w, a, k)
  PROVE  Wallet!TypeOK' /\ Added(rows, rows', type, a, k)
<1> DEFINE e == Entry(type, w, a, balance[w], k, 0)
<1>1. wallets \subseteq Wallets /\ balance \in [Wallets -> Balances] /\ rows \in Seq(Row)
  BY SameRows DEF TypeOK
<1>2. type = "WITHDRAWAL" => balance[w] >= a
  BY DEF Wallet!Debit
<1>3. e \in Row
  BY <1>1, <1>2, EntryType DEF CreditTypes, DebitTypes
<1>4. e.key = k /\ e.type = type /\ e.amount = a
      /\ e.status = IF type = "WITHDRAWAL" THEN "PENDING" ELSE "SUCCESS"
  BY DEF Entry
<1>5. /\ rows' = Append(rows, e) /\ wallets' = wallets
      /\ balance' = [balance EXCEPT ![w] = IF type = "TOPUP" THEN Wrap(balance[w] + a)
                                                             ELSE balance[w] - a]
  BY SameRows DEF Wallet!Deposit, Wallet!Debit
<1>6. (IF type = "TOPUP" THEN Wrap(balance[w] + a) ELSE balance[w] - a) \in Balances
  BY <1>1, <1>2, WrapType, DebitType
<1> HIDE DEF e
<1>7. /\ rows' \in Seq(Row) /\ Len(rows) \in Nat
      /\ DOMAIN rows' = DOMAIN rows \union {Len(rows) + 1} /\ DOMAIN rows = 1 .. Len(rows)
      /\ \A i \in DOMAIN rows : rows'[i] = rows[i]
      /\ rows'[Len(rows) + 1] = e
  BY <1>1, <1>3, <1>5, AppendProps
<1>8. Wallet!TypeOK'
  BY <1>1, <1>5, <1>6, <1>7, SameRows
<1> QED BY <1>4, <1>7, <1>8 DEF Added

\* A reversal or a finalization settles its row.
LEMMA SettleProps ==
  ASSUME TypeOK, NEW i,
         NEW status \in {"FAILED", "SUCCESS"},
         IF status = "FAILED" THEN Wallet!ReverseWithdrawal(i) ELSE Wallet!FinalizeWithdrawal(i)
  PROVE  Wallet!TypeOK' /\ SettledAs(rows, rows', i, status)
<1> DEFINE marked == WithStatus(rows, i, status)
           w == rows[i].wallet
           a == rows[i].amount
           e == Entry("WITHDRAWAL_REVERT", w, a, balance[w], NoKey, i)
<1>1. wallets \subseteq Wallets /\ balance \in [Wallets -> Balances] /\ rows \in Seq(Row)
  BY SameRows DEF TypeOK
<1>2. i \in DOMAIN rows /\ rows[i].status = "PENDING" /\ status \in Statuses
  BY DEF Wallet!ReverseWithdrawal, Wallet!FinalizeWithdrawal, Wallet!IsPending, Statuses
<1>3. /\ marked \in Seq(Row) /\ DOMAIN marked = DOMAIN rows
      /\ \A j \in DOMAIN rows : j # i => marked[j] = rows[j]
      /\ marked[i].status = status /\ marked[i].type = rows[i].type
      /\ marked[i].amount = rows[i].amount /\ marked[i].key = rows[i].key
  BY <1>1, <1>2, WithStatusProps
<1>4. CASE status = "SUCCESS"
  <2>1. rows' = marked /\ UNCHANGED <<wallets, balance>>
    BY <1>4, SameRows DEF Wallet!FinalizeWithdrawal
  <2> HIDE DEF marked
  <2> QED BY <1>1, <1>2, <1>3, <1>4, <2>1, SameRows DEF SettledAs
<1>5. CASE status = "FAILED"
  <2>1. w \in Wallets /\ a \in Amounts /\ i \in Nat
    BY <1>1, <1>2, RowAt
  <2>2. e \in Row /\ Wrap(balance[w] + a) \in Balances
    BY <1>1, <2>1, EntryType, WrapType DEF CreditTypes, DebitTypes
  <2>3. e.type = "WITHDRAWAL_REVERT" /\ e.status = "SUCCESS"
    BY DEF Entry
  <2>4. /\ rows' = Append(marked, e) /\ wallets' = wallets
        /\ balance' = [balance EXCEPT ![w] = Wrap(balance[w] + a)]
    BY <1>5, SameRows DEF Wallet!ReverseWithdrawal
  <2> HIDE DEF marked, e, w, a
  <2>5. /\ rows' \in Seq(Row) /\ DOMAIN rows' = DOMAIN marked \union {Len(marked) + 1}
        /\ \A j \in DOMAIN marked : rows'[j] = marked[j]
        /\ rows'[Len(marked) + 1] = e
    BY <1>3, <2>2, <2>4, AppendProps
  <2>6. Wallet!TypeOK'
    BY <1>1, <2>1, <2>2, <2>4, <2>5, SameRows
  <2> QED BY <1>2, <1>3, <1>5, <2>3, <2>5, <2>6 DEF SettledAs
<1> QED BY <1>4, <1>5

-------------------------------------------------------------------------------
\* What requests, keys and events may be.
LEMMA Data ==
  /\ \A r \in Requests : /\ r.wallet \in Wallets /\ r.amount \in Amounts /\ r.key \in Keys
                         /\ r.op \in {"TOPUP", "WITHDRAWAL"} /\ r # NoReq
  /\ \A e \in Events : e.ref \in Refs /\ Parse(e.status) \in {"SUCCEEDED", "FAILED", "PENDING", "ERROR"}
  /\ Amounts \subseteq Int
  /\ \A a \in Amounts, status \in {"NONE", "PROCESSING", "COMPLETED", "FAILED"}, i \in Nat :
       [status |-> status, hash |-> <<0, a>>, resp |-> i] \in KeyRow
  /\ \A r \in Requests : Hash(r.op, 0, r.amount) = <<0, r.amount>>
<1>1. \A r \in Requests : /\ r.wallet \in Wallets /\ r.amount \in Amounts /\ r.key \in Keys
                          /\ r.op \in {"TOPUP", "WITHDRAWAL"}
  BY PayoutAssumption
<1>2. \A e \in Events : e.ref \in Refs
  BY PayoutAssumption
<1>3. \A s : Parse(s) \in {"SUCCEEDED", "FAILED", "PENDING", "ERROR"}
  BY DEF Parse
<1>4. Amounts \subseteq Int
  BY MaxIntAssumption DEF Amounts
<1>5. \A r \in Requests : Hash(r.op, 0, r.amount) = <<0, r.amount>>
  BY <1>1 DEF Hash
<1>6. NoReq.amount \notin Amounts
  BY DEF NoReq, Amounts
<1> QED BY <1>1, <1>2, <1>3, <1>4, <1>5, <1>6 DEF KeyRow

\* What FlowInv says of a call that is past its debit, and of the others.
LEMMA CallFacts ==
  ASSUME FlowInv, NEW p \in Apis, pc[p] # "idle"
  PROVE  /\ req[p] \in Requests /\ req[p].op = "WITHDRAWAL"
         /\ req[p].wallet \in Wallets /\ req[p].amount \in Amounts /\ req[p].key \in Keys
         /\ idem[req[p].key].status # "NONE" /\ idem[req[p].key].hash = <<0, req[p].amount>>
         /\ pc[p] # "debit" => /\ row[p] \in DOMAIN rows /\ row[p] \in Refs
                               /\ rows[row[p]].key = req[p].key
                               /\ rows[row[p]].amount = req[p].amount
  BY Data DEF FlowInv, CallTrue, Names

\* Every step keeps the types.
LEMMA TypeStep == FlowInv /\ [Next]_vars => TypeOK'
<1> SUFFICES ASSUME FlowInv, [Next]_vars PROVE TypeOK'
  OBVIOUS
<1> USE DEF TypeOK
<1>0. TypeOK /\ EventInv
  BY DEF FlowInv
<1>a. ASSUME UNCHANGED ledger PROVE Wallet!TypeOK'
  BY <1>0, <1>a, SameRows DEF ledger
<1>b. ASSUME UNCHANGED broker PROVE BrokerTypeOK'
  BY <1>0, <1>b DEF broker, BrokerTypeOK
<1>c. \A m \in hand : m.event \in Events /\ m.event.ref \in Refs
  BY <1>0, Data DEF BrokerTypeOK, Message
<1>d. ASSUME NEW k \in Keys, NEW status \in {"COMPLETED", "FAILED"}, NEW i \in Nat,
             SetKey(k, status, i)
      PROVE  idem' \in [Keys -> KeyRow]
  BY <1>0, <1>d DEF SetKey, KeyRow
<1>e. Refs \subseteq 0 .. MaxRows /\ MaxRows \in Nat /\ MaxFaults \in Nat
  BY PayoutAssumption DEF Refs
<1>f. ASSUME NEW i, NEW status \in {"FAILED", "SUCCESS"},
             IF status = "FAILED" THEN Wallet!ReverseWithdrawal(i) ELSE Wallet!FinalizeWithdrawal(i)
      PROVE  Wallet!TypeOK'
  BY <1>0, <1>f, SettleProps
<1>1. ASSUME NEW r \in Requests, TopUp(r) PROVE TypeOK'
  <2>1. Wallet!TypeOK' /\ Len(rows) \in Nat
    <3> DEFINE type == "TOPUP"
    <3>1. IF type = "TOPUP" THEN Wallet!Deposit(r.wallet, r.amount, r.key)
                            ELSE Wallet!Debit(r.wallet, r.amount, r.key)
      BY <1>1 DEF TopUp
    <3>2. type \in {"TOPUP", "WITHDRAWAL"}
      OBVIOUS
    <3>3. r.wallet \in Wallets /\ r.amount \in Amounts /\ r.key \in Keys
      BY Data
    <3> HIDE DEF type
    <3> QED BY <1>0, <3>1, <3>2, <3>3, AddProps DEF Added
  <2> DEFINE key == [status |-> "COMPLETED", hash |-> <<0, r.amount>>, resp |-> Len(rows) + 1]
  <2>2. key \in KeyRow
    <3>1. Len(rows) + 1 \in Nat /\ r.amount \in Amounts
      BY <2>1, Data
    <3> QED BY <3>1, Data
  <2>3. idem' = [idem EXCEPT ![r.key] = key]
    BY <1>1, Data DEF TopUp
  <2> HIDE DEF key
  <2>4. idem' \in [Keys -> KeyRow]
    BY <1>0, <2>2, <2>3
  <2> QED BY <1>0, <1>1, <1>b, <2>1, <2>4 DEF TopUp, api
<1>2. ASSUME NEW p \in Apis, NEW r \in Requests, Request(p, r) PROVE TypeOK'
  <2>1. \/ InsertKey(r.key, <<0, r.amount>>) /\ row' = row
        \/ /\ idem[r.key].status = "COMPLETED" /\ idem' = idem
           /\ row' = [row EXCEPT ![p] = idem[r.key].resp]
    BY <1>2, Data DEF Request, Replayable
  <2> DEFINE key == [status |-> "PROCESSING", hash |-> <<0, r.amount>>, resp |-> 0]
  <2>a. key \in KeyRow
    <3>1. 0 \in Nat /\ r.amount \in Amounts
      BY Data
    <3> QED BY <3>1, Data
  <2>b. idem' = [idem EXCEPT ![r.key] = key] \/ idem' = idem
    BY <2>1 DEF InsertKey
  <2> HIDE DEF key
  <2>2. idem' \in [Keys -> KeyRow]
    BY <1>0, <2>a, <2>b
  <2>3. idem[r.key].status = "COMPLETED" => idem[r.key].resp \in Refs
    BY Data DEF FlowInv, KeyTrue, Names
  <2>4. row' \in [Apis -> 0 .. MaxRows]
    BY <1>0, <1>e, <2>1, <2>3
  <2> QED BY <1>0, <1>2, <1>a, <1>b, <2>2, <2>4 DEF Request
<1>3. ASSUME NEW p \in Apis, Wallet!Debit(req[p].wallet, req[p].amount, req[p].key),
             pc[p] = "debit"
      PROVE  Wallet!TypeOK' /\ Len(rows) \in Nat
  <2> DEFINE type == "WITHDRAWAL"
  <2>1. IF type = "TOPUP" THEN Wallet!Deposit(req[p].wallet, req[p].amount, req[p].key)
                          ELSE Wallet!Debit(req[p].wallet, req[p].amount, req[p].key)
    BY <1>3
  <2>2. type \in {"TOPUP", "WITHDRAWAL"}
    OBVIOUS
  <2> HIDE DEF type
  <2> QED BY <1>0, <1>3, <2>1, <2>2, AddProps, CallFacts DEF Added
<1>4. ASSUME NEW p \in Apis, Debit(p) PROVE TypeOK'
  <2>1. Wallet!TypeOK' /\ Len(rows) + 1 \in 0 .. MaxRows
    BY <1>3, <1>4, <1>e DEF Debit, Room
  <2> QED BY <1>0, <1>4, <1>b, <2>1 DEF Debit
<1>5. ASSUME NEW p \in Apis, End(p), pc[p] # "idle"
      PROVE  /\ pc' \in [Apis -> {"idle", "debit", "complete", "payout", "reverse", "record"}]
             /\ req' \in [Apis -> Requests \union {NoReq}] /\ row' \in [Apis -> 0 .. MaxRows]
  BY <1>0, <1>5, <1>e DEF End
<1>6. ASSUME NEW p \in Apis, Insufficient(p) PROVE TypeOK'
  <2>1. idem' \in [Keys -> KeyRow]
    BY <1>6, <1>d, CallFacts DEF Insufficient
  <2> QED BY <1>0, <1>5, <1>6, <1>a, <1>b, <2>1 DEF Insufficient
<1>7. ASSUME NEW p \in Apis, DebitError(p) PROVE TypeOK'
  <2>1. idem' \in [Keys -> KeyRow]
    BY <1>7, <1>d, CallFacts DEF DebitError
  <2>2. Wallet!TypeOK'
    BY <1>3, <1>7, <1>a DEF DebitError
  <2> QED BY <1>0, <1>5, <1>7, <1>b, <1>e, <2>1, <2>2 DEF DebitError
<1>8. ASSUME NEW p \in Apis, Complete(p) PROVE TypeOK'
  <2>1. idem' \in [Keys -> KeyRow]
    BY <1>0, <1>8, <1>d, CallFacts DEF Complete
  <2> QED BY <1>0, <1>8, <1>a, <1>b, <2>1 DEF Complete, Goto
<1>9. ASSUME NEW p \in Apis, CompleteError(p) PROVE TypeOK'
  BY <1>0, <1>9, <1>a, <1>b, <1>e DEF CompleteError, Goto
<1>10. ASSUME NEW p \in Apis, CreatePayout(p) \/ PayoutError(p) PROVE TypeOK'
  <2>1. payouts' = payouts \/ Accept(row[p])
    BY <1>10 DEF CreatePayout, PayoutError
  <2>2. payouts' \in [Refs -> {"NONE", "ACCEPTED"} \union Ends]
    BY <1>0, <2>1 DEF Accept
  <2>3. row[p] \in Refs
    BY <1>10, CallFacts DEF CreatePayout, PayoutError
  <2>4. erred' \subseteq Refs
    BY <1>0, <1>10, <2>3 DEF CreatePayout, PayoutError
  <2> QED BY <1>0, <1>10, <1>a, <1>b, <2>2, <2>4 DEF CreatePayout, PayoutError, Goto
<1>11. ASSUME NEW p \in Apis, Reverse(p) PROVE TypeOK'
  <2>1. Wallet!TypeOK'
    <3> DEFINE status == "FAILED"
    <3>1. \/ UNCHANGED ledger
          \/ IF status = "FAILED" THEN Wallet!ReverseWithdrawal(row[p])
                                  ELSE Wallet!FinalizeWithdrawal(row[p])
      BY <1>11 DEF Reverse
    <3> HIDE DEF status
    <3> QED BY <1>a, <1>f, <3>1 DEF status
  <2> QED BY <1>0, <1>5, <1>11, <1>b, <2>1 DEF Reverse
<1>12. ASSUME NEW p \in Apis, SaveRecord(p) PROVE TypeOK'
  <2>1. records' \in [Refs -> {"NONE", "PENDING", "SETTLED", "FAILED"}]
    BY <1>0, <1>12 DEF SaveRecord
  <2> QED BY <1>0, <1>5, <1>12, <1>a, <1>b, <2>1 DEF SaveRecord
<1>13. ASSUME NEW p \in Apis, ApiFault(p) PROVE TypeOK'
  BY <1>0, <1>5, <1>13, <1>a, <1>b, <1>e DEF ApiFault
<1>14. ASSUME NEW i \in Refs, Finish(i) PROVE TypeOK'
  BY <1>0, <1>14, <1>a, <1>b DEF Finish, api
<1>15. ASSUME NEW e \in Events, ReceivePayoutWebhook(e) PROVE TypeOK'
  BY <1>0, <1>15, <1>a, PublishKeeps DEF ReceivePayoutWebhook, api
<1>16. CASE Take
  <2>1. BrokerTypeOK'
    BY <1>0, <1>16, BrokerKeeps DEF Take, BrokerStep
  <2> QED BY <1>0, <1>16, <1>a, <2>1 DEF Take, api
<1>17. ASSUME NEW m \in hand, Return(m) \/ Ack PROVE BrokerTypeOK'
  BY <1>0, <1>17, BrokerKeeps DEF BrokerStep
<1>18. ASSUME NEW m \in hand, Find(m) PROVE TypeOK'
  BY <1>0, <1>17, <1>18, <1>a, <1>b DEF Find, api
<1>19. ASSUME NEW m \in hand, Finalize(m) PROVE TypeOK'
  <2>1. Wallet!TypeOK'
    <3> DEFINE status == "SUCCESS"
    <3>1. \/ UNCHANGED ledger
          \/ IF status = "FAILED" THEN Wallet!ReverseWithdrawal(m.event.ref)
                                  ELSE Wallet!FinalizeWithdrawal(m.event.ref)
      BY <1>19 DEF Finalize
    <3> HIDE DEF status
    <3> QED BY <1>a, <1>f, <3>1 DEF status
  <2> QED BY <1>0, <1>17, <1>19, <1>b, <2>1 DEF Finalize, api
<1>20. ASSUME NEW m \in hand, Refund(m) PROVE TypeOK'
  <2>1. Wallet!TypeOK'
    <3> DEFINE status == "FAILED"
    <3>1. \/ UNCHANGED ledger
          \/ IF status = "FAILED" THEN Wallet!ReverseWithdrawal(m.event.ref)
                                  ELSE Wallet!FinalizeWithdrawal(m.event.ref)
      BY <1>20 DEF Refund
    <3> HIDE DEF status
    <3> QED BY <1>a, <1>f, <3>1 DEF status
  <2> QED BY <1>0, <1>17, <1>20, <1>b, <2>1 DEF Refund, api
<1>21. ASSUME NEW m \in hand, UpdateRecord(m) PROVE TypeOK'
  BY <1>0, <1>21, <1>a, <1>b DEF UpdateRecord, api
<1>22. ASSUME NEW m \in hand, Done(m) PROVE TypeOK'
  BY <1>0, <1>17, <1>22, <1>a DEF Done, api
<1>23. ASSUME NEW m \in hand, WorkerFault(m) PROVE TypeOK'
  BY <1>0, <1>17, <1>23, <1>a, <1>e DEF WorkerFault, api
<1>24. CASE UNCHANGED vars
  BY <1>0, <1>24, <1>a, <1>b DEF vars, api
<1> QED BY <1>1, <1>2, <1>4, <1>6, <1>7, <1>8, <1>9, <1>10, <1>11, <1>12, <1>13, <1>14,
           <1>15, <1>16, <1>18, <1>19, <1>20, <1>21, <1>22, <1>23, <1>24
        DEF Next, Serve, Handle

-------------------------------------------------------------------------------
\* What a step does to the rows and the payouts: nothing, or one of these.
Enters ==
  /\ Len(rows) + 1 \in Refs /\ payouts' = payouts /\ erred' = erred
  /\ \E type \in {"TOPUP", "WITHDRAWAL"} : \E a, k : Added(rows, rows', type, a, k)

\* A settlement has its reason: the provider's word, or a payout that failed.
Reason(i, status) ==
  IF status = "SUCCESS" THEN payouts[i] \in {"SUCCEEDED", "REVERSED"}
  ELSE payouts[i] \in Refused \/ \E p \in Apis : pc[p] = "reverse" /\ row[p] = i

Settles(i, status) ==
  /\ SettledAs(rows, rows', i, status) /\ payouts' = payouts /\ erred' = erred
  /\ rows[i].type = "WITHDRAWAL" /\ Reason(i, status)

Asks(p) ==
  /\ pc[p] = "payout" /\ ~TooLarge(p)
  /\ rows' = rows /\ Accept(row[p])
  /\ UNCHANGED erred \/ erred' = erred \union {row[p]}

Errs(p) ==
  /\ pc[p] = "payout" /\ UNCHANGED <<rows, payouts>>
  /\ erred' = erred \union {row[p]}

Decides(i) ==
  /\ UNCHANGED <<rows, erred>>
  /\ \E s \in Ends : /\ payouts[i] = IF s = "REVERSED" THEN "SUCCEEDED" ELSE "ACCEPTED"
                     /\ payouts' = [payouts EXCEPT ![i] = s]

\* The row of a settlement is a withdrawal.
LEMMA Settling ==
  ASSUME FlowInv, NEW i \in Refs, NEW status \in {"FAILED", "SUCCESS"},
         IF status = "FAILED" THEN Wallet!ReverseWithdrawal(i) ELSE Wallet!FinalizeWithdrawal(i),
         Reason(i, status), payouts' = payouts, erred' = erred
  PROVE  Settles(i, status)
<1>1. SettledAs(rows, rows', i, status)
  BY SettleProps DEF FlowInv
<1>2. rows[i].type = "WITHDRAWAL"
  BY <1>1 DEF FlowInv, RowTrue, SettledAs
<1> QED BY <1>1, <1>2 DEF Settles

\* A step does one thing to rows and payouts.
LEMMA Moves ==
  ASSUME FlowInv, [Next]_vars
  PROVE  \/ UNCHANGED <<rows, payouts, erred>>
         \/ Enters
         \/ \E i \in Refs, status \in {"FAILED", "SUCCESS"} : Settles(i, status)
         \/ \E p \in Apis : Asks(p) \/ Errs(p)
         \/ \E i \in Refs : Decides(i)
<1> DEFINE Goal == \/ UNCHANGED <<rows, payouts, erred>>
                   \/ Enters
                   \/ \E i \in Refs, status \in {"FAILED", "SUCCESS"} : Settles(i, status)
                   \/ \E p \in Apis : Asks(p) \/ Errs(p)
                   \/ \E i \in Refs : Decides(i)
<1>0. TypeOK /\ EventInv /\ \A m \in hand : m.event \in Events /\ m.event.ref \in Refs
  BY Data DEF FlowInv, TypeOK, BrokerTypeOK, Message
<1>a. ASSUME NEW w \in Wallets, NEW a \in Amounts, NEW k \in Keys,
             NEW type \in {"TOPUP", "WITHDRAWAL"}, Room, payouts' = payouts, erred' = erred,
             IF type = "TOPUP" THEN Wallet!Deposit(w, a, k) ELSE Wallet!Debit(w, a, k)
      PROVE  Enters
  <2>1. Added(rows, rows', type, a, k)
    BY <1>0, <1>a, AddProps
  <2>2. Len(rows) + 1 \in Refs
    BY <1>a, <2>1, PayoutAssumption DEF Added, Room, Refs
  <2> QED BY <1>a, <2>1, <2>2 DEF Enters
<1>b. ASSUME NEW p \in Apis, pc[p] = "debit", Room, payouts' = payouts, erred' = erred,
             Wallet!Debit(req[p].wallet, req[p].amount, req[p].key)
      PROVE  Enters
  <2> DEFINE type == "WITHDRAWAL"
  <2>1. type \in {"TOPUP", "WITHDRAWAL"}
        /\ (type # "TOPUP" => Wallet!Debit(req[p].wallet, req[p].amount, req[p].key))
        /\ type # "TOPUP"
    BY <1>b
  <2>2. req[p].wallet \in Wallets /\ req[p].amount \in Amounts /\ req[p].key \in Keys
    BY <1>b, CallFacts
  <2> HIDE DEF type
  <2> QED BY <1>a, <1>b, <2>1, <2>2
<1>1. ASSUME NEW r \in Requests, TopUp(r) PROVE Enters
  <2> DEFINE type == "TOPUP"
  <2>1. type \in {"TOPUP", "WITHDRAWAL"} /\ Wallet!Deposit(r.wallet, r.amount, r.key)
        /\ type = "TOPUP" /\ Room /\ payouts' = payouts /\ erred' = erred
    BY <1>1 DEF TopUp
  <2>2. r.wallet \in Wallets /\ r.amount \in Amounts /\ r.key \in Keys
    BY Data
  <2> HIDE DEF type
  <2> QED BY <1>a, <2>1, <2>2
<1>2. ASSUME NEW p \in Apis, Debit(p) PROVE Enters
  BY <1>2, <1>b DEF Debit
<1>3. ASSUME NEW p \in Apis, DebitError(p) PROVE Goal
  <2>1. CASE UNCHANGED ledger
    BY <1>3, <2>1 DEF DebitError, ledger
  <2>2. CASE Room /\ Wallet!Debit(req[p].wallet, req[p].amount, req[p].key)
    BY <1>3, <1>b, <2>2 DEF DebitError
  <2> QED BY <1>3, <2>1, <2>2 DEF DebitError
<1>4. ASSUME NEW p \in Apis, CreatePayout(p) PROVE Asks(p)
  BY <1>0, <1>4 DEF CreatePayout, Asks, Goto, TypeOK, ledger
<1>5. ASSUME NEW p \in Apis, PayoutError(p) PROVE Goal
  <2>1. CASE UNCHANGED <<payouts, erred>>
    BY <1>5, <2>1 DEF PayoutError, ledger
  <2>2. CASE ~TooLarge(p) /\ erred' = erred \union {row[p]} /\ (UNCHANGED payouts \/ Accept(row[p]))
    BY <1>5, <2>2 DEF PayoutError, Asks, Errs, ledger
  <2> QED BY <1>5, <2>1, <2>2 DEF PayoutError
<1>6. ASSUME NEW p \in Apis, Reverse(p) PROVE Goal
  <2>1. CASE UNCHANGED ledger
    BY <1>6, <2>1 DEF Reverse, ledger
  <2>2. CASE Wallet!ReverseWithdrawal(row[p])
    <3> DEFINE status == "FAILED"
    <3>1. /\ status = "FAILED" /\ status \in {"FAILED", "SUCCESS"}
          /\ payouts' = payouts /\ erred' = erred /\ Reason(row[p], status) /\ row[p] \in Refs
      BY <1>6, CallFacts DEF Reverse, Reason
    <3> HIDE DEF status
    <3> QED BY <2>2, <3>1, Settling
  <2> QED BY <1>6, <2>1, <2>2 DEF Reverse
<1>7. ASSUME NEW m \in hand, Finalize(m) PROVE Goal
  <2>1. CASE UNCHANGED ledger
    BY <1>7, <2>1 DEF Finalize, ledger
  <2>2. CASE Wallet!FinalizeWithdrawal(m.event.ref)
    <3> DEFINE status == "SUCCESS"
    <3>1. payouts[m.event.ref] \in {"SUCCEEDED", "REVERSED"}
      BY <1>0, <1>7 DEF Finalize, EventInv, TrueEvent, Messages
    <3>2. /\ status # "FAILED" /\ status \in {"FAILED", "SUCCESS"}
          /\ payouts' = payouts /\ erred' = erred /\ Reason(m.event.ref, status) /\ m.event.ref \in Refs
      BY <1>0, <1>7, <3>1 DEF Finalize, Reason
    <3> HIDE DEF status
    <3> QED BY <2>2, <3>2, Settling
  <2> QED BY <1>7, <2>1, <2>2 DEF Finalize
<1>8. ASSUME NEW m \in hand, Refund(m) PROVE Goal
  <2>1. CASE UNCHANGED ledger
    BY <1>8, <2>1 DEF Refund, ledger
  <2>2. CASE Wallet!ReverseWithdrawal(m.event.ref)
    <3> DEFINE status == "FAILED"
    <3>1. payouts[m.event.ref] \in Refused
      BY <1>0, <1>8 DEF Refund, EventInv, TrueEvent, Messages
    <3>2. /\ status = "FAILED" /\ status \in {"FAILED", "SUCCESS"}
          /\ payouts' = payouts /\ erred' = erred /\ Reason(m.event.ref, status) /\ m.event.ref \in Refs
      BY <1>0, <1>8, <3>1 DEF Refund, Reason
    <3> HIDE DEF status
    <3> QED BY <2>2, <3>2, Settling
  <2> QED BY <1>8, <2>1, <2>2 DEF Refund
<1>9. ASSUME NEW i \in Refs, Finish(i) PROVE Decides(i)
  BY <1>9 DEF Finish, Decides, ledger
<1>10. ASSUME \/ \E p \in Apis : \/ \E r \in Requests : Request(p, r)
                                 \/ Insufficient(p) \/ Complete(p) \/ CompleteError(p)
                                 \/ SaveRecord(p) \/ ApiFault(p)
              \/ \E e \in Events : ReceivePayoutWebhook(e)
              \/ Take \/ UNCHANGED vars
              \/ \E m \in hand : Find(m) \/ UpdateRecord(m) \/ Done(m) \/ WorkerFault(m)
       PROVE  UNCHANGED <<rows, payouts, erred>>
  BY <1>10 DEF Request, Insufficient, Complete, CompleteError, SaveRecord, ApiFault,
     ReceivePayoutWebhook, Take, Find, UpdateRecord, Done, WorkerFault, ledger, vars
<1> HIDE DEF Goal
<1>11. Goal
  <2>1. ASSUME \/ UNCHANGED <<rows, payouts, erred>>
               \/ Enters
               \/ \E p \in Apis : Asks(p) \/ Errs(p)
               \/ \E i \in Refs : Decides(i)
        PROVE Goal
    BY <2>1 DEF Goal
  <2> QED BY <1>1, <1>2, <1>3, <1>4, <1>5, <1>6, <1>7, <1>8, <1>9, <1>10, <2>1
          DEF Next, Serve, Handle
<1> QED BY <1>11 DEF Goal

\* What the bank has decided stays decided, but for a payout it takes back.
Later(ps, new) ==
  \A i \in Refs :
    /\ ps[i] \in {"SUCCEEDED", "REVERSED"} => new[i] \in {"SUCCEEDED", "REVERSED"}
    /\ ps[i] \in Refused => new[i] = ps[i]

\* The consequences: rows stay, a new row is no failed one, payouts go on.
LEMMA Onward ==
  ASSUME FlowInv, [Next]_vars
  PROVE  /\ Grown(rows, rows') /\ Later(payouts, payouts') /\ erred \subseteq erred'
         /\ \A i \in DOMAIN rows' \ DOMAIN rows :
              /\ rows'[i].status = IF rows'[i].type = "WITHDRAWAL" THEN "PENDING" ELSE "SUCCESS"
         /\ \A i \in DOMAIN rows' : RowTrue(rows', i, payouts')
<1>0. payouts \in [Refs -> {"NONE", "ACCEPTED"} \union Ends]
  BY DEF FlowInv, TypeOK
<1>1. Later(payouts, payouts')
  <2>1. CASE payouts' = payouts
    BY <2>1 DEF Later
  <2>2. ASSUME NEW i \in Refs, Decides(i) PROVE Later(payouts, payouts')
    BY <1>0, <2>2 DEF Decides, Later, Refused
  <2>3. ASSUME NEW p \in Apis, Asks(p) PROVE Later(payouts, payouts')
    BY <1>0, <2>3 DEF Asks, Accept, Later, Refused
  <2> QED BY <2>1, <2>2, <2>3, Moves DEF Enters, Settles, Errs
<1>2. /\ Grown(rows, rows')
      /\ \A i \in DOMAIN rows' \ DOMAIN rows :
           rows'[i].status = IF rows'[i].type = "WITHDRAWAL" THEN "PENDING" ELSE "SUCCESS"
  <2>1. CASE rows' = rows
    BY <2>1 DEF Grown
  <2>2. CASE Enters
    BY <2>2 DEF Enters, Added, Grown
  <2>3. ASSUME NEW i, NEW status, Settles(i, status)
        PROVE  /\ Grown(rows, rows')
               /\ \A j \in DOMAIN rows' \ DOMAIN rows :
                    rows'[j].status = IF rows'[j].type = "WITHDRAWAL" THEN "PENDING" ELSE "SUCCESS"
    BY <2>3 DEF Settles, SettledAs, Grown
  <2> QED BY <2>1, <2>2, <2>3, Moves DEF Asks, Errs, Decides
<1>3. ASSUME NEW i \in DOMAIN rows' PROVE RowTrue(rows', i, payouts')
  <2>1. CASE i \notin DOMAIN rows
    BY <1>2, <2>1 DEF RowTrue
  <2>2. CASE i \in DOMAIN rows /\ rows'[i] = rows[i]
    BY <1>1, <2>2 DEF FlowInv, RowTrue, Later
  <2>3. ASSUME NEW j \in Refs, NEW status, Settles(j, status), j = i
        PROVE  RowTrue(rows', i, payouts')
    BY <2>3 DEF RowTrue, Settles, SettledAs, Reason
  <2>4. ASSUME NEW j \in Refs, NEW status, Settles(j, status), j # i
        PROVE  i \in DOMAIN rows => rows'[i] = rows[i]
    BY <2>4 DEF Settles, SettledAs
  <2>5. Enters => (i \in DOMAIN rows => rows'[i] = rows[i])
    BY DEF Enters, Added
  <2> QED BY <2>1, <2>2, <2>3, <2>4, <2>5, Moves DEF Asks, Errs, Decides
<1>4. erred \subseteq erred'
  BY Moves DEF Enters, Settles, Asks, Errs, Decides
<1> QED BY <1>1, <1>2, <1>3, <1>4

-------------------------------------------------------------------------------
\* A key that is known keeps its hash.
LEMMA KeysKept ==
  ASSUME FlowInv, [Next]_vars, NEW k \in Keys, idem[k].status # "NONE"
  PROVE  idem'[k].status # "NONE" /\ idem'[k].hash = idem[k].hash
<1> DEFINE Goal == idem'[k].status # "NONE" /\ idem'[k].hash = idem[k].hash
<1>0. idem \in [Keys -> KeyRow]
  BY DEF FlowInv, TypeOK
<1>1. ASSUME NEW j \in Keys, NEW status \in {"COMPLETED", "FAILED"}, NEW i, SetKey(j, status, i)
      PROVE  Goal
  BY <1>0, <1>1 DEF SetKey, KeyRow
<1>2. ASSUME NEW r \in Requests, TopUp(r) PROVE Goal
  BY <1>0, <1>2 DEF TopUp, Unknown
<1>3. ASSUME NEW p \in Apis, NEW r \in Requests, Request(p, r) PROVE Goal
  BY <1>0, <1>3 DEF Request, Unknown, InsertKey
<1>4. ASSUME NEW p \in Apis, Insufficient(p) \/ DebitError(p) \/ Complete(p) PROVE Goal
  <2>1. req[p].key \in Keys
    BY <1>4, CallFacts DEF Insufficient, DebitError, Complete
  <2> QED BY <1>1, <1>4, <2>1 DEF Insufficient, DebitError, Complete
<1>5. ASSUME \/ \E p \in Apis : \/ Debit(p) \/ CompleteError(p) \/ CreatePayout(p)
                                \/ PayoutError(p) \/ Reverse(p)
                                \/ SaveRecord(p) \/ ApiFault(p)
             \/ \E i \in Refs : Finish(i)
             \/ \E e \in Events : ReceivePayoutWebhook(e)
             \/ Take \/ UNCHANGED vars
             \/ \E m \in hand : Handle(m) \/ WorkerFault(m)
      PROVE  idem' = idem
  BY <1>5 DEF Debit, CompleteError, CreatePayout, PayoutError, Reverse, SaveRecord, ApiFault,
     Finish, ReceivePayoutWebhook, Take, Handle, Find, Finalize, Refund, UpdateRecord, Done,
     WorkerFault, vars
<1> QED BY <1>2, <1>3, <1>4, <1>5 DEF Next, Serve

\* How a call goes on: to its next step, with the same request and row.
Advances(p) ==
  /\ req'[p] = req[p] /\ row'[p] = row[p]
  /\ <<pc[p], pc'[p]>> \in {<<"complete", "payout">>, <<"payout", "record">>,
                            <<"payout", "reverse">>}
  /\ pc'[p] = "reverse" => TooLarge(p) \/ row[p] \in erred'

LEMMA CallMoves ==
  ASSUME FlowInv, [Next]_vars, NEW p \in Apis
  PROVE  \/ pc'[p] = pc[p] /\ req'[p] = req[p] /\ row'[p] = row[p]
         \/ pc'[p] = "idle"
         \/ \E r \in Requests : Request(p, r)
         \/ Debit(p)
         \/ Advances(p)
<1> DEFINE Goal == \/ pc'[p] = pc[p] /\ req'[p] = req[p] /\ row'[p] = row[p]
                   \/ pc'[p] = "idle"
                   \/ \E r \in Requests : Request(p, r)
                   \/ Debit(p)
                   \/ Advances(p)
<1>0. /\ pc \in [Apis -> {"idle", "debit", "complete", "payout", "reverse", "record"}]
      /\ req \in [Apis -> Requests \union {NoReq}] /\ row \in [Apis -> 0 .. MaxRows]
  BY DEF FlowInv, TypeOK
<1>1. ASSUME \/ \E r \in Requests : TopUp(r)
             \/ \E i \in Refs : Finish(i)
             \/ \E e \in Events : ReceivePayoutWebhook(e)
             \/ Take \/ UNCHANGED vars
             \/ \E m \in hand : Handle(m) \/ WorkerFault(m)
      PROVE  Goal
  BY <1>1 DEF TopUp, Finish, ReceivePayoutWebhook, Take, Handle, Find, Finalize, Refund,
     UpdateRecord, Done, WorkerFault, vars, api
<1>2. ASSUME NEW q \in Apis, End(q) PROVE Goal
  BY <1>0, <1>2 DEF End
<1>3. ASSUME NEW q \in Apis, Insufficient(q) \/ DebitError(q) \/ Reverse(q) \/ SaveRecord(q)
                             \/ ApiFault(q)
      PROVE  Goal
  BY <1>2, <1>3 DEF Insufficient, DebitError, Reverse, SaveRecord, ApiFault
<1>4. ASSUME NEW q \in Apis, NEW r \in Requests, Request(q, r) PROVE Goal
  BY <1>0, <1>4 DEF Request
<1>5. ASSUME NEW q \in Apis, Debit(q) PROVE Goal
  BY <1>0, <1>5 DEF Debit
<1>6. ASSUME NEW q \in Apis, Complete(q) \/ CompleteError(q) \/ CreatePayout(q) \/ PayoutError(q)
      PROVE  Goal
  <2>1. CASE q = p
    BY <1>0, <1>6, <2>1 DEF Complete, CompleteError, CreatePayout, PayoutError, Goto, Advances
  <2>2. CASE q # p
    BY <1>0, <1>6, <2>2 DEF Complete, CompleteError, CreatePayout, PayoutError, Goto
  <2> QED BY <2>1, <2>2
<1> QED BY <1>1, <1>3, <1>4, <1>5, <1>6 DEF Next, Serve

-------------------------------------------------------------------------------
\* The rows that a withdrawal and a top-up add.
LEMMA DebitAdds ==
  ASSUME FlowInv, NEW p \in Apis, Debit(p)
  PROVE  /\ Added(rows, rows', "WITHDRAWAL", req[p].amount, req[p].key)
         /\ Len(rows) + 1 \in Refs
<1> DEFINE type == "WITHDRAWAL"
<1>1. /\ type \in {"TOPUP", "WITHDRAWAL"} /\ type # "TOPUP" /\ Room
      /\ Wallet!Debit(req[p].wallet, req[p].amount, req[p].key)
  BY DEF Debit
<1>2. req[p].wallet \in Wallets /\ req[p].amount \in Amounts /\ req[p].key \in Keys
  BY CallFacts DEF Debit
<1> HIDE DEF type
<1>3. Added(rows, rows', type, req[p].amount, req[p].key)
  BY <1>1, <1>2, AddProps DEF FlowInv
<1>4. Len(rows) + 1 \in Refs
  BY <1>1, <1>3, PayoutAssumption DEF Added, Room, Refs
<1> QED BY <1>3, <1>4 DEF type

LEMMA TopUpAdds ==
  ASSUME FlowInv, NEW r \in Requests, TopUp(r)
  PROVE  Added(rows, rows', "TOPUP", r.amount, r.key) /\ Len(rows) + 1 \in Refs
<1> DEFINE type == "TOPUP"
<1>1. /\ type \in {"TOPUP", "WITHDRAWAL"} /\ type = "TOPUP" /\ Room
      /\ Wallet!Deposit(r.wallet, r.amount, r.key)
  BY DEF TopUp
<1>2. r.wallet \in Wallets /\ r.amount \in Amounts /\ r.key \in Keys
  BY Data
<1> HIDE DEF type
<1>3. Added(rows, rows', type, r.amount, r.key)
  BY <1>1, <1>2, AddProps DEF FlowInv
<1>4. Len(rows) + 1 \in Refs
  BY <1>1, <1>3, PayoutAssumption DEF Added, Room, Refs
<1> QED BY <1>3, <1>4 DEF type

\* Calls stay true to their rows and keys.
LEMMA CallStep ==
  ASSUME FlowInv, [Next]_vars, NEW p \in Apis
  PROVE  CallTrue(pc'[p], req'[p], row'[p], rows', idem')
<1> DEFINE Goal == CallTrue(pc'[p], req'[p], row'[p], rows', idem')
<1>0. /\ pc \in [Apis -> {"idle", "debit", "complete", "payout", "reverse", "record"}]
      /\ req \in [Apis -> Requests \union {NoReq}] /\ row \in [Apis -> 0 .. MaxRows]
      /\ idem \in [Keys -> KeyRow]
  BY DEF FlowInv, TypeOK
<1>1. Grown(rows, rows')
  BY Onward
<1>2. ASSUME NEW i, NEW k, NEW a, Names(rows, i, k, a)
      PROVE  Names(rows', i, k, a) /\ rows'[i].type = rows[i].type
  BY <1>1, <1>2 DEF Names, Grown
<1>3. ASSUME pc[p] # "idle", pc'[p] # "idle", req'[p] = req[p], row'[p] = row[p],
             pc'[p] = pc[p] \/ (pc[p] # "debit" /\ pc'[p] # "complete")
      PROVE  Goal
  <2>1. CallTrue(pc[p], req[p], row[p], rows, idem) /\ req[p].key \in Keys
    BY <1>3, CallFacts DEF FlowInv
  <2>2. idem'[req[p].key].status # "NONE" /\ idem'[req[p].key].hash = idem[req[p].key].hash
    BY <1>3, <2>1, KeysKept DEF CallTrue
  <2> QED BY <1>2, <1>3, <2>1, <2>2 DEF CallTrue
<1>4. CASE pc'[p] = "idle"
  BY <1>4 DEF CallTrue
<1>5. ASSUME NEW r \in Requests, Request(p, r) PROVE Goal
  <2>1. r.key \in Keys /\ Hash(r.op, 0, r.amount) = <<0, r.amount>> /\ r.op = "WITHDRAWAL"
    BY <1>5, Data DEF Request
  <2>2. req'[p] = r
    BY <1>0, <1>5 DEF Request
  <2>3. CASE Unknown(r.key) /\ InsertKey(r.key, Hash(r.op, 0, r.amount))
             /\ pc' = [pc EXCEPT ![p] = "debit"]
    BY <1>0, <2>1, <2>2, <2>3 DEF InsertKey, CallTrue
  <2>4. CASE /\ Replayable(r.key, Hash(r.op, 0, r.amount))
             /\ pc' = [pc EXCEPT ![p] = "payout"]
             /\ row' = [row EXCEPT ![p] = idem[r.key].resp]
             /\ UNCHANGED idem
    <3>1. idem[r.key].status = "COMPLETED" /\ idem[r.key].hash = <<0, r.amount>>
      BY <2>1, <2>4 DEF Replayable
    <3>2. Names(rows, idem[r.key].resp, r.key, r.amount)
      BY <2>1, <3>1 DEF FlowInv, KeyTrue
    <3> QED BY <1>0, <1>2, <2>1, <2>2, <2>4, <3>1, <3>2 DEF CallTrue
  <2> QED BY <1>5, <2>3, <2>4 DEF Request
<1>6. CASE Debit(p)
  <2>1. CallTrue(pc[p], req[p], row[p], rows, idem) /\ pc[p] = "debit"
    BY <1>6 DEF FlowInv, Debit
  <2>2. row'[p] = Len(rows) + 1 /\ pc'[p] = "complete" /\ req' = req /\ idem' = idem
    BY <1>0, <1>6 DEF Debit
  <2>3. Names(rows', row'[p], req[p].key, req[p].amount) /\ rows'[row'[p]].type = "WITHDRAWAL"
    BY <1>6, <2>2, DebitAdds DEF Added, Names
  <2> QED BY <2>1, <2>2, <2>3 DEF CallTrue
<1> QED BY <1>3, <1>4, <1>5, <1>6, CallMoves DEF Advances

\* A completed key names its row.
LEMMA KeyStep ==
  ASSUME FlowInv, [Next]_vars, NEW k \in Keys
  PROVE  KeyTrue(idem'[k], k, rows')
<1> DEFINE Goal == KeyTrue(idem'[k], k, rows')
<1>0. idem \in [Keys -> KeyRow]
  BY DEF FlowInv, TypeOK
<1>1. Grown(rows, rows') /\ KeyTrue(idem[k], k, rows)
  BY Onward DEF FlowInv
<1>2. ASSUME idem'[k] = idem[k] PROVE Goal
  BY <1>1, <1>2 DEF KeyTrue, Names, Grown
<1>3. ASSUME NEW r \in Requests, TopUp(r) PROVE Goal
  <2>1. CASE r.key # k
    BY <1>0, <1>2, <1>3, <2>1 DEF TopUp
  <2>2. CASE r.key = k
    <3>1. idem'[k] = [status |-> "COMPLETED", hash |-> <<0, r.amount>>, resp |-> Len(rows) + 1]
      BY <1>0, <1>3, <2>2, Data DEF TopUp
    <3>2. Names(rows', Len(rows) + 1, k, r.amount) /\ rows'[Len(rows) + 1].type = r.op
      BY <1>3, <2>2, TopUpAdds DEF Added, Names, TopUp
    <3> QED BY <2>2, <3>1, <3>2 DEF KeyTrue
  <2> QED BY <2>1, <2>2
<1>4. ASSUME NEW p \in Apis, NEW r \in Requests, Request(p, r) PROVE Goal
  <2>1. idem' = idem \/ InsertKey(r.key, Hash(r.op, 0, r.amount))
    BY <1>4 DEF Request
  <2>2. idem'[k] = idem[k] \/ idem'[k].status = "PROCESSING"
    BY <1>0, <2>1 DEF InsertKey
  <2> QED BY <1>2, <2>2 DEF KeyTrue
<1>5. ASSUME NEW p \in Apis, Insufficient(p) \/ DebitError(p) PROVE Goal
  <2>1. SetKey(req[p].key, "FAILED", 0)
    BY <1>5 DEF Insufficient, DebitError
  <2>2. idem'[k] = idem[k] \/ idem'[k].status = "FAILED"
    BY <1>0, <2>1 DEF SetKey, KeyRow
  <2> QED BY <1>2, <2>2 DEF KeyTrue
<1>6. ASSUME NEW p \in Apis, Complete(p) PROVE Goal
  <2>1. CASE req[p].key # k
    BY <1>0, <1>2, <1>6, <2>1 DEF Complete, SetKey
  <2>2. CASE req[p].key = k
    <3>1. CallTrue(pc[p], req[p], row[p], rows, idem) /\ pc[p] = "complete"
      BY <1>6 DEF FlowInv, Complete
    <3>2. idem'[k].resp = row[p] /\ idem'[k].hash = <<0, req[p].amount>>
      BY <1>0, <1>6, <2>2, <3>1 DEF Complete, SetKey, CallTrue, KeyRow
    <3>3. Names(rows, row[p], k, req[p].amount) /\ req[p] \in Requests
          /\ rows[row[p]].type = req[p].op /\ rows' = rows
      BY <1>6, <2>2, <3>1 DEF CallTrue, Complete, ledger
    <3> QED BY <2>2, <3>2, <3>3 DEF KeyTrue
  <2> QED BY <2>1, <2>2
<1>7. ASSUME \/ \E p \in Apis : \/ Debit(p) \/ CompleteError(p) \/ CreatePayout(p)
                                \/ PayoutError(p) \/ Reverse(p)
                                \/ SaveRecord(p) \/ ApiFault(p)
             \/ \E i \in Refs : Finish(i)
             \/ \E e \in Events : ReceivePayoutWebhook(e)
             \/ Take \/ UNCHANGED vars
             \/ \E m \in hand : Handle(m) \/ WorkerFault(m)
      PROVE  idem' = idem
  BY <1>7 DEF Debit, CompleteError, CreatePayout, PayoutError, Reverse, SaveRecord, ApiFault,
     Finish, ReceivePayoutWebhook, Take, Handle, Find, Finalize, Refund, UpdateRecord, Done,
     WorkerFault, vars
<1> QED BY <1>2, <1>3, <1>4, <1>5, <1>6, <1>7 DEF Next, Serve

-------------------------------------------------------------------------------
\* An event that is true stays true.
LEMMA EventTrue ==
  ASSUME FlowInv, [Next]_vars, NEW e \in Events, TrueEvent(e, payouts)
  PROVE  TrueEvent(e, payouts')
  BY Onward, Data DEF TrueEvent, Later

\* Messages are true, and the worker holds one at most.
LEMMA EventStep == FlowInv /\ [Next]_vars => EventInv'
<1> SUFFICES ASSUME FlowInv, [Next]_vars PROVE EventInv'
  OBVIOUS
<1>0. BrokerTypeOK /\ EventInv /\ \A m \in Messages : m.event \in Events
  BY DEF FlowInv, TypeOK, BrokerTypeOK, Message, Messages
<1>1. ASSUME BrokerStep PROVE EventInv'
  <2>1. /\ \A m, n \in hand' : m = n
        /\ \A m \in Messages' : \E n \in Messages : n.event = m.event
    BY <1>0, <1>1, BrokerKeeps
  <2>2. ASSUME NEW m \in Messages' PROVE TrueEvent(m.event, payouts')
    BY <1>0, <2>1, EventTrue DEF EventInv
  <2> QED BY <2>1, <2>2 DEF EventInv
<1>2. ASSUME NEW e \in Events, ReceivePayoutWebhook(e) PROVE EventInv'
  <2>1. hand' = hand /\ \A m \in Messages' : m \in Messages \/ m.event = e
    BY <1>0, <1>2, PublishKeeps DEF ReceivePayoutWebhook
  <2>2. TrueEvent(e, payouts)
    BY <1>2 DEF ReceivePayoutWebhook, TrueEvent, Parse, Refused
  <2>3. ASSUME NEW m \in Messages' PROVE TrueEvent(m.event, payouts')
    BY <1>0, <2>1, <2>2, EventTrue DEF EventInv
  <2> QED BY <1>0, <2>1, <2>3 DEF EventInv
<1>3. ASSUME \/ \E r \in Requests : TopUp(r) \/ \E p \in Apis : Request(p, r)
             \/ \E p \in Apis : Serve(p) \/ DebitError(p) \/ CompleteError(p) \/ ApiFault(p)
             \/ \E i \in Refs : Finish(i)
             \/ UNCHANGED vars
      PROVE  BrokerStep
  BY <1>3 DEF TopUp, Request, Serve, Debit, Insufficient, Complete, CreatePayout, PayoutError,
     Reverse, SaveRecord, DebitError, CompleteError, ApiFault, Finish, vars, BrokerStep
<1>4. ASSUME Take \/ \E m \in hand : Handle(m) \/ WorkerFault(m)
      PROVE  BrokerStep
  BY <1>4 DEF Take, Handle, Find, Finalize, Refund, UpdateRecord, Done, WorkerFault, BrokerStep
<1> QED BY <1>1, <1>2, <1>3, <1>4 DEF Next

\* A row that was settled remains so.
LEMMA SettledStays ==
  ASSUME FlowInv, [Next]_vars, NEW i \in Refs, NEW outcome, Settled(rows, i, payouts, outcome)
  PROVE  Settled(rows', i, payouts', outcome)
<1>1. Grown(rows, rows') /\ Later(payouts, payouts')
  BY Onward
<1> QED BY <1>1 DEF Settled, Grown, Later, Refused

\* The worker goes on to the record only when the row is settled.
LEMMA WorkerStep ==
  ASSUME FlowInv, [Next]_vars, NEW m \in hand'
  PROVE  WorkerTrue(m.event, wpc', rows', payouts')
<1> DEFINE Goal == WorkerTrue(m.event, wpc', rows', payouts')
<1>0. /\ \A n \in hand : n.event \in Events /\ n.event.ref \in Refs /\ n \in Messages
                         /\ WorkerTrue(n.event, wpc, rows, payouts)
      /\ \A n \in hand, o \in hand : n = o
      /\ rows \in Seq(Row)
  BY Data, SameRows DEF FlowInv, TypeOK, BrokerTypeOK, Message, Messages, EventInv
<1>1. ASSUME wpc' \in {"find", "ack"} PROVE Goal
  BY <1>1 DEF WorkerTrue
<1>2. ASSUME wpc' = wpc, hand' = hand PROVE Goal
  BY <1>0, <1>2, SettledStays DEF WorkerTrue
<1>3. ASSUME NEW n \in hand, Find(n) PROVE Goal
  <2>1. CASE wpc' \in {"find", "ack"}
    BY <1>1, <2>1
  <2>2. CASE wpc' = "settle" /\ UNCHANGED broker /\ Parse(n.event.status) \in {"SUCCEEDED", "FAILED"}
    <3>1. m = n
      BY <1>0, <2>2 DEF broker
    <3> QED BY <2>2, <3>1 DEF WorkerTrue
  <2> QED BY <1>3, <2>1, <2>2 DEF Find
<1>4. ASSUME NEW n \in hand, Finalize(n) PROVE Goal
  <2>1. CASE wpc' = "find"
    BY <1>1, <2>1
  <2>2. CASE Wallet!FinalizeWithdrawal(n.event.ref) /\ UNCHANGED broker
    <3> DEFINE status == "SUCCESS"
    <3>1. status \in {"FAILED", "SUCCESS"} /\ status # "FAILED"
      OBVIOUS
    <3> HIDE DEF status
    <3>2. SettledAs(rows, rows', n.event.ref, status)
      BY <2>2, <3>1, SettleProps DEF FlowInv
    <3>3. Settled(rows', n.event.ref, payouts', "SUCCEEDED")
      BY <3>2 DEF SettledAs, Settled, status
    <3>4. m = n /\ Parse(n.event.status) = "SUCCEEDED"
      BY <1>0, <1>4, <2>2 DEF broker, Finalize
    <3> QED BY <3>3, <3>4 DEF WorkerTrue
  <2> QED BY <1>4, <2>1, <2>2 DEF Finalize
<1>5. ASSUME NEW n \in hand, Refund(n) PROVE Goal
  <2> DEFINE i == n.event.ref
  <2>1. CASE wpc' = "find"
    BY <1>1, <2>1
  <2>2. CASE /\ i \in DOMAIN rows /\ rows[i].type = "WITHDRAWAL"
             /\ IF Reversible(i) THEN Wallet!ReverseWithdrawal(i) ELSE UNCHANGED ledger
             /\ UNCHANGED broker /\ payouts' = payouts
    <3>1. payouts[i] \in Refused
      BY <1>0, <1>5 DEF FlowInv, EventInv, TrueEvent, Refund
    <3>2. ASSUME Reversible(i) PROVE Settled(rows', i, payouts', "FAILED")
      <4> DEFINE status == "FAILED"
      <4>1. status \in {"FAILED", "SUCCESS"} /\ status = "FAILED"
        OBVIOUS
      <4> HIDE DEF status
      <4>2. SettledAs(rows, rows', i, status)
        BY <2>2, <3>2, <4>1, SettleProps DEF FlowInv
      <4> QED BY <4>2 DEF SettledAs, Settled, status
    <3>3. ASSUME ~Reversible(i) PROVE Settled(rows', i, payouts', "FAILED")
      <4>1. rows' = rows /\ rows[i].status # "PENDING" /\ rows[i].status \in Statuses
        BY <1>0, <2>2, <3>3, RowAt DEF Reversible, Wallet!IsPending, ledger
      <4>2. \/ rows[i].status = "FAILED"
            \/ rows[i].status = "SUCCESS" /\ payouts[i] \in {"SUCCEEDED", "REVERSED"}
        BY <2>2, <4>1 DEF FlowInv, RowTrue, Statuses
      <4> QED BY <2>2, <3>1, <4>1, <4>2 DEF Settled, Refused
    <3>4. Settled(rows', i, payouts', "FAILED")
      BY <3>2, <3>3
    <3>5. m = n /\ Parse(n.event.status) = "FAILED"
      BY <1>0, <1>5, <2>2 DEF broker, Refund
    <3> QED BY <3>4, <3>5 DEF WorkerTrue
  <2> QED BY <1>5, <2>1, <2>2 DEF Refund
<1>6. ASSUME \/ Take \/ \E n \in hand : UpdateRecord(n) \/ Done(n) \/ WorkerFault(n)
      PROVE  wpc' \in {"find", "ack"}
  BY <1>6 DEF Take, UpdateRecord, Done, WorkerFault
<1>7. ASSUME \/ \E r \in Requests : TopUp(r) \/ \E p \in Apis : Request(p, r)
             \/ \E p \in Apis : Serve(p) \/ DebitError(p) \/ CompleteError(p) \/ ApiFault(p)
             \/ \E i \in Refs : Finish(i)
             \/ \E e \in Events : ReceivePayoutWebhook(e)
             \/ UNCHANGED vars
      PROVE  wpc' = wpc /\ hand' = hand
  BY <1>7 DEF TopUp, Request, Serve, Debit, Insufficient, Complete, CreatePayout, PayoutError,
     Reverse, SaveRecord, DebitError, CompleteError, ApiFault, Finish, ReceivePayoutWebhook,
     Publish, vars, broker
<1> QED BY <1>1, <1>2, <1>3, <1>4, <1>5, <1>6, <1>7 DEF Next, Handle

\* A record is final only when the row is settled.
LEMMA RecordStep ==
  ASSUME FlowInv, [Next]_vars, NEW i \in Refs
  PROVE  RecordTrue(records'[i], rows', i, payouts')
<1> DEFINE Goal == RecordTrue(records'[i], rows', i, payouts')
<1>0. records \in [Refs -> {"NONE", "PENDING", "SETTLED", "FAILED"}]
  BY DEF FlowInv, TypeOK
<1>1. ASSUME records'[i] \in {records[i], "PENDING"} PROVE Goal
  BY <1>1, SettledStays DEF FlowInv, RecordTrue
<1>2. ASSUME NEW p \in Apis, SaveRecord(p) PROVE Goal
  BY <1>0, <1>1, <1>2 DEF SaveRecord
<1>3. ASSUME NEW m \in hand, UpdateRecord(m) PROVE Goal
  <2>1. CASE m.event.ref # i
    BY <1>0, <1>1, <1>3, <2>1 DEF UpdateRecord
  <2>2. CASE m.event.ref = i
    <3>1. /\ Parse(m.event.status) \in {"SUCCEEDED", "FAILED"}
          /\ Settled(rows, i, payouts, Parse(m.event.status))
      BY <1>3, <2>2 DEF FlowInv, WorkerTrue, UpdateRecord
    <3>2. Settled(rows', i, payouts', Parse(m.event.status))
      BY <3>1, SettledStays
    <3> QED BY <1>0, <1>3, <2>2, <3>1, <3>2 DEF UpdateRecord, RecordTrue
  <2> QED BY <2>1, <2>2
<1>4. ASSUME \/ \E r \in Requests : TopUp(r) \/ \E p \in Apis : Request(p, r)
             \/ \E p \in Apis : \/ Debit(p) \/ Insufficient(p) \/ Complete(p) \/ CreatePayout(p)
                                \/ PayoutError(p) \/ Reverse(p)
                                \/ DebitError(p) \/ CompleteError(p) \/ ApiFault(p)
             \/ \E j \in Refs : Finish(j)
             \/ \E e \in Events : ReceivePayoutWebhook(e)
             \/ Take \/ UNCHANGED vars
             \/ \E m \in hand : Find(m) \/ Finalize(m) \/ Refund(m) \/ Done(m) \/ WorkerFault(m)
      PROVE  records' = records
  BY <1>4 DEF TopUp, Request, Debit, Insufficient, Complete, CreatePayout, PayoutError, Reverse,
     DebitError, CompleteError, ApiFault, Finish, ReceivePayoutWebhook, Take, Find, Finalize,
     Refund, Done, WorkerFault, vars
<1> QED BY <1>1, <1>2, <1>3, <1>4 DEF Next, Serve, Handle

-------------------------------------------------------------------------------
LEMMA FlowInit == Init => FlowInv
<1> SUFFICES ASSUME Init PROVE FlowInv
  OBVIOUS
<1>1. Wallet!TypeOK
  <2>1. 0 \in Balances
    BY MaxIntAssumption DEF Balances
  <2>2. <<>> \in Seq(Row)
    OBVIOUS
  <2> QED BY <2>1, <2>2, SameRows DEF Init
<1>2. idem \in [Keys -> KeyRow]
  BY DEF Init, NoKeys, KeyRow
<1>3. BrokerTypeOK
  BY LimitsAssumption DEF Init, BrokerInit, BrokerTypeOK
<1>4. TypeOK
  BY <1>1, <1>2, <1>3, PayoutAssumption DEF Init, TypeOK
<1>5. EventInv
  BY DEF Init, BrokerInit, EventInv, Messages
<1>6. \A k \in Keys : KeyTrue(idem[k], k, rows)
  BY DEF Init, NoKeys, KeyTrue
<1>7. DOMAIN rows = {}
  BY DEF Init
<1> QED BY <1>4, <1>5, <1>6, <1>7
        DEF Init, BrokerInit, FlowInv, CallTrue, RecordTrue

LEMMA FlowStep == FlowInv /\ [Next]_vars => FlowInv'
<1> SUFFICES ASSUME FlowInv, [Next]_vars PROVE FlowInv'
  OBVIOUS
<1>1. \A p \in Apis : CallTrue(pc'[p], req'[p], row'[p], rows', idem')
  BY CallStep
<1>2. \A k \in Keys : KeyTrue(idem'[k], k, rows')
  BY KeyStep
<1>3. \A m \in hand' : WorkerTrue(m.event, wpc', rows', payouts')
  BY WorkerStep
<1>4. \A i \in Refs : RecordTrue(records'[i], rows', i, payouts')
  BY RecordStep
<1>5. TypeOK' /\ EventInv'
  BY TypeStep, EventStep
<1>6. \A i \in DOMAIN rows' : RowTrue(rows', i, payouts')
  BY Onward
<1> QED BY <1>1, <1>2, <1>3, <1>4, <1>5, <1>6 DEF FlowInv

LEMMA FlowHolds == Spec => []FlowInv
  BY FlowInit, FlowStep, PTL DEF Spec

\* The tables keep their types, for every set of requests and webhooks.
THEOREM FlowTyped == Spec => []TypeOK
<1>1. FlowInv => TypeOK
  BY DEF FlowInv
<1> QED BY <1>1, FlowHolds, PTL

\* The payment record and the wallet transaction agree on the outcome, but for a
\* payout that Xendit paid and then took back, whatever overtakes, repeats or crashes.
THEOREM RecordsAgree == Spec => []RecordAgreesWithRow
<1>1. FlowInv => RecordAgreesWithRow
  BY DEF FlowInv, RecordTrue, Settled, RecordAgreesWithRow, Status
<1> QED BY <1>1, FlowHolds, PTL

-------------------------------------------------------------------------------
Late(p) == pc[p] \notin {"idle", "debit"}

\* A call that gives up its payout met an amount that is not sent, or an error.
CallSafe(p) ==
  /\ Late(p) => rows[row[p]].type \in {"TOPUP", "WITHDRAWAL"}
  /\ pc[p] = "reverse" => rows[row[p]].amount > MaxPayout \/ row[p] \in erred

PayoutSafe(i) == payouts[i] # "NONE" => i \in DOMAIN rows /\ rows[i].amount <= MaxPayout

FailedSafe(i) ==
  i \in DOMAIN rows /\ rows[i].status = "FAILED" =>
    payouts[i] \in Refused \/ i \in erred \/ rows[i].amount > MaxPayout

SafeInv ==
  /\ \A p \in Apis : CallSafe(p)
  /\ \A i \in Refs : PayoutSafe(i)
  /\ \A i \in Refs : FailedSafe(i)

\* What FlowInv says of a late call's row.
LEMMA LateFacts ==
  ASSUME FlowInv, NEW p \in Apis, Late(p)
  PROVE  /\ row[p] \in DOMAIN rows /\ row[p] \in Refs
         /\ rows[row[p]].amount = req[p].amount /\ req[p].amount \in Int
         /\ pc[p] \in {"complete", "payout", "reverse", "record"}
<1>1. pc[p] \in {"idle", "debit", "complete", "payout", "reverse", "record"}
  BY DEF FlowInv, TypeOK
<1> QED BY <1>1, CallFacts, Data DEF Late

\* A payout that was not asked for is asked for by a call only.
LEMMA StaysUnasked ==
  ASSUME FlowInv, [Next]_vars, NEW i \in Refs, payouts[i] = "NONE",
         ~ \E p \in Apis : Asks(p) /\ row[p] = i
  PROVE  payouts'[i] = "NONE"
<1>0. payouts \in [Refs -> {"NONE", "ACCEPTED"} \union Ends]
  BY DEF FlowInv, TypeOK
<1>1. ASSUME NEW p \in Apis, Asks(p) PROVE payouts'[i] = "NONE"
  BY <1>0, <1>1 DEF Asks, Accept
<1>2. ASSUME NEW j \in Refs, Decides(j) PROVE payouts'[i] = "NONE"
  BY <1>0, <1>2 DEF Decides
<1> QED BY <1>1, <1>2, Moves DEF Enters, Settles, Errs

\* The rows of calls were debited or credited, and a call gives up for a reason.
LEMMA CallSafeStep ==
  ASSUME FlowInv, SafeInv, [Next]_vars, NEW p \in Apis
  PROVE  CallSafe(p)'
<1>0. /\ pc \in [Apis -> {"idle", "debit", "complete", "payout", "reverse", "record"}]
      /\ row \in [Apis -> 0 .. MaxRows]
      /\ Grown(rows, rows') /\ erred \subseteq erred'
  BY Onward DEF FlowInv, TypeOK
<1>1. CASE pc'[p] = pc[p] /\ req'[p] = req[p] /\ row'[p] = row[p]
  <2>1. Late(p) => /\ rows'[row'[p]].type = rows[row[p]].type
                   /\ rows'[row'[p]].amount = rows[row[p]].amount
    BY <1>0, <1>1, LateFacts DEF Grown
  <2>2. CallSafe(p) /\ (pc[p] = "reverse" => Late(p))
    BY DEF SafeInv, Late
  <2> QED BY <1>0, <1>1, <2>1, <2>2 DEF CallSafe, Late
<1>2. CASE pc'[p] = "idle"
  BY <1>2 DEF CallSafe, Late
<1>3. ASSUME NEW r \in Requests, Request(p, r) PROVE CallSafe(p)'
  <2>1. CASE pc'[p] = "debit"
    BY <2>1 DEF CallSafe, Late
  <2>2. CASE /\ Replayable(r.key, Hash(r.op, 0, r.amount))
             /\ pc' = [pc EXCEPT ![p] = "payout"] /\ row' = [row EXCEPT ![p] = idem[r.key].resp]
    <3>1. KeyTrue(idem[r.key], r.key, rows) /\ idem[r.key].status = "COMPLETED"
      BY <2>2, Data DEF FlowInv, Replayable
    <3>2. PICK i : i = idem[r.key].resp /\ i \in DOMAIN rows
      BY <3>1 DEF KeyTrue, Names
    <3>3. rows[i].type \in {"TOPUP", "WITHDRAWAL"}
      BY <3>1, <3>2, Data DEF KeyTrue
    <3>4. rows'[i].type = rows[i].type /\ row'[p] = i /\ pc'[p] = "payout"
      BY <1>0, <2>2, <3>2 DEF Grown
    <3> QED BY <3>3, <3>4 DEF CallSafe
  <2> QED BY <1>0, <1>3, <2>1, <2>2 DEF Request
<1>4. CASE Debit(p)
  <2>1. row'[p] = Len(rows) + 1 /\ pc'[p] = "complete"
    BY <1>0, <1>4 DEF Debit
  <2> QED BY <1>4, <2>1, DebitAdds DEF Added, CallSafe
<1>5. CASE Advances(p)
  <2>1. /\ Late(p) /\ row'[p] = row[p]
        /\ pc'[p] = "reverse" => TooLarge(p) \/ row[p] \in erred'
    BY <1>5 DEF Advances, Late
  <2>2. /\ rows'[row[p]].type = rows[row[p]].type
        /\ rows'[row[p]].amount = rows[row[p]].amount /\ rows[row[p]].amount = req[p].amount
    BY <1>0, <2>1, LateFacts DEF Grown
  <2> QED BY <2>1, <2>2 DEF SafeInv, CallSafe, TooLarge
<1> QED BY <1>1, <1>2, <1>3, <1>4, <1>5, CallMoves

LEMMA SafeStep ==
  ASSUME FlowInv, SafeInv, [Next]_vars
  PROVE  SafeInv'
<1>0. Grown(rows, rows') /\ Later(payouts, payouts') /\ erred \subseteq erred'
  BY Onward
<1>1. ASSUME NEW i \in Refs PROVE PayoutSafe(i)'
  <2>1. ASSUME payouts[i] # "NONE" PROVE PayoutSafe(i)'
    BY <1>0, <2>1 DEF SafeInv, PayoutSafe, Grown
  <2>2. ASSUME NEW p \in Apis, Asks(p), row[p] = i PROVE PayoutSafe(i)'
    <3>1. Late(p)
      BY <2>2 DEF Asks, Late
    <3>2. i \in DOMAIN rows /\ rows[i].amount <= MaxPayout
      BY <2>2, <3>1, LateFacts, PayoutAssumption DEF Asks, TooLarge
    <3> QED BY <2>2, <3>2 DEF Asks, PayoutSafe
  <2> QED BY <2>1, <2>2, StaysUnasked DEF PayoutSafe
<1>2. ASSUME NEW i \in Refs PROVE FailedSafe(i)'
  <2> SUFFICES ASSUME i \in DOMAIN rows', rows'[i].status = "FAILED"
               PROVE  payouts'[i] \in Refused \/ i \in erred' \/ rows'[i].amount > MaxPayout
    BY DEF FailedSafe
  <2>1. i \in DOMAIN rows /\ rows'[i].amount = rows[i].amount
    BY <1>0, Onward DEF Grown
  <2>2. payouts[i] \in Refused => payouts'[i] \in Refused
    BY <1>0 DEF Later
  <2>3. CASE rows[i].status = "FAILED"
    BY <1>0, <2>1, <2>2, <2>3 DEF SafeInv, FailedSafe
  <2>4. CASE rows[i].status # "FAILED"
    <3>1. Settles(i, "FAILED")
      BY <2>1, <2>4, Moves DEF Enters, Added, Settles, SettledAs, Asks, Errs, Decides
    <3>2. payouts[i] \in Refused \/ i \in erred \/ rows[i].amount > MaxPayout
      BY <3>1 DEF Settles, Reason, SafeInv, CallSafe
    <3> QED BY <1>0, <2>1, <2>2, <3>2
  <2> QED BY <2>3, <2>4
<1>3. \A p \in Apis : CallSafe(p)'
  BY CallSafeStep
<1> QED BY <1>1, <1>2, <1>3 DEF SafeInv

LEMMA SafeInit == Init => SafeInv
  BY DEF Init, SafeInv, CallSafe, Late, PayoutSafe, FailedSafe

LEMMA SafeHolds == Spec => [](FlowInv /\ SafeInv)
<1>1. FlowInv /\ SafeInv /\ [Next]_vars => SafeInv'
  BY SafeStep
<1> QED BY <1>1, SafeInit, FlowHolds, PTL DEF Spec

\* A user is both paid and refunded only behind a CreatePayout that was sent and
\* returned an error, whatever is repeated, overtaken or redelivered, and whoever dies.
THEOREM PaidOrRefunded == Spec => []OnlyErrorsPayTwice
<1>1. FlowInv /\ SafeInv => OnlyErrorsPayTwice
  <2> SUFFICES ASSUME FlowInv, SafeInv, NEW i \in Refs,
                      payouts[i] \in {"ACCEPTED", "SUCCEEDED"}, Status(i) = "FAILED"
               PROVE  i \in erred
    BY DEF OnlyErrorsPayTwice
  <2>1. i \in DOMAIN rows /\ rows[i].status = "FAILED"
    BY DEF Status
  <2>2. rows[i].amount <= MaxPayout /\ rows[i].amount \in Int
    BY <2>1, SameRows, RowAt, Data DEF FlowInv, TypeOK, SafeInv, PayoutSafe
  <2> QED BY <2>1, <2>2, PayoutAssumption DEF SafeInv, FailedSafe, Refused
<1> QED BY <1>1, SafeHolds, PTL

-------------------------------------------------------------------------------
\* Withdrawal's view of row i stays, or moves as the step says.
LEMMA ViewType ==
  ASSUME FlowInv, NEW i \in Refs
  PROVE  /\ i \in DOMAIN rows => rows[i].status \in {"PENDING", "SUCCESS", "FAILED"}
         /\ payouts[i] \in {"NONE", "ACCEPTED", "SUCCEEDED", "FAILED", "CANCELLED",
                            "REVERSED", "OTHER"}
<1>1. rows \in Seq(Row)
  BY SameRows DEF FlowInv, TypeOK
<1> QED BY <1>1, RowAt, PayoutAssumption DEF FlowInv, TypeOK, Statuses

LEMMA ImplementsStep ==
  ASSUME FlowInv, SafeInv, [Next]_vars
  PROVE  [Promise!Next]_Promise!vars
<1>0. payouts \in [Refs -> {"NONE", "ACCEPTED"} \union Ends]
  BY DEF FlowInv, TypeOK
<1>a. ASSUME payouts' = payouts PROVE \A i \in Refs : BankOf(i)' = BankOf(i)
  BY <1>a DEF BankOf
<1>b. ASSUME rows' = rows PROVE \A i \in Refs : MoneyOf(i)' = MoneyOf(i)
  BY <1>b DEF MoneyOf
<1>c. ASSUME \A i \in Refs : MoneyOf(i)' = MoneyOf(i) /\ BankOf(i)' = BankOf(i),
             erred' = erred
      PROVE  UNCHANGED Promise!vars
  BY <1>c DEF Promise!vars
<1>1. CASE UNCHANGED <<rows, payouts, erred>>
  BY <1>1, <1>a, <1>b, <1>c
<1>e. ASSUME NEW k \in Refs, k \in DOMAIN rows, rows[k].type \in {"TOPUP", "WITHDRAWAL"},
             UNCHANGED <<rows, payouts>>, erred' = erred \union {k}
      PROVE  Promise!Next
  <2>1. MoneyOf(k) # "none"
    BY <1>e, ViewType DEF MoneyOf
  <2>2. Promise!Err(k)
    BY <1>a, <1>b, <1>e, <2>1 DEF Promise!Err
  <2> QED BY <2>2 DEF Promise!Next
<1>2. CASE Enters
  <2>1. PICK k \in Refs : k = Len(rows) + 1
    BY <1>2 DEF Enters
  <2>0. PICK type \in {"TOPUP", "WITHDRAWAL"} : \E a, key : Added(rows, rows', type, a, key)
    BY <1>2 DEF Enters
  <2>2. PICK a, key : Added(rows, rows', type, a, key)
    BY <2>0
  <2>3. k \notin DOMAIN rows /\ payouts[k] = "NONE" /\ payouts' = payouts /\ erred' = erred
    BY <1>2, <2>1, <2>2 DEF Added, Enters, SafeInv, PayoutSafe
  <2>4. ASSUME NEW i \in Refs, i # k PROVE MoneyOf(i)' = MoneyOf(i)
    <3>1. (i \in DOMAIN rows' <=> i \in DOMAIN rows) /\ (i \in DOMAIN rows => rows'[i] = rows[i])
      BY <2>1, <2>2, <2>4 DEF Added
    <3> QED BY <3>1, ViewType DEF MoneyOf
  <2>5. MoneyOf(k) = "none" /\ BankOf(k) = "none"
    BY <2>3 DEF MoneyOf, BankOf
  <2>6. CASE type = "TOPUP"
    <3>1. MoneyOf(k)' = "added"
      BY <2>1, <2>2, <2>6 DEF Added, MoneyOf
    <3>2. Promise!Add(k)
      BY <1>a, <2>3, <2>4, <2>5, <3>1 DEF Promise!Add, Promise!MoneyMoves
    <3> QED BY <3>2 DEF Promise!Next
  <2>7. CASE type = "WITHDRAWAL"
    <3>1. MoneyOf(k)' = "taken"
      BY <2>1, <2>2, <2>7 DEF Added, MoneyOf
    <3>2. Promise!Take(k)
      BY <1>a, <2>3, <2>4, <2>5, <3>1 DEF Promise!Take, Promise!MoneyMoves
    <3> QED BY <3>2 DEF Promise!Next
  <2> QED BY <2>6, <2>7
<1>3. ASSUME NEW k \in Refs, NEW status \in {"FAILED", "SUCCESS"}, Settles(k, status)
      PROVE  Promise!Next
  <2>1. /\ SettledAs(rows, rows', k, status) /\ payouts' = payouts /\ erred' = erred
        /\ rows[k].type = "WITHDRAWAL" /\ Reason(k, status)
    BY <1>3 DEF Settles
  <2>2. ASSUME NEW i \in Refs, i # k PROVE MoneyOf(i)' = MoneyOf(i)
    <3>1. CASE i \in DOMAIN rows
      <4>1. i \in DOMAIN rows' /\ rows'[i] = rows[i]
        BY <2>1, <2>2, <3>1 DEF SettledAs
      <4> QED BY <3>1, <4>1, ViewType DEF MoneyOf
    <3>2. CASE i \notin DOMAIN rows
      <4>1. i \in DOMAIN rows' => rows'[i].type = "WITHDRAWAL_REVERT"
        BY <2>1, <3>2 DEF SettledAs
      <4> QED BY <3>2, <4>1 DEF MoneyOf
    <3> QED BY <3>1, <3>2
  <2>3. MoneyOf(k) = "taken"
    BY <2>1 DEF SettledAs, MoneyOf
  <2>4. CASE status = "SUCCESS"
    <3>1. MoneyOf(k)' = "paid"
      BY <2>1, <2>4 DEF SettledAs, MoneyOf
    <3>2. BankOf(k) \in {"sent", "reversed"}
      BY <2>1, <2>4 DEF Reason, BankOf
    <3>3. Promise!Settle(k)
      BY <1>a, <2>1, <2>2, <2>3, <3>1, <3>2 DEF Promise!Settle, Promise!MoneyMoves
    <3> QED BY <3>3 DEF Promise!Next
  <2>5. CASE status = "FAILED"
    <3>1. MoneyOf(k)' = "returned"
      BY <2>1, <2>5 DEF SettledAs, MoneyOf
    <3>2. \/ payouts[k] \in Refused \/ k \in erred
          \/ \E p \in Apis : pc[p] = "reverse" /\ row[p] = k /\ rows[k].amount > MaxPayout
      BY <2>1, <2>5 DEF Reason, SafeInv, CallSafe
    <3>3. payouts[k] \in Refused \/ k \in erred \/ payouts[k] = "NONE"
      <4>1. ASSUME NEW p \in Apis, pc[p] = "reverse", row[p] = k, rows[k].amount > MaxPayout
            PROVE  payouts[k] = "NONE"
        BY <4>1, LateFacts, PayoutAssumption DEF Late, SafeInv, PayoutSafe
      <4> QED BY <3>2, <4>1
    <3>4. BankOf(k) \in {"none", "refused", "reversed"} \/ k \in erred
      BY <3>3 DEF BankOf, Refused
    <3>5. Promise!GiveBack(k) \/ Promise!GiveBackAnyway(k)
      BY <1>a, <2>1, <2>2, <2>3, <3>1, <3>4
         DEF Promise!GiveBack, Promise!GiveBackAnyway, Promise!MoneyMoves
    <3> QED BY <3>5 DEF Promise!Next
  <2> QED BY <2>4, <2>5
<1>4. ASSUME NEW p \in Apis, Asks(p) PROVE [Promise!Next]_Promise!vars
  <2>1. Late(p) /\ pc[p] = "payout" /\ ~TooLarge(p) /\ rows' = rows
    BY <1>4 DEF Asks, Late
  <2>2. PICK k \in Refs : k = row[p] /\ k \in DOMAIN rows /\ rows[k].amount = req[p].amount
                          /\ rows[k].type \in {"TOPUP", "WITHDRAWAL"}
                          /\ req[p].amount \in Int
    BY <2>1, LateFacts DEF SafeInv, CallSafe
  <2>3. payouts' = [payouts EXCEPT ![k] = IF payouts[k] = "NONE" THEN "ACCEPTED" ELSE payouts[k]]
    BY <1>4, <2>2 DEF Asks, Accept
  <2>e. UNCHANGED erred \/ erred' = erred \union {k}
    BY <1>4, <2>2 DEF Asks
  <2>4. CASE payouts[k] # "NONE"
    <3>1. payouts' = payouts
      BY <1>0, <2>3, <2>4
    <3> QED BY <1>1, <1>e, <2>1, <2>2, <2>e, <3>1
  <2>5. CASE payouts[k] = "NONE"
    <3>1. rows[k].status = "FAILED" => k \in erred
      BY <2>1, <2>2, <2>5, PayoutAssumption DEF SafeInv, FailedSafe, Refused, TooLarge
    <3>2. rows[k].type = "WITHDRAWAL" => rows[k].status # "SUCCESS"
      BY <2>2, <2>5 DEF FlowInv, RowTrue
    <3>3. MoneyOf(k) \in {"taken", "added"} \/ (MoneyOf(k) = "returned" /\ k \in erred)
      BY <2>2, <3>1, <3>2, ViewType DEF MoneyOf
    <3>4. BankOf(k) = "none" /\ BankOf(k)' = "asked"
      BY <1>0, <2>3, <2>5 DEF BankOf
    <3>5. \A i \in Refs : i # k => BankOf(i)' = BankOf(i)
      BY <1>0, <2>3 DEF BankOf
    <3>6. Promise!Ask(k)
      BY <1>b, <2>1, <2>e, <3>4, <3>5 DEF Promise!Ask, Promise!BankMoves
    <3>7. Promise!AskFirst(k) \/ Promise!AskAgain(k) \/ Promise!AskForTopUp(k)
      BY <3>3, <3>6 DEF Promise!AskFirst, Promise!AskAgain, Promise!AskForTopUp
    <3> QED BY <3>7 DEF Promise!Next
  <2> QED BY <2>4, <2>5
<1>5. ASSUME NEW k \in Refs, Decides(k) PROVE [Promise!Next]_Promise!vars
  <2>1. PICK s \in Ends : /\ payouts[k] = IF s = "REVERSED" THEN "SUCCEEDED" ELSE "ACCEPTED"
                          /\ payouts' = [payouts EXCEPT ![k] = s]
    BY <1>5 DEF Decides
  <2>2. /\ rows' = rows /\ erred' = erred
        /\ s \in {"SUCCEEDED", "FAILED", "CANCELLED", "REVERSED", "OTHER"}
    BY <1>5, PayoutAssumption DEF Decides
  <2>3. \A i \in Refs : i # k => BankOf(i)' = BankOf(i)
    BY <1>0, <2>1 DEF BankOf
  <2>4. \/ BankOf(k) = "asked" /\ BankOf(k)' \in {"sent", "refused", "asked"}
        \/ BankOf(k) = "sent" /\ BankOf(k)' = "reversed"
    BY <1>0, <2>1, <2>2 DEF BankOf
  <2>5. CASE BankOf(k)' = BankOf(k)
    BY <1>b, <1>c, <2>2, <2>3, <2>5
  <2>6. CASE BankOf(k)' # BankOf(k)
    <3>1. Promise!Decide(k)
      BY <1>b, <2>2, <2>3, <2>4, <2>6 DEF Promise!Decide, Promise!BankMoves
    <3> QED BY <3>1 DEF Promise!Next
  <2> QED BY <2>5, <2>6
<1>6. ASSUME NEW p \in Apis, Errs(p) PROVE [Promise!Next]_Promise!vars
  <2>1. Late(p) /\ UNCHANGED <<rows, payouts>> /\ erred' = erred \union {row[p]}
    BY <1>6 DEF Errs, Late
  <2>2. PICK k \in Refs : k = row[p] /\ k \in DOMAIN rows
                          /\ rows[k].type \in {"TOPUP", "WITHDRAWAL"}
    BY <2>1, LateFacts DEF SafeInv, CallSafe
  <2> QED BY <1>e, <2>1, <2>2
<1> QED BY <1>1, <1>2, <1>3, <1>4, <1>5, <1>6, Moves

\* Withdrawals, payouts, webhooks, redeliveries and errors implement Withdrawal: money
\* is taken before the payout, gone when it is paid, and back only when the bank was
\* not asked, does not pay, or answered with an error.
THEOREM ImplementsWithdrawal == Spec => RefinesWithdrawal
<1>1. Init => Promise!Init
  BY DEF Init, Promise!Init, MoneyOf, BankOf
<1>2. FlowInv /\ SafeInv /\ [Next]_vars => [Promise!Next]_Promise!vars
  BY ImplementsStep
<1> QED BY <1>1, <1>2, SafeHolds, PTL
        DEF Spec, RefinesWithdrawal, Promise!Spec

===============================================================================
