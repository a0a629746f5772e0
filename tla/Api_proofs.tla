------------------------------- MODULE Api_proofs ------------------------------
(***************************************************************************)
(* For every set of calls, users and goroutines, what the API answers is   *)
(* true: also when users and routes share keys, and when a COMMIT's reply  *)
(* is lost.                                                                *)
(***************************************************************************)
EXTENDS Api, LedgerRows_proofs

\* Rows stay as they are, but for a pending one that is settled; orders stay.
Kept(rs, new) ==
  \A i \in DOMAIN rs :
    /\ i \in DOMAIN new
    /\ new[i].type = rs[i].type /\ new[i].amount = rs[i].amount
    /\ new[i].key = rs[i].key /\ new[i].wallet = rs[i].wallet
    /\ new[i].status = rs[i].status \/ rs[i].status = "PENDING"

\* A request a client made of its own money, with a key.
Keyed(r) ==
  /\ r \in Requests /\ r.route \in MoneyRoutes
  /\ r.key \in Keys /\ r.user \in Wallets /\ r.to \in Wallets /\ r.amount \in Amounts

\* The key service takes one for the other.
Twin(s, r) == Keyed(s) /\ s.key = r.key /\ HashOf(s) = HashOf(r)

\* What the order of a checkout holds.
OrderOf(r) == [key |-> r.key, user |-> r.user, amount |-> r.amount]

\* Done, of any tables.
Made(r, i, rs, os) ==
  IF r.route = "CHECKOUT"
  THEN i \in DOMAIN os /\ os[i] = OrderOf(r)
  ELSE /\ i \in DOMAIN rs
       /\ rs[i].type = (IF r.route = "TRANSFER" THEN "TRANSFER_OUT" ELSE r.route)
       /\ rs[i].key = r.key /\ rs[i].wallet = r.user /\ rs[i].amount = r.amount
       /\ r.route = "TRANSFER" => i + 1 \in DOMAIN rs /\ rs[i + 1].wallet = r.to

\* The id that a call for r reads where i was stored for s.
Read(s, r, i) == IF (s.route = "CHECKOUT") = (r.route = "CHECKOUT") THEN i ELSE 0

\* What a 201 for request r that names n promises.
Receipt(r, n, rs, os) ==
  \E s \in Requests, i \in DOMAIN rs \union DOMAIN os :
    Twin(s, r) /\ Made(s, i, rs, os) /\ n = Read(s, r, i)

\* The key of a request is claimed with its payload.
Claimed(r, keys) == keys[r.key].status # "NONE" /\ keys[r.key].hash = HashOf(r)

\* Row i was written for the request.
From(r, rs, i) ==
  /\ Keyed(r) /\ rs[i].key = r.key /\ rs[i].amount = r.amount
  /\ \/ /\ r.route \in {"TOPUP", "WITHDRAWAL"}
        /\ rs[i].type = r.route /\ rs[i].wallet = r.user
     \/ /\ r.route = "TRANSFER" /\ r.to # r.user
        /\ rs[i].type = "TRANSFER_OUT" /\ rs[i].wallet = r.user
        /\ i + 1 \in DOMAIN rs /\ rs[i + 1].wallet = r.to
     \/ /\ r.route = "TRANSFER" /\ r.to # r.user
        /\ rs[i].type = "TRANSFER_IN" /\ rs[i].wallet = r.to

RowTrue(rs, i, keys) ==
  rs[i].key # NoKey => \E r \in Requests : From(r, rs, i) /\ Claimed(r, keys)

OrderTrue(order, keys) ==
  \E r \in Requests : /\ Keyed(r) /\ r.route = "CHECKOUT" /\ Claimed(r, keys)
                      /\ order = OrderOf(r)

Unwritten(k, rs, os) ==
  (\A i \in DOMAIN rs : rs[i].key # k) /\ (\A i \in DOMAIN os : os[i].key # k)

\* A key stands for rows or for an order, not for both.
OneKind(k, rs, os) ==
  (\A i \in DOMAIN rs : rs[i].key # k) \/ (\A i \in DOMAIN os : os[i].key # k)

\* The key has written nothing and no call will write with it.
Dead(k) ==
  /\ idem[k].status # "NONE" /\ Unwritten(k, rows, orders)
  /\ \A p \in Procs : pc[p] = "commit" => req[p].key # k

KeyTrue(k) ==
  /\ idem[k].status = "NONE" => Unwritten(k, rows, orders)
  /\ idem[k].status = "FAILED" => Unwritten(k, rows, orders) \/ k \in lost
  /\ idem[k].status = "COMPLETED" =>
       \E r \in Requests : /\ Keyed(r) /\ r.key = k /\ idem[k].hash = HashOf(r)
                           /\ Made(r, idem[k].resp, rows, orders)
  /\ OneKind(k, rows, orders)

-------------------------------------------------------------------------------
\* A call in progress: where it is, what it asks for, what it has done.
Serving == {"find", "claim", "commit", "complete", "INSUFFICIENT_BALANCE", "ERROR", "payout"}
Owning == {"commit", "complete", "INSUFFICIENT_BALANCE", "ERROR"}

CallTrue(p) ==
  /\ pc[p] \in Serving => Keyed(req[p])
  /\ pc[p] = "find" => req[p].route # "CHECKOUT"
  /\ pc[p] = "INSUFFICIENT_BALANCE" => req[p].route \in {"WITHDRAWAL", "TRANSFER"}
  /\ pc[p] = "payout" => req[p].route = "WITHDRAWAL"
  /\ pc[p] \in {"wallet", "create", "show"} =>
       req[p].route = "DETAIL" /\ req[p].id \in DOMAIN rows
  /\ pc[p] = "publish" =>
       req[p] \in Requests /\ req[p].route \in WebhookRoutes /\ ~Unsigned(req[p])
  /\ pc[p] = "complete" => Made(req[p], row[p], rows, orders)
  /\ pc[p] = "payout" => Receipt(req[p], row[p], rows, orders)
  /\ pc[p] \in Owning =>
       idem[req[p].key].status = "PROCESSING" /\ idem[req[p].key].hash = HashOf(req[p])
  /\ pc[p] \in Owning \ {"complete"} =>
       \/ Unwritten(req[p].key, rows, orders)
       \/ pc[p] = "ERROR" /\ req[p].key \in lost

Apart(p, q) ==
  pc[p] \in Owning /\ pc[q] \in Owning /\ req[p].key = req[q].key => p = q

\* An answer: its request, status, code and row are what the code may put together.
Right(a) ==
  /\ a.http[1] \in Nat
  /\ a.http[1] < 400 =>
       \/ a = NoReply
       \/ a.http[1] = 201 /\ Keyed(a.req)
       \/ a.http[1] = 200 /\ a.req.route \in {"DETAIL"} \union WebhookRoutes
  /\ a.http[1] >= 400 => /\ a.http \in Documented(a.req.route) \union Undocumented
                         /\ a.row = 0
  /\ a.http[1] = 404 /\ a.req.route = "DETAIL" => a.http[2] = "TRANSACTION_NOT_FOUND"
  /\ a.http[2] \in Final => Keyed(a.req)

AnswerTrue(p) ==
  LET a == reply[p]
      r == reply[p].req
  IN  /\ a.http[1] = 201 => Receipt(r, a.row, rows, orders)
      /\ a.http[1] = 200 /\ r.route \in WebhookRoutes => a.row = 0
      /\ r.route = "DETAIL" /\ a.http[1] = 200 =>
           /\ a.row = r.id /\ r.id \in DOMAIN rows /\ rows[r.id].wallet = r.user
           /\ a.status \in {"SUCCESS", "FAILED"} => rows[r.id].status = a.status
      /\ r.route = "DETAIL" /\ a.http[1] = 404 =>
           r.id \in DOMAIN rows /\ rows[r.id].wallet # r.user
      /\ a.http[2] = "INSUFFICIENT_BALANCE" => Dead(r.key)
      /\ a.http[2] = "PREVIOUS_ATTEMPT_FAILED" => Dead(r.key) \/ r.key \in lost
      /\ a.http[2] = "IDEMPOTENCY_KEY_CONFLICT" =>
           idem[r.key].status # "NONE" /\ idem[r.key].hash # HashOf(r)
      /\ a.http[2] = "SELF_TRANSFER_NOT_ALLOWED" => r.route = "TRANSFER" /\ r.to = r.user

ApiInv ==
  /\ TypeOK
  /\ \A p \in Procs : CallTrue(p)
  /\ \A p, q \in Procs : Apart(p, q)
  /\ \A k \in Keys : KeyTrue(k)
  /\ \A i \in DOMAIN rows : RowTrue(rows, i, idem)
  /\ \A i \in DOMAIN orders : OrderTrue(orders[i], idem)
  /\ \A p \in Procs : Right(reply[p]) /\ AnswerTrue(p)

-------------------------------------------------------------------------------
\* Ledger computes rows and balances as LedgerRows does here.
LEMMA SameRows ==
  /\ Wallet!TypeOK <=> /\ wallets \subseteq Wallets
                       /\ balance \in [Wallets -> Balances]
                       /\ rows \in Seq(Row)
  /\ Wallet!TypeOK' <=> /\ wallets' \subseteq Wallets
                        /\ balance' \in [Wallets -> Balances]
                        /\ rows' \in Seq(Row)
  /\ \A x : Wallet!Wrap(x) = Wrap(x)
  /\ \A rs, i, s : Wallet!WithStatus(rs, i, s) = WithStatus(rs, i, s)
  /\ \A type, w, a, b, k, o : Wallet!Entry(type, w, a, b, k, o) = Entry(type, w, a, b, k, o)
<1>1. \A x : Wallet!Wrap(x) = Wrap(x)
  BY DEF Wallet!Wrap, Wrap
<1>2. \A type, b, a : Wallet!After(type, b, a) = After(type, b, a)
  BY <1>1 DEF Wallet!After, After, Wallet!CreditTypes, CreditTypes
<1>3. \A type, w, a, b, k, o : Wallet!Entry(type, w, a, b, k, o) = Entry(type, w, a, b, k, o)
  BY <1>2 DEF Wallet!Entry, Entry
<1>4. Wallet!Balances = Balances /\ Wallet!Amounts = Amounts /\ Wallet!Statuses = Statuses
      /\ Wallet!CreditTypes = CreditTypes /\ Wallet!DebitTypes = DebitTypes
  BY DEF Wallet!Balances, Balances, Wallet!Amounts, Amounts, Wallet!Statuses, Statuses,
         Wallet!CreditTypes, CreditTypes, Wallet!DebitTypes, DebitTypes
<1>5. Wallet!Row = Row
  BY <1>4 DEF Wallet!Row, Row
<1>6. \A rs, i, s : Wallet!WithStatus(rs, i, s) = WithStatus(rs, i, s)
  BY DEF Wallet!WithStatus, WithStatus
<1> QED BY <1>1, <1>3, <1>4, <1>5, <1>6 DEF Wallet!TypeOK

\* What requests may be.
LEMMA Data ==
  /\ \A r \in Requests : r \in Request /\ r.user \in Wallets /\ r.to \in Wallets
                         /\ r.amount \in Int /\ r.amount <= MaxInt
                         /\ r.key \in Keys \union {NoKey}
                         /\ (r.route # "TRANSFER" => r.to = r.user)
  /\ \A r \in Requests : r.amount > 0 => r.amount \in Amounts
  /\ \A r : Keyed(r) => r \in Request /\ r # NoReq /\ HashOf(r) \in (Wallets \union {0}) \X Int
                        /\ HashOf(r)[2] = r.amount /\ r.key # NoKey
  /\ NoReq.route = "NONE"
<1>1. \A r \in Requests : r \in Request /\ r.user \in Wallets /\ r.to \in Wallets
                         /\ r.amount \in Int /\ r.amount <= MaxInt
                         /\ r.key \in Keys \union {NoKey}
                         /\ (r.route # "TRANSFER" => r.to = r.user)
  <2>1. \A r \in Requests : r \in Request /\ r.amount <= MaxInt
                           /\ (r.route # "TRANSFER" => r.to = r.user)
    BY ApiAssumption
  <2>2. \A r \in Request : /\ r.user \in Wallets /\ r.to \in Wallets /\ r.amount \in Int
                           /\ r.key \in Keys \union {NoKey}
    BY DEF Request
  <2> QED BY <2>1, <2>2
<1>2. \A r \in Requests : r.amount > 0 => r.amount \in Amounts
  BY <1>1, MaxIntAssumption DEF Amounts
<1>3. \A r : Keyed(r) => r \in Request /\ r # NoReq /\ r.amount \in Int /\ r.key # NoKey
  BY <1>1, KeysAssumption DEF Keyed, NoReq, MoneyRoutes
<1>4. \A r : Keyed(r) => HashOf(r) \in (Wallets \union {0}) \X Int /\ HashOf(r)[2] = r.amount
  BY <1>3 DEF Keyed, HashOf, Hash
<1> QED BY <1>1, <1>2, <1>3, <1>4 DEF NoReq

-------------------------------------------------------------------------------
\* One row is added.
LEMMA AppendKeeps ==
  ASSUME NEW rs \in Seq(Row), NEW e \in Row
  PROVE  /\ Append(rs, e) \in Seq(Row) /\ Kept(rs, Append(rs, e))
         /\ Len(rs) \in Nat /\ Len(rs) + 1 \notin DOMAIN rs /\ Len(Append(rs, e)) = Len(rs) + 1
         /\ DOMAIN Append(rs, e) = DOMAIN rs \union {Len(rs) + 1}
         /\ Append(rs, e)[Len(rs) + 1] = e
         /\ \A i \in DOMAIN rs : Append(rs, e)[i] = rs[i]
<1>1. Len(rs) + 1 \notin DOMAIN rs
  BY LenProperties
<1>2. Kept(rs, Append(rs, e))
  BY AppendProps DEF Kept
<1> QED BY <1>1, <1>2, AppendProps

OrderRow == [key : Keys, user : Wallets, amount : Amounts]

NewId(r) == IF r.route = "CHECKOUT" THEN Len(orders) + 1 ELSE Len(rows) + 1

\* What a call's transaction writes is what the call asked for.
LEMMA PerformAdds ==
  ASSUME ApiInv, NEW p \in Procs, pc[p] = "commit", Perform(req[p])
  PROVE  /\ Wallet!TypeOK' /\ Kept(rows, rows')
         /\ orders' \in Seq(OrderRow)
         /\ \A i \in DOMAIN rows' \ DOMAIN rows : From(req[p], rows', i)
         /\ \A i \in DOMAIN orders : i \in DOMAIN orders' /\ orders'[i] = orders[i]
         /\ \A i \in DOMAIN orders' \ DOMAIN orders :
              req[p].route = "CHECKOUT" /\ orders'[i] = OrderOf(req[p])
         /\ Made(req[p], NewId(req[p]), rows', orders') /\ NewId(req[p]) \in Nat
<1> DEFINE r == req[p]
           b == balance[r.user]
<1>1. /\ wallets \subseteq Wallets /\ balance \in [Wallets -> Balances] /\ rows \in Seq(Row)
      /\ orders \in Seq(OrderRow)
  BY SameRows DEF ApiInv, TypeOK, OrderRow
<1>2. Keyed(r) /\ r.user \in Wallets /\ r.to \in Wallets /\ r.amount \in Amounts /\ r.key \in Keys
  BY DEF ApiInv, CallTrue, Serving, Keyed
<1>3. CASE r.route = "CHECKOUT"
  <2> DEFINE o == OrderOf(r)
  <2>1. /\ orders' = Append(orders, o) /\ NewId(r) = Len(orders) + 1
        /\ rows' = rows /\ wallets' = wallets /\ balance' = balance
    BY <1>1, <1>3 DEF Perform, ledger, NewId, OrderOf
  <2>2. o \in OrderRow
    BY <1>2 DEF OrderRow, OrderOf
  <2> HIDE DEF o
  <2>3. /\ orders' \in Seq(OrderRow) /\ Len(orders) \in Nat
        /\ DOMAIN orders' = DOMAIN orders \union {Len(orders) + 1}
        /\ \A i \in DOMAIN orders : orders'[i] = orders[i]
        /\ orders'[Len(orders) + 1] = o
    BY <1>1, <2>1, <2>2, AppendProperties, LenProperties
  <2>4. Wallet!TypeOK' /\ Kept(rows, rows')
    BY <1>1, <2>1, SameRows DEF Kept
  <2> QED BY <1>3, <2>1, <2>3, <2>4 DEF Made, o
<1>4. CASE r.route # "CHECKOUT"
  <2> DEFINE n == Len(rows) + 1
  <2>0. /\ orders' = orders /\ NewId(r) = n
        /\ \/ r.route = "TOPUP" /\ Wallet!Deposit(r.user, r.amount, r.key)
           \/ r.route = "WITHDRAWAL" /\ Wallet!Debit(r.user, r.amount, r.key)
           \/ r.route = "TRANSFER" /\ Wallet!Move(r.user, r.to, r.amount, r.key)
    BY <1>1, <1>4 DEF Perform, NewId
  <2>1. ASSUME r.route \in {"TOPUP", "WITHDRAWAL"}
        PROVE  /\ Wallet!TypeOK' /\ Kept(rows, rows') /\ n \in Nat
               /\ \A i \in DOMAIN rows' \ DOMAIN rows : From(req[p], rows', i)
               /\ Made(req[p], n, rows', orders')
    <3> DEFINE e == Entry(r.route, r.user, r.amount, b, r.key, 0)
    <3>1. /\ rows' = Append(rows, e) /\ wallets' = wallets
          /\ r.route = "WITHDRAWAL" => b >= r.amount
          /\ balance' = [balance EXCEPT ![r.user] =
               IF r.route = "TOPUP" THEN Wrap(b + r.amount) ELSE b - r.amount]
      BY <2>0, <2>1, SameRows DEF Wallet!Deposit, Wallet!Debit
    <3>2. e \in Row
      BY <1>1, <1>2, <2>1, <3>1, EntryType DEF CreditTypes, DebitTypes
    <3>3. e.key = r.key /\ e.type = r.route /\ e.amount = r.amount /\ e.wallet = r.user
      BY DEF Entry
    <3>4. (IF r.route = "TOPUP" THEN Wrap(b + r.amount) ELSE b - r.amount) \in Balances
      BY <1>1, <1>2, <2>1, <3>1, WrapType, DebitType
    <3> HIDE DEF e, b, r
    <3>5. /\ rows' \in Seq(Row) /\ Kept(rows, rows') /\ n \in Nat
          /\ DOMAIN rows' = DOMAIN rows \union {n} /\ n \notin DOMAIN rows /\ rows'[n] = e
      BY <1>1, <3>1, <3>2, AppendKeeps
    <3>6. Wallet!TypeOK'
      BY <1>1, <3>1, <3>4, <3>5, SameRows
    <3> QED BY <1>2, <2>1, <3>3, <3>5, <3>6 DEF From, Made, r
  <2>2. ASSUME r.route = "TRANSFER"
        PROVE  /\ Wallet!TypeOK' /\ Kept(rows, rows') /\ n \in Nat
               /\ \A i \in DOMAIN rows' \ DOMAIN rows : From(req[p], rows', i)
               /\ Made(req[p], n, rows', orders')
    <3> DEFINE c == balance[r.to]
               out == Entry("TRANSFER_OUT", r.user, r.amount, b, r.key, 0)
               inn == Entry("TRANSFER_IN", r.to, r.amount, c, r.key, 0)
               half == Append(rows, out)
    <3>1. /\ rows' = Append(half, inn) /\ wallets' = wallets
          /\ b >= r.amount /\ r.user # r.to
          /\ balance' = [balance EXCEPT ![r.user] = b - r.amount, ![r.to] = Wrap(c + r.amount)]
      BY <1>1, <1>2, <2>0, <2>2, SameRows DEF Wallet!Move
    <3>2. out \in Row /\ inn \in Row
      BY <1>1, <1>2, <3>1, EntryType DEF CreditTypes, DebitTypes
    <3>3. /\ out.key = r.key /\ out.type = "TRANSFER_OUT" /\ out.amount = r.amount
          /\ out.wallet = r.user /\ inn.key = r.key /\ inn.type = "TRANSFER_IN"
          /\ inn.amount = r.amount /\ inn.wallet = r.to
      BY DEF Entry
    <3>4. b - r.amount \in Balances /\ Wrap(c + r.amount) \in Balances
      BY <1>1, <1>2, <3>1, WrapType, DebitType
    <3> HIDE DEF out, inn, b, c, r
    <3>5. /\ half \in Seq(Row) /\ Len(rows) \in Nat /\ Len(half) = n
          /\ DOMAIN half = DOMAIN rows \union {n} /\ n \notin DOMAIN rows /\ half[n] = out
          /\ Kept(rows, half) /\ \A i \in DOMAIN rows : half[i] = rows[i]
      BY <1>1, <3>2, AppendKeeps
    <3> HIDE DEF half
    <3>6. /\ rows' \in Seq(Row) /\ n \in Nat /\ Kept(half, rows')
          /\ DOMAIN rows' = DOMAIN half \union {n + 1} /\ rows'[n + 1] = inn
          /\ rows'[n] = out /\ n \in DOMAIN rows' /\ n + 1 \in DOMAIN rows'
      <4>1. /\ rows' \in Seq(Row) /\ Kept(half, rows')
            /\ DOMAIN rows' = DOMAIN half \union {Len(half) + 1} /\ rows'[Len(half) + 1] = inn
            /\ \A i \in DOMAIN half : rows'[i] = half[i]
        BY <3>1, <3>2, <3>5, AppendKeeps
      <4> QED BY <3>5, <4>1
    <3>7. Wallet!TypeOK'
      BY <1>1, <3>1, <3>4, <3>6, SameRows
    <3>8. Kept(rows, rows')
      BY <3>5, <3>6 DEF Kept
    <3>9. From(req[p], rows', n) /\ From(req[p], rows', n + 1)
      BY <1>2, <2>2, <3>1, <3>3, <3>6 DEF From, r
    <3>10. Made(req[p], n, rows', orders')
      BY <2>2, <3>3, <3>6 DEF Made, r
    <3> QED BY <3>5, <3>6, <3>7, <3>8, <3>9, <3>10
  <2> QED BY <1>1, <2>0, <2>1, <2>2
<1> QED BY <1>3, <1>4

\* A settlement changes a pending row's status and adds a row without a key.
LEMMA SettleKeeps ==
  ASSUME TypeOK, NEW i, Wallet!ReverseWithdrawal(i) \/ Wallet!FinalizeWithdrawal(i)
  PROVE  /\ Wallet!TypeOK' /\ Kept(rows, rows')
         /\ \A j \in DOMAIN rows' \ DOMAIN rows : rows'[j].key = NoKey
<1> DEFINE Goal == /\ Wallet!TypeOK' /\ Kept(rows, rows')
                   /\ \A j \in DOMAIN rows' \ DOMAIN rows : rows'[j].key = NoKey
           w == rows[i].wallet
           a == rows[i].amount
           e == Entry("WITHDRAWAL_REVERT", w, a, balance[w], NoKey, i)
<1>1. wallets \subseteq Wallets /\ balance \in [Wallets -> Balances] /\ rows \in Seq(Row)
  BY SameRows DEF TypeOK
<1>2. i \in DOMAIN rows /\ rows[i].status = "PENDING"
  BY DEF Wallet!ReverseWithdrawal, Wallet!FinalizeWithdrawal, Wallet!IsPending
<1>3. ASSUME NEW s \in Statuses
      PROVE  /\ WithStatus(rows, i, s) \in Seq(Row) /\ Kept(rows, WithStatus(rows, i, s))
             /\ DOMAIN WithStatus(rows, i, s) = DOMAIN rows
  <2> DEFINE new == WithStatus(rows, i, s)
  <2>1. /\ new \in Seq(Row) /\ DOMAIN new = DOMAIN rows
        /\ \A j \in DOMAIN rows : j # i => new[j] = rows[j]
        /\ \A j \in DOMAIN rows :
             /\ new[j].wallet = rows[j].wallet /\ new[j].type = rows[j].type
             /\ new[j].amount = rows[j].amount /\ new[j].key = rows[j].key
    BY <1>1, <1>2, WithStatusProps
  <2> HIDE DEF new
  <2>2. Kept(rows, new)
    BY <1>2, <2>1 DEF Kept
  <2> QED BY <2>1, <2>2 DEF new
<1>4. CASE Wallet!FinalizeWithdrawal(i)
  <2>1. rows' = WithStatus(rows, i, "SUCCESS") /\ UNCHANGED <<wallets, balance>>
    BY <1>4, SameRows DEF Wallet!FinalizeWithdrawal
  <2>2. "SUCCESS" \in Statuses
    BY DEF Statuses
  <2>3. rows' \in Seq(Row) /\ Kept(rows, rows') /\ DOMAIN rows' = DOMAIN rows
    BY <1>3, <2>1, <2>2
  <2> QED BY <1>1, <2>1, <2>3, SameRows
<1>5. CASE Wallet!ReverseWithdrawal(i)
  <2> DEFINE marked == WithStatus(rows, i, "FAILED")
  <2>1. w \in Wallets /\ a \in Amounts /\ i \in Nat
    BY <1>1, <1>2, RowAt
  <2>2. e \in Row /\ Wrap(balance[w] + a) \in Balances
    BY <1>1, <2>1, EntryType, WrapType DEF CreditTypes, DebitTypes
  <2>3. e.key = NoKey
    BY DEF Entry
  <2>4. /\ rows' = Append(marked, e) /\ wallets' = wallets
        /\ balance' = [balance EXCEPT ![w] = Wrap(balance[w] + a)]
    BY <1>5, SameRows DEF Wallet!ReverseWithdrawal
  <2>5. marked \in Seq(Row) /\ Kept(rows, marked) /\ DOMAIN marked = DOMAIN rows
    BY <1>3 DEF Statuses
  <2> HIDE DEF marked, e, w, a
  <2>6. /\ rows' \in Seq(Row) /\ DOMAIN rows' = DOMAIN marked \union {Len(marked) + 1}
        /\ \A j \in DOMAIN marked : rows'[j] = marked[j]
        /\ rows'[Len(marked) + 1] = e
    BY <2>2, <2>4, <2>5, AppendKeeps
  <2>7. Wallet!TypeOK'
    BY <1>1, <2>1, <2>2, <2>4, <2>6, SameRows
  <2>8. Kept(rows, rows')
    BY <2>5, <2>6 DEF Kept
  <2> QED BY <2>3, <2>5, <2>6, <2>7, <2>8
<1> QED BY <1>4, <1>5
-------------------------------------------------------------------------------
\* Codes, and where they are documented.

\* What a client sees of each code.
LEMMA Codes ==
  /\ \A c \in {"BAD_REQUEST", "VALIDATION_ERROR", "MISSING_IDEMPOTENCY_KEY"} :
       Handle(c) = <<400, c>>
  /\ \A c \in {"UNAUTHORIZED", "INVALID_WEBHOOK_SIGNATURE"} : Handle(c) = <<401, c>>
  /\ \A c \in {"WALLET_NOT_FOUND", "RECIPIENT_NOT_FOUND", "TRANSACTION_NOT_FOUND"} :
       Handle(c) = <<404, c>>
  /\ \A c \in {"IDEMPOTENCY_KEY_CONFLICT", "REQUEST_IN_PROGRESS"} : Handle(c) = <<409, c>>
  /\ Handle("WEBHOOK_PAYLOAD_TOO_LARGE") = <<413, "WEBHOOK_PAYLOAD_TOO_LARGE">>
  /\ \A c \in {"INSUFFICIENT_BALANCE", "SELF_TRANSFER_NOT_ALLOWED",
               "PREVIOUS_ATTEMPT_FAILED", "USER_HAS_WALLET_ALREADY"} : Handle(c) = <<422, c>>
  /\ Handle("ERROR") = <<500, "INTERNAL_SERVER_ERROR">>
  BY DEF Handle, StatusOf

\* Each call's refusals are among those its handler's comment lists.
LEMMA Listed ==
  /\ \A m \in MoneyRoutes :
       {<<400, "BAD_REQUEST">>, <<400, "VALIDATION_ERROR">>,
        <<400, "MISSING_IDEMPOTENCY_KEY">>, <<401, "UNAUTHORIZED">>,
        <<409, "IDEMPOTENCY_KEY_CONFLICT">>, <<409, "REQUEST_IN_PROGRESS">>,
        <<422, "PREVIOUS_ATTEMPT_FAILED">>, <<500, "INTERNAL_SERVER_ERROR">>}
       \subseteq Documented(m)
  /\ \A m \in {"TOPUP", "WITHDRAWAL", "TRANSFER"} :
       <<404, "WALLET_NOT_FOUND">> \in Documented(m)
  /\ \A m \in {"WITHDRAWAL", "TRANSFER"} : <<422, "INSUFFICIENT_BALANCE">> \in Documented(m)
  /\ {<<404, "RECIPIENT_NOT_FOUND">>, <<422, "SELF_TRANSFER_NOT_ALLOWED">>}
     \subseteq Documented("TRANSFER")
  /\ {<<400, "BAD_REQUEST">>, <<401, "UNAUTHORIZED">>, <<404, "TRANSACTION_NOT_FOUND">>,
      <<500, "INTERNAL_SERVER_ERROR">>} \subseteq Documented("DETAIL")
  /\ \A m \in WebhookRoutes :
       {<<400, "BAD_REQUEST">>, <<401, "INVALID_WEBHOOK_SIGNATURE">>,
        <<500, "INTERNAL_SERVER_ERROR">>} \subseteq Documented(m)
  /\ {<<413, "WEBHOOK_PAYLOAD_TOO_LARGE">>, <<422, "USER_HAS_WALLET_ALREADY">>}
     \subseteq Undocumented
<1>1. \A m \in MoneyRoutes :
       {<<400, "BAD_REQUEST">>, <<400, "VALIDATION_ERROR">>,
        <<400, "MISSING_IDEMPOTENCY_KEY">>, <<401, "UNAUTHORIZED">>,
        <<409, "IDEMPOTENCY_KEY_CONFLICT">>, <<409, "REQUEST_IN_PROGRESS">>,
        <<422, "PREVIOUS_ATTEMPT_FAILED">>, <<500, "INTERNAL_SERVER_ERROR">>}
       \subseteq Documented(m)
  BY DEF Documented, MoneyRoutes
<1>2. /\ \A m \in {"TOPUP", "WITHDRAWAL", "TRANSFER"} :
           <<404, "WALLET_NOT_FOUND">> \in Documented(m)
      /\ \A m \in {"WITHDRAWAL", "TRANSFER"} :
           <<422, "INSUFFICIENT_BALANCE">> \in Documented(m)
      /\ {<<404, "RECIPIENT_NOT_FOUND">>, <<422, "SELF_TRANSFER_NOT_ALLOWED">>}
         \subseteq Documented("TRANSFER")
  BY DEF Documented
<1>3. {<<400, "BAD_REQUEST">>, <<401, "UNAUTHORIZED">>, <<404, "TRANSACTION_NOT_FOUND">>,
       <<500, "INTERNAL_SERVER_ERROR">>} \subseteq Documented("DETAIL")
  BY DEF Documented
<1>4. \A m \in WebhookRoutes :
        {<<400, "BAD_REQUEST">>, <<401, "INVALID_WEBHOOK_SIGNATURE">>,
         <<500, "INTERNAL_SERVER_ERROR">>} \subseteq Documented(m)
  BY DEF Documented, WebhookRoutes
<1> QED BY <1>1, <1>2, <1>3, <1>4 DEF Undocumented

-------------------------------------------------------------------------------
\* One goroutine moves; the others stay where they are.

Others(p) ==
  \A q \in Procs \ {p} : /\ pc'[q] = pc[q] /\ req'[q] = req[q]
                         /\ row'[q] = row[q] /\ reply'[q] = reply[q]

Formed ==
  /\ pc \in [Procs -> Controls] /\ req \in [Procs -> Request \union {NoReq}]
  /\ row \in [Procs -> Nat] /\ DOMAIN reply = Procs

LEMMA Replied ==
  ASSUME TypeOK, NEW p \in Procs, NEW r, NEW http, NEW i, Reply(p, r, http, i)
  PROVE  /\ Formed' /\ Others(p) /\ pc'[p] = "idle" /\ req'[p] = NoReq /\ row'[p] = 0
         /\ reply'[p].req = r /\ reply'[p].http = http /\ reply'[p].row = i
         /\ http[1] = 200 /\ r.route = "DETAIL" => reply'[p].status = rows[i].status
<1> DEFINE s == IF http[1] = 200 /\ r.route = "DETAIL" THEN rows[i].status ELSE "NONE"
<1>1. reply' = [reply EXCEPT ![p] = [req |-> r, http |-> http, row |-> i, status |-> s]]
  BY DEF Reply
<1>2. http[1] = 200 /\ r.route = "DETAIL" => s = rows[i].status
  OBVIOUS
<1> HIDE DEF s
<1>3. reply'[p] = [req |-> r, http |-> http, row |-> i, status |-> s]
  BY <1>1 DEF TypeOK
<1>4. /\ Formed' /\ Others(p) /\ pc'[p] = "idle" /\ req'[p] = NoReq /\ row'[p] = 0
  BY <1>1 DEF TypeOK, Formed, Reply, Others, Controls
<1> QED BY <1>2, <1>3, <1>4

LEMMA Went ==
  ASSUME TypeOK, NEW p \in Procs, NEW to \in Controls, Goto(p, to)
  PROVE  /\ Formed' /\ Others(p) /\ pc'[p] = to
         /\ req' = req /\ row' = row /\ reply' = reply
  BY DEF TypeOK, Formed, Goto, Others, call

\* What a refusal has to satisfy.
LEMMA RefusalIsRight ==
  ASSUME NEW a, NEW r, NEW n \in Nat, NEW c,
         a.req = r, a.http = <<n, c>>, a.row = 0, n >= 400,
         <<n, c>> \in Documented(r.route) \union Undocumented,
         n = 404 /\ r.route = "DETAIL" => c = "TRANSACTION_NOT_FOUND",
         c \in Final => Keyed(r)
  PROVE  Right(a)
  BY DEF Right

\* A call that is over promises nothing more.
LEMMA IdleCall ==
  ASSUME NEW p \in Procs, pc'[p] = "idle"
  PROVE  CallTrue(p)'
  BY DEF CallTrue, Serving, Owning
-------------------------------------------------------------------------------
\* The goroutine that moves keeps its promises.

Answer(p) == reply'[p] = reply[p] \/ (Right(reply'[p]) /\ AnswerTrue(p)')

Sound(p) ==
  /\ Formed' /\ Others(p) /\ CallTrue(p)' /\ Answer(p)
  /\ req'[p].route \in MoneyRoutes => req'[p].amount \in Amounts
  /\ pc'[p] = "commit" => pc[p] = "claim" /\ Unknown(req[p].key) /\ req'[p] = req[p]
  /\ pc'[p] \in Owning =>
       /\ req'[p] = req[p]
       /\ pc[p] \in Owning \/ (pc[p] = "claim" /\ Unknown(req[p].key))

\* A goroutine that answers has only to answer well.
LEMMA IdleIsSound ==
  ASSUME NEW p \in Procs, Formed', Others(p), pc'[p] = "idle", req'[p] = NoReq, Answer(p)
  PROVE  Sound(p)
<1>1. req'[p].route \notin MoneyRoutes
  BY Data DEF MoneyRoutes
<1> QED BY <1>1, IdleCall DEF Sound, Owning

\* Nothing is claimed by "no answer yet".
LEMMA NoReplyIsTrue ==
  ASSUME NEW p \in Procs, reply'[p] = NoReply
  PROVE  Answer(p)
<1>1. /\ NoReply.http[1] = 0 /\ NoReply.http[2] = "NONE" /\ NoReply.req.route = "NONE"
  BY DEF NoReply, NoReq
<1>2. Right(NoReply)
  BY <1>1 DEF Right, Final
<1>3. AnswerTrue(p)'
  BY <1>1 DEF AnswerTrue
<1> QED BY <1>2, <1>3 DEF Answer

LEMMA Received ==
  ASSUME TypeOK, NEW p \in Procs, NEW r \in Request, NEW checks, NEW first \in Controls,
         Receive(p, r, checks, first)
  PROVE  /\ pc[p] = "idle" /\ UNCHANGED tables /\ Formed' /\ Others(p)
         /\ \/ /\ pc'[p] = "idle" /\ req'[p] = NoReq
               /\ \E i \in DOMAIN checks :
                    /\ Fails(r, checks[i]) /\ reply'[p].req = r /\ reply'[p].row = 0
                    /\ reply'[p].http = Handle(CodeOf(checks[i]))
            \/ /\ \A i \in DOMAIN checks : ~Fails(r, checks[i])
               /\ pc'[p] = first /\ req'[p] = r /\ reply'[p] = NoReply
<1>1. CASE \E i \in DOMAIN checks :
             Fails(r, checks[i]) /\ Reply(p, r, Handle(CodeOf(checks[i])), 0)
  <2>1. PICK i \in DOMAIN checks :
          Fails(r, checks[i]) /\ Reply(p, r, Handle(CodeOf(checks[i])), 0)
    BY <1>1
  <2> DEFINE h == Handle(CodeOf(checks[i]))
  <2>2. h = Handle(CodeOf(checks[i])) /\ Reply(p, r, h, 0)
    BY <2>1
  <2> HIDE DEF h
  <2>3. /\ Formed' /\ Others(p) /\ pc'[p] = "idle" /\ req'[p] = NoReq
        /\ reply'[p].req = r /\ reply'[p].row = 0 /\ reply'[p].http = h
    BY <2>2, Replied
  <2> QED BY <2>1, <2>2, <2>3 DEF Receive
<1>2. CASE /\ \A i \in DOMAIN checks : ~Fails(r, checks[i])
           /\ pc' = [pc EXCEPT ![p] = first] /\ req' = [req EXCEPT ![p] = r]
           /\ reply' = [reply EXCEPT ![p] = NoReply] /\ UNCHANGED row
  <2>1. Formed' /\ Others(p) /\ pc'[p] = first /\ req'[p] = r /\ reply'[p] = NoReply
    BY <1>2 DEF TypeOK, Formed, Others
  <2> QED BY <1>2, <2>1 DEF Receive
<1> QED BY <1>1, <1>2 DEF Receive

\* A call that a client pays with.
LEMMA MoneyReceived ==
  ASSUME ApiInv, NEW p \in Procs, NEW r \in Requests, r.route \in MoneyRoutes,
         NEW first \in {"find", "claim"}, first = "find" => r.route # "CHECKOUT",
         Receive(p, r, MoneyChecks, first)
  PROVE  Sound(p) /\ UNCHANGED tables
<1>1. /\ TypeOK /\ first \in Controls /\ r \in Request
  BY Data DEF ApiInv, Controls
<1>2. /\ UNCHANGED tables /\ Formed' /\ Others(p)
      /\ \/ /\ pc'[p] = "idle" /\ req'[p] = NoReq
            /\ \E i \in DOMAIN MoneyChecks :
                 /\ Fails(r, MoneyChecks[i]) /\ reply'[p].req = r /\ reply'[p].row = 0
                 /\ reply'[p].http = Handle(CodeOf(MoneyChecks[i]))
         \/ /\ \A i \in DOMAIN MoneyChecks : ~Fails(r, MoneyChecks[i])
            /\ pc'[p] = first /\ req'[p] = r /\ reply'[p] = NoReply
  BY <1>1, Received
<1>3. CASE pc'[p] = "idle" /\ req'[p] = NoReq
  <2> DEFINE a == reply'[p]
  <2>1. PICK i \in DOMAIN MoneyChecks :
          a.req = r /\ a.row = 0 /\ a.http = Handle(CodeOf(MoneyChecks[i]))
    BY <1>2, <1>3
  <2>2. MoneyChecks[i] \in {"token", "body", "field", "key"}
    BY DEF MoneyChecks
  <2>3. CodeOf(MoneyChecks[i]) \in {"UNAUTHORIZED", "BAD_REQUEST", "VALIDATION_ERROR",
                                    "MISSING_IDEMPOTENCY_KEY"}
    BY <2>2 DEF CodeOf
  <2>4. PICK n \in {400, 401}, c \in {"UNAUTHORIZED", "BAD_REQUEST", "VALIDATION_ERROR",
                                      "MISSING_IDEMPOTENCY_KEY"} :
          a.http = <<n, c>> /\ <<n, c>> \in Documented(r.route)
    BY <2>1, <2>3, Codes, Listed
  <2>5. Right(a)
    BY <2>1, <2>4, RefusalIsRight DEF Final
  <2>6. AnswerTrue(p)'
    BY <2>1, <2>4 DEF AnswerTrue
  <2> QED BY <1>2, <1>3, <2>5, <2>6, IdleIsSound DEF Answer
<1>4. CASE /\ \A i \in DOMAIN MoneyChecks : ~Fails(r, MoneyChecks[i])
           /\ pc'[p] = first /\ req'[p] = r /\ reply'[p] = NoReply
  <2>1. ~Fails(r, MoneyChecks[3]) /\ ~Fails(r, MoneyChecks[4])
    BY <1>4 DEF MoneyChecks
  <2>2. r.amount > 0 /\ r.key # NoKey
    BY <2>1, Data DEF MoneyChecks, Fails
  <2>3. Keyed(r)
    BY <2>2, Data DEF Keyed
  <2>4. CallTrue(p)'
    BY <1>4, <2>3 DEF CallTrue, Serving, Owning
  <2>5. pc'[p] \notin Owning /\ pc'[p] # "commit"
    BY <1>4 DEF Owning
  <2>6. Answer(p)
    BY <1>4, NoReplyIsTrue
  <2> QED BY <1>2, <1>4, <2>3, <2>4, <2>5, <2>6 DEF Sound, Keyed
<1> QED BY <1>2, <1>3, <1>4
\* The transactions clients know of exist.
LEMMA ShownIsRow ==
  ASSUME ApiInv, NEW i \in Shown
  PROVE  i \in DOMAIN rows /\ i \in Nat
<1>1. PICK q \in Procs : reply[q].req.route # "CHECKOUT" /\ i = reply[q].row /\ i # 0
  BY DEF Shown
<1>2. Right(reply[q]) /\ AnswerTrue(q)
  BY DEF ApiInv
<1>3. reply[q] # NoReply /\ reply[q].http[1] < 400
  BY <1>1, <1>2 DEF Right, NoReply
<1>4. i \in DOMAIN rows
  <2>1. CASE reply[q].http[1] = 201
    <3>1. PICK s \in Requests, j \in DOMAIN rows \union DOMAIN orders :
            Made(s, j, rows, orders) /\ i = Read(s, reply[q].req, j)
      BY <1>1, <1>2, <2>1 DEF AnswerTrue, Receipt
    <3> QED BY <1>1, <3>1 DEF Made, Read
  <2>2. CASE reply[q].http[1] = 200 /\ reply[q].req.route \in {"DETAIL"} \union WebhookRoutes
    BY <1>1, <1>2, <2>2 DEF AnswerTrue
  <2> QED BY <1>2, <1>3, <2>1, <2>2 DEF Right
<1>5. rows \in Seq(Row)
  BY SameRows DEF ApiInv, TypeOK
<1> QED BY <1>4, <1>5, RowAt

\* A call that asks for a transaction.
LEMMA DetailReceived ==
  ASSUME ApiInv, NEW p \in Procs, NEW r \in Requests, GetTransactionDetail(p, r)
  PROVE  Sound(p) /\ UNCHANGED tables
<1> DEFINE checks == <<"token", "body">>
<1>1. PICK i \in Shown : Receive(p, [r EXCEPT !.id = i], checks, "wallet")
  BY DEF GetTransactionDetail
<1> DEFINE d == [r EXCEPT !.id = i]
<1>2. /\ i \in DOMAIN rows /\ d \in Request /\ d.route = "DETAIL" /\ d.id = i
  BY Data, ShownIsRow DEF Request, GetTransactionDetail
<1>3. TypeOK /\ "wallet" \in Controls /\ Receive(p, d, checks, "wallet")
  BY <1>1 DEF ApiInv, Controls
<1> HIDE DEF d
<1>4. /\ UNCHANGED tables /\ Formed' /\ Others(p)
      /\ \/ /\ pc'[p] = "idle" /\ req'[p] = NoReq
            /\ \E j \in DOMAIN checks :
                 /\ Fails(d, checks[j]) /\ reply'[p].req = d /\ reply'[p].row = 0
                 /\ reply'[p].http = Handle(CodeOf(checks[j]))
         \/ pc'[p] = "wallet" /\ req'[p] = d /\ reply'[p] = NoReply
  BY <1>2, <1>3, Received
<1>5. CASE pc'[p] = "idle" /\ req'[p] = NoReq
  <2> DEFINE a == reply'[p]
  <2>1. PICK j \in DOMAIN checks :
          a.req = d /\ a.row = 0 /\ a.http = Handle(CodeOf(checks[j]))
    BY <1>4, <1>5
  <2>2. checks[j] \in {"token", "body"}
    OBVIOUS
  <2>3. CodeOf(checks[j]) \in {"UNAUTHORIZED", "BAD_REQUEST"}
    BY <2>2 DEF CodeOf
  <2>4. PICK n \in {400, 401}, c \in {"UNAUTHORIZED", "BAD_REQUEST"} :
          a.http = <<n, c>> /\ <<n, c>> \in Documented(d.route)
    BY <1>2, <2>1, <2>3, Codes, Listed
  <2>5. Right(a)
    BY <2>1, <2>4, RefusalIsRight DEF Final
  <2>6. AnswerTrue(p)'
    BY <2>1, <2>4 DEF AnswerTrue
  <2> QED BY <1>4, <1>5, <2>5, <2>6, IdleIsSound DEF Answer
<1>6. CASE pc'[p] = "wallet" /\ req'[p] = d /\ reply'[p] = NoReply
  <2>1. rows' = rows
    BY <1>4 DEF tables, ledger
  <2>2. CallTrue(p)'
    BY <1>2, <1>6, <2>1 DEF CallTrue, Serving, Owning
  <2>3. pc'[p] \notin Owning /\ pc'[p] # "commit" /\ req'[p].route \notin MoneyRoutes
    BY <1>2, <1>6 DEF Owning, MoneyRoutes
  <2>4. Answer(p)
    BY <1>6, NoReplyIsTrue
  <2> QED BY <1>4, <2>2, <2>3, <2>4 DEF Sound
<1> QED BY <1>4, <1>5, <1>6

\* A webhook.
LEMMA HookReceived ==
  ASSUME ApiInv, NEW p \in Procs, NEW r \in Requests, r.route \in WebhookRoutes,
         Receive(p, r, <<"size", "body", "signature">>, "publish")
  PROVE  Sound(p) /\ UNCHANGED tables
<1> DEFINE checks == <<"size", "body", "signature">>
<1>1. TypeOK /\ "publish" \in Controls /\ r \in Request
  BY Data DEF ApiInv, Controls
<1>2. /\ UNCHANGED tables /\ Formed' /\ Others(p)
      /\ \/ /\ pc'[p] = "idle" /\ req'[p] = NoReq
            /\ \E j \in DOMAIN checks :
                 /\ Fails(r, checks[j]) /\ reply'[p].req = r /\ reply'[p].row = 0
                 /\ reply'[p].http = Handle(CodeOf(checks[j]))
         \/ /\ \A j \in DOMAIN checks : ~Fails(r, checks[j])
            /\ pc'[p] = "publish" /\ req'[p] = r /\ reply'[p] = NoReply
  BY <1>1, Received
<1>3. CASE pc'[p] = "idle" /\ req'[p] = NoReq
  <2> DEFINE a == reply'[p]
  <2>1. PICK j \in DOMAIN checks :
          a.req = r /\ a.row = 0 /\ a.http = Handle(CodeOf(checks[j]))
    BY <1>2, <1>3
  <2>2. checks[j] \in {"size", "body", "signature"}
    OBVIOUS
  <2>3. CodeOf(checks[j]) \in {"WEBHOOK_PAYLOAD_TOO_LARGE", "BAD_REQUEST",
                               "INVALID_WEBHOOK_SIGNATURE"}
    BY <2>2 DEF CodeOf
  <2>4. PICK n \in {400, 401, 413}, c \in {"WEBHOOK_PAYLOAD_TOO_LARGE", "BAD_REQUEST",
                                           "INVALID_WEBHOOK_SIGNATURE"} :
          a.http = <<n, c>> /\ <<n, c>> \in Documented(r.route) \union Undocumented
    BY <2>1, <2>3, Codes, Listed
  <2>5. Right(a)
    BY <2>1, <2>4, RefusalIsRight DEF Final
  <2>6. AnswerTrue(p)'
    BY <2>1, <2>4 DEF AnswerTrue
  <2> QED BY <1>2, <1>3, <2>5, <2>6, IdleIsSound DEF Answer
<1>4. CASE /\ \A j \in DOMAIN checks : ~Fails(r, checks[j])
           /\ pc'[p] = "publish" /\ req'[p] = r /\ reply'[p] = NoReply
  <2>0. ~Fails(r, checks[3])
    BY <1>4
  <2>1. CallTrue(p)'
    BY <1>4, <2>0 DEF CallTrue, Serving, Owning, Fails, Unsigned
  <2>2. pc'[p] \notin Owning /\ pc'[p] # "commit" /\ req'[p].route \notin MoneyRoutes
    BY <1>4 DEF Owning, MoneyRoutes, WebhookRoutes
  <2>3. Answer(p)
    BY <1>4, NoReplyIsTrue
  <2> QED BY <1>2, <2>1, <2>2, <2>3 DEF Sound
<1> QED BY <1>2, <1>3, <1>4
\* When a refusal is sound.
LEMMA RefusedIsSound ==
  ASSUME ApiInv, NEW p \in Procs, NEW r, r = req[p], NEW code, NEW n \in Nat, NEW c,
         Refuse(p, code), Handle(code) = <<n, c>>, n >= 400,
         <<n, c>> \in Documented(r.route) \union Undocumented,
         n = 404 /\ r.route = "DETAIL" =>
           /\ c = "TRANSACTION_NOT_FOUND"
           /\ r.id \in DOMAIN rows' /\ rows'[r.id].wallet # r.user,
         c \in Final => Keyed(r),
         c = "INSUFFICIENT_BALANCE" => Dead(r.key)',
         c = "PREVIOUS_ATTEMPT_FAILED" => Dead(r.key)' \/ r.key \in lost',
         c = "IDEMPOTENCY_KEY_CONFLICT" =>
           idem'[r.key].status # "NONE" /\ idem'[r.key].hash # HashOf(r),
         c = "SELF_TRANSFER_NOT_ALLOWED" => r.route = "TRANSFER" /\ r.to = r.user
  PROVE  Sound(p)
<1>1. TypeOK /\ Reply(p, r, <<n, c>>, 0)
  BY DEF ApiInv, Refuse
<1>2. /\ Formed' /\ Others(p) /\ pc'[p] = "idle" /\ req'[p] = NoReq
      /\ reply'[p].req = r /\ reply'[p].http = <<n, c>> /\ reply'[p].row = 0
  BY <1>1, Replied
<1>3. Right(reply'[p])
  BY <1>2, RefusalIsRight
<1>4. reply'[p].http[1] = n /\ reply'[p].http[2] = c
  BY <1>2
<1>5. /\ c = "INSUFFICIENT_BALANCE" => Dead(reply[p].req.key)'
      /\ c = "PREVIOUS_ATTEMPT_FAILED" => Dead(reply[p].req.key)' \/ r.key \in lost'
  BY <1>2 DEF Dead
<1>6. AnswerTrue(p)'
  BY <1>2, <1>4, <1>5 DEF AnswerTrue, HashOf
<1> QED BY <1>2, <1>3, <1>6, IdleIsSound DEF Answer

\* When a call may go on.
LEMMA WentIsSound ==
  ASSUME ApiInv, NEW p \in Procs, NEW to \in Controls, Goto(p, to), CallTrue(p)',
         to \in Owning =>
           \/ pc[p] \in Owning /\ to # "commit"
           \/ pc[p] = "claim" /\ Unknown(req[p].key)
  PROVE  Sound(p)
<1>1. /\ Formed' /\ Others(p) /\ pc'[p] = to
      /\ req' = req /\ row' = row /\ reply' = reply
  BY Went DEF ApiInv
<1>2. req'[p].route \in MoneyRoutes => req'[p].amount \in Amounts
  BY <1>1 DEF ApiInv, TypeOK
<1> QED BY <1>1, <1>2 DEF Sound, Answer, Owning

\* When a success is sound.
LEMMA SucceededIsSound ==
  ASSUME ApiInv, NEW p \in Procs, NEW r, r = req[p], NEW i, Succeed(p, i),
         \/ r.route \in MoneyRoutes /\ Keyed(r) /\ Receipt(r, i, rows', orders')
         \/ r.route \in WebhookRoutes /\ i = 0
         \/ /\ r.route = "DETAIL" /\ i = r.id /\ UNCHANGED rows
            /\ i \in DOMAIN rows /\ rows[i].wallet = r.user
  PROVE  Sound(p)
<1> DEFINE n == IF r.route \in MoneyRoutes THEN 201 ELSE 200
<1>1. TypeOK /\ Reply(p, r, <<n, "OK">>, i)
  BY DEF ApiInv, Succeed
<1>2. n \in {200, 201} /\ (n = 201 <=> r.route \in MoneyRoutes)
  OBVIOUS
<1> HIDE DEF n
<1>3. /\ Formed' /\ Others(p) /\ pc'[p] = "idle" /\ req'[p] = NoReq
      /\ reply'[p].req = r /\ reply'[p].http = <<n, "OK">> /\ reply'[p].row = i
      /\ <<n, "OK">>[1] = 200 /\ r.route = "DETAIL" => reply'[p].status = rows[i].status
  BY <1>1, Replied
<1>4. /\ reply'[p].http[1] = n /\ reply'[p].http[2] = "OK"
      /\ n = 200 /\ r.route = "DETAIL" => reply'[p].status = rows[i].status
  BY <1>3
<1>5. MoneyRoutes \intersect (WebhookRoutes \union {"DETAIL"}) = {}
  BY DEF MoneyRoutes, WebhookRoutes
<1>6. Right(reply'[p])
  BY <1>2, <1>3, <1>4, <1>5 DEF Right, Final
<1>7. AnswerTrue(p)'
  <2>1. CASE r.route \in MoneyRoutes /\ Keyed(r) /\ Receipt(r, i, rows', orders')
    <3>1. Receipt(reply'[p].req, reply'[p].row, rows', orders')
      BY <1>3, <2>1
    <3> QED BY <1>2, <1>3, <1>4, <1>5, <2>1, <3>1 DEF AnswerTrue
  <2>2. CASE r.route \in WebhookRoutes /\ i = 0
    BY <1>2, <1>3, <1>4, <1>5, <2>2 DEF AnswerTrue, WebhookRoutes
  <2>3. CASE /\ r.route = "DETAIL" /\ i = r.id /\ UNCHANGED rows
             /\ i \in DOMAIN rows /\ rows[i].wallet = r.user
    BY <1>2, <1>3, <1>4, <1>5, <2>3 DEF AnswerTrue, WebhookRoutes
  <2> QED BY <2>1, <2>2, <2>3
<1> QED BY <1>3, <1>6, <1>7, IdleIsSound DEF Answer
-------------------------------------------------------------------------------
\* Each step of a call is sound.

LEMMA FindWalletsIsSound ==
  ASSUME ApiInv, NEW p \in Procs, NEW r, r = req[p], FindWallets(p)
  PROVE  Sound(p)
<1>1. /\ Keyed(r) /\ r.route \in {"TOPUP", "WITHDRAWAL", "TRANSFER"}
      /\ r \in Requests /\ (r.route # "TRANSFER" => r.to = r.user)
  BY Data DEF ApiInv, CallTrue, Serving, FindWallets, Keyed, MoneyRoutes
<1>2. CASE Refuse(p, "WALLET_NOT_FOUND")
  <2>1. /\ Handle("WALLET_NOT_FOUND") = <<404, "WALLET_NOT_FOUND">>
        /\ <<404, "WALLET_NOT_FOUND">> \in Documented(r.route)
        /\ "WALLET_NOT_FOUND" \notin Final
    BY <1>1, Codes, Listed DEF Final
  <2> QED BY <1>1, <1>2, <2>1, RefusedIsSound DEF Final
<1>3. CASE r.user \in wallets /\ r.to \notin wallets /\ Refuse(p, "RECIPIENT_NOT_FOUND")
  <2>1. r.route = "TRANSFER"
    BY <1>1, <1>3
  <2>2. /\ Handle("RECIPIENT_NOT_FOUND") = <<404, "RECIPIENT_NOT_FOUND">>
        /\ <<404, "RECIPIENT_NOT_FOUND">> \in Documented(r.route)
        /\ "RECIPIENT_NOT_FOUND" \notin Final
    BY <2>1, Codes, Listed DEF Final
  <2> QED BY <1>3, <2>1, <2>2, RefusedIsSound
<1>4. CASE r.route = "TRANSFER" /\ r.to = r.user /\ Refuse(p, "SELF_TRANSFER_NOT_ALLOWED")
  <2>1. /\ Handle("SELF_TRANSFER_NOT_ALLOWED") = <<422, "SELF_TRANSFER_NOT_ALLOWED">>
        /\ <<422, "SELF_TRANSFER_NOT_ALLOWED">> \in Documented(r.route)
    BY <1>4, Codes, Listed
  <2> QED BY <1>1, <1>4, <2>1, RefusedIsSound
<1>5. CASE Goto(p, "claim")
  <2>1. pc'[p] = "claim" /\ req' = req
    BY <1>5, Went DEF ApiInv, Controls
  <2>2. CallTrue(p)'
    BY <1>1, <2>1 DEF CallTrue, Serving, Owning
  <2> QED BY <1>5, <2>2, WentIsSound DEF Owning, Controls
<1> QED BY <1>2, <1>3, <1>4, <1>5 DEF FindWallets

\* The stored response of a completed key is the answer of whoever may replay it.
LEMMA ReplayedReceipt ==
  ASSUME ApiInv, NEW r, Keyed(r), idem[r.key].status = "COMPLETED",
         idem[r.key].hash = HashOf(r)
  PROVE  Receipt(r, Stored(r), rows, orders) /\ Stored(r) \in Nat
<1> DEFINE i == idem[r.key].resp
<1>1. r.key \in Keys /\ i \in Nat
  BY DEF Keyed, ApiInv, TypeOK, KeyRow
<1>2. PICK s \in Requests : Twin(s, r) /\ Made(s, i, rows, orders)
  BY <1>1 DEF ApiInv, KeyTrue, Twin
<1>3. OneKind(r.key, rows, orders)
  BY <1>1 DEF ApiInv, KeyTrue
<1>4. (\E j \in DOMAIN orders : orders[j].key = r.key) = (s.route = "CHECKOUT")
  <2>1. CASE s.route = "CHECKOUT"
    <3>1. i \in DOMAIN orders /\ orders[i].key = r.key
      BY <1>2, <2>1 DEF Made, OrderOf, Twin
    <3> QED BY <2>1, <3>1
  <2>2. CASE s.route # "CHECKOUT"
    <3>1. i \in DOMAIN rows /\ rows[i].key = r.key
      BY <1>2, <2>2 DEF Made, Twin
    <3>2. ~\E j \in DOMAIN orders : orders[j].key = r.key
      BY <1>3, <3>1 DEF OneKind
    <3> QED BY <2>2, <3>2
  <2> QED BY <2>1, <2>2
<1>5. Stored(r) = Read(s, r, i) /\ Stored(r) \in Nat
  <2>1. CASE s.route = "CHECKOUT"
    BY <1>1, <1>4, <2>1 DEF Stored, Read
  <2>2. CASE s.route # "CHECKOUT"
    BY <1>1, <1>4, <2>2 DEF Stored, Read
  <2> QED BY <2>1, <2>2
<1>6. i \in DOMAIN rows \union DOMAIN orders
  BY <1>2 DEF Made
<1> HIDE DEF i
<1> QED BY <1>2, <1>5, <1>6 DEF Receipt

\* Who carried its own call out has its receipt.
LEMMA MadeIsReceipt ==
  ASSUME NEW r, Keyed(r), NEW i, NEW rs, NEW os, Made(r, i, rs, os)
  PROVE  Receipt(r, i, rs, os)
<1>1. r \in Requests /\ Twin(r, r) /\ i = Read(r, r, i) /\ i \in DOMAIN rs \union DOMAIN os
  BY DEF Keyed, Twin, Read, Made
<1> QED BY <1>1 DEF Receipt

LEMMA ClaimIsSound ==
  ASSUME ApiInv, NEW p \in Procs, NEW r, r = req[p], Claim(p)
  PROVE  Sound(p)
<1> DEFINE k == r.key
           key == idem[k]
           hash == HashOf(r)
<1>1. /\ Keyed(r) /\ pc[p] = "claim" /\ k \in Keys /\ r.route \in MoneyRoutes
      /\ hash = HashOf(r)
  BY DEF ApiInv, CallTrue, Serving, Claim, Keyed
<1>2. idem \in [Keys -> KeyRow] /\ key \in KeyRow /\ KeyTrue(k)
  BY <1>1 DEF ApiInv, TypeOK
<1> HIDE DEF hash, k
<1>3. CASE Unknown(k) /\ InsertKey(k, hash) /\ Goto(p, "commit") /\ UNCHANGED <<ledger, orders>>
  <2>1. /\ pc'[p] = "commit" /\ req' = req /\ rows' = rows /\ orders' = orders
    BY <1>3, Went DEF ApiInv, Controls, ledger
  <2>2. idem'[k].status = "PROCESSING" /\ idem'[k].hash = hash
    BY <1>1, <1>2, <1>3 DEF InsertKey
  <2>3. Unwritten(k, rows, orders)
    BY <1>2, <1>3 DEF KeyTrue, Unknown
  <2>4. Unwritten(k, rows', orders')
    BY <2>1, <2>3
  <2>5. CallTrue(p)'
    BY <1>1, <2>1, <2>2, <2>4 DEF CallTrue, Serving, Owning, HashOf, k
  <2> QED BY <1>1, <1>3, <2>5, WentIsSound DEF Owning, Controls, k
<1>4. CASE Replayable(k, hash) /\ Replay(p) /\ UNCHANGED tables
  <2> DEFINE i == Stored(r)
  <2>1. Receipt(r, i, rows, orders) /\ i \in Nat
    BY <1>1, <1>2, <1>4, ReplayedReceipt DEF Replayable, k
  <2>2. rows' = rows /\ orders' = orders
    BY <1>4 DEF tables, ledger
  <2>3. CASE r.route # "WITHDRAWAL"
    <3>1. Succeed(p, i)
      BY <1>4, <2>3 DEF Replay, k
    <3> HIDE DEF i
    <3> QED BY <1>1, <2>1, <2>2, <3>1, SucceededIsSound
  <2>4. CASE r.route = "WITHDRAWAL"
    <3>1. /\ pc' = [pc EXCEPT ![p] = "payout"] /\ row' = [row EXCEPT ![p] = i]
          /\ req' = req /\ reply' = reply
      BY <1>4, <2>4 DEF Replay, k
    <3> HIDE DEF i
    <3>2. Formed' /\ Others(p) /\ pc'[p] = "payout" /\ row'[p] = i
      BY <2>1, <3>1 DEF ApiInv, TypeOK, Formed, Others, Controls
    <3>3. CallTrue(p)'
      BY <1>1, <2>1, <2>2, <2>4, <3>1, <3>2 DEF CallTrue, Serving, Owning
    <3>4. r.amount \in Amounts
      BY <1>1 DEF Keyed
    <3> QED BY <3>1, <3>2, <3>3, <3>4 DEF Sound, Answer, Owning
  <2> QED BY <2>3, <2>4
<1>5. CASE /\ ~Unknown(k) /\ ~Replayable(k, hash) /\ UNCHANGED tables
           /\ Refuse(p, CASE key.hash # hash -> "IDEMPOTENCY_KEY_CONFLICT"
                          [] key.hash = hash /\ key.status = "PROCESSING" -> "REQUEST_IN_PROGRESS"
                          [] OTHER -> "PREVIOUS_ATTEMPT_FAILED")
  <2>1. /\ idem' = idem /\ rows' = rows /\ orders' = orders /\ lost' = lost
    BY <1>5 DEF tables, ledger
  <2>2. CASE key.hash # hash
    <3>1. Refuse(p, "IDEMPOTENCY_KEY_CONFLICT")
      BY <1>5, <2>2
    <3>2. idem'[k].status # "NONE" /\ idem'[k].hash # HashOf(r)
      BY <1>1, <1>5, <2>1, <2>2 DEF Unknown
    <3>3. /\ Handle("IDEMPOTENCY_KEY_CONFLICT") = <<409, "IDEMPOTENCY_KEY_CONFLICT">>
          /\ <<409, "IDEMPOTENCY_KEY_CONFLICT">> \in Documented(r.route)
      BY <1>1, Codes, Listed
    <3> QED BY <1>1, <3>1, <3>2, <3>3, RefusedIsSound DEF k
  <2>3. CASE key.hash = hash /\ key.status = "PROCESSING"
    <3>1. Refuse(p, "REQUEST_IN_PROGRESS")
      BY <1>5, <2>3
    <3>2. /\ Handle("REQUEST_IN_PROGRESS") = <<409, "REQUEST_IN_PROGRESS">>
          /\ <<409, "REQUEST_IN_PROGRESS">> \in Documented(r.route)
          /\ "REQUEST_IN_PROGRESS" \notin Final
      BY <1>1, Codes, Listed DEF Final
    <3> QED BY <3>1, <3>2, RefusedIsSound
  <2>4. CASE key.hash = hash /\ key.status # "PROCESSING"
    <3>1. Refuse(p, "PREVIOUS_ATTEMPT_FAILED")
      BY <1>5, <2>4
    <3>2. key.status = "FAILED"
      BY <1>2, <1>5, <2>4 DEF Unknown, Replayable, KeyRow
    <3>3. \A q \in Procs : pc[q] = "commit" => req[q].key # k
      BY <3>2 DEF ApiInv, CallTrue, Owning
    <3>4. Others(p) /\ pc'[p] = "idle"
      BY <3>1, Replied DEF ApiInv, Refuse
    <3>5. Dead(k)' \/ k \in lost'
      BY <1>2, <2>1, <3>2, <3>3, <3>4 DEF Dead, KeyTrue, Others
    <3>6. /\ Handle("PREVIOUS_ATTEMPT_FAILED") = <<422, "PREVIOUS_ATTEMPT_FAILED">>
          /\ <<422, "PREVIOUS_ATTEMPT_FAILED">> \in Documented(r.route)
      BY <1>1, Codes, Listed
    <3> QED BY <1>1, <3>1, <3>5, <3>6, RefusedIsSound DEF k
  <2> QED BY <2>2, <2>3, <2>4
<1> QED BY <1>3, <1>4, <1>5 DEF Claim, k, hash
LEMMA CommitIsSound ==
  ASSUME ApiInv, NEW p \in Procs, NEW r, r = req[p], Commit(p)
  PROVE  Sound(p)
<1>1. /\ Keyed(r) /\ pc[p] = "commit" /\ r.amount \in Amounts
      /\ idem[r.key].status = "PROCESSING" /\ idem[r.key].hash = HashOf(r)
  BY DEF ApiInv, CallTrue, Serving, Owning, Commit, Keyed
<1> DEFINE i == NewId(r)
<1>2. Made(r, i, rows', orders') /\ i \in Nat
  BY PerformAdds DEF Commit
<1>3. /\ pc' = [pc EXCEPT ![p] = "complete"] /\ idem' = idem /\ req' = req /\ reply' = reply
      /\ row' = [row EXCEPT ![p] = i]
  BY DEF Commit, NewId
<1> HIDE DEF i
<1>4. /\ Formed' /\ Others(p) /\ pc'[p] = "complete" /\ row'[p] = i
  BY <1>2, <1>3 DEF ApiInv, TypeOK, Formed, Others, Controls
<1>5. CallTrue(p)'
  BY <1>1, <1>2, <1>3, <1>4 DEF CallTrue, Serving, Owning, HashOf
<1> QED BY <1>1, <1>3, <1>4, <1>5 DEF Sound, Answer, Owning

\* A debit that is refused, or a transaction that fails.
LEMMA FailureIsSound ==
  ASSUME ApiInv, NEW p \in Procs, NEW r, r = req[p], Insufficient(p) \/ TxError(p)
  PROVE  Sound(p)
<1>1. /\ Keyed(r) /\ pc[p] = "commit" /\ Unwritten(r.key, rows, orders)
      /\ idem[r.key].status = "PROCESSING" /\ idem[r.key].hash = HashOf(r)
  BY DEF ApiInv, CallTrue, Serving, Owning, Insufficient, TxError
<1>2. /\ idem' = idem
      /\ \/ rows' = rows /\ orders' = orders
         \/ TxError(p) /\ r.key \in lost'
  BY DEF Insufficient, TxError, tables, ledger
<1>3. PICK to \in {"INSUFFICIENT_BALANCE", "ERROR"} :
        /\ Goto(p, to)
        /\ to = "INSUFFICIENT_BALANCE" =>
             r.route \in {"WITHDRAWAL", "TRANSFER"} /\ rows' = rows /\ orders' = orders
  BY DEF Insufficient, TxError, tables, ledger
<1>4. pc'[p] = to /\ req' = req
  BY <1>3, Went DEF ApiInv, Controls
<1>5. Unwritten(r.key, rows', orders') \/ (to = "ERROR" /\ r.key \in lost')
  BY <1>1, <1>2, <1>3
<1>6. CallTrue(p)'
  BY <1>1, <1>2, <1>3, <1>4, <1>5 DEF CallTrue, Serving, Owning, HashOf
<1> QED BY <1>1, <1>3, <1>6, WentIsSound DEF Owning, Controls

LEMMA MarkIsSound ==
  ASSUME ApiInv, NEW p \in Procs, NEW r, r = req[p], Mark(p)
  PROVE  Sound(p)
<1> DEFINE k == r.key
<1>1. /\ Keyed(r) /\ pc[p] \in {"INSUFFICIENT_BALANCE", "ERROR"} /\ k \in Keys
      /\ idem[k].status = "PROCESSING" /\ pc[p] \in Owning
      /\ pc[p] = "INSUFFICIENT_BALANCE" =>
           r.route \in {"WITHDRAWAL", "TRANSFER"} /\ Unwritten(k, rows, orders)
  BY DEF ApiInv, CallTrue, Serving, Owning, Mark, Keyed
<1>2. /\ rows' = rows /\ orders' = orders /\ Refuse(p, pc[p])
      /\ idem' = idem \/ idem' = [idem EXCEPT ![k].status = "FAILED", ![k].resp = 0]
  BY DEF Mark, SetKey, ledger
<1>3. idem'[k].status # "NONE"
  BY <1>1, <1>2 DEF ApiInv, TypeOK, KeyRow
<1>4. \A q \in Procs : pc[q] = "commit" => req[q].key # k
  BY <1>1 DEF ApiInv, Apart, Owning
<1>5. Others(p) /\ pc'[p] = "idle"
  BY <1>2, Replied DEF ApiInv, Refuse
<1> HIDE DEF k
<1>6. pc[p] = "INSUFFICIENT_BALANCE" => Dead(k)'
  BY <1>1, <1>2, <1>3, <1>4, <1>5 DEF Dead, Others
<1>7. PICK n \in {422, 500}, c \in {"INSUFFICIENT_BALANCE", "INTERNAL_SERVER_ERROR"} :
        /\ Handle(pc[p]) = <<n, c>> /\ <<n, c>> \in Documented(r.route)
        /\ c = "INSUFFICIENT_BALANCE" => pc[p] = "INSUFFICIENT_BALANCE"
  <2>1. CASE pc[p] = "ERROR"
    BY <1>1, <2>1, Codes, Listed DEF Keyed
  <2>2. CASE pc[p] = "INSUFFICIENT_BALANCE"
    BY <1>1, <2>2, Codes, Listed
  <2> QED BY <1>1, <2>1, <2>2
<1> QED BY <1>1, <1>2, <1>6, <1>7, RefusedIsSound DEF Keyed, MoneyRoutes, k

LEMMA CompleteIsSound ==
  ASSUME ApiInv, NEW p \in Procs, NEW r, r = req[p], Complete(p)
  PROVE  Sound(p)
<1>1. /\ Keyed(r) /\ pc[p] = "complete" /\ r.route \in MoneyRoutes
      /\ Receipt(r, row[p], rows, orders)
  BY MadeIsReceipt DEF ApiInv, CallTrue, Serving, Complete, Keyed
<1>2. /\ rows' = rows /\ orders' = orders
      /\ IF r.route = "WITHDRAWAL" THEN Goto(p, "payout") ELSE Succeed(p, row[p])
  BY DEF Complete, ledger
<1>3. CASE r.route # "WITHDRAWAL"
  BY <1>1, <1>2, <1>3, SucceededIsSound
<1>4. CASE r.route = "WITHDRAWAL"
  <2>1. pc'[p] = "payout" /\ req' = req /\ row' = row
    BY <1>2, <1>4, Went DEF ApiInv, Controls
  <2>2. CallTrue(p)'
    BY <1>1, <1>2, <1>4, <2>1 DEF CallTrue, Serving, Owning
  <2> QED BY <1>2, <1>4, <2>2, WentIsSound DEF Owning, Controls
<1> QED BY <1>3, <1>4

\* What was carried out, and its receipt, outlive what happens to the tables.
LEMMA MadeIsKept ==
  ASSUME NEW r, NEW i, Made(r, i, rows, orders), Kept(rows, rows'),
         \A j \in DOMAIN orders : j \in DOMAIN orders' /\ orders'[j] = orders[j]
  PROVE  Made(r, i, rows', orders')
  BY DEF Made, Kept

LEMMA ReceiptIsKept ==
  ASSUME NEW r, NEW i, Receipt(r, i, rows, orders), Kept(rows, rows'),
         \A j \in DOMAIN orders : j \in DOMAIN orders' /\ orders'[j] = orders[j]
  PROVE  Receipt(r, i, rows', orders')
<1>1. PICK s \in Requests, j \in DOMAIN rows \union DOMAIN orders :
        Twin(s, r) /\ Made(s, j, rows, orders) /\ i = Read(s, r, j)
  BY DEF Receipt
<1>2. Made(s, j, rows', orders') /\ j \in DOMAIN rows' \union DOMAIN orders'
  BY <1>1, MadeIsKept DEF Made
<1> QED BY <1>1, <1>2 DEF Receipt

LEMMA PayoutIsSound ==
  ASSUME ApiInv, NEW p \in Procs, NEW r, r = req[p], Payout(p)
  PROVE  Sound(p)
<1>1. /\ Keyed(r) /\ pc[p] = "payout" /\ r.route = "WITHDRAWAL"
      /\ Receipt(r, row[p], rows, orders)
  BY DEF ApiInv, CallTrue, Serving, Payout
<1>2. CASE Succeed(p, row[p]) /\ UNCHANGED ledger
  <2>1. Receipt(r, row[p], rows', orders')
    BY <1>1, <1>2 DEF Payout, ledger
  <2> QED BY <1>1, <1>2, <2>1, SucceededIsSound DEF MoneyRoutes
<1>3. CASE Refuse(p, "ERROR")
  <2>1. /\ Handle("ERROR") = <<500, "INTERNAL_SERVER_ERROR">>
        /\ <<500, "INTERNAL_SERVER_ERROR">> \in Documented(r.route)
    BY <1>1, Codes, Listed DEF MoneyRoutes
  <2> QED BY <1>1, <1>3, <2>1, RefusedIsSound DEF Final
<1> QED BY <1>2, <1>3 DEF Payout
\* A call that asks for a transaction finds its wallet, or makes it, and looks.
LEMMA DetailIsSound ==
  ASSUME ApiInv, NEW p \in Procs, NEW r, r = req[p],
         GetWallet(p) \/ CreateMissing(p) \/ Show(p)
  PROVE  Sound(p)
<1>1. /\ r.route = "DETAIL" /\ r.id \in DOMAIN rows
  BY DEF ApiInv, CallTrue, GetWallet, CreateMissing, Show
<1>2. UNCHANGED rows
  BY DEF GetWallet, CreateMissing, Show, tables, ledger, Wallet!CreateWallet
<1>3. ASSUME NEW to \in {"create", "show"}, Goto(p, to)
      PROVE  Sound(p)
  <2>1. pc'[p] = to /\ req' = req /\ to \in Controls
    BY <1>3, Went DEF ApiInv, Controls
  <2>2. CallTrue(p)'
    BY <1>1, <1>2, <1>3, <2>1 DEF CallTrue, Serving, Owning
  <2> QED BY <1>3, <2>1, <2>2, WentIsSound DEF Owning
<1>4. CASE Refuse(p, "USER_HAS_WALLET_ALREADY")
  <2>1. /\ Handle("USER_HAS_WALLET_ALREADY") = <<422, "USER_HAS_WALLET_ALREADY">>
        /\ <<422, "USER_HAS_WALLET_ALREADY">> \in Documented(r.route) \union Undocumented
    BY Codes, Listed
  <2> QED BY <1>4, <2>1, RefusedIsSound DEF Final
<1>5. CASE Succeed(p, r.id) /\ rows[r.id].wallet = r.user
  BY <1>1, <1>2, <1>5, SucceededIsSound
<1>6. CASE rows[r.id].wallet # r.user /\ Refuse(p, "TRANSACTION_NOT_FOUND")
  <2>1. /\ Handle("TRANSACTION_NOT_FOUND") = <<404, "TRANSACTION_NOT_FOUND">>
        /\ <<404, "TRANSACTION_NOT_FOUND">> \in Documented(r.route)
    BY <1>1, Codes, Listed
  <2>2. r.id \in DOMAIN rows' /\ rows'[r.id].wallet # r.user
    BY <1>1, <1>2, <1>6
  <2> QED BY <1>6, <2>1, <2>2, RefusedIsSound DEF Final
<1>7. CASE GetWallet(p)
  <2>1. PICK to \in {"create", "show"} : Goto(p, to)
    BY <1>7 DEF GetWallet
  <2> QED BY <1>3, <2>1
<1>8. CASE CreateMissing(p)
  BY <1>3, <1>4, <1>8 DEF CreateMissing
<1>9. CASE Show(p)
  <2>1. IF r.id \in DOMAIN rows /\ rows[r.id].wallet = r.user
        THEN Succeed(p, r.id) ELSE Refuse(p, "TRANSACTION_NOT_FOUND")
    BY <1>9 DEF Show
  <2> QED BY <1>1, <1>5, <1>6, <2>1
<1> QED BY <1>7, <1>8, <1>9

LEMMA PublishIsSound ==
  ASSUME ApiInv, NEW p \in Procs, NEW r, r = req[p], Publish(p)
  PROVE  Sound(p)
<1>1. r \in Requests /\ r.route \in WebhookRoutes
  BY DEF ApiInv, CallTrue, Publish
<1>2. Succeed(p, 0)
  BY DEF Publish
<1> QED BY <1>1, <1>2, SucceededIsSound

LEMMA CallErrorIsSound ==
  ASSUME ApiInv, NEW p \in Procs, NEW r, r = req[p], CallError(p)
  PROVE  Sound(p)
<1>1. r.route \in MoneyRoutes \union {"DETAIL"} \union WebhookRoutes
  BY DEF ApiInv, CallTrue, Serving, Keyed, CallError
<1>2. /\ Handle("ERROR") = <<500, "INTERNAL_SERVER_ERROR">>
      /\ <<500, "INTERNAL_SERVER_ERROR">> \in Documented(r.route)
  BY <1>1, Codes, Listed
<1>3. Refuse(p, "ERROR")
  BY DEF CallError
<1> QED BY <1>2, <1>3, RefusedIsSound DEF Final

LEMMA CutIsSound ==
  ASSUME ApiInv, NEW p \in Procs, Cut(p)
  PROVE  Sound(p)
<1>1. Formed' /\ Others(p) /\ pc'[p] = "idle" /\ req'[p] = NoReq /\ reply' = reply
  BY DEF ApiInv, TypeOK, Formed, Cut, Others, Controls
<1> QED BY <1>1, IdleIsSound DEF Answer

\* What a goroutine may do.
Receives(p) ==
  \E r \in Requests :
    \/ TopUp(p, r) \/ Transfer(p, r) \/ CreateWithdrawal(p, r) \/ CreateTopUpCheckout(p, r)
    \/ GetTransactionDetail(p, r) \/ MidtransNotification(p, r) \/ XenditNotification(p, r)

Serves(p) ==
  \/ FindWallets(p) \/ Claim(p) \/ Commit(p) \/ Insufficient(p) \/ TxError(p)
  \/ Mark(p) \/ Complete(p) \/ Payout(p)
  \/ GetWallet(p) \/ CreateMissing(p) \/ Show(p) \/ Publish(p)
  \/ CallError(p) \/ Cut(p)

LEMMA ReceiveIsSound ==
  ASSUME ApiInv, NEW p \in Procs, Receives(p)
  PROVE  Sound(p) /\ UNCHANGED tables
<1>1. PICK r \in Requests :
        \/ TopUp(p, r) \/ Transfer(p, r) \/ CreateWithdrawal(p, r) \/ CreateTopUpCheckout(p, r)
        \/ GetTransactionDetail(p, r) \/ MidtransNotification(p, r) \/ XenditNotification(p, r)
  BY DEF Receives
<1>2. CASE TopUp(p, r) \/ Transfer(p, r) \/ CreateWithdrawal(p, r)
  <2>1. r.route \in MoneyRoutes /\ r.route # "CHECKOUT" /\ Receive(p, r, MoneyChecks, "find")
    BY <1>2 DEF TopUp, Transfer, CreateWithdrawal, MoneyRoutes
  <2> QED BY <2>1, MoneyReceived
<1>3. CASE CreateTopUpCheckout(p, r)
  <2>1. r.route \in MoneyRoutes /\ Receive(p, r, MoneyChecks, "claim")
    BY <1>3 DEF CreateTopUpCheckout, MoneyRoutes
  <2> QED BY <2>1, MoneyReceived
<1>4. CASE MidtransNotification(p, r) \/ XenditNotification(p, r)
  <2>1. /\ r.route \in WebhookRoutes
        /\ Receive(p, r, <<"size", "body", "signature">>, "publish")
    BY <1>4 DEF MidtransNotification, XenditNotification, WebhookRoutes
  <2> QED BY <2>1, HookReceived
<1> QED BY <1>1, <1>2, <1>3, <1>4, DetailReceived

LEMMA ServeIsSound ==
  ASSUME ApiInv, NEW p \in Procs, Serves(p)
  PROVE  Sound(p)
  BY FindWalletsIsSound, ClaimIsSound, CommitIsSound, FailureIsSound, MarkIsSound,
     CompleteIsSound, PayoutIsSound, DetailIsSound, PublishIsSound, CallErrorIsSound,
     CutIsSound DEF Serves
-------------------------------------------------------------------------------
\* What a step may do to the tables.

KeyStep(k) ==
  \/ idem'[k] = idem[k]
  \/ idem[k].status = "NONE" /\ idem'[k].status = "PROCESSING"
  \/ \E p \in Procs :
       /\ pc[p] \in Owning /\ req[p].key = k /\ pc'[p] \notin Owning
       /\ idem'[k].hash = idem[k].hash /\ UNCHANGED <<rows, orders>>
       /\ \/ pc[p] # "complete" /\ idem'[k].status = "FAILED"
          \/ pc[p] = "complete" /\ idem'[k].status = "COMPLETED" /\ idem'[k].resp = row[p]

\* The call is carried out, whatever it is told.
Performs(p) ==
  /\ pc[p] = "commit"
  /\ pc'[p] = "complete" \/ (pc'[p] = "ERROR" /\ req[p].key \in lost')

NewRow(i) ==
  \/ rows'[i].key = NoKey
  \/ \E p \in Procs : Performs(p) /\ From(req[p], rows', i)

NewOrder(i) ==
  \E p \in Procs : /\ Performs(p) /\ req[p].route = "CHECKOUT"
                   /\ orders'[i] = OrderOf(req[p])

TablesTyped ==
  /\ Wallet!TypeOK /\ idem \in [Keys -> KeyRow]
  /\ orders \in Seq(OrderRow)
  /\ published \subseteq {r \in Requests : r.route \in WebhookRoutes /\ ~Unsigned(r)}
  /\ lost \subseteq Keys

Steady ==
  /\ TablesTyped' /\ lost \subseteq lost' /\ Kept(rows, rows')
  /\ \A i \in DOMAIN orders : i \in DOMAIN orders' /\ orders'[i] = orders[i]
  /\ \A i \in DOMAIN rows' \ DOMAIN rows : NewRow(i)
  /\ \A i \in DOMAIN orders' \ DOMAIN orders : NewOrder(i)
  /\ \A k \in Keys : KeyStep(k)

\* A step that changes rows only.
LEMMA RowsOnly ==
  ASSUME TypeOK, UNCHANGED <<idem, orders, published, lost>>, Wallet!TypeOK', Kept(rows, rows'),
         \A i \in DOMAIN rows' \ DOMAIN rows : NewRow(i)
  PROVE  Steady
<1>1. TablesTyped'
  BY DEF TypeOK, TablesTyped, OrderRow
<1>2. \A k \in Keys : KeyStep(k)
  BY DEF KeyStep
<1> QED BY <1>1, <1>2 DEF Steady

\* A step that leaves the tables alone.
LEMMA TablesSame ==
  ASSUME TypeOK, UNCHANGED tables
  PROVE  Steady
<1>1. UNCHANGED <<wallets, balance, rows, idem, orders, published, lost>>
  BY DEF tables, ledger
<1>2. Wallet!TypeOK' /\ Kept(rows, rows')
  BY <1>1, SameRows DEF TypeOK, Kept
<1> QED BY <1>1, <1>2, RowsOnly

\* A step of the wallet domain that no request asked for.
LEMMA WalletStep ==
  ASSUME TypeOK, UNCHANGED <<idem, orders, published, lost>>,
         \/ UNCHANGED ledger
         \/ \E w \in Wallets : Wallet!CreateWallet(w)
         \/ \E i \in DOMAIN rows : Wallet!ReverseWithdrawal(i) \/ Wallet!FinalizeWithdrawal(i)
  PROVE  Steady
<1>1. CASE UNCHANGED ledger
  BY <1>1, TablesSame DEF tables
<1>2. CASE \E w \in Wallets : Wallet!CreateWallet(w)
  <2>1. Wallet!TypeOK' /\ rows' = rows
    BY <1>2, SameRows DEF TypeOK, Wallet!CreateWallet
  <2>2. Kept(rows, rows')
    BY <2>1 DEF Kept
  <2> QED BY <2>1, <2>2, RowsOnly
<1>3. CASE \E i \in DOMAIN rows : Wallet!ReverseWithdrawal(i) \/ Wallet!FinalizeWithdrawal(i)
  BY <1>3, SettleKeeps, RowsOnly DEF NewRow
<1> QED BY <1>1, <1>2, <1>3

\* A step that changes one key only.
LEMMA KeyOnly ==
  ASSUME TypeOK, NEW k \in Keys, NEW row1 \in KeyRow, idem' = [idem EXCEPT ![k] = row1],
         UNCHANGED <<ledger, orders, published, lost>>, KeyStep(k)
  PROVE  Steady
<1>1. UNCHANGED <<wallets, balance, rows, orders, published, lost>>
  BY DEF ledger
<1>2. Wallet!TypeOK' /\ Kept(rows, rows')
  BY <1>1, SameRows DEF TypeOK, Kept
<1>3. idem' \in [Keys -> KeyRow] /\ \A j \in Keys : KeyStep(j)
  BY DEF TypeOK, KeyStep
<1>4. TablesTyped'
  BY <1>1, <1>2, <1>3 DEF TypeOK, TablesTyped, OrderRow
<1> QED BY <1>1, <1>2, <1>3, <1>4 DEF Steady

LEMMA ClaimIsSteady ==
  ASSUME ApiInv, NEW p \in Procs, Claim(p)
  PROVE  Steady
<1> DEFINE r == req[p]
           k == r.key
           hash == HashOf(r)
           new == [status |-> "PROCESSING", hash |-> hash, resp |-> 0]
<1>1. Keyed(r) /\ k \in Keys /\ TypeOK
  BY DEF ApiInv, CallTrue, Serving, Claim, Keyed
<1>2. CASE UNCHANGED tables
  BY <1>1, <1>2, TablesSame
<1>3. CASE Unknown(k) /\ InsertKey(k, hash) /\ UNCHANGED <<ledger, orders, published, lost>>
  <2>1. hash \in (Wallets \union {0}) \X Int
    BY <1>1, Data
  <2> HIDE DEF hash
  <2>2. new \in KeyRow
    BY <2>1 DEF KeyRow
  <2>3. idem' = [idem EXCEPT ![k] = new]
    BY <1>3 DEF InsertKey
  <2>4. KeyStep(k)
    BY <1>1, <1>3, <2>3 DEF KeyStep, Unknown, TypeOK
  <2> HIDE DEF new, k
  <2> QED BY <1>1, <1>3, <2>2, <2>3, <2>4, KeyOnly
<1> QED BY <1>2, <1>3 DEF Claim

LEMMA PerformIsSteady ==
  ASSUME ApiInv, NEW p \in Procs, Performs(p), Perform(req[p]), UNCHANGED <<idem, published>>,
         lost \subseteq lost', lost' \subseteq Keys
  PROVE  Steady
<1>1. /\ Wallet!TypeOK' /\ Kept(rows, rows')
      /\ orders' \in Seq(OrderRow)
      /\ \A i \in DOMAIN rows' \ DOMAIN rows : From(req[p], rows', i)
      /\ \A i \in DOMAIN orders : i \in DOMAIN orders' /\ orders'[i] = orders[i]
      /\ \A i \in DOMAIN orders' \ DOMAIN orders :
           req[p].route = "CHECKOUT" /\ orders'[i] = OrderOf(req[p])
  BY PerformAdds DEF Performs
<1>2. UNCHANGED <<idem, published>>
  OBVIOUS
<1>3. TablesTyped'
  BY <1>1, <1>2 DEF ApiInv, TypeOK, TablesTyped
<1> QED BY <1>1, <1>2, <1>3 DEF Steady, NewRow, NewOrder, KeyStep

\* A call that is carried out, or fails, or is carried out and told that it failed.
LEMMA CommitIsSteady ==
  ASSUME ApiInv, NEW p \in Procs, Commit(p) \/ TxError(p)
  PROVE  Steady
<1>1. TypeOK /\ pc[p] = "commit" /\ req[p].key \in Keys
  BY DEF ApiInv, CallTrue, Serving, Keyed, Commit, TxError
<1>2. CASE Commit(p)
  <2>1. pc'[p] = "complete" /\ UNCHANGED <<idem, published, lost>> /\ Perform(req[p])
    BY <1>1, <1>2 DEF Commit, TypeOK
  <2> QED BY <1>1, <2>1, PerformIsSteady DEF Performs, TypeOK
<1>3. CASE TxError(p)
  <2>1. pc'[p] = "ERROR"
    BY <1>1, <1>3, Went DEF TxError, Controls
  <2>2. CASE UNCHANGED tables
    BY <1>1, <2>2, TablesSame
  <2>3. CASE /\ Perform(req[p]) /\ lost' = lost \union {req[p].key}
             /\ UNCHANGED <<idem, published>>
    BY <1>1, <2>1, <2>3, PerformIsSteady DEF Performs, TypeOK
  <2> QED BY <1>3, <2>2, <2>3 DEF TxError
<1> QED BY <1>2, <1>3

\* A key is marked, or the update fails.
LEMMA MarkIsSteady ==
  ASSUME ApiInv, NEW p \in Procs, Mark(p) \/ Complete(p)
  PROVE  Steady
<1> DEFINE k == req[p].key
<1>1. /\ k \in Keys /\ pc[p] \in Owning /\ TypeOK /\ row[p] \in Nat
      /\ UNCHANGED <<ledger, orders, published, lost>>
  BY DEF ApiInv, CallTrue, Serving, Owning, Keyed, TypeOK, Mark, Complete
<1>2. pc'[p] \notin Owning
  <2>1. CASE Mark(p)
    BY <1>1, <2>1, Replied DEF Mark, Refuse, Owning
  <2>2. CASE Complete(p)
    BY <1>1, <2>2, Replied, Went DEF Complete, Succeed, Owning, Controls
  <2> QED BY <2>1, <2>2
<1>3. ASSUME NEW s \in {"FAILED", "COMPLETED"}, NEW i \in Nat, SetKey(k, s, i),
             \/ pc[p] # "complete" /\ s = "FAILED"
             \/ pc[p] = "complete" /\ s = "COMPLETED" /\ i = row[p]
      PROVE  Steady
  <2> DEFINE new == [idem[k] EXCEPT !.status = s, !.resp = i]
  <2>1. /\ new \in KeyRow /\ new.hash = idem[k].hash /\ new.status = s /\ new.resp = i
    BY <1>1 DEF TypeOK, KeyRow
  <2>2. idem' = [idem EXCEPT ![k] = new]
    BY <1>1, <1>3 DEF SetKey, TypeOK
  <2> HIDE DEF new
  <2>3. idem'[k] = new
    BY <1>1, <2>2 DEF TypeOK
  <2>4. KeyStep(k)
    BY <1>1, <1>2, <1>3, <2>1, <2>3 DEF KeyStep, ledger
  <2> HIDE DEF k
  <2> QED BY <1>1, <2>1, <2>2, <2>4, KeyOnly
<1>4. CASE UNCHANGED idem
  BY <1>1, <1>4, TablesSame DEF tables
<1>5. CASE Mark(p) /\ SetKey(k, "FAILED", 0)
  BY <1>3, <1>5 DEF Mark
<1>6. CASE Complete(p) /\ SetKey(k, "COMPLETED", row[p])
  BY <1>1, <1>3, <1>6 DEF Complete
<1> QED BY <1>4, <1>5, <1>6 DEF Mark, Complete

LEMMA ServeIsSteady ==
  ASSUME ApiInv, NEW p \in Procs, Serves(p)
  PROVE  Steady
<1>1. TypeOK
  BY DEF ApiInv
<1>2. CASE \/ FindWallets(p) \/ Insufficient(p) \/ GetWallet(p) \/ Show(p)
           \/ CallError(p) \/ Cut(p)
  <2>1. UNCHANGED tables
    BY <1>2 DEF FindWallets, Insufficient, GetWallet, Show, CallError, Cut, tables
  <2> QED BY <1>1, <2>1, TablesSame
<1>3. CASE Payout(p)
  <2>1. /\ UNCHANGED <<idem, orders, published, lost>>
        /\ UNCHANGED ledger \/ Wallet!ReverseWithdrawal(row[p])
    BY <1>3 DEF Payout
  <2>2. Wallet!ReverseWithdrawal(row[p]) => row[p] \in DOMAIN rows
    BY DEF Wallet!ReverseWithdrawal, Wallet!IsPending
  <2> QED BY <1>1, <2>1, <2>2, WalletStep
<1>4. CASE CreateMissing(p)
  <2>1. pc[p] = "create" /\ req[p].route = "DETAIL"
    BY <1>4 DEF ApiInv, CallTrue, CreateMissing
  <2>2. req[p].user \in Wallets
    BY <1>1, <2>1, Data DEF TypeOK, Request
  <2>3. /\ UNCHANGED <<idem, orders, published, lost>>
        /\ UNCHANGED ledger \/ Wallet!CreateWallet(req[p].user)
    BY <1>4 DEF CreateMissing
  <2> QED BY <1>1, <2>2, <2>3, WalletStep
<1>5. CASE Publish(p)
  <2>1. req[p] \in Requests /\ req[p].route \in WebhookRoutes /\ ~Unsigned(req[p])
    BY <1>5 DEF ApiInv, CallTrue, Publish
  <2>2. /\ UNCHANGED <<wallets, balance, rows, idem, orders, lost>>
        /\ published' = published \union {req[p]} \/ published' = published
    BY <1>5 DEF Publish, ledger
  <2>3. TablesTyped'
    BY <1>1, <2>1, <2>2, SameRows DEF TypeOK, TablesTyped, OrderRow
  <2> QED BY <2>2, <2>3 DEF Steady, KeyStep, Kept
<1> QED BY <1>2, <1>3, <1>4, <1>5, ClaimIsSteady, CommitIsSteady, MarkIsSteady DEF Serves
-------------------------------------------------------------------------------
\* What one goroutine does leaves true what the others rely on.

Stays(q) == /\ pc'[q] = pc[q] /\ req'[q] = req[q] /\ row'[q] = row[q] /\ reply'[q] = reply[q]

Joins(p) == pc[p] = "claim" /\ Unknown(req[p].key)

Moved ==
  /\ Formed'
  /\ \A p \in Procs : req'[p].route \in MoneyRoutes => req'[p].amount \in Amounts
  /\ \A p \in Procs : Stays(p) \/ CallTrue(p)'
  /\ \A p \in Procs : Answer(p)
  /\ \A p \in Procs : pc'[p] \in Owning => req'[p] = req[p] /\ (pc[p] \in Owning \/ Joins(p))
  /\ \A p \in Procs : pc'[p] = "commit" => req'[p] = req[p] /\ (pc[p] = "commit" \/ Joins(p))
  /\ \A p, q \in Procs : p = q \/ Stays(p) \/ Stays(q)

LEMMA SoundMoves ==
  ASSUME ApiInv, NEW p \in Procs, Sound(p)
  PROVE  Moved
<1>1. \A q \in Procs : q = p \/ Stays(q)
  BY DEF Sound, Others, Stays
<1>2. \A q \in Procs : req'[q].route \in MoneyRoutes => req'[q].amount \in Amounts
  BY <1>1 DEF Sound, Stays, ApiInv, TypeOK
<1>3. \A q \in Procs : pc'[q] \in Owning => req'[q] = req[q] /\ (pc[q] \in Owning \/ Joins(q))
  BY <1>1 DEF Sound, Stays, Joins
<1>4. \A q \in Procs : pc'[q] = "commit" => req'[q] = req[q] /\ (pc[q] = "commit" \/ Joins(q))
  BY <1>1 DEF Sound, Stays, Joins
<1>5. \A q \in Procs : Answer(q)
  BY <1>1 DEF Sound, Stays, Answer
<1>6. \A q \in Procs : Stays(q) \/ CallTrue(q)'
  BY <1>1 DEF Sound
<1> QED BY <1>1, <1>2, <1>3, <1>4, <1>5, <1>6 DEF Sound, Moved

LEMMA QuietMoves ==
  ASSUME ApiInv, UNCHANGED <<pc, call>>
  PROVE  Moved
<1>1. pc' = pc /\ req' = req /\ row' = row /\ reply' = reply
  BY DEF call
<1>2. \A q \in Procs : Stays(q) /\ Answer(q)
  BY <1>1 DEF Stays, Answer
<1> QED BY <1>1, <1>2 DEF Moved, Formed, ApiInv, TypeOK

\* A key that was claimed stays claimed, with its payload.
LEMMA KeyIsKept ==
  ASSUME Steady, NEW k \in Keys, idem[k].status # "NONE"
  PROVE  idem'[k].status # "NONE" /\ idem'[k].hash = idem[k].hash
  BY DEF Steady, KeyStep

\* A key is written with by its owner only.
LEMMA UnwrittenIsKept ==
  ASSUME Steady, NEW k \in Keys, Unwritten(k, rows, orders),
         \A p \in Procs : Performs(p) => req[p].key # k
  PROVE  Unwritten(k, rows', orders')
<1>1. ASSUME NEW i \in DOMAIN rows' PROVE rows'[i].key # k
  <2>1. CASE i \in DOMAIN rows
    BY <2>1 DEF Unwritten, Steady, Kept
  <2>2. CASE i \notin DOMAIN rows
    BY <2>2, KeysAssumption DEF Steady, NewRow, From
  <2> QED BY <2>1, <2>2
<1>2. ASSUME NEW i \in DOMAIN orders' PROVE orders'[i].key # k
  <2>1. CASE i \in DOMAIN orders
    BY <2>1 DEF Unwritten, Steady
  <2>2. CASE i \notin DOMAIN orders
    BY <2>2 DEF Steady, NewOrder, OrderOf
  <2> QED BY <2>1, <2>2
<1> QED BY <1>1, <1>2 DEF Unwritten

\* An owner that stays owns.
LEMMA CallIsKept ==
  ASSUME ApiInv, Steady, NEW q \in Procs, Stays(q)
  PROVE  CallTrue(q)'
<1> DEFINE k == req[q].key
<1>1. pc'[q] = pc[q] /\ req'[q] = req[q] /\ row'[q] = row[q] /\ CallTrue(q)
  BY DEF ApiInv, Stays
<1>2. ASSUME pc[q] \in Owning
      PROVE  /\ k \in Keys /\ idem'[k] = idem[k]
             /\ \A p \in Procs : Performs(p) => req[p].key # k
  <2>1. k \in Keys /\ idem[k].status = "PROCESSING"
    BY <1>1, <1>2 DEF CallTrue, Owning, Serving, Keyed
  <2>2. \A p \in Procs : pc[p] \in Owning /\ req[p].key = k => p = q
    BY <1>2 DEF ApiInv, Apart
  <2>3. KeyStep(k)
    BY <2>1 DEF Steady
  <2>4. idem'[k] = idem[k]
    BY <1>1, <1>2, <2>1, <2>2, <2>3 DEF KeyStep
  <2> QED BY <1>1, <2>1, <2>2, <2>4 DEF Owning, Performs
<1>3. ASSUME pc[q] \in Owning \ {"complete"}
      PROVE  Unwritten(k, rows', orders') \/ (pc[q] = "ERROR" /\ k \in lost')
  <2>1. CASE Unwritten(k, rows, orders)
    BY <1>2, <1>3, <2>1, UnwrittenIsKept
  <2>2. CASE pc[q] = "ERROR" /\ k \in lost
    BY <2>2 DEF Steady
  <2> QED BY <1>1, <1>3, <2>1, <2>2 DEF CallTrue
<1>4. /\ pc[q] = "complete" => Made(req[q], row[q], rows', orders')
      /\ pc[q] = "payout" => Receipt(req[q], row[q], rows', orders')
  BY <1>1, MadeIsKept, ReceiptIsKept DEF CallTrue, Steady
<1>5. ASSUME pc[q] \in {"wallet", "create", "show"}
      PROVE  req[q].id \in DOMAIN rows'
  BY <1>1, <1>5 DEF CallTrue, Steady, Kept
<1> HIDE DEF k
<1>6. pc[q] \in Owning =>
        idem'[req[q].key].status = "PROCESSING" /\ idem'[req[q].key].hash = HashOf(req[q])
  BY <1>1, <1>2 DEF CallTrue, k
<1> QED BY <1>1, <1>3, <1>4, <1>5, <1>6 DEF CallTrue, HashOf, k
\* A dead key stays dead: nobody can claim it.
LEMMA DeadIsKept ==
  ASSUME Steady, Moved, NEW k \in Keys, Dead(k)
  PROVE  Dead(k)'
<1>1. idem'[k].status # "NONE"
  BY KeyIsKept DEF Dead
<1>2. Unwritten(k, rows', orders')
  BY UnwrittenIsKept DEF Dead, Performs
<1>3. ASSUME NEW p \in Procs, pc'[p] = "commit" PROVE req'[p].key # k
  BY <1>3 DEF Dead, Moved, Joins, Unknown
<1> QED BY <1>1, <1>2, <1>3 DEF Dead

\* What was answered stays true.
LEMMA AnswerIsKept ==
  ASSUME ApiInv, Steady, Moved, NEW q \in Procs, reply'[q] = reply[q]
  PROVE  Right(reply'[q]) /\ AnswerTrue(q)'
<1> DEFINE a == reply[q]
           r == reply[q].req
<1>1. Right(a) /\ AnswerTrue(q)
  BY DEF ApiInv
<1>2. a.http[1] = 201 => Receipt(r, a.row, rows', orders')
  BY <1>1, ReceiptIsKept DEF AnswerTrue, Steady
<1>3. a.http[1] = 200 /\ r.route \in WebhookRoutes => a.row = 0
  BY <1>1 DEF AnswerTrue
<1>4. r.route = "DETAIL" /\ a.http[1] = 200 =>
        /\ a.row = r.id /\ r.id \in DOMAIN rows' /\ rows'[r.id].wallet = r.user
        /\ a.status \in {"SUCCESS", "FAILED"} => rows'[r.id].status = a.status
  BY <1>1 DEF AnswerTrue, Steady, Kept
<1>5. r.route = "DETAIL" /\ a.http[1] = 404 =>
        r.id \in DOMAIN rows' /\ rows'[r.id].wallet # r.user
  BY <1>1 DEF AnswerTrue, Steady, Kept
<1>6. a.http[2] \in Final => r.key \in Keys
  BY <1>1 DEF Right, Keyed
<1>7. /\ a.http[2] = "INSUFFICIENT_BALANCE" => Dead(reply[q].req.key)'
      /\ a.http[2] = "PREVIOUS_ATTEMPT_FAILED" => Dead(reply[q].req.key)' \/ r.key \in lost'
  <2>1. ASSUME r.key \in Keys, Dead(r.key) PROVE Dead(reply[q].req.key)'
    <3>1. PICK k \in Keys : k = r.key /\ Dead(k)
      BY <2>1
    <3>2. Dead(k)'
      BY <3>1, DeadIsKept
    <3> QED BY <3>1, <3>2 DEF Dead
  <2>2. r.key \in lost => r.key \in lost'
    BY DEF Steady
  <2> QED BY <1>1, <1>6, <2>1, <2>2 DEF AnswerTrue, Final
<1>8. a.http[2] = "IDEMPOTENCY_KEY_CONFLICT" =>
        idem'[r.key].status # "NONE" /\ idem'[r.key].hash # HashOf(r)
  BY <1>1, <1>6, KeyIsKept DEF AnswerTrue, Final
<1>9. a.http[2] = "SELF_TRANSFER_NOT_ALLOWED" => r.route = "TRANSFER" /\ r.to = r.user
  BY <1>1 DEF AnswerTrue
<1> HIDE DEF a, r
<1>10. reply'[q] = a /\ reply'[q].req = r
  BY DEF a, r
<1> QED BY <1>1, <1>2, <1>3, <1>4, <1>5, <1>7, <1>8, <1>9, <1>10 DEF AnswerTrue, HashOf

\* Two owners of a key are one.
LEMMA ApartIsKept ==
  ASSUME ApiInv, Moved, NEW p \in Procs, NEW q \in Procs
  PROVE  Apart(p, q)'
<1>1. SUFFICES ASSUME pc'[p] \in Owning, pc'[q] \in Owning, req'[p].key = req'[q].key, p # q
               PROVE  FALSE
  BY DEF Apart
<1>2. /\ req[p].key = req[q].key
      /\ Stays(p) \/ Stays(q)
  BY <1>1 DEF Moved
<1>3. /\ pc[p] \in Owning => idem[req[p].key].status = "PROCESSING"
      /\ pc[q] \in Owning => idem[req[q].key].status = "PROCESSING"
  BY DEF ApiInv, CallTrue
<1>4. pc[p] \in Owning \/ Joins(p)
  BY <1>1 DEF Moved
<1>5. pc[q] \in Owning \/ Joins(q)
  BY <1>1 DEF Moved
<1>6. pc[p] \in Owning \/ pc[q] \in Owning
  BY <1>1, <1>2 DEF Stays
<1>7. pc[p] \in Owning /\ pc[q] \in Owning
  BY <1>2, <1>3, <1>4, <1>5, <1>6 DEF Joins, Unknown
<1> QED BY <1>1, <1>2, <1>7 DEF ApiInv, Apart

\* The owner of a key writes rows or one order, once.
LEMMA OneKindIsKept ==
  ASSUME ApiInv, Steady, NEW k \in Keys
  PROVE  OneKind(k, rows', orders')
<1>1. \A p \in Procs : Performs(p) /\ req[p].key = k => Unwritten(k, rows, orders)
  BY DEF ApiInv, CallTrue, Owning, Performs
<1>2. \A p, q \in Procs :
        Performs(p) /\ Performs(q) /\ req[p].key = k /\ req[q].key = k => p = q
  BY DEF ApiInv, Apart, Owning, Performs
<1>3. ASSUME NEW i \in DOMAIN rows', rows'[i].key = k
      PROVE  \/ \E j \in DOMAIN rows : rows[j].key = k
             \/ \E p \in Procs : /\ Performs(p) /\ req[p].key = k
                                /\ req[p].route # "CHECKOUT"
  <2>1. CASE i \in DOMAIN rows
    BY <1>3, <2>1 DEF Steady, Kept
  <2>2. CASE i \notin DOMAIN rows
    BY <1>3, <2>2, KeysAssumption DEF Steady, NewRow, From
  <2> QED BY <2>1, <2>2
<1>4. ASSUME NEW i \in DOMAIN orders', orders'[i].key = k
      PROVE  \/ \E j \in DOMAIN orders : orders[j].key = k
             \/ \E p \in Procs : /\ Performs(p) /\ req[p].key = k
                                /\ req[p].route = "CHECKOUT"
  BY <1>4 DEF Steady, NewOrder, OrderOf
<1>5. OneKind(k, rows, orders)
  BY DEF ApiInv, KeyTrue
<1>6. CASE \E p \in Procs : Performs(p) /\ req[p].key = k
  BY <1>1, <1>2, <1>3, <1>4, <1>6 DEF OneKind, Unwritten
<1>7. CASE ~\E p \in Procs : Performs(p) /\ req[p].key = k
  BY <1>3, <1>4, <1>5, <1>7 DEF OneKind
<1> QED BY <1>6, <1>7

\* What a key says of the tables stays true.
LEMMA KeyIsTrue ==
  ASSUME ApiInv, Steady, NEW k \in Keys
  PROVE  KeyTrue(k)'
<1>0. OneKind(k, rows', orders') /\ lost \subseteq lost'
  BY OneKindIsKept DEF Steady
<1>1. KeyTrue(k) /\ KeyStep(k)
  BY DEF ApiInv, Steady
<1>2. \A p \in Procs : pc[p] \in Owning =>
        /\ Keyed(req[p]) /\ idem[req[p].key].status = "PROCESSING"
        /\ idem[req[p].key].hash = HashOf(req[p])
        /\ pc[p] # "complete" =>
             Unwritten(req[p].key, rows, orders) \/ req[p].key \in lost
        /\ pc[p] = "complete" => Made(req[p], row[p], rows, orders)
  BY DEF ApiInv, CallTrue, Owning, Serving
<1>3. CASE idem'[k] = idem[k]
  <2>1. ASSUME idem[k].status \in {"NONE", "FAILED"}, Unwritten(k, rows, orders)
        PROVE  Unwritten(k, rows', orders')
    <3>1. Unwritten(k, rows, orders)
      BY <2>1
    <3>2. \A p \in Procs : Performs(p) => req[p].key # k
      BY <1>2, <2>1 DEF Owning, Performs
    <3> QED BY <3>1, <3>2, UnwrittenIsKept
  <2>2. ASSUME idem[k].status = "COMPLETED"
        PROVE  \E r \in Requests : /\ Keyed(r) /\ r.key = k /\ idem[k].hash = HashOf(r)
                                   /\ Made(r, idem[k].resp, rows', orders')
    BY <1>1, <2>2, MadeIsKept DEF KeyTrue, Steady
  <2> QED BY <1>0, <1>1, <1>3, <2>1, <2>2 DEF KeyTrue
<1>4. CASE idem'[k].status = "PROCESSING"
  BY <1>0, <1>4 DEF KeyTrue
<1>5. ASSUME NEW p \in Procs, pc[p] \in Owning, req[p].key = k, UNCHANGED <<rows, orders>>,
             idem'[k].hash = idem[k].hash, pc[p] # "complete", idem'[k].status = "FAILED"
      PROVE  KeyTrue(k)'
  BY <1>0, <1>2, <1>5 DEF KeyTrue
<1>6. ASSUME NEW p \in Procs, pc[p] \in Owning, req[p].key = k, UNCHANGED <<rows, orders>>,
             idem'[k].hash = idem[k].hash, pc[p] = "complete",
             idem'[k].status = "COMPLETED", idem'[k].resp = row[p]
      PROVE  KeyTrue(k)'
  <2>1. \E r \in Requests : /\ Keyed(r) /\ r.key = k /\ idem'[k].hash = HashOf(r)
                            /\ Made(r, idem'[k].resp, rows', orders')
    BY <1>2, <1>6 DEF Keyed
  <2> QED BY <1>0, <1>6, <2>1 DEF KeyTrue
<1> QED BY <1>1, <1>3, <1>4, <1>5, <1>6 DEF KeyStep

\* Every row and order with a key has the request that claimed it.
LEMMA RowIsTrue ==
  ASSUME ApiInv, Steady, NEW i \in DOMAIN rows'
  PROVE  RowTrue(rows', i, idem')
<1>1. ASSUME NEW r, Keyed(r), Claimed(r, idem) PROVE Claimed(r, idem')
  BY <1>1, KeyIsKept DEF Claimed, Keyed
<1>2. CASE i \in DOMAIN rows
  <2>1. SUFFICES ASSUME rows'[i].key # NoKey PROVE RowTrue(rows', i, idem')
    BY DEF RowTrue
  <2>2. PICK r \in Requests : From(r, rows, i) /\ Claimed(r, idem)
    BY <1>2, <2>1 DEF ApiInv, RowTrue, Steady, Kept
  <2>3. From(r, rows', i)
    BY <1>2, <2>2 DEF From, Steady, Kept
  <2> QED BY <1>1, <2>2, <2>3 DEF RowTrue, From
<1>3. CASE i \notin DOMAIN rows
  <2>1. SUFFICES ASSUME rows'[i].key # NoKey PROVE RowTrue(rows', i, idem')
    BY DEF RowTrue
  <2>2. PICK p \in Procs : pc[p] = "commit" /\ From(req[p], rows', i)
    BY <1>3, <2>1 DEF Steady, NewRow, Performs
  <2>3. Keyed(req[p]) /\ req[p] \in Requests /\ Claimed(req[p], idem)
    BY <2>2 DEF ApiInv, CallTrue, Serving, Owning, Keyed, Claimed
  <2> QED BY <1>1, <2>2, <2>3 DEF RowTrue
<1> QED BY <1>2, <1>3

LEMMA OrderIsTrue ==
  ASSUME ApiInv, Steady, NEW i \in DOMAIN orders'
  PROVE  OrderTrue(orders'[i], idem')
<1>1. ASSUME NEW r, Keyed(r), Claimed(r, idem) PROVE Claimed(r, idem')
  BY <1>1, KeyIsKept DEF Claimed, Keyed
<1>2. CASE i \in DOMAIN orders
  BY <1>1, <1>2 DEF ApiInv, OrderTrue, Steady
<1>3. CASE i \notin DOMAIN orders
  <2>1. PICK p \in Procs : /\ pc[p] = "commit" /\ req[p].route = "CHECKOUT"
                           /\ orders'[i] = OrderOf(req[p])
    BY <1>3 DEF Steady, NewOrder, Performs
  <2>2. Keyed(req[p]) /\ req[p] \in Requests /\ Claimed(req[p], idem)
    BY <2>1 DEF ApiInv, CallTrue, Serving, Owning, Keyed, Claimed
  <2> QED BY <1>1, <2>1, <2>2 DEF OrderTrue
<1> QED BY <1>2, <1>3
-------------------------------------------------------------------------------
\* The invariant.

LEMMA StepKeeps ==
  ASSUME ApiInv, Steady, Moved
  PROVE  ApiInv'
<1>1. TypeOK'
  BY DEF Steady, Moved, TablesTyped, Formed, TypeOK, OrderRow
<1>2. \A q \in Procs : CallTrue(q)'
  BY CallIsKept DEF Moved
<1>3. \A q \in Procs : (Right(reply[q]) /\ AnswerTrue(q))'
  BY AnswerIsKept DEF Moved, Answer
<1> QED BY <1>1, <1>2, <1>3, ApartIsKept, KeyIsTrue, RowIsTrue, OrderIsTrue DEF ApiInv

LEMMA InvInit ==
  ASSUME Init
  PROVE  ApiInv
<1>1. /\ wallets = {} /\ rows = <<>> /\ orders = <<>> /\ published = {} /\ lost = {}
      /\ \A w \in Wallets : balance[w] = 0
      /\ \A k \in Keys : idem[k] = [status |-> "NONE", hash |-> <<0, 0>>, resp |-> 0]
      /\ \A p \in Procs : pc[p] = "idle" /\ req[p] = NoReq /\ reply[p] = NoReply
      /\ DOMAIN rows = {} /\ DOMAIN orders = {}
  BY DEF Init, NoKeys
<1>2. TypeOK
  <2>1. balance \in [Wallets -> Balances]
    BY MaxIntAssumption DEF Init, Balances
  <2>2. Wallet!TypeOK
    BY <1>1, <2>1, SameRows, EmptySeq
  <2>3. idem \in [Keys -> KeyRow]
    BY DEF Init, NoKeys, KeyRow
  <2>4. orders \in Seq([key : Keys, user : Wallets, amount : Amounts])
    BY <1>1, EmptySeq
  <2>5. Formed
    BY DEF Init, Formed, Controls
  <2>6. \A p \in Procs : req[p].route \notin MoneyRoutes
    BY <1>1 DEF NoReq, MoneyRoutes
  <2> QED BY <1>1, <2>2, <2>3, <2>4, <2>5, <2>6 DEF TypeOK, Formed
<1>3. \A p \in Procs : CallTrue(p)
  BY <1>1 DEF CallTrue, Serving, Owning
<1>4. \A p, q \in Procs : Apart(p, q)
  BY <1>1 DEF Apart, Owning
<1>5. \A k \in Keys : KeyTrue(k)
  BY <1>1 DEF KeyTrue, Unwritten, OneKind
<1>6. ASSUME NEW p \in Procs PROVE Right(reply[p]) /\ AnswerTrue(p)
  <2>1. /\ NoReply.http[1] = 0 /\ NoReply.http[2] = "NONE" /\ NoReply.req.route = "NONE"
    BY DEF NoReply, NoReq
  <2> QED BY <1>1, <2>1 DEF Right, AnswerTrue, Final
<1> QED BY <1>1, <1>2, <1>3, <1>4, <1>5, <1>6 DEF ApiInv

LEMMA InvNext ==
  ASSUME ApiInv, [Next]_vars
  PROVE  ApiInv'
<1>1. ASSUME NEW p \in Procs, Receives(p) PROVE ApiInv'
  BY <1>1, ReceiveIsSound, SoundMoves, TablesSame, StepKeeps DEF ApiInv
<1>2. ASSUME NEW p \in Procs, Serves(p) PROVE ApiInv'
  BY <1>2, ServeIsSound, ServeIsSteady, SoundMoves, StepKeeps
<1>3. ASSUME NEW w \in Wallets, CreateWallet(w) PROVE ApiInv'
  <2>1. /\ UNCHANGED <<idem, orders, published, lost>> /\ UNCHANGED <<pc, call>>
        /\ Wallet!CreateWallet(w)
    BY <1>3 DEF CreateWallet
  <2> QED BY <2>1, WalletStep, QuietMoves, StepKeeps DEF ApiInv
<1>4. ASSUME NEW i \in DOMAIN rows, Settle(i) PROVE ApiInv'
  <2>1. /\ UNCHANGED <<idem, orders, published, lost>> /\ UNCHANGED <<pc, call>>
        /\ Wallet!FinalizeWithdrawal(i) \/ Wallet!ReverseWithdrawal(i)
    BY <1>4 DEF Settle
  <2> QED BY <2>1, WalletStep, QuietMoves, StepKeeps DEF ApiInv
<1>5. CASE UNCHANGED vars
  <2>1. UNCHANGED tables /\ UNCHANGED <<pc, call>>
    BY <1>5 DEF vars
  <2> QED BY <2>1, TablesSame, QuietMoves, StepKeeps DEF ApiInv
<1>6. Next => \/ \E p \in Procs : Receives(p) \/ Serves(p)
              \/ \E w \in Wallets : CreateWallet(w)
              \/ \E i \in DOMAIN rows : Settle(i)
  BY DEF Next, Receives, Serves
<1> QED BY <1>1, <1>2, <1>3, <1>4, <1>5, <1>6

\* The invariant holds in every reachable state.
THEOREM ApiInvariant == Spec => []ApiInv
<1>1. Init => ApiInv
  BY InvInit
<1>2. ApiInv /\ [Next]_vars => ApiInv'
  BY InvNext
<1> QED BY <1>1, <1>2, PTL DEF Spec

-------------------------------------------------------------------------------

\* Calls that are served passed their checks, and the tables have their types.
THEOREM ApiTyped == Spec => []TypeOK
<1>1. ApiInv => TypeOK
  BY DEF ApiInv
<1> QED BY <1>1, ApiInvariant, PTL

\* A 201 is never empty: the call, or one the key service takes it for, was carried
\* out as it asked and stays so, whoever shares keys and whatever is interleaved, cut
\* or settled afterwards.
THEOREM ReceiptsHold == Spec => []ReceiptIsTrue
<1>1. ASSUME ApiInv, NEW p \in Procs, reply[p].http[1] = 201
      PROVE  \E s \in Twins(reply[p].req), i \in DOMAIN rows \union DOMAIN orders :
               /\ Done(s, i)
               /\ reply[p].row = IF (s.route = "CHECKOUT") = (reply[p].req.route = "CHECKOUT")
                                 THEN i ELSE 0
  <2>1. PICK s \in Requests, i \in DOMAIN rows \union DOMAIN orders :
          /\ Twin(s, reply[p].req) /\ Made(s, i, rows, orders)
          /\ reply[p].row = Read(s, reply[p].req, i)
    BY <1>1 DEF ApiInv, AnswerTrue, Receipt
  <2>2. s \in Twins(reply[p].req)
    BY <2>1 DEF Twins, Twin, Keyed
  <2>3. Done(s, i)
    BY <2>1 DEF Done, Made, OrderOf
  <2>4. reply[p].row = IF (s.route = "CHECKOUT") = (reply[p].req.route = "CHECKOUT")
                       THEN i ELSE 0
    BY <2>1 DEF Read
  <2> QED BY <2>2, <2>3, <2>4
<1>2. ApiInv => ReceiptIsTrue
  BY <1>1 DEF ReceiptIsTrue, Answered
<1> QED BY <1>2, ApiInvariant, PTL

\* The call that wrote a row or an order has the payload the key was claimed with.
LEMMA DoneIsClaimed ==
  ASSUME ApiInv, NEW r, Keyed(r), NEW i, Done(r, i)
  PROVE  idem[r.key].hash = HashOf(r) /\ (r.route = "TRANSFER" => r.to # r.user)
<1>1. CASE r.route = "CHECKOUT"
  <2>1. PICK s \in Requests : /\ Keyed(s) /\ s.route = "CHECKOUT" /\ Claimed(s, idem)
                            /\ orders[i] = OrderOf(s)
    BY <1>1 DEF ApiInv, OrderTrue, Done
  <2>2. s.key = r.key /\ s.amount = r.amount
    BY <1>1, <2>1 DEF Done, OrderOf
  <2> QED BY <1>1, <2>1, <2>2 DEF Claimed, HashOf, Hash
<1>2. CASE r.route # "CHECKOUT"
  <2>1. r.key # NoKey /\ r.route \in {"TOPUP", "TRANSFER", "WITHDRAWAL"}
    BY <1>2, Data DEF Keyed, MoneyRoutes
  <2>2. PICK s \in Requests : From(s, rows, i) /\ Claimed(s, idem)
    BY <1>2, <2>1 DEF ApiInv, RowTrue, Done
  <2>3. s.key = r.key /\ s.amount = r.amount
    BY <1>2, <2>2 DEF Done, From
  <2>4. CASE r.route = "TRANSFER"
    <3>1. s.route = "TRANSFER" /\ s.to = r.to /\ s.user = r.user /\ s.to # s.user
      BY <2>2, <2>4 DEF Done, From
    <3> QED BY <2>2, <2>3, <2>4, <3>1 DEF Claimed, HashOf
  <2>5. CASE r.route \in {"TOPUP", "WITHDRAWAL"}
    <3>1. s.route # "TRANSFER"
      BY <2>2, <2>5 DEF Done, From
    <3> QED BY <2>2, <2>3, <2>5, <3>1 DEF Claimed, HashOf, Hash
  <2> QED BY <2>1, <2>4, <2>5
<1> QED BY <1>1, <1>2

\* A call that was finally refused is never carried out, by any attempt, unless its
\* key was marked FAILED after a commit whose reply was lost.
THEOREM RefusalsHold == Spec => []RefusalIsFinal
<1>1. ASSUME ApiInv, NEW p \in Procs, reply[p].http[2] \in Final,
             NEW i, Done(reply[p].req, i)
      PROVE  reply[p].http[2] = "PREVIOUS_ATTEMPT_FAILED" /\ reply[p].req.key \in lost
  <2> DEFINE r == reply[p].req
             c == reply[p].http[2]
  <2>1. Keyed(r) /\ AnswerTrue(p)
    BY <1>1 DEF ApiInv, Right
  <2>2. idem[r.key].hash = HashOf(r) /\ (r.route = "TRANSFER" => r.to # r.user)
    BY <1>1, <2>1, DoneIsClaimed
  <2>3. ~Unwritten(r.key, rows, orders)
    BY <1>1 DEF Done, Unwritten
  <2>4. ~Dead(r.key)
    BY <2>3 DEF Dead
  <2> QED BY <1>1, <2>1, <2>2, <2>4 DEF AnswerTrue, Final
<1>2. ApiInv => RefusalIsFinal
  BY <1>1 DEF RefusalIsFinal
<1> QED BY <1>2, ApiInvariant, PTL

\* GET /transactions/:id shows a transaction to its owner only, shows no final
\* status that is taken back, and finds everything that is the caller's.
THEOREM DetailsHold == Spec => []DetailIsTrue
<1>1. ApiInv => DetailIsTrue
  BY DEF ApiInv, AnswerTrue, DetailIsTrue, Answered
<1> QED BY <1>1, ApiInvariant, PTL

\* Every answer a client sees is one its handler's comment lists, but for two.
THEOREM AnswersListed == Spec => []AnswersAreDocumented
<1>1. ApiInv => AnswersAreDocumented
  BY DEF ApiInv, Right, AnswersAreDocumented
<1> QED BY <1>1, ApiInvariant, PTL

===============================================================================
