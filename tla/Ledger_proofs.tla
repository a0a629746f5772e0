---------------------------- MODULE Ledger_proofs -----------------------------
(***************************************************************************)
(* Ledger keeps its promises for every set of wallets and keys and every   *)
(* MaxInt; and the pages of a wallet's history, read while Ledger's steps  *)
(* go on, keep theirs for every limit, every filter and any set of         *)
(* requests.                                                               *)
(***************************************************************************)
EXTENDS History, LedgerRows_proofs, FiniteSetTheorems

-------------------------------------------------------------------------------
\* Every operation inserts or settles rows as LedgerRows_proofs describes.
LEMMA LedgerStep ==
  ASSUME TypeOK, [Next]_vars
  PROVE  TableStep(rows, balance, rows', balance')
<1>0. rows \in Seq(Row) /\ balance \in [Wallets -> Balances]
  BY DEF TypeOK
<1>1. ASSUME NEW w \in Wallets, NEW a \in Amounts, NEW k \in Keys, TopUp(w, a, k)
      PROVE  OneEntry(rows, balance, rows', balance')
  <2>1. After("TOPUP", balance[w], a) = Wrap(balance[w] + a)
    BY DEF After, CreditTypes
  <2> QED BY <1>1, <2>1, EntryIsOne DEF TopUp, Deposit, CreditTypes, DebitTypes
<1>2. ASSUME NEW w \in Wallets, NEW a \in Amounts, NEW k \in Keys, Withdraw(w, a, k)
      PROVE  OneEntry(rows, balance, rows', balance')
  <2>1. After("WITHDRAWAL", balance[w], a) = balance[w] - a
    BY DEF After, CreditTypes
  <2> QED BY <1>2, <2>1, EntryIsOne DEF Withdraw, Debit, CreditTypes, DebitTypes
<1>3. ASSUME NEW from \in Wallets, NEW to \in Wallets, NEW a \in Amounts, NEW k \in Keys,
             Transfer(from, to, a, k)
      PROVE  \E mid \in Seq(Row) : \E b :
               OneEntry(rows, balance, mid, b) /\ OneEntry(mid, b, rows', balance')
  <2> DEFINE out == Entry("TRANSFER_OUT", from, a, balance[from], k, 0)
             in == Entry("TRANSFER_IN", to, a, balance[to], k, 0)
             mid == Append(rows, out)
             b == [balance EXCEPT ![from] = balance[from] - a]
  <2>1. /\ After("TRANSFER_OUT", balance[from], a) = balance[from] - a
        /\ After("TRANSFER_IN", balance[to], a) = Wrap(balance[to] + a)
    BY DEF After, CreditTypes
  <2>2. from # to /\ balance[from] >= a /\ rows' = Append(mid, in)
    BY <1>3 DEF Transfer, Move
  <2>3. b[to] = balance[to]
    BY <1>0, <2>2
  <2>4. balance' = [b EXCEPT ![to] = After("TRANSFER_IN", balance[to], a)]
    BY <1>0, <1>3, <2>1, <2>3 DEF Transfer, Move
  <2>5. OneEntry(rows, balance, mid, b)
    BY <2>1, <2>2, EntryIsOne DEF CreditTypes, DebitTypes
  <2> HIDE DEF mid, b
  <2>6. OneEntry(mid, b, rows', balance')
    BY <2>2, <2>3, <2>4, EntryIsOne DEF CreditTypes, DebitTypes
  <2> QED BY <1>0, <2>5, <2>6, EntryKeeps
<1>4. ASSUME NEW i \in DOMAIN rows, ReverseWithdrawal(i)
      PROVE  \E mid \in Seq(Row) :
               OneSettled(rows, mid) /\ OneEntry(mid, balance, rows', balance')
  <2> DEFINE w == rows[i].wallet
             a == rows[i].amount
             mid == WithStatus(rows, i, "FAILED")
  <2>1. w \in Wallets /\ a \in Amounts /\ i \in Nat
    BY <1>0, RowAt
  <2>2. After("WITHDRAWAL_REVERT", balance[w], a) = Wrap(balance[w] + a)
    BY DEF After, CreditTypes
  <2>3. /\ rows' = Append(mid, Entry("WITHDRAWAL_REVERT", w, a, balance[w], NoKey, i))
        /\ balance' = [balance EXCEPT ![w] = After("WITHDRAWAL_REVERT", balance[w], a)]
    BY <1>4, <2>2 DEF ReverseWithdrawal
  <2>4. OneSettled(rows, mid)
    BY DEF OneSettled, Statuses
  <2> HIDE DEF mid, w, a
  <2>5. OneEntry(mid, balance, rows', balance')
    BY <2>1, <2>3, EntryIsOne DEF CreditTypes, DebitTypes
  <2> QED BY <1>0, <2>4, <2>5, SettledKeeps
<1>5. ASSUME NEW i \in DOMAIN rows, FinalizeWithdrawal(i)
      PROVE  OneSettled(rows, rows') /\ balance' = balance
  BY <1>5 DEF FinalizeWithdrawal, OneSettled, Statuses
<1>6. ASSUME UNCHANGED vars \/ \E w \in Wallets : CreateWallet(w)
      PROVE  rows' = rows /\ balance' = balance
  BY <1>6 DEF vars, CreateWallet
<1> QED
  BY <1>1, <1>2, <1>3, <1>4, <1>5, <1>6 DEF Next, TableStep

\* So it keeps the types of the tables.
LEMMA LedgerStepTypes ==
  ASSUME TypeOK, [Next]_vars
  PROVE  TypeOK'
<1>1. rows' \in Seq(Row) /\ balance' \in [Wallets -> Balances]
  BY LedgerStep, TableStepKeeps DEF TypeOK
<1>2. wallets' \subseteq Wallets
  BY DEF TypeOK, Next, vars, CreateWallet, TopUp, Deposit, Withdraw, Debit, Transfer, Move, ReverseWithdrawal,
         FinalizeWithdrawal
<1> QED BY <1>1, <1>2 DEF TypeOK

\* The tables keep their types: balances stay int64 values, rows stay rows.
THEOREM LedgerTypeCorrect == Spec => []TypeOK
<1>1. Init => TypeOK
  BY MaxIntAssumption DEF Init, TypeOK, Balances
<1> QED BY <1>1, LedgerStepTypes, PTL DEF Spec

\* The history explains every balance, whatever operations were called.
THEOREM LedgerChainHolds == Spec => []LedgerChain
<1>1. Init => LedgerChain
  BY DEF Init, LedgerChain, Chained
<1>2. TypeOK /\ LedgerChain /\ [Next]_vars => LedgerChain'
  BY LedgerStep, TableStepKeeps DEF LedgerChain, TypeOK
<1> QED BY <1>1, <1>2, LedgerTypeCorrect, PTL DEF Spec

-------------------------------------------------------------------------------
\* A key pays at most once, and a transfer's two rows belong together.
THEOREM KeysPayOnce == Spec => []AtMostOncePerKey
<1>1. Init => AtMostOncePerKey
  BY DEF Init, AtMostOncePerKey
<1>2. TypeOK /\ AtMostOncePerKey /\ [Next]_vars => AtMostOncePerKey'
  <2> SUFFICES ASSUME TypeOK, AtMostOncePerKey, [Next]_vars PROVE AtMostOncePerKey'
    OBVIOUS
  <2> DEFINE n == Len(rows)
  <2>0. /\ rows \in Seq(Row) /\ balance \in [Wallets -> Balances]
        /\ n \in Nat /\ DOMAIN rows = 1 .. n
    BY LenProperties DEF TypeOK
  <2>r. rows \in Seq(Row)
    BY DEF TypeOK
  <2>a. ASSUME NEW e \in Row, rows' = Append(rows, e), Fresh(e.key)
        PROVE  AtMostOncePerKey'
    <3>1. /\ DOMAIN rows' = 1 .. n \union {n + 1} /\ rows'[n + 1] = e
          /\ \A j \in 1 .. n : rows'[j] = rows[j]
      BY <2>0, <2>a, AppendProps
    <3> QED BY <2>0, <2>a, <3>1 DEF AtMostOncePerKey, Fresh
  <2>1. ASSUME NEW w \in Wallets, CreateWallet(w) PROVE AtMostOncePerKey'
    BY <2>1 DEF CreateWallet, AtMostOncePerKey
  <2>2. ASSUME NEW w \in Wallets, NEW a \in Amounts, NEW k \in Keys, TopUp(w, a, k)
        PROVE  AtMostOncePerKey'
    <3> DEFINE e == Entry("TOPUP", w, a, balance[w], k, 0)
    <3>1. e \in Row
      BY <2>0, EntryType DEF CreditTypes, DebitTypes
    <3>2. e.key = k
      BY DEF Entry
    <3> QED BY <2>2, <2>a, <3>1, <3>2 DEF TopUp, Deposit
  <2>3. ASSUME NEW w \in Wallets, NEW a \in Amounts, NEW k \in Keys, Withdraw(w, a, k)
        PROVE  AtMostOncePerKey'
    <3> DEFINE e == Entry("WITHDRAWAL", w, a, balance[w], k, 0)
    <3>1. e \in Row
      BY <2>0, <2>3, EntryType DEF Withdraw, Debit, CreditTypes, DebitTypes
    <3>2. e.key = k
      BY DEF Entry
    <3> QED BY <2>3, <2>a, <3>1, <3>2 DEF Withdraw, Debit
  <2>4. ASSUME NEW from \in Wallets, NEW to \in Wallets, NEW a \in Amounts,
               NEW k \in Keys, Transfer(from, to, a, k)
        PROVE  AtMostOncePerKey'
    <3> DEFINE out == Entry("TRANSFER_OUT", from, a, balance[from], k, 0)
               in == Entry("TRANSFER_IN", to, a, balance[to], k, 0)
    <3>1. out \in Row /\ in \in Row
      BY <2>0, <2>4, EntryType DEF Transfer, Move, CreditTypes, DebitTypes
    <3>2. /\ out.key = k /\ out.type = "TRANSFER_OUT" /\ out.amount = a
          /\ out.wallet = from /\ in.key = k /\ in.type = "TRANSFER_IN"
          /\ in.amount = a /\ in.wallet = to
      BY DEF Entry
    <3>3. rows' = Append(Append(rows, out), in) /\ Fresh(k) /\ from # to
      BY <2>4 DEF Transfer, Move
    <3> HIDE DEF out, in
    <3>4. /\ Append(rows, out) \in Seq(Row) /\ Len(Append(rows, out)) = n + 1
          /\ DOMAIN Append(rows, out) = 1 .. n \union {n + 1}
          /\ Append(rows, out)[n + 1] = out
          /\ \A j \in 1 .. n : Append(rows, out)[j] = rows[j]
      BY <2>0, <3>1, AppendProps
    <3>5. /\ DOMAIN rows' = (1 .. n \union {n + 1}) \union {n + 2}
          /\ rows'[n + 1] = out /\ rows'[n + 2] = in
          /\ \A j \in 1 .. n : rows'[j] = rows[j]
      <4> DEFINE mid == Append(rows, out)
      <4> HIDE DEF mid
      <4>1. /\ mid \in Seq(Row) /\ Len(mid) = n + 1 /\ rows' = Append(mid, in)
            /\ DOMAIN mid = 1 .. n \union {n + 1} /\ mid[n + 1] = out
            /\ \A j \in 1 .. n : mid[j] = rows[j]
        BY <3>3, <3>4 DEF mid
      <4>2. /\ DOMAIN Append(mid, in) = DOMAIN mid \union {n + 2}
            /\ Append(mid, in)[n + 2] = in
            /\ \A j \in DOMAIN mid : Append(mid, in)[j] = mid[j]
        BY <2>0, <3>1, <4>1, AppendProps
      <4> QED BY <4>1, <4>2
    <3> QED BY <2>0, <3>2, <3>3, <3>5 DEF AtMostOncePerKey, Fresh
  <2>5. ASSUME NEW i \in DOMAIN rows, ReverseWithdrawal(i) PROVE AtMostOncePerKey'
    <3> DEFINE w == rows[i].wallet
               a == rows[i].amount
               e == Entry("WITHDRAWAL_REVERT", w, a, balance[w], NoKey, i)
               marked == WithStatus(rows, i, "FAILED")
    <3>1. e \in Row
      BY <2>0, RowAt, EntryType DEF CreditTypes, DebitTypes
    <3>2. e.key = NoKey
      BY DEF Entry
    <3>3. /\ marked \in Seq(Row) /\ Len(marked) = n /\ DOMAIN marked = 1 .. n
          /\ \A j \in 1 .. n :
               /\ marked[j].key = rows[j].key /\ marked[j].type = rows[j].type
               /\ marked[j].amount = rows[j].amount /\ marked[j].wallet = rows[j].wallet
      <4>1. "FAILED" \in Statuses /\ marked = WithStatus(rows, i, "FAILED")
        BY DEF Statuses
      <4> HIDE DEF marked
      <4>2. /\ marked \in Seq(Row) /\ Len(marked) = Len(rows) /\ DOMAIN marked = DOMAIN rows
            /\ \A j \in DOMAIN rows :
                 /\ marked[j].key = rows[j].key /\ marked[j].type = rows[j].type
                 /\ marked[j].amount = rows[j].amount /\ marked[j].wallet = rows[j].wallet
        BY <2>r, <4>1, WithStatusKeeps
      <4> QED BY <2>0, <4>2
    <3>4. rows' = Append(marked, e)
      BY <2>5 DEF ReverseWithdrawal
    <3> HIDE DEF e, marked
    <3>5. /\ DOMAIN rows' = 1 .. n \union {n + 1} /\ rows'[n + 1] = e
          /\ \A j \in 1 .. n : rows'[j] = marked[j]
      <4>1. marked \in Seq(Row) /\ e \in Row
        BY <3>1, <3>3
      <4>2. /\ DOMAIN Append(marked, e) = DOMAIN marked \union {Len(marked) + 1}
            /\ Append(marked, e)[Len(marked) + 1] = e
            /\ \A j \in DOMAIN marked : Append(marked, e)[j] = marked[j]
        BY <4>1, AppendProps
      <4> QED BY <3>3, <3>4, <4>2
    <3> QED BY <2>0, <3>2, <3>3, <3>5 DEF AtMostOncePerKey
  <2>6. ASSUME NEW i \in DOMAIN rows, FinalizeWithdrawal(i) PROVE AtMostOncePerKey'
    <3>1. /\ DOMAIN rows' = DOMAIN rows
          /\ \A j \in DOMAIN rows :
               /\ rows'[j].key = rows[j].key /\ rows'[j].type = rows[j].type
               /\ rows'[j].amount = rows[j].amount /\ rows'[j].wallet = rows[j].wallet
      <4>1. "SUCCESS" \in Statuses /\ rows' = WithStatus(rows, i, "SUCCESS")
        BY <2>6 DEF Statuses, FinalizeWithdrawal
      <4> QED BY <2>r, <4>1, WithStatusKeeps
    <3> QED BY <3>1 DEF AtMostOncePerKey
  <2>7. CASE UNCHANGED vars
    BY <2>7 DEF vars, AtMostOncePerKey
  <2> QED BY <2>1, <2>2, <2>3, <2>4, <2>5, <2>6, <2>7 DEF Next
<1> QED BY <1>1, <1>2, LedgerTypeCorrect, PTL DEF Spec

-------------------------------------------------------------------------------
\* The inductive form of RefundsMatchFailures: a refund comes after the row it
\* refunds, and only withdrawals are ever pending.
Refunded(rs) ==
  \A i \in DOMAIN rs :
    /\ rs[i].origin < i
    /\ rs[i].status = "PENDING" => rs[i].type = "WITHDRAWAL"
    /\ (rs[i].status = "FAILED") <=> (\E j \in DOMAIN rs : rs[j].origin = i)
    /\ \A j, k \in DOMAIN rs : rs[j].origin = i /\ rs[k].origin = i => j = k
    /\ \A j \in DOMAIN rs : rs[j].origin = i =>
         /\ rs[i].type = "WITHDRAWAL" /\ rs[j].type = "WITHDRAWAL_REVERT"
         /\ rs[j].wallet = rs[i].wallet /\ rs[j].amount = rs[i].amount

\* A row that refunds nothing may be appended.
LEMMA RefundedAppend ==
  ASSUME NEW rs \in Seq(Row), Refunded(rs), NEW e \in Row, e.origin = 0,
         e.status # "FAILED", e.status = "PENDING" => e.type = "WITHDRAWAL"
  PROVE  Refunded(Append(rs, e))
<1> DEFINE n == Len(rs)
           new == Append(rs, e)
<1>1. /\ n \in Nat /\ DOMAIN rs = 1 .. n /\ DOMAIN new = 1 .. n \union {n + 1}
      /\ \A j \in 1 .. n : new[j] = rs[j] /\ rs[j].origin < j /\ rs[j].origin \in Nat
      /\ new[n + 1] = e
  BY AppendProps, RowAt DEF Refunded
<1> HIDE DEF n, new
<1>2. ASSUME NEW i \in 1 .. n, NEW j \in DOMAIN new, new[j].origin = i
      PROVE  j \in 1 .. n /\ rs[j].origin = i
  BY <1>1, <1>2
<1>3. ASSUME NEW j \in DOMAIN new PROVE new[j].origin # n + 1
  BY <1>1
<1>4. \A i \in 1 .. n : (new[i].status = "FAILED") <=> (\E j \in DOMAIN new : new[j].origin = i)
  BY <1>1, <1>2 DEF Refunded
<1> QED
  <2> SUFFICES ASSUME NEW i \in DOMAIN new
      PROVE  /\ new[i].origin < i
             /\ new[i].status = "PENDING" => new[i].type = "WITHDRAWAL"
             /\ (new[i].status = "FAILED") <=> (\E j \in DOMAIN new : new[j].origin = i)
             /\ \A j, k \in DOMAIN new : new[j].origin = i /\ new[k].origin = i => j = k
             /\ \A j \in DOMAIN new : new[j].origin = i =>
                  /\ new[i].type = "WITHDRAWAL" /\ new[j].type = "WITHDRAWAL_REVERT"
                  /\ new[j].wallet = new[i].wallet /\ new[j].amount = new[i].amount
    BY DEF Refunded, new
  <2>1. CASE i \in 1 .. n
    BY <1>1, <1>2, <1>4, <2>1 DEF Refunded
  <2>2. CASE i = n + 1
    BY <1>1, <1>3, <2>2
  <2> QED BY <1>1, <2>1, <2>2

\* Settling a pending withdrawal as FAILED and appending its refund.
LEMMA RefundedReverse ==
  ASSUME NEW rs \in Seq(Row), Refunded(rs), NEW i \in DOMAIN rs, rs[i].status = "PENDING",
         NEW e \in Row, e.origin = i, e.type = "WITHDRAWAL_REVERT", e.status = "SUCCESS",
         e.wallet = rs[i].wallet, e.amount = rs[i].amount
  PROVE  Refunded(Append(WithStatus(rs, i, "FAILED"), e))
<1> DEFINE n == Len(rs)
           mid == WithStatus(rs, i, "FAILED")
           new == Append(mid, e)
<1>1. "FAILED" \in Statuses
  BY DEF Statuses
<1>2. /\ mid \in Seq(Row) /\ Len(mid) = Len(rs) /\ DOMAIN mid = DOMAIN rs
      /\ \A j \in DOMAIN rs : j # i => mid[j] = rs[j]
      /\ mid[i].status = "FAILED"
      /\ mid[i].wallet = rs[i].wallet /\ mid[i].type = rs[i].type
      /\ mid[i].amount = rs[i].amount /\ mid[i].origin = rs[i].origin
  BY <1>1, WithStatusProps
<1> HIDE DEF mid
<1>3. /\ n \in Nat /\ DOMAIN rs = 1 .. n /\ DOMAIN new = 1 .. n \union {n + 1}
      /\ i \in 1 .. n /\ new[n + 1] = e
      /\ \A j \in 1 .. n : j # i => new[j] = rs[j]
      /\ new[i].status = "FAILED" /\ new[i].wallet = rs[i].wallet
      /\ new[i].type = rs[i].type /\ new[i].amount = rs[i].amount
      /\ \A j \in 1 .. n : new[j].origin = rs[j].origin
  <2>1. /\ Len(mid) \in Nat /\ DOMAIN mid = 1 .. Len(mid)
        /\ DOMAIN new = DOMAIN mid \union {Len(mid) + 1}
        /\ new[Len(mid) + 1] = e /\ \A j \in DOMAIN mid : new[j] = mid[j]
    BY <1>2, AppendProps
  <2> QED BY <1>2, <2>1
<1>4. \A j \in 1 .. n : rs[j].origin < j /\ rs[j].origin \in Nat /\ rs[j].origin # i
  BY <1>3, RowAt DEF Refunded
<1> HIDE DEF n, new
<1> QED
  <2> SUFFICES ASSUME NEW m \in DOMAIN new
      PROVE  /\ new[m].origin < m
             /\ new[m].status = "PENDING" => new[m].type = "WITHDRAWAL"
             /\ (new[m].status = "FAILED") <=> (\E j \in DOMAIN new : new[j].origin = m)
             /\ \A j, k \in DOMAIN new : new[j].origin = m /\ new[k].origin = m => j = k
             /\ \A j \in DOMAIN new : new[j].origin = m =>
                  /\ new[m].type = "WITHDRAWAL" /\ new[j].type = "WITHDRAWAL_REVERT"
                  /\ new[j].wallet = new[m].wallet /\ new[j].amount = new[m].amount
    BY DEF Refunded, new, mid
  <2>1. CASE m = n + 1
    BY <1>3, <1>4, <2>1
  <2>2. CASE m = i
    <3>1. \A j \in DOMAIN new : new[j].origin = i => j = n + 1
      BY <1>3, <1>4
    <3>2. rs[i].type = "WITHDRAWAL"
      BY <1>3 DEF Refunded
    <3> QED BY <1>3, <1>4, <2>2, <3>1, <3>2
  <2>3. CASE m \in 1 .. n /\ m # i
    <3>1. \A j \in DOMAIN new : new[j].origin = m <=> j \in 1 .. n /\ rs[j].origin = m
      BY <1>3, <2>3
    <3>2. new[m] = rs[m] /\ rs[m].origin < m
      BY <1>3, <1>4, <2>3
    <3>3. \A j \in DOMAIN new : new[j].origin = m =>
            /\ rs[m].type = "WITHDRAWAL" /\ rs[j].type = "WITHDRAWAL_REVERT"
            /\ rs[j].wallet = rs[m].wallet /\ rs[j].amount = rs[m].amount
      BY <1>3, <2>3, <3>1 DEF Refunded
    <3>4. \A j \in DOMAIN new : new[j].origin = m => new[j] = rs[j] \/ j = i
      BY <1>3, <3>1
    <3>5. (rs[m].status = "FAILED") <=> (\E j \in DOMAIN new : new[j].origin = m)
      BY <1>3, <2>3, <3>1 DEF Refunded
    <3>6. \A j, k \in DOMAIN new : new[j].origin = m /\ new[k].origin = m => j = k
      BY <1>3, <2>3, <3>1 DEF Refunded
    <3>7. rs[m].status = "PENDING" => rs[m].type = "WITHDRAWAL"
      BY <1>3, <2>3 DEF Refunded
    <3> QED BY <1>3, <3>2, <3>3, <3>4, <3>5, <3>6, <3>7
  <2> QED BY <1>3, <2>1, <2>2, <2>3

\* Settling a pending withdrawal as SUCCESS.
LEMMA RefundedFinalize ==
  ASSUME NEW rs \in Seq(Row), Refunded(rs), NEW i \in DOMAIN rs, rs[i].status = "PENDING"
  PROVE  Refunded(WithStatus(rs, i, "SUCCESS"))
<1> DEFINE new == WithStatus(rs, i, "SUCCESS")
<1>1. "SUCCESS" \in Statuses
  BY DEF Statuses
<1>2. /\ DOMAIN new = DOMAIN rs
      /\ \A j \in DOMAIN rs : j # i => new[j].status = rs[j].status
      /\ new[i].status = "SUCCESS"
      /\ \A j \in DOMAIN rs :
           /\ new[j].wallet = rs[j].wallet /\ new[j].type = rs[j].type
           /\ new[j].amount = rs[j].amount /\ new[j].origin = rs[j].origin
  BY <1>1, WithStatusProps
<1> HIDE DEF new
<1>3. Refunded(new)
  BY <1>2 DEF Refunded
<1> QED BY <1>3 DEF new

\* The inductive form is an invariant.
LEMMA RefundedHolds == Spec => []Refunded(rows)
<1>1. Init => Refunded(rows)
  BY DEF Init, Refunded
<1>2. TypeOK /\ Refunded(rows) /\ [Next]_vars => Refunded(rows)'
  <2> SUFFICES ASSUME TypeOK, Refunded(rows), [Next]_vars PROVE Refunded(rows')
    OBVIOUS
  <2>0. rows \in Seq(Row) /\ balance \in [Wallets -> Balances]
    BY DEF TypeOK
  <2>1. ASSUME NEW w \in Wallets, CreateWallet(w) PROVE Refunded(rows')
    BY <2>1 DEF CreateWallet
  <2>2. ASSUME NEW w \in Wallets, NEW a \in Amounts, NEW k \in Keys, TopUp(w, a, k)
        PROVE  Refunded(rows')
    <3> DEFINE e == Entry("TOPUP", w, a, balance[w], k, 0)
    <3>1. e \in Row
      BY <2>0, EntryType DEF CreditTypes, DebitTypes
    <3>2. e.origin = 0 /\ e.status = "SUCCESS"
      BY DEF Entry
    <3> QED BY <2>0, <2>2, <3>1, <3>2, RefundedAppend DEF TopUp, Deposit
  <2>3. ASSUME NEW w \in Wallets, NEW a \in Amounts, NEW k \in Keys, Withdraw(w, a, k)
        PROVE  Refunded(rows')
    <3> DEFINE e == Entry("WITHDRAWAL", w, a, balance[w], k, 0)
    <3>1. e \in Row
      BY <2>0, <2>3, EntryType DEF Withdraw, Debit, CreditTypes, DebitTypes
    <3>2. e.origin = 0 /\ e.status = "PENDING" /\ e.type = "WITHDRAWAL"
      BY DEF Entry
    <3> QED BY <2>0, <2>3, <3>1, <3>2, RefundedAppend DEF Withdraw, Debit
  <2>4. ASSUME NEW from \in Wallets, NEW to \in Wallets, NEW a \in Amounts,
               NEW k \in Keys, Transfer(from, to, a, k)
        PROVE  Refunded(rows')
    <3> DEFINE out == Entry("TRANSFER_OUT", from, a, balance[from], k, 0)
               in == Entry("TRANSFER_IN", to, a, balance[to], k, 0)
               mid == Append(rows, out)
    <3>1. out \in Row /\ in \in Row
      BY <2>0, <2>4, EntryType DEF Transfer, Move, CreditTypes, DebitTypes
    <3>2. out.origin = 0 /\ out.status = "SUCCESS" /\ in.origin = 0 /\ in.status = "SUCCESS"
      BY DEF Entry
    <3>3. rows' = Append(mid, in)
      BY <2>4 DEF Transfer, Move
    <3> HIDE DEF out, in
    <3>4. mid \in Seq(Row) /\ Refunded(mid)
      BY <2>0, <3>1, <3>2, RefundedAppend, AppendProperties
    <3> HIDE DEF mid
    <3> QED BY <3>1, <3>2, <3>3, <3>4, RefundedAppend
  <2>5. ASSUME NEW i \in DOMAIN rows, ReverseWithdrawal(i) PROVE Refunded(rows')
    <3> DEFINE w == rows[i].wallet
               a == rows[i].amount
               e == Entry("WITHDRAWAL_REVERT", w, a, balance[w], NoKey, i)
    <3>1. e \in Row
      BY <2>0, RowAt, EntryType DEF CreditTypes, DebitTypes
    <3>2. /\ e.origin = i /\ e.type = "WITHDRAWAL_REVERT" /\ e.status = "SUCCESS"
          /\ e.wallet = rows[i].wallet /\ e.amount = rows[i].amount
      BY DEF Entry
    <3>3. rows[i].status = "PENDING" /\ rows' = Append(WithStatus(rows, i, "FAILED"), e)
      BY <2>5 DEF ReverseWithdrawal, IsPending
    <3> HIDE DEF e
    <3> QED BY <2>0, <3>1, <3>2, <3>3, RefundedReverse
  <2>6. ASSUME NEW i \in DOMAIN rows, FinalizeWithdrawal(i) PROVE Refunded(rows')
    BY <2>0, <2>6, RefundedFinalize DEF FinalizeWithdrawal, IsPending
  <2>7. CASE UNCHANGED vars
    BY <2>7 DEF vars
  <2> QED BY <2>1, <2>2, <2>3, <2>4, <2>5, <2>6, <2>7 DEF Next
<1> QED BY <1>1, <1>2, LedgerTypeCorrect, PTL DEF Spec

\* A withdrawal is refunded exactly when it fails, once, in full and to its owner.
THEOREM RefundsMatch == Spec => []RefundsMatchFailures
<1>1. Refunded(rows) => RefundsMatchFailures
  BY DEF Refunded, RefundsMatchFailures, Refunds
<1> QED BY <1>1, RefundedHolds, PTL

-------------------------------------------------------------------------------
\* Committed rows never change but for the one settlement of a withdrawal.
THEOREM HistoryOnlyGrows == Spec => RowsOnlySettle
<1>1. TypeOK /\ Refunded(rows) /\ [Next]_vars
        => [ /\ Len(rows') >= Len(rows)
             /\ \A i \in DOMAIN rows :
                  \/ rows'[i] = rows[i]
                  \/ /\ rows[i].type = "WITHDRAWAL" /\ rows[i].status = "PENDING"
                     /\ \E s \in {"SUCCESS", "FAILED"} :
                          rows'[i] = [rows[i] EXCEPT !.status = s] ]_rows
  <2> DEFINE Settled(i) ==
               /\ rows[i].type = "WITHDRAWAL" /\ rows[i].status = "PENDING"
               /\ \E s \in {"SUCCESS", "FAILED"} : rows'[i] = [rows[i] EXCEPT !.status = s]
             Kept == /\ Len(rows') >= Len(rows)
                     /\ \A i \in DOMAIN rows : rows'[i] = rows[i] \/ Settled(i)
  <2> SUFFICES ASSUME TypeOK, Refunded(rows), [Next]_vars, rows' # rows PROVE Kept
    OBVIOUS
  <2>0. rows \in Seq(Row) /\ balance \in [Wallets -> Balances] /\ Len(rows) \in Nat
    BY LenProperties DEF TypeOK
  <2>a. ASSUME NEW rs \in Seq(Row), NEW e \in Row
        PROVE  /\ Append(rs, e) \in Seq(Row) /\ Len(Append(rs, e)) >= Len(rs)
               /\ DOMAIN rs \subseteq DOMAIN Append(rs, e)
               /\ \A j \in DOMAIN rs : Append(rs, e)[j] = rs[j]
    BY AppendProps
  <2> HIDE DEF Settled
  <2>1. CASE \E w \in Wallets, a \in Amounts, k \in Keys : TopUp(w, a, k) \/ Withdraw(w, a, k)
    <3>1. PICK w \in Wallets, a \in Amounts, k \in Keys : TopUp(w, a, k) \/ Withdraw(w, a, k)
      BY <2>1
    <3>2. \E e \in Row : rows' = Append(rows, e)
      <4>1. CASE TopUp(w, a, k)
        BY <2>0, <4>1, EntryType DEF TopUp, Deposit, CreditTypes, DebitTypes
      <4>2. CASE Withdraw(w, a, k)
        BY <2>0, <4>2, EntryType DEF Withdraw, Debit, CreditTypes, DebitTypes
      <4> QED BY <3>1, <4>1, <4>2
    <3> QED BY <2>0, <2>a, <3>2
  <2>2. CASE \E from, to \in Wallets, a \in Amounts, k \in Keys : Transfer(from, to, a, k)
    <3>1. PICK from \in Wallets, to \in Wallets, a \in Amounts, k \in Keys :
            Transfer(from, to, a, k)
      BY <2>2
    <3>2. \E e1, e2 \in Row : rows' = Append(Append(rows, e1), e2)
      BY <2>0, <3>1, EntryType DEF Transfer, Move, CreditTypes, DebitTypes
    <3>3. PICK e1 \in Row, e2 \in Row : rows' = Append(Append(rows, e1), e2)
      BY <3>2
    <3> DEFINE mid == Append(rows, e1)
    <3>4. /\ mid \in Seq(Row) /\ Len(mid) >= Len(rows) /\ DOMAIN rows \subseteq DOMAIN mid
          /\ \A j \in DOMAIN rows : mid[j] = rows[j]
      BY <2>0, <2>a
    <3>5. rows' = Append(mid, e2)
      BY <3>3
    <3> HIDE DEF mid
    <3>6. /\ Len(rows') >= Len(mid) /\ Len(mid) \in Nat /\ Len(rows') \in Nat
          /\ \A j \in DOMAIN mid : rows'[j] = mid[j]
      BY <2>a, <3>4, <3>5, LenProperties
    <3> QED BY <2>0, <3>4, <3>6
  <2>3. ASSUME NEW i \in DOMAIN rows, ReverseWithdrawal(i) PROVE Kept
    <3> DEFINE mid == WithStatus(rows, i, "FAILED")
    <3>1. mid[i] = [rows[i] EXCEPT !.status = "FAILED"]
      BY <2>0, RowSettled
    <3>2. /\ mid \in Seq(Row) /\ Len(mid) = Len(rows) /\ DOMAIN mid = DOMAIN rows
          /\ \A j \in DOMAIN rows : j # i => mid[j] = rows[j]
      BY <2>0, WithStatusProps DEF Statuses
    <3>3. \E e \in Row : rows' = Append(mid, e)
      BY <2>0, <2>3, RowAt, EntryType DEF ReverseWithdrawal, CreditTypes, DebitTypes
    <3>4. rows[i].status = "PENDING" /\ rows[i].type = "WITHDRAWAL"
      BY <2>3 DEF ReverseWithdrawal, IsPending, Refunded
    <3> HIDE DEF mid
    <3>5. Len(rows') >= Len(rows) /\ \A j \in DOMAIN rows : rows'[j] = mid[j]
      <4>1. PICK e \in Row : rows' = Append(mid, e)
        BY <3>3
      <4>2. /\ Len(Append(mid, e)) >= Len(mid)
            /\ \A j \in DOMAIN mid : Append(mid, e)[j] = mid[j]
        BY <2>a, <3>2
      <4> QED BY <3>2, <4>1, <4>2
    <3>6. rows'[i] = [rows[i] EXCEPT !.status = "FAILED"]
      BY <3>1, <3>5
    <3>7. Settled(i)
      BY <3>4, <3>6 DEF Settled
    <3> QED BY <3>2, <3>5, <3>7
  <2>4. ASSUME NEW i \in DOMAIN rows, FinalizeWithdrawal(i) PROVE Kept
    <3>1. rows' = WithStatus(rows, i, "SUCCESS")
      BY <2>4 DEF FinalizeWithdrawal
    <3>2. rows'[i] = [rows[i] EXCEPT !.status = "SUCCESS"]
      BY <2>0, <3>1, RowSettled
    <3>3. Len(rows') = Len(rows) /\ \A j \in DOMAIN rows : j # i => rows'[j] = rows[j]
      BY <2>0, <3>1, WithStatusProps DEF Statuses
    <3>4. rows[i].status = "PENDING" /\ rows[i].type = "WITHDRAWAL"
      BY <2>4 DEF FinalizeWithdrawal, IsPending, Refunded
    <3>5. Settled(i)
      BY <3>2, <3>4 DEF Settled
    <3> QED BY <2>0, <3>3, <3>5
  <2>5. ASSUME NEW w \in Wallets, CreateWallet(w) PROVE Kept
    BY <2>5 DEF CreateWallet
  <2> QED BY <2>1, <2>2, <2>3, <2>4, <2>5 DEF Next, vars
<1> QED BY <1>1, LedgerTypeCorrect, RefundedHolds, PTL DEF Spec, RowsOnlySettle

-------------------------------------------------------------------------------
(***************************************************************************)
(* The position of a row in the answer: how many matching rows are newer.  *)
(***************************************************************************)

\* A row of S has fewer newer rows than S has rows.
LEMMA NewerType ==
  ASSUME NEW S \in SUBSET Nat, IsFiniteSet(S), NEW i \in Nat
  PROVE  /\ Newer(i, S) \in Nat
         /\ i \in S => Newer(i, S) < Cardinality(S)
<1> DEFINE N == {j \in S : j > i}
<1>1. N \in SUBSET S
  OBVIOUS
<1>2. /\ IsFiniteSet(N) /\ Cardinality(N) <= Cardinality(S)
      /\ Cardinality(S) = Cardinality(N) => S = N
  BY <1>1, FS_Subset
<1>3. Cardinality(N) \in Nat /\ Cardinality(S) \in Nat
  BY <1>2, FS_CardinalityType
<1>4. i \notin N
  OBVIOUS
<1> HIDE DEF N
<1>5. i \in S => Cardinality(N) < Cardinality(S)
  BY <1>2, <1>3, <1>4
<1> QED BY <1>3, <1>5 DEF Newer, N

\* The newer of two rows is closer to the front.
LEMMA NewerOrder ==
  ASSUME NEW S \in SUBSET Nat, IsFiniteSet(S), NEW i \in S, NEW j \in S, i < j
  PROVE  Newer(j, S) < Newer(i, S)
<1> DEFINE N == {k \in S : k > i}
           M == {k \in S : k > j}
<1>1. N \in SUBSET S /\ M \in SUBSET N /\ j \in N /\ j \notin M
  <2>1. i \in Nat /\ j \in Nat /\ \A k \in S : k \in Nat
    OBVIOUS
  <2>2. \A k \in S : k > j => k > i
    BY <2>1
  <2>3. N \in SUBSET S /\ j \in N /\ j \notin M
    BY <2>1
  <2>4. \A k \in M : k \in N
    BY <2>2
  <2> QED BY <2>3, <2>4
<1>2. IsFiniteSet(N)
  BY <1>1, FS_Subset
<1>3. /\ IsFiniteSet(M) /\ Cardinality(M) <= Cardinality(N)
      /\ Cardinality(N) = Cardinality(M) => N = M
  BY <1>1, <1>2, FS_Subset
<1>4. Cardinality(N) \in Nat /\ Cardinality(M) \in Nat
  BY <1>2, <1>3, FS_CardinalityType
<1> HIDE DEF N, M
<1>5. Cardinality(M) < Cardinality(N)
  BY <1>1, <1>3, <1>4
<1> QED BY <1>5 DEF Newer, N, M

\* Rows that are added push the old ones back, never forward.
LEMMA NewerGrows ==
  ASSUME NEW T \in SUBSET Nat, IsFiniteSet(T), NEW S \in SUBSET T, NEW i \in Nat
  PROVE  Newer(i, S) <= Newer(i, T)
<1> DEFINE N == {k \in T : k > i}
           M == {k \in S : k > i}
<1>1. N \in SUBSET T /\ M \in SUBSET N
  OBVIOUS
<1>2. IsFiniteSet(N)
  BY <1>1, FS_Subset
<1> HIDE DEF N, M
<1>3. Cardinality(M) <= Cardinality(N)
  BY <1>1, <1>2, FS_Subset
<1> QED BY <1>3 DEF Newer, N, M

\* The rows of a set have all positions from 0 on, one each.
LEMMA NewerOnto ==
  ASSUME NEW S \in SUBSET Nat, IsFiniteSet(S)
  PROVE  [i \in S |-> Newer(i, S)] \in Bijection(S, 0 .. Cardinality(S) - 1)
<1> DEFINE f == [i \in S |-> Newer(i, S)]
           n == Cardinality(S)
           T == 0 .. n - 1
<1>1. n \in Nat
  BY FS_CardinalityType
<1>2. f \in [S -> T]
  BY <1>1, NewerType
<1>3. \A i, j \in S : f[i] = f[j] => i = j
  <2> SUFFICES ASSUME NEW i \in S, NEW j \in S, i # j PROVE f[i] # f[j]
    OBVIOUS
  <2>1. f[i] \in Nat /\ f[j] \in Nat /\ f[i] = Newer(i, S) /\ f[j] = Newer(j, S)
    BY NewerType
  <2>2. i \in Nat /\ j \in Nat
    OBVIOUS
  <2>3. CASE i < j
    BY <2>1, <2>3, NewerOrder
  <2>4. CASE j < i
    BY <2>1, <2>4, NewerOrder
  <2> HIDE DEF f
  <2> QED BY <2>2, <2>3, <2>4
<1> HIDE DEF f
<1>4. f \in Injection(S, T)
  <2>1. DOMAIN f = S
    BY <1>2
  <2>2. IsInjective(f)
    BY <1>3, <2>1 DEF IsInjective
  <2> QED BY <1>2, <2>2 DEF Injection
<1>5. IsFiniteSet(T) /\ Cardinality(T) = n
  <2>1. 0 \in Int /\ n - 1 \in Int
    BY <1>1
  <2>2. IsFiniteSet(T) /\ Cardinality(T) = IF 0 > n - 1 THEN 0 ELSE n - 1 - 0 + 1
    BY <2>1, FS_Interval
  <2> HIDE DEF n, T
  <2> QED BY <1>1, <2>2
<1> HIDE DEF T
<1>6. f \in Surjection(S, T)
  BY <1>4, <1>5, FS_Injection
<1> QED BY <1>4, <1>6 DEF Bijection, f, T

\* So a page of n rows from position lo on is as full as the set allows.
LEMMA PageSize ==
  ASSUME NEW S \in SUBSET Nat, IsFiniteSet(S), NEW lo \in Nat, NEW n \in Nat,
         NEW P, P = {i \in S : lo <= Newer(i, S) /\ Newer(i, S) < lo + n}
  PROVE  Cardinality(P) = IF lo + n <= Cardinality(S) THEN n
                          ELSE IF lo <= Cardinality(S) THEN Cardinality(S) - lo
                          ELSE 0
<1> DEFINE size == Cardinality(S)
           hi == IF lo + n <= size THEN lo + n - 1 ELSE size - 1
           f == [i \in S |-> Newer(i, S)]
           g == [i \in P |-> Newer(i, S)]
<1>1. size \in Nat /\ hi \in Int
  BY FS_CardinalityType
<1>2. IsFiniteSet(P)
  BY FS_Subset
<1>3. /\ \A i \in S : f[i] = Newer(i, S) /\ f[i] \in 0 .. size - 1
      /\ \A i, j \in S : f[i] = f[j] => i = j
      /\ \A y \in 0 .. size - 1 : \E i \in S : f[i] = y
  <2>1. f \in Bijection(S, 0 .. size - 1)
    BY NewerOnto
  <2> HIDE DEF size
  <2> QED BY <2>1 DEF Bijection, Injection, Surjection, IsInjective
<1> HIDE DEF f
<1>4. \A i \in P : i \in S /\ g[i] = f[i] /\ g[i] \in lo .. hi
  BY <1>1, <1>3
<1>5. \A y \in lo .. hi : \E i \in P : g[i] = y
  <2> SUFFICES ASSUME NEW y \in lo .. hi PROVE \E i \in P : g[i] = y
    OBVIOUS
  <2>1. y \in 0 .. size - 1 /\ lo <= y /\ y < lo + n
    BY <1>1
  <2>2. PICK i \in S : f[i] = y
    BY <1>3, <2>1
  <2>3. i \in P
    BY <1>3, <2>1, <2>2
  <2> QED BY <1>4, <2>2, <2>3
<1>6. g \in [P -> lo .. hi]
  BY <1>4
<1>7. \A i, j \in P : g[i] = g[j] => i = j
  BY <1>3, <1>4
<1> HIDE DEF g, hi
<1>8. g \in Bijection(P, lo .. hi)
  BY <1>5, <1>6, <1>7 DEF Bijection, Injection, Surjection, IsInjective
<1>9. Cardinality(P) = Cardinality(lo .. hi)
  BY <1>2, <1>8, FS_Bijection DEF ExistsBijection
<1>10. Cardinality(lo .. hi) = IF lo > hi THEN 0 ELSE hi - lo + 1
  BY <1>1, FS_Interval
<1> QED BY <1>1, <1>2, <1>9, <1>10 DEF hi


-------------------------------------------------------------------------------
(***************************************************************************)
(* The tables under a scan.                                                *)
(***************************************************************************)

\* Rows are stamped in the order of their ids, since time never goes back.
CreatedInOrder ==
  \A i, j \in DOMAIN rows : i < j => created[i] <= created[j]

\* What a step does to the rows a scan may look at: they stay, with their
\* stamps, and new ones come after them with the current moment.
RowsKept ==
  /\ SameHistory(rows, rows')
  /\ DOMAIN created' = DOMAIN rows'
  /\ \A i \in DOMAIN rows : created'[i] = created[i]
  /\ \A i \in DOMAIN rows' \ DOMAIN rows :
       created'[i] = now /\ \A j \in DOMAIN rows : j < i

\* So do the writers, who are the only ones to touch them.
LEMMA WriteKeepsRows ==
  ASSUME HistoryTypeOK, Write
  PROVE  TypeOK' /\ RowsKept
<1>1. TypeOK /\ Next
  BY DEF HistoryTypeOK, Write
<1>2. TypeOK'
  BY <1>1, LedgerStepTypes
<1>3. SameHistory(rows, rows')
  BY <1>1, LedgerStep, TableStepKeeps DEF TypeOK
<1>4. /\ Len(rows) \in Nat /\ DOMAIN rows = 1 .. Len(rows)
      /\ Len(rows') \in Nat /\ DOMAIN rows' = 1 .. Len(rows')
  BY <1>1, <1>2, LenProperties DEF TypeOK
<1>5. created' = [i \in DOMAIN rows' |-> IF i \in DOMAIN rows THEN created[i] ELSE now]
  BY DEF Write
<1>6. \A i \in DOMAIN rows : i \in DOMAIN rows'
  BY <1>3 DEF SameHistory
<1>7. \A i \in DOMAIN rows' \ DOMAIN rows : \A j \in DOMAIN rows : j < i
  BY <1>4
<1> QED BY <1>2, <1>3, <1>5, <1>6, <1>7 DEF RowsKept

\* A request is one of those that are defined, with its wallet.
LEMMA RequestType ==
  ASSUME NEW w \in Wallets, NEW r \in Requests
  PROVE  [wallet |-> w, type |-> r.type, start |-> r.start, end |-> r.end, limit |-> r.limit]
           \in [wallet : Wallets \union {0}, type : CreditTypes \union DebitTypes \union {AnyType},
                start : Dates, end : Dates, limit : Nat]
<1>1. r \in [type : CreditTypes \union DebitTypes \union {AnyType},
             start : Dates, end : Dates, limit : Nat]
  BY RequestsAssumption
<1> QED BY <1>1

\* The rows a request matches are finitely many natural numbers.
LEMMA MatchingType ==
  ASSUME TypeOK, NEW r
  PROVE  /\ Matching(r) \in SUBSET Nat /\ Matching(r) \subseteq DOMAIN rows
         /\ IsFiniteSet(Matching(r)) /\ Cardinality(Matching(r)) \in Nat
<1>1. Len(rows) \in Nat /\ DOMAIN rows = 1 .. Len(rows)
  BY LenProperties DEF TypeOK
<1>2. IsFiniteSet(1 .. Len(rows))
  BY <1>1, FS_Interval
<1>3. Matching(r) \subseteq DOMAIN rows
  BY DEF Matching
<1>4. IsFiniteSet(Matching(r))
  BY <1>1, <1>2, <1>3, FS_Subset
<1> QED BY <1>1, <1>3, <1>4, FS_CardinalityType

\* A page has a positive limit, and pages are counted from one.
LEMMA PageTypes ==
  ASSUME HistoryTypeOK
  PROVE  /\ Limit(req) \in Nat \ {0} /\ Current \in Nat \ {0}
         /\ (Current - 1) * Limit(req) \in Nat
         /\ Offset(req) = (Current - 1) * Limit(req)
         /\ (Current - 1) * Limit(req) + Limit(req) = Current * Limit(req)
<1>1. Limit(req) \in Nat \ {0}
  BY HistoryAssumption DEF HistoryTypeOK, Limit
<1>2. Current \in Nat \ {0}
  BY DEF HistoryTypeOK, Current
<1>3. \A c, l \in Nat \ {0} : (c - 1) * l \in Nat /\ (c - 1) * l + l = c * l
  OBVIOUS
<1>4. (IF page = 0 THEN 0 ELSE page - 1) = Current - 1
  BY DEF HistoryTypeOK, Current
<1> QED BY <1>1, <1>2, <1>3, <1>4 DEF Offset

\* The types of the scan.
LEMMA HistoryStepTypes ==
  ASSUME HistoryTypeOK, [HistoryNext]_historyVars
  PROVE  HistoryTypeOK'
<1>0. TypeOK /\ now \in 0 .. MaxTime /\ MaxTime \in Nat
  BY HistoryAssumption DEF HistoryTypeOK
<1>1. CASE Write
  <2>1. TypeOK' /\ RowsKept
    BY <1>1, WriteKeepsRows
  <2>2. DOMAIN created' = DOMAIN rows' /\ \A i \in DOMAIN rows' : created'[i] \in 0 .. now'
    BY <1>0, <1>1, <2>1 DEF RowsKept, HistoryTypeOK, Write
  <2>3. seen \union wanted \subseteq DOMAIN rows'
    BY <2>1 DEF HistoryTypeOK, RowsKept, SameHistory
  <2> QED BY <1>1, <2>1, <2>2, <2>3 DEF HistoryTypeOK, Write, answer
<1>2. CASE Tick
  <2>1. TypeOK'
    BY <1>0, <1>2 DEF Tick, vars, TypeOK
  <2>2. now' \in 0 .. MaxTime /\ \A i \in DOMAIN rows : created[i] \in 0 .. now'
    BY <1>0, <1>2 DEF Tick, HistoryTypeOK
  <2> QED BY <1>2, <2>1, <2>2 DEF HistoryTypeOK, Tick, vars, answer
<1>3. ASSUME NEW w \in Wallets, NEW r \in Requests, Open(w, r) PROVE HistoryTypeOK'
  <2>1. TypeOK'
    BY <1>0, <1>3 DEF Open, vars, TypeOK
  <2>2. Matching(req') \subseteq DOMAIN rows
    BY DEF Matching
  <2> QED BY <1>3, <2>1, <2>2, RequestType DEF HistoryTypeOK, Open, vars
<1>4. CASE Count
  <2>1. TypeOK' /\ Cardinality(Matching(req)) \in Nat
    BY <1>0, <1>4, MatchingType DEF Count, vars, TypeOK
  <2> QED BY <1>4, <2>1 DEF HistoryTypeOK, Count, vars
<1>5. CASE Fetch
  <2>1. TypeOK'
    BY <1>0, <1>5 DEF Fetch, vars, TypeOK
  <2>2. Page(req) \subseteq DOMAIN rows
    BY DEF Page, Matching
  <2> QED BY <1>5, <2>1, <2>2 DEF HistoryTypeOK, Fetch, vars
<1>6. CASE NextPage
  <2>1. TypeOK' /\ page' \in Nat
    BY <1>0, <1>6, PageTypes DEF NextPage, vars, TypeOK
  <2> QED BY <1>6, <2>1 DEF HistoryTypeOK, NextPage, vars, answer
<1>7. CASE Close
  <2>1. TypeOK'
    BY <1>0, <1>7 DEF Close, vars, TypeOK
  <2>2. NoRequest \in [wallet : Wallets \union {0},
                       type : CreditTypes \union DebitTypes \union {AnyType},
                       start : Dates, end : Dates, limit : Nat]
    BY DEF NoRequest, Dates
  <2> QED BY <1>7, <2>1, <2>2 DEF HistoryTypeOK, Close, vars
<1>8. CASE UNCHANGED historyVars
  <2>1. TypeOK'
    BY <1>0, <1>8 DEF historyVars, vars, TypeOK
  <2> QED BY <1>8, <2>1 DEF HistoryTypeOK, historyVars, vars, answer
<1> QED BY <1>1, <1>2, <1>3, <1>4, <1>5, <1>6, <1>7, <1>8 DEF HistoryNext, Scan

\* A scan is always at one of its places, with a request of one of the users'
\* wallets, and what it has read are rows of the table.
THEOREM HistoryTyped == HistorySpec => []HistoryTypeOK
<1>1. HistoryInit => HistoryTypeOK
  <2> SUFFICES ASSUME HistoryInit PROVE HistoryTypeOK
    OBVIOUS
  <2>1. TypeOK
    BY MaxIntAssumption DEF HistoryInit, Init, TypeOK, Balances
  <2>2. now \in 0 .. MaxTime
    BY HistoryAssumption DEF HistoryInit
  <2>3. DOMAIN created = DOMAIN rows /\ DOMAIN rows = {}
    BY DEF HistoryInit, Init
  <2>4. req \in [wallet : Wallets \union {0},
                 type : CreditTypes \union DebitTypes \union {AnyType},
                 start : Dates, end : Dates, limit : Nat]
    BY DEF HistoryInit, NoRequest, Dates
  <2> QED BY <2>1, <2>2, <2>3, <2>4 DEF HistoryTypeOK, HistoryInit
<1> QED BY <1>1, HistoryStepTypes, PTL DEF HistorySpec

\* To the wallets it is Ledger that runs.
LEMMA LedgerRuns == HistorySpec => Spec
<1>1. HistoryInit => Init
  BY DEF HistoryInit
<1>2. [HistoryNext]_historyVars => [Next]_vars
  BY DEF HistoryNext, Scan, Write, Tick, Open, Count, Fetch, NextPage, Close, historyVars, vars
<1> QED BY <1>1, <1>2, PTL DEF HistorySpec, Spec

\* No step touches the rows or their stamps but a writer's.
LEMMA HistoryStepRows ==
  ASSUME HistoryTypeOK, [HistoryNext]_historyVars
  PROVE  /\ RowsKept
         /\ Write \/ (UNCHANGED <<rows, created>>)
<1>1. CASE Write
  BY <1>1, WriteKeepsRows
<1>2. CASE ~ Write
  <2>1. UNCHANGED <<rows, created>>
    BY <1>2 DEF HistoryNext, Scan, Tick, Open, Count, Fetch, NextPage, Close, historyVars, vars
  <2>2. rows \in Seq(Row)
    BY DEF HistoryTypeOK, TypeOK
  <2>3. SameHistory(rows, rows)
    BY <2>2, LenProperties DEF SameHistory
  <2> QED BY <2>1, <2>3 DEF RowsKept, HistoryTypeOK
<1> QED BY <1>1, <1>2

\* The ids of a wallet's rows and their stamps have the same order.
LEMMA OrderHolds == HistorySpec => []CreatedInOrder
<1>1. HistoryInit => CreatedInOrder
  BY DEF HistoryInit, Init, CreatedInOrder
<1>2. HistoryTypeOK /\ CreatedInOrder /\ [HistoryNext]_historyVars => CreatedInOrder'
  <2> SUFFICES ASSUME HistoryTypeOK, CreatedInOrder, [HistoryNext]_historyVars,
                      NEW i \in DOMAIN rows', NEW j \in DOMAIN rows', i < j
               PROVE  created'[i] <= created'[j]
    BY DEF CreatedInOrder
  <2>1. RowsKept
    BY HistoryStepRows
  <2>2. now \in Nat /\ \A k \in DOMAIN rows : created[k] \in 0 .. now
    BY DEF HistoryTypeOK
  <2>3. i \in Nat /\ j \in Nat
    <3>1. TypeOK'
      BY HistoryStepTypes DEF HistoryTypeOK
    <3>2. Len(rows') \in Nat /\ DOMAIN rows' = 1 .. Len(rows')
      BY <3>1, LenProperties DEF TypeOK
    <3> QED BY <3>2
  <2>4. CASE i \in DOMAIN rows /\ j \in DOMAIN rows
    BY <2>1, <2>4 DEF RowsKept, CreatedInOrder
  <2>5. CASE i \in DOMAIN rows /\ j \notin DOMAIN rows
    BY <2>1, <2>2, <2>5 DEF RowsKept
  <2>6. CASE i \notin DOMAIN rows /\ j \in DOMAIN rows
    BY <2>1, <2>3, <2>6 DEF RowsKept
  <2>7. CASE i \notin DOMAIN rows /\ j \notin DOMAIN rows
    BY <2>1, <2>2, <2>7 DEF RowsKept
  <2> QED BY <2>4, <2>5, <2>6, <2>7
<1> QED BY <1>1, <1>2, HistoryTyped, PTL DEF HistorySpec

-------------------------------------------------------------------------------
\* A matching row goes on matching, and none comes before an old one.
LEMMA MatchingGrows ==
  ASSUME HistoryTypeOK, TypeOK', RowsKept, req' = req
  PROVE  /\ Matching(req) \subseteq Matching(req)'
         /\ Cardinality(Matching(req))' \in Nat
         /\ Cardinality(Matching(req)) <= Cardinality(Matching(req))'
         /\ \A i \in Matching(req) :
              /\ Newer(i, Matching(req)) <= Newer(i, Matching(req))'
              /\ Newer(i, Matching(req))' \in Nat
<1>1. Matching(req) \subseteq Matching(req)'
  BY DEF Matching, RowsKept, SameHistory
<1>2. /\ Matching(req)' \in SUBSET Nat /\ IsFiniteSet(Matching(req)')
  <2>1. Len(rows') \in Nat /\ DOMAIN rows' = 1 .. Len(rows')
    BY LenProperties DEF TypeOK
  <2>2. IsFiniteSet(1 .. Len(rows'))
    BY <2>1, FS_Interval
  <2>3. Matching(req)' \subseteq DOMAIN rows'
    BY DEF Matching
  <2> QED BY <2>1, <2>2, <2>3, FS_Subset
<1> DEFINE S == Matching(req)
           T == Matching(req)'
<1>3. S \in SUBSET T /\ T \in SUBSET Nat /\ IsFiniteSet(T)
  BY <1>1, <1>2
<1>4. \A i : Newer(i, S)' = Newer(i, T)
  BY DEF Newer
<1> HIDE DEF S, T
<1>5. Cardinality(S) <= Cardinality(T) /\ Cardinality(T) \in Nat
  BY <1>3, FS_Subset, FS_CardinalityType
<1>6. \A i \in S : Newer(i, S) <= Newer(i, T) /\ Newer(i, T) \in Nat
  BY <1>3, NewerGrows, NewerType
<1> QED BY <1>1, <1>4, <1>5, <1>6 DEF S, T

\* What was counted is still there when the page is read.
Counted == pc = "fetch" => total <= Cardinality(Matching(req))

\* Rows that are written between the two queries only add to it.
LEMMA CountedHolds == HistorySpec => []Counted
<1>1. HistoryInit => Counted
  BY DEF HistoryInit, Counted
<1>2. HistoryTypeOK /\ Counted /\ [HistoryNext]_historyVars => Counted'
  <2> SUFFICES ASSUME HistoryTypeOK, Counted, [HistoryNext]_historyVars PROVE Counted'
    OBVIOUS
  <2>0. /\ TypeOK' /\ TypeOK /\ RowsKept /\ total \in Nat
        /\ Cardinality(Matching(req)) \in Nat
    BY HistoryStepTypes, HistoryStepRows, MatchingType DEF HistoryTypeOK
  <2>1. CASE Count
    <3>1. Cardinality(Matching(req)') = Cardinality(Matching(req))
      BY <2>1 DEF Count, Matching, vars
    <3> QED BY <2>0, <2>1, <3>1 DEF Count, Counted
  <2>2. CASE pc' # "fetch"
    BY <2>2 DEF Counted
  <2>3. CASE ~ Count /\ pc' = "fetch"
    <3>1. req' = req /\ total' = total /\ pc = "fetch"
      BY <2>3 DEF HistoryNext, Scan, Write, Tick, Open, Fetch, NextPage, Close, historyVars,
                  answer
    <3>2. /\ Cardinality(Matching(req)) <= Cardinality(Matching(req))'
          /\ Cardinality(Matching(req))' \in Nat
      BY <2>0, <3>1, MatchingGrows
    <3> QED BY <2>0, <3>1, <3>2 DEF Counted
  <2> QED BY <2>1, <2>2, <2>3
<1> QED BY <1>1, <1>2, HistoryTyped, PTL DEF HistorySpec

\* A page agrees with the total it is sent with, for every limit and every
\* filter, whatever is written between the two queries.
THEOREM PagesAgree == HistorySpec => []PageAgreesWithTotal
<1>1. HistoryInit => PageAgreesWithTotal
  BY DEF HistoryInit, PageAgreesWithTotal
<1>2. HistoryTypeOK /\ Counted /\ PageAgreesWithTotal /\ [HistoryNext]_historyVars
        => PageAgreesWithTotal'
  <2> SUFFICES ASSUME HistoryTypeOK, Counted, PageAgreesWithTotal, [HistoryNext]_historyVars
               PROVE  PageAgreesWithTotal'
    OBVIOUS
  <2>1. CASE Fetch
    <3> DEFINE S == Matching(req)
               n == Cardinality(S)
               lo == Offset(req)
               l == Limit(req)
    <3>1. /\ S \in SUBSET Nat /\ IsFiniteSet(S) /\ n \in Nat
          /\ lo \in Nat /\ l \in Nat \ {0} /\ lo = (Current - 1) * l
      BY MatchingType, PageTypes DEF HistoryTypeOK
    <3>2. total \in Nat /\ total <= n
      BY <2>1 DEF Fetch, Counted, HistoryTypeOK
    <3>3. Page(req) = {i \in S : lo <= Newer(i, S) /\ Newer(i, S) < lo + l}
      BY DEF Page
    <3> HIDE DEF S, lo, l
    <3>4. Cardinality(Page(req)) = IF lo + l <= n THEN l ELSE IF lo <= n THEN n - lo ELSE 0
      BY <3>1, <3>3, PageSize
    <3> HIDE DEF n
    <3>5. \/ Cardinality(Page(req)) = l
          \/ Cardinality(Page(req)) < l /\ lo + Cardinality(Page(req)) >= total
      BY <3>1, <3>2, <3>4
    <3>6. /\ got' = Page(req) /\ total' = total /\ Limit(req)' = l /\ Current' = Current
      BY <2>1 DEF Fetch, Limit, Current, l
    <3> QED BY <3>1, <3>5, <3>6 DEF PageAgreesWithTotal
  <2>2. CASE pc' # "answered"
    BY <2>2 DEF PageAgreesWithTotal
  <2>3. CASE ~ Fetch /\ pc' = "answered"
    <3>1. pc = "answered" /\ UNCHANGED <<got, total, req, page>>
      BY <2>3 DEF HistoryNext, Scan, Write, Tick, Open, Count, NextPage, Close, historyVars,
                  answer
    <3>2. Limit(req)' = Limit(req) /\ Current' = Current
      BY <3>1 DEF Limit, Current
    <3> QED BY <3>1, <3>2 DEF PageAgreesWithTotal
  <2> QED BY <2>1, <2>2, <2>3
<1> QED BY <1>1, <1>2, HistoryTyped, CountedHolds, PTL DEF HistorySpec

-------------------------------------------------------------------------------
\* Two rows next to each other on a page without a filter on the type are next
\* to each other in the wallet's history.
LEMMA NeighboursFollow ==
  ASSUME HistoryTypeOK, CreatedInOrder, req.type = AnyType,
         NEW i \in Page(req), NEW j \in Page(req), i < j,
         \A m \in Page(req) : m <= i \/ j <= m
  PROVE  Follows(rows, j, i)
<1> DEFINE S == Matching(req)
           lo == Offset(req)
           hi == Offset(req) + Limit(req)
<1>1. /\ S \in SUBSET Nat /\ IsFiniteSet(S) /\ S \subseteq DOMAIN rows
      /\ lo \in Nat /\ hi \in Nat
  BY MatchingType, PageTypes DEF HistoryTypeOK
<1>2. \A k : k \in Page(req) <=> k \in S /\ lo <= Newer(k, S) /\ Newer(k, S) < hi
  BY DEF Page
<1>3. /\ Len(rows) \in Nat /\ DOMAIN rows = 1 .. Len(rows)
      /\ \A k \in DOMAIN rows : created[k] \in Nat
  BY LenProperties DEF HistoryTypeOK, TypeOK
<1>4. i \in S /\ j \in S /\ i \in DOMAIN rows /\ j \in DOMAIN rows
  BY <1>1, <1>2
<1>5. ASSUME NEW m \in DOMAIN rows, i < m, m < j, rows[m].wallet = rows[i].wallet
      PROVE  m \in S
  <2>1. created[i] <= created[m] /\ created[m] <= created[j]
    BY <1>4, <1>5 DEF CreatedInOrder
  <2>2. req.start \in Dates /\ req.end \in Dates /\ DayLength \in Nat
    BY HistoryAssumption DEF HistoryTypeOK
  <2>3. req.start # NoDate => created[m] >= req.start * DayLength
    <3>1. req.start # NoDate => created[i] >= req.start * DayLength /\ req.start \in Nat
      BY <1>4, <2>2 DEF Matching, Dates
    <3>2. \A x \in Nat : x * DayLength \in Nat
      BY <2>2
    <3>3. created[i] \in Nat /\ created[m] \in Nat
      BY <1>3, <1>4
    <3> QED BY <2>1, <3>1, <3>2, <3>3
  <2>4. req.end # NoDate => created[m] <= req.end * DayLength + DayLength - 2
    <3>1. req.end # NoDate =>
            /\ created[j] <= req.end * DayLength + DayLength - 2
            /\ req.end \in Nat
      BY <1>4, <2>2 DEF Matching, Dates
    <3>2. \A x \in Nat : x * DayLength \in Nat
      BY <2>2
    <3>3. created[j] \in Nat /\ created[m] \in Nat
      BY <1>3, <1>4
    <3> QED BY <2>1, <2>2, <3>1, <3>2, <3>3
  <2>5. rows[m].wallet = req.wallet
    BY <1>4, <1>5 DEF Matching
  <2> QED BY <2>3, <2>4, <2>5 DEF Matching
<1>6. ASSUME NEW m \in DOMAIN rows, i < m, m < j, rows[m].wallet = rows[i].wallet
      PROVE  FALSE
  <2>1. m \in S /\ i \in Nat /\ m \in Nat /\ j \in Nat
    BY <1>3, <1>4, <1>5, <1>6
  <2> HIDE DEF S, lo, hi
  <2>2. Newer(j, S) < Newer(m, S) /\ Newer(m, S) < Newer(i, S)
    BY <1>1, <1>4, <1>6, <2>1, NewerOrder
  <2>3. Newer(i, S) \in Nat /\ Newer(j, S) \in Nat /\ Newer(m, S) \in Nat
    BY <1>1, <2>1, NewerType
  <2>4. m \in Page(req)
    BY <1>1, <1>2, <2>1, <2>2, <2>3
  <2> QED BY <1>6, <2>1, <2>4
<1>7. rows[i].wallet = rows[j].wallet
  BY <1>4 DEF Matching
<1> QED BY <1>6, <1>7 DEF Follows

\* A page without a filter on the type explains itself, whatever the days and
\* the limit.
THEOREM PagesExplain == HistorySpec => []PageIsChain
<1>1. HistoryInit => PageIsChain
  BY DEF HistoryInit, PageIsChain
<1>2. HistoryTypeOK /\ CreatedInOrder /\ LedgerChain /\ PageIsChain /\ [HistoryNext]_historyVars
        => PageIsChain'
  <2> SUFFICES ASSUME HistoryTypeOK, CreatedInOrder, LedgerChain, PageIsChain,
                      [HistoryNext]_historyVars
               PROVE  PageIsChain'
    OBVIOUS
  <2>1. CASE Fetch
    <3>1. got' = Page(req) /\ UNCHANGED <<rows, req>>
      BY <2>1 DEF Fetch, vars
    <3>2. ASSUME req.type = AnyType, NEW i \in Page(req), NEW j \in Page(req), i < j,
                 \A m \in Page(req) : m <= i \/ j <= m
          PROVE  rows[j].before = rows[i].after
      <4>1. i \in DOMAIN rows /\ j \in DOMAIN rows
        BY DEF Page, Matching
      <4>2. Follows(rows, j, i)
        BY <3>2, NeighboursFollow
      <4> QED BY <4>1, <4>2 DEF LedgerChain, Chained
    <3> QED BY <3>1, <3>2 DEF PageIsChain
  <2>2. CASE got' = {}
    BY <2>2 DEF PageIsChain
  <2>3. CASE ~ Fetch /\ got' # {}
    <3>1. UNCHANGED <<got, req>>
      BY <2>3 DEF HistoryNext, Scan, Write, Tick, Open, Count, NextPage, Close, historyVars,
                  answer
    <3>2. SameHistory(rows, rows') /\ got \subseteq DOMAIN rows
      BY HistoryStepRows DEF RowsKept, HistoryTypeOK
    <3> QED BY <3>1, <3>2 DEF PageIsChain, SameHistory
  <2> QED BY <2>1, <2>2, <2>3
<1> QED
  BY <1>1, <1>2, HistoryTyped, OrderHolds, LedgerRuns, LedgerChainHolds, PTL DEF HistorySpec

-------------------------------------------------------------------------------
\* The rows that the pages up to the current one have passed.
Passed == (IF pc = "answered" THEN Current ELSE Current - 1) * Limit(req)

\* The inductive form of ScanIsComplete: what was wanted and not yet seen is
\* further back than the scan has come.
NothingSkipped ==
  pc \in {"count", "fetch", "answered"} =>
    \A i \in wanted :
      /\ i \in Matching(req)
      /\ i \in seen \/ Newer(i, Matching(req)) >= Passed

\* It is a number of rows.
LEMMA PassedType == HistoryTypeOK => Passed \in Nat
  BY PageTypes DEF Passed

\* Writers push rows back, and time changes nothing.
LEMMA WritersSkipNothing ==
  ASSUME HistoryTypeOK, NothingSkipped, TypeOK', RowsKept,
         UNCHANGED <<pc, req, page, seen, wanted>>
  PROVE  NothingSkipped'
<1> SUFFICES ASSUME pc \in {"count", "fetch", "answered"}, NEW i \in wanted
             PROVE  /\ i \in Matching(req)'
                    /\ i \in seen \/ Newer(i, Matching(req)') >= Passed
  <2>1. Passed' = Passed
    BY DEF Passed, Current, Limit
  <2>2. wanted' = wanted /\ seen' = seen /\ pc' = pc
    OBVIOUS
  <2>3. \A i : Newer(i, Matching(req))' = Newer(i, Matching(req)')
    BY DEF Newer
  <2> QED BY <2>1, <2>2, <2>3 DEF NothingSkipped
<1>1. i \in Matching(req) /\ (i \in seen \/ Newer(i, Matching(req)) >= Passed)
  BY DEF NothingSkipped
<1>2. /\ Matching(req) \in SUBSET Nat /\ IsFiniteSet(Matching(req))
      /\ Matching(req) \subseteq Matching(req)'
      /\ Newer(i, Matching(req)) <= Newer(i, Matching(req))'
  BY <1>1, MatchingType, MatchingGrows DEF HistoryTypeOK
<1>3. Newer(i, Matching(req)) \in Nat /\ Passed \in Nat
  BY <1>1, <1>2, NewerType, PassedType
<1>4. Newer(i, Matching(req))' \in Nat
  BY <1>1, MatchingGrows
<1> QED BY <1>1, <1>2, <1>3, <1>4

\* Every page of the scan picks up where the page before it ended.
LEMMA SkipStep ==
  ASSUME HistoryTypeOK, NothingSkipped, [HistoryNext]_historyVars
  PROVE  NothingSkipped'
<1> DEFINE S == Matching(req)
           l == Limit(req)
<1>1. /\ S \in SUBSET Nat /\ IsFiniteSet(S)
      /\ l \in Nat \ {0} /\ Current \in Nat \ {0} /\ (Current - 1) * l \in Nat
      /\ Offset(req) = (Current - 1) * l /\ (Current - 1) * l + l = Current * l
  BY MatchingType, PageTypes DEF HistoryTypeOK
<1>2. \A i \in S : Newer(i, S) \in Nat
  BY <1>1, NewerType
<1>3. CASE Write \/ Tick \/ UNCHANGED historyVars
  <2>1. TypeOK' /\ RowsKept
    BY HistoryStepTypes, HistoryStepRows DEF HistoryTypeOK
  <2>2. UNCHANGED <<pc, req, page, seen, wanted>>
    BY <1>3 DEF Write, Tick, historyVars
  <2> QED BY <2>1, <2>2, WritersSkipNothing
<1>4. ASSUME NEW w \in Wallets, NEW r \in Requests, Open(w, r) PROVE NothingSkipped'
  <2>1. /\ wanted' = Matching(req') /\ Matching(req)' = Matching(req')
        /\ page' = 0 /\ pc' # "answered"
    BY <1>4 DEF Open, Matching, vars
  <2>2. HistoryTypeOK'
    BY <1>4, HistoryStepTypes
  <2>3. Passed' = 0
    <3>1. Limit(req)' \in Nat
      BY <2>2, HistoryAssumption DEF HistoryTypeOK, Limit
    <3>2. Current' - 1 = 0
      BY <2>1 DEF Current
    <3> QED BY <2>1, <3>1, <3>2 DEF Passed
  <2>4. TypeOK
    BY DEF HistoryTypeOK
  <2>5. Matching(req') \in SUBSET Nat /\ IsFiniteSet(Matching(req'))
    BY <2>4, MatchingType
  <2>6. \A i \in Matching(req') : Newer(i, Matching(req')) \in Nat
    BY <2>5, NewerType
  <2>7. \A i : Newer(i, Matching(req))' = Newer(i, Matching(req'))
    BY <2>1 DEF Newer
  <2> QED BY <2>1, <2>3, <2>6, <2>7 DEF NothingSkipped
<1>5. ASSUME Count \/ Fetch \/ NextPage
      PROVE  Matching(req)' = S /\ Limit(req)' = l /\ wanted' = wanted
             /\ \A i : Newer(i, Matching(req))' = Newer(i, S)
  <2>1. UNCHANGED <<rows, created, req, wanted>>
    BY <1>5 DEF Count, Fetch, NextPage, vars
  <2>2. Matching(req)' = S
    BY <2>1 DEF Matching
  <2> QED BY <2>1, <2>2 DEF Limit, Newer
<1>6. CASE Count
  <2>1. Passed' = Passed /\ seen' = seen /\ pc = "count"
    BY <1>6 DEF Count, Passed, Current, Limit
  <2> QED BY <1>5, <1>6, <2>1 DEF NothingSkipped
<1>7. CASE Fetch
  <2>1. /\ pc = "fetch" /\ seen' = seen \union Page(req) /\ Passed' = Current * l
        /\ Passed = (Current - 1) * l
    BY <1>5, <1>7 DEF Fetch, Passed, Current
  <2>2. \A i : i \in Page(req) <=> /\ i \in S /\ Offset(req) <= Newer(i, S)
                                   /\ Newer(i, S) < Offset(req) + l
    BY DEF Page
  <2>3. ASSUME NEW i \in wanted
        PROVE  i \in S /\ (i \in seen' \/ Newer(i, S) >= Current * l)
    <3>1. i \in S /\ (i \in seen \/ Newer(i, S) >= (Current - 1) * l)
      BY <2>1 DEF NothingSkipped
    <3> HIDE DEF S, l
    <3> QED BY <1>1, <1>2, <2>1, <2>2, <3>1
  <2> QED BY <1>5, <1>7, <2>1, <2>3 DEF NothingSkipped
<1>8. CASE NextPage
  <2>1. /\ pc = "answered" /\ pc' = "count" /\ seen' = seen /\ page' = Current + 1
        /\ Passed = Current * l
    BY <1>8 DEF NextPage, Passed
  <2>2. Current' - 1 = Current
    <3>1. Current \in Nat /\ page' # 0
      BY <1>1, <2>1
    <3>2. Current' = page'
      BY <3>1 DEF Current
    <3> QED BY <2>1, <3>1, <3>2
  <2>3. Passed' = Passed
    BY <1>5, <1>8, <2>1, <2>2 DEF Passed
  <2> QED BY <1>5, <1>8, <2>1, <2>3 DEF NothingSkipped
<1>9. CASE Close
  BY <1>9 DEF Close, NothingSkipped
<1> QED BY <1>3, <1>4, <1>6, <1>7, <1>8, <1>9 DEF HistoryNext, Scan

\* The pages up to total_pages have room for all rows that were counted.
LEMMA PagesSuffice ==
  ASSUME NEW t \in Nat, NEW l \in Nat \ {0}, NEW c \in Nat, c >= (t + l - 1) \div l
  PROVE  t <= c * l
<1> DEFINE q == (t + l - 1) \div l
           r == (t + l - 1) % l
<1>1. q \in Int /\ r \in 0 .. l - 1 /\ t + l - 1 = l * q + r
  OBVIOUS
<1> HIDE DEF q, r
<1>2. c >= q
  BY DEF q
<1>3. l * q <= l * c
  BY <1>1, <1>2
<1>4. l * c = c * l
  OBVIOUS
<1> QED BY <1>1, <1>3, <1>4

\* A client that reads all the pages sees every row that there was when it
\* began, whatever is written in the meantime.
THEOREM ScansComplete == HistorySpec => []ScanIsComplete
<1>1. HistoryInit => NothingSkipped
  BY DEF HistoryInit, NothingSkipped
<1>2. HistoryTypeOK /\ NothingSkipped => ScanIsComplete
  <2> SUFFICES ASSUME HistoryTypeOK, NothingSkipped, pc = "answered", LastPage,
                      total = Cardinality(Matching(req)), NEW i \in wanted, i \notin seen
               PROVE  FALSE
    BY DEF ScanIsComplete
  <2> DEFINE S == Matching(req)
  <2>1. S \in SUBSET Nat /\ IsFiniteSet(S) /\ i \in S
    BY MatchingType DEF HistoryTypeOK, NothingSkipped
  <2>2. Newer(i, S) \in Nat /\ Newer(i, S) < total /\ total \in Nat
    BY <2>1, NewerType DEF HistoryTypeOK
  <2>3. Newer(i, S) >= Current * Limit(req)
    BY DEF NothingSkipped, Passed
  <2>4. Current \in Nat /\ Limit(req) \in Nat \ {0} /\ Current * Limit(req) \in Nat
    <3>1. Current \in Nat /\ Limit(req) \in Nat \ {0}
      BY PageTypes
    <3>2. \A c, l \in Nat : c * l \in Nat
      OBVIOUS
    <3> QED BY <3>1, <3>2
  <2>5. total <= Current * Limit(req)
    BY <2>2, <2>4, PagesSuffice DEF LastPage, TotalPages
  <2> HIDE DEF S
  <2> QED BY <2>2, <2>3, <2>4, <2>5
<1> QED BY <1>1, <1>2, SkipStep, HistoryTyped, PTL DEF HistorySpec

===============================================================================
