-------------------------- MODULE LedgerRows_proofs ---------------------------
(***************************************************************************)
(* Lemmas about the rows of the ledger: their types, what an insertion and *)
(* a status update leave alone, and when a history explains the balances.  *)
(***************************************************************************)
EXTENDS LedgerRows, TLAPS, SequenceTheorems

\* Wrapped addition of a positive amount stays an int64.
LEMMA WrapType ==
  ASSUME NEW b \in Balances, NEW a \in Amounts
  PROVE  Wrap(b + a) \in Balances
  BY MaxIntAssumption DEF Balances, Amounts, Wrap

\* A debit that the balance covers stays an int64.
LEMMA DebitType ==
  ASSUME NEW b \in Balances, NEW a \in Amounts, b >= a
  PROVE  b - a \in Balances
  BY MaxIntAssumption DEF Balances, Amounts

\* The rows the operations insert are rows of the table.
LEMMA EntryType ==
  ASSUME NEW type \in CreditTypes \union DebitTypes, NEW w \in Wallets,
         NEW a \in Amounts, NEW b \in Balances, NEW k \in Keys \union {NoKey},
         NEW o \in Nat, type \in DebitTypes => b >= a
  PROVE  /\ Entry(type, w, a, b, k, o) \in Row
         /\ After(type, b, a) \in Balances
<1>1. After(type, b, a) \in Balances
  <2>1. CASE type \in CreditTypes
    BY <2>1, WrapType DEF After
  <2>2. CASE type \notin CreditTypes
    BY <2>2, DebitType DEF After
  <2> QED BY <2>1, <2>2
<1>2. (IF type = "WITHDRAWAL" THEN "PENDING" ELSE "SUCCESS") \in Statuses
  BY DEF Statuses
<1> QED BY <1>1, <1>2 DEF Entry, Row

\* What is known of a row of the table.
LEMMA RowAt ==
  ASSUME NEW rs \in Seq(Row), NEW i \in DOMAIN rs
  PROVE  /\ i \in Nat \ {0} /\ i <= Len(rs) /\ rs[i] \in Row
         /\ rs[i].wallet \in Wallets /\ rs[i].amount \in Amounts
         /\ rs[i].type \in CreditTypes \union DebitTypes
         /\ rs[i].before \in Balances /\ rs[i].after \in Balances
         /\ rs[i].status \in Statuses /\ rs[i].key \in Keys \union {NoKey}
         /\ rs[i].origin \in Nat
<1>1. Len(rs) \in Nat /\ i \in 1 .. Len(rs)
  BY LenProperties
<1>2. rs[i] \in Row
  BY ElementOfSeq
<1> QED BY <1>1, <1>2 DEF Row

\* Updating a row's status leaves the table's length and the rest of the row.
LEMMA WithStatusProps ==
  ASSUME NEW rs \in Seq(Row), NEW i \in DOMAIN rs, NEW s \in Statuses
  PROVE  LET new == WithStatus(rs, i, s)
         IN  /\ new \in Seq(Row) /\ Len(new) = Len(rs) /\ DOMAIN new = DOMAIN rs
             /\ \A j \in DOMAIN rs : j # i => new[j] = rs[j]
             /\ new[i].status = s
             /\ \A j \in DOMAIN rs :
                  /\ new[j].wallet = rs[j].wallet /\ new[j].type = rs[j].type
                  /\ new[j].amount = rs[j].amount /\ new[j].before = rs[j].before
                  /\ new[j].after = rs[j].after /\ new[j].key = rs[j].key
                  /\ new[j].origin = rs[j].origin
<1> DEFINE e == [rs[i] EXCEPT !.status = s]
<1>1. rs[i] \in Row
  BY ElementOfSeq
<1>2. /\ e \in Row /\ e.wallet = rs[i].wallet /\ e.type = rs[i].type
      /\ e.amount = rs[i].amount /\ e.before = rs[i].before /\ e.status = s
      /\ e.after = rs[i].after /\ e.key = rs[i].key /\ e.origin = rs[i].origin
  BY <1>1 DEF Row
<1>3. WithStatus(rs, i, s) = [rs EXCEPT ![i] = e]
  BY DEF WithStatus
<1> HIDE DEF e
<1>4. [rs EXCEPT ![i] = e] \in Seq(Row)
  BY <1>2, ExceptSeq
<1>5. /\ Len([rs EXCEPT ![i] = e]) = Len(rs)
      /\ DOMAIN [rs EXCEPT ![i] = e] = DOMAIN rs
      /\ [rs EXCEPT ![i] = e][i] = e
      /\ \A j \in DOMAIN rs : j # i => [rs EXCEPT ![i] = e][j] = rs[j]
  BY <1>2, ExceptSeq
<1> QED BY <1>2, <1>3, <1>4, <1>5

\* What no status update changes, row by row.
LEMMA WithStatusKeeps ==
  ASSUME NEW rs \in Seq(Row), NEW i \in DOMAIN rs, NEW s \in Statuses,
         NEW new, new = WithStatus(rs, i, s)
  PROVE  /\ new \in Seq(Row) /\ Len(new) = Len(rs) /\ DOMAIN new = DOMAIN rs
         /\ \A j \in DOMAIN rs :
              /\ new[j].wallet = rs[j].wallet /\ new[j].type = rs[j].type
              /\ new[j].amount = rs[j].amount /\ new[j].before = rs[j].before
              /\ new[j].key = rs[j].key /\ new[j].origin = rs[j].origin
  BY WithStatusProps

\* Appending a row keeps the others.
LEMMA AppendProps ==
  ASSUME NEW rs \in Seq(Row), NEW e \in Row
  PROVE  /\ Append(rs, e) \in Seq(Row)
         /\ Len(Append(rs, e)) = Len(rs) + 1
         /\ DOMAIN Append(rs, e) = DOMAIN rs \union {Len(rs) + 1}
         /\ DOMAIN rs = 1 .. Len(rs) /\ Len(rs) \in Nat
         /\ \A j \in DOMAIN rs : Append(rs, e)[j] = rs[j]
         /\ Append(rs, e)[Len(rs) + 1] = e
  BY AppendProperties, LenProperties

\* A status update changes one row, and in it the status only.
LEMMA RowSettled ==
  ASSUME NEW rs \in Seq(Row), NEW i \in DOMAIN rs, NEW s
  PROVE  WithStatus(rs, i, s)[i] = [rs[i] EXCEPT !.status = s]
<1> DEFINE e == [rs[i] EXCEPT !.status = s]
<1>1. WithStatus(rs, i, s) = [rs EXCEPT ![i] = e]
  BY DEF WithStatus
<1> HIDE DEF e
<1>2. [rs EXCEPT ![i] = e][i] = e
  BY ExceptSeq
<1>3. WithStatus(rs, i, s)[i] = e
  BY <1>1, <1>2
<1> QED BY <1>3 DEF e

-------------------------------------------------------------------------------
\* A row that starts at its wallet's balance extends the chain.
LEMMA ChainAppend ==
  ASSUME NEW rs \in Seq(Row), NEW e \in Row, NEW bal \in [Wallets -> Balances],
         Chained(rs, bal), e.before = bal[e.wallet]
  PROVE  Chained(Append(rs, e), [bal EXCEPT ![e.wallet] = e.after])
<1> DEFINE n == Len(rs)
           new == Append(rs, e)
           bal2 == [bal EXCEPT ![e.wallet] = e.after]
<1>1. /\ n \in Nat /\ DOMAIN rs = 1 .. n /\ DOMAIN new = 1 .. n + 1
      /\ \A j \in 1 .. n : new[j] = rs[j] /\ rs[j].wallet \in Wallets
      /\ new[n + 1] = e /\ e.wallet \in Wallets
  <2>1. DOMAIN new = DOMAIN rs \union {n + 1} /\ DOMAIN rs = 1 .. n /\ n \in Nat
    BY AppendProps
  <2>2. (1 .. n) \union {n + 1} = 1 .. n + 1
    BY <2>1
  <2>3. \A j \in 1 .. n : rs[j].wallet \in Wallets
    BY <2>1, RowAt
  <2> QED BY <2>1, <2>2, <2>3, AppendProps DEF Row
<1> HIDE DEF n, new
<1>2. ASSUME NEW i \in DOMAIN new, NEW j \in DOMAIN new, Follows(new, j, i)
      PROVE  new[j].before = new[i].after
  <2>1. CASE j \in 1 .. n
    BY <1>1, <1>2, <2>1 DEF Follows, Chained
  <2>2. CASE j = n + 1
    <3>1. i \in 1 .. n /\ rs[i].wallet = e.wallet
      BY <1>1, <1>2, <2>2 DEF Follows
    <3>2. IsLast(rs, i)
      BY <1>1, <1>2, <2>2, <3>1 DEF Follows, IsLast
    <3> QED BY <1>1, <2>2, <3>1, <3>2 DEF Chained
  <2> QED BY <1>1, <2>1, <2>2
<1>3. ASSUME NEW i \in DOMAIN new, IsFirst(new, i)
      PROVE  new[i].before = 0
  <2>1. CASE i \in 1 .. n
    BY <1>1, <1>3, <2>1 DEF IsFirst, Chained
  <2>2. CASE i = n + 1
    <3>1. \A m \in DOMAIN rs : rs[m].wallet # e.wallet
      BY <1>1, <1>3, <2>2 DEF IsFirst
    <3> QED BY <1>1, <2>2, <3>1 DEF Chained
  <2> QED BY <1>1, <2>1, <2>2
<1>4. ASSUME NEW i \in DOMAIN new, IsLast(new, i)
      PROVE  new[i].after = bal2[new[i].wallet]
  <2>1. CASE i \in 1 .. n
    <3>1. rs[i].wallet # e.wallet /\ IsLast(rs, i)
      BY <1>1, <1>4, <2>1 DEF IsLast
    <3> QED BY <1>1, <2>1, <3>1 DEF Chained
  <2>2. CASE i = n + 1
    BY <1>1, <2>2
  <2> QED BY <1>1, <2>1, <2>2
<1>5. ASSUME NEW w \in Wallets, \A i \in DOMAIN new : new[i].wallet # w
      PROVE  bal2[w] = 0
  <2>1. w # e.wallet /\ \A i \in DOMAIN rs : rs[i].wallet # w
    BY <1>1, <1>5
  <2> QED BY <2>1 DEF Chained
<1> QED BY <1>2, <1>3, <1>4, <1>5 DEF Chained, new

\* Settling a row leaves the chain alone: it does not depend on statuses.
LEMMA ChainStatus ==
  ASSUME NEW rs \in Seq(Row), NEW i \in DOMAIN rs, NEW s \in Statuses,
         NEW bal, Chained(rs, bal)
  PROVE  Chained(WithStatus(rs, i, s), bal)
<1> DEFINE new == WithStatus(rs, i, s)
<1>1. /\ DOMAIN new = DOMAIN rs
      /\ \A j \in DOMAIN rs : /\ new[j].wallet = rs[j].wallet
                              /\ new[j].before = rs[j].before
                              /\ new[j].after = rs[j].after
  BY WithStatusProps
<1> HIDE DEF new
<1>2. Chained(new, bal)
  BY <1>1 DEF Chained, Follows, IsFirst, IsLast
<1> QED BY <1>2 DEF new

\* One row inserted for a wallet keeps the chain of the committed tables.
LEMMA ChainEntry ==
  ASSUME NEW rs \in Seq(Row), NEW bal \in [Wallets -> Balances], Chained(rs, bal),
         NEW type \in CreditTypes \union DebitTypes, NEW w \in Wallets,
         NEW a \in Amounts, NEW k \in Keys \union {NoKey}, NEW o \in Nat,
         type \in DebitTypes => bal[w] >= a
  PROVE  LET e == Entry(type, w, a, bal[w], k, o)
             bal2 == [bal EXCEPT ![w] = After(type, bal[w], a)]
         IN  /\ Chained(Append(rs, e), bal2)
             /\ Append(rs, e) \in Seq(Row) /\ bal2 \in [Wallets -> Balances]
<1> DEFINE e == Entry(type, w, a, bal[w], k, o)
<1>1. e \in Row /\ After(type, bal[w], a) \in Balances
  BY EntryType
<1>2. e.wallet = w /\ e.before = bal[w] /\ e.after = After(type, bal[w], a)
  BY DEF Entry
<1> HIDE DEF e
<1>3. Chained(Append(rs, e), [bal EXCEPT ![w] = After(type, bal[w], a)])
  BY <1>1, <1>2, ChainAppend
<1> QED BY <1>1, <1>3, AppendProperties DEF e

-------------------------------------------------------------------------------
\* One row is inserted for wallet w, computed from its balance.
OneEntry(rs, bal, rs2, bal2) ==
  \E type \in CreditTypes \union DebitTypes, w \in Wallets, a \in Amounts,
     k \in Keys \union {NoKey}, o \in Nat :
    /\ type \in DebitTypes => bal[w] >= a
    /\ rs2 = Append(rs, Entry(type, w, a, bal[w], k, o))
    /\ bal2 = [bal EXCEPT ![w] = After(type, bal[w], a)]

\* One row is settled.
OneSettled(rs, rs2) ==
  \E i \in DOMAIN rs, s \in Statuses : rs2 = WithStatus(rs, i, s)

\* All that a step of the wallet domain may do to the committed tables: insert
\* a row or the two of a transfer, settle a row, refund a row that it settles.
TableStep(rs, bal, rs2, bal2) ==
  \/ rs2 = rs /\ bal2 = bal
  \/ OneSettled(rs, rs2) /\ bal2 = bal
  \/ OneEntry(rs, bal, rs2, bal2)
  \/ \E mid \in Seq(Row) : \E b : OneEntry(rs, bal, mid, b) /\ OneEntry(mid, b, rs2, bal2)
  \/ \E mid \in Seq(Row) : OneSettled(rs, mid) /\ OneEntry(mid, bal, rs2, bal2)

\* rs2 has the rows of rs at their places, as they were but for the status.
SameHistory(rs, rs2) ==
  /\ Len(rs) <= Len(rs2)
  /\ \A i \in DOMAIN rs :
       /\ i \in DOMAIN rs2
       /\ rs2[i].wallet = rs[i].wallet /\ rs2[i].type = rs[i].type
       /\ rs2[i].before = rs[i].before /\ rs2[i].after = rs[i].after

\* The insertions meant.
LEMMA EntryIsOne ==
  ASSUME NEW type \in CreditTypes \union DebitTypes, NEW w \in Wallets, NEW a \in Amounts,
         NEW k \in Keys \union {NoKey}, NEW o \in Nat, NEW rs, NEW bal,
         type \in DebitTypes => bal[w] >= a
  PROVE  OneEntry(rs, bal, Append(rs, Entry(type, w, a, bal[w], k, o)),
                  [bal EXCEPT ![w] = After(type, bal[w], a)])
  BY DEF OneEntry

\* A row inserted so keeps the chain and the rows before it.
LEMMA EntryKeeps ==
  ASSUME NEW rs \in Seq(Row), NEW bal \in [Wallets -> Balances], NEW rs2, NEW bal2,
         OneEntry(rs, bal, rs2, bal2)
  PROVE  /\ rs2 \in Seq(Row) /\ bal2 \in [Wallets -> Balances] /\ SameHistory(rs, rs2)
         /\ Chained(rs, bal) => Chained(rs2, bal2)
<1>1. PICK type \in CreditTypes \union DebitTypes, w \in Wallets, a \in Amounts,
           k \in Keys \union {NoKey}, o \in Nat :
             /\ type \in DebitTypes => bal[w] >= a
             /\ rs2 = Append(rs, Entry(type, w, a, bal[w], k, o))
             /\ bal2 = [bal EXCEPT ![w] = After(type, bal[w], a)]
  BY DEF OneEntry
<1> DEFINE e == Entry(type, w, a, bal[w], k, o)
<1>2. e \in Row /\ After(type, bal[w], a) \in Balances
  BY <1>1, EntryType
<1>3. Chained(rs, bal) => Chained(rs2, bal2)
  BY <1>1, ChainEntry
<1>4. rs2 = Append(rs, e)
  BY <1>1
<1> HIDE DEF e
<1>5. rs2 \in Seq(Row) /\ SameHistory(rs, rs2)
  BY <1>2, <1>4, AppendProps DEF SameHistory
<1> QED BY <1>1, <1>2, <1>3, <1>5

\* So does a row that is settled.
LEMMA SettledKeeps ==
  ASSUME NEW rs \in Seq(Row), NEW bal, NEW rs2, OneSettled(rs, rs2)
  PROVE  /\ rs2 \in Seq(Row) /\ SameHistory(rs, rs2)
         /\ Chained(rs, bal) => Chained(rs2, bal)
<1>1. PICK i \in DOMAIN rs, s \in Statuses : rs2 = WithStatus(rs, i, s)
  BY DEF OneSettled
<1>2. Chained(rs, bal) => Chained(rs2, bal)
  BY <1>1, ChainStatus
<1>3. rs2 \in Seq(Row) /\ Len(rs2) = Len(rs) /\ SameHistory(rs, rs2)
  BY <1>1, WithStatusProps, LenProperties DEF SameHistory
<1> QED BY <1>2, <1>3

\* Every step of the wallet domain keeps the chain and the rows before it.
LEMMA TableStepKeeps ==
  ASSUME NEW rs \in Seq(Row), NEW bal \in [Wallets -> Balances], NEW rs2, NEW bal2,
         TableStep(rs, bal, rs2, bal2)
  PROVE  /\ rs2 \in Seq(Row) /\ bal2 \in [Wallets -> Balances] /\ SameHistory(rs, rs2)
         /\ Chained(rs, bal) => Chained(rs2, bal2)
<1>0. \A r1, r2, r3 \in Seq(Row) :
        SameHistory(r1, r2) /\ SameHistory(r2, r3) => SameHistory(r1, r3)
  BY LenProperties DEF SameHistory
<1>1. CASE rs2 = rs /\ bal2 = bal
  BY <1>1, LenProperties DEF SameHistory
<1>2. CASE OneSettled(rs, rs2) /\ bal2 = bal
  BY <1>2, SettledKeeps
<1>3. CASE OneEntry(rs, bal, rs2, bal2)
  BY <1>3, EntryKeeps
<1>4. ASSUME NEW mid \in Seq(Row), NEW b, OneEntry(rs, bal, mid, b), OneEntry(mid, b, rs2, bal2)
      PROVE  /\ rs2 \in Seq(Row) /\ bal2 \in [Wallets -> Balances] /\ SameHistory(rs, rs2)
             /\ Chained(rs, bal) => Chained(rs2, bal2)
  <2>1. /\ b \in [Wallets -> Balances] /\ SameHistory(rs, mid)
        /\ Chained(rs, bal) => Chained(mid, b)
    BY <1>4, EntryKeeps
  <2>2. /\ rs2 \in Seq(Row) /\ bal2 \in [Wallets -> Balances] /\ SameHistory(mid, rs2)
        /\ Chained(mid, b) => Chained(rs2, bal2)
    BY <1>4, <2>1, EntryKeeps
  <2> QED BY <1>0, <2>1, <2>2
<1>5. ASSUME NEW mid \in Seq(Row), OneSettled(rs, mid), OneEntry(mid, bal, rs2, bal2)
      PROVE  /\ rs2 \in Seq(Row) /\ bal2 \in [Wallets -> Balances] /\ SameHistory(rs, rs2)
             /\ Chained(rs, bal) => Chained(rs2, bal2)
  <2>1. SameHistory(rs, mid) /\ (Chained(rs, bal) => Chained(mid, bal))
    BY <1>5, SettledKeeps
  <2>2. /\ rs2 \in Seq(Row) /\ bal2 \in [Wallets -> Balances] /\ SameHistory(mid, rs2)
        /\ Chained(mid, bal) => Chained(rs2, bal2)
    BY <1>5, EntryKeeps
  <2> QED BY <1>0, <2>1, <2>2
<1> QED BY <1>1, <1>2, <1>3, <1>4, <1>5 DEF TableStep

-------------------------------------------------------------------------------
\* Nobody owes anything, unless a credit has wrapped around.
Solvent(rs, bal) == NoOverflow(rs) => \A w \in Wallets : bal[w] >= 0

\* An insertion keeps that: debits are covered.
LEMMA EntrySolvent ==
  ASSUME NEW rs \in Seq(Row), NEW bal \in [Wallets -> Balances], NEW rs2, NEW bal2,
         OneEntry(rs, bal, rs2, bal2), Solvent(rs, bal)
  PROVE  Solvent(rs2, bal2)
<1> SUFFICES ASSUME NoOverflow(rs2) PROVE \A w \in Wallets : bal2[w] >= 0
  BY DEF Solvent
<1>1. PICK type \in CreditTypes \union DebitTypes, w \in Wallets, a \in Amounts,
           k \in Keys \union {NoKey}, o \in Nat :
             /\ type \in DebitTypes => bal[w] >= a
             /\ rs2 = Append(rs, Entry(type, w, a, bal[w], k, o))
             /\ bal2 = [bal EXCEPT ![w] = After(type, bal[w], a)]
  BY DEF OneEntry
<1> DEFINE e == Entry(type, w, a, bal[w], k, o)
<1>2. e \in Row /\ e.type = type /\ e.before = bal[w] /\ e.amount = a
  BY <1>1, EntryType DEF Entry
<1>3. rs2 = Append(rs, e)
  BY <1>1
<1> HIDE DEF e
<1>4. /\ DOMAIN rs2 = DOMAIN rs \union {Len(rs) + 1} /\ rs2[Len(rs) + 1] = e
      /\ \A i \in DOMAIN rs : rs2[i] = rs[i]
  BY <1>2, <1>3, AppendProps
<1>5. \A v \in Wallets : bal[v] >= 0
  BY <1>4 DEF NoOverflow, Solvent
<1>6. /\ type \in CreditTypes => bal[w] + a <= MaxInt
      /\ bal[w] \in Int /\ a \in Nat /\ MaxInt \in Nat
  BY <1>2, <1>4, MaxIntAssumption DEF NoOverflow, Balances, Amounts
<1>7. After(type, bal[w], a) >= 0
  BY <1>1, <1>5, <1>6 DEF After, Wrap
<1> QED BY <1>1, <1>5, <1>7

\* So does a settlement, which moves no money.
LEMMA SettledSolvent ==
  ASSUME NEW rs \in Seq(Row), NEW bal, NEW rs2, OneSettled(rs, rs2), Solvent(rs, bal)
  PROVE  Solvent(rs2, bal)
<1>1. PICK i \in DOMAIN rs, s \in Statuses : rs2 = WithStatus(rs, i, s)
  BY DEF OneSettled
<1>2. /\ DOMAIN rs2 = DOMAIN rs
      /\ \A j \in DOMAIN rs : /\ rs2[j].type = rs[j].type /\ rs2[j].before = rs[j].before
                             /\ rs2[j].amount = rs[j].amount
  BY <1>1, WithStatusKeeps
<1>3. NoOverflow(rs2) => NoOverflow(rs)
  BY <1>2 DEF NoOverflow
<1> QED BY <1>3 DEF Solvent

\* Nothing but a credit that wraps around makes a balance negative.
LEMMA TableStepSolvent ==
  ASSUME NEW rs \in Seq(Row), NEW bal \in [Wallets -> Balances], NEW rs2, NEW bal2,
         TableStep(rs, bal, rs2, bal2), Solvent(rs, bal)
  PROVE  Solvent(rs2, bal2)
<1>1. ASSUME NEW mid \in Seq(Row), NEW b, OneEntry(rs, bal, mid, b), OneEntry(mid, b, rs2, bal2)
      PROVE  Solvent(rs2, bal2)
  <2>1. b \in [Wallets -> Balances] /\ Solvent(mid, b)
    BY <1>1, EntryKeeps, EntrySolvent
  <2> QED BY <1>1, <2>1, EntrySolvent
<1>2. ASSUME NEW mid \in Seq(Row), OneSettled(rs, mid), OneEntry(mid, bal, rs2, bal2)
      PROVE  Solvent(rs2, bal2)
  BY <1>2, SettledSolvent, EntrySolvent
<1> QED BY <1>1, <1>2, EntrySolvent, SettledSolvent DEF TableStep

===============================================================================
