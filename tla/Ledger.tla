-------------------------------- MODULE Ledger --------------------------------
(***************************************************************************)
(* What the wallet domain promises: every operation is one atomic step on  *)
(* the balances and the history, decided on the current balance, and an    *)
(* idempotency key pays for at most one operation.  WalletCore, where the  *)
(* operations run as interleaved requests with row locks, implements it.   *)
(***************************************************************************)
EXTENDS LedgerRows

VARIABLES
  wallets,  \* the ids that have a row in "wallets"
  balance,  \* wallets.balance
  rows      \* the table "transactions", in commit order

vars == <<wallets, balance, rows>>

Init ==
  /\ wallets = {}
  /\ balance = [w \in Wallets |-> 0]
  /\ rows = <<>>

AnyKey(k) == TRUE  \* variant: keys are not looked at

Fresh(k) == \A i \in DOMAIN rows : rows[i].key # k

AnyRow(i) == i \in DOMAIN rows  \* variant: no status = 'PENDING' in the WHERE

IsPending(i) == i \in DOMAIN rows /\ rows[i].status = "PENDING"

CreateWallet(w) ==
  /\ w \notin wallets
  /\ wallets' = wallets \union {w}
  /\ UNCHANGED <<balance, rows>>

\* What the three operations do once their key is claimed.
Deposit(w, a, k) ==
  /\ w \in wallets
  /\ balance' = [balance EXCEPT ![w] = Wrap(@ + a)]
  /\ rows' = Append(rows, Entry("TOPUP", w, a, balance[w], k, 0))
  /\ UNCHANGED wallets

Debit(w, a, k) ==
  /\ w \in wallets
  /\ balance[w] >= a
  /\ balance' = [balance EXCEPT ![w] = @ - a]
  /\ rows' = Append(rows, Entry("WITHDRAWAL", w, a, balance[w], k, 0))
  /\ UNCHANGED wallets

Move(from, to, a, k) ==
  /\ {from, to} \subseteq wallets /\ from # to
  /\ balance[from] >= a
  /\ balance' = [balance EXCEPT ![from] = @ - a, ![to] = Wrap(@ + a)]
  /\ rows' = Append(Append(rows,
               Entry("TRANSFER_OUT", from, a, balance[from], k, 0)),
               Entry("TRANSFER_IN", to, a, balance[to], k, 0))
  /\ UNCHANGED wallets

\* A key that has moved money moves no more.
TopUp(w, a, k) == Fresh(k) /\ Deposit(w, a, k)

Withdraw(w, a, k) == Fresh(k) /\ Debit(w, a, k)

Transfer(from, to, a, k) == Fresh(k) /\ Move(from, to, a, k)

\* Variant: the refund is not recorded as a row of its own.
ReverseUnrecorded(i) ==
  /\ IsPending(i)
  /\ balance' = [balance EXCEPT ![rows[i].wallet] = Wrap(@ + rows[i].amount)]
  /\ rows' = WithStatus(rows, i, "FAILED")
  /\ UNCHANGED wallets

\* Variant: the refund is written with the sign of the debit.
ReverseNegative(i) ==
  /\ IsPending(i)
  /\ LET w == rows[i].wallet
         a == rows[i].amount
     IN  /\ balance' = [balance EXCEPT ![w] = Wrap(@ + a)]
         /\ rows' = Append(WithStatus(rows, i, "FAILED"),
                      Entry("WITHDRAWAL_REVERT", w, 0 - a, balance[w], NoKey, i))
  /\ UNCHANGED wallets

ReverseWithdrawal(i) ==
  /\ IsPending(i)
  /\ LET w == rows[i].wallet
         a == rows[i].amount
     IN  /\ balance' = [balance EXCEPT ![w] = Wrap(@ + a)]
         /\ rows' = Append(WithStatus(rows, i, "FAILED"),
                      Entry("WITHDRAWAL_REVERT", w, a, balance[w], NoKey, i))
  /\ UNCHANGED wallets

\* Variant: a withdrawal is finalized whatever its status.
FinalizeAnyStatus(i) ==
  /\ i \in DOMAIN rows
  /\ rows' = WithStatus(rows, i, "SUCCESS")
  /\ UNCHANGED <<wallets, balance>>

FinalizeWithdrawal(i) ==
  /\ IsPending(i)
  /\ rows' = WithStatus(rows, i, "SUCCESS")
  /\ UNCHANGED <<wallets, balance>>

Next ==
  \/ \E w \in Wallets : CreateWallet(w)
  \/ \E w \in Wallets, a \in Amounts, k \in Keys :
       TopUp(w, a, k) \/ Withdraw(w, a, k)
  \/ \E from, to \in Wallets, a \in Amounts, k \in Keys : Transfer(from, to, a, k)
  \/ \E i \in DOMAIN rows : ReverseWithdrawal(i) \/ FinalizeWithdrawal(i)

Spec == Init /\ [][Next]_vars

-------------------------------------------------------------------------------

TypeOK ==
  /\ wallets \subseteq Wallets
  /\ balance \in [Wallets -> Balances]
  /\ rows \in Seq(Row)

\* The history explains every balance: a wallet's rows form a chain, each row
\* starting at the balance the previous one left, the first at zero and the
\* last ending at the wallet's current balance.  A lost update (two requests
\* computing from the same balance) breaks the chain.
LedgerChain == Chained(rows, balance)

\* A key pays once: two rows with the same key are the two halves of one
\* transfer, the same amount leaving one wallet and entering another.
AtMostOncePerKey ==
  \A i, j \in DOMAIN rows :
    (i < j /\ rows[i].key = rows[j].key /\ rows[i].key # NoKey) =>
      /\ rows[i].type = "TRANSFER_OUT" /\ rows[j].type = "TRANSFER_IN"
      /\ j = i + 1
      /\ rows[i].amount = rows[j].amount
      /\ rows[i].wallet # rows[j].wallet

Refunds(i) == {j \in DOMAIN rows : rows[j].origin = i}

\* A withdrawal is refunded exactly when it is FAILED, once, to the wallet it
\* was taken from and in full; nothing but a withdrawal is refunded.
RefundsMatchFailures ==
  /\ \A i \in DOMAIN rows :
       /\ (rows[i].status = "FAILED") <=> (Refunds(i) # {})
       /\ \A j, k \in Refunds(i) : j = k
       /\ \A j \in Refunds(i) :
            /\ rows[i].type = "WITHDRAWAL" /\ rows[j].type = "WITHDRAWAL_REVERT"
            /\ rows[j].wallet = rows[i].wallet /\ rows[j].amount = rows[i].amount

\* History is only appended to: a committed row never changes, except that a
\* pending withdrawal is settled once, as SUCCESS or as FAILED.
RowsOnlySettle ==
  [][ /\ Len(rows') >= Len(rows)
      /\ \A i \in DOMAIN rows :
           \/ rows'[i] = rows[i]
           \/ /\ rows[i].type = "WITHDRAWAL" /\ rows[i].status = "PENDING"
              /\ \E s \in {"SUCCESS", "FAILED"} :
                   rows'[i] = [rows[i] EXCEPT !.status = s]
    ]_rows

===============================================================================
