------------------------------ MODULE LedgerRows ------------------------------
(***************************************************************************)
(* The data of the wallet domain: the rows of the "transactions" table and *)
(* the arithmetic that computes them.  Wallet ids are positive numbers,    *)
(* because Transfer compares them to order its locks; one wallet belongs   *)
(* to one user (wallets.user_id is UNIQUE), so a wallet also stands for    *)
(* its user.  A row's id is its position in the sequence "rows".           *)
(***************************************************************************)
EXTENDS Integers, Sequences

CONSTANTS
  Wallets,  \* wallet ids (and the users that own them)
  Keys,     \* idempotency keys clients send
  NoKey,    \* "no idempotency key": rows written without one
  MaxInt    \* largest balance, 2^63 - 1 in the code (int64, BIGINT)

ASSUME WalletsAssumption == Wallets \subseteq Nat \ {0}
ASSUME KeysAssumption == NoKey \notin Keys
ASSUME MaxIntAssumption == MaxInt \in Nat \ {0}

-------------------------------------------------------------------------------

\* Go's int64 addition wraps around.  Only credits add, and they add at most
\* MaxInt, so one wrap is enough.
Wrap(x) == IF x > MaxInt THEN x - 2 * (MaxInt + 1) ELSE x

Balances == (0 - MaxInt - 1) .. MaxInt

Amounts == 1 .. MaxInt

CreditTypes == {"TOPUP", "TRANSFER_IN", "WITHDRAWAL_REVERT"}
DebitTypes  == {"WITHDRAWAL", "TRANSFER_OUT"}
Statuses    == {"SUCCESS", "PENDING", "FAILED"}

\* The balance a row of this type leaves behind.
After(type, before, amount) ==
  IF type \in CreditTypes THEN Wrap(before + amount) ELSE before - amount

\* A row as it is inserted.  "key" and "origin" are history: the idempotency
\* key of the request that wrote the row, and, for a reversal, the row it
\* refunds; the table has neither column.
Entry(type, w, amount, before, key, origin) ==
  [wallet |-> w, type |-> type, amount |-> amount,
   before |-> before, after |-> After(type, before, amount),
   status |-> IF type = "WITHDRAWAL" THEN "PENDING" ELSE "SUCCESS",
   key |-> key, origin |-> origin]

Row == [wallet : Wallets, type : CreditTypes \union DebitTypes,
        amount : Amounts, before : Balances, after : Balances,
        status : Statuses, key : Keys \union {NoKey}, origin : Nat]

\* UPDATE transactions SET status = s WHERE id = i
WithStatus(rows, i, s) == [rows EXCEPT ![i].status = s]

-------------------------------------------------------------------------------

\* Row j is the next of its wallet after row i; row i is the first, the last.
Follows(rs, j, i) ==
  /\ i < j /\ rs[i].wallet = rs[j].wallet
  /\ \A m \in DOMAIN rs : i < m /\ m < j => rs[m].wallet # rs[i].wallet
IsFirst(rs, i) == \A m \in DOMAIN rs : m < i => rs[m].wallet # rs[i].wallet
IsLast(rs, i) == \A m \in DOMAIN rs : i < m => rs[m].wallet # rs[i].wallet

\* The rows explain the balances: each wallet's rows form a chain from zero to
\* its current balance.
Chained(rs, bal) ==
  /\ \A i, j \in DOMAIN rs : Follows(rs, j, i) => rs[j].before = rs[i].after
  /\ \A i \in DOMAIN rs : IsFirst(rs, i) => rs[i].before = 0
  /\ \A i \in DOMAIN rs : IsLast(rs, i) => rs[i].after = bal[rs[i].wallet]
  /\ \A w \in Wallets : (\A i \in DOMAIN rs : rs[i].wallet # w) => bal[w] = 0

\* No credit has wrapped around.
NoOverflow(rs) ==
  \A i \in DOMAIN rs :
    rs[i].type \in CreditTypes => rs[i].before + rs[i].amount <= MaxInt

===============================================================================
