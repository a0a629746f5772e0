# Verification of the digital wallet API

TLA+ models of the wallet, the idempotency keys, the two payment flows, sessions, wallet
provisioning, the transaction history and the HTTP API of this repository, TLC runs over
small instances, and TLAPS proofs about the wallet core, both payment flows, the API's
answers, sessions, provisioning and the transaction history. Every safety property that a
run checks is also a theorem.
Paths below are relative to `src/`.

## 1. The system

Two binaries share a Postgres database and a RabbitMQ broker: `cmd/api` serves HTTP
requests, each on a goroutine of its own; `cmd/worker` consumes the webhook queues,
one message per queue at a time.

| part | state | operations | talks to |
|---|---|---|---|
| wallet use cases (`internal/wallet/usecase/wallet_usecase.go`) | tables `wallets`, `transactions` | CreateWallet, TopUp, Withdraw, ReverseWithdrawal, FinalizeWithdrawal | idempotency service, called by the payment domain |
| transfer (`transfer_usecase.go`) | the same, and `transfers` | Transfer | idempotency service |
| idempotency service (`idempotency_service .go`) | table `idempotency_keys` | Claim, Complete, MarkFailed | used by the three above and by checkout |
| withdrawal flow (`internal/payment/usecase/withdrawal_usecase.go`) | table `payment_transactions` | CreateWithdrawal, ReceivePayoutWebhook, HandlePayoutWebhook | wallet use cases, Xendit, queue |
| top-up flow (`payment_usecase.go`) | table `payment_transactions` | CreateTopUpCheckout, ReceiveWebhook, HandleWebhook | wallet use cases, Midtrans, queue |
| queues and worker (`internal/pkg/queue`, `cmd/worker`) | two quorum queues with a delivery limit, their dead-letter queues | Publish, Consume | RabbitMQ |
| sessions (`internal/auth`, `internal/pkg/jwt`) | Redis keys with a time to live | Login, Logout, the JWT middleware | - |
| users and provisioning (`auth_usecase.go`, `wallet_usecase.go`) | tables `users`, `wallets` | Register, GetWalletByUserID | CreateWallet |
| history (`transaction_usecase.go`) | none | list, detail | reads `transactions` |
| handlers and answers (`internal/*/handler`, `internal/pkg/apperror`, `internal/pkg/response`) | none | one handler per route | call the use cases, turn errors into a status and a code |
| configuration, wiring, logging | none | - | - |

What makes it hard, and what "correct" means for each part:

- *Wallet core.* Requests for one wallet interleave between their statements; a transfer
  holds two locks and a reversal a transaction row and a wallet. No update may be lost,
  no debit may exceed the balance, the history must explain the balances, a pending
  withdrawal is settled once, nobody may wait in a circle.
- *Idempotency.* A key is claimed before the database transaction and settled after it,
  in statements of their own. A crash, a failed statement or a lost reply in between
  leaves key and money apart. A key may pay for at most one operation, and a
  replayed answer must be that operation's.
- *Withdrawals.* Debit, payout, payment record and the webhook happen in four systems.
  Nobody may be paid and refunded, nobody paid without a debit, and a final
  webhook must settle its withdrawal.
- *Top-ups.* Webhooks are duplicated, reordered and redelivered. Only a paid order is
  credited, once; a paid one must be.
- *Sessions.* A token and its Redis key expire by two clocks, and a request is checked in
  two steps. A request sent after the log-out or the expiry must be refused, and a log-in
  must last until one of the two.
- *Provisioning.* Register inserts the wallet after the user, in a transaction of its own
  and without insisting; first accesses insert it too. A user has one wallet at most, and
  nobody is told something false.
- *History.* Count and page are two queries, and rows arrive all the time. A page agrees
  with its total, and reading page after page misses nothing.
- *Answers.* A client acts on a status and a code. A success must be a success for good, a
  refusal after which the client gives its key up must never be followed by the money
  moving, and nobody is shown what is not theirs, whichever step failed or was cut short.

## 2. Modules

    LedgerRows      rows, amounts, int64 arithmetic, the chain of a wallet's rows
      Ledger        abstract: every wallet operation is one atomic step
      Idempotency   the key table and the statements of the service
        WalletCore  the use cases statement by statement; implements Ledger
        PayoutFlow  withdrawals: API, Xendit, queue, worker; uses Ledger's steps
        TopUpFlow   top-ups: API, Midtrans, queue, worker; uses Ledger's steps
        Api         handlers, use cases and answers; uses Ledger's steps
        History     pages of a wallet's rows while Ledger's steps go on
    Withdrawal      abstract: one withdrawal, between user and bank; PayoutFlow implements it
    Order           abstract: one order, between customer and wallet; TopUpFlow implements it
    WebhookQueue    queue, redelivery, dead-letter queue; part of both flows
    Sessions        tokens, Redis keys, the middleware
    Provisioning    users and their wallets
    MC*             instances for TLC
    *_proofs        theorems

| module | state and the code's | actions |
|---|---|---|
| `Ledger` | `wallets`, `balance`, `rows` = tables `wallets` and `transactions` | one per wallet operation, with its whole effect |
| `WalletCore` | the tables and `idem` = `idempotency_keys`; per goroutine `pc`, `req`, `row` = locals of the use case, `locks` and `seen` = row locks and the balances they returned; `lost` is history: the keys whose COMMIT took effect and was answered with an error | one per SQL statement: `Claim` (INSERT), `Lookup` (SELECT), `LockWallet` (SELECT ... FOR UPDATE), `UpdateStatus` (UPDATE ... WHERE status = 'PENDING'), `Commit...` (the writes and COMMIT), `Complete`, `MarkFailed`; and the faults `TxError`, `KeyUpdateError`, `Crash` |
| `WebhookQueue` | `queue`, `hand`, `dead` = queue, unacknowledged message, dead-letter queue; `sent` bounds the provider | `Publish`, `Deliver`, `Ack`, `Return` |
| `PayoutFlow` | the tables, `records` = `payment_transactions`, `payouts` = Xendit's side, `pc/req/row` = calls to CreateWithdrawal, `wpc` = the handler; `erred` is history: the withdrawals of which Xendit answered a request with an error | one per statement or remote call of CreateWithdrawal and HandlePayoutWebhook, one per fault |
| `TopUpFlow` | the tables, `checkout` = the client's keys, `idem` = the keys `midtrans-topup:<order>`, `records`, `charges` = Midtrans' side, `pc/order`, `wpc/resp` | one per statement or remote call of CreateTopUpCheckout and HandleWebhook, one per fault |
| `Withdrawal` | `money` = what the user's rows say of the withdrawal, `bank` = what Xendit did, `erred` = whether it answered with an error | `Take`, `AskFirst`, `Decide`, `Settle`, `GiveBack`; after an error (`Err`) also `AskAgain`, `GiveBackAnyway`; for the key of a top-up (`Add`) `AskForTopUp` |
| `Order` | `payment` = what Midtrans did, `credited` = how many rows credit the order | `Open`, `Pay`, `Miss`, `PayBack`, `Credit` |
| `Api` | the tables, `orders` = recorded checkouts, `published` = webhooks that reached the queue; per goroutine `pc`, `req`, `row` = locals, `reply` = the last answer; `lost` is history, as in WalletCore | one per handler (its checks, in order), one per step of the use case behind it, `CallError` and `Cut` (the client hangs up or the process dies) |
| `Sessions` | `sessions` = the Redis keys and when they expire, `now`, `pc/token` = requests; `told`, `began`, `late` are history | one per Redis command and per check of the middleware, `Tick`, one per fault |
| `Provisioning` | `users`, `wallets` = the tables, `pc/call`, `reply` = requests and last answers | one per statement of Register and GetWalletByUserID, one per fault |
| `History` | Ledger's tables (it extends Ledger; its own specification is `HistorySpec`), `created` = `transactions.created_at`, `page`, `total`, `got` = a request and its answer; `seen`, `wanted` are history | `Write` = any step of Ledger, `Open`, `Count`, `Fetch`, `NextPage`, `Close`, `Tick` |

Decisions a reader should know:

- *READ COMMITTED.* The database is Postgres (`internal/config/gorm.go`;
  `docs/deadlock-demo.md` speaks of an earlier MySQL) at its default isolation. What a
  transaction writes is invisible until COMMIT and all writes go to rows it has locked or
  inserted, so the writes and COMMIT are one step; reads that lock are steps.
- *Row ids* are positions in `rows`, the order of commits. A row carries two history
  fields the table lacks, `key` and `origin`: no action of the code's reads them, they
  only let the properties say which request wrote a row and which row a refund refunds.
- *The request hash* covers what the payloads hold: amount, and recipient for transfers
  (a note is part of a transfer's payload; two notes stand for two amounts). User and
  endpoint are not compared, as in the code.
- *A lost reply to INSERT* of a key is `Crash` after `Claim`: the call ends with the key
  in PROCESSING. A cancelled request context is the same: it also fails MarkFailed.
- *Unit of the flows.* `PayoutFlow`, `TopUpFlow` and `Api` take wallet operations as Ledger's
  atomic steps, which is what the proof that WalletCore implements Ledger justifies.
  Their claim, transaction and completion remain separate steps, and the transaction is
  Ledger's effect (`Deposit`, `Debit`, `Move`) without the guard that the key has written
  nothing yet: the code's transaction has none, so that a key pays once is the work of
  its claim, in the flows too.
- *A lost reply to COMMIT* is an error after the effect: the call goes on as after a
  rollback and marks its key FAILED. WalletCore, both flows and `Api` have it. In the flows
  and in `Api` effect and error are one step, which takes nothing away: the call does nothing
  in between. `lost` and `erred` let properties name these cases instead of assuming them away.
- *External systems.* Xendit accepts one payout per reference (the code sends it as the
  idempotency key), reports only statuses the payout reached, and may repeat or reorder
  reports; a payout that succeeded may be reversed. Its client takes amounts as float32,
  which the gateway refuses above 2^24 (`MaxPayout`). Midtrans: a charge expires by itself,
  anything else takes a customer who was given the URL; a captured payment is settled, a
  paid one may be refunded, and with `PaidLater` a denied or challenged one may still be
  paid. Both are modelled from how the code uses them; `Parse` is each gateway's mapping of
  statuses, with the ones the code does not know.
- *The broker* redelivers in any order, counts returns up to the delivery limit, then
  dead-letters. The code uses no publisher confirms: in `Api` a webhook that was answered
  200 may never reach the queue; in the flows such a webhook is one that was not sent.
- *A token* is what its signature covers, the user and the expiry in whole seconds: signing
  is deterministic. Redis removes a key within the second in which it expires, at a moment
  the model leaves open. `told` is what clients know: a log-out counts from its answer.
- *A day* in `History` has a few moments, the last two being the beginning and the rest of
  the second 23:59:59. Rows of one wallet are stamped under its lock, so in the order of
  their ids. One scan stands for any number: scans only read.
- Definitions marked "Variant" are faulty forms of the definition after them. No
  specification uses them; substituting one shows that a property depends on that line.

## 3. Runs

Bounds: `Wallets`, `Keys`, `Procs`/`Apis` are small sets; `MaxInt` stands for 2^63-1;
`MaxRows` is the number of row ids a run can need; `MaxFaults` bounds crashes and database
errors; `MaxSends` bounds how often a provider sends one event; `DeliveryLimit` is 5 in the
code and 1 or 2 here, never below the faults a liveness property is meant to survive,
so the dead-letter queue is reached by webhooks whose handling cannot succeed.

| run | instance | shows |
|---|---|---|
| `ledger` | 2 wallets, 3 keys, balances -4..3 | the ledger's promises: chain of rows, a key pays once, refunds match failures, rows only settle, no value leaves its range - also when credits wrap |
| `wallet_core` | 2 goroutines, 2 wallets, 3 keys, balances -3..2, 8 requests (one key for two users, the others for several payloads; self-transfer and negative amount; credits that wrap), crashes, lost COMMIT replies | implementation of Ledger, no deadlock, truthful keys and answers, debt only after an overflow, a FAILED key moved nothing unless the reply to its COMMIT was lost |
| `wallet_live` | 2 goroutines, opposite transfers and a withdrawal that is settled, without crashes, with errors and lost COMMIT replies, fair | every call ends, every claim is settled |
| `payout_retry` | 2 API goroutines, a top-up that covers two withdrawals, one of them too large for Xendit, retries, refused payouts, lost replies, reversed payouts, early webhooks, 1 fault | nobody is paid and refunded but where Xendit answered with an error, records agree with rows, implementation of Withdrawal with its ways out |
| `payout` | 1 withdrawal, no retry, refused payouts, reversed payouts, unknown statuses, 2 faults, fair | implementation of Withdrawal; final webhooks settle or are dead-lettered |
| `payout_resend` | as `payout`, with a retry and no fault | *violated*: a retry pays out a refunded withdrawal |
| `topup` | 1 order, 2 users, six statuses, 2 faults, delivery limit 2, fair | implementation of Order: at most one credit, by the claim alone; the credit is the owner's and the order's amount; paid orders are credited or dead-lettered |
| `topup_fault` | 1 fault, fair | *violated*: a paid order is never credited |
| `api` | 2 goroutines, 2 users, 2 keys, 14 calls on all routes (one key and payload used by both users, one by a withdrawal and a checkout, one key with several payloads; with bad token, body, size, signature, amount), errors, lost COMMIT replies and hang-ups anywhere | answers are true and stay true, final refusals are final, details are shown to owners only, answers are the documented ones |
| `sessions` | 1 user, 2 goroutines, tokens of 1 second, 3 seconds, 1 fault | logged-out and expired tokens are refused, log-ins last |
| `provisioning` | 2 emails, 2 goroutines, 2 faults | one user per email, one wallet per user, true answers |
| `history` | 2 wallets, 3 keys, balances -2..1, days of 2 moments, pages of 1 and of the default 2 | pages agree with totals, scans are complete, pages are chains |

Smaller configurations show, one counterexample each, what the code does where nothing
guards it; they are run by hand (`tlc -config <name>.cfg MC<module>.tla`) and discussed in
section 5:

| configuration | module | violated |
|---|---|---|
| `wallet_overflow` | `MCWalletCore` | `BalanceNeverNegative` |
| `payout_lost_reply` | `MCPayoutFlow` | `PaidIsNotRefunded` |
| `payout_crash` | `MCPayoutFlow` | `SuccessIsRecorded` |
| `payout_reuse` | `MCPayoutFlow` | `PayoutIsOfWithdrawal` |
| `topup_later` | `MCTopUpFlow` | `PaidIsCreditedOrDead` |
| `sessions_shared` | `MCSessions` | `LogOutEndsOneLogin` |
| `first_access` | `MCProvisioning` | `FirstAccessReturnsWallet` |
| `self_heal` | `MCProvisioning` | `AccessHeals` |
| `history_day` | `MCHistory` | `DaysAreWhole` |
| `history_since` | `MCHistory` | `StartDateIsEnough` |

Why two are enough: lock conflicts, key conflicts and the settle race each involve two calls
and at most two wallets; the order of locks is decided between two ids. Three keys let a
top-up, and two operations that compete, coexist; in `api` two do, one for money that comes
in and one that all the other calls share. A session race needs a request between its
two checks and one other request, on one token; a provisioning race two inserts for one user.
Three keys let a wallet have more rows than two pages hold. What is proved (section 4) holds for any
number of goroutines, wallets, keys, users, emails, seconds and faults.

`CHECK_DEADLOCK FALSE` is set for the ledger, the flows and the API, where all keys may be
used up, every event sent and every call be one that nobody may make: the system really stops. `wallet_core` and `wallet_live` check
deadlock: a goroutine that is idle can always take a call. So do the runs of sessions,
provisioning and history.

Fairness. `WalletCore`: a goroutine that has a call runs on (weak fairness of `Serve`), and
Postgres grants a row lock to its waiters in the order they queued, so a lock that is free
again and again is eventually granted (strong fairness of `LockWallet` and
`UpdateStatus`). Calls, faults and crashes are never required to happen. The flows:
goroutines run on, the broker delivers what is queued, the worker handles what it has;
providers, customers and clients owe nothing.

## 4. Proofs

Assumptions: wallet ids are positive numbers, `NoKey` is not a key, `MaxInt` is positive,
requests are well-formed records whose amount is at most `MaxInt` (int64); in `Api`, only a
transfer has a recipient other than its caller; in `History`, a page without a limit has a
positive default and a day at least two moments. Nothing is assumed about the number of
goroutines, wallets, keys or requests, nor about crashes, lost replies, retries, refusals of the
gateways or keys that users and routes share: what the code does not guard against is
named in the property, not assumed away.

`LedgerRows_proofs` has the lemmas about rows. `TableStep` is all that a step of the wallet
domain may do to the committed tables: insert a row that is computed from the wallet's balance,
or the two of a transfer; settle a row; settle a row and insert its refund. Such a step keeps the
types, the rows that were there (`SameHistory`), the chain of rows and balances (`Chained`), and
keeps balances from being negative as long as no credit wraps around (`Solvent`).

`Ledger_proofs`: types (`LedgerTypeCorrect`), `LedgerChainHolds`, `KeysPayOnce`,
`RefundsMatch`, `HistoryOnlyGrows`. Types and the chain follow from
`LedgerStep`: every operation is a `TableStep`. `RefundsMatchFailures` speaks of "the refunds of
a row"; its inductive form `Refunded` adds that a refund's origin precedes it and that only
withdrawals are ever pending or refunded.

The same module proves History: `HistoryTyped`, `PagesAgree`, `PagesExplain`, `ScansComplete`, for
any number of rows, any limit and any days. They rest on what a row's position means: the
matching rows have the positions 0, 1, ... one each (`NewerOnto`, a counting argument), so a
page holds as many as there are (`PageSize`), and rows that arrive push old ones back, never
forward (`NewerGrows`). The inductive invariants are:

- `CreatedInOrder` - ids and stamps have the same order; so whatever lies between two
  neighbours of a page in the wallet's history matches the request's days too, and is on
  the page; with the ledger's chain the page explains itself (`PagesExplain`);
- `Counted` - what was counted is still there when the page is read (`PagesAgree`);
- `NothingSkipped` - a row that was wanted and not yet seen is further back than the pages
  asked for so far have come; on the last page there is no such place (`ScansComplete`).

`WalletCore_proofs`: `TypeCorrect`, `LockedReads`, `KeysTellTruth`, `AnswersNameRows`,
`ImplementsLedger`, `HistoryExplains`, `DebtIsOverflow`, `FailedKeysMovedNothing`,
`NoWaitingInCircles`. None of the invariants is inductive alone; the inductive one is
`CoreInv`, the conjunction of

- `TypeInv` - types, and what a goroutine's place in the code says about its call;
- `LockInv` - locks are exclusive, taken in order, and what was read under one is current;
- `RowInv` - a goroutine that has updated a row's status holds it alone, and it is still
  PENDING for everyone else;
- `KeyInv` - a key being served has one owner, and has moved no money until that owner commits.

From it every step of WalletCore is a step of Ledger or leaves Ledger's variables alone:
`LockInv` makes a commit compute from the current balance, `KeyInv` makes the key fresh at
the commit, `RowInv` makes the settled row pending. Ledger's steps are `TableStep`s of
WalletCore's tables (`PromiseStep`), which keep the chain: `HistoryExplains`, no update is
lost. They also keep `Solvent`: `DebtIsOverflow` says that the overflow of finding 1 in
section 5 is the only way to a negative balance.

`FailedKeysMovedNothing` says what a FAILED key is worth: it stands for no row, unless the
reply to the COMMIT of its own call was lost (`lost`; finding 15 of section 5). `FailedInv`
adds that a call which is about to mark its key FAILED has written nothing or is such a
call: together with `KeyInv` (the key has one owner) nobody else can have written for it.

`NoWaitingInCircles` says that no set of goroutines, however many, waits in a circle. In such a
set some goroutine waits for a wallet: who holds a row of `transactions` is past its update, so
it waits for a wallet or for nothing. Who holds the wallet it waits for waits for a larger one in
turn (`LargerAwaited`), so the wallets that are waited for have no largest. But they are
all locked, and `LocksBounded`, the inductive invariant that every step keeps because it locks
one wallet at most, says that locked wallets have a largest (`Largest`, by well-foundedness).

`Sessions_proofs`: `SessionsTyped`, `LogOutHolds`, `ExpiryHolds`, `LoginHolds`. The inductive
invariant `SessionInv` says of every request how good its token was when it got to its place
(a late request holds a token that is logged out and has not passed; a validated one had
not expired when the request began), and of every token that it has no session when it is
logged out and one that lasts as long as the token when clients hold it. Times are
assumed to be natural numbers and tokens to last at least a second; nothing is assumed of
users and goroutines.

`Provisioning_proofs`: `ProvisioningTyped`, `OneEachHolds`, `AnswersHold`. The inductive
`ProvInv` adds that a request between its statements works for a user that exists, with the
email it was registered for. All three follow from one lemma (`OneRequest`): tables only
grow, by rows that are new to their unique column, so what was true of the other
requests and answers stays true.

`TopUpFlow_proofs`: `FlowTyped`, `CreditsArePaid`, `SettledAreCredited`, `ImplementsOrder`.
No further assumption: any number of orders, goroutines, webhooks, repetitions and faults.
The inductive `FlowInv` is the conjunction of `TypeOK`; `ApiInv`, every call works on an order
of its own that is open; `EventInv`, the worker holds one message and every message tells
a status that its charge has reached, or passed; `MoneyInv`, every row is the
credit of a paid order and every COMPLETED key names its row; and `ClaimInv`, a key that was
never claimed has no row, nor has the key that the worker has just claimed. `Deposit`
itself would add a second row, and Order counts rows: `ClaimInv`, which rests on what
`Claim` lets through, is what makes a credit the first and only one.

`PayoutFlow_proofs`: `FlowTyped`, `RecordsAgree`, `PaidOrRefunded`, `ImplementsWithdrawal`.
`FlowInv` holds of every behaviour: calls, keys and rows name each other correctly, a
withdrawal is SUCCESS only if Xendit paid, a record is final only if its row is, and the
worker goes on to the record only when the row is settled, as the webhook said or, of a
payout that was reversed, as an earlier one did. `RecordsAgree` follows. The two theorems
about money assume nothing either: where findings 2, 3 and 4 of section 5 bite, `erred` or
Withdrawal's steps `AskAgain`, `GiveBackAnyway` and `AskForTopUp` say so. `SafeInv` is what
`PaidOrRefunded` needs on top of `FlowInv`: a payout exists only for a row of an amount that
may be sent, and a withdrawal that is being reversed, or was, is one that Xendit refused,
answered with an error, or was never sent because it is too large. Every step does one of
a few things to rows, payouts and `erred` (`Moves`), and each is a step of Withdrawal or none.

`Api_proofs`: `ApiTyped`, `ReceiptsHold`, `RefusalsHold`, `DetailsHold`, `AnswersListed`. They
hold for keys that users and routes share, which the code lets pass, since the hash covers
neither (finding 4): what a 201 then promises is that the call, or a twin with its key and
payload, was carried out, with the twin's type, wallet and recipient (`Receipt`). In the
inductive `ApiInv` every row and order with a key comes from a call that claimed the key with
its payload; a key has rows or an order, never both (`OneKind`); a key that is unknown has
written nothing, nor has a FAILED one but for a lost COMMIT reply, and a COMPLETED one stores
the id of what a call with its payload made; a call between claim and completion is the only
one with its key; and an answer is one the code can put together (`Right`) and true
(`AnswerTrue`). What makes a refusal final is that its key is dead: claimed, written with by
nobody, and no call with it is before its commit; or that it is spent on another payload,
which no row of this call can have (`DoneIsClaimed`). The proof has three parts: what the goroutine that
moves promises and answers (`Sound`, one lemma per step of a call), what a step may do to the
tables (`Steady`: rows are kept or settled, new ones belong to the call that commits, a claimed
key keeps its payload), and that the two leave everybody else's promises true.

Only model-checked: liveness (`EveryCallEnds`, `EveryClaimSettles`, `FinalEventSettles`,
`PaidIsCreditedOrDead`), since fairness and ENABLED are out of the prover's reach, and the
properties of section 5 that the code violates.

## 5. Where code and documents disagree

1. *Overflow* (`wallet_overflow`): credits are not checked against int64; a balance can wrap
   to negative, which `test/integration/wallet_withdrawal_test.go:66` rules out.
2. *Retry after a refund* (`payout_resend`): a refused payout reverses the withdrawal but the
   key stays COMPLETED; the retry replays it and asks for the payout again.
3. *Lost reply* (`payout_lost_reply`): any error of CreatePayout is treated as a refusal.
4. *Key of another endpoint or user* (`payout_reuse`): a replay does not check whose operation
   the stored response belongs to, nor which. A top-up and a withdrawal of the same amount have
   the same payload, so the withdrawal is paid out without a debit; a call under another
   user's key is answered with that user's transaction (`Twins` in `Api`).
5. *Crash between settlement and record* (`payout_crash`): the SUCCEEDED branch does not
   tolerate an already settled withdrawal, the FAILED branch does.
6. *Failed credit* (`topup_fault`): one failed attempt marks the order's key FAILED, so
   redeliveries cannot succeed.
7. *Shared token* (`sessions_shared`): `jwt.go:47` signs an expiry in whole seconds, so
   log-ins within one second share a token and a log-out, which "revokes the current session"
   (`auth_handler.go:108`), ends them all.
8. *First access* (`first_access`): between Register's two inserts a first
   `GET /wallets/me` can lose the race for the wallet (`wallet_usecase.go:74`) and gets 422
   instead of it; `wallet_handler.go:42` lists 401 and 500 only.
9. *Self-healing* (`self_heal`): after a failed provisioning, which "will self-heal on first
   wallet access" (`auth_usecase.go:70`), only `GET /wallets/me` and the two transaction
   endpoints heal; top-ups, withdrawals and transfers answer 404 (`wallet_usecase.go:115`).
10. *Last second* (`history_day`): `transaction_repository.go:63` compares with the instant
    23:59:59, so rows of the rest of that second belong to no day's history.
11. *Default end date* (`history_since`): `ltefield` compares lengths of strings
    (`transaction_dto.go:7`), so a start date without an end date is refused and the default
    that `transaction_handler.go:41` documents never applies.
12. *Late payment* (`topup_later`): a denied or challenged attempt makes the record FAILED, and
    a settlement of the same order that follows is acknowledged without a credit
    (`payment_usecase.go:177`). Whether Midtrans lets a customer pay again is its own affair.
13. *Two undocumented answers* (`Undocumented` in `Api`): a webhook over the size limit gets 413
    (`webhook_handler.go:37`) where the comment lists 400; `GET /transactions/:id` that loses
    the race to create its wallet gets 422, which its comment does not list.
14. *Registering answers 201*: the code, the handler's comment (`auth_handler.go:38`) and the
    model have 201, README.md:123 says that it "returns a `200`".
15. *A failed attempt that did not fail* (`lost` in `WalletCore` and `Api`): when COMMIT takes
    effect and its reply is lost, `wallet_usecase.go:182` marks the key FAILED, and every retry
    gets PREVIOUS_ATTEMPT_FAILED for money that moved. `FailedMovedNothing` and
    `RefusalIsFinal` say that there is no other such case.
16. *Floats*: README.md:151 says "No floating-point types are used anywhere in the
    money-handling path"; `xendit_gateway.go:42` hands Xendit's client a float32, which is why
    the gateway refuses amounts above 2^24 after they were debited.

`payout_resend` and `topup_fault` are runs, with an entry under "findings" in PROJECT.json;
the others are configurations to run by hand, or exceptions that properties name (13, 15), or plain to read (14, 16).

## 6. Not modelled

- Configuration, connections, wiring and logging: start-up I/O without state of its own.
- In `Api`: INVALID_AMOUNT, which validation keeps out of reach; field messages; the health
  check; what becomes of orders and payouts after the answer, which is the flows' part.
- The bank account of a withdrawal is part of the request, not of the hashed payload: a replay
  pays out to the account of the retry (`withdrawal_usecase.go:67`). Amounts and rows are what
  `PayoutFlow` follows; recipients it leaves out.
- A crash after the debit leaves a withdrawal PENDING without a payout. It is a state of
  `PayoutFlow`, and nothing in the code leads out of it; README.md lists a reclaim as planned.
- JSON, hashing and signatures are modelled by their outcome (a hash is what it is computed
  from; a webhook is signed or not). Midtrans' test notifications change nothing.
- A message that the broker loses after it was queued (persistent, on a quorum queue), and two
  workers on one queue: `cmd/worker` consumes each with one goroutine and a prefetch of 1.

## 7. Plan

Done: the modules and runs above; the inductive invariants of the core, of both payment
flows, of the API, of sessions, of provisioning and of the history; the core's refinement of the
ledger, and the flows' of the lives of a withdrawal and of an order.

Next: two workers on one queue, where `UpdateStatus` (`payment_repository.go:52`) writes
without looking at the present status; messages the broker loses, as an action of
`WebhookQueue`, with the liveness that is left.
