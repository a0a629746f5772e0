---------------------------------- MODULE Api ---------------------------------
(***************************************************************************)
(* The HTTP API as its clients see it: the checks of each handler, the     *)
(* steps of the use case behind it, and the one answer a call gets, a      *)
(* status and a code.  The wallet domain's operations are Ledger's atomic  *)
(* steps, which WalletCore implements; how orders and payouts go on is     *)
(* TopUpFlow's and PayoutFlow's subject.  A wallet stands for its user.    *)
(***************************************************************************)
EXTENDS Idempotency

CONSTANTS
  Procs,    \* goroutines serving calls
  Requests  \* the calls clients and providers may make, and repeat

MoneyRoutes == {"TOPUP", "TRANSFER", "WITHDRAWAL", "CHECKOUT"}
WebhookRoutes == {"MIDTRANS", "XENDIT"}

\* "to" is the recipient of a transfer, the caller otherwise; "id" is the
\* transaction a DETAIL asks for.  "flaws" are what can be wrong with a call besides
\* an amount or a key: its token, its body or path, its size, its signature.
Request == [route : MoneyRoutes \union {"DETAIL"} \union WebhookRoutes,
            user : Wallets, to : Wallets, amount : Int, key : Keys \union {NoKey},
            id : Nat, flaws : SUBSET {"token", "body", "size", "signature"}]

ASSUME ApiAssumption ==
  /\ Requests \subseteq Request
  /\ \A r \in Requests : /\ r.amount <= MaxInt
                         /\ r.route # "TRANSFER" => r.to = r.user

VARIABLES
  wallets, balance, rows,  \* the wallet domain's tables
  orders,     \* checkouts made and recorded: key, user and amount
  published,  \* webhooks that reached the broker's queue
  lost,       \* history: keys whose call committed and was told of an error
  pc, req,    \* goroutines: control, and the call they serve
  row,        \* the transaction, or the order, a call will answer with
  reply       \* the last answer of each goroutine, until it takes a new call

ledger == <<wallets, balance, rows>>
tables == <<ledger, idem, orders, published, lost>>
call == <<req, row, reply>>
vars == <<tables, pc, call>>

Wallet == INSTANCE Ledger WITH wallets <- wallets, balance <- balance, rows <- rows

NoReq == [route |-> "NONE", user |-> 0, to |-> 0, amount |-> 0, key |-> NoKey,
          id |-> 0, flaws |-> {}]
NoReply == [req |-> NoReq, http |-> <<0, "NONE">>, row |-> 0, status |-> "NONE"]

Init ==
  /\ wallets = {} /\ balance = [w \in Wallets |-> 0] /\ rows = <<>>
  /\ idem = NoKeys /\ orders = <<>> /\ published = {} /\ lost = {}
  /\ pc = [p \in Procs |-> "idle"] /\ req = [p \in Procs |-> NoReq]
  /\ row = [p \in Procs |-> 0] /\ reply = [p \in Procs |-> NoReply]

-------------------------------------------------------------------------------
\* Answers

\* The status of every code that a client may see; all else is internal.
StatusOf(code) ==
  CASE code \in {"BAD_REQUEST", "VALIDATION_ERROR", "MISSING_IDEMPOTENCY_KEY"} -> 400
    [] code \in {"UNAUTHORIZED", "INVALID_WEBHOOK_SIGNATURE"} -> 401
    [] code \in {"WALLET_NOT_FOUND", "RECIPIENT_NOT_FOUND", "TRANSACTION_NOT_FOUND"} -> 404
    [] code \in {"IDEMPOTENCY_KEY_CONFLICT", "REQUEST_IN_PROGRESS"} -> 409
    [] code = "WEBHOOK_PAYLOAD_TOO_LARGE" -> 413
    [] code \in {"INSUFFICIENT_BALANCE", "SELF_TRANSFER_NOT_ALLOWED",
                 "PREVIOUS_ATTEMPT_FAILED", "USER_HAS_WALLET_ALREADY"} -> 422
    [] OTHER -> 500

\* Variant: the code of an internal error is shown.
HandleVerbatim(code) == <<StatusOf(code), code>>

\* response.Handle
Handle(code) ==
  IF StatusOf(code) < 500 THEN <<StatusOf(code), code>>
                          ELSE <<500, "INTERNAL_SERVER_ERROR">>

Reply(p, r, http, i) ==
  /\ reply' = [reply EXCEPT ![p] =
       [req |-> r, http |-> http, row |-> i,
        status |-> IF http[1] = 200 /\ r.route = "DETAIL" THEN rows[i].status ELSE "NONE"]]
  /\ pc' = [pc EXCEPT ![p] = "idle"]
  /\ req' = [req EXCEPT ![p] = NoReq] /\ row' = [row EXCEPT ![p] = 0]

Succeed(p, i) ==
  Reply(p, req[p], <<IF req[p].route \in MoneyRoutes THEN 201 ELSE 200, "OK">>, i)

Refuse(p, code) == Reply(p, req[p], Handle(code), 0)

Goto(p, to) == pc' = [pc EXCEPT ![p] = to] /\ UNCHANGED call

-------------------------------------------------------------------------------
\* Handlers: checks in order, then the use case

\* The middleware let no user through, or the provider did not sign the webhook.
Unauthenticated(r) == "token" \in r.flaws
Unsigned(r) == "signature" \in r.flaws

Fails(r, check) ==
  CASE check = "token" -> Unauthenticated(r)
    [] check = "field" -> r.amount <= 0
    [] check = "key" -> r.key = NoKey
    [] check = "signature" -> Unsigned(r)
    [] OTHER -> check \in r.flaws

CodeOf(check) ==
  CASE check = "token" -> "UNAUTHORIZED"
    [] check = "body" -> "BAD_REQUEST"
    [] check = "field" -> "VALIDATION_ERROR"
    [] check = "key" -> "MISSING_IDEMPOTENCY_KEY"
    [] check = "size" -> "WEBHOOK_PAYLOAD_TOO_LARGE"
    [] check = "signature" -> "INVALID_WEBHOOK_SIGNATURE"

\* The first check that fails answers; it and the use case are all of a handler.
Receive(p, r, checks, first) ==
  /\ pc[p] = "idle"
  /\ \/ \E i \in DOMAIN checks :
          /\ Fails(r, checks[i]) /\ \A j \in 1 .. i - 1 : ~Fails(r, checks[j])
          /\ Reply(p, r, Handle(CodeOf(checks[i])), 0)
     \/ /\ \A i \in DOMAIN checks : ~Fails(r, checks[i])
        /\ pc' = [pc EXCEPT ![p] = first] /\ req' = [req EXCEPT ![p] = r]
        /\ reply' = [reply EXCEPT ![p] = NoReply] /\ UNCHANGED row
  /\ UNCHANGED tables

MoneyChecks == <<"token", "body", "field", "key">>

TopUp(p, r) == r.route = "TOPUP" /\ Receive(p, r, MoneyChecks, "find")

Transfer(p, r) == r.route = "TRANSFER" /\ Receive(p, r, MoneyChecks, "find")

\* Variant: a withdrawal is read, but not validated.
WithdrawalUnvalidated(p, r) ==
  r.route = "WITHDRAWAL" /\ Receive(p, r, <<"token", "body", "key">>, "find")

CreateWithdrawal(p, r) == r.route = "WITHDRAWAL" /\ Receive(p, r, MoneyChecks, "find")

CreateTopUpCheckout(p, r) == r.route = "CHECKOUT" /\ Receive(p, r, MoneyChecks, "claim")

\* A client knows the ids it was answered with, or was told by who was.
Shown == {reply[p].row : p \in {q \in Procs : reply[q].req.route # "CHECKOUT"}} \ {0}

GetTransactionDetail(p, r) ==
  /\ r.route = "DETAIL"
  /\ \E i \in Shown : Receive(p, [r EXCEPT !.id = i], <<"token", "body">>, "wallet")

MidtransNotification(p, r) ==
  r.route = "MIDTRANS" /\ Receive(p, r, <<"size", "body", "signature">>, "publish")

XenditNotification(p, r) ==
  r.route = "XENDIT" /\ Receive(p, r, <<"size", "body", "signature">>, "publish")

-------------------------------------------------------------------------------
\* The use cases

CreateWallet(w) ==
  /\ Wallet!CreateWallet(w)
  /\ UNCHANGED <<idem, orders, published, lost, pc, call>>

\* The lookups that come before the key is claimed.
FindWallets(p) ==
  /\ pc[p] = "find"
  /\ LET r == req[p] IN
       \/ r.user \notin wallets /\ Refuse(p, "WALLET_NOT_FOUND")
       \/ r.user \in wallets /\ r.to \notin wallets /\ Refuse(p, "RECIPIENT_NOT_FOUND")
       \/ /\ r.route = "TRANSFER" /\ r.user \in wallets /\ r.to = r.user
          /\ Refuse(p, "SELF_TRANSFER_NOT_ALLOWED")
       \/ /\ {r.user, r.to} \subseteq wallets /\ (r.route = "TRANSFER" => r.to # r.user)
          /\ Goto(p, "claim")
  /\ UNCHANGED tables

HashOf(r) == Hash(r.route, r.to, r.amount)

\* The id a call reads in the response stored under its key.  A checkout's response
\* and a transaction's have no field in common: one read as the other has none.
Stored(r) ==
  IF (r.route = "CHECKOUT") = (\E i \in DOMAIN orders : orders[i].key = r.key)
  THEN idem[r.key].resp ELSE 0

\* A call that finds its key COMPLETED with its payload is answered with the
\* stored response, whoever stored it; a withdrawal goes on to the payout with it.
Replay(p) ==
  LET i == Stored(req[p]) IN
    IF req[p].route = "WITHDRAWAL"
    THEN /\ pc' = [pc EXCEPT ![p] = "payout"] /\ row' = [row EXCEPT ![p] = i]
         /\ UNCHANGED <<req, reply>>
    ELSE Succeed(p, i)

Claim(p) ==
  /\ pc[p] = "claim"
  /\ LET r == req[p]
         key == idem[r.key]
         hash == HashOf(r)
     IN  \/ /\ Unknown(r.key) /\ InsertKey(r.key, hash) /\ Goto(p, "commit")
            /\ UNCHANGED <<ledger, orders, published, lost>>
         \/ Replayable(r.key, hash) /\ Replay(p) /\ UNCHANGED tables
         \/ /\ ~Unknown(r.key) /\ ~Replayable(r.key, hash) /\ UNCHANGED tables
            /\ Refuse(p, CASE key.hash # hash -> "IDEMPOTENCY_KEY_CONFLICT"
                           [] key.hash = hash /\ key.status = "PROCESSING" -> "REQUEST_IN_PROGRESS"
                           [] OTHER -> "PREVIOUS_ATTEMPT_FAILED")

\* The transaction of a call, or the charge of a checkout and its record.
Perform(r) ==
  \/ /\ r.route = "CHECKOUT" /\ UNCHANGED ledger
     /\ orders' = Append(orders, [key |-> r.key, user |-> r.user, amount |-> r.amount])
  \/ r.route = "TOPUP" /\ Wallet!Deposit(r.user, r.amount, r.key) /\ UNCHANGED orders
  \/ r.route = "WITHDRAWAL" /\ Wallet!Debit(r.user, r.amount, r.key) /\ UNCHANGED orders
  \/ r.route = "TRANSFER" /\ Wallet!Move(r.user, r.to, r.amount, r.key) /\ UNCHANGED orders

Commit(p) ==
  /\ pc[p] = "commit" /\ Perform(req[p])
  /\ row' = [row EXCEPT ![p] = IF req[p].route = "CHECKOUT" THEN Len(orders) + 1
                                                          ELSE Len(rows) + 1]
  /\ pc' = [pc EXCEPT ![p] = "complete"]
  /\ UNCHANGED <<idem, published, lost, req, reply>>

Insufficient(p) ==
  /\ pc[p] = "commit" /\ req[p].route \in {"WITHDRAWAL", "TRANSFER"}
  /\ balance[req[p].user] < req[p].amount
  /\ Goto(p, "INSUFFICIENT_BALANCE") /\ UNCHANGED tables

\* A statement of the transaction fails, or CreateCharge, or the order's record; or
\* the COMMIT, or the order's INSERT, takes effect and only its reply is lost.
TxError(p) ==
  /\ pc[p] = "commit" /\ Goto(p, "ERROR")
  /\ \/ UNCHANGED tables
     \/ /\ Perform(req[p]) /\ lost' = lost \union {req[p].key}
        /\ UNCHANGED <<idem, published>>

\* The update of the key may fail: that is only logged.
Mark(p) ==
  /\ pc[p] \in {"INSUFFICIENT_BALANCE", "ERROR"}
  /\ SetKey(req[p].key, "FAILED", 0) \/ UNCHANGED idem
  /\ Refuse(p, pc[p])
  /\ UNCHANGED <<ledger, orders, published, lost>>

Complete(p) ==
  /\ pc[p] = "complete"
  /\ SetKey(req[p].key, "COMPLETED", row[p]) \/ UNCHANGED idem
  /\ IF req[p].route = "WITHDRAWAL" THEN Goto(p, "payout") ELSE Succeed(p, row[p])
  /\ UNCHANGED <<ledger, orders, published, lost>>

\* CreatePayout is accepted, or fails and the withdrawal is reversed if it still
\* can be and the reversal does not fail too.
Payout(p) ==
  /\ pc[p] = "payout"
  /\ \/ Succeed(p, row[p]) /\ UNCHANGED ledger
     \/ /\ Wallet!ReverseWithdrawal(row[p]) \/ UNCHANGED ledger
        /\ Refuse(p, "ERROR")
  /\ UNCHANGED <<idem, orders, published, lost>>

\* DETAIL looks the caller's wallet up, and creates it if there is none.
GetWallet(p) ==
  /\ pc[p] = "wallet"
  /\ Goto(p, IF req[p].user \in wallets THEN "show" ELSE "create")
  /\ UNCHANGED tables

CreateMissing(p) ==
  /\ pc[p] = "create"
  /\ IF req[p].user \in wallets
     THEN Refuse(p, "USER_HAS_WALLET_ALREADY") /\ UNCHANGED ledger
     ELSE Wallet!CreateWallet(req[p].user) /\ Goto(p, "show")
  /\ UNCHANGED <<idem, orders, published, lost>>

\* Variant: the row's wallet is not compared with the caller's.
ShowAnyRow(p) == pc[p] = "show" /\ Succeed(p, req[p].id) /\ UNCHANGED tables

Show(p) ==
  /\ pc[p] = "show"
  /\ LET i == req[p].id IN
       IF i \in DOMAIN rows /\ rows[i].wallet = req[p].user
       THEN Succeed(p, i)
       ELSE Refuse(p, "TRANSACTION_NOT_FOUND")
  /\ UNCHANGED tables

\* No confirmation is waited for: a message the broker never stored is a success too.
Publish(p) ==
  /\ pc[p] = "publish"
  /\ published' = published \union {req[p]} \/ UNCHANGED published
  /\ Succeed(p, 0)
  /\ UNCHANGED <<ledger, idem, orders, lost>>

\* A database call or the broker fails before anything was changed.
CallError(p) ==
  /\ pc[p] \in {"find", "claim", "wallet", "create", "show", "publish"}
  /\ Refuse(p, "ERROR") /\ UNCHANGED tables

\* The client hangs up, which cancels the call's context, or the process dies:
\* what the call did stays and no key is marked.
Cut(p) ==
  /\ pc[p] # "idle"
  /\ pc' = [pc EXCEPT ![p] = "idle"]
  /\ req' = [req EXCEPT ![p] = NoReq] /\ row' = [row EXCEPT ![p] = 0]
  /\ UNCHANGED <<tables, reply>>

\* The worker settles a withdrawal.
Settle(i) ==
  /\ i \in DOMAIN rows /\ rows[i].type = "WITHDRAWAL"
  /\ Wallet!FinalizeWithdrawal(i) \/ Wallet!ReverseWithdrawal(i)
  /\ UNCHANGED <<idem, orders, published, lost, pc, call>>

-------------------------------------------------------------------------------

Next ==
  \/ \E p \in Procs, r \in Requests :
       \/ TopUp(p, r) \/ Transfer(p, r) \/ CreateWithdrawal(p, r) \/ CreateTopUpCheckout(p, r)
       \/ GetTransactionDetail(p, r) \/ MidtransNotification(p, r) \/ XenditNotification(p, r)
  \/ \E p \in Procs :
       \/ FindWallets(p) \/ Claim(p) \/ Commit(p) \/ Insufficient(p) \/ TxError(p)
       \/ Mark(p) \/ Complete(p) \/ Payout(p)
       \/ GetWallet(p) \/ CreateMissing(p) \/ Show(p) \/ Publish(p)
       \/ CallError(p) \/ Cut(p)
  \/ \E w \in Wallets : CreateWallet(w)
  \/ \E i \in DOMAIN rows : Settle(i)

Spec == Init /\ [][Next]_vars

-------------------------------------------------------------------------------

Controls == {"idle", "find", "claim", "commit", "complete", "INSUFFICIENT_BALANCE",
             "ERROR", "payout", "wallet", "create", "show", "publish"}

\* Calls that are served, and webhooks that are handed on, passed their checks.
TypeOK ==
  /\ Wallet!TypeOK
  /\ idem \in [Keys -> KeyRow]
  /\ orders \in Seq([key : Keys, user : Wallets, amount : Amounts])
  /\ published \subseteq {r \in Requests : r.route \in WebhookRoutes /\ ~Unsigned(r)}
  /\ lost \subseteq Keys
  /\ pc \in [Procs -> Controls] /\ req \in [Procs -> Request \union {NoReq}]
  /\ row \in [Procs -> Nat] /\ DOMAIN reply = Procs
  /\ \A p \in Procs : req[p].route \in MoneyRoutes => req[p].amount \in Amounts

Answered(p, status) == reply[p].http[1] = status

\* Row i, or order i, is what the call asked for.
Done(r, i) ==
  IF r.route = "CHECKOUT"
  THEN /\ i \in DOMAIN orders
       /\ orders[i] = [key |-> r.key, user |-> r.user, amount |-> r.amount]
  ELSE /\ i \in DOMAIN rows
       /\ rows[i].type = (IF r.route = "TRANSFER" THEN "TRANSFER_OUT" ELSE r.route)
       /\ rows[i].key = r.key /\ rows[i].wallet = r.user /\ rows[i].amount = r.amount
       /\ r.route = "TRANSFER" => i + 1 \in DOMAIN rows /\ rows[i + 1].wallet = r.to

\* The calls the key service cannot tell from r: their key and payload are r's, their
\* user and their route need not be.
Twins(r) ==
  {s \in Requests : s.route \in MoneyRoutes /\ s.key = r.key /\ HashOf(s) = HashOf(r)}

\* A 201 is never empty: the call it answers, or a twin of it, was carried out, with
\* the type, wallet, amount and recipient asked for, and stays so whatever is
\* interleaved, cut or settled afterwards.  The id in the answer is that
\* row's or that order's, unless one is a checkout and the other is not: no id then.
ReceiptIsTrue ==
  \A p \in Procs :
    LET r == reply[p].req IN
      Answered(p, 201) =>
        \E s \in Twins(r), i \in DOMAIN rows \union DOMAIN orders :
          /\ Done(s, i)
          /\ reply[p].row = IF (s.route = "CHECKOUT") = (r.route = "CHECKOUT") THEN i ELSE 0

\* The refusals after which a client may give a key up: the money was not there,
\* the recipient is the caller, an attempt with the key failed, or the key was
\* spent on something else.  A wallet that was not found may be there the next time.
Final == {"INSUFFICIENT_BALANCE", "SELF_TRANSFER_NOT_ALLOWED", "PREVIOUS_ATTEMPT_FAILED",
          "IDEMPOTENCY_KEY_CONFLICT"}

\* A client that gets a final refusal can rely on it: the call is never carried out,
\* by an attempt earlier, concurrent or later.  The one exception is the code's: after
\* a commit whose reply was lost it marks the key FAILED, and says so to every retry.
RefusalIsFinal ==
  \A p \in Procs :
    LET r == reply[p].req
        code == reply[p].http[2]
    IN  code \in Final =>
          \/ \A i \in DOMAIN rows \union DOMAIN orders : ~Done(r, i)
          \/ code = "PREVIOUS_ATTEMPT_FAILED" /\ r.key \in lost

\* GET /transactions/:id shows a transaction to its owner only, and a final
\* status it showed is never taken back; "not found" means somebody else's.
DetailIsTrue ==
  \A p \in Procs :
    LET r == reply[p].req
        shown == reply[p].status
    IN  r.route = "DETAIL" =>
          /\ Answered(p, 200) =>
               /\ rows[r.id].wallet = r.user
               /\ shown \in {"SUCCESS", "FAILED"} => rows[r.id].status = shown
          /\ Answered(p, 404) => rows[r.id].wallet # r.user

\* The @Failure lines of each handler's comment; a success is theirs too.
Documented(route) ==
  LET money == {<<400, "BAD_REQUEST">>, <<400, "VALIDATION_ERROR">>,
                <<400, "MISSING_IDEMPOTENCY_KEY">>, <<401, "UNAUTHORIZED">>,
                <<409, "IDEMPOTENCY_KEY_CONFLICT">>, <<409, "REQUEST_IN_PROGRESS">>,
                <<422, "PREVIOUS_ATTEMPT_FAILED">>, <<500, "INTERNAL_SERVER_ERROR">>}
  IN  CASE route = "CHECKOUT" -> money
        [] route = "TOPUP" -> money \union {<<404, "WALLET_NOT_FOUND">>}
        [] route = "WITHDRAWAL" ->
             money \union {<<404, "WALLET_NOT_FOUND">>, <<422, "INSUFFICIENT_BALANCE">>}
        [] route = "TRANSFER" ->
             money \union {<<404, "WALLET_NOT_FOUND">>, <<404, "RECIPIENT_NOT_FOUND">>,
                           <<422, "INSUFFICIENT_BALANCE">>,
                           <<422, "SELF_TRANSFER_NOT_ALLOWED">>}
        [] route = "DETAIL" ->
             {<<400, "BAD_REQUEST">>, <<401, "UNAUTHORIZED">>,
              <<404, "TRANSACTION_NOT_FOUND">>, <<500, "INTERNAL_SERVER_ERROR">>}
        [] OTHER ->
             {<<400, "BAD_REQUEST">>, <<400, "WEBHOOK_PAYLOAD_TOO_LARGE">>,
              <<401, "INVALID_WEBHOOK_SIGNATURE">>, <<500, "INTERNAL_SERVER_ERROR">>}

\* Two answers the comments do not have: a webhook that is too large gets 413,
\* not 400, and a DETAIL that loses the race to create its wallet gets 422.
Undocumented ==
  {<<413, "WEBHOOK_PAYLOAD_TOO_LARGE">>, <<422, "USER_HAS_WALLET_ALREADY">>}

\* Whatever happens inside, a client sees the answers its handler's comment
\* lists, with these two exceptions.
AnswersAreDocumented ==
  \A p \in Procs :
    reply[p].http[1] >= 400 =>
      reply[p].http \in Documented(reply[p].req.route) \union Undocumented

===============================================================================
