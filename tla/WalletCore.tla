------------------------------ MODULE WalletCore ------------------------------
(***************************************************************************)
(* The wallet use cases as they run: each of Procs is a goroutine of the   *)
(* API or of the worker serving one call at a time, a step is one database *)
(* statement, and the steps of different goroutines interleave.  Postgres  *)
(* runs at READ COMMITTED, so what a transaction writes is invisible until *)
(* its commit: the writes of Save, Create and COMMIT are one step, while   *)
(* SELECT ... FOR UPDATE and UPDATE ... WHERE status = 'PENDING' are steps *)
(* of their own that wait for the row locks of others.                     *)
(***************************************************************************)
EXTENDS Idempotency

CONSTANTS
  Procs,        \* goroutines
  Requests,     \* the calls clients may make, and repeat, with any timing
  Crashes,      \* processes die, and the last update of a key may fail
  LostReplies   \* COMMIT takes effect but its reply is lost

Ops == {"TOPUP", "WITHDRAWAL", "TRANSFER"}

\* A client call.  "from" is the caller's wallet; "to" is the recipient's, or
\* "from" again when there is none.  amount is whatever the client sent.
Request ==
  {r \in [op : Ops, from : Wallets, to : Wallets, amount : Int, key : Keys] :
     r.op # "TRANSFER" => r.from = r.to}

ASSUME RequestsAssumption ==
  /\ Requests \subseteq Request
  /\ \A r \in Requests : r.amount <= MaxInt
ASSUME FlagsAssumption == Crashes \in BOOLEAN /\ LostReplies \in BOOLEAN

VARIABLES
  wallets, balance, rows,  \* the committed tables, as in Ledger
  pc,      \* where each goroutine is
  req,     \* the call it serves; for a reversal, the transaction it loaded
  locks,   \* wallets its open database transaction has locked
  seen,    \* the balance LockByID returned for each of them
  row,     \* the row it answers with, or the withdrawal it settles
  lost     \* history: keys whose COMMIT took effect although its reply was lost

db == <<wallets, balance, rows, lost>>
vars == <<wallets, balance, rows, idem, pc, req, locks, seen, row, lost>>

Promise ==
  INSTANCE Ledger WITH wallets <- wallets, balance <- balance, rows <- rows

NoReq == [op |-> "NONE", from |-> 0, to |-> 0, amount |-> 0, key |-> NoKey]
NoSeen == [w \in Wallets |-> 0]

Init ==
  /\ wallets = {} /\ balance = NoSeen /\ rows = <<>>
  /\ idem = NoKeys
  /\ pc = [p \in Procs |-> "idle"]
  /\ req = [p \in Procs |-> NoReq]
  /\ locks = [p \in Procs |-> {}]
  /\ seen = [p \in Procs |-> NoSeen]
  /\ row = [p \in Procs |-> 0] /\ lost = {}

-------------------------------------------------------------------------------

Goto(p, to) == pc' = [pc EXCEPT ![p] = to]

Unlock(p) ==
  /\ locks' = [locks EXCEPT ![p] = {}]
  /\ seen' = [seen EXCEPT ![p] = NoSeen]

\* The call returns: the goroutine forgets it, its transaction is over.
Return(p) ==
  /\ Goto(p, "idle") /\ Unlock(p)
  /\ req' = [req EXCEPT ![p] = NoReq]
  /\ row' = [row EXCEPT ![p] = 0]

IsRepair(p) == req[p].op \in {"REVERSAL", "FINALIZE"}

CallHash(p) == Hash(req[p].op, req[p].to, req[p].amount)

\* The order in which a transaction locks its wallets: smaller id first.
SenderFirst(p) == req[p].from  \* variant: the sender's wallet first

FirstWallet(p) == IF req[p].from <= req[p].to THEN req[p].from ELSE req[p].to
SecondWallet(p) == IF FirstWallet(p) = req[p].from THEN req[p].to ELSE req[p].from
NextWallet(p) == IF FirstWallet(p) \in locks[p] THEN SecondWallet(p) ELSE FirstWallet(p)

\* UpdateStatus has written row i in p's open transaction.
HoldsRow(p, i) ==
  /\ row[p] = i
  /\ IsRepair(p) /\ pc[p] \in {"lock", "write"}

-------------------------------------------------------------------------------
\* Wallet rows appear by Register or on first access.
CreateWallet(w) ==
  /\ w \notin wallets
  /\ wallets' = wallets \union {w}
  /\ UNCHANGED <<balance, rows, idem, pc, req, locks, seen, row, lost>>

\* Variant: the amount is not checked.
ReceiveAnyAmount(p, r) ==
  /\ pc[p] = "idle"
  /\ {r.from, r.to} \subseteq wallets
  /\ r.op = "TRANSFER" => r.from # r.to
  /\ req' = [req EXCEPT ![p] = r]
  /\ Goto(p, "claim")
  /\ UNCHANGED <<db, idem, locks, seen, row>>

\* A call arrives and passes validation; one that does not pass changes nothing.
Receive(p, r) ==
  /\ pc[p] = "idle"
  /\ r.amount > 0
  /\ {r.from, r.to} \subseteq wallets
  /\ r.op = "TRANSFER" => r.from # r.to
  /\ req' = [req EXCEPT ![p] = r]
  /\ Goto(p, "claim")
  /\ UNCHANGED <<db, idem, locks, seen, row>>

\* Claim: INSERT the key as PROCESSING, relying on UNIQUE(idem_key).
Claim(p) ==
  /\ pc[p] = "claim"
  /\ IF Unknown(req[p].key)
     THEN InsertKey(req[p].key, CallHash(p)) /\ Goto(p, "lock")
     ELSE Goto(p, "lookup") /\ UNCHANGED idem
  /\ UNCHANGED <<db, req, locks, seen, row>>

\* Variant: the hashes are not compared.
LookupAnyPayload(p) ==
  /\ pc[p] = "lookup"
  /\ IF idem[req[p].key].status = "COMPLETED"
     THEN /\ Goto(p, "ok")
          /\ row' = [row EXCEPT ![p] = idem[req[p].key].resp]
          /\ UNCHANGED <<req, locks, seen>>
     ELSE Return(p)
  /\ UNCHANGED <<db, idem>>

\* Variant: a key left in PROCESSING is taken over by the retry.
LookupReclaims(p) ==
  /\ pc[p] = "lookup"
  /\ IF idem[req[p].key].status = "PROCESSING"
     THEN Goto(p, "lock") /\ UNCHANGED <<req, locks, seen, row>>
     ELSE Return(p)
  /\ UNCHANGED <<db, idem>>

\* The key was taken: replay the stored response if the call that took it is
\* COMPLETED and had the same payload, refuse otherwise.
Lookup(p) ==
  /\ pc[p] = "lookup"
  /\ IF Replayable(req[p].key, CallHash(p))
     THEN /\ Goto(p, "ok")
          /\ row' = [row EXCEPT ![p] = idem[req[p].key].resp]
          /\ UNCHANGED <<req, locks, seen>>
     ELSE Return(p)
  /\ UNCHANGED <<db, idem>>

\* Variant: a plain SELECT, which neither waits for a lock nor takes one.
ReadWallet(p) ==
  /\ pc[p] = "lock"
  /\ LET w == NextWallet(p) IN
       /\ locks' = [locks EXCEPT ![p] = @ \union {w}]
       /\ seen' = [seen EXCEPT ![p][w] = balance[w]]
       /\ Goto(p, IF w = SecondWallet(p) THEN "write" ELSE "lock")
  /\ UNCHANGED <<db, idem, req, row>>

\* LockByID: SELECT ... FOR UPDATE waits for the lock, then reads the balance.
LockWallet(p) ==
  /\ pc[p] = "lock"
  /\ LET w == NextWallet(p) IN
       /\ \A q \in Procs : w \notin locks[q]
       /\ locks' = [locks EXCEPT ![p] = @ \union {w}]
       /\ seen' = [seen EXCEPT ![p][w] = balance[w]]
       /\ Goto(p, IF w = SecondWallet(p) THEN "write" ELSE "lock")
  /\ UNCHANGED <<db, idem, req, row>>

-------------------------------------------------------------------------------
\* The end of a transaction that served a request: the key is then completed
\* with the response, or, if the reply to COMMIT was lost, marked as failed.
Committed(p, response) ==
  /\ \/ Goto(p, "complete") /\ UNCHANGED lost
     \/ LostReplies /\ Goto(p, "mark") /\ lost' = lost \union {req[p].key}
  /\ row' = [row EXCEPT ![p] = response]
  /\ Unlock(p)
  /\ UNCHANGED <<wallets, idem, req>>

CommitTopUp(p) ==
  /\ pc[p] = "write" /\ req[p].op = "TOPUP"
  /\ LET w == req[p].from
         entry == Entry("TOPUP", w, req[p].amount, seen[p][w], req[p].key, 0)
     IN  /\ balance' = [balance EXCEPT ![w] = entry.after]
         /\ rows' = Append(rows, entry)
  /\ Committed(p, Len(rows) + 1)

CommitWithdraw(p) ==
  /\ pc[p] = "write" /\ req[p].op = "WITHDRAWAL"
  /\ seen[p][req[p].from] >= req[p].amount
  /\ LET w == req[p].from
         entry == Entry("WITHDRAWAL", w, req[p].amount, seen[p][w], req[p].key, 0)
     IN  /\ balance' = [balance EXCEPT ![w] = entry.after]
         /\ rows' = Append(rows, entry)
  /\ Committed(p, Len(rows) + 1)

\* Variant: the balance of the wallet that was locked first is compared.
CommitTransferFirst(p) ==
  /\ pc[p] = "write" /\ req[p].op = "TRANSFER"
  /\ seen[p][FirstWallet(p)] >= req[p].amount
  /\ LET r == req[p]
         out == Entry("TRANSFER_OUT", r.from, r.amount, seen[p][r.from], r.key, 0)
         in == Entry("TRANSFER_IN", r.to, r.amount, seen[p][r.to], r.key, 0)
     IN  /\ balance' = [balance EXCEPT ![r.from] = out.after, ![r.to] = in.after]
         /\ rows' = Append(Append(rows, out), in)
  /\ Committed(p, Len(rows) + 1)

CommitTransfer(p) ==
  /\ pc[p] = "write" /\ req[p].op = "TRANSFER"
  /\ seen[p][req[p].from] >= req[p].amount
  /\ LET r == req[p]
         out == Entry("TRANSFER_OUT", r.from, r.amount, seen[p][r.from], r.key, 0)
         in == Entry("TRANSFER_IN", r.to, r.amount, seen[p][r.to], r.key, 0)
     IN  /\ balance' = [balance EXCEPT ![r.from] = out.after, ![r.to] = in.after]
         /\ rows' = Append(Append(rows, out), in)
  /\ Committed(p, Len(rows) + 1)

\* Variant: the key is left alone when the balance does not cover the debit.
InsufficientUnmarked(p) ==
  /\ pc[p] = "write" /\ req[p].op \in {"WITHDRAWAL", "TRANSFER"}
  /\ seen[p][req[p].from] < req[p].amount
  /\ Return(p)
  /\ UNCHANGED <<db, idem>>

\* The transaction of a request is rolled back because the balance it locked
\* does not cover the debit.
Insufficient(p) ==
  /\ pc[p] = "write" /\ req[p].op \in {"WITHDRAWAL", "TRANSFER"}
  /\ seen[p][req[p].from] < req[p].amount
  /\ Goto(p, "mark") /\ Unlock(p)
  /\ UNCHANGED <<db, idem, req, row>>

MarkFailed(p) ==
  /\ pc[p] = "mark"
  /\ SetKey(req[p].key, "FAILED", 0)
  /\ Return(p)
  /\ UNCHANGED db

\* Variant: the response is the latest transaction rather than the call's own.
CompleteLatest(p) ==
  /\ pc[p] = "complete"
  /\ SetKey(req[p].key, "COMPLETED", Len(rows))
  /\ Goto(p, "ok")
  /\ UNCHANGED <<db, req, locks, seen, row>>

Complete(p) ==
  /\ pc[p] = "complete"
  /\ SetKey(req[p].key, "COMPLETED", row[p])
  /\ Goto(p, "ok")
  /\ UNCHANGED <<db, req, locks, seen, row>>

Respond(p) ==
  /\ pc[p] = "ok"
  /\ Return(p)
  /\ UNCHANGED <<db, idem>>

-------------------------------------------------------------------------------
\* ReverseWithdrawal reads the transaction outside its database transaction.
\* Only the callers' ids of withdrawals reach it and FinalizeWithdrawal.
FindReversal(p, i) ==
  /\ pc[p] = "idle" /\ i \in DOMAIN rows
  /\ rows[i].type = "WITHDRAWAL" /\ rows[i].status = "PENDING"
  /\ req' = [req EXCEPT ![p] = [op |-> "REVERSAL", from |-> rows[i].wallet,
               to |-> rows[i].wallet, amount |-> rows[i].amount, key |-> NoKey]]
  /\ row' = [row EXCEPT ![p] = i]
  /\ Goto(p, "update")
  /\ UNCHANGED <<db, idem, locks, seen>>

\* FinalizeWithdrawal reads nothing first.
StartFinalize(p, i) ==
  /\ pc[p] = "idle" /\ i \in DOMAIN rows
  /\ req' = [req EXCEPT ![p] = [NoReq EXCEPT !.op = "FINALIZE"]]
  /\ row' = [row EXCEPT ![p] = i]
  /\ Goto(p, "update")
  /\ UNCHANGED <<db, idem, locks, seen>>

\* UPDATE ... WHERE id = i AND status = 'PENDING': waits for the row lock; no
\* row matched means the withdrawal was already settled, and the call ends.
UpdateStatus(p) ==
  /\ pc[p] = "update"
  /\ \A q \in Procs : ~HoldsRow(q, row[p])
  /\ IF rows[row[p]].status = "PENDING"
     THEN /\ Goto(p, IF req[p].op = "REVERSAL" THEN "lock" ELSE "write")
          /\ UNCHANGED <<req, locks, seen, row>>
     ELSE Return(p)
  /\ UNCHANGED <<db, idem>>

CommitReversal(p) ==
  /\ pc[p] = "write" /\ req[p].op = "REVERSAL"
  /\ LET w == req[p].from
         entry == Entry("WITHDRAWAL_REVERT", w, req[p].amount, seen[p][w], NoKey, row[p])
     IN  /\ balance' = [balance EXCEPT ![w] = entry.after]
         /\ rows' = Append(WithStatus(rows, row[p], "FAILED"), entry)
  /\ Return(p)
  /\ UNCHANGED <<wallets, idem, lost>>

CommitFinalize(p) ==
  /\ pc[p] = "write" /\ req[p].op = "FINALIZE"
  /\ rows' = WithStatus(rows, row[p], "SUCCESS")
  /\ Return(p)
  /\ UNCHANGED <<wallets, balance, idem, lost>>

-------------------------------------------------------------------------------
\* Variant: an error after the commit is taken for a failed transaction.
LateTxError(p) ==
  /\ pc[p] \in {"lock", "write", "complete"} /\ ~IsRepair(p)
  /\ Goto(p, "mark") /\ Unlock(p)
  /\ UNCHANGED <<db, idem, req, row>>

\* A statement of the transaction, or BEGIN or COMMIT, fails: rolled back.
TxError(p) ==
  /\ pc[p] \in {"lock", "write"} /\ ~IsRepair(p)
  /\ Goto(p, "mark") /\ Unlock(p)
  /\ UNCHANGED <<db, idem, req, row>>

\* The update of the key fails: it is only logged, the answer stays the same.
KeyUpdateError(p) ==
  /\ Crashes
  /\ \/ pc[p] = "mark" /\ Return(p)
     \/ pc[p] = "complete" /\ Goto(p, "ok") /\ UNCHANGED <<req, locks, seen, row>>
  /\ UNCHANGED <<db, idem>>

\* The process dies, or an error ends the call: an open transaction is rolled
\* back and nothing else is undone.
Crash(p) ==
  /\ Crashes /\ pc[p] # "idle"
  /\ Return(p)
  /\ UNCHANGED <<db, idem>>

\* The steps the goroutine takes by itself once it has a call.
Serve(p) ==
  \/ Claim(p) \/ Lookup(p) \/ LockWallet(p) \/ UpdateStatus(p)
  \/ CommitTopUp(p) \/ CommitWithdraw(p) \/ CommitTransfer(p)
  \/ CommitReversal(p) \/ CommitFinalize(p)
  \/ Insufficient(p) \/ MarkFailed(p) \/ Complete(p) \/ Respond(p)

Next ==
  \/ \E w \in Wallets : CreateWallet(w)
  \/ \E p \in Procs :
       \/ \E r \in Requests : Receive(p, r)
       \/ \E i \in DOMAIN rows : FindReversal(p, i) \/ StartFinalize(p, i)
       \/ Serve(p)
       \/ TxError(p) \/ KeyUpdateError(p) \/ Crash(p)

Spec == Init /\ [][Next]_vars

\* A goroutine with a call keeps running, and Postgres queues the waiters of a
\* row lock, so a lock that is free again and again is eventually granted.
Fairness ==
  \A p \in Procs :
    /\ WF_vars(Serve(p))
    /\ SF_vars(LockWallet(p)) /\ SF_vars(UpdateStatus(p))

FairSpec == Spec /\ Fairness

-------------------------------------------------------------------------------

Job == [op : Ops \union {"NONE", "REVERSAL", "FINALIZE"},
        from : Wallets \union {0}, to : Wallets \union {0},
        amount : Int, key : Keys \union {NoKey}]

TypeOK ==
  /\ wallets \subseteq Wallets
  /\ balance \in [Wallets -> Balances]
  /\ rows \in Seq(Row)
  /\ idem \in [Keys -> KeyRow]
  /\ pc \in [Procs -> {"idle", "claim", "lookup", "lock", "write", "update",
                       "mark", "complete", "ok"}]
  /\ req \in [Procs -> Job]
  /\ locks \in [Procs -> SUBSET Wallets]
  /\ seen \in [Procs -> [Wallets -> Balances]]
  /\ row \in [Procs -> Nat] /\ lost \subseteq Keys

\* What a transaction computes from is what it overwrites: nobody changes a
\* wallet between another goroutine's LockByID and its commit.
LockedReadIsCurrent ==
  \A p \in Procs : \A w \in locks[p] : seen[p][w] = balance[w]

\* The key table tells the truth about the money: an unknown key has moved
\* none, and a COMPLETED one names the row its own request wrote, with the
\* amount that was hashed.
KeyTellsTruth ==
  \A k \in Keys :
    LET key == idem[k] IN
      /\ key.status = "NONE" => Promise!Fresh(k)
      /\ key.status = "COMPLETED" =>
           /\ key.resp \in DOMAIN rows
           /\ rows[key.resp].key = k /\ rows[key.resp].amount = key.hash[2]
           /\ rows[key.resp].type # "TRANSFER_IN"

\* Every successful answer, fresh or replayed, names a committed row written
\* for the key and the amount of the call: with AtMostOncePerKey all successful
\* answers to one key name the same row.
AnswersNameTheirRow ==
  \A p \in Procs :
    pc[p] = "ok" =>
      /\ row[p] \in DOMAIN rows
      /\ rows[row[p]].key = req[p].key
      /\ rows[row[p]].amount = req[p].amount
      /\ rows[row[p]].type # "TRANSFER_IN"

\* p waits for a row lock that q holds.
WaitsFor(p, q) ==
  \/ pc[p] = "lock" /\ NextWallet(p) \in locks[q]
  \/ pc[p] = "update" /\ HoldsRow(q, row[p])

\* No set of goroutines waits in a circle, whatever wallets transfers name and
\* whatever reversals hold, so the database never has to kill one of them.
NoDeadlock ==
  ~ \E S \in (SUBSET Procs) \ {{}} : \A p \in S : \E q \in S : WaitsFor(p, q)

\* The histories and balances of all interleavings are those of atomic
\* operations (Ledger), and a key is spent by one of them.
RefinesLedger == Promise!Spec

\* Ledger!LedgerChain of the committed tables: no update is lost.
HistoryExplainsBalances == Promise!LedgerChain

\* A balance is never negative (wallet_withdrawal_test.go asserts it).
BalanceNeverNegative == \A w \in Wallets : balance[w] >= 0

\* A balance is negative only if a credit has wrapped around: no order of debits,
\* refunds, crashes and lost replies takes more from a wallet than it holds, and
\* the overflow of an int64 is the only thing that can.
OnlyOverflowOwes == NoOverflow(rows) => BalanceNeverNegative

\* A key marked FAILED stands for an operation that moved no money, unless the
\* COMMIT that moved it was answered with an error: nothing else that goes wrong
\* between the claim and the mark ends with the money moved and the key FAILED.
FailedMovedNothing ==
  \A k \in Keys : idem[k].status = "FAILED" /\ k \notin lost => Promise!Fresh(k)

\* Every call that was received ends.
EveryCallEnds == \A p \in Procs : pc[p] # "idle" ~> pc[p] = "idle"

\* A claimed key is eventually COMPLETED or FAILED.
EveryClaimSettles ==
  \A k \in Keys : idem[k].status = "PROCESSING" ~> idem[k].status # "PROCESSING"

===============================================================================
