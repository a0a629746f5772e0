-------------------------- MODULE WalletCore_proofs ---------------------------
(***************************************************************************)
(* Proofs about the interleaved wallet requests, for any number of         *)
(* goroutines, wallets, keys and requests, with and without crashes and    *)
(* lost replies.                                                           *)
(***************************************************************************)
EXTENDS WalletCore, LedgerRows_proofs, WellFoundedInduction

\* A call that passed validation.
CallOK(r) ==
  /\ r.key \in Keys /\ r.amount \in Amounts
  /\ r.from \in wallets /\ r.to \in wallets
  /\ (r.op = "TRANSFER") <=> (r.from # r.to)

\* What a goroutine's call and position have to do with each other.
ReqOK(p) ==
  /\ pc[p] \in {"claim", "lookup", "mark", "complete", "ok"} => req[p].op \in Ops
  /\ pc[p] = "lock" => req[p].op \in Ops \union {"REVERSAL"}
  /\ pc[p] = "write" => req[p].op \in Ops \union {"REVERSAL", "FINALIZE"}
  /\ pc[p] = "update" => req[p].op \in {"REVERSAL", "FINALIZE"}
  /\ req[p].op \in Ops => CallOK(req[p])
  /\ req[p].op \in {"REVERSAL", "FINALIZE"} => row[p] \in DOMAIN rows
  /\ req[p].op = "REVERSAL" =>
       /\ req[p].from = rows[row[p]].wallet /\ req[p].to = req[p].from
       /\ req[p].amount = rows[row[p]].amount

TypeInv == TypeOK /\ \A p \in Procs : ReqOK(p)

\* Only p moves.
OnlyMoves(p) ==
  \A q \in Procs : q # p =>
    /\ pc'[q] = pc[q] /\ req'[q] = req[q] /\ locks'[q] = locks[q]
    /\ seen'[q] = seen[q] /\ row'[q] = row[q]

\* Wallets and rows are never removed, and a row keeps all but its status.
TablesGrow ==
  /\ wallets \subseteq wallets'
  /\ \A i \in DOMAIN rows :
       /\ i \in DOMAIN rows'
       /\ rows'[i].wallet = rows[i].wallet /\ rows'[i].type = rows[i].type
       /\ rows'[i].amount = rows[i].amount /\ rows'[i].key = rows[i].key

\* Facts of the process variables that every action keeps: type correctness of
\* pc, req, locks, seen and row.
ProcTypes ==
  /\ pc \in [Procs -> {"idle", "claim", "lookup", "lock", "write", "update",
                       "mark", "complete", "ok"}]
  /\ req \in [Procs -> Job]
  /\ locks \in [Procs -> SUBSET Wallets]
  /\ seen \in [Procs -> [Wallets -> Balances]]
  /\ row \in [Procs -> Nat]

-------------------------------------------------------------------------------

\* A step that moves only p, and p correctly, keeps every goroutine correct.
LEMMA OthersKeep ==
  ASSUME TypeInv, NEW p \in Procs, OnlyMoves(p), TablesGrow, ReqOK(p)'
  PROVE  \A q \in Procs : ReqOK(q)'
<1> SUFFICES ASSUME NEW q \in Procs, q # p PROVE ReqOK(q)'
  OBVIOUS
<1>1. ReqOK(q) /\ pc'[q] = pc[q] /\ req'[q] = req[q] /\ row'[q] = row[q]
  BY DEF TypeInv, OnlyMoves
<1>2. CallOK(req[q]) => CallOK(req[q])'
  BY <1>1 DEF CallOK, TablesGrow
<1> QED BY <1>1, <1>2 DEF ReqOK, TablesGrow, Ops, CallOK

\* NoReq and NoSeen are what a returning goroutine is left with.
LEMMA ReturnTypes ==
  /\ NoReq \in Job /\ NoSeen \in [Wallets -> Balances] /\ NoReq.op = "NONE"
  BY MaxIntAssumption DEF NoReq, Job, NoSeen, Balances

\* A goroutine that returns is correct.
LEMMA ReturnKeeps ==
  ASSUME TypeInv, NEW p \in Procs, Return(p)
  PROVE  ProcTypes' /\ OnlyMoves(p) /\ ReqOK(p)' /\ pc'[p] = "idle" /\ locks'[p] = {}
         /\ req'[p].op = "NONE"
<1>1. /\ pc' = [pc EXCEPT ![p] = "idle"] /\ req' = [req EXCEPT ![p] = NoReq]
      /\ locks' = [locks EXCEPT ![p] = {}] /\ seen' = [seen EXCEPT ![p] = NoSeen]
      /\ row' = [row EXCEPT ![p] = 0]
  BY DEF Return, Goto, Unlock
<1>2. ProcTypes
  BY DEF TypeInv, TypeOK, ProcTypes
<1>3. pc'[p] = "idle" /\ req'[p] = NoReq /\ locks'[p] = {}
  BY <1>1, <1>2 DEF ProcTypes
<1>4. ProcTypes'
  BY <1>1, <1>2, ReturnTypes DEF ProcTypes
<1>5. OnlyMoves(p)
  BY <1>1, <1>2 DEF OnlyMoves, ProcTypes
<1>6. ReqOK(p)'
  BY <1>3, ReturnTypes DEF ReqOK, Ops
<1> QED BY <1>3, <1>4, <1>5, <1>6, ReturnTypes

\* A goroutine that moves on with its call, to a place that fits it.
LEMMA GotoKeeps ==
  ASSUME TypeInv, NEW p \in Procs, NEW to \in {"lookup", "lock", "write", "mark", "complete", "ok"},
         pc' = [pc EXCEPT ![p] = to], UNCHANGED req,
         locks' \in [Procs -> SUBSET Wallets], seen' \in [Procs -> [Wallets -> Balances]],
         row' \in [Procs -> Nat],
         \A q \in Procs : q # p => locks'[q] = locks[q] /\ seen'[q] = seen[q] /\ row'[q] = row[q],
         req[p].op \in {"REVERSAL", "FINALIZE"} => row'[p] = row[p],
         req[p].op \in Ops \/ (req[p].op = "REVERSAL" /\ to = "lock")
            \/ (req[p].op \in {"REVERSAL", "FINALIZE"} /\ to = "write"),
         TablesGrow
  PROVE  ProcTypes' /\ OnlyMoves(p) /\ ReqOK(p)' /\ pc'[p] = to
<1>1. ProcTypes /\ ReqOK(p)
  BY DEF TypeInv, TypeOK, ProcTypes
<1>2. pc'[p] = to /\ req'[p] = req[p]
  BY <1>1 DEF ProcTypes
<1>3. ProcTypes'
  BY <1>1 DEF ProcTypes
<1>4. OnlyMoves(p)
  BY <1>1 DEF OnlyMoves, ProcTypes
<1>5. CallOK(req[p]) => CallOK(req[p])'
  BY <1>2 DEF CallOK, TablesGrow
<1>6. ReqOK(p)'
  BY <1>1, <1>2, <1>5 DEF ReqOK, TablesGrow, CallOK, Ops
<1> QED BY <1>2, <1>3, <1>4, <1>6

\* The end of a request's transaction, by commit or by rollback.
LEMMA EndTxKeeps ==
  ASSUME TypeInv, NEW p \in Procs, req[p].op \in Ops, TablesGrow,
         NEW to \in {"mark", "complete"}, Goto(p, to), Unlock(p), UNCHANGED req,
         row' = row \/ \E n \in Nat : row' = [row EXCEPT ![p] = n]
  PROVE  ProcTypes' /\ OnlyMoves(p) /\ ReqOK(p)'
<1>1. ProcTypes
  BY DEF TypeInv, TypeOK, ProcTypes
<1>2. /\ locks' \in [Procs -> SUBSET Wallets] /\ seen' \in [Procs -> [Wallets -> Balances]]
      /\ \A q \in Procs : q # p => locks'[q] = locks[q] /\ seen'[q] = seen[q]
  BY <1>1, ReturnTypes DEF Unlock, ProcTypes
<1>3. /\ row' \in [Procs -> Nat]
      /\ \A q \in Procs : q # p => row'[q] = row[q]
  BY <1>1 DEF ProcTypes
<1>4. pc' = [pc EXCEPT ![p] = to]
  BY DEF Goto
<1>5. req[p].op \notin {"REVERSAL", "FINALIZE"}
  BY DEF Ops
<1> QED BY <1>2, <1>3, <1>4, <1>5, GotoKeeps

\* A request's transaction has committed.
LEMMA CommittedKeeps ==
  ASSUME TypeInv, NEW p \in Procs, req[p].op \in Ops, TablesGrow,
         NEW n \in Nat, Committed(p, n)
  PROVE  ProcTypes' /\ OnlyMoves(p) /\ ReqOK(p)'
<1>1. PICK to \in {"mark", "complete"} : Goto(p, to)
  BY DEF Committed
<1>2. Unlock(p) /\ UNCHANGED req /\ row' = [row EXCEPT ![p] = n]
  BY DEF Committed
<1> QED BY <1>1, <1>2, EndTxKeeps

\* Writing a key keeps the type of the key table.
LEMMA KeyTypes ==
  ASSUME idem \in [Keys -> KeyRow], NEW k \in Keys
  PROVE  /\ \A h \in (Wallets \union {0}) \X Int : InsertKey(k, h) =>
              /\ idem' \in [Keys -> KeyRow]
              /\ \A c \in Keys : c # k => idem'[c] = idem[c]
              /\ idem'[k] = [status |-> "PROCESSING", hash |-> h, resp |-> 0]
         /\ \A s \in {"COMPLETED", "FAILED"}, n \in Nat : SetKey(k, s, n) =>
              /\ idem' \in [Keys -> KeyRow]
              /\ \A c \in Keys : c # k => idem'[c] = idem[c]
              /\ idem'[k].status = s /\ idem'[k].resp = n /\ idem'[k].hash = idem[k].hash
<1>1. ASSUME NEW h \in (Wallets \union {0}) \X Int, InsertKey(k, h)
      PROVE  /\ idem' \in [Keys -> KeyRow]
             /\ \A c \in Keys : c # k => idem'[c] = idem[c]
             /\ idem'[k] = [status |-> "PROCESSING", hash |-> h, resp |-> 0]
  <2>1. [status |-> "PROCESSING", hash |-> h, resp |-> 0] \in KeyRow
    BY DEF KeyRow
  <2> QED BY <1>1, <2>1 DEF InsertKey
<1>2. ASSUME NEW s \in {"COMPLETED", "FAILED"}, NEW n \in Nat, SetKey(k, s, n)
      PROVE  /\ idem' \in [Keys -> KeyRow]
             /\ \A c \in Keys : c # k => idem'[c] = idem[c]
             /\ idem'[k].status = s /\ idem'[k].resp = n /\ idem'[k].hash = idem[k].hash
  <2> DEFINE e == [idem[k] EXCEPT !.status = s, !.resp = n]
  <2>1. /\ e \in KeyRow /\ e.status = s /\ e.resp = n /\ e.hash = idem[k].hash
    <3>1. idem[k] \in KeyRow
      OBVIOUS
    <3> QED BY <3>1 DEF KeyRow
  <2>2. idem' = [idem EXCEPT ![k] = e]
    BY <1>2 DEF SetKey
  <2> HIDE DEF e
  <2> QED BY <2>1, <2>2
<1> QED BY <1>1, <1>2

\* The parts of a step by p make the whole.
LEMMA Assemble ==
  ASSUME TypeInv, NEW p \in Procs, OnlyMoves(p), TablesGrow, ReqOK(p)', ProcTypes',
         wallets' \subseteq Wallets, balance' \in [Wallets -> Balances],
         rows' \in Seq(Row), idem' \in [Keys -> KeyRow], lost' \subseteq Keys
  PROVE  TypeInv'
  BY OthersKeep DEF TypeInv, TypeOK, ProcTypes

\* Steps that leave the committed tables alone.
LEMMA AssembleQuiet ==
  ASSUME TypeInv, NEW p \in Procs, OnlyMoves(p), ReqOK(p)', ProcTypes', UNCHANGED db,
         idem' \in [Keys -> KeyRow]
  PROVE  TypeInv' /\ TablesGrow
<1>1. TablesGrow
  BY DEF TablesGrow, db
<1> QED BY <1>1, Assemble DEF TypeInv, TypeOK, db

\* The hash that is stored with a key.
LEMMA HashTypes ==
  ASSUME TypeInv, NEW p \in Procs, req[p].op \in Ops
  PROVE  /\ req[p].key \in Keys /\ req[p].amount \in Amounts /\ CallHash(p)[2] = req[p].amount
         /\ req[p].from \in Wallets /\ req[p].to \in Wallets
         /\ CallHash(p) \in (Wallets \union {0}) \X Int
<1>1. CallOK(req[p]) /\ wallets \subseteq Wallets
  BY DEF TypeInv, TypeOK, ReqOK
<1>2. /\ req[p].key \in Keys /\ req[p].amount \in Amounts /\ req[p].amount \in Int
      /\ req[p].from \in Wallets /\ req[p].to \in Wallets
  BY <1>1, MaxIntAssumption DEF CallOK, Amounts
<1> QED BY <1>2 DEF CallHash, Hash

\* Only the key of a request's commit is lost.
LEMMA LostTypes ==
  ASSUME TypeInv, NEW p \in Procs,
         \/ CommitTopUp(p) \/ CommitWithdraw(p) \/ CommitTransfer(p)
         \/ CommitReversal(p) \/ CommitFinalize(p)
  PROVE  lost' \subseteq Keys
<1>1. lost \subseteq Keys
  BY DEF TypeInv, TypeOK
<1>2. CASE CommitReversal(p) \/ CommitFinalize(p)
  BY <1>1, <1>2 DEF CommitReversal, CommitFinalize
<1>3. CASE CommitTopUp(p) \/ CommitWithdraw(p) \/ CommitTransfer(p)
  <2>1. req[p].op \in Ops /\ Committed(p, Len(rows) + 1)
    BY <1>3 DEF CommitTopUp, CommitWithdraw, CommitTransfer, Ops
  <2> QED BY <1>1, <2>1, HashTypes DEF Committed
<1> QED BY <1>2, <1>3

\* A row appended for p keeps the tables growing and typed.
LEMMA GrowByAppend ==
  ASSUME TypeInv, NEW old \in Seq(Row), DOMAIN old = DOMAIN rows, UNCHANGED wallets,
         \A i \in DOMAIN rows :
           /\ old[i].wallet = rows[i].wallet /\ old[i].type = rows[i].type
           /\ old[i].amount = rows[i].amount /\ old[i].key = rows[i].key,
         NEW e \in Row, rows' = Append(old, e)
  PROVE  rows' \in Seq(Row) /\ TablesGrow
  BY AppendProps DEF TablesGrow

\* TypeInv and the growth of the tables, for the steps that commit.
LEMMA CommitTopUpTypes ==
  ASSUME TypeInv, NEW p \in Procs, CommitTopUp(p)
  PROVE  TypeInv' /\ TablesGrow
<1> DEFINE w == req[p].from
           e == Entry("TOPUP", w, req[p].amount, seen[p][w], req[p].key, 0)
<1>1. /\ rows \in Seq(Row) /\ balance \in [Wallets -> Balances] /\ Len(rows) \in Nat
      /\ idem \in [Keys -> KeyRow] /\ wallets \subseteq Wallets /\ ProcTypes
  BY LenProperties DEF TypeInv, TypeOK, ProcTypes
<1>2. req[p].op \in Ops
  BY DEF CommitTopUp, Ops
<1>3. e \in Row /\ e.after \in Balances /\ w \in Wallets
  <2>1. /\ w \in Wallets /\ req[p].amount \in Amounts /\ req[p].key \in Keys
        /\ seen[p][w] \in Balances
    BY <1>1, <1>2, HashTypes DEF ProcTypes
  <2> QED BY <2>1, EntryType DEF CreditTypes, DebitTypes, Entry
<1>4. /\ rows' = Append(rows, e) /\ balance' = [balance EXCEPT ![w] = e.after]
      /\ UNCHANGED <<wallets, idem, req>> /\ Committed(p, Len(rows) + 1)
  BY DEF CommitTopUp, Committed
<1> HIDE DEF e
<1>5. rows' \in Seq(Row) /\ TablesGrow
  BY <1>1, <1>3, <1>4, GrowByAppend
<1>6. ProcTypes' /\ OnlyMoves(p) /\ ReqOK(p)'
  <2>1. Len(rows) + 1 \in Nat
    BY <1>1
  <2> QED BY <1>2, <1>4, <1>5, <2>1, CommittedKeeps
<1> QED BY <1>1, <1>3, <1>4, <1>5, <1>6, LostTypes, Assemble

\* The commit of a withdrawal keeps the types: its balance covers the amount.
LEMMA CommitWithdrawTypes ==
  ASSUME TypeInv, NEW p \in Procs, CommitWithdraw(p)
  PROVE  TypeInv' /\ TablesGrow
<1> DEFINE w == req[p].from
           e == Entry("WITHDRAWAL", w, req[p].amount, seen[p][w], req[p].key, 0)
<1>1. /\ rows \in Seq(Row) /\ balance \in [Wallets -> Balances] /\ Len(rows) \in Nat
      /\ idem \in [Keys -> KeyRow] /\ wallets \subseteq Wallets /\ ProcTypes
  BY LenProperties DEF TypeInv, TypeOK, ProcTypes
<1>2. req[p].op \in Ops /\ seen[p][w] >= req[p].amount
  BY DEF CommitWithdraw, Ops
<1>3. e \in Row /\ e.after \in Balances /\ w \in Wallets
  <2>1. /\ w \in Wallets /\ req[p].amount \in Amounts /\ req[p].key \in Keys
        /\ seen[p][w] \in Balances
    BY <1>1, <1>2, HashTypes DEF ProcTypes
  <2> QED BY <1>2, <2>1, EntryType DEF CreditTypes, DebitTypes, Entry
<1>4. /\ rows' = Append(rows, e) /\ balance' = [balance EXCEPT ![w] = e.after]
      /\ UNCHANGED <<wallets, idem, req>> /\ Committed(p, Len(rows) + 1)
  BY DEF CommitWithdraw, Committed
<1> HIDE DEF e
<1>5. rows' \in Seq(Row) /\ TablesGrow
  BY <1>1, <1>3, <1>4, GrowByAppend
<1>6. ProcTypes' /\ OnlyMoves(p) /\ ReqOK(p)'
  <2>1. Len(rows) + 1 \in Nat
    BY <1>1
  <2> QED BY <1>2, <1>4, <1>5, <2>1, CommittedKeeps
<1> QED BY <1>1, <1>3, <1>4, <1>5, <1>6, LostTypes, Assemble

\* The commit of a transfer keeps the types of both balances and both rows.
LEMMA CommitTransferTypes ==
  ASSUME TypeInv, NEW p \in Procs, CommitTransfer(p)
  PROVE  TypeInv' /\ TablesGrow
<1> DEFINE r == req[p]
           out == Entry("TRANSFER_OUT", r.from, r.amount, seen[p][r.from], r.key, 0)
           in == Entry("TRANSFER_IN", r.to, r.amount, seen[p][r.to], r.key, 0)
           mid == Append(rows, out)
<1>1. /\ rows \in Seq(Row) /\ balance \in [Wallets -> Balances] /\ Len(rows) \in Nat
      /\ idem \in [Keys -> KeyRow] /\ wallets \subseteq Wallets /\ ProcTypes
  BY LenProperties DEF TypeInv, TypeOK, ProcTypes
<1>2. r.op \in Ops /\ seen[p][r.from] >= r.amount
  BY DEF CommitTransfer, Ops
<1>3. /\ out \in Row /\ out.after \in Balances /\ r.from \in Wallets
      /\ in \in Row /\ in.after \in Balances /\ r.to \in Wallets
  <2>1. /\ r.from \in Wallets /\ r.to \in Wallets /\ r.amount \in Amounts /\ r.key \in Keys
        /\ seen[p][r.from] \in Balances /\ seen[p][r.to] \in Balances
    BY <1>1, <1>2, HashTypes DEF ProcTypes
  <2> QED BY <1>2, <2>1, EntryType DEF CreditTypes, DebitTypes, Entry
<1>4. /\ rows' = Append(mid, in)
      /\ balance' = [balance EXCEPT ![r.from] = out.after, ![r.to] = in.after]
      /\ UNCHANGED <<wallets, idem, req>> /\ Committed(p, Len(rows) + 1)
  BY DEF CommitTransfer, Committed
<1> HIDE DEF out, in
<1>5. mid \in Seq(Row) /\ DOMAIN rows \subseteq DOMAIN mid /\ \A i \in DOMAIN rows : mid[i] = rows[i]
  BY <1>1, <1>3, AppendProps
<1> HIDE DEF mid
<1>6. rows' \in Seq(Row) /\ DOMAIN mid \subseteq DOMAIN rows' /\ \A i \in DOMAIN mid : rows'[i] = mid[i]
  BY <1>3, <1>4, <1>5, AppendProps
<1>7. TablesGrow
  BY <1>4, <1>5, <1>6 DEF TablesGrow
<1>8. ProcTypes' /\ OnlyMoves(p) /\ ReqOK(p)'
  <2>1. Len(rows) + 1 \in Nat
    BY <1>1
  <2> QED BY <1>2, <1>4, <1>7, <2>1, CommittedKeeps
<1> QED BY <1>1, <1>3, <1>4, <1>6, <1>7, <1>8, LostTypes, Assemble

\* The commit of a reversal keeps the types: the refund is a typed row.
LEMMA CommitReversalTypes ==
  ASSUME TypeInv, NEW p \in Procs, CommitReversal(p)
  PROVE  TypeInv' /\ TablesGrow
<1> DEFINE w == req[p].from
           e == Entry("WITHDRAWAL_REVERT", w, req[p].amount, seen[p][w], NoKey, row[p])
           mid == WithStatus(rows, row[p], "FAILED")
<1>1. /\ rows \in Seq(Row) /\ balance \in [Wallets -> Balances]
      /\ idem \in [Keys -> KeyRow] /\ wallets \subseteq Wallets /\ ProcTypes
  BY DEF TypeInv, TypeOK, ProcTypes
<1>2. /\ row[p] \in DOMAIN rows /\ w = rows[row[p]].wallet
      /\ req[p].amount = rows[row[p]].amount
  BY DEF TypeInv, ReqOK, CommitReversal
<1>3. e \in Row /\ e.after \in Balances /\ w \in Wallets
  <2>1. w \in Wallets /\ req[p].amount \in Amounts /\ seen[p][w] \in Balances /\ row[p] \in Nat
    BY <1>1, <1>2, RowAt DEF ProcTypes
  <2> QED BY <2>1, EntryType DEF CreditTypes, DebitTypes, Entry
<1>4. /\ rows' = Append(mid, e) /\ balance' = [balance EXCEPT ![w] = e.after]
      /\ UNCHANGED <<wallets, idem>> /\ Return(p)
  BY DEF CommitReversal
<1>5. "FAILED" \in Statuses
  BY DEF Statuses
<1>6. mid = WithStatus(rows, row[p], "FAILED")
  OBVIOUS
<1> HIDE DEF e, mid
<1>7. /\ mid \in Seq(Row) /\ DOMAIN mid = DOMAIN rows
      /\ \A i \in DOMAIN rows :
           /\ mid[i].wallet = rows[i].wallet /\ mid[i].type = rows[i].type
           /\ mid[i].amount = rows[i].amount /\ mid[i].key = rows[i].key
  BY <1>1, <1>2, <1>5, <1>6, WithStatusKeeps
<1>8. rows' \in Seq(Row) /\ TablesGrow
  BY <1>3, <1>4, <1>7, GrowByAppend
<1> QED BY <1>1, <1>3, <1>4, <1>8, ReturnKeeps, LostTypes, Assemble

\* The commit of a finalization keeps the types: only a status changes.
LEMMA CommitFinalizeTypes ==
  ASSUME TypeInv, NEW p \in Procs, CommitFinalize(p)
  PROVE  TypeInv' /\ TablesGrow
<1>1. /\ rows \in Seq(Row) /\ balance \in [Wallets -> Balances]
      /\ idem \in [Keys -> KeyRow] /\ wallets \subseteq Wallets
  BY DEF TypeInv, TypeOK
<1>2. row[p] \in DOMAIN rows
  BY DEF TypeInv, ReqOK, CommitFinalize
<1>3. /\ rows' = WithStatus(rows, row[p], "SUCCESS") /\ "SUCCESS" \in Statuses
      /\ UNCHANGED <<wallets, balance, idem>> /\ Return(p)
  BY DEF CommitFinalize, Statuses
<1>4. /\ rows' \in Seq(Row) /\ DOMAIN rows' = DOMAIN rows
      /\ \A i \in DOMAIN rows :
           /\ rows'[i].wallet = rows[i].wallet /\ rows'[i].type = rows[i].type
           /\ rows'[i].amount = rows[i].amount /\ rows'[i].key = rows[i].key
  BY <1>1, <1>2, <1>3, WithStatusKeeps
<1>5. TablesGrow
  BY <1>3, <1>4 DEF TablesGrow
<1> QED BY <1>1, <1>3, <1>4, <1>5, ReturnKeeps, LostTypes, Assemble

-------------------------------------------------------------------------------
\* A call or a settlement arrives.
LEMMA ArrivalTypes ==
  ASSUME TypeInv, NEW p \in Procs,
         \/ \E r \in Requests : Receive(p, r)
         \/ \E i \in DOMAIN rows : FindReversal(p, i) \/ StartFinalize(p, i)
  PROVE  TypeInv' /\ TablesGrow
<1>1. /\ rows \in Seq(Row) /\ idem \in [Keys -> KeyRow] /\ wallets \subseteq Wallets
      /\ ProcTypes
  BY DEF TypeInv, TypeOK, ProcTypes
<1>2. UNCHANGED <<db, idem, locks, seen>>
  BY DEF Receive, FindReversal, StartFinalize
<1>3. ASSUME NEW r \in Requests, Receive(p, r)
      PROVE  ProcTypes' /\ OnlyMoves(p) /\ ReqOK(p)'
  <2>1. /\ r \in Request /\ r.amount <= MaxInt /\ r.amount > 0
        /\ {r.from, r.to} \subseteq wallets /\ (r.op = "TRANSFER" => r.from # r.to)
        /\ req' = [req EXCEPT ![p] = r] /\ pc' = [pc EXCEPT ![p] = "claim"]
        /\ row' = row
    BY <1>3, RequestsAssumption DEF Receive, Goto
  <2>2. r \in Job /\ r.op \in Ops /\ r.amount \in Amounts /\ r.key \in Keys
    BY <2>1, MaxIntAssumption DEF Request, Job, Amounts
  <2>3. (r.op # "TRANSFER" => r.from = r.to)
    BY <2>1 DEF Request
  <2>4. ProcTypes' /\ OnlyMoves(p)
    BY <1>1, <1>2, <2>1, <2>2 DEF ProcTypes, OnlyMoves
  <2>5. CallOK(r)'
    BY <1>2, <2>1, <2>2, <2>3 DEF CallOK, db
  <2>6. pc'[p] = "claim" /\ req'[p] = r
    BY <1>1, <2>1 DEF ProcTypes
  <2>7. r.op \notin {"REVERSAL", "FINALIZE"}
    BY <2>2 DEF Ops
  <2> QED BY <2>2, <2>4, <2>5, <2>6, <2>7 DEF ReqOK, CallOK
<1>4. ASSUME NEW i \in DOMAIN rows, FindReversal(p, i)
      PROVE  ProcTypes' /\ OnlyMoves(p) /\ ReqOK(p)'
  <2> DEFINE r == [op |-> "REVERSAL", from |-> rows[i].wallet, to |-> rows[i].wallet,
                   amount |-> rows[i].amount, key |-> NoKey]
  <2>1. /\ req' = [req EXCEPT ![p] = r] /\ pc' = [pc EXCEPT ![p] = "update"]
        /\ row' = [row EXCEPT ![p] = i]
    BY <1>4 DEF FindReversal, Goto
  <2>2. rows[i].wallet \in Wallets /\ rows[i].amount \in Int /\ i \in Nat
    BY <1>1, RowAt, MaxIntAssumption DEF Amounts
  <2>3. r \in Job
    BY <2>2 DEF Job
  <2>4. ProcTypes' /\ OnlyMoves(p)
    BY <1>1, <1>2, <2>1, <2>2, <2>3 DEF ProcTypes, OnlyMoves
  <2>5. pc'[p] = "update" /\ req'[p] = r /\ row'[p] = i
    BY <1>1, <2>1 DEF ProcTypes
  <2> QED BY <1>2, <2>4, <2>5 DEF ReqOK, db, Ops
<1>5. ASSUME NEW i \in DOMAIN rows, StartFinalize(p, i)
      PROVE  ProcTypes' /\ OnlyMoves(p) /\ ReqOK(p)'
  <2> DEFINE r == [NoReq EXCEPT !.op = "FINALIZE"]
  <2>1. /\ req' = [req EXCEPT ![p] = r] /\ pc' = [pc EXCEPT ![p] = "update"]
        /\ row' = [row EXCEPT ![p] = i]
    BY <1>5 DEF StartFinalize, Goto
  <2>2. i \in Nat
    BY <1>1, RowAt
  <2>3. r \in Job /\ r.op = "FINALIZE"
    BY DEF Job, NoReq
  <2> HIDE DEF r
  <2>4. ProcTypes' /\ OnlyMoves(p)
    BY <1>1, <1>2, <2>1, <2>2, <2>3 DEF ProcTypes, OnlyMoves
  <2>5. pc'[p] = "update" /\ req'[p] = r /\ row'[p] = i
    BY <1>1, <2>1 DEF ProcTypes
  <2> QED BY <1>2, <2>3, <2>4, <2>5 DEF ReqOK, db, Ops
<1>6. ProcTypes' /\ OnlyMoves(p) /\ ReqOK(p)'
  BY <1>3, <1>4, <1>5
<1> QED BY <1>1, <1>2, <1>6, AssembleQuiet

\* LockByID grants a lock of a wallet the call names.
LEMMA LockWalletStep ==
  ASSUME TypeInv, NEW p \in Procs, LockWallet(p)
  PROVE  LET w == NextWallet(p)
         IN  /\ w \in Wallets
             /\ locks' = [locks EXCEPT ![p] = locks[p] \union {w}]
             /\ locks'[p] = locks[p] \union {w}
             /\ \A q \in Procs : q # p => locks'[q] = locks[q] /\ seen'[q] = seen[q]
             /\ seen'[p] = [seen[p] EXCEPT ![w] = balance[w]]
             /\ seen' \in [Procs -> [Wallets -> Balances]]
             /\ locks' \in [Procs -> SUBSET Wallets]
             /\ \A q \in Procs : w \notin locks[q]
             /\ pc' = [pc EXCEPT ![p] = IF w = SecondWallet(p) THEN "write" ELSE "lock"]
             /\ pc[p] = "lock" /\ UNCHANGED <<db, idem, req, row>>
<1> DEFINE w == NextWallet(p)
           s == [seen[p] EXCEPT ![w] = balance[w]]
<1>1. /\ ProcTypes /\ balance \in [Wallets -> Balances] /\ rows \in Seq(Row)
      /\ wallets \subseteq Wallets
  BY DEF TypeInv, TypeOK, ProcTypes
<1>2. /\ pc[p] = "lock" /\ \A q \in Procs : w \notin locks[q]
      /\ locks' = [locks EXCEPT ![p] = locks[p] \union {w}]
      /\ seen' = [seen EXCEPT ![p] = s]
      /\ pc' = [pc EXCEPT ![p] = IF w = SecondWallet(p) THEN "write" ELSE "lock"]
      /\ UNCHANGED <<db, idem, req, row>>
  BY DEF LockWallet, Goto
<1>3. req[p].from \in Wallets /\ req[p].to \in Wallets
  <2>1. CASE req[p].op \in Ops
    BY <2>1, HashTypes
  <2>2. CASE req[p].op = "REVERSAL"
    <3>1. row[p] \in DOMAIN rows /\ req[p].from = rows[row[p]].wallet /\ req[p].to = req[p].from
      BY <2>2 DEF TypeInv, ReqOK
    <3> QED BY <1>1, <3>1, RowAt
  <2> QED BY <1>2, <2>1, <2>2 DEF TypeInv, ReqOK
<1>4. w \in Wallets
  BY <1>3 DEF NextWallet, FirstWallet, SecondWallet
<1> HIDE DEF w
<1>5. s \in [Wallets -> Balances]
  BY <1>1, <1>4 DEF ProcTypes
<1> QED BY <1>1, <1>2, <1>4, <1>5 DEF ProcTypes, w

\* The steps of a call that commit nothing.
LEMMA QuietTypes ==
  ASSUME TypeInv, NEW p \in Procs,
         \/ Claim(p) \/ Lookup(p) \/ LockWallet(p) \/ UpdateStatus(p) \/ Insufficient(p)
         \/ MarkFailed(p) \/ Complete(p) \/ Respond(p)
         \/ TxError(p) \/ KeyUpdateError(p) \/ Crash(p)
  PROVE  TypeInv' /\ TablesGrow
<1>1. /\ idem \in [Keys -> KeyRow] /\ ProcTypes /\ ReqOK(p)
  BY DEF TypeInv, TypeOK, ProcTypes
<1>2. UNCHANGED db
  BY DEF Claim, Lookup, LockWallet, UpdateStatus, Insufficient, MarkFailed, Complete,
         Respond, TxError, KeyUpdateError, Crash
<1>g. TablesGrow
  BY <1>2 DEF TablesGrow, db
<1> DEFINE Fine == ProcTypes' /\ OnlyMoves(p) /\ ReqOK(p)' /\ idem' \in [Keys -> KeyRow]
\* Moving on with nothing but pc, and perhaps this goroutine's row, changed.
<1>m. ASSUME NEW to \in {"lookup", "lock", "write", "mark", "complete", "ok"},
             Goto(p, to), UNCHANGED <<req, locks, seen>>,
             row' = row \/ (req[p].op \in Ops /\ \E n \in Nat : row' = [row EXCEPT ![p] = n]),
             req[p].op \in Ops \/ (req[p].op = "REVERSAL" /\ to = "lock")
               \/ (req[p].op \in {"REVERSAL", "FINALIZE"} /\ to = "write")
      PROVE  ProcTypes' /\ OnlyMoves(p) /\ ReqOK(p)'
  <2>1. /\ row' \in [Procs -> Nat] /\ \A q \in Procs : q # p => row'[q] = row[q]
        /\ req[p].op \in {"REVERSAL", "FINALIZE"} => row'[p] = row[p]
    BY <1>1, <1>m DEF ProcTypes, Ops
  <2>2. pc' = [pc EXCEPT ![p] = to] /\ UNCHANGED req
    BY <1>m DEF Goto
  <2>3. /\ locks' \in [Procs -> SUBSET Wallets] /\ seen' \in [Procs -> [Wallets -> Balances]]
        /\ \A q \in Procs : q # p => locks'[q] = locks[q] /\ seen'[q] = seen[q]
    BY <1>1, <1>m DEF ProcTypes
  <2>4. \/ req[p].op \in Ops
        \/ req[p].op = "REVERSAL" /\ to = "lock"
        \/ req[p].op \in {"REVERSAL", "FINALIZE"} /\ to = "write"
    BY <1>m
  <2>5. \A q \in Procs : q # p => locks'[q] = locks[q] /\ seen'[q] = seen[q] /\ row'[q] = row[q]
    BY <2>1, <2>3
  <2> QED BY <1>g, <2>1, <2>2, <2>3, <2>4, <2>5, GotoKeeps
<1> SUFFICES Fine
  BY <1>2, AssembleQuiet
<1>3. CASE Claim(p)
  <2>1. pc[p] = "claim" /\ req[p].op \in Ops /\ UNCHANGED <<req, locks, seen, row>>
    BY <1>1, <1>3 DEF Claim, ReqOK
  <2>2. idem' \in [Keys -> KeyRow]
    BY <1>1, <1>3, <2>1, HashTypes, KeyTypes DEF Claim
  <2>3. Goto(p, "lock") \/ Goto(p, "lookup")
    BY <1>3 DEF Claim
  <2>4. PICK to \in {"lookup", "lock", "write", "mark", "complete", "ok"} : Goto(p, to)
    BY <2>3
  <2> QED BY <1>m, <2>1, <2>2, <2>4
<1>4. CASE Lookup(p)
  <2>1. req[p].op \in Ops /\ req[p].key \in Keys /\ UNCHANGED idem
    BY <1>1, <1>4, HashTypes DEF Lookup, ReqOK
  <2>2. idem[req[p].key].resp \in Nat
    BY <1>1, <2>1 DEF KeyRow
  <2>3. CASE Return(p)
    BY <1>1, <2>1, <2>3, ReturnKeeps
  <2>4. CASE /\ Goto(p, "ok") /\ UNCHANGED <<req, locks, seen>>
             /\ row' = [row EXCEPT ![p] = idem[req[p].key].resp]
    <3>1. \E n \in Nat : row' = [row EXCEPT ![p] = n]
      BY <2>2, <2>4
    <3>2. ProcTypes' /\ OnlyMoves(p) /\ ReqOK(p)'
      BY <1>m, <2>1, <2>4, <3>1
    <3> QED BY <1>1, <2>1, <3>2
  <2> QED BY <1>4, <2>3, <2>4 DEF Lookup
<1>5. CASE LockWallet(p)
  <2> DEFINE w == NextWallet(p)
             to == IF w = SecondWallet(p) THEN "write" ELSE "lock"
  <2>1. /\ \A q \in Procs : q # p => locks'[q] = locks[q] /\ seen'[q] = seen[q]
        /\ locks' \in [Procs -> SUBSET Wallets] /\ seen' \in [Procs -> [Wallets -> Balances]]
        /\ pc' = [pc EXCEPT ![p] = to] /\ pc[p] = "lock" /\ UNCHANGED <<db, idem, req, row>>
    BY <1>5, LockWalletStep
  <2>2. req[p].op \in Ops \union {"REVERSAL"} /\ to \in {"lock", "write"}
    BY <1>1, <2>1 DEF ReqOK
  <2> HIDE DEF to
  <2>3. ProcTypes' /\ OnlyMoves(p) /\ ReqOK(p)'
    BY <1>1, <1>g, <2>1, <2>2, GotoKeeps DEF ProcTypes
  <2> QED BY <1>1, <2>1, <2>3
<1>6. CASE UpdateStatus(p)
  <2>1. pc[p] = "update" /\ req[p].op \in {"REVERSAL", "FINALIZE"} /\ UNCHANGED idem
    BY <1>1, <1>6 DEF UpdateStatus, ReqOK
  <2>2. CASE Return(p)
    BY <1>1, <2>1, <2>2, ReturnKeeps
  <2>3. CASE /\ Goto(p, IF req[p].op = "REVERSAL" THEN "lock" ELSE "write")
             /\ UNCHANGED <<req, locks, seen, row>>
    <3>1. CASE req[p].op = "REVERSAL"
      BY <1>1, <1>m, <2>1, <2>3, <3>1
    <3>2. CASE req[p].op = "FINALIZE"
      BY <1>1, <1>m, <2>1, <2>3, <3>2
    <3> QED BY <2>1, <3>1, <3>2
  <2> QED BY <1>6, <2>2, <2>3 DEF UpdateStatus
<1>7. CASE Insufficient(p) \/ TxError(p)
  <2>1. req[p].op \in Ops /\ Goto(p, "mark") /\ Unlock(p) /\ UNCHANGED <<idem, req, row>>
    BY <1>1, <1>7 DEF Insufficient, TxError, Ops, IsRepair, ReqOK
  <2> QED BY <1>1, <1>g, <2>1, EndTxKeeps
<1>8. CASE MarkFailed(p)
  <2>1. req[p].op \in Ops /\ SetKey(req[p].key, "FAILED", 0) /\ Return(p)
    BY <1>1, <1>8 DEF MarkFailed, ReqOK
  <2>2. idem' \in [Keys -> KeyRow]
    BY <1>1, <2>1, HashTypes, KeyTypes
  <2> QED BY <2>1, <2>2, ReturnKeeps
<1>9. CASE Complete(p)
  <2>1. /\ req[p].op \in Ops /\ SetKey(req[p].key, "COMPLETED", row[p])
        /\ Goto(p, "ok") /\ UNCHANGED <<req, locks, seen, row>>
    BY <1>1, <1>9 DEF Complete, ReqOK
  <2>2. idem' \in [Keys -> KeyRow]
    BY <1>1, <2>1, HashTypes, KeyTypes DEF ProcTypes
  <2> QED BY <1>m, <2>1, <2>2
<1>10. CASE Respond(p) \/ Crash(p)
  BY <1>1, <1>10, ReturnKeeps DEF Respond, Crash
<1>11. CASE KeyUpdateError(p)
  <2>1. CASE Return(p)
    BY <1>1, <1>11, <2>1, ReturnKeeps DEF KeyUpdateError
  <2>2. CASE pc[p] = "complete" /\ Goto(p, "ok") /\ UNCHANGED <<req, locks, seen, row>>
    <3>1. req[p].op \in Ops
      BY <1>1, <2>2 DEF ReqOK
    <3>2. ProcTypes' /\ OnlyMoves(p) /\ ReqOK(p)'
      BY <1>m, <2>2, <3>1
    <3> QED BY <1>1, <1>11, <3>2 DEF KeyUpdateError
  <2> QED BY <1>11, <2>1, <2>2 DEF KeyUpdateError
<1> QED BY <1>3, <1>4, <1>5, <1>6, <1>7, <1>8, <1>9, <1>10, <1>11

\* Every step keeps the types and lets the tables grow only.
LEMMA TypeStep == TypeInv /\ [Next]_vars => TypeInv' /\ TablesGrow
<1> SUFFICES ASSUME TypeInv, [Next]_vars PROVE TypeInv' /\ TablesGrow
  OBVIOUS
<1>1. ASSUME NEW w \in Wallets, CreateWallet(w) PROVE TypeInv' /\ TablesGrow
  <2>1. TablesGrow /\ UNCHANGED <<balance, rows, idem, pc, req, locks, seen, row>>
    BY <1>1 DEF CreateWallet, TablesGrow
  <2>2. TypeOK'
    BY <1>1, <2>1 DEF CreateWallet, TypeInv, TypeOK
  <2>3. ASSUME NEW q \in Procs PROVE ReqOK(q)'
    BY <1>1, <2>1 DEF TypeInv, ReqOK, CallOK, TablesGrow, CreateWallet
  <2> QED BY <2>1, <2>2, <2>3 DEF TypeInv
<1>2. ASSUME NEW p \in Procs,
             \/ \E r \in Requests : Receive(p, r)
             \/ \E i \in DOMAIN rows : FindReversal(p, i) \/ StartFinalize(p, i)
             \/ Serve(p) \/ TxError(p) \/ KeyUpdateError(p) \/ Crash(p)
      PROVE  TypeInv' /\ TablesGrow
  BY <1>2, ArrivalTypes, QuietTypes, CommitTopUpTypes, CommitWithdrawTypes,
     CommitTransferTypes, CommitReversalTypes, CommitFinalizeTypes DEF Serve
<1>3. CASE UNCHANGED vars
  BY <1>3 DEF vars, TypeInv, TypeOK, TablesGrow, ReqOK, CallOK, Job
<1> QED BY <1>1, <1>2, <1>3 DEF Next

\* The initial state has the types.
LEMMA TypeInit == Init => TypeInv
<1>1. /\ 0 \in Balances /\ NoReq \in Job /\ NoReq.op = "NONE" /\ NoKeys \in [Keys -> KeyRow]
  BY MaxIntAssumption DEF Balances, NoReq, Job, NoKeys, KeyRow
<1> QED BY <1>1 DEF Init, TypeInv, TypeOK, ReqOK, NoSeen, Ops

\* TypeInv is an invariant of every behaviour.
LEMMA TypeInvHolds == Spec => []TypeInv
  BY TypeInit, TypeStep, PTL DEF Spec

\* Every interleaving keeps the types: no balance leaves the int64 range, every
\* row is well-formed and every goroutine serves a well-formed call.
THEOREM TypeCorrect == Spec => []TypeOK
<1>1. TypeInv => TypeOK
  BY DEF TypeInv
<1> QED BY <1>1, TypeInvHolds, PTL

-------------------------------------------------------------------------------
\* The steps of goroutine p.
StepOf(p) ==
  \/ \E r \in Requests : Receive(p, r)
  \/ \E i \in DOMAIN rows : FindReversal(p, i) \/ StartFinalize(p, i)
  \/ Serve(p) \/ TxError(p) \/ KeyUpdateError(p) \/ Crash(p)

\* A goroutine's step leaves the others' variables alone.
LEMMA StepMoves ==
  ASSUME TypeInv, NEW p \in Procs, StepOf(p)
  PROVE  OnlyMoves(p)
<1>1. ProcTypes
  BY DEF TypeInv, TypeOK, ProcTypes
<1>r. Return(p) => OnlyMoves(p)
  BY ReturnKeeps
<1>2. ASSUME NEW r \in Requests, Receive(p, r) PROVE OnlyMoves(p)
  BY <1>1, <1>2 DEF Receive, Goto, OnlyMoves, ProcTypes
<1>3. ASSUME NEW i \in DOMAIN rows, FindReversal(p, i) \/ StartFinalize(p, i)
      PROVE  OnlyMoves(p)
  BY <1>1, <1>3 DEF FindReversal, StartFinalize, Goto, OnlyMoves, ProcTypes
<1>4. CASE Claim(p) \/ Complete(p)
  BY <1>1, <1>4 DEF Claim, Complete, Goto, OnlyMoves, ProcTypes
<1>5. CASE Lookup(p)
  BY <1>1, <1>r, <1>5 DEF Lookup, Goto, OnlyMoves, ProcTypes
<1>6. CASE UpdateStatus(p)
  BY <1>1, <1>r, <1>6 DEF UpdateStatus, Goto, OnlyMoves, ProcTypes
<1>7. CASE LockWallet(p)
  BY <1>1, <1>7 DEF LockWallet, Goto, OnlyMoves, ProcTypes
<1>8. CASE Insufficient(p) \/ TxError(p)
  BY <1>1, <1>8 DEF Insufficient, TxError, Unlock, Goto, OnlyMoves, ProcTypes
<1>9. CASE MarkFailed(p) \/ Respond(p) \/ Crash(p) \/ CommitReversal(p) \/ CommitFinalize(p)
  BY <1>r, <1>9 DEF MarkFailed, Respond, Crash, CommitReversal, CommitFinalize
<1>10. CASE KeyUpdateError(p)
  BY <1>1, <1>r, <1>10 DEF KeyUpdateError, Goto, OnlyMoves, ProcTypes
<1>11. CASE CommitTopUp(p) \/ CommitWithdraw(p) \/ CommitTransfer(p)
  <2>1. PICK n : Committed(p, n)
    BY <1>11 DEF CommitTopUp, CommitWithdraw, CommitTransfer
  <2> QED BY <1>1, <2>1 DEF Committed, Unlock, Goto, OnlyMoves, ProcTypes
<1> QED BY <1>2, <1>3, <1>4, <1>5, <1>6, <1>7, <1>8, <1>9, <1>10, <1>11 DEF StepOf, Serve

-------------------------------------------------------------------------------
\* Which locks a goroutine holds where.
LocksFit(p) ==
  /\ pc[p] \notin {"lock", "write"} => locks[p] = {}
  /\ pc[p] = "lock" =>
       \/ locks[p] = {}
       \/ locks[p] = {FirstWallet(p)} /\ FirstWallet(p) # SecondWallet(p)
  /\ (pc[p] = "write" /\ req[p].op # "FINALIZE") => {req[p].from, req[p].to} \subseteq locks[p]

LockInv ==
  /\ \A p \in Procs : LocksFit(p)
  /\ \A p, q \in Procs : p # q => locks[p] \intersect locks[q] = {}
  /\ LockedReadIsCurrent

\* A step that leaves p without locks and changes no balance but of the wallets
\* p had locked.
LEMMA LockRelease ==
  ASSUME TypeInv, LockInv, NEW p \in Procs, OnlyMoves(p), locks'[p] = {},
         pc'[p] = "write" => req'[p].op = "FINALIZE",
         \A w \in Wallets \ locks[p] : balance'[w] = balance[w]
  PROVE  LockInv'
<1>1. \A q \in Procs : locks[q] \subseteq Wallets
  BY DEF TypeInv, TypeOK
<1>2. \A q \in Procs : LocksFit(q)'
  BY DEF LockInv, LocksFit, OnlyMoves, FirstWallet, SecondWallet
<1>3. \A q, r \in Procs : q # r => locks'[q] \intersect locks'[r] = {}
  BY DEF LockInv, OnlyMoves
<1>4. LockedReadIsCurrent'
  <2> SUFFICES ASSUME NEW q \in Procs, NEW w \in locks'[q]
      PROVE  seen'[q][w] = balance'[w]
    BY DEF LockedReadIsCurrent
  <2>1. q # p /\ locks'[q] = locks[q] /\ seen'[q] = seen[q]
    BY DEF OnlyMoves
  <2>2. w \in Wallets \ locks[p] /\ seen[q][w] = balance[w]
    BY <1>1, <2>1 DEF LockInv, LockedReadIsCurrent
  <2> QED BY <2>1, <2>2
<1> QED BY <1>2, <1>3, <1>4 DEF LockInv

\* A granted lock is exclusive and comes with the current balance.
LEMMA LockGranted ==
  ASSUME TypeInv, LockInv, NEW p \in Procs, LockWallet(p)
  PROVE  LockInv'
<1> DEFINE w == NextWallet(p)
<1>1. /\ w \in Wallets /\ locks'[p] = locks[p] \union {w}
      /\ \A q \in Procs : q # p => locks'[q] = locks[q] /\ seen'[q] = seen[q]
      /\ seen'[p] = [seen[p] EXCEPT ![w] = balance[w]]
      /\ \A q \in Procs : w \notin locks[q]
      /\ pc' = [pc EXCEPT ![p] = IF w = SecondWallet(p) THEN "write" ELSE "lock"]
      /\ pc[p] = "lock" /\ req' = req /\ balance' = balance
  BY LockWalletStep DEF db
<1>2. /\ pc \in [Procs -> {"idle", "claim", "lookup", "lock", "write", "update",
                           "mark", "complete", "ok"}]
      /\ seen[p] \in [Wallets -> Balances] /\ \A q \in Procs : locks[q] \subseteq Wallets
  BY DEF TypeInv, TypeOK
<1>3. LocksFit(p)'
  <2>1. /\ FirstWallet(p)' = FirstWallet(p) /\ SecondWallet(p)' = SecondWallet(p)
        /\ {req[p].from, req[p].to} = {FirstWallet(p), SecondWallet(p)}
    BY <1>1 DEF FirstWallet, SecondWallet
  <2>2. LocksFit(p)
    BY DEF LockInv
  <2>3. CASE FirstWallet(p) \in locks[p]
    BY <1>1, <1>2, <2>1, <2>2, <2>3 DEF LocksFit, NextWallet
  <2>4. CASE FirstWallet(p) \notin locks[p]
    <3>1. locks[p] = {} /\ w = FirstWallet(p)
      BY <1>1, <2>2, <2>4 DEF LocksFit, NextWallet
    <3>2. locks'[p] = {FirstWallet(p)}
      BY <1>1, <3>1
    <3>3. CASE FirstWallet(p) = SecondWallet(p)
      <4>1. pc'[p] = "write"
        BY <1>1, <1>2, <3>1, <3>3
      <4> QED BY <1>1, <2>1, <3>2, <3>3, <4>1 DEF LocksFit
    <3>4. CASE FirstWallet(p) # SecondWallet(p)
      <4>1. pc'[p] = "lock"
        BY <1>1, <1>2, <3>1, <3>4
      <4> QED BY <1>1, <2>1, <3>2, <3>4, <4>1 DEF LocksFit
    <3> QED BY <3>3, <3>4
  <2> QED BY <2>3, <2>4
<1>4. ASSUME NEW q \in Procs, q # p PROVE LocksFit(q)'
  BY <1>1, <1>2, <1>4 DEF LockInv, LocksFit, FirstWallet, SecondWallet
<1>5. \A q, r \in Procs : q # r => locks'[q] \intersect locks'[r] = {}
  BY <1>1 DEF LockInv
<1>6. LockedReadIsCurrent'
  <2> SUFFICES ASSUME NEW q \in Procs, NEW v \in locks'[q]
      PROVE  seen'[q][v] = balance[v]
    BY <1>1 DEF LockedReadIsCurrent
  <2> HIDE DEF w
  <2> QED BY <1>1, <1>2 DEF LockInv, LockedReadIsCurrent
<1> QED BY <1>3, <1>4, <1>5, <1>6 DEF LockInv

\* Commits change balances only of wallets they have locked.
LEMMA CommitsLocked ==
  ASSUME TypeInv, LockInv, NEW p \in Procs,
         \/ CommitTopUp(p) \/ CommitWithdraw(p) \/ CommitTransfer(p)
         \/ CommitReversal(p) \/ CommitFinalize(p)
  PROVE  /\ \A w \in Wallets \ locks[p] : balance'[w] = balance[w]
         /\ locks'[p] = {} /\ pc'[p] # "write"
         /\ req[p].op # "FINALIZE" =>
              /\ req[p].from \in locks[p] /\ req[p].to \in locks[p]
              /\ seen[p][req[p].from] = balance[req[p].from]
              /\ seen[p][req[p].to] = balance[req[p].to]
<1>1. balance \in [Wallets -> Balances] /\ ProcTypes
  BY DEF TypeInv, TypeOK, ProcTypes
<1>2. pc[p] = "write"
  BY DEF CommitTopUp, CommitWithdraw, CommitTransfer, CommitReversal, CommitFinalize
<1>3. req[p].op # "FINALIZE" =>
        /\ req[p].from \in locks[p] /\ req[p].to \in locks[p]
        /\ seen[p][req[p].from] = balance[req[p].from]
        /\ seen[p][req[p].to] = balance[req[p].to]
  BY <1>2 DEF LockInv, LocksFit, LockedReadIsCurrent
<1>4. CASE CommitTopUp(p) \/ CommitWithdraw(p) \/ CommitTransfer(p)
  <2>1. req[p].op # "FINALIZE"
    BY <1>4 DEF CommitTopUp, CommitWithdraw, CommitTransfer
  <2>2. /\ locks' = [locks EXCEPT ![p] = {}]
        /\ pc' = [pc EXCEPT ![p] = "complete"] \/ pc' = [pc EXCEPT ![p] = "mark"]
    BY <1>4 DEF CommitTopUp, CommitWithdraw, CommitTransfer, Committed, Goto, Unlock
  <2>3. \A w \in Wallets \ locks[p] : balance'[w] = balance[w]
    BY <1>1, <1>3, <1>4, <2>1 DEF CommitTopUp, CommitWithdraw, CommitTransfer
  <2> QED BY <1>1, <1>3, <2>2, <2>3 DEF ProcTypes
<1>5. CASE CommitReversal(p)
  <2>1. req[p].op # "FINALIZE"
    BY <1>5 DEF CommitReversal
  <2>2. \A w \in Wallets \ locks[p] : balance'[w] = balance[w]
    BY <1>1, <1>3, <1>5, <2>1 DEF CommitReversal
  <2> QED BY <1>3, <1>5, <2>2, ReturnKeeps DEF CommitReversal
<1>6. CASE CommitFinalize(p)
  BY <1>6, ReturnKeeps DEF CommitFinalize
<1> QED BY <1>4, <1>5, <1>6

\* Every step keeps locks exclusive and locked balances current.
LEMMA LockStep == TypeInv /\ LockInv /\ [Next]_vars => LockInv'
<1> SUFFICES ASSUME TypeInv, LockInv, [Next]_vars PROVE LockInv'
  OBVIOUS
<1>1. CASE UNCHANGED vars
  BY <1>1 DEF vars, db, LockInv, LocksFit, LockedReadIsCurrent, FirstWallet, SecondWallet
<1>2. ASSUME NEW w \in Wallets, CreateWallet(w) PROVE LockInv'
  BY <1>2 DEF CreateWallet, LockInv, LocksFit, LockedReadIsCurrent, FirstWallet, SecondWallet
<1>3. ASSUME NEW p \in Procs, StepOf(p) PROVE LockInv'
  <2>0. OnlyMoves(p)
    BY <1>3, StepMoves
  <2>1. ProcTypes /\ LocksFit(p)
    BY DEF TypeInv, TypeOK, ProcTypes, LockInv
  <2>r. Return(p) /\ UNCHANGED balance => LockInv'
    BY <2>0, ReturnKeeps, LockRelease
  \* A step between places without locks.
  <2>q. ASSUME NEW to, pc[p] \notin {"lock", "write"}, UNCHANGED <<locks, balance>>,
               pc' = [pc EXCEPT ![p] = to], to = "write" => req'[p].op = "FINALIZE"
        PROVE  LockInv'
    <3>1. locks'[p] = {} /\ pc'[p] = to
      BY <2>1, <2>q DEF LocksFit, ProcTypes
    <3> QED BY <2>0, <2>q, <3>1, LockRelease
  <2>2. CASE \E r \in Requests : Receive(p, r)
    BY <2>2, <2>q DEF Receive, Goto, db
  <2>3. CASE \E i \in DOMAIN rows : FindReversal(p, i) \/ StartFinalize(p, i)
    BY <2>3, <2>q DEF FindReversal, StartFinalize, Goto, db
  <2>4. CASE Claim(p) \/ Complete(p)
    BY <2>4, <2>q DEF Claim, Complete, Goto, db
  <2>5. CASE Lookup(p)
    BY <2>5, <2>q, <2>r DEF Lookup, Goto, db
  <2>6. CASE UpdateStatus(p)
    <3>1. req[p].op \in {"REVERSAL", "FINALIZE"}
      BY <2>6 DEF UpdateStatus, TypeInv, ReqOK
    <3> QED BY <2>6, <2>q, <2>r, <3>1 DEF UpdateStatus, Goto, db
  <2>7. CASE LockWallet(p)
    BY <2>7, LockGranted
  <2>8. CASE Insufficient(p) \/ TxError(p)
    <3>1. /\ locks' = [locks EXCEPT ![p] = {}] /\ pc' = [pc EXCEPT ![p] = "mark"]
          /\ balance' = balance
      BY <2>8 DEF Insufficient, TxError, Goto, Unlock, db
    <3>2. locks'[p] = {} /\ pc'[p] = "mark"
      BY <2>1, <3>1 DEF ProcTypes
    <3> QED BY <2>0, <3>1, <3>2, LockRelease
  <2>9. CASE MarkFailed(p) \/ Respond(p) \/ Crash(p)
    BY <2>9, <2>r DEF MarkFailed, Respond, Crash, db
  <2>10. CASE KeyUpdateError(p)
    BY <2>10, <2>q, <2>r DEF KeyUpdateError, Goto, db
  <2>11. CASE \/ CommitTopUp(p) \/ CommitWithdraw(p) \/ CommitTransfer(p)
              \/ CommitReversal(p) \/ CommitFinalize(p)
    BY <2>0, <2>11, CommitsLocked, LockRelease
  <2> QED BY <1>3, <2>2, <2>3, <2>4, <2>5, <2>6, <2>7, <2>8, <2>9, <2>10, <2>11
         DEF StepOf, Serve
<1> QED BY <1>1, <1>2, <1>3 DEF Next, StepOf

\* No wallet is locked initially.
LEMMA LockInit == Init => LockInv
  BY DEF Init, LockInv, LocksFit, LockedReadIsCurrent

\* Nobody changes a wallet between another transaction's SELECT ... FOR UPDATE
\* and its commit: row locks make the read-modify-write of a balance atomic.
THEOREM LockedReads == Spec => []LockedReadIsCurrent
<1>1. Spec => []LockInv
  BY LockInit, LockStep, TypeInvHolds, PTL DEF Spec
<1>2. LockInv => LockedReadIsCurrent
  BY DEF LockInv
<1> QED BY <1>1, <1>2, PTL

-------------------------------------------------------------------------------
\* What a request's commit inserts: one row or two that carry its key, the
\* first of which is the row the call answers with.
LEMMA CommitKeepsRows ==
  ASSUME TypeInv, NEW p \in Procs, CommitTopUp(p) \/ CommitWithdraw(p) \/ CommitTransfer(p)
  PROVE  /\ \A i \in DOMAIN rows : rows'[i] = rows[i]
         /\ \A i \in DOMAIN rows' : i \in DOMAIN rows \/ rows'[i].key = req[p].key
         /\ Len(rows) + 1 \in DOMAIN rows'
         /\ rows'[Len(rows) + 1].key = req[p].key
         /\ rows'[Len(rows) + 1].amount = req[p].amount
         /\ rows'[Len(rows) + 1].type # "TRANSFER_IN"
         /\ Committed(p, Len(rows) + 1) /\ req[p].op \in Ops /\ pc[p] = "write"
<1> DEFINE r == req[p]
           n == Len(rows)
<1>1. rows \in Seq(Row) /\ ProcTypes /\ r.op \in Ops /\ pc[p] = "write"
  BY DEF TypeInv, TypeOK, ProcTypes, CommitTopUp, CommitWithdraw, CommitTransfer, Ops
<1>2. /\ r.from \in Wallets /\ r.to \in Wallets /\ r.amount \in Amounts /\ r.key \in Keys
      /\ seen[p][r.from] \in Balances /\ seen[p][r.to] \in Balances
  BY <1>1, HashTypes DEF ProcTypes
<1>3. Committed(p, n + 1)
  BY DEF CommitTopUp, CommitWithdraw, CommitTransfer
<1>4. ASSUME NEW e \in Row, rows' = Append(rows, e), e.key = r.key, e.amount = r.amount,
             e.type # "TRANSFER_IN"
      PROVE  /\ \A i \in DOMAIN rows : rows'[i] = rows[i]
             /\ \A i \in DOMAIN rows' : i \in DOMAIN rows \/ rows'[i].key = r.key
             /\ n + 1 \in DOMAIN rows' /\ rows'[n + 1] = e
  BY <1>1, <1>4, AppendProps
<1>5. CASE CommitTopUp(p)
  <2> DEFINE e == Entry("TOPUP", r.from, r.amount, seen[p][r.from], r.key, 0)
  <2>1. e \in Row
    BY <1>2, EntryType DEF CreditTypes, DebitTypes
  <2>2. e.key = r.key /\ e.amount = r.amount /\ e.type # "TRANSFER_IN"
    BY DEF Entry
  <2>3. rows' = Append(rows, e)
    BY <1>5 DEF CommitTopUp
  <2> HIDE DEF e
  <2> QED BY <1>1, <1>3, <1>4, <2>1, <2>2, <2>3
<1>6. CASE CommitWithdraw(p)
  <2> DEFINE e == Entry("WITHDRAWAL", r.from, r.amount, seen[p][r.from], r.key, 0)
  <2>0. seen[p][r.from] >= r.amount
    BY <1>6 DEF CommitWithdraw
  <2>1. e \in Row
    BY <1>2, <2>0, EntryType DEF CreditTypes, DebitTypes
  <2>2. e.key = r.key /\ e.amount = r.amount /\ e.type # "TRANSFER_IN"
    BY DEF Entry
  <2>3. rows' = Append(rows, e)
    BY <1>6 DEF CommitWithdraw
  <2> HIDE DEF e
  <2> QED BY <1>1, <1>3, <1>4, <2>1, <2>2, <2>3
<1>7. CASE CommitTransfer(p)
  <2> DEFINE out == Entry("TRANSFER_OUT", r.from, r.amount, seen[p][r.from], r.key, 0)
             in == Entry("TRANSFER_IN", r.to, r.amount, seen[p][r.to], r.key, 0)
             mid == Append(rows, out)
  <2>0. seen[p][r.from] >= r.amount
    BY <1>7 DEF CommitTransfer
  <2>1. out \in Row /\ in \in Row
    BY <1>2, <2>0, EntryType DEF CreditTypes, DebitTypes
  <2>2. /\ out.key = r.key /\ out.amount = r.amount /\ out.type # "TRANSFER_IN"
        /\ in.key = r.key
    BY DEF Entry
  <2>3. rows' = Append(mid, in)
    BY <1>7 DEF CommitTransfer
  <2> HIDE DEF out, in
  <2>4. /\ mid \in Seq(Row) /\ n \in Nat /\ Len(mid) = n + 1
        /\ DOMAIN mid = DOMAIN rows \union {n + 1} /\ mid[n + 1] = out
        /\ \A i \in DOMAIN rows : mid[i] = rows[i]
    BY <1>1, <2>1, AppendProps
  <2> HIDE DEF mid
  <2>5. /\ DOMAIN rows' = DOMAIN mid \union {n + 2} /\ rows'[n + 2] = in
        /\ \A i \in DOMAIN mid : rows'[i] = mid[i]
    BY <2>1, <2>3, <2>4, AppendProps
  <2>6. /\ \A i \in DOMAIN rows : rows'[i] = rows[i]
        /\ n + 1 \in DOMAIN rows' /\ rows'[n + 1] = out
        /\ \A i \in DOMAIN rows' : i \in DOMAIN rows \/ rows'[i].key = r.key
    BY <2>2, <2>4, <2>5
  <2> QED BY <1>1, <1>3, <2>2, <2>6
<1> QED BY <1>5, <1>6, <1>7

\* A settlement changes the withdrawal it settles and may append its refund.
LEMMA SettleKeepsRows ==
  ASSUME TypeInv, NEW p \in Procs, CommitReversal(p) \/ CommitFinalize(p)
  PROVE  /\ \A i \in DOMAIN rows : i # row[p] => rows'[i] = rows[i]
         /\ \A i \in DOMAIN rows : rows'[i].key = rows[i].key
         /\ \A i \in DOMAIN rows' : i \in DOMAIN rows \/ rows'[i].key = NoKey
<1>1. /\ rows \in Seq(Row) /\ ProcTypes /\ row[p] \in DOMAIN rows
      /\ balance \in [Wallets -> Balances]
  BY DEF TypeInv, TypeOK, ProcTypes, ReqOK, CommitReversal, CommitFinalize
<1>s. "FAILED" \in Statuses /\ "SUCCESS" \in Statuses
  BY DEF Statuses
<1>2. ASSUME NEW s \in Statuses, NEW mid, mid = WithStatus(rows, row[p], s)
      PROVE  /\ mid \in Seq(Row) /\ DOMAIN mid = DOMAIN rows
             /\ \A i \in DOMAIN rows : i # row[p] => mid[i] = rows[i]
             /\ \A i \in DOMAIN rows : mid[i].key = rows[i].key
  BY <1>1, <1>2, WithStatusProps
<1>3. CASE CommitFinalize(p)
  BY <1>2, <1>3, <1>s DEF CommitFinalize
<1>4. CASE CommitReversal(p)
  <2> DEFINE w == req[p].from
             e == Entry("WITHDRAWAL_REVERT", w, req[p].amount, seen[p][w], NoKey, row[p])
             mid == WithStatus(rows, row[p], "FAILED")
  <2>1. w = rows[row[p]].wallet /\ req[p].amount = rows[row[p]].amount
    BY <1>4 DEF CommitReversal, TypeInv, ReqOK
  <2>2. w \in Wallets /\ req[p].amount \in Amounts /\ seen[p][w] \in Balances /\ row[p] \in Nat
    BY <1>1, <2>1, RowAt DEF ProcTypes
  <2>3. e \in Row
    BY <2>2, EntryType DEF CreditTypes, DebitTypes
  <2>4. e.key = NoKey
    BY DEF Entry
  <2>5. rows' = Append(mid, e)
    BY <1>4 DEF CommitReversal
  <2>6. /\ mid \in Seq(Row) /\ DOMAIN mid = DOMAIN rows
        /\ \A i \in DOMAIN rows : i # row[p] => mid[i] = rows[i]
        /\ \A i \in DOMAIN rows : mid[i].key = rows[i].key
    BY <1>2, <1>s
  <2> HIDE DEF e, mid
  <2> QED BY <2>3, <2>4, <2>5, <2>6, AppendProps
<1> QED BY <1>3, <1>4

-------------------------------------------------------------------------------
\* p's open transaction has updated a withdrawal's row.
Holds(p) == pc[p] \in {"lock", "write"} /\ req[p].op \in {"REVERSAL", "FINALIZE"}

\* A withdrawal being settled is pending and has one transaction to settle it.
RowInv ==
  /\ \A p \in Procs : Holds(p) => rows[row[p]].status = "PENDING"
  /\ \A p, q \in Procs : p # q /\ Holds(p) /\ Holds(q) => row[p] # row[q]

\* A step after which p holds no row, and that changes no status but of the row
\* p held.
LEMMA RowRelease ==
  ASSUME TypeInv, RowInv, NEW p \in Procs, OnlyMoves(p),
         pc'[p] \notin {"lock", "write"} \/ req'[p].op \in Ops,
         \A i \in DOMAIN rows : rows'[i].status # rows[i].status => Holds(p) /\ row[p] = i
  PROVE  RowInv'
<1>1. ~Holds(p)'
  BY DEF Holds, Ops
<1>2. ASSUME NEW q \in Procs, Holds(q)'
      PROVE  /\ q # p /\ Holds(q) /\ row'[q] = row[q]
             /\ row[q] \in DOMAIN rows /\ rows'[row[q]].status = "PENDING"
  <2>1. q # p /\ Holds(q) /\ row'[q] = row[q]
    BY <1>1, <1>2 DEF Holds, OnlyMoves
  <2>2. row[q] \in DOMAIN rows /\ rows[row[q]].status = "PENDING"
    BY <2>1 DEF RowInv, TypeInv, ReqOK, Holds
  <2>3. ~(Holds(p) /\ row[p] = row[q])
    BY <2>1 DEF RowInv
  <2> QED BY <2>1, <2>2, <2>3
<1> QED BY <1>2 DEF RowInv

\* Every step keeps the rows being settled pending, each settled by one call.
LEMMA RowStep == TypeInv /\ RowInv /\ [Next]_vars => RowInv'
<1> SUFFICES ASSUME TypeInv, RowInv, [Next]_vars PROVE RowInv'
  OBVIOUS
<1>1. CASE UNCHANGED vars
  BY <1>1 DEF vars, db, RowInv, Holds
<1>2. ASSUME NEW w \in Wallets, CreateWallet(w) PROVE RowInv'
  BY <1>2 DEF CreateWallet, RowInv, Holds
<1>3. ASSUME NEW p \in Procs, StepOf(p) PROVE RowInv'
  <2>0. OnlyMoves(p)
    BY <1>3, StepMoves
  <2>1. /\ ProcTypes /\ ReqOK(p) /\ rows \in Seq(Row) /\ balance \in [Wallets -> Balances]
        /\ wallets \subseteq Wallets
    BY DEF TypeInv, TypeOK, ProcTypes
  <2>r. Return(p) /\ UNCHANGED rows => RowInv'
    BY <2>0, ReturnKeeps, RowRelease
  <2>q. ASSUME NEW to, UNCHANGED rows, pc' = [pc EXCEPT ![p] = to],
               to \notin {"lock", "write"} \/ req'[p].op \in Ops
        PROVE  RowInv'
    <3>1. pc'[p] = to
      BY <2>1, <2>q DEF ProcTypes
    <3> QED BY <2>0, <2>q, <3>1, RowRelease
  <2>2. CASE \E r \in Requests : Receive(p, r)
    BY <2>2, <2>q DEF Receive, Goto, db
  <2>3. CASE \E i \in DOMAIN rows : FindReversal(p, i) \/ StartFinalize(p, i)
    BY <2>3, <2>q DEF FindReversal, StartFinalize, Goto, db
  <2>4. CASE Claim(p) \/ Complete(p)
    <3>1. req'[p].op \in Ops
      BY <2>1, <2>4 DEF Claim, Complete, ReqOK
    <3> QED BY <2>4, <2>q, <3>1 DEF Claim, Complete, Goto, db
  <2>5. CASE Lookup(p)
    BY <2>5, <2>q, <2>r DEF Lookup, Goto, db
  <2>6. CASE UpdateStatus(p)
    <3>1. CASE Return(p)
      BY <2>6, <2>r, <3>1 DEF UpdateStatus, db
    <3>2. CASE /\ rows[row[p]].status = "PENDING"
               /\ UNCHANGED <<req, row, rows>>
      <4>1. \A q \in Procs : q # p /\ Holds(q) => row[q] # row[p]
        BY <2>6 DEF UpdateStatus, HoldsRow, IsRepair, Holds
      <4>2. \A q \in Procs : q # p => (Holds(q)' <=> Holds(q)) /\ row'[q] = row[q]
        BY <2>0 DEF OnlyMoves, Holds
      <4> QED BY <3>2, <4>1, <4>2 DEF RowInv
    <3> QED BY <2>6, <3>1, <3>2 DEF UpdateStatus, db
  <2>7. CASE LockWallet(p)
    <3>1. pc[p] = "lock" /\ UNCHANGED <<rows, req, row>>
      BY <2>7 DEF LockWallet, db
    <3>2. \A q \in Procs : Holds(q)' => Holds(q)
      BY <2>0, <3>1 DEF OnlyMoves, Holds
    <3> QED BY <3>1, <3>2 DEF RowInv
  <2>8. CASE Insufficient(p) \/ TxError(p)
    BY <2>8, <2>q DEF Insufficient, TxError, Goto, db
  <2>9. CASE MarkFailed(p) \/ Respond(p) \/ Crash(p)
    BY <2>9, <2>r DEF MarkFailed, Respond, Crash, db
  <2>10. CASE KeyUpdateError(p)
    BY <2>10, <2>q, <2>r DEF KeyUpdateError, Goto, db
  <2>11. CASE CommitTopUp(p) \/ CommitWithdraw(p) \/ CommitTransfer(p)
    <3>1. PICK n : Committed(p, n)
      BY <2>11 DEF CommitTopUp, CommitWithdraw, CommitTransfer
    <3>2. pc'[p] \notin {"lock", "write"}
      BY <2>1, <3>1 DEF Committed, Goto, ProcTypes
    <3>3. \A i \in DOMAIN rows : rows'[i] = rows[i]
      BY <2>11, CommitKeepsRows
    <3> QED BY <2>0, <3>2, <3>3, RowRelease
  <2>12. CASE CommitReversal(p) \/ CommitFinalize(p)
    <3>1. Return(p) /\ Holds(p) /\ row[p] \in DOMAIN rows
      BY <2>1, <2>12 DEF CommitReversal, CommitFinalize, Holds, ReqOK
    <3>2. \A i \in DOMAIN rows : i # row[p] => rows'[i] = rows[i]
      BY <2>12, SettleKeepsRows
    <3> QED BY <2>0, <3>1, <3>2, ReturnKeeps, RowRelease
  <2> QED BY <1>3, <2>2, <2>3, <2>4, <2>5, <2>6, <2>7, <2>8, <2>9, <2>10, <2>11, <2>12
         DEF StepOf, Serve
<1> QED BY <1>1, <1>2, <1>3 DEF Next, StepOf

-------------------------------------------------------------------------------
\* No row carries the key: Ledger's Fresh.
Unspent(k) == \A i \in DOMAIN rows : rows[i].key # k

\* Row i is what the call with this key and amount wrote.
Names(i, k, a) ==
  /\ i \in DOMAIN rows
  /\ rows[i].key = k /\ rows[i].amount = a /\ rows[i].type # "TRANSFER_IN"

\* p has claimed its call's key, and before its commit has not spent it.
Owner(p) == pc[p] \in {"lock", "write", "mark", "complete"} /\ req[p].op \in Ops
Spending(p) == pc[p] \in {"lock", "write"} /\ req[p].op \in Ops

KeyOK(k) ==
  /\ idem[k].status = "NONE" => Unspent(k)
  /\ idem[k].status = "COMPLETED" => Names(idem[k].resp, k, idem[k].hash[2])

OwnerOK(p) ==
  /\ Owner(p) => /\ idem[req[p].key].status = "PROCESSING"
                 /\ idem[req[p].key].hash = CallHash(p)
  /\ Spending(p) => Unspent(req[p].key)
  /\ pc[p] \in {"complete", "ok"} => Names(row[p], req[p].key, req[p].amount)

\* A key has one owner, who alone can spend it and decides how it ends.
KeyInv ==
  /\ \A k \in Keys : KeyOK(k)
  /\ \A p \in Procs : OwnerOK(p)
  /\ \A p, q \in Procs : p # q /\ Owner(p) /\ Owner(q) => req[p].key # req[q].key

\* Rows that exist keep naming what they named.
LEMMA NamesKept ==
  ASSUME TablesGrow, NEW i, NEW k, NEW a, Names(i, k, a)
  PROVE  Names(i, k, a)'
  BY DEF TablesGrow, Names

\* Steps that leave the key table alone.
LEMMA KeysAlone ==
  ASSUME TypeInv, KeyInv, NEW p \in Procs, OnlyMoves(p), TablesGrow, UNCHANGED idem,
         \A k \in Keys : Unspent(k) => Unspent(k)' \/ (Spending(p) /\ k = req[p].key),
         Owner(p)' => Owner(p) /\ req'[p] = req[p],
         Spending(p)' => Spending(p) /\ UNCHANGED rows,
         pc'[p] \in {"complete", "ok"} => Names(row[p], req[p].key, req[p].amount)'
  PROVE  KeyInv'
<1>1. \A q \in Procs : req[q].op \in Ops => req[q].key \in Keys
  BY HashTypes
<1>2. ASSUME NEW k \in Keys PROVE KeyOK(k)'
  <2>1. KeyOK(k)
    BY DEF KeyInv
  <2>2. idem[k].status = "NONE" => ~(Spending(p) /\ k = req[p].key)
    BY DEF KeyInv, OwnerOK, Owner, Spending
  <2>3. idem[k].status = "NONE" => Unspent(k)'
    BY <2>1, <2>2 DEF KeyOK
  <2>4. idem[k].status = "COMPLETED" => Names(idem[k].resp, k, idem[k].hash[2])'
    BY <2>1, NamesKept DEF KeyOK
  <2> QED BY <2>3, <2>4 DEF KeyOK
<1>3. ASSUME NEW q \in Procs, q # p PROVE OwnerOK(q)' /\ (Owner(q)' <=> Owner(q)) /\ req'[q] = req[q]
  <2>1. /\ pc'[q] = pc[q] /\ req'[q] = req[q] /\ row'[q] = row[q]
    BY <1>3 DEF OnlyMoves
  <2>2. (Owner(q)' <=> Owner(q)) /\ (Spending(q)' <=> Spending(q)) /\ CallHash(q)' = CallHash(q)
    BY <2>1 DEF Owner, Spending, CallHash, Hash
  <2>3. OwnerOK(q)
    BY DEF KeyInv
  <2>4. PICK k, a, i : k = req[q].key /\ a = req[q].amount /\ i = row[q]
    OBVIOUS
  <2>5. Spending(q) => Unspent(k)'
    <3> SUFFICES ASSUME Spending(q) PROVE Unspent(k)'
      OBVIOUS
    <3>1. k \in Keys /\ Unspent(k)
      BY <1>1, <2>3, <2>4 DEF OwnerOK, Spending
    <3>2. ~(Spending(p) /\ k = req[p].key)
      BY <1>3, <2>4 DEF KeyInv, Owner, Spending
    <3> QED BY <3>1, <3>2
  <2>6. pc[q] \in {"complete", "ok"} => Names(i, k, a)'
    BY <2>3, <2>4, NamesKept DEF OwnerOK
  <2> QED BY <2>1, <2>2, <2>3, <2>4, <2>5, <2>6 DEF OwnerOK, Unspent, Names
<1>4. OwnerOK(p)'
  <2>1. OwnerOK(p)
    BY DEF KeyInv
  <2>2. Owner(p)' => /\ idem'[req'[p].key].status = "PROCESSING"
                     /\ idem'[req'[p].key].hash = CallHash(p)'
    BY <2>1 DEF OwnerOK, CallHash, Hash
  <2>3. Spending(p)' => req'[p] = req[p] /\ rows' = rows /\ Spending(p)
    BY DEF Spending, Owner
  <2>4. Spending(p)' => Unspent(req[p].key)'
    BY <2>1, <2>3 DEF OwnerOK, Unspent
  <2>5. pc'[p] \in {"complete", "ok"} => Names(row[p], req[p].key, req[p].amount)'
    OBVIOUS
  <2> QED BY <2>2, <2>4, <2>5 DEF OwnerOK
<1>5. \A q, r \in Procs : q # r /\ Owner(q)' /\ Owner(r)' => req'[q].key # req'[r].key
  <2> SUFFICES ASSUME NEW q \in Procs, NEW r \in Procs, q # r, Owner(q)', Owner(r)'
      PROVE  req'[q].key # req'[r].key
    OBVIOUS
  <2>1. Owner(q) /\ req'[q] = req[q] /\ Owner(r) /\ req'[r] = req[r]
    BY <1>3
  <2> QED BY <2>1 DEF KeyInv
<1>6. \A q \in Procs : OwnerOK(q)'
  BY <1>3, <1>4
<1> QED BY <1>2, <1>5, <1>6 DEF KeyInv

\* Steps that write p's key: the claim, and the updates by its owner.
LEMMA KeyWritten ==
  ASSUME TypeInv, KeyInv, NEW p \in Procs, OnlyMoves(p), UNCHANGED db,
         req[p].op \in Ops,
         Owner(p) \/ idem[req[p].key].status = "NONE",
         \A c \in Keys : c # req[p].key => idem'[c] = idem[c],
         \A c \in Keys : c = req[p].key => KeyOK(c)',
         OwnerOK(p)', Owner(p)' => req'[p] = req[p]
  PROVE  KeyInv'
<1>1. \A q \in Procs : req[q].op \in Ops => req[q].key \in Keys
  BY HashTypes
<1>r. rows' = rows
  BY DEF db
<1>2. ASSUME NEW q \in Procs, q # p, Owner(q) PROVE req[q].key # req[p].key
  BY <1>2 DEF KeyInv, OwnerOK
<1>3. ASSUME NEW k \in Keys PROVE KeyOK(k)'
  <2>1. CASE k = req[p].key
    BY <2>1
  <2>2. CASE k # req[p].key
    BY <1>r, <2>2 DEF KeyInv, KeyOK, Unspent, Names
  <2> QED BY <2>1, <2>2
<1>4. ASSUME NEW q \in Procs, q # p
      PROVE  OwnerOK(q)' /\ (Owner(q)' <=> Owner(q)) /\ req'[q] = req[q]
  <2>1. pc'[q] = pc[q] /\ req'[q] = req[q] /\ row'[q] = row[q]
    BY <1>4 DEF OnlyMoves
  <2>2. (Owner(q)' <=> Owner(q)) /\ (Spending(q)' <=> Spending(q)) /\ CallHash(q)' = CallHash(q)
    BY <2>1 DEF Owner, Spending, CallHash, Hash
  <2>3. Owner(q) => idem'[req[q].key] = idem[req[q].key]
    BY <1>1, <1>2, <1>4 DEF Owner
  <2>4. OwnerOK(q)
    BY DEF KeyInv
  <2> QED BY <1>r, <2>1, <2>2, <2>3, <2>4 DEF OwnerOK, Unspent, Names
<1>5. \A q \in Procs : OwnerOK(q)'
  BY <1>4
<1>6. \A q, r \in Procs : q # r /\ Owner(q)' /\ Owner(r)' => req'[q].key # req'[r].key
  <2> SUFFICES ASSUME NEW q \in Procs, NEW r \in Procs, q # r, Owner(q)', Owner(r)'
      PROVE  req'[q].key # req'[r].key
    OBVIOUS
  <2>1. CASE q # p /\ r # p
    BY <1>4, <2>1 DEF KeyInv
  <2>2. CASE q = p
    BY <1>2, <1>4, <2>2
  <2>3. CASE r = p
    BY <1>2, <1>4, <2>3
  <2> QED BY <2>1, <2>2, <2>3
<1> QED BY <1>3, <1>5, <1>6 DEF KeyInv

\* Every step keeps the keys' bookkeeping.
LEMMA KeyStep == TypeInv /\ KeyInv /\ [Next]_vars => KeyInv'
<1> SUFFICES ASSUME TypeInv, KeyInv, [Next]_vars PROVE KeyInv'
  OBVIOUS
<1>1. CASE UNCHANGED vars
  BY <1>1 DEF vars, db, KeyInv, KeyOK, OwnerOK, Owner, Spending, Unspent, Names, CallHash, Hash
<1>2. ASSUME NEW w \in Wallets, CreateWallet(w) PROVE KeyInv'
  BY <1>2 DEF CreateWallet, KeyInv, KeyOK, OwnerOK, Owner, Spending, Unspent, Names,
              CallHash, Hash
<1>3. ASSUME NEW p \in Procs, StepOf(p) PROVE KeyInv'
  <2>0. OnlyMoves(p) /\ TablesGrow
    BY <1>3, StepMoves, TypeStep DEF Next, StepOf
  <2>1. ProcTypes /\ ReqOK(p) /\ OwnerOK(p) /\ idem \in [Keys -> KeyRow] /\ rows \in Seq(Row)
    BY DEF TypeInv, TypeOK, ProcTypes, KeyInv
  \* A step after which p owns no key and answers nothing.
  <2>r. ASSUME UNCHANGED idem, pc'[p] \notin {"lock", "write", "mark", "complete", "ok"}
               \/ (pc'[p] \in {"lock", "write"} /\ req'[p].op \notin Ops),
               \A k \in Keys : Unspent(k) => Unspent(k)'
        PROVE  KeyInv'
    <3>1. ~Owner(p)' /\ ~Spending(p)' /\ pc'[p] \notin {"complete", "ok"}
      BY <2>r DEF Owner, Spending
    <3> QED BY <2>0, <2>r, <3>1, KeysAlone
  <2>t. ASSUME UNCHANGED <<idem, rows>>, Return(p) PROVE KeyInv'
    BY <2>r, <2>t, ReturnKeeps DEF Unspent
  \* A step on the way of a call, towards its answer.
  <2>q. ASSUME NEW to, UNCHANGED <<idem, rows, req>>, pc' = [pc EXCEPT ![p] = to],
               to \in {"lock", "write"} => Spending(p), to \in {"mark", "complete"} => Owner(p),
               to \in {"complete", "ok"} => Names(row'[p], req[p].key, req[p].amount)
        PROVE  KeyInv'
    <3>1. pc'[p] = to /\ req'[p] = req[p]
      BY <2>1, <2>q DEF ProcTypes
    <3>2. Owner(p)' => Owner(p)
      BY <2>q, <3>1 DEF Owner, Spending
    <3>3. Spending(p)' => Spending(p)
      BY <2>q, <3>1 DEF Spending
    <3>4. pc'[p] \in {"complete", "ok"} => Names(row[p], req[p].key, req[p].amount)'
      BY <2>q, <3>1 DEF Names
    <3>5. \A k \in Keys : Unspent(k) => Unspent(k)'
      BY <2>q DEF Unspent
    <3> QED BY <2>0, <2>q, <3>1, <3>2, <3>3, <3>4, <3>5, KeysAlone
  <2>2. CASE \/ \E r \in Requests : Receive(p, r)
             \/ \E i \in DOMAIN rows : FindReversal(p, i) \/ StartFinalize(p, i)
    <3>1. /\ UNCHANGED <<idem, rows>>
          /\ pc' = [pc EXCEPT ![p] = "claim"] \/ pc' = [pc EXCEPT ![p] = "update"]
      BY <2>2 DEF Receive, FindReversal, StartFinalize, Goto, db
    <3>2. pc'[p] \in {"claim", "update"}
      BY <2>1, <3>1 DEF ProcTypes
    <3> QED BY <2>r, <3>1, <3>2 DEF Unspent
  <2>3. CASE Claim(p)
    <3>1. /\ req[p].op \in Ops /\ req[p].key \in Keys /\ pc[p] = "claim" /\ UNCHANGED <<db, req, row>>
          /\ CallHash(p) \in (Wallets \union {0}) \X Int
      BY <2>1, <2>3, HashTypes DEF Claim, ReqOK
    <3>2. CASE Unknown(req[p].key)
      <4>1. InsertKey(req[p].key, CallHash(p)) /\ pc' = [pc EXCEPT ![p] = "lock"]
        BY <2>3, <3>2 DEF Claim, Goto
      <4>2. /\ \A c \in Keys : c # req[p].key => idem'[c] = idem[c]
            /\ idem'[req[p].key].status = "PROCESSING" /\ idem'[req[p].key].hash = CallHash(p)
        <5>1. PICK k, h : k = req[p].key /\ h = CallHash(p)
          OBVIOUS
        <5>2. k \in Keys /\ h \in (Wallets \union {0}) \X Int /\ InsertKey(k, h)
          BY <3>1, <4>1, <5>1
        <5>3. /\ \A c \in Keys : c # k => idem'[c] = idem[c]
              /\ idem'[k] = [status |-> "PROCESSING", hash |-> h, resp |-> 0]
          BY <2>1, <5>2, KeyTypes
        <5> QED BY <5>1, <5>3
      <4>3. idem[req[p].key].status = "NONE" /\ Unspent(req[p].key)
        BY <3>1, <3>2 DEF Unknown, KeyInv, KeyOK
      <4>4. \A c \in Keys : c = req[p].key => KeyOK(c)'
        BY <4>2 DEF KeyOK
      <4>5. pc'[p] = "lock" /\ req'[p] = req[p] /\ CallHash(p)' = CallHash(p) /\ rows' = rows
        BY <2>1, <3>1, <4>1 DEF ProcTypes, CallHash, Hash, db
      <4>6. OwnerOK(p)'
        BY <4>2, <4>3, <4>5 DEF OwnerOK, Unspent
      <4> QED BY <2>0, <3>1, <4>2, <4>3, <4>4, <4>5, <4>6, KeyWritten
    <3>3. CASE ~Unknown(req[p].key)
      <4>1. UNCHANGED idem /\ pc' = [pc EXCEPT ![p] = "lookup"]
        BY <2>3, <3>3 DEF Claim, Goto
      <4> QED BY <2>q, <3>1, <4>1 DEF db
    <3> QED BY <3>2, <3>3
  <2>4. CASE Lookup(p)
    <3>1. /\ req[p].op \in Ops /\ req[p].key \in Keys /\ CallHash(p)[2] = req[p].amount
          /\ UNCHANGED <<idem, rows>>
      BY <2>1, <2>4, HashTypes DEF Lookup, ReqOK, db
    <3>2. CASE Replayable(req[p].key, CallHash(p))
      <4>1. /\ pc' = [pc EXCEPT ![p] = "ok"] /\ UNCHANGED req
            /\ row'[p] = idem[req[p].key].resp
        BY <2>1, <2>4, <3>2 DEF Lookup, Goto, ProcTypes
      <4>2. Names(idem[req[p].key].resp, req[p].key, req[p].amount)
        BY <3>1, <3>2 DEF Replayable, KeyInv, KeyOK
      <4> QED BY <2>q, <3>1, <4>1, <4>2
    <3>3. CASE ~Replayable(req[p].key, CallHash(p))
      BY <2>4, <2>t, <3>1, <3>3 DEF Lookup
    <3> QED BY <3>2, <3>3
  <2>5. CASE LockWallet(p)
    <3>1. /\ pc[p] = "lock" /\ UNCHANGED <<idem, rows, req>>
          /\ \E to \in {"lock", "write"} : pc' = [pc EXCEPT ![p] = to]
      BY <2>5 DEF LockWallet, Goto, db
    <3>2. PICK to \in {"lock", "write"} : pc' = [pc EXCEPT ![p] = to]
      BY <3>1
    <3>3. CASE req[p].op \in Ops
      BY <2>q, <3>1, <3>2, <3>3 DEF Spending
    <3>4. CASE req[p].op \notin Ops
      <4>1. pc'[p] \in {"lock", "write"} /\ req'[p].op \notin Ops
        BY <2>1, <3>1, <3>2, <3>4 DEF ProcTypes
      <4> QED BY <2>r, <3>1, <4>1 DEF Unspent
    <3> QED BY <3>3, <3>4
  <2>6. CASE UpdateStatus(p)
    <3>1. req[p].op \notin Ops /\ UNCHANGED <<idem, rows>>
      BY <2>1, <2>6 DEF UpdateStatus, ReqOK, Ops, db
    <3>2. CASE Return(p)
      BY <2>t, <3>1, <3>2
    <3>3. CASE UNCHANGED req /\ Goto(p, IF req[p].op = "REVERSAL" THEN "lock" ELSE "write")
      <4>1. pc'[p] \in {"lock", "write"} /\ req'[p].op \notin Ops
        BY <2>1, <3>1, <3>3 DEF Goto, ProcTypes
      <4> QED BY <2>r, <3>1, <4>1 DEF Unspent
    <3> QED BY <2>6, <3>2, <3>3 DEF UpdateStatus
  <2>7. CASE CommitTopUp(p) \/ CommitWithdraw(p) \/ CommitTransfer(p)
    <3>1. PICK n : n = Len(rows) + 1
      OBVIOUS
    <3>2. /\ \A i \in DOMAIN rows' : i \in DOMAIN rows \/ rows'[i].key = req[p].key
          /\ \A i \in DOMAIN rows : rows'[i] = rows[i]
          /\ n \in DOMAIN rows' /\ rows'[n].key = req[p].key
          /\ rows'[n].amount = req[p].amount /\ rows'[n].type # "TRANSFER_IN"
          /\ req[p].op \in Ops /\ pc[p] = "write" /\ Committed(p, n)
      BY <2>7, <3>1, CommitKeepsRows
    <3>3. /\ pc'[p] \in {"complete", "mark"} /\ req'[p] = req[p] /\ UNCHANGED idem
          /\ n \in Nat => row'[p] = n
      BY <2>1, <3>2 DEF Committed, Goto, ProcTypes
    <3>4. row'[p] = n
      BY <2>1, <3>1, <3>3, LenProperties
    <3>5. Names(row[p], req[p].key, req[p].amount)'
      BY <3>2, <3>3, <3>4 DEF Names
    <3>6. \A k \in Keys : Unspent(k) => Unspent(k)' \/ (Spending(p) /\ k = req[p].key)
      BY <3>2 DEF Unspent, Spending
    <3>7. (Owner(p)' => Owner(p) /\ req'[p] = req[p]) /\ ~Spending(p)'
      BY <3>2, <3>3 DEF Owner, Spending
    <3> QED BY <2>0, <3>3, <3>5, <3>6, <3>7, KeysAlone
  <2>8. CASE CommitReversal(p) \/ CommitFinalize(p)
    <3>1. Return(p) /\ UNCHANGED idem
      BY <2>8 DEF CommitReversal, CommitFinalize
    <3>2. \A k \in Keys : Unspent(k) => Unspent(k)'
      BY <2>8, SettleKeepsRows, KeysAssumption DEF Unspent
    <3>3. pc'[p] = "idle"
      BY <3>1, ReturnKeeps
    <3> QED BY <2>r, <3>1, <3>2, <3>3
  <2>9. CASE Insufficient(p) \/ TxError(p)
    <3>1. /\ UNCHANGED <<idem, rows, req>> /\ pc' = [pc EXCEPT ![p] = "mark"] /\ Owner(p)
      BY <2>1, <2>9 DEF Insufficient, TxError, IsRepair, Goto, db, Owner, ReqOK, Ops
    <3> QED BY <2>q, <3>1
  <2>10. CASE MarkFailed(p)
    <3>1. /\ req[p].op \in Ops /\ req[p].key \in Keys /\ Owner(p) /\ UNCHANGED db
          /\ SetKey(req[p].key, "FAILED", 0) /\ Return(p)
      BY <2>1, <2>10, HashTypes DEF MarkFailed, ReqOK, Owner
    <3>2. /\ \A c \in Keys : c # req[p].key => idem'[c] = idem[c]
          /\ idem'[req[p].key].status = "FAILED"
      BY <2>1, <3>1, KeyTypes
    <3>3. \A c \in Keys : c = req[p].key => KeyOK(c)'
      BY <3>2 DEF KeyOK
    <3>4. pc'[p] = "idle"
      BY <3>1, ReturnKeeps
    <3>5. ~Owner(p)' /\ OwnerOK(p)'
      BY <3>4 DEF Owner, OwnerOK, Spending
    <3> QED BY <2>0, <3>1, <3>2, <3>3, <3>5, KeyWritten
  <2>11. CASE Complete(p)
    <3>1. /\ req[p].op \in Ops /\ req[p].key \in Keys /\ Owner(p) /\ pc[p] = "complete"
          /\ SetKey(req[p].key, "COMPLETED", row[p]) /\ row[p] \in Nat
          /\ UNCHANGED <<db, req, row>> /\ CallHash(p)[2] = req[p].amount
          /\ pc' = [pc EXCEPT ![p] = "ok"]
      BY <2>1, <2>11, HashTypes DEF Complete, ReqOK, Owner, ProcTypes, Goto
    <3>2. /\ \A c \in Keys : c # req[p].key => idem'[c] = idem[c]
          /\ idem'[req[p].key].status = "COMPLETED" /\ idem'[req[p].key].resp = row[p]
          /\ idem'[req[p].key].hash = CallHash(p)
      BY <2>1, <3>1, KeyTypes DEF OwnerOK
    <3>3. Names(row[p], req[p].key, req[p].amount) /\ rows' = rows
      BY <2>1, <3>1 DEF OwnerOK, db
    <3>4. \A c \in Keys : c = req[p].key => KeyOK(c)'
      BY <3>1, <3>2, <3>3 DEF KeyOK, Names
    <3>5. pc'[p] = "ok"
      BY <2>1, <3>1 DEF ProcTypes
    <3>6. ~Owner(p)' /\ OwnerOK(p)'
      BY <3>1, <3>3, <3>5 DEF Owner, OwnerOK, Spending, Names
    <3> QED BY <2>0, <3>1, <3>2, <3>4, <3>6, KeyWritten
  <2>12. CASE Respond(p) \/ Crash(p)
    BY <2>12, <2>t DEF Respond, Crash, db
  <2>13. CASE KeyUpdateError(p)
    <3>1. UNCHANGED <<idem, rows>>
      BY <2>13 DEF KeyUpdateError, db
    <3>2. CASE Return(p)
      BY <2>t, <3>1, <3>2
    <3>3. CASE pc[p] = "complete" /\ Goto(p, "ok") /\ UNCHANGED <<req, locks, seen, row>>
      <4>1. Names(row'[p], req[p].key, req[p].amount)
        BY <2>1, <3>3 DEF OwnerOK
      <4> QED BY <2>q, <3>1, <3>3, <4>1 DEF Goto
    <3> QED BY <2>13, <3>2, <3>3 DEF KeyUpdateError
  <2> QED BY <1>3, <2>2, <2>3, <2>4, <2>5, <2>6, <2>7, <2>8, <2>9, <2>10, <2>11, <2>12, <2>13
         DEF StepOf, Serve
<1> QED BY <1>1, <1>2, <1>3 DEF Next, StepOf

\* No key is known and nobody serves a call initially.
LEMMA KeyInit == Init => KeyInv
  BY DEF Init, KeyInv, KeyOK, OwnerOK, Owner, Spending, Unspent, NoKeys, NoReq, Ops

\* The four parts together.
CoreInv == TypeInv /\ LockInv /\ RowInv /\ KeyInv

\* The inductive invariant holds in every behaviour: it starts and is kept.
LEMMA CoreInvHolds == Spec => []CoreInv
<1>1. Init => CoreInv
  <2>1. Init => RowInv
    BY DEF Init, RowInv, Holds
  <2> QED BY <2>1, TypeInit, LockInit, KeyInit DEF CoreInv
<1>2. CoreInv /\ [Next]_vars => CoreInv'
  BY TypeStep, LockStep, RowStep, KeyStep DEF CoreInv
<1> QED BY <1>1, <1>2, PTL DEF Spec

\* An unknown key has moved no money, and a completed one names the row its own
\* request wrote, however calls, retries, crashes and lost replies interleave.
THEOREM KeysTellTruth == Spec => []KeyTellsTruth
<1>1. CoreInv => KeyTellsTruth
  BY DEF CoreInv, KeyInv, KeyOK, Unspent, Names, KeyTellsTruth, Promise!Fresh
<1> QED BY <1>1, CoreInvHolds, PTL

\* Every successful answer names a committed row of its own key and amount.
THEOREM AnswersNameRows == Spec => []AnswersNameTheirRow
<1>1. CoreInv => AnswersNameTheirRow
  BY DEF CoreInv, KeyInv, OwnerOK, Names, AnswersNameTheirRow
<1> QED BY <1>1, CoreInvHolds, PTL

-------------------------------------------------------------------------------
\* A key marked FAILED, and one about to be marked, has paid for nothing, or its
\* COMMIT was answered with an error.
Excused(k) == Unspent(k) \/ k \in lost

FailedInv ==
  /\ \A k \in Keys : idem[k].status = "FAILED" => Excused(k)
  /\ \A p \in Procs : pc[p] = "mark" => Excused(req[p].key)

\* A step keeps that when it spends no key but p's while p is its owner, and p
\* marks its key, and gets to mark it, only so.
LEMMA FailedAlone ==
  ASSUME CoreInv, FailedInv, NEW p \in Procs, OnlyMoves(p),
         \A k \in Keys : idem'[k].status = "FAILED" =>
           idem[k].status = "FAILED" \/ Excused(k)',
         \A k \in Keys : Excused(k) => Excused(k)' \/ (Spending(p) /\ k = req[p].key),
         pc'[p] = "mark" => Excused(req[p].key)'
  PROVE  FailedInv'
<1>1. \A q \in Procs : req[q].op \in Ops => req[q].key \in Keys
  BY HashTypes DEF CoreInv
<1>2. ASSUME NEW k \in Keys, idem'[k].status = "FAILED" PROVE Excused(k)'
  <2>1. CASE idem[k].status = "FAILED"
    <3>1. ~(Spending(p) /\ k = req[p].key)
      BY <2>1 DEF CoreInv, KeyInv, OwnerOK, Owner, Spending
    <3> QED BY <2>1, <3>1 DEF FailedInv
  <2> QED BY <1>2, <2>1
<1>3. ASSUME NEW q \in Procs, pc'[q] = "mark" PROVE Excused(req[q].key)'
  <2>1. CASE q = p
    BY <1>3, <2>1
  <2>2. CASE q # p
    <3>1. pc[q] = "mark" /\ req'[q] = req[q]
      BY <1>3, <2>2 DEF OnlyMoves
    <3>2. Owner(q) /\ req[q].key \in Keys
      BY <1>1, <3>1 DEF CoreInv, TypeInv, ReqOK, Owner
    <3>3. ~(Spending(p) /\ req[q].key = req[p].key)
      BY <2>2, <3>2 DEF CoreInv, KeyInv, Owner, Spending
    <3>4. PICK k \in Keys : k = req[q].key
      BY <3>2
    <3>5. Excused(k)'
      BY <3>1, <3>3, <3>4 DEF FailedInv
    <3> QED BY <3>1, <3>4, <3>5 DEF Excused, Unspent
  <2> QED BY <2>1, <2>2
<1> QED BY <1>2, <1>3 DEF FailedInv

\* Every step keeps it.
LEMMA FailedStep ==
  ASSUME CoreInv, FailedInv, [Next]_vars
  PROVE  FailedInv'
<1>1. CASE UNCHANGED vars
  BY <1>1 DEF vars, db, FailedInv, Excused, Unspent
<1>2. ASSUME NEW w \in Wallets, CreateWallet(w) PROVE FailedInv'
  BY <1>2 DEF CreateWallet, FailedInv, Excused, Unspent
<1>3. ASSUME NEW p \in Procs, StepOf(p) PROVE FailedInv'
  <2>0. OnlyMoves(p) /\ TypeInv /\ KeyInv
    BY <1>3, StepMoves DEF CoreInv
  <2>1. /\ ProcTypes /\ ReqOK(p) /\ OwnerOK(p) /\ idem \in [Keys -> KeyRow]
        /\ req[p].op \in Ops => req[p].key \in Keys
    BY <2>0, HashTypes DEF TypeInv, TypeOK, ProcTypes, KeyInv
  \* A step that fails no key and leaves p elsewhere.
  <2>q. ASSUME \A k \in Keys : idem'[k].status = "FAILED" => idem[k].status = "FAILED",
               \A k \in Keys : Excused(k) => Excused(k)' \/ (Spending(p) /\ k = req[p].key),
               pc'[p] # "mark"
        PROVE  FailedInv'
    BY <2>0, <2>q, FailedAlone
  <2>t. ASSUME UNCHANGED <<idem, rows, lost>>, NEW to, pc' = [pc EXCEPT ![p] = to], to # "mark"
        PROVE  FailedInv'
    BY <2>1, <2>q, <2>t DEF Excused, Unspent, ProcTypes
  <2>r. ASSUME UNCHANGED <<idem, rows, lost>>, Return(p) PROVE FailedInv'
    BY <2>t, <2>r DEF Return, Goto
  <2>2. CASE \/ \E r \in Requests : Receive(p, r)
             \/ \E i \in DOMAIN rows : FindReversal(p, i) \/ StartFinalize(p, i)
    BY <2>2, <2>t DEF Receive, FindReversal, StartFinalize, Goto, db
  <2>3. CASE Claim(p)
    <3>1. /\ req[p].key \in Keys /\ CallHash(p) \in (Wallets \union {0}) \X Int /\ rows' = rows
          /\ pc' = [pc EXCEPT ![p] = "lock"] \/ pc' = [pc EXCEPT ![p] = "lookup"]
          /\ lost' = lost
      BY <2>0, <2>1, <2>3, HashTypes DEF Claim, ReqOK, Goto, db
    <3>2. CASE InsertKey(req[p].key, CallHash(p))
      <4>1. PICK k, h : k = req[p].key /\ h = CallHash(p)
        OBVIOUS
      <4>2. \A c \in Keys : idem'[c].status = "FAILED" => idem[c].status = "FAILED"
        <5>1. k \in Keys /\ h \in (Wallets \union {0}) \X Int /\ InsertKey(k, h)
          BY <3>1, <3>2, <4>1
        <5>2. /\ \A c \in Keys : c # k => idem'[c] = idem[c]
              /\ idem'[k] = [status |-> "PROCESSING", hash |-> h, resp |-> 0]
          BY <2>1, <5>1, KeyTypes
        <5> QED BY <5>2
      <4> QED BY <2>1, <2>q, <3>1, <4>2 DEF Excused, Unspent, ProcTypes
    <3>3. CASE UNCHANGED idem
      BY <2>t, <3>1, <3>3
    <3> QED BY <2>3, <3>2, <3>3 DEF Claim
  <2>4. CASE Lookup(p) \/ LockWallet(p) \/ UpdateStatus(p)
    BY <2>4, <2>t, <2>r DEF Lookup, LockWallet, UpdateStatus, Goto, db
  <2>5. CASE CommitTopUp(p) \/ CommitWithdraw(p) \/ CommitTransfer(p)
    <3>1. /\ \A i \in DOMAIN rows' : i \in DOMAIN rows \/ rows'[i].key = req[p].key
          /\ \A i \in DOMAIN rows : rows'[i] = rows[i]
          /\ req[p].op \in Ops /\ pc[p] = "write" /\ Committed(p, Len(rows) + 1)
      BY <2>0, <2>5, CommitKeepsRows
    <3>2. UNCHANGED idem /\ lost \subseteq lost'
      BY <3>1 DEF Committed
    <3>3. \A k \in Keys : Excused(k) => Excused(k)' \/ (Spending(p) /\ k = req[p].key)
      BY <3>1, <3>2 DEF Excused, Unspent, Spending
    <3>4. CASE pc' = [pc EXCEPT ![p] = "complete"]
      <4>1. pc'[p] = "complete"
        BY <2>1, <3>4 DEF ProcTypes
      <4> QED BY <2>q, <3>2, <3>3, <4>1
    <3>5. CASE lost' = lost \union {req[p].key}
      <4>1. req' = req
        BY <3>1 DEF Committed
      <4>2. Excused(req[p].key)'
        BY <3>5, <4>1 DEF Excused
      <4>3. \A k \in Keys : idem'[k].status = "FAILED" => idem[k].status = "FAILED"
        BY <3>2
      <4> QED BY <2>0, <3>3, <4>2, <4>3, FailedAlone
    <3> QED BY <3>1, <3>4, <3>5 DEF Committed, Goto
  <2>6. CASE CommitReversal(p) \/ CommitFinalize(p)
    <3>1. /\ UNCHANGED <<idem, lost>> /\ pc' = [pc EXCEPT ![p] = "idle"]
      BY <2>6 DEF CommitReversal, CommitFinalize, Return, Goto
    <3>2. \A k \in Keys : Excused(k) => Excused(k)'
      BY <2>0, <2>6, <3>1, SettleKeepsRows, KeysAssumption DEF Excused, Unspent
    <3> QED BY <2>1, <2>q, <3>1, <3>2 DEF ProcTypes
  <2>7. CASE Insufficient(p) \/ TxError(p)
    <3>1. /\ UNCHANGED <<idem, rows, req, lost>> /\ Spending(p)
      BY <2>1, <2>7 DEF Insufficient, TxError, IsRepair, db, Spending, ReqOK, Ops
    <3>2. Excused(req[p].key)'
      BY <2>1, <3>1 DEF OwnerOK, Excused, Unspent
    <3> QED BY <2>0, <3>1, <3>2, FailedAlone DEF Excused, Unspent
  <2>8. CASE MarkFailed(p)
    <3>1. /\ req[p].key \in Keys /\ pc[p] = "mark" /\ rows' = rows /\ lost' = lost
          /\ SetKey(req[p].key, "FAILED", 0) /\ pc' = [pc EXCEPT ![p] = "idle"]
      BY <2>1, <2>8 DEF MarkFailed, ReqOK, Return, Goto, db
    <3>2. \A c \in Keys : c # req[p].key => idem'[c] = idem[c]
      BY <2>1, <3>1, KeyTypes
    <3>3. \A c \in Keys : c = req[p].key => Excused(c)'
      BY <3>1 DEF FailedInv, Excused, Unspent
    <3>4. \A c \in Keys : idem'[c].status = "FAILED" => idem[c].status = "FAILED" \/ Excused(c)'
      BY <3>2, <3>3
    <3>5. pc'[p] = "idle" /\ \A c \in Keys : Excused(c) => Excused(c)'
      BY <2>1, <3>1 DEF ProcTypes, Excused, Unspent
    <3> QED BY <2>0, <3>4, <3>5, FailedAlone
  <2>9. CASE Complete(p)
    <3>1. /\ req[p].key \in Keys /\ rows' = rows /\ row[p] \in Nat /\ lost' = lost
          /\ SetKey(req[p].key, "COMPLETED", row[p]) /\ pc' = [pc EXCEPT ![p] = "ok"]
      BY <2>1, <2>9 DEF Complete, ReqOK, Goto, db, ProcTypes
    <3>2. /\ \A c \in Keys : c # req[p].key => idem'[c] = idem[c]
          /\ idem'[req[p].key].status = "COMPLETED"
      BY <2>1, <3>1, KeyTypes
    <3>3. pc'[p] = "ok" /\ \A c \in Keys : Excused(c) => Excused(c)'
      BY <2>1, <3>1 DEF ProcTypes, Excused, Unspent
    <3> QED BY <2>q, <3>2, <3>3
  <2>10. CASE Respond(p) \/ Crash(p) \/ KeyUpdateError(p)
    BY <2>10, <2>r, <2>t DEF Respond, Crash, KeyUpdateError, Goto, db
  <2> QED BY <1>3, <2>2, <2>3, <2>4, <2>5, <2>6, <2>7, <2>8, <2>9, <2>10 DEF StepOf, Serve
<1> QED BY <1>1, <1>2, <1>3 DEF Next, StepOf

\* A key marked FAILED stands for an operation that moved no money, whatever
\* crashes and statements that fail, unless its COMMIT was answered with an error.
THEOREM FailedKeysMovedNothing == Spec => []FailedMovedNothing
<1>1. Init => FailedInv
  BY DEF Init, FailedInv, Excused, Unspent, NoKeys
<1>2. CoreInv /\ FailedInv /\ [Next]_vars => FailedInv'
  BY FailedStep
<1>3. FailedInv => FailedMovedNothing
  BY DEF FailedInv, Excused, Unspent, FailedMovedNothing, Promise!Fresh
<1> QED BY <1>1, <1>2, <1>3, CoreInvHolds, PTL DEF Spec

-------------------------------------------------------------------------------
\* A set of numbers with a bound has a largest one.
LEMMA Largest ==
  ASSUME NEW T \in SUBSET Nat, T # {}, NEW n \in Nat, \A x \in T : x <= n
  PROVE  \E m \in T : \A x \in T : x <= m
<1> DEFINE R == OpToRel(<, Nat)
           D == {d \in Nat : \E x \in T : d = n - x}
<1>1. IsWellFoundedOn(R, Nat)
  BY NatLessThanWellFounded
<1>2. \A x, y \in Nat : <<x, y>> \in R <=> x < y
  BY DEF OpToRel
<1>3. D \subseteq Nat /\ D # {} /\ \A x \in T : n - x \in D
  <2>1. \A x \in T : x \in Nat /\ n - x \in Nat
    OBVIOUS
  <2>2. \A x \in T : n - x \in D
    BY <2>1
  <2> QED BY <2>2
<1> HIDE DEF R, D
<1>4. PICK d \in D : \A e \in D : ~(<<e, d>> \in R)
  BY <1>1, <1>3, WFMin
<1>5. \A e \in D : ~(e < d)
  <2> SUFFICES ASSUME NEW e \in D PROVE ~(e < d)
    OBVIOUS
  <2>1. e \in Nat /\ d \in Nat
    BY <1>3
  <2>2. (<<e, d>> \in R) <=> (e < d)
    BY <1>2, <2>1, Zenon
  <2> QED BY <1>4, <2>2, Zenon
<1>6. PICK m \in T : d = n - m
  BY DEF D
<1>7. ASSUME NEW x \in T PROVE x <= m
  <2>1. n - x \in D /\ n - x \in Nat /\ d \in Nat
    BY <1>3
  <2>2. ~(n - x < n - m)
    BY <1>5, <1>6, <2>1
  <2> QED BY <2>2
<1> QED BY <1>7

\* The wallets that are locked at one moment have a largest one: however many
\* goroutines there are, a step locks one wallet at most.
LocksBounded == \E n \in Nat : \A p \in Procs : \A w \in locks[p] : w <= n

\* Every step keeps it.
LEMMA BoundStep == TypeInv /\ LockInv /\ LocksBounded /\ [Next]_vars => LocksBounded'
<1> SUFFICES ASSUME TypeInv, LockInv, LocksBounded, [Next]_vars PROVE LocksBounded'
  OBVIOUS
<1>1. PICK n \in Nat : \A p \in Procs : \A w \in locks[p] : w <= n
  BY DEF LocksBounded
<1>2. CASE UNCHANGED locks
  BY <1>1, <1>2 DEF LocksBounded
<1>3. ASSUME NEW p \in Procs, StepOf(p) PROVE LocksBounded'
  <2>1. OnlyMoves(p) /\ ProcTypes
    BY <1>3, StepMoves DEF TypeInv, TypeOK, ProcTypes
  <2>2. CASE LockWallet(p)
    <3> DEFINE w == NextWallet(p)
               m == IF n <= w THEN w ELSE n
    <3>1. w \in Wallets /\ locks'[p] = locks[p] \union {w}
      BY <2>2, LockWalletStep
    <3>2. w \in Nat
      BY <3>1, WalletsAssumption
    <3> HIDE DEF w
    <3>3. m \in Nat /\ n <= m /\ w <= m
      BY <3>2
    <3> HIDE DEF m
    <3>4. ASSUME NEW q \in Procs, NEW v \in locks'[q] PROVE v <= m
      <4>1. v = w \/ v \in locks[q]
        BY <2>1, <3>1, <3>4 DEF OnlyMoves
      <4>2. CASE v \in locks[q]
        <5>1. v \in Nat /\ v <= n
          BY <1>1, <2>1, <4>2, WalletsAssumption DEF ProcTypes
        <5> QED BY <3>3, <5>1
      <4> QED BY <3>3, <4>1, <4>2
    <3> QED BY <3>3, <3>4 DEF LocksBounded
  <2>3. CASE ~LockWallet(p)
    <3>1. locks'[p] = {} \/ locks' = locks
      BY <1>3, <2>1, <2>3 DEF StepOf, Serve, Receive, FindReversal, StartFinalize, Claim,
         Lookup, UpdateStatus, CommitTopUp, CommitWithdraw, CommitTransfer, Committed,
         CommitReversal, CommitFinalize, Insufficient, MarkFailed, Complete, Respond,
         TxError, KeyUpdateError, Crash, Return, Unlock, ProcTypes
    <3>2. \A q \in Procs : locks'[q] \subseteq locks[q]
      BY <2>1, <3>1 DEF OnlyMoves
    <3> QED BY <1>1, <3>2 DEF LocksBounded
  <2> QED BY <2>2, <2>3
<1>4. ASSUME NEW w \in Wallets, CreateWallet(w) PROVE UNCHANGED locks
  BY <1>4 DEF CreateWallet
<1> QED BY <1>2, <1>3, <1>4 DEF Next, StepOf, vars

\* A goroutine that waits for a wallet while it holds another waits for the
\* larger of the two.
LEMMA SmallerHeld ==
  ASSUME TypeInv, LockInv, NEW p \in Procs, pc[p] = "lock", NEW w \in locks[p]
  PROVE  w \in Nat /\ NextWallet(p) \in Nat /\ w < NextWallet(p)
<1>1. locks[p] = {FirstWallet(p)} /\ FirstWallet(p) # SecondWallet(p)
  BY DEF LockInv, LocksFit
<1>2. req[p].from \in Nat /\ req[p].to \in Nat
  <2>1. req[p].from \in Wallets \union {0} /\ req[p].to \in Wallets \union {0}
    BY DEF TypeInv, TypeOK, Job
  <2>2. \A x : x \in Wallets => x \in Nat
    BY WalletsAssumption
  <2> QED BY <2>1, <2>2
<1>3. FirstWallet(p) \in Nat /\ SecondWallet(p) \in Nat /\ FirstWallet(p) < SecondWallet(p)
  BY <1>1, <1>2 DEF FirstWallet, SecondWallet
<1>4. w = FirstWallet(p) /\ NextWallet(p) = SecondWallet(p)
  BY <1>1 DEF NextWallet
<1> QED BY <1>3, <1>4

\* In a set of goroutines that wait for each other some wait for a wallet, and
\* who holds that wallet waits for a larger one.
LEMMA LargerAwaited ==
  ASSUME TypeInv, LockInv, NEW S \in SUBSET Procs,
         \A p \in S : \E q \in S : WaitsFor(p, q), NEW p \in S, pc[p] = "lock"
  PROVE  \E q \in S : /\ pc[q] = "lock" /\ NextWallet(p) \in locks[q]
                      /\ NextWallet(p) \in Nat /\ NextWallet(q) \in Nat
                      /\ NextWallet(p) < NextWallet(q)
<1>1. PICK q \in S : NextWallet(p) \in locks[q]
  BY DEF WaitsFor
<1>2. pc[q] \in {"lock", "update"}
  BY DEF WaitsFor
<1>3. pc[q] = "lock"
  BY <1>1, <1>2 DEF LockInv, LocksFit
<1> QED BY <1>1, <1>3, SmallerHeld

\* The database never has to break a circle of transactions that wait for each
\* other: whoever holds a wallet waits only for a larger one, who waits for a
\* withdrawal holds no wallet, and who holds a withdrawal waits for a wallet.
THEOREM NoWaitingInCircles == Spec => []NoDeadlock
<1>1. Init => LocksBounded
  <2> SUFFICES ASSUME Init PROVE \A p \in Procs : \A w \in locks[p] : w <= 0
    BY DEF LocksBounded
  <2> QED BY DEF Init
<1>2. CoreInv /\ LocksBounded /\ [Next]_vars => LocksBounded'
  BY BoundStep DEF CoreInv
<1>3. CoreInv /\ LocksBounded => NoDeadlock
  <2> SUFFICES ASSUME TypeInv, LockInv, LocksBounded, NEW S \in SUBSET Procs, S # {},
                      \A p \in S : \E q \in S : WaitsFor(p, q)
               PROVE  FALSE
    BY DEF CoreInv, NoDeadlock
  <2> DEFINE T == {w \in Nat : \E p \in S : pc[p] = "lock" /\ NextWallet(p) = w}
  <2>1. PICK n \in Nat : \A p \in Procs : \A w \in locks[p] : w <= n
    BY DEF LocksBounded
  <2>2. \E p \in S : pc[p] = "lock"
    <3>1. PICK p \in S, q \in S : WaitsFor(p, q)
      OBVIOUS
    <3>2. CASE pc[p] = "update" /\ HoldsRow(q, row[p])
      <4>1. pc[q] \in {"lock", "update"} /\ pc[q] \in {"lock", "write"}
        BY <3>2 DEF HoldsRow, WaitsFor
      <4> QED BY <4>1
    <3> QED BY <3>1, <3>2 DEF WaitsFor
  <2>3. ASSUME NEW w \in T PROVE \E v \in T : w < v
    BY <2>3, LargerAwaited
  <2>4. T # {} /\ \A w \in T : w <= n
    BY <2>1, <2>2, LargerAwaited
  <2>5. T \in SUBSET Nat
    OBVIOUS
  <2> HIDE DEF T
  <2>6. PICK m \in T : \A x \in T : x <= m
    BY <2>4, <2>5, Largest
  <2>7. PICK v \in T : m < v
    BY <2>3
  <2> QED BY <2>5, <2>6, <2>7
<1> QED BY <1>1, <1>2, <1>3, CoreInvHolds, PTL DEF Spec

-------------------------------------------------------------------------------
\* Ledger computes rows and balances as this module does.
LEMMA SameRows ==
  /\ Promise!Amounts = Amounts
  /\ \A x : Promise!Wrap(x) = Wrap(x)
  /\ \A type, w, a, b, k, o : Promise!Entry(type, w, a, b, k, o) = Entry(type, w, a, b, k, o)
  /\ \A rs, i, s : Promise!WithStatus(rs, i, s) = WithStatus(rs, i, s)
<1>1. Promise!Amounts = Amounts
  BY DEF Promise!Amounts, Amounts
<1>2. \A x : Promise!Wrap(x) = Wrap(x)
  BY DEF Promise!Wrap, Wrap
<1>3. \A type, b, a : Promise!After(type, b, a) = After(type, b, a)
  BY <1>2 DEF Promise!After, After, Promise!CreditTypes, CreditTypes
<1>4. \A type, w, a, b, k, o : Promise!Entry(type, w, a, b, k, o) = Entry(type, w, a, b, k, o)
  BY <1>3 DEF Promise!Entry, Entry
<1>5. \A rs, i, s : Promise!WithStatus(rs, i, s) = WithStatus(rs, i, s)
  BY DEF Promise!WithStatus, WithStatus
<1> QED BY <1>1, <1>2, <1>4, <1>5

\* A request's commit is the atomic operation of Ledger.
LEMMA CommitSimulates ==
  ASSUME CoreInv, NEW p \in Procs, CommitTopUp(p) \/ CommitWithdraw(p) \/ CommitTransfer(p)
  PROVE  Promise!Next
<1> DEFINE r == req[p]
<1>1. /\ r.op \in Ops /\ pc[p] = "write" /\ r.op # "FINALIZE" /\ wallets \subseteq Wallets
      /\ balance \in [Wallets -> Balances]
  BY DEF CommitTopUp, CommitWithdraw, CommitTransfer, Ops, CoreInv, TypeInv, TypeOK
<1>2. /\ r.from \in wallets /\ r.to \in wallets /\ r.from \in Wallets /\ r.to \in Wallets
      /\ r.amount \in Amounts /\ r.key \in Keys /\ (r.op = "TRANSFER" => r.from # r.to)
  BY <1>1 DEF CoreInv, TypeInv, ReqOK, CallOK
<1>3. seen[p][r.from] = balance[r.from] /\ seen[p][r.to] = balance[r.to]
  BY <1>1, CommitsLocked DEF CoreInv
<1>4. Promise!Fresh(r.key) /\ UNCHANGED wallets
  BY <1>1 DEF CoreInv, KeyInv, OwnerOK, Spending, Unspent, Promise!Fresh,
              CommitTopUp, CommitWithdraw, CommitTransfer, Committed
<1>n. /\ \A w \in Wallets, a \in Amounts, k \in Keys :
           Promise!TopUp(w, a, k) \/ Promise!Withdraw(w, a, k) => Promise!Next
      /\ \A from, to \in Wallets, a \in Amounts, k \in Keys :
           Promise!Transfer(from, to, a, k) => Promise!Next
  BY SameRows DEF Promise!Next
<1>5. CASE CommitTopUp(p)
  <2>1. After("TOPUP", balance[r.from], r.amount) = Wrap(balance[r.from] + r.amount)
    BY DEF After, CreditTypes
  <2>2. Promise!TopUp(r.from, r.amount, r.key)
    BY <1>1, <1>2, <1>3, <1>4, <1>5, <2>1, SameRows DEF CommitTopUp, Promise!TopUp, Promise!Deposit, Entry
  <2> QED BY <1>2, <1>n, <2>2
<1>6. CASE CommitWithdraw(p)
  <2>1. After("WITHDRAWAL", balance[r.from], r.amount) = balance[r.from] - r.amount
    BY DEF After, CreditTypes
  <2>2. Promise!Withdraw(r.from, r.amount, r.key)
    BY <1>1, <1>2, <1>3, <1>4, <1>6, <2>1, SameRows DEF CommitWithdraw, Promise!Withdraw, Promise!Debit, Entry
  <2> QED BY <1>2, <1>n, <2>2
<1>7. CASE CommitTransfer(p)
  <2> DEFINE out == Entry("TRANSFER_OUT", r.from, r.amount, balance[r.from], r.key, 0)
             in == Entry("TRANSFER_IN", r.to, r.amount, balance[r.to], r.key, 0)
  <2>1. out.after = balance[r.from] - r.amount /\ in.after = Wrap(balance[r.to] + r.amount)
    BY DEF Entry, After, CreditTypes
  <2>2. /\ r.op = "TRANSFER" /\ balance[r.from] >= r.amount
        /\ rows' = Append(Append(rows, out), in)
        /\ balance' = [balance EXCEPT ![r.from] = out.after, ![r.to] = in.after]
    BY <1>3, <1>7 DEF CommitTransfer
  <2>3. balance' = [balance EXCEPT ![r.from] = balance[r.from] - r.amount,
                                   ![r.to] = Wrap(balance[r.to] + r.amount)]
    BY <2>1, <2>2
  <2>4. rows' = Append(Append(rows,
                  Promise!Entry("TRANSFER_OUT", r.from, r.amount, balance[r.from], r.key, 0)),
                  Promise!Entry("TRANSFER_IN", r.to, r.amount, balance[r.to], r.key, 0))
    BY <2>2, SameRows
  <2>5. r.from # r.to
    BY <1>2, <2>2
  <2>6. [balance EXCEPT ![r.from] = balance[r.from] - r.amount][r.to] = balance[r.to]
    BY <1>1, <1>2, <2>5
  <2>7. balance' = [balance EXCEPT ![r.from] = @ - r.amount,
                                   ![r.to] = Promise!Wrap(@ + r.amount)]
    BY <2>3, <2>6, SameRows
  <2> HIDE DEF out, in
  <2>8. Promise!Transfer(r.from, r.to, r.amount, r.key)
    BY <1>2, <1>4, <2>2, <2>4, <2>5, <2>7 DEF Promise!Transfer, Promise!Move
  <2> QED BY <1>2, <1>n, <2>8
<1> QED BY <1>5, <1>6, <1>7

\* A settlement's commit is the atomic settlement of Ledger.
LEMMA SettleSimulates ==
  ASSUME CoreInv, NEW p \in Procs, CommitReversal(p) \/ CommitFinalize(p)
  PROVE  Promise!Next
<1>1. /\ row[p] \in DOMAIN rows /\ rows[row[p]].status = "PENDING"
      /\ balance \in [Wallets -> Balances]
  BY DEF CommitReversal, CommitFinalize, CoreInv, TypeInv, TypeOK, ReqOK, RowInv, Holds
<1>2. Promise!IsPending(row[p])
  BY <1>1 DEF Promise!IsPending
<1>3. CASE CommitReversal(p)
  <2> DEFINE w == req[p].from
             a == req[p].amount
  <2>1. w = rows[row[p]].wallet /\ a = rows[row[p]].amount
    BY <1>3 DEF CommitReversal, CoreInv, TypeInv, ReqOK
  <2>2. seen[p][w] = balance[w]
    BY <1>3, CommitsLocked DEF CommitReversal, CoreInv
  <2>3. After("WITHDRAWAL_REVERT", balance[w], a) = Wrap(balance[w] + a)
    BY DEF After, CreditTypes
  <2>4. Promise!ReverseWithdrawal(row[p])
    BY <1>1, <1>2, <1>3, <2>1, <2>2, <2>3, SameRows
       DEF CommitReversal, Promise!ReverseWithdrawal, Entry
  <2> QED BY <1>1, <2>4 DEF Promise!Next
<1>4. CASE CommitFinalize(p)
  <2>1. Promise!FinalizeWithdrawal(row[p])
    BY <1>2, <1>4, SameRows DEF CommitFinalize, Promise!FinalizeWithdrawal
  <2> QED BY <1>1, <2>1 DEF Promise!Next
<1> QED BY <1>3, <1>4

\* Every step of the interleaved requests is a step of Ledger or changes no table.
LEMMA StepSimulates == CoreInv /\ [Next]_vars => [Promise!Next]_Promise!vars
<1> SUFFICES ASSUME CoreInv, [Next]_vars PROVE [Promise!Next]_Promise!vars
  OBVIOUS
<1>1. CASE UNCHANGED vars
  BY <1>1 DEF vars, db, Promise!vars
<1>2. ASSUME NEW w \in Wallets, CreateWallet(w) PROVE Promise!Next
  BY <1>2 DEF CreateWallet, Promise!CreateWallet, Promise!Next
<1>3. ASSUME NEW p \in Procs, StepOf(p) PROVE [Promise!Next]_Promise!vars
  <2>1. CASE \/ CommitTopUp(p) \/ CommitWithdraw(p) \/ CommitTransfer(p)
             \/ CommitReversal(p) \/ CommitFinalize(p)
    BY <2>1, CommitSimulates, SettleSimulates
  <2>2. CASE ~ (\/ CommitTopUp(p) \/ CommitWithdraw(p) \/ CommitTransfer(p)
                \/ CommitReversal(p) \/ CommitFinalize(p))
    <3>1. UNCHANGED db
      BY <1>3, <2>2 DEF StepOf, Serve, Receive, FindReversal, StartFinalize, Claim, Lookup,
         LockWallet, UpdateStatus, Insufficient, MarkFailed, Complete, Respond, TxError,
         KeyUpdateError, Crash
    <3> QED BY <3>1 DEF db, Promise!vars
  <2> QED BY <2>1, <2>2
<1> QED BY <1>1, <1>2, <1>3 DEF Next, StepOf

\* The interleaved use cases implement the ledger of atomic operations.
THEOREM ImplementsLedger == Spec => RefinesLedger
<1>1. Init => Promise!Init
  BY DEF Init, NoSeen, Promise!Init
<1> QED BY <1>1, StepSimulates, CoreInvHolds, PTL DEF Spec, RefinesLedger, Promise!Spec

-------------------------------------------------------------------------------
\* Every step of Ledger is one that keeps the chain.
LEMMA PromiseStep ==
  ASSUME TypeOK, [Promise!Next]_Promise!vars
  PROVE  TableStep(rows, balance, rows', balance')
<1>0. rows \in Seq(Row) /\ balance \in [Wallets -> Balances]
  BY DEF TypeOK
<1>1. ASSUME NEW w \in Wallets, NEW a \in Amounts, NEW k \in Keys, Promise!TopUp(w, a, k)
      PROVE  OneEntry(rows, balance, rows', balance')
  <2>1. After("TOPUP", balance[w], a) = Wrap(balance[w] + a)
    BY DEF After, CreditTypes
  <2>2. /\ rows' = Append(rows, Entry("TOPUP", w, a, balance[w], k, 0))
        /\ balance' = [balance EXCEPT ![w] = After("TOPUP", balance[w], a)]
    BY <1>1, <2>1, SameRows DEF Promise!TopUp, Promise!Deposit
  <2> QED BY <2>2, EntryIsOne DEF CreditTypes, DebitTypes
<1>2. ASSUME NEW w \in Wallets, NEW a \in Amounts, NEW k \in Keys, Promise!Withdraw(w, a, k)
      PROVE  OneEntry(rows, balance, rows', balance')
  <2>1. After("WITHDRAWAL", balance[w], a) = balance[w] - a
    BY DEF After, CreditTypes
  <2>2. /\ rows' = Append(rows, Entry("WITHDRAWAL", w, a, balance[w], k, 0))
        /\ balance' = [balance EXCEPT ![w] = After("WITHDRAWAL", balance[w], a)]
        /\ balance[w] >= a
    BY <1>2, <2>1, SameRows DEF Promise!Withdraw, Promise!Debit
  <2> QED BY <2>2, EntryIsOne DEF CreditTypes, DebitTypes
<1>3. ASSUME NEW from \in Wallets, NEW to \in Wallets, NEW a \in Amounts, NEW k \in Keys,
             Promise!Transfer(from, to, a, k)
      PROVE  \E mid \in Seq(Row) : \E b :
               OneEntry(rows, balance, mid, b) /\ OneEntry(mid, b, rows', balance')
  <2> DEFINE out == Entry("TRANSFER_OUT", from, a, balance[from], k, 0)
             in == Entry("TRANSFER_IN", to, a, balance[to], k, 0)
             mid == Append(rows, out)
             b == [balance EXCEPT ![from] = balance[from] - a]
  <2>1. /\ After("TRANSFER_OUT", balance[from], a) = balance[from] - a
        /\ After("TRANSFER_IN", balance[to], a) = Wrap(balance[to] + a)
    BY DEF After, CreditTypes
  <2>2. from # to /\ balance[from] >= a /\ rows' = Append(mid, in)
    BY <1>3, SameRows DEF Promise!Transfer, Promise!Move
  <2>3. b[to] = balance[to]
    BY <1>0, <2>2
  <2>4. balance' = [b EXCEPT ![to] = After("TRANSFER_IN", balance[to], a)]
    BY <1>0, <1>3, <2>1, <2>3, SameRows DEF Promise!Transfer, Promise!Move
  <2>5. OneEntry(rows, balance, mid, b)
    BY <2>1, <2>2, EntryIsOne DEF CreditTypes, DebitTypes
  <2> HIDE DEF mid, b
  <2>6. OneEntry(mid, b, rows', balance')
    BY <2>2, <2>3, <2>4, EntryIsOne DEF CreditTypes, DebitTypes
  <2> QED BY <1>0, <2>5, <2>6, EntryKeeps
<1>4. ASSUME NEW i \in DOMAIN rows, Promise!ReverseWithdrawal(i)
      PROVE  \E mid \in Seq(Row) :
               OneSettled(rows, mid) /\ OneEntry(mid, balance, rows', balance')
  <2> DEFINE w == rows[i].wallet
             a == rows[i].amount
             mid == WithStatus(rows, i, "FAILED")
  <2>1. w \in Wallets /\ a \in Amounts /\ i \in Nat
    BY <1>0, RowAt
  <2>2. After("WITHDRAWAL_REVERT", balance[w], a) = Wrap(balance[w] + a)
    BY DEF After, CreditTypes
  <2>3. /\ rows' = Append(mid, Entry("WITHDRAWAL_REVERT", w, a, balance[w], NoKey, i))
        /\ balance' = [balance EXCEPT ![w] = After("WITHDRAWAL_REVERT", balance[w], a)]
    BY <1>4, <2>2, SameRows DEF Promise!ReverseWithdrawal
  <2>4. OneSettled(rows, mid)
    BY DEF OneSettled, Statuses
  <2> HIDE DEF mid, w, a
  <2>5. OneEntry(mid, balance, rows', balance')
    BY <2>1, <2>3, EntryIsOne DEF CreditTypes, DebitTypes
  <2> QED BY <1>0, <2>4, <2>5, SettledKeeps
<1>5. ASSUME NEW i \in DOMAIN rows, Promise!FinalizeWithdrawal(i)
      PROVE  OneSettled(rows, rows') /\ balance' = balance
  BY <1>5, SameRows DEF Promise!FinalizeWithdrawal, OneSettled, Statuses
<1>6. ASSUME \/ UNCHANGED Promise!vars
             \/ \E w \in Wallets : Promise!CreateWallet(w)
      PROVE  rows' = rows /\ balance' = balance
  BY <1>6 DEF Promise!vars, Promise!CreateWallet
<1> QED
  BY <1>1, <1>2, <1>3, <1>4, <1>5, <1>6, SameRows DEF Promise!Next, TableStep

\* No update is lost: in every interleaving the history explains the balances,
\* because the steps are those of Ledger.
THEOREM HistoryExplains == Spec => []HistoryExplainsBalances
<1>1. Init => Chained(rows, balance)
  BY DEF Init, NoSeen, Chained
<1>2. CoreInv /\ Chained(rows, balance) /\ [Next]_vars => Chained(rows, balance)'
  BY StepSimulates, PromiseStep, TableStepKeeps DEF CoreInv, TypeInv, TypeOK
<1>3. Chained(rows, balance) => HistoryExplainsBalances
  BY DEF Chained, Promise!Chained, Follows, Promise!Follows, IsFirst, Promise!IsFirst,
         IsLast, Promise!IsLast, HistoryExplainsBalances, Promise!LedgerChain
<1> QED BY <1>1, <1>2, <1>3, CoreInvHolds, PTL DEF Spec

\* A balance is negative only if a credit has wrapped around: no order of
\* debits, settlements, crashes and lost replies makes one.
THEOREM DebtIsOverflow == Spec => []OnlyOverflowOwes
<1>1. Init => Solvent(rows, balance)
  <2> SUFFICES ASSUME Init, NEW w \in Wallets PROVE balance[w] >= 0
    BY DEF Solvent
  <2>1. balance[w] = 0
    BY DEF Init, NoSeen
  <2> QED BY <2>1
<1>2. CoreInv /\ Solvent(rows, balance) /\ [Next]_vars => Solvent(rows, balance)'
  BY StepSimulates, PromiseStep, TableStepSolvent DEF CoreInv, TypeInv, TypeOK
<1>3. Solvent(rows, balance) => OnlyOverflowOwes
  BY DEF Solvent, BalanceNeverNegative, OnlyOverflowOwes
<1> QED BY <1>1, <1>2, <1>3, CoreInvHolds, PTL DEF Spec

===============================================================================
