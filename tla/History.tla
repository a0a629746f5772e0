-------------------------------- MODULE History -------------------------------
(***************************************************************************)
(* GET /transactions while the wallet is written to: a client scans the    *)
(* pages of one wallet's history, each page being a request that counts    *)
(* the matching rows and then, in a query of its own, reads the page.      *)
(* Wallet operations are the atomic steps of Ledger, whose Init, Next and  *)
(* vars these are. Scans only read, so one stands for any number of them.  *)
(* Time has DayLength moments a day, of which the last two are the second  *)
(* 23:59:59: its beginning, and the rest of it.                            *)
(***************************************************************************)
EXTENDS Ledger, FiniteSets

CONSTANTS
  DefaultLimit,  \* rows of a page when the request names none (10)
  DayLength,
  Requests,      \* what clients send: type, start_date, end_date, limit
  MaxTime        \* bound: moments

ASSUME HistoryAssumption == /\ DefaultLimit \in Nat \ {0} /\ MaxTime \in Nat
                            /\ DayLength \in Nat /\ DayLength >= 2

VARIABLES
  created,  \* transactions.created_at, by row
  now,      \* the current moment
  pc,       \* the scan: control,
  req,      \* its wallet and request
  page,     \* the page asked for, 0 if none is named
  total,    \* the last answer: rows counted,
  got,      \* and the ids on the page
  \* history
  seen,     \* ids on all pages of the scan
  wanted    \* ids that matched when the scan began

answer == <<total, got>>
historyVars == <<vars, created, now, pc, req, page, answer, seen, wanted>>

AnyType == "ANY"  \* no filter on the type
NoDate == -1
Dates == {NoDate} \union Nat

\* A request names a type or none, days or none, a limit or none (0).
ASSUME RequestsAssumption ==
  Requests \subseteq [type : CreditTypes \union DebitTypes \union {AnyType},
                     start : Dates, end : Dates, limit : Nat]

NoRequest == [wallet |-> 0, type |-> AnyType, start |-> NoDate, end |-> NoDate, limit |-> 0]

HistoryInit ==
  /\ Init
  /\ created = <<>> /\ now = 0
  /\ pc = "idle" /\ req = NoRequest /\ page = 0
  /\ total = 0 /\ got = {} /\ seen = {} /\ wanted = {}

-------------------------------------------------------------------------------
\* Writers

Day(t) == t \div DayLength

\* Rows are stamped as they are inserted, under the lock of their wallet: rows
\* of one wallet are stamped in the order of their ids.
Write ==
  /\ Next
  /\ created' = [i \in DOMAIN rows' |-> IF i \in DOMAIN rows THEN created[i] ELSE now]
  /\ UNCHANGED <<now, pc, req, page, answer, seen, wanted>>

Tick ==
  /\ now < MaxTime /\ now' = now + 1
  /\ UNCHANGED <<vars, created, pc, req, page, answer, seen, wanted>>

-------------------------------------------------------------------------------
\* FindByWalletID and the arithmetic of GetTransactionHistory

\* Variant: the rows of every wallet.
MatchingAny(r) ==
  {i \in DOMAIN rows :
     /\ r.type \in {AnyType, rows[i].type}
     /\ r.start # NoDate => created[i] >= r.start * DayLength
     /\ r.end # NoDate => created[i] <= r.end * DayLength + DayLength - 2}

\* From 00:00:00 of the start date to 23:59:59 of the end date.
Matching(r) ==
  {i \in DOMAIN rows :
     /\ rows[i].wallet = r.wallet
     /\ r.type \in {AnyType, rows[i].type}
     /\ r.start # NoDate => created[i] >= r.start * DayLength
     /\ r.end # NoDate => created[i] <= r.end * DayLength + DayLength - 2}

Limit(r) == IF r.limit = 0 THEN DefaultLimit ELSE r.limit

\* Variant: pages count from zero.
OffsetFromZero(r) == page * Limit(r)

Offset(r) == (IF page = 0 THEN 0 ELSE page - 1) * Limit(r)

\* ORDER BY created_at DESC OFFSET offset LIMIT limit
Newer(i, S) == Cardinality({j \in S : j > i})
Page(r) ==
  LET S == Matching(r) IN
    {i \in S : Offset(r) <= Newer(i, S) /\ Newer(i, S) < Offset(r) + Limit(r)}

\* Variant: a last page that is not full is not counted.
FullPages == total \div Limit(req)

TotalPages == (total + Limit(req) - 1) \div Limit(req)

-------------------------------------------------------------------------------
\* One scan

\* The request's validation (ltefield=EndDate compares the lengths of the two
\* strings): a start date needs an end date, and the default that
\* GetTransactionHistory has for one is never reached.
Valid(r) == r.start # NoDate => r.end # NoDate

\* The first page; a request that is not valid is refused.  (For a user who has
\* no wallet GetWalletByUserID creates one: see Provisioning.)
Open(w, r) ==
  /\ pc = "idle" /\ w \in wallets
  /\ req' = [wallet |-> w, type |-> r.type, start |-> r.start, end |-> r.end,
             limit |-> r.limit]
  /\ pc' = IF Valid(r) THEN "count" ELSE "refused"
  /\ wanted' = Matching(req')
  /\ page' = 0 /\ total' = 0 /\ got' = {} /\ seen' = {}
  /\ UNCHANGED <<vars, created, now>>

Count ==
  /\ pc = "count"
  /\ total' = Cardinality(Matching(req))
  /\ pc' = "fetch"
  /\ UNCHANGED <<vars, created, now, req, page, got, seen, wanted>>

Fetch ==
  /\ pc = "fetch"
  /\ got' = Page(req) /\ seen' = seen \union Page(req)
  /\ pc' = "answered"
  /\ UNCHANGED <<vars, created, now, req, page, total, wanted>>

Current == IF page = 0 THEN 1 ELSE page
LastPage == Current >= TotalPages

\* The client asks for the next page as long as the last answer promises one.
NextPage ==
  /\ pc = "answered" /\ ~ LastPage
  /\ page' = Current + 1
  /\ pc' = "count"
  /\ UNCHANGED <<vars, created, now, req, answer, seen, wanted>>

Close ==
  /\ pc = "refused" \/ (pc = "answered" /\ LastPage)
  /\ pc' = "idle" /\ req' = NoRequest /\ page' = 0
  /\ total' = 0 /\ got' = {} /\ seen' = {} /\ wanted' = {}
  /\ UNCHANGED <<vars, created, now>>

Scan ==
  \/ \E w \in Wallets, r \in Requests : Open(w, r)
  \/ Count \/ Fetch \/ NextPage \/ Close

HistoryNext == Write \/ Tick \/ Scan

HistorySpec == HistoryInit /\ [][HistoryNext]_historyVars

-------------------------------------------------------------------------------

HistoryTypeOK ==
  /\ TypeOK
  /\ now \in 0 .. MaxTime
  /\ DOMAIN created = DOMAIN rows /\ \A i \in DOMAIN rows : created[i] \in 0 .. now
  /\ pc \in {"idle", "refused", "count", "fetch", "answered"}
  /\ req \in [wallet : Wallets \union {0}, type : CreditTypes \union DebitTypes \union {AnyType},
              start : Dates, end : Dates, limit : Nat]
  /\ page \in Nat /\ total \in Nat
  /\ got \subseteq seen /\ seen \union wanted \subseteq DOMAIN rows

\* A page is as full as the total it is sent with says: it has the limit of
\* rows, or reaches the last row that was counted.  The count comes first, so
\* rows written between the two queries can only make the page fuller.
PageAgreesWithTotal ==
  pc = "answered" =>
    \/ Cardinality(got) = Limit(req)
    \/ Cardinality(got) < Limit(req) /\ (Current - 1) * Limit(req) + Cardinality(got) >= total

\* A client that reads page after page, as long as total_pages promises one,
\* has seen every row that matched when it began, although new rows push the
\* old ones to later pages all the time; unless rows were written between the
\* two queries of the last page, which then knows of too few pages.
ScanIsComplete ==
  pc = "answered" /\ LastPage /\ total = Cardinality(Matching(req))
    => wanted \subseteq seen

\* Without a filter on the type a page explains itself: each row starts at the
\* balance the one below it ended with.
PageIsChain ==
  req.type = AnyType =>
    \A i, j \in got :
      i < j /\ (\A m \in got : m <= i \/ j <= m) => rows[j].before = rows[i].after

\* A history limited by dates has the rows of those days.
DaysAreWhole ==
  pc \in {"count", "fetch"} =>
    \A i \in DOMAIN rows :
      /\ rows[i].wallet = req.wallet /\ req.type \in {AnyType, rows[i].type}
      /\ req.start # NoDate => Day(created[i]) >= req.start
      /\ req.end # NoDate => Day(created[i]) <= req.end
      => i \in Matching(req)

\* A start date is enough: the end date "defaults to today if start_date is
\* set".
StartDateIsEnough ==
  pc = "refused" => req.end # NoDate

===============================================================================
