----------------------------- MODULE Provisioning -----------------------------
(***************************************************************************)
(* How a user gets a wallet: Register inserts the user and then, as best   *)
(* it can, the wallet; GetWalletByUserID, behind GET /wallets/me and the   *)
(* history, inserts one when it finds none; the operations that need a     *)
(* wallet (TopUp, Withdraw, Transfer) only look for it.  Each statement is *)
(* a step of its own.  Ids are positions in the tables.                    *)
(***************************************************************************)
EXTENDS Integers, Sequences, Functions

CONSTANTS
  Emails,
  Procs,     \* goroutines of the API
  MaxFaults  \* bound: crashes and database errors

ASSUME FaultsAssumption == MaxFaults \in Nat

VARIABLES
  users,     \* table "users": the email of each user
  wallets,   \* table "wallets": the user of each wallet
  pc, call,  \* goroutines: control and request
  reply,     \* the last answer each of them gave
  faults

vars == <<users, wallets, pc, call, reply, faults>>

NoEmail == "none"
NoCall == [op |-> "NONE", email |-> NoEmail, user |-> 0]

\* An answer: its HTTP status, and the id it names.
NoReply == [call |-> NoCall, status |-> 0, id |-> 0]

Init ==
  /\ users = <<>> /\ wallets = <<>> /\ faults = 0
  /\ pc = [p \in Procs |-> "idle"]
  /\ call = [p \in Procs |-> NoCall]
  /\ reply = [p \in Procs |-> NoReply]

HasWallet(u) == u \in Range(wallets)

-------------------------------------------------------------------------------

Begin(p, op, email, u, to) ==
  /\ pc[p] = "idle"
  /\ pc' = [pc EXCEPT ![p] = to]
  /\ call' = [call EXCEPT ![p] = [op |-> op, email |-> email, user |-> u]]
  /\ UNCHANGED <<users, wallets, reply, faults>>

Answer(p, status, id) ==
  /\ pc' = [pc EXCEPT ![p] = "idle"]
  /\ reply' = [reply EXCEPT ![p] = [call |-> call[p], status |-> status, id |-> id]]
  /\ call' = [call EXCEPT ![p] = NoCall]

\* Variant: the wallet is provisioned before the user is inserted.
RegisterWalletFirst(p, email) == Begin(p, "REGISTER", email, 0, "provision")

Register(p, email) == Begin(p, "REGISTER", email, 0, "insert_user")

\* A user can log in, and send requests, from the moment the row exists.
GetWallet(p, u) == u \in DOMAIN users /\ Begin(p, "GET", NoEmail, u, "find")
UseWallet(p, u) == u \in DOMAIN users /\ Begin(p, "USE", NoEmail, u, "find")

-------------------------------------------------------------------------------

\* Variant: users.email is not UNIQUE.
InsertAnyUser(p) ==
  /\ pc[p] = "insert_user"
  /\ users' = Append(users, call[p].email)
  /\ pc' = [pc EXCEPT ![p] = "provision"]
  /\ call' = [call EXCEPT ![p].user = Len(users) + 1]
  /\ UNCHANGED <<wallets, reply, faults>>

\* Register: INSERT INTO users; users.email is UNIQUE.
InsertUser(p) ==
  /\ pc[p] = "insert_user"
  /\ IF call[p].email \in Range(users)
     THEN Answer(p, 409, 0) /\ UNCHANGED users
     ELSE /\ users' = Append(users, call[p].email)
          /\ pc' = [pc EXCEPT ![p] = "provision"]
          /\ call' = [call EXCEPT ![p].user = Len(users) + 1]
          /\ UNCHANGED reply
  /\ UNCHANGED <<wallets, faults>>

\* Variant: wallets.user_id is not UNIQUE.
AnyUser(p) == TRUE

\* INSERT INTO wallets succeeds: wallets.user_id is UNIQUE.
CanInsert(p) == ~ HasWallet(call[p].user)

InsertWallet(p) == wallets' = Append(wallets, call[p].user)

\* Register: CreateWallet; whatever it returns, the answer is 201.
ProvisionWallet(p) ==
  /\ pc[p] = "provision"
  /\ IF CanInsert(p) THEN InsertWallet(p) ELSE UNCHANGED wallets
  /\ Answer(p, 201, call[p].user)
  /\ UNCHANGED <<users, faults>>

ProvisionError(p) ==
  /\ faults < MaxFaults /\ faults' = faults + 1
  /\ pc[p] = "provision"
  /\ UNCHANGED wallets \/ (CanInsert(p) /\ InsertWallet(p))
  /\ Answer(p, 201, call[p].user)
  /\ UNCHANGED users

\* FindByUserID: only GetWalletByUserID goes on when there is no wallet.
FindWallet(p) ==
  /\ pc[p] = "find"
  /\ IF HasWallet(call[p].user)
     THEN \E w \in DOMAIN wallets : wallets[w] = call[p].user /\ Answer(p, 200, w)
     ELSE IF call[p].op = "GET"
     THEN pc' = [pc EXCEPT ![p] = "create"] /\ UNCHANGED <<call, reply>>
     ELSE Answer(p, 404, 0)
  /\ UNCHANGED <<users, wallets, faults>>

\* Variant: the id that is answered is the one the next wallet would have.
CreateAfter(p) ==
  /\ pc[p] = "create"
  /\ IF CanInsert(p) THEN InsertWallet(p) ELSE UNCHANGED wallets
  /\ Answer(p, 200, Len(wallets) + 1)
  /\ UNCHANGED <<users, faults>>

\* GetWalletByUserID: somebody else may have created the wallet meanwhile.
CreateWallet(p) ==
  /\ pc[p] = "create"
  /\ IF CanInsert(p)
     THEN InsertWallet(p) /\ Answer(p, 200, Len(wallets) + 1)
     ELSE UNCHANGED wallets /\ Answer(p, 422, 0)
  /\ UNCHANGED <<users, faults>>

\* A statement fails, or an INSERT takes effect and its reply is lost.
DatabaseError(p) ==
  /\ faults < MaxFaults /\ faults' = faults + 1
  /\ pc[p] \in {"insert_user", "find", "create"}
  /\ \/ UNCHANGED <<users, wallets>>
     \/ /\ pc[p] = "insert_user" /\ call[p].email \notin Range(users)
        /\ users' = Append(users, call[p].email) /\ UNCHANGED wallets
     \/ /\ pc[p] = "create" /\ CanInsert(p)
        /\ InsertWallet(p) /\ UNCHANGED users
  /\ Answer(p, 500, 0)

\* The process dies, and nobody is answered.
Crash(p) ==
  /\ faults < MaxFaults /\ faults' = faults + 1
  /\ pc[p] # "idle"
  /\ pc' = [pc EXCEPT ![p] = "idle"] /\ call' = [call EXCEPT ![p] = NoCall]
  /\ UNCHANGED <<users, wallets, reply>>

Handle(p) ==
  \/ \E email \in Emails : Register(p, email)
  \/ \E u \in DOMAIN users : GetWallet(p, u) \/ UseWallet(p, u)
  \/ InsertUser(p) \/ ProvisionWallet(p) \/ ProvisionError(p)
  \/ FindWallet(p) \/ CreateWallet(p) \/ DatabaseError(p) \/ Crash(p)

Next == \E p \in Procs : Handle(p)

Spec == Init /\ [][Next]_vars

-------------------------------------------------------------------------------

Calls == [op : {"NONE", "REGISTER", "GET", "USE"}, email : Emails \union {NoEmail},
          user : Nat]

TypeOK ==
  /\ users \in Seq(Emails) /\ wallets \in Seq(DOMAIN users) /\ faults \in 0 .. MaxFaults
  /\ pc \in [Procs -> {"idle", "insert_user", "provision", "find", "create"}]
  /\ call \in [Procs -> Calls]
  /\ reply \in [Procs -> [call : Calls, status : {0, 200, 201, 404, 409, 422, 500},
                          id : Nat]]

\* An email belongs to one user and a user has at most one wallet, although
\* Register and any number of first accesses try to insert it.
OneEach ==
  /\ \A u, v \in DOMAIN users : users[u] = users[v] => u = v
  /\ \A w, x \in DOMAIN wallets : wallets[w] = wallets[x] => w = x

\* An answer was true when it was given and stays so: 201 names the user that
\* has the email, 200 the wallet of the user who asked, 409 is given for an
\* email that is taken and 422 to a user who has a wallet.
AnswersAreTrue ==
  \A p \in Procs : LET r == reply[p] IN
    /\ r.status = 201 => r.id \in DOMAIN users /\ users[r.id] = r.call.email
    /\ r.status = 200 => r.id \in DOMAIN wallets /\ wallets[r.id] = r.call.user
    /\ r.status = 409 => r.call.email \in Range(users)
    /\ r.status = 422 => HasWallet(r.call.user)

\* GET /wallets/me "returns the balance and metadata of the authenticated
\* user's wallet": 500 is the only failure its documentation knows for a user
\* who is logged in.
FirstAccessReturnsWallet ==
  \A p \in Procs : reply[p].call.op = "GET" => reply[p].status \in {200, 500}

\* Register's promise when provisioning fails, "will self-heal on first wallet
\* access": a registered user who has accessed the wallet, and met no database
\* error, has one.
AccessHeals ==
  \A p, q \in Procs : LET r == reply[p] IN
    /\ reply[q].status = 201 /\ reply[q].id = r.call.user
    /\ r.call.op \in {"GET", "USE"} /\ r.status # 500
    => HasWallet(r.call.user)

===============================================================================
