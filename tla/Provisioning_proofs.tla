-------------------------- MODULE Provisioning_proofs -------------------------
(***************************************************************************)
(* Whatever the emails, the number of requests and the faults between      *)
(* them, a user has one wallet at most and no answer is ever false.        *)
(***************************************************************************)
EXTENDS Provisioning, TLAPS, SequenceTheorems

\* The facts about one request that make the invariant inductive: until it is
\* answered, it works for an email or for a user that is in the table.
CallTrue(control, c, us) ==
  /\ control = "insert_user" => c.email \in Emails
  /\ control = "provision" => c.user \in DOMAIN us /\ us[c.user] = c.email
  /\ control \in {"find", "create"} => c.user \in DOMAIN us

\* AnswersAreTrue, for one answer and given tables.
ReplyTrue(r, us, ws) ==
  /\ r.status = 201 => r.id \in DOMAIN us /\ us[r.id] = r.call.email
  /\ r.status = 200 => r.id \in DOMAIN ws /\ ws[r.id] = r.call.user
  /\ r.status = 409 => r.call.email \in Range(us)
  /\ r.status = 422 => r.call.user \in Range(ws)

ProvInv ==
  /\ TypeOK
  /\ OneEach
  /\ \A p \in Procs : CallTrue(pc[p], call[p], users)
  /\ \A p \in Procs : ReplyTrue(reply[p], users, wallets)

\* Tables only grow: t holds the rows of s, at their places.
Grown(s, t) == DOMAIN s \subseteq DOMAIN t /\ \A i \in DOMAIN s : t[i] = s[i]

Unique(s) == \A i, j \in DOMAIN s : s[i] = s[j] => i = j

Controls == {"idle", "insert_user", "provision", "find", "create"}
Replies == [call : Calls, status : {0, 200, 201, 404, 409, 422, 500}, id : Nat]

\* What a step may do to the tables: nothing, a new email, or a first wallet.
TableStep ==
  \/ users' = users /\ wallets' = wallets
  \/ \E e \in Emails \ Range(users) : users' = Append(users, e) /\ wallets' = wallets
  \/ \E u \in DOMAIN users \ Range(wallets) :
       wallets' = Append(wallets, u) /\ users' = users

-------------------------------------------------------------------------------
\* Inserting a row keeps the others, and keeps a column unique that lacks it.
LEMMA InsertProps ==
  ASSUME NEW S, NEW s \in Seq(S), NEW e \in S
  PROVE  LET t == Append(s, e)
         IN  /\ t \in Seq(S) /\ Grown(s, t)
             /\ Len(s) + 1 \in DOMAIN t /\ t[Len(s) + 1] = e
             /\ Unique(s) /\ e \notin Range(s) => Unique(t)
<1> DEFINE t == Append(s, e)
<1>1. Len(s) \in Nat /\ DOMAIN s = 1 .. Len(s)
  BY LenProperties
<1>2. /\ t \in Seq(S) /\ Len(t) = Len(s) + 1
      /\ \A i \in 1 .. Len(s) : t[i] = s[i]
      /\ t[Len(s) + 1] = e
  BY AppendProperties
<1>3. DOMAIN t = 1 .. Len(s) + 1
  BY <1>2, LenProperties
<1> HIDE DEF t
<1>4. Grown(s, t)
  BY <1>1, <1>2, <1>3 DEF Grown
<1>5. ASSUME Unique(s), e \notin Range(s) PROVE Unique(t)
  <2>1. SUFFICES ASSUME NEW i \in DOMAIN t, NEW j \in DOMAIN t, t[i] = t[j] PROVE i = j
    BY DEF Unique
  <2>2. \A k \in DOMAIN s : s[k] # e
    BY <1>5 DEF Range
  <2> QED BY <1>1, <1>2, <1>3, <1>5, <2>1, <2>2 DEF Unique
<1> QED BY <1>1, <1>2, <1>3, <1>4, <1>5 DEF t

\* A sequence over a set is a sequence over a larger one.
LEMMA SeqWider ==
  ASSUME NEW S, NEW T, S \subseteq T, NEW s \in Seq(S)
  PROVE  s \in Seq(T)
<1>1. Len(s) \in Nat /\ \A i \in 1 .. Len(s) : s[i] \in S
  BY LenProperties, ElementOfSeq
<1>2. s = [i \in 1 .. Len(s) |-> s[i]]
  BY LenProperties
<1> QED BY <1>1, <1>2, IsASeq

\* Every such step keeps the tables' types and the UNIQUE columns.
LEMMA TablesGrow ==
  ASSUME TypeOK, OneEach, TableStep
  PROVE  /\ users' \in Seq(Emails) /\ wallets' \in Seq(DOMAIN users') /\ OneEach'
         /\ Grown(users, users') /\ Grown(wallets, wallets')
<1>1. users \in Seq(Emails) /\ wallets \in Seq(DOMAIN users)
  BY DEF TypeOK
<1>2. Unique(users) /\ Unique(wallets)
  BY DEF OneEach, Unique
<1>3. SUFFICES /\ users' \in Seq(Emails) /\ wallets' \in Seq(DOMAIN users')
               /\ Unique(users') /\ Unique(wallets')
               /\ Grown(users, users') /\ Grown(wallets, wallets')
  BY DEF OneEach, Unique
<1>4. CASE users' = users /\ wallets' = wallets
  BY <1>1, <1>2, <1>4 DEF Grown
<1>5. ASSUME NEW e \in Emails \ Range(users), users' = Append(users, e), wallets' = wallets
      PROVE  /\ users' \in Seq(Emails) /\ wallets' \in Seq(DOMAIN users')
             /\ Unique(users') /\ Unique(wallets')
             /\ Grown(users, users') /\ Grown(wallets, wallets')
  <2>1. users' \in Seq(Emails) /\ Unique(users') /\ Grown(users, users')
    BY <1>1, <1>2, <1>5, InsertProps
  <2>2. DOMAIN users \subseteq DOMAIN users'
    BY <2>1 DEF Grown
  <2>3. wallets' \in Seq(DOMAIN users')
    BY <1>1, <1>5, <2>2, SeqWider
  <2> QED BY <1>2, <1>5, <2>1, <2>3 DEF Grown
<1>6. ASSUME NEW u \in DOMAIN users \ Range(wallets),
             wallets' = Append(wallets, u), users' = users
      PROVE  /\ users' \in Seq(Emails) /\ wallets' \in Seq(DOMAIN users')
             /\ Unique(users') /\ Unique(wallets')
             /\ Grown(users, users') /\ Grown(wallets, wallets')
  <2>1. wallets' \in Seq(DOMAIN users) /\ Unique(wallets') /\ Grown(wallets, wallets')
    BY <1>1, <1>2, <1>6, InsertProps
  <2> QED BY <1>1, <1>2, <1>6, <2>1 DEF Grown
<1> QED BY <1>4, <1>5, <1>6 DEF TableStep

\* What was true of a request or of an answer stays true as the tables grow.
LEMMA StaysTrue ==
  ASSUME NEW us, NEW vs, NEW ws, NEW xs, Grown(us, vs), Grown(ws, xs)
  PROVE  /\ \A control, c : CallTrue(control, c, us) => CallTrue(control, c, vs)
         /\ \A r : ReplyTrue(r, us, ws) => ReplyTrue(r, vs, xs)
<1>1. Range(us) \subseteq Range(vs) /\ Range(ws) \subseteq Range(xs)
  BY DEF Grown, Range
<1>2. ASSUME NEW control, NEW c, CallTrue(control, c, us) PROVE CallTrue(control, c, vs)
  BY <1>2 DEF Grown, CallTrue
<1>3. ASSUME NEW r, ReplyTrue(r, us, ws) PROVE ReplyTrue(r, vs, xs)
  BY <1>1, <1>3 DEF Grown, ReplyTrue
<1> QED BY <1>2, <1>3

\* A step of one request keeps the invariant when what it leaves of its own
\* control, request and answer is true of the tables it leaves.
LEMMA OneRequest ==
  ASSUME ProvInv, TableStep, NEW p \in Procs,
         NEW control \in Controls, NEW c \in Calls, NEW r \in Replies,
         pc' = [pc EXCEPT ![p] = control], call' = [call EXCEPT ![p] = c],
         reply' = [reply EXCEPT ![p] = r], faults' \in 0 .. MaxFaults,
         CallTrue(control, c, users'), ReplyTrue(r, users', wallets')
  PROVE  ProvInv'
<1>1. /\ users' \in Seq(Emails) /\ wallets' \in Seq(DOMAIN users') /\ OneEach'
      /\ Grown(users, users') /\ Grown(wallets, wallets')
  BY TablesGrow DEF ProvInv
<1>2. pc \in [Procs -> Controls] /\ call \in [Procs -> Calls] /\ reply \in [Procs -> Replies]
  BY DEF ProvInv, TypeOK, Controls, Replies
<1>3. pc' \in [Procs -> Controls] /\ call' \in [Procs -> Calls] /\ reply' \in [Procs -> Replies]
  BY <1>2
<1>4. TypeOK'
  BY <1>1, <1>3 DEF TypeOK, Controls, Replies, Calls
<1>5. ASSUME NEW q \in Procs
      PROVE  CallTrue(pc'[q], call'[q], users') /\ ReplyTrue(reply'[q], users', wallets')
  <2>1. CASE q = p
    BY <1>2, <2>1
  <2>2. CASE q # p
    <3>1. pc'[q] = pc[q] /\ call'[q] = call[q] /\ reply'[q] = reply[q]
      BY <1>2, <2>2
    <3>2. CallTrue(pc[q], call[q], users) /\ ReplyTrue(reply[q], users, wallets)
      BY DEF ProvInv
    <3>3. CallTrue(pc[q], call[q], users') /\ ReplyTrue(reply[q], users', wallets')
      BY <1>1, <3>2, StaysTrue
    <3> QED BY <3>1, <3>3
  <2> QED BY <2>1, <2>2
<1> QED BY <1>1, <1>4, <1>5 DEF ProvInv

-------------------------------------------------------------------------------
\* The invariant holds before the first request.
LEMMA InitProv == Init => ProvInv
<1> SUFFICES ASSUME Init PROVE ProvInv
  OBVIOUS
<1>1. users = <<>> /\ wallets = <<>> /\ faults = 0
  BY DEF Init
<1>2. \A S : <<>> \in Seq(S)
  BY EmptySeq
<1>3. DOMAIN users = {} /\ DOMAIN wallets = {}
  BY <1>1
<1>4. NoCall \in Calls /\ NoReply \in Replies
  BY DEF NoCall, NoReply, Calls, Replies
<1>5. TypeOK
  BY <1>1, <1>2, <1>4, FaultsAssumption DEF Init, TypeOK, Replies
<1>6. \A p \in Procs : pc[p] = "idle" /\ reply[p].status = 0
  BY DEF Init, NoReply
<1> QED BY <1>3, <1>5, <1>6 DEF ProvInv, OneEach, CallTrue, ReplyTrue

\* Every step of every request keeps it.
LEMMA NextProv == ProvInv /\ [Next]_vars => ProvInv'
<1> SUFFICES ASSUME ProvInv, [Next]_vars PROVE ProvInv'
  OBVIOUS
<1>1. CASE UNCHANGED vars
  BY <1>1 DEF vars, ProvInv, TypeOK, OneEach
<1>2. ASSUME NEW p \in Procs, Handle(p) PROVE ProvInv'
  <2> DEFINE c == call[p]
  <2>1. /\ pc \in [Procs -> Controls] /\ call \in [Procs -> Calls]
        /\ reply \in [Procs -> Replies] /\ faults \in 0 .. MaxFaults
        /\ users \in Seq(Emails) /\ wallets \in Seq(DOMAIN users)
    BY DEF ProvInv, TypeOK, Controls, Replies
  <2>2. /\ c \in Calls /\ c.user \in Nat /\ NoCall \in Calls
        /\ reply[p] \in Replies /\ pc[p] \in Controls
    BY <2>1 DEF Calls, NoCall
  <2>3. /\ CallTrue(pc[p], c, users) /\ ReplyTrue(reply[p], users, wallets)
        /\ \A us : CallTrue("idle", NoCall, us)
    BY DEF ProvInv, CallTrue
  <2>4. Len(users) \in Nat /\ Len(wallets) \in Nat /\ DOMAIN wallets \subseteq Nat
    BY <2>1, LenProperties
  <2>5. reply = [reply EXCEPT ![p] = reply[p]]
    BY <2>1
  <2>6. ASSUME NEW status \in {0, 200, 201, 404, 409, 422, 500}, NEW id \in Nat,
               Answer(p, status, id), TableStep, faults' \in 0 .. MaxFaults,
               ReplyTrue([call |-> c, status |-> status, id |-> id], users', wallets')
        PROVE  ProvInv'
    <3> DEFINE r == [call |-> c, status |-> status, id |-> id]
    <3>1. r \in Replies /\ NoCall \in Calls /\ "idle" \in Controls
      BY <2>2 DEF Replies, Controls
    <3>2. /\ pc' = [pc EXCEPT ![p] = "idle"] /\ call' = [call EXCEPT ![p] = NoCall]
          /\ reply' = [reply EXCEPT ![p] = r]
      BY <2>6 DEF Answer
    <3>3. CallTrue("idle", NoCall, users') /\ ReplyTrue(r, users', wallets')
      BY <2>6 DEF CallTrue
    <3>4. TableStep /\ faults' \in 0 .. MaxFaults
      BY <2>6
    <3> HIDE DEF r
    <3> QED BY <3>1, <3>2, <3>3, <3>4, OneRequest
  <2>7. ASSUME NEW op \in {"REGISTER", "GET", "USE"}, NEW email \in Emails \union {NoEmail},
               NEW u \in Nat, NEW to \in Controls, Begin(p, op, email, u, to),
               CallTrue(to, [op |-> op, email |-> email, user |-> u], users)
        PROVE  ProvInv'
    <3>1. [op |-> op, email |-> email, user |-> u] \in Calls
      BY DEF Calls
    <3>2. users' = users /\ wallets' = wallets /\ faults' = faults /\ reply' = reply
      BY <2>7 DEF Begin
    <3>3. TableStep
      BY <3>2 DEF TableStep
    <3>4. /\ pc' = [pc EXCEPT ![p] = to]
          /\ call' = [call EXCEPT ![p] = [op |-> op, email |-> email, user |-> u]]
          /\ reply' = [reply EXCEPT ![p] = reply[p]]
      BY <2>5, <2>7, <3>2 DEF Begin
    <3>5. /\ CallTrue(to, [op |-> op, email |-> email, user |-> u], users')
          /\ ReplyTrue(reply[p], users', wallets') /\ faults' \in 0 .. MaxFaults
      BY <2>1, <2>3, <2>7, <3>2
    <3> QED BY <2>2, <3>1, <3>3, <3>4, <3>5, OneRequest
  <2>8. ASSUME NEW email \in Emails, Register(p, email) PROVE ProvInv'
    BY <2>7, <2>8 DEF Register, CallTrue, Controls
  <2>9. ASSUME NEW u \in DOMAIN users, GetWallet(p, u) \/ UseWallet(p, u) PROVE ProvInv'
    <3>1. u \in Nat
      BY <2>1, LenProperties
    <3> QED BY <2>7, <2>9, <3>1 DEF GetWallet, UseWallet, CallTrue, Controls
  <2>10. ASSUME pc[p] = "insert_user" PROVE c.email \in Emails
    BY <2>3, <2>10 DEF CallTrue
  <2>11. ASSUME pc[p] = "provision" PROVE c.user \in DOMAIN users /\ users[c.user] = c.email
    BY <2>3, <2>11 DEF CallTrue
  <2>12. ASSUME pc[p] = "create" PROVE c.user \in DOMAIN users
    BY <2>3, <2>12 DEF CallTrue
  <2>13. ASSUME UNCHANGED <<users, wallets>> PROVE TableStep
    BY <2>13 DEF TableStep
  <2>14. ASSUME c.user \in DOMAIN users, CanInsert(p), InsertWallet(p), users' = users
         PROVE  TableStep
    BY <2>14 DEF TableStep, CanInsert, InsertWallet, HasWallet
  <2>15. CASE InsertUser(p)
    <3>1. pc[p] = "insert_user" /\ wallets' = wallets /\ faults' = faults
      BY <2>15 DEF InsertUser
    <3>2. CASE c.email \in Range(users)
      <4>1. Answer(p, 409, 0) /\ users' = users
        BY <2>15, <3>2 DEF InsertUser
      <4> QED BY <2>1, <2>6, <2>13, <3>1, <3>2, <4>1 DEF ReplyTrue
    <3>3. CASE c.email \notin Range(users)
      <4> DEFINE d == [c EXCEPT !.user = Len(users) + 1]
      <4>1. /\ users' = Append(users, c.email) /\ reply' = reply
            /\ pc' = [pc EXCEPT ![p] = "provision"] /\ call' = [call EXCEPT ![p] = d]
        BY <2>1, <2>15, <3>3 DEF InsertUser
      <4>2. TableStep
        BY <2>10, <3>1, <3>3, <4>1 DEF TableStep
      <4>3. d \in Calls /\ d.user = Len(users) + 1 /\ d.email = c.email
        BY <2>2, <2>4 DEF Calls
      <4>4. Len(users) + 1 \in DOMAIN users' /\ users'[Len(users) + 1] = c.email
        BY <2>1, <2>10, <3>1, <4>1, InsertProps
      <4>5. CallTrue("provision", d, users')
        BY <4>3, <4>4 DEF CallTrue
      <4>6. ReplyTrue(reply[p], users', wallets')
        BY <2>3, <4>2, TablesGrow, StaysTrue DEF ProvInv
      <4> QED BY <2>1, <2>2, <2>5, <3>1, <4>1, <4>2, <4>3, <4>5, <4>6, OneRequest DEF Controls
    <3> QED BY <3>2, <3>3
  <2>16. ASSUME pc[p] = "provision", Answer(p, 201, c.user), users' = users,
                faults' \in 0 .. MaxFaults,
                UNCHANGED wallets \/ (CanInsert(p) /\ InsertWallet(p))
         PROVE  ProvInv'
    <3>1. TableStep
      BY <2>11, <2>13, <2>14, <2>16
    <3> QED BY <2>2, <2>6, <2>11, <2>16, <3>1 DEF ReplyTrue
  <2>17. CASE ProvisionWallet(p)
    BY <2>1, <2>16, <2>17 DEF ProvisionWallet
  <2>18. CASE ProvisionError(p)
    BY <2>1, <2>16, <2>18, FaultsAssumption DEF ProvisionError
  <2>19. CASE FindWallet(p)
    <3>1. pc[p] = "find" /\ users' = users /\ wallets' = wallets /\ faults' = faults
      BY <2>19 DEF FindWallet
    <3>2. TableStep
      BY <2>13, <3>1
    <3>3. ASSUME NEW w \in DOMAIN wallets, wallets[w] = c.user, Answer(p, 200, w)
          PROVE  ProvInv'
      BY <2>1, <2>4, <2>6, <3>1, <3>2, <3>3 DEF ReplyTrue
    <3>4. CASE Answer(p, 404, 0)
      BY <2>1, <2>6, <3>1, <3>2, <3>4 DEF ReplyTrue
    <3>5. CASE pc' = [pc EXCEPT ![p] = "create"] /\ UNCHANGED <<call, reply>>
      <4>1. call' = [call EXCEPT ![p] = c] /\ reply' = [reply EXCEPT ![p] = reply[p]]
        BY <2>1, <3>5
      <4>2. CallTrue("create", c, users')
        BY <2>3, <3>1 DEF CallTrue
      <4>3. ReplyTrue(reply[p], users', wallets')
        BY <2>3, <3>1
      <4> QED BY <2>1, <2>2, <3>1, <3>2, <3>5, <4>1, <4>2, <4>3, OneRequest DEF Controls
    <3> QED BY <2>19, <3>3, <3>4, <3>5 DEF FindWallet
  <2>20. CASE CreateWallet(p)
    <3>1. pc[p] = "create" /\ users' = users /\ faults' = faults
      BY <2>20 DEF CreateWallet
    <3>2. CASE CanInsert(p)
      <4>1. InsertWallet(p) /\ Answer(p, 200, Len(wallets) + 1)
        BY <2>20, <3>2 DEF CreateWallet
      <4>2. TableStep
        BY <2>12, <2>14, <3>1, <3>2, <4>1
      <4>3. Len(wallets) + 1 \in DOMAIN wallets' /\ wallets'[Len(wallets) + 1] = c.user
        BY <2>1, <2>12, <3>1, <4>1, InsertProps DEF InsertWallet
      <4> QED BY <2>1, <2>4, <2>6, <3>1, <4>1, <4>2, <4>3 DEF ReplyTrue
    <3>3. CASE ~ CanInsert(p)
      <4>1. wallets' = wallets /\ Answer(p, 422, 0)
        BY <2>20, <3>3 DEF CreateWallet
      <4>2. c.user \in Range(wallets')
        BY <3>3, <4>1 DEF CanInsert, HasWallet
      <4> QED BY <2>1, <2>6, <2>13, <3>1, <4>1, <4>2 DEF ReplyTrue
    <3> QED BY <3>2, <3>3
  <2>21. CASE DatabaseError(p)
    <3>1. Answer(p, 500, 0) /\ faults' \in 0 .. MaxFaults
      BY <2>1, <2>21, FaultsAssumption DEF DatabaseError
    <3>2. ASSUME UNCHANGED <<users, wallets>> PROVE TableStep
      BY <2>13, <3>2
    <3>3. ASSUME pc[p] = "insert_user", c.email \notin Range(users),
                 users' = Append(users, c.email), UNCHANGED wallets
          PROVE  TableStep
      BY <2>10, <3>3 DEF TableStep
    <3>4. ASSUME pc[p] = "create", CanInsert(p), InsertWallet(p), UNCHANGED users
          PROVE  TableStep
      BY <2>12, <2>14, <3>4
    <3>5. TableStep
      BY <2>21, <3>2, <3>3, <3>4 DEF DatabaseError
    <3> QED BY <2>6, <3>1, <3>5 DEF ReplyTrue
  <2>22. CASE Crash(p)
    <3>1. /\ users' = users /\ wallets' = wallets /\ reply' = reply
          /\ faults' \in 0 .. MaxFaults
          /\ pc' = [pc EXCEPT ![p] = "idle"] /\ call' = [call EXCEPT ![p] = NoCall]
      BY <2>1, <2>22, FaultsAssumption DEF Crash
    <3> QED BY <2>2, <2>3, <2>5, <2>13, <3>1, OneRequest DEF Controls
  <2> QED BY <1>2, <2>8, <2>9, <2>15, <2>17, <2>18, <2>19, <2>20, <2>21, <2>22 DEF Handle
<1> QED BY <1>1, <1>2 DEF Next

-------------------------------------------------------------------------------
\* The tables, the requests and the answers keep their types.
THEOREM ProvisioningTyped == Spec => []TypeOK
<1>1. ProvInv => TypeOK
  BY DEF ProvInv
<1> QED BY <1>1, InitProv, NextProv, PTL DEF Spec

\* An email has one user and a user one wallet, however the inserts race.
THEOREM OneEachHolds == Spec => []OneEach
<1>1. ProvInv => OneEach
  BY DEF ProvInv
<1> QED BY <1>1, InitProv, NextProv, PTL DEF Spec

\* Every answer about a user or a wallet is true, and stays true.
THEOREM AnswersHold == Spec => []AnswersAreTrue
<1>1. ProvInv => AnswersAreTrue
  BY DEF ProvInv, AnswersAreTrue, ReplyTrue, HasWallet
<1> QED BY <1>1, InitProv, NextProv, PTL DEF Spec

===============================================================================
