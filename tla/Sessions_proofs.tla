--------------------------- MODULE Sessions_proofs ----------------------------
(***************************************************************************)
(* Proofs about sessions, for any number of users and goroutines and any   *)
(* times.                                                                  *)
(***************************************************************************)
EXTENDS Sessions, TLAPS

\* Past Validate.
Validated == {"check_request", "check_logout", "serve", "delete"}

\* What is true of a request at each of its stages.
ProcOK(p) ==
  /\ pc[p] = "idle" => ~ late[p]
  /\ pc[p] # "idle" => token[p] \in Tokens
  /\ late[p] => told[token[p]] = "out" /\ ~ Accepted(p)
  /\ began[p] <= now
  /\ pc[p] = "save" => token[p].exp <= now + TokenDuration
  /\ pc[p] \in Validated => began[p] < token[p].exp

\* What clients were told about a token agrees with its session.
TokenOK(t) ==
  /\ told[t] = "out" => sessions[t] = 0
  /\ told[t] \in {"one", "many"} => t.exp <= sessions[t]

\* The inductive invariant.
SessionInv ==
  /\ TypeOK
  /\ \A p \in Procs : ProcOK(p)
  /\ \A t \in Tokens : TokenOK(t)

USE TimesAssumption

\* The stages that Validate and CheckSession lead to.
LEMMA StageFacts ==
  /\ DOMAIN Checked = {"validate_request", "validate_logout"}
  /\ Checked["validate_request"] = "check_request"
  /\ Checked["validate_logout"] = "check_logout"
  /\ DOMAIN Served = {"check_request", "check_logout"}
  /\ Served["check_request"] = "serve"
  /\ Served["check_logout"] = "delete"
BY DEF Checked, Served

\* A step by p changes p alone, except that a log-in clears "late" of the
\* requests with its token.
OnlyMoves(p) ==
  \A q \in Procs : q # p =>
    /\ pc'[q] = pc[q] /\ token'[q] = token[q] /\ began'[q] = began[q]
    /\ late'[q] => late[q]

\* What a token was told stays, unless p, which holds it, is the one to change
\* it; a token that is no longer "out" has no late request.
OthersToken(p) ==
  \A q \in Procs : q # p /\ late'[q] => told'[token[q]] = "out"

\* The requests a step does not move stay correct.
LEMMA OthersKeep ==
  ASSUME SessionInv, NEW p \in Procs, OnlyMoves(p), OthersToken(p), now' = now, ProcOK(p)'
  PROVE  \A q \in Procs : ProcOK(q)'
<1> SUFFICES ASSUME NEW q \in Procs, q # p PROVE ProcOK(q)'
  OBVIOUS
<1>1. ProcOK(q)
  BY DEF SessionInv
<1>2. /\ pc'[q] = pc[q] /\ token'[q] = token[q] /\ began'[q] = began[q]
      /\ late'[q] => late[q]
  BY DEF OnlyMoves
<1>3. late'[q] => told'[token[q]] = "out"
  BY DEF OthersToken
<1> QED BY <1>1, <1>2, <1>3 DEF ProcOK, Accepted

-------------------------------------------------------------------------------

\* A goroutine that goes back to idle is correct.
LEMMA LeaveKeeps ==
  ASSUME TypeOK, NEW p \in Procs, Leave(p), late' \in [Procs -> BOOLEAN],
         late'[p] = FALSE, now' = now
  PROVE  /\ pc' \in [Procs -> Stages] /\ token' \in [Procs -> Tokens \union {NoToken}]
         /\ began' \in [Procs -> 0 .. MaxTime]
         /\ ProcOK(p)'
         /\ \A q \in Procs : q # p =>
              pc'[q] = pc[q] /\ token'[q] = token[q] /\ began'[q] = began[q]
BY DEF TypeOK, Leave, ProcOK, Stages, Accepted, Validated

\* A new request keeps the invariant.
LEMMA BeginKeeps ==
  ASSUME SessionInv, NEW p \in Procs, NEW t \in Tokens, NEW to \in Stages, Begin(p, t, to),
         \/ to = "save" /\ t.exp <= now + TokenDuration
         \/ to \in {"validate_request", "validate_logout"}
  PROVE  SessionInv'
<1>t. TypeOK
  BY DEF SessionInv
<1>1. TypeOK'
  <2>1. (told[t] = "out") \in BOOLEAN
    OBVIOUS
  <2> QED BY <1>t, <2>1 DEF TypeOK, Begin
<1>2. ProcOK(p)'
  <2>1. /\ pc'[p] = to /\ token'[p] = t /\ began'[p] = now
        /\ late'[p] <=> (told[t] = "out")
        /\ told' = told /\ now' = now
    BY <1>t DEF TypeOK, Begin
  <2>2. now \in Nat /\ to \notin {"idle", "serve", "delete"} /\ to \notin Validated
    BY <1>t DEF TypeOK, Validated
  <2> QED BY <2>1, <2>2 DEF ProcOK, Accepted
<1>3. OnlyMoves(p) /\ now' = now
  BY <1>t DEF TypeOK, Begin, OnlyMoves
<1>4. OthersToken(p)
  BY <1>t DEF SessionInv, TypeOK, Begin, OthersToken, ProcOK
<1>5. \A q \in Procs : ProcOK(q)'
  BY <1>2, <1>3, <1>4, OthersKeep
<1>6. \A u \in Tokens : TokenOK(u)'
  BY DEF SessionInv, Begin, TokenOK
<1> QED BY <1>1, <1>5, <1>6 DEF SessionInv

\* A request that moves to its next stage keeps the invariant.
LEMMA GotoKeeps ==
  ASSUME SessionInv, NEW p \in Procs, NEW to \in Stages, Goto(p, to),
         UNCHANGED <<now, sessions, told, faults>>, pc[p] # "idle",
         to \notin {"idle", "save"},
         to \in {"serve", "delete"} => ~ late[p],
         to \in Validated => began[p] < token[p].exp
  PROVE  SessionInv'
<1>t. TypeOK /\ ProcOK(p)
  BY DEF SessionInv
<1>1. TypeOK'
  BY <1>t DEF TypeOK, Goto
<1>2. ProcOK(p)'
  BY <1>t DEF TypeOK, Goto, ProcOK, Accepted
<1>3. OnlyMoves(p) /\ OthersToken(p)
  BY <1>t DEF SessionInv, TypeOK, Goto, OnlyMoves, OthersToken, ProcOK
<1>4. \A q \in Procs : ProcOK(q)'
  BY <1>2, <1>3, OthersKeep
<1>5. \A u \in Tokens : TokenOK(u)'
  BY DEF SessionInv, TokenOK
<1> QED BY <1>1, <1>4, <1>5 DEF SessionInv

\* A request that ends keeps the invariant, if what it does to its token's
\* session agrees with what the client is told.
LEMMA EndKeeps ==
  ASSUME SessionInv, NEW p \in Procs, pc[p] # "idle", End(p), now' = now,
         faults' \in 0 .. MaxFaults,
         NEW s \in 0 .. MaxTime + TokenDuration, NEW a \in Answers,
         sessions' = [sessions EXCEPT ![token[p]] = s],
         told' = [told EXCEPT ![token[p]] = a],
         told[token[p]] = "out" => a = "out",
         a = "out" => s = 0,
         a \in {"one", "many"} => token[p].exp <= s
  PROVE  SessionInv'
<1>t. TypeOK /\ token[p] \in Tokens
  BY DEF SessionInv, ProcOK
<1>1. late' \in [Procs -> BOOLEAN] /\ late'[p] = FALSE
      /\ \A q \in Procs : q # p => late'[q] = late[q]
  BY <1>t DEF TypeOK, End
<1>2. /\ pc' \in [Procs -> Stages] /\ token' \in [Procs -> Tokens \union {NoToken}]
      /\ began' \in [Procs -> 0 .. MaxTime]
      /\ ProcOK(p)'
      /\ \A q \in Procs : q # p =>
           pc'[q] = pc[q] /\ token'[q] = token[q] /\ began'[q] = began[q]
  BY <1>t, <1>1, LeaveKeeps DEF End
<1>3. TypeOK'
  BY <1>t, <1>1, <1>2 DEF TypeOK
<1>4. OnlyMoves(p)
  BY <1>1, <1>2 DEF OnlyMoves
<1>5. OthersToken(p)
  <2> SUFFICES ASSUME NEW q \in Procs, q # p, late'[q] PROVE told'[token[q]] = "out"
    BY DEF OthersToken
  <2>1. told[token[q]] = "out" /\ token[q] \in Tokens
    BY <1>1 DEF SessionInv, ProcOK
  <2> QED BY <1>t, <2>1 DEF TypeOK
<1>6. \A q \in Procs : ProcOK(q)'
  BY <1>2, <1>4, <1>5, OthersKeep
<1>7. ASSUME NEW u \in Tokens PROVE TokenOK(u)'
  <2>1. CASE u = token[p]
    BY <1>t, <2>1 DEF TypeOK, TokenOK
  <2>2. CASE u # token[p]
    BY <1>t, <2>2 DEF TypeOK, TokenOK, SessionInv
  <2> QED BY <2>1, <2>2
<1> QED BY <1>3, <1>6, <1>7 DEF SessionInv

\* A log-in that reached Redis keeps the invariant.
LEMMA SaveKeeps ==
  ASSUME SessionInv, NEW p \in Procs, pc[p] = "save", EndLogin(p), now' = now,
         faults' \in 0 .. MaxFaults,
         NEW a \in Answers \ {"out"},
         sessions' = [sessions EXCEPT ![token[p]] = now + TokenDuration],
         told' = [told EXCEPT ![token[p]] = a]
  PROVE  SessionInv'
<1>t. TypeOK /\ token[p] \in Tokens /\ token[p].exp <= now + TokenDuration
  BY DEF SessionInv, ProcOK
<1>1. late' \in [Procs -> BOOLEAN] /\ late'[p] = FALSE
      /\ \A q \in Procs : late'[q] => late[q] /\ token[q] # token[p]
  <2>1. late' = [q \in Procs |-> late[q] /\ token[q] # token[p]]
    BY DEF EndLogin
  <2> QED BY <2>1
<1>2. /\ pc' \in [Procs -> Stages] /\ token' \in [Procs -> Tokens \union {NoToken}]
      /\ began' \in [Procs -> 0 .. MaxTime]
      /\ ProcOK(p)'
      /\ \A q \in Procs : q # p =>
           pc'[q] = pc[q] /\ token'[q] = token[q] /\ began'[q] = began[q]
  BY <1>t, <1>1, LeaveKeeps DEF EndLogin
<1>3. TypeOK'
  <2>1. now + TokenDuration \in 0 .. MaxTime + TokenDuration
    BY <1>t DEF TypeOK
  <2> QED BY <1>t, <1>1, <1>2, <2>1 DEF TypeOK
<1>4. OnlyMoves(p)
  BY <1>1, <1>2 DEF OnlyMoves
<1>5. OthersToken(p)
  <2> SUFFICES ASSUME NEW q \in Procs, q # p, late'[q] PROVE told'[token[q]] = "out"
    BY DEF OthersToken
  <2>1. told[token[q]] = "out" /\ token[q] \in Tokens /\ token[q] # token[p]
    BY <1>1 DEF SessionInv, ProcOK
  <2> QED BY <1>t, <2>1 DEF TypeOK
<1>6. \A q \in Procs : ProcOK(q)'
  BY <1>2, <1>4, <1>5, OthersKeep
<1>7. ASSUME NEW u \in Tokens PROVE TokenOK(u)'
  <2>1. CASE u = token[p]
    BY <1>t, <2>1 DEF TypeOK, TokenOK
  <2>2. CASE u # token[p]
    BY <1>t, <2>2 DEF TypeOK, TokenOK, SessionInv
  <2> QED BY <2>1, <2>2
<1> QED BY <1>3, <1>6, <1>7 DEF SessionInv

-------------------------------------------------------------------------------

\* Every step keeps the invariant.
LEMMA StepKeeps ==
  ASSUME SessionInv, [Next]_vars
  PROVE  SessionInv'
<1>t. TypeOK
  BY DEF SessionInv
<1>f. faults \in 0 .. MaxFaults /\ (faults < MaxFaults => faults + 1 \in 0 .. MaxFaults)
  BY <1>t DEF TypeOK
<1>a. \A p \in Procs : pc[p] # "idle" =>
        /\ token[p] \in Tokens
        /\ sessions[token[p]] \in 0 .. MaxTime + TokenDuration
        /\ told[token[p]] \in Answers
        /\ TokenOK(token[p])
        /\ sessions = [sessions EXCEPT ![token[p]] = sessions[token[p]]]
        /\ told = [told EXCEPT ![token[p]] = told[token[p]]]
  BY DEF SessionInv, ProcOK, TypeOK
<1>e. ASSUME NEW p \in Procs, pc[p] # "idle", End(p), faults' \in 0 .. MaxFaults,
             UNCHANGED <<now, sessions, told>>
      PROVE  SessionInv'
  <2> DEFINE s == sessions[token[p]]
             a == told[token[p]]
  <2>1. /\ s \in 0 .. MaxTime + TokenDuration /\ a \in Answers
        /\ sessions' = [sessions EXCEPT ![token[p]] = s]
        /\ told' = [told EXCEPT ![token[p]] = a]
    BY <1>a, <1>e
  <2>2. /\ a = "out" => s = 0
        /\ a \in {"one", "many"} => token[p].exp <= s
    BY <1>a, <1>e DEF TokenOK
  <2>3. told[token[p]] = "out" => a = "out"
    OBVIOUS
  <2> HIDE DEF s, a
  <2> QED BY <1>e, <2>1, <2>2, <2>3, EndKeeps
<1>1. ASSUME NEW p \in Procs, NEW u \in Users, Login(p, u) PROVE SessionInv'
  <2>1. /\ [id |-> u, exp |-> now + TokenDuration] \in Tokens
        /\ now + TokenDuration <= now + TokenDuration /\ "save" \in Stages
    BY <1>t DEF TypeOK, Tokens, Stages
  <2> QED BY <1>1, <2>1, BeginKeeps DEF Login
<1>2. ASSUME NEW p \in Procs, SaveSession(p) PROVE SessionInv'
  <2> DEFINE a == IF told[token[p]] \in {"one", "many"} THEN "many" ELSE "one"
  <2>1. a \in Answers \ {"out"}
    BY DEF Answers
  <2>2. /\ sessions' = [sessions EXCEPT ![token[p]] = now + TokenDuration]
        /\ told' = [told EXCEPT ![token[p]] = a]
        /\ pc[p] = "save" /\ EndLogin(p) /\ now' = now /\ faults' \in 0 .. MaxFaults
    BY <1>2, <1>f, <1>a DEF SaveSession
  <2> HIDE DEF a
  <2> QED BY <2>1, <2>2, SaveKeeps
<1>3. ASSUME NEW p \in Procs, SaveError(p) PROVE SessionInv'
  <2>1. CASE End(p) /\ UNCHANGED <<sessions, told>>
    BY <1>3, <1>e, <1>f, <2>1 DEF SaveError
  <2>2. CASE /\ sessions' = [sessions EXCEPT ![token[p]] = now + TokenDuration]
             /\ told' = [told EXCEPT ![token[p]] = IF @ = "out" THEN "unsure" ELSE @]
             /\ EndLogin(p)
    <3> DEFINE a == IF told[token[p]] = "out" THEN "unsure" ELSE told[token[p]]
    <3>1. pc[p] = "save" /\ now' = now /\ faults' \in 0 .. MaxFaults
      BY <1>3, <1>f DEF SaveError
    <3>2. a \in Answers \ {"out"}
      BY <1>a, <3>1 DEF Answers
    <3>3. told' = [told EXCEPT ![token[p]] = a]
      BY <2>2
    <3> HIDE DEF a
    <3> QED BY <2>2, <3>1, <3>2, <3>3, SaveKeeps
  <2> QED BY <1>3, <2>1, <2>2 DEF SaveError
<1>4. ASSUME NEW p \in Procs, NEW t \in Tokens, Request(p, t) \/ LogOut(p, t)
      PROVE  SessionInv'
  <2>1. {"validate_request", "validate_logout"} \subseteq Stages
    BY DEF Stages
  <2> QED BY <1>4, <2>1, BeginKeeps DEF Request, LogOut
<1>5. ASSUME NEW p \in Procs, Validate(p) PROVE SessionInv'
  <2>1. /\ pc[p] \in {"validate_request", "validate_logout"}
        /\ UNCHANGED <<now, sessions, told, faults>>
    BY <1>5, StageFacts DEF Validate
  <2>2. CASE now < token[p].exp /\ Goto(p, Checked[pc[p]])
    <3>1. /\ Checked[pc[p]] \in {"check_request", "check_logout"}
          /\ {"check_request", "check_logout"} \subseteq Stages
      BY <2>1, StageFacts DEF Stages
    <3>2. began[p] <= now /\ began[p] \in Int /\ now \in Int /\ token[p].exp \in Int
      BY <1>a, <2>1 DEF SessionInv, ProcOK, TypeOK, Tokens
    <3>3. began[p] < token[p].exp
      BY <2>2, <3>2
    <3> QED BY <2>1, <2>2, <3>1, <3>3, GotoKeeps
  <2>3. CASE End(p)
    BY <1>e, <1>f, <2>1, <2>3
  <2> QED BY <1>5, <2>2, <2>3 DEF Validate
<1>6. ASSUME NEW p \in Procs, CheckSession(p) PROVE SessionInv'
  <2>1. /\ pc[p] \in {"check_request", "check_logout"}
        /\ UNCHANGED <<now, sessions, told, faults>>
    BY <1>6, StageFacts DEF CheckSession
  <2>2. CASE sessions[token[p]] # 0 /\ Goto(p, Served[pc[p]])
    <3>1. /\ Served[pc[p]] \in {"serve", "delete"}
          /\ {"serve", "delete"} \subseteq Stages
      BY <2>1, StageFacts DEF Stages
    <3>2. ~ late[p]
      BY <1>a, <2>1, <2>2 DEF SessionInv, ProcOK, TokenOK
    <3>3. began[p] < token[p].exp
      BY <2>1 DEF SessionInv, ProcOK, Validated
    <3> QED BY <2>1, <2>2, <3>1, <3>2, <3>3, GotoKeeps
  <2>3. CASE End(p)
    BY <1>e, <1>f, <2>1, <2>3
  <2> QED BY <1>6, <2>2, <2>3 DEF CheckSession
<1>7. ASSUME NEW p \in Procs, Serve(p) PROVE SessionInv'
  BY <1>7, <1>e, <1>f DEF Serve
<1>8. ASSUME NEW p \in Procs, DeleteSession(p) PROVE SessionInv'
  <2>1. "out" \in Answers /\ 0 \in 0 .. MaxTime + TokenDuration
    BY DEF Answers
  <2>2. /\ pc[p] # "idle" /\ End(p) /\ now' = now /\ faults' \in 0 .. MaxFaults
        /\ sessions' = [sessions EXCEPT ![token[p]] = 0]
        /\ told' = [told EXCEPT ![token[p]] = "out"]
    BY <1>8, <1>f DEF DeleteSession
  <2> QED BY <2>1, <2>2, EndKeeps
<1>9. ASSUME NEW p \in Procs, DeleteError(p) PROVE SessionInv'
  <2> DEFINE a == IF told[token[p]] = "out" THEN "out" ELSE "unsure"
  <2>1. /\ pc[p] # "idle" /\ End(p) /\ now' = now /\ faults' \in 0 .. MaxFaults
        /\ told' = [told EXCEPT ![token[p]] = a]
    BY <1>9, <1>f DEF DeleteError
  <2>2. PICK s \in {0, sessions[token[p]]} : sessions' = [sessions EXCEPT ![token[p]] = s]
    BY <1>9 DEF DeleteError
  <2>3. /\ a \in Answers /\ (told[token[p]] = "out" => a = "out")
        /\ s \in 0 .. MaxTime + TokenDuration
        /\ a = "out" => s = 0
        /\ a \notin {"one", "many"}
    BY <1>a, <2>1, <2>2 DEF Answers, TokenOK
  <2> HIDE DEF a
  <2> QED BY <2>1, <2>2, <2>3, EndKeeps
<1>10. ASSUME NEW p \in Procs, Crash(p) PROVE SessionInv'
  BY <1>10, <1>e, <1>f DEF Crash
<1>11. CASE Tick
  <2>1. TypeOK'
    BY <1>t, <1>11 DEF Tick, TypeOK, proc
  <2>2. now \in Int /\ now' = now + 1 /\ UNCHANGED <<sessions, told, pc, token, began, late>>
    BY <1>t, <1>11 DEF Tick, TypeOK, proc
  <2>3. ASSUME NEW p \in Procs PROVE ProcOK(p)'
    <3>1. ProcOK(p) /\ began[p] \in Int
      BY <1>t DEF SessionInv, TypeOK
    <3>2. pc[p] = "save" => token[p].exp \in Int
      BY <3>1 DEF ProcOK, Tokens
    <3> QED BY <2>2, <3>1, <3>2 DEF ProcOK, Accepted
  <2>4. \A t \in Tokens : TokenOK(t)'
    BY <2>2 DEF SessionInv, TokenOK
  <2> QED BY <2>1, <2>3, <2>4 DEF SessionInv
<1>12. CASE UNCHANGED vars
  BY <1>12 DEF vars, proc, SessionInv, TypeOK, ProcOK, TokenOK, Accepted
<1> QED
  BY <1>1, <1>2, <1>3, <1>4, <1>5, <1>6, <1>7, <1>8, <1>9, <1>10, <1>11, <1>12
  DEF Next, Handle

\* The invariant holds of every behaviour.
LEMMA SessionInvariant == Spec => []SessionInv
<1>1. Init => SessionInv
  BY DEF Init, SessionInv, TypeOK, ProcOK, TokenOK, Accepted, Stages, Answers, Validated
<1> QED BY <1>1, StepKeeps, PTL DEF Spec

-------------------------------------------------------------------------------

\* Sessions and requests keep their types, and no session outlives the longest
\* time a token can last.
THEOREM SessionsTyped == Spec => []TypeOK
<1>1. SessionInv => TypeOK
  BY DEF SessionInv
<1> QED BY <1>1, SessionInvariant, PTL

\* A request sent after the log-out of its token is never let through by the
\* middleware, unless a log-in has issued that token again.
THEOREM LogOutHolds == Spec => []LoggedOutIsRefused
<1>1. SessionInv => LoggedOutIsRefused
  BY DEF SessionInv, ProcOK, LoggedOutIsRefused
<1> QED BY <1>1, SessionInvariant, PTL

\* A request sent when its token has expired is never let through.
THEOREM ExpiryHolds == Spec => []ExpiredIsRefused
<1>1. SessionInv => ExpiredIsRefused
  BY DEF SessionInv, ProcOK, ExpiredIsRefused, Accepted, Validated
<1> QED BY <1>1, SessionInvariant, PTL

\* A session never goes before the token a client was given for it.
THEOREM LoginHolds == Spec => []LoginLasts
<1>1. ASSUME SessionInv, NEW t \in Tokens, told[t] \in {"one", "many"}, now < t.exp
      PROVE  sessions[t] > now
  <2>1. t.exp \in Int /\ sessions[t] \in Int /\ now \in Int
    <3>1. t.exp \in Int
      BY DEF Tokens
    <3>2. sessions[t] \in Int /\ now \in Int
      BY <1>1 DEF SessionInv, TypeOK
    <3> QED BY <3>1, <3>2
  <2> QED BY <1>1, <2>1 DEF SessionInv, TokenOK
<1>2. SessionInv => LoginLasts
  BY <1>1 DEF LoginLasts
<1> QED BY <1>2, SessionInvariant, PTL

===============================================================================
