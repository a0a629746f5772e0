------------------------------- MODULE Sessions -------------------------------
(***************************************************************************)
(* Log-in, log-out and the JWT middleware.  A token is what its signature  *)
(* covers: the user and the second it expires; signing is deterministic,   *)
(* so two log-ins of one user within a second get the same token.  A       *)
(* session is the Redis key of the token.  Every request runs on a         *)
(* goroutine of its own, and time passes between any two of its steps.     *)
(* Credentials are those of the user: a log-in with others changes         *)
(* nothing.                                                                *)
(***************************************************************************)
EXTENDS Integers

CONSTANTS
  Users,
  Procs,          \* goroutines of the API
  TokenDuration,  \* seconds a token lasts (30 days in the code)
  MaxTime,        \* bound: seconds
  MaxFaults       \* bound: crashes and Redis errors

ASSUME TimesAssumption == /\ TokenDuration \in Nat \ {0}
                          /\ MaxTime \in Nat /\ MaxFaults \in Nat

VARIABLES
  now,       \* the current second
  sessions,  \* the second in which a token's Redis key expires, 0 if it has none
  pc, token, \* goroutines: control, the token of the request
  faults,
  \* history
  told,      \* what clients were told about a token, see Answers
  began,     \* when the request arrived
  late       \* it arrived after the log-out of its token, and nobody has
             \* logged in to that token since

proc == <<pc, token, began, late>>
vars == <<now, sessions, told, faults, proc>>

Tokens == [id : Users, exp : TokenDuration .. MaxTime + TokenDuration]

NoToken == [id |-> 0, exp |-> 0]

\* "one" log-in was answered with the token and "many" were, since the last
\* log-out; "out": it is logged out; "unsure": a Redis command failed.
Answers == {"none", "one", "many", "out", "unsure"}

Init ==
  /\ now = 0 /\ faults = 0
  /\ sessions = [t \in Tokens |-> 0]
  /\ told = [t \in Tokens |-> "none"]
  /\ pc = [p \in Procs |-> "idle"]
  /\ token = [p \in Procs |-> NoToken]
  /\ began = [p \in Procs |-> 0]
  /\ late = [p \in Procs |-> FALSE]

-------------------------------------------------------------------------------

Begin(p, t, to) ==
  /\ pc[p] = "idle"
  /\ pc' = [pc EXCEPT ![p] = to]
  /\ token' = [token EXCEPT ![p] = t]
  /\ began' = [began EXCEPT ![p] = now]
  /\ late' = [late EXCEPT ![p] = (told[t] = "out")]
  /\ UNCHANGED <<now, sessions, told, faults>>

Goto(p, to) == pc' = [pc EXCEPT ![p] = to] /\ UNCHANGED <<token, began, late>>

Leave(p) ==
  /\ pc' = [pc EXCEPT ![p] = "idle"]
  /\ token' = [token EXCEPT ![p] = NoToken]
  /\ began' = [began EXCEPT ![p] = 0]

\* The request is answered, or dies.
End(p) == Leave(p) /\ late' = [late EXCEPT ![p] = FALSE]

\* The same when a log-in has made its token valid again.
EndLogin(p) ==
  /\ Leave(p)
  /\ late' = [q \in Procs |-> late[q] /\ token[q] # token[p]]

\* Login up to Create: the expiry is in whole seconds.
Login(p, u) == Begin(p, [id |-> u, exp |-> now + TokenDuration], "save")

\* Variant: a time to live shorter than the token's.
SaveSessionShort(p) ==
  /\ pc[p] = "save"
  /\ LET t == token[p] IN
       /\ sessions' = [sessions EXCEPT ![t] = now + TokenDuration - 1]
       /\ told' = [told EXCEPT ![t] = IF @ \in {"one", "many"} THEN "many" ELSE "one"]
       /\ EndLogin(p)
  /\ UNCHANGED <<now, faults>>

\* Variant: a time to live longer than the token's.
SaveSessionLong(p) ==
  /\ pc[p] = "save"
  /\ LET t == token[p] IN
       /\ sessions' = [sessions EXCEPT ![t] = now + 2 * TokenDuration]
       /\ told' = [told EXCEPT ![t] = IF @ \in {"one", "many"} THEN "many" ELSE "one"]
       /\ EndLogin(p)
  /\ UNCHANGED <<now, faults>>

\* SET with a time to live, which counts from now; the client gets the token.
SaveSession(p) ==
  /\ pc[p] = "save"
  /\ LET t == token[p] IN
       /\ sessions' = [sessions EXCEPT ![t] = now + TokenDuration]
       /\ told' = [told EXCEPT ![t] = IF @ \in {"one", "many"} THEN "many" ELSE "one"]
       /\ EndLogin(p)
  /\ UNCHANGED <<now, faults>>

\* SET fails, or takes effect and its reply is lost: the log-in is refused.
SaveError(p) ==
  /\ faults < MaxFaults /\ faults' = faults + 1
  /\ pc[p] = "save"
  /\ LET t == token[p] IN
       \/ End(p) /\ UNCHANGED <<sessions, told>>
       \/ /\ sessions' = [sessions EXCEPT ![t] = now + TokenDuration]
          /\ told' = [told EXCEPT ![t] = IF @ = "out" THEN "unsure" ELSE @]
          /\ EndLogin(p)
  /\ UNCHANGED now

-------------------------------------------------------------------------------

\* A client sends a request, or a log-out, with a token it was given.
Request(p, t) == told[t] # "none" /\ Begin(p, t, "validate_request")
LogOut(p, t) == told[t] # "none" /\ Begin(p, t, "validate_logout")

Checked == [validate_request |-> "check_request", validate_logout |-> "check_logout"]
Served == [check_request |-> "serve", check_logout |-> "delete"]

\* Variant: the expiry is not looked at.
ValidateNothing(p) ==
  /\ pc[p] \in DOMAIN Checked
  /\ Goto(p, Checked[pc[p]])
  /\ UNCHANGED <<now, sessions, told, faults>>

Validate(p) ==
  /\ pc[p] \in DOMAIN Checked
  /\ IF now < token[p].exp THEN Goto(p, Checked[pc[p]]) ELSE End(p)
  /\ UNCHANGED <<now, sessions, told, faults>>

\* EXISTS: in the second in which the key expires it may or may not be there.
CheckSession(p) ==
  /\ pc[p] \in DOMAIN Served
  /\ \/ sessions[token[p]] >= now /\ sessions[token[p]] # 0 /\ Goto(p, Served[pc[p]])
     \/ sessions[token[p]] <= now /\ End(p)
  /\ UNCHANGED <<now, sessions, told, faults>>

\* The handler behind the middleware.
Serve(p) ==
  /\ pc[p] = "serve"
  /\ End(p)
  /\ UNCHANGED <<now, sessions, told, faults>>

\* Variant: the prefix of the key is forgotten.
DeleteNothing(p) ==
  /\ pc[p] = "delete"
  /\ told' = [told EXCEPT ![token[p]] = "out"]
  /\ End(p)
  /\ UNCHANGED <<now, sessions, faults>>

\* DEL; the client is told that it is logged out.
DeleteSession(p) ==
  /\ pc[p] = "delete"
  /\ sessions' = [sessions EXCEPT ![token[p]] = 0]
  /\ told' = [told EXCEPT ![token[p]] = "out"]
  /\ End(p)
  /\ UNCHANGED <<now, faults>>

\* DEL fails, or takes effect and its reply is lost.
DeleteError(p) ==
  /\ faults < MaxFaults /\ faults' = faults + 1
  /\ pc[p] = "delete"
  /\ \E s \in {0, sessions[token[p]]} : sessions' = [sessions EXCEPT ![token[p]] = s]
  /\ told' = [told EXCEPT ![token[p]] = IF @ = "out" THEN @ ELSE "unsure"]
  /\ End(p)
  /\ UNCHANGED now

\* EXISTS fails, or the request dies before it has done anything.
Crash(p) ==
  /\ faults < MaxFaults /\ faults' = faults + 1
  /\ pc[p] # "idle"
  /\ End(p)
  /\ UNCHANGED <<now, sessions, told>>

Tick ==
  /\ now < MaxTime /\ now' = now + 1
  /\ UNCHANGED <<sessions, told, faults, proc>>

Handle(p) ==
  \/ \E u \in Users : Login(p, u)
  \/ SaveSession(p) \/ SaveError(p)
  \/ \E t \in Tokens : Request(p, t) \/ LogOut(p, t)
  \/ Validate(p) \/ CheckSession(p) \/ Serve(p)
  \/ DeleteSession(p) \/ DeleteError(p) \/ Crash(p)

Next == Tick \/ \E p \in Procs : Handle(p)

Spec == Init /\ [][Next]_vars

-------------------------------------------------------------------------------

Stages == {"idle", "save", "validate_request", "validate_logout",
           "check_request", "check_logout", "serve", "delete"}

TypeOK ==
  /\ now \in 0 .. MaxTime /\ faults \in 0 .. MaxFaults
  /\ sessions \in [Tokens -> 0 .. MaxTime + TokenDuration]
  /\ told \in [Tokens -> Answers]
  /\ pc \in [Procs -> Stages]
  /\ token \in [Procs -> Tokens \union {NoToken}]
  /\ began \in [Procs -> 0 .. MaxTime]
  /\ late \in [Procs -> BOOLEAN]

\* Past the middleware.
Accepted(p) == pc[p] \in {"serve", "delete"}

\* A request that arrives after its token was logged out is refused, however
\* it interleaves with log-ins, other requests and other log-outs, unless a
\* log-in has issued the very same token again (JwtMiddleware and Logout).
LoggedOutIsRefused == \A p \in Procs : late[p] => ~ Accepted(p)

\* A request that arrives when its token has expired is refused, although the
\* session, which is saved after the token was signed, may outlive the token.
ExpiredIsRefused == \A p \in Procs : Accepted(p) => began[p] < token[p].exp

\* A client that was told it is logged in stays so until the token expires or
\* somebody logs out with it: the session never goes first (Login takes the
\* expiry of the token before the time to live of the session starts).
LoginLasts ==
  \A t \in Tokens : told[t] \in {"one", "many"} /\ now < t.exp => sessions[t] > now

\* A log-out "revokes the current session": it ends one log-in, not that of
\* another client.
LogOutEndsOneLogin ==
  [][\A t \in Tokens : told[t] = "many" => told'[t] # "out"]_vars

===============================================================================
