------------------------------ MODULE Withdrawal ------------------------------
(***************************************************************************)
(* What a withdrawal promises, seen from the user's money and the bank's   *)
(* word: money is taken before the bank is asked to pay, it is gone for    *)
(* good only when the bank has paid, and it comes back only when the bank  *)
(* was never asked or does not pay.  PayoutFlow, with its requests,        *)
(* records, webhooks, retries and crashes, implements it.                  *)
(* Two things break that promise in the code and are steps of their own:   *)
(* an error of the bank, which is taken for its refusal although it may    *)
(* have accepted, and may still be asked again (AskAgain, GiveBackAnyway), *)
(* and a withdrawal under the key of a top-up (AskForTopUp).               *)
(***************************************************************************)
CONSTANT Withdrawals

VARIABLES
  money,  \* none, taken, paid (for good) or returned; added: that of a top-up
  bank,   \* none, asked, sent, refused, or reversed: sent and taken back
  erred   \* those of which the bank answered a request with an error

vars == <<money, bank, erred>>

Init ==
  /\ money = [i \in Withdrawals |-> "none"]
  /\ bank = [i \in Withdrawals |-> "none"]
  /\ erred = {}

MoneyMoves(i, from, to) ==
  money[i] = from /\ money' = [money EXCEPT ![i] = to] /\ UNCHANGED <<bank, erred>>

BankMoves(i, from, to) ==
  bank[i] = from /\ bank' = [bank EXCEPT ![i] = to] /\ UNCHANGED money

Take(i) == bank[i] = "none" /\ MoneyMoves(i, "none", "taken")

Add(i) == bank[i] = "none" /\ MoneyMoves(i, "none", "added")

\* The bank is asked.  Its answer may be an error all the same.
Ask(i) ==
  /\ BankMoves(i, "none", "asked")
  /\ UNCHANGED erred \/ erred' = erred \union {i}

AskFirst(i) == money[i] = "taken" /\ Ask(i)

AskAgain(i) == money[i] = "returned" /\ i \in erred /\ Ask(i)

AskForTopUp(i) == money[i] = "added" /\ Ask(i)

\* The bank answers with an error and does nothing.
Err(i) ==
  /\ money[i] # "none"
  /\ erred' = erred \union {i} /\ UNCHANGED <<money, bank>>

\* The bank pays or refuses, and may take back what it paid.
Decide(i) ==
  /\ \/ BankMoves(i, "asked", "sent")
     \/ BankMoves(i, "asked", "refused")
     \/ BankMoves(i, "sent", "reversed")
  /\ UNCHANGED erred

\* The bank's word may be a while old.
Settle(i) == bank[i] \in {"sent", "reversed"} /\ MoneyMoves(i, "taken", "paid")

GiveBack(i) ==
  bank[i] \in {"none", "refused", "reversed"} /\ MoneyMoves(i, "taken", "returned")

GiveBackAnyway(i) == i \in erred /\ MoneyMoves(i, "taken", "returned")

Next ==
  \E i \in Withdrawals :
    \/ Take(i) \/ Add(i) \/ AskFirst(i) \/ AskAgain(i) \/ AskForTopUp(i) \/ Err(i)
    \/ Decide(i) \/ Settle(i) \/ GiveBack(i) \/ GiveBackAnyway(i)

Spec == Init /\ [][Next]_vars

===============================================================================
