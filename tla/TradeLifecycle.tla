--------------------------- MODULE TradeLifecycle ---------------------------
(***************************************************************************)
(* What the trade book promises about one calendar spread, whatever the    *)
(* engine's ticks, the Telegram commands and the exchange do.              *)
(*                                                                         *)
(* A trade is opened once.  While it is open the bot may fail to close or  *)
(* to roll it; only after RetryCap failures with nothing in between that   *)
(* forgives them may it be declared stuck.  A stuck trade is out of the    *)
(* bot's hands: it becomes open again, with no failure held against it, or *)
(* closed, and that only by the operator's command or because the exchange *)
(* no longer holds it.  A closed trade stays closed.                       *)
(*                                                                         *)
(* DecisionEngine and Strategy implement this module.                      *)
(***************************************************************************)
EXTENDS Naturals

CONSTANTS
  Trade,      \* the identities of calendar trades
  RetryCap    \* failed attempts before a trade may be declared stuck

VARIABLES
  status,     \* where each trade is in its life
  failed      \* failed attempts held against each trade, up to RetryCap

lvars == <<status, failed>>

LifecycleInit ==
  /\ status = [t \in Trade |-> "absent"]
  /\ failed = [t \in Trade |-> 0]

Move(t, from, to) ==
  /\ status[t] = from
  /\ status' = [status EXCEPT ![t] = to]

Open(t) == Move(t, "absent", "open") /\ UNCHANGED failed

(* An attempt to close or to roll the trade fails. *)
FailAttempt(t) ==
  /\ status[t] = "open"
  /\ failed[t] < RetryCap
  /\ failed' = [failed EXCEPT ![t] = @ + 1]
  /\ UNCHANGED status

(* A successful roll forgives the failures before it. *)
Forgive(t) ==
  /\ status[t] = "open"
  /\ failed' = [failed EXCEPT ![t] = 0]
  /\ UNCHANGED status

DeclareStuck(t) ==
  /\ failed[t] = RetryCap
  /\ Move(t, "open", "stuck")
  /\ UNCHANGED failed

(* The operator hands a stuck trade back to the bot. *)
HandBack(t) ==
  /\ Move(t, "stuck", "open")
  /\ failed' = [failed EXCEPT ![t] = 0]

(* A closed trade has nothing held against it. *)
CloseOut(t) ==
  /\ Move(t, "open", "closed")
  /\ failed' = [failed EXCEPT ![t] = 0]

(* Stuck trades that the operator has settled outside the bot. *)
Settle(S) ==
  /\ \A t \in S : status[t] = "stuck"
  /\ status' = [t \in Trade |-> IF t \in S THEN "closed" ELSE status[t]]
  /\ failed' = [t \in Trade |-> IF t \in S THEN 0 ELSE failed[t]]

LifecycleNext ==
  \/ \E t \in Trade :
       \/ Open(t)
       \/ FailAttempt(t)
       \/ Forgive(t)
       \/ DeclareStuck(t)
       \/ HandBack(t)
       \/ CloseOut(t)
  \/ \E S \in SUBSET Trade : Settle(S)

LifecycleSpec == LifecycleInit /\ [][LifecycleNext]_lvars

=============================================================================
