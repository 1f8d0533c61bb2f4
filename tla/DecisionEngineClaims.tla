------------------------ MODULE DecisionEngineClaims ------------------------
(* What a docstring and a comment say of the decision engine and the code    *)
(* does not always do: TLC finds a behaviour against both.                   *)
EXTENDS MCDecisionEngine

VARIABLES
  gap,     \* trades a tick found no data for, since their signals are counted
  broken   \* which of the two sentences a step has gone against

(* The steps between two ticks, a tick without data among them, that leave   *)
(* the count of signals standing.                                            *)
GapInCount == {t \in Trade : pending'[t] > 0 /\ (t \in gap \/ NoMarketData(t))}

(* The loss limit is reached on a day that has not lost as much.             *)
LimitOfSeveralDays == ~ LimitBreached /\ LimitBreached' /\ day_pnl' > -LossLimit

(* A close on signals of ticks that did not follow one another.              *)
ClosedAcrossGap == \E t \in gap : SignalClose(t)

ClaimInit == Init /\ gap = {} /\ broken = {}

ClaimNext ==
  /\ Next
  /\ gap' = GapInCount
  /\ broken' = broken \cup (IF LimitOfSeveralDays THEN {"limit"} ELSE {})
                     \cup (IF ClosedAcrossGap THEN {"ticks"} ELSE {})

ClaimSpec == ClaimInit /\ [][ClaimNext]_<<vars, gap, broken>>

(* Of two sentences one holds: "Halt the bot if today's realised losses      *)
(* exceed the configured limit" (decision.py:1426) and "A stop/TP condition  *)
(* must be observed on this many consecutive monitor ticks before the        *)
(* position is actually closed" (config.py:76).  The behaviour against it is *)
(* against each of them: the losses of several days add up, the counter not  *)
(* being reset at midnight, and a tick without data between two signals      *)
(* leaves their counter as it was.                                           *)
DayOrTicksAsWritten == broken # {"limit", "ticks"}

=============================================================================
