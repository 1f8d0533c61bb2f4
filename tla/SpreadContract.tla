--------------------------- MODULE SpreadContract ---------------------------
(***************************************************************************)
(* What the decision engine relies on when it asks the executor for a      *)
(* trade (ExecutorProtocol in strategy/decision.py): the call trades the   *)
(* whole spread or nothing, says which, and nothing moves afterwards.      *)
(***************************************************************************)
VARIABLES
    position,  \* "untouched" as the call found it, or "traded"
    outcome    \* what the call returned, "none" while it runs

vars == <<position, outcome>>

Init == /\ position = "untouched"
        /\ outcome = "none"

\* A fill dict from enter_spread, a credit from close_spread, True from
\* roll_near_leg.
Fill == /\ outcome = "none"
        /\ outcome' = "filled"
        /\ position' = "traded"

\* None or False, or the LegRiskError of enter_spread.
Fail == /\ outcome = "none"
        /\ outcome' \in {"failed", "legrisk"}
        /\ UNCHANGED position

Next == Fill \/ Fail

Spec == Init /\ [][Next]_vars
=============================================================================
