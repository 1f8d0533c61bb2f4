---------------------------- MODULE StrategyClaims ----------------------------
(* What comments and docstrings say of three figures and the code does not   *)
(* always do: TLC finds a book against all of them.                          *)
EXTENDS MCStrategy

(* "pnl = net_pnl  # stored as true net P&L (entry + roll + exit fees        *)
(* already deducted)" (decision.py:1185): added to a total that has the      *)
(* rolls already (decision.py:1370), it counts them twice.  The engine's     *)
(* total is what the rows say has been realised.                             *)
TotalIsOfTheRows == todayPnl = NetRealised

(* "Return trades closed since midnight AEST today" (state.py:507): those    *)
(* closed on this date of TIMEZONE.                                          *)
TodayIsSinceMidnight ==
  ClosedToday = SumFunctionOnSet(Pnls, {i \in Closed : DayOf(book[i].closedAt + AestAhead) = AestDay})

(* "Aggregate performance statistics for closed calendar trades"             *)
(* (state.py:544): of all rows that are closed.                              *)
StatsAreOfClosed == Stats.total = SumFunctionOnSet(Pnls, Closed)

(* One of the three holds.  The book against it is against each of them: a   *)
(* position has been rolled and closed, a row closed late in the evening is  *)
(* down with the date of the process, which is not yet that of TIMEZONE, and *)
(* a row closed for want of a roll bears a label the statistics do not know. *)
OneAccountIsTrue == TotalIsOfTheRows \/ TodayIsSinceMidnight \/ StatsAreOfClosed

=============================================================================
