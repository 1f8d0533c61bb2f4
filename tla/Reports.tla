------------------------------ MODULE Reports ------------------------------
(***************************************************************************)
(* What the commands tell the operator about the book (telegram_cmd/       *)
(* handlers.py, telegram_cmd/pnl_chart.py, the queries of db/state.py).    *)
(* Each computes its figures anew, from the rows and the cache as they are *)
(* when the command arrives, between two steps of a tick.                  *)
(***************************************************************************)
EXTENDS Strategy

CONSTANT AestAhead  \* steps of the clock by which the dates of TIMEZONE are ahead

ASSUME ReportsAssumption == AestAhead \in 0..(DayLength - 1)

CostBasis(i) == book[i].debit * book[i].qty + book[i].openFees

-----------------------------------------------------------------------------
(* The queries.                                                            *)

\* Fault: stuck positions are hidden, as they were before get_visible_positions.
OpenOnly == {i \in DOMAIN book : Live(i)}

OpenTrades == {i \in DOMAIN book : Live(i)}

VisiblePositions == {i \in DOMAIN book : book[i].result \in {"Open", "Rolled"}}

ClosingDay(i) == DayOf(book[i].closedAt)

\* The order of get_all_closed_trades: by date of closing, then by id.
Before(i, j) == \/ ClosingDay(i) < ClosingDay(j)
                \/ ClosingDay(i) = ClosingDay(j) /\ i < j

Dated == {i \in DOMAIN book : book[i].closedAt >= 0}
Place(i) == Cardinality({j \in Dated : j = i \/ Before(j, i)})

AllClosedTrades == [n \in 1..Cardinality(Dated) |-> CHOOSE i \in Dated : Place(i) = n]

\* Dates of closing are dates of the process, whatever date they are compared with.
ClosedSince(day) == {i \in Closed : ClosingDay(i) >= day}

AestDay == DayOf(clock + AestAhead)

\* get_calendar_stats: wins are rows that TP closed, whatever they made.
Stats ==
    [trades |-> Cardinality(Reported),
     wins |-> Cardinality({i \in Reported : book[i].result = "TP"}),
     total |-> SumFunctionOnSet(Pnls, Reported)]

-----------------------------------------------------------------------------
(* The commands.                                                           *)

\* Fault: roll P&L, which the realised figures contain, is left out.
UnrealisedNoRolls(i) ==
    IF Quoted(book[i].near) /\ Quoted(book[i].far)
    THEN (Greatest(0, Mid2(book[i].far) - Mid2(book[i].near)) * book[i].qty) \div 2 - CostBasis(i)
    ELSE IF book[i].lastSv > 0 THEN book[i].lastSv - CostBasis(i)
    ELSE 0

\* compute_unrealized, of one position: nothing for one without quotes that was
\* worth nothing when it was last looked at.
UnrealisedOf(i) ==
    IF Quoted(book[i].near) /\ Quoted(book[i].far)
    THEN (Greatest(0, Mid2(book[i].far) - Mid2(book[i].near)) * book[i].qty) \div 2
            - CostBasis(i) + book[i].rollPnl
    ELSE IF book[i].lastSv > 0 THEN book[i].lastSv - CostBasis(i) + book[i].rollPnl
    ELSE 0

\* Fault: the curve goes by the order of the ids.
CumulativeById ==
    [n \in DOMAIN AllClosedTrades |->
        [day |-> ClosingDay(AllClosedTrades[n]),
         total |-> SumFunctionOnSet(Pnls, {i \in Closed : i <= n})]]

\* build_cumulative_series.
CumulativeSeries ==
    LET closed == AllClosedTrades
        made == [n \in DOMAIN closed |-> book[closed[n]].pnl]
    IN  [n \in DOMAIN closed |->
            [day |-> ClosingDay(closed[n]), total |-> SumFunctionOnSet(made, 1..n)]]

Realised == IF CumulativeSeries = <<>> THEN 0 ELSE Last(CumulativeSeries).total

\* /pnl: the caption's total.
Unrealised == [i \in DOMAIN book |-> UnrealisedOf(i)]
PnlTotal == Realised + SumFunctionOnSet(Unrealised, OpenTrades)

NoValueShown == [shown |-> FALSE, pnl |-> 0]

\* /positions: a line's P&L, from the quotes or from the last known value.
PositionLine(i) ==
    IF Quoted(book[i].near) /\ Quoted(book[i].far)
    THEN LET unr == (Greatest(0, Mid2(book[i].far) - Mid2(book[i].near)) * book[i].qty) \div 2
                       - CostBasis(i)
         IN  [shown |-> TRUE, pnl |-> unr + book[i].rollPnl]
    ELSE IF book[i].lastSv > 0
    THEN [shown |-> TRUE, pnl |-> book[i].lastSv - CostBasis(i) + book[i].rollPnl]
    ELSE NoValueShown

\* /portfolio: the same from quotes only.
PortfolioLine(i) ==
    IF Quoted(book[i].near) /\ Quoted(book[i].far)
    THEN LET worth == (Greatest(0, Mid2(book[i].far) - Mid2(book[i].near)) * book[i].qty) \div 2
         IN  [shown |-> TRUE,
              pnl |-> worth - book[i].debit * book[i].qty - book[i].openFees + book[i].rollPnl]
    ELSE NoValueShown

\* /closed_trades today.
ClosedToday == SumFunctionOnSet(Pnls, ClosedSince(AestDay))

-----------------------------------------------------------------------------
(* Properties                                                              *)

\* A close that is made at quotes turns unrealised P&L into realised P&L: the total
\* of /pnl changes by the exit fees and by nothing else, rolls before it or not
\* (pnl_chart.py 51-81 against decision.py 1152-1183).
ClosingCostsItsFees ==
    [][\A i \in OpenTrades :
         LET p == book[i]
         IN  book'[i].notes \in {"signal", "roll"} /\ Quoted(p.near) /\ Quoted(p.far)
               => PnlTotal' = PnlTotal - ExitFees(p.near.asset, spots[p.near.asset], p.qty, 0, 0)]_vars

\* Three commands agree on what the unclosed rows are worth: /portfolio with
\* /positions wherever it shows a figure, and /positions with /pnl but for the stuck
\* rows, which only /positions counts (handlers.py 71-136, 244-292, 639-693).
CommandsAgree ==
    LET shown == [i \in DOMAIN book |-> PositionLine(i).pnl]
        stuck == {i \in DOMAIN book : book[i].stuck}
    IN  /\ SumFunctionOnSet(shown, VisiblePositions)
             = SumFunctionOnSet(Unrealised, OpenTrades) + SumFunctionOnSet(shown, stuck)
        /\ \A i \in VisiblePositions : PortfolioLine(i).shown => PortfolioLine(i) = PositionLine(i)

\* The curve of /pnl has a point for every closed row, in the order of their dates, and
\* at the end of each day, and at its own end, it stands at what the rows closed until
\* then have made (state.py 779-790, pnl_chart.py 26-48).
CurveIsOfTheBook ==
    LET curve == CumulativeSeries
    IN  /\ Len(curve) = Cardinality(Closed)
        /\ Realised = SumFunctionOnSet(Pnls, Closed)
        /\ \A n \in DOMAIN curve :
              n < Len(curve) /\ curve[n].day < curve[n + 1].day
                => curve[n].total = SumFunctionOnSet(Pnls, {i \in Closed : ClosingDay(i) <= curve[n].day})

\* The commands tell of one set of open rows, and /pnl of all the closed ones.
FiguresAgree == CommandsAgree /\ CurveIsOfTheBook

=============================================================================
