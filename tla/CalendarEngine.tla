--------------------------- MODULE CalendarEngine ---------------------------
(***************************************************************************)
(* Valuation of a calendar spread (core/calendar_engine.py) and the        *)
(* Black-Scholes prices it rests on (core/pricing.py), which are taken as  *)
(* intrinsic value plus a time value that depends on volatility, days and  *)
(* distance from the strike.                                               *)
(***************************************************************************)
EXTENDS Fees, FiniteSets, FiniteSetsExt, Functions, Sequences

CONSTANTS
    TimeValue(_, _, _),  \* volatility, days, |spot - strike| -> time value
    Grid,                \* offsets from spot at which break-evens are sought
    StopPct,             \* STOP_PCT, TAKE_PROFIT_PCT, in per cent
    TakeProfitPct

ASSUME GridAssumption == Grid \in Seq(Int) \ {<<>>}

Distance(a, b) == Greatest(a - b, b - a)

Intrinsic(type, spot, strike) ==
    IF type = "Call" THEN Greatest(spot - strike, 0) ELSE Greatest(strike - spot, 0)

OptionValue(type, spot, strike, iv, days) ==
    Intrinsic(type, spot, strike) + TimeValue(iv, days, Distance(spot, strike))

\* Mark-to-model value of an open spread: far leg minus near leg.
SpreadValue(type, spot, strike, iv, nearDays, farDays, qty) ==
    ( OptionValue(type, spot, strike, iv, farDays)
    - OptionValue(type, spot, strike, iv, nearDays) ) * qty

\* One contract's P&L if the underlying is at `close` when the near leg expires.
PnlAtNearExpiry(type, close, strike, iv, nearDays, farDays, debit) ==
    OptionValue(type, close, strike, iv, Greatest(farDays - nearDays, 1))
        - Intrinsic(type, close, strike) - debit

\* The last rising and the last falling change of sign of P along the grid, 0 for
\* none; P is a function of the grid's indices.
FindBreakevens(spot, P) ==
    LET steps == 1..(Cardinality(DOMAIN P) - 1)
        rising == {i \in steps : P[i] < 0 /\ P[i + 1] >= 0}
        falling == {i \in steps : P[i] >= 0 /\ P[i + 1] < 0}
    IN  [lo |-> IF rising = {} THEN 0 ELSE spot + Grid[Max(rising)],
         hi |-> IF falling = {} THEN 0 ELSE spot + Grid[Max(falling) + 1]]

\* The verdict on a position worth sv.  Without a debit the quotient is taken as
\* 0, below any stop.  "warn" is "ok" but for the message.
CheckCalendarStatus(sv, debit, qty) ==
    IF debit * qty <= 0 \/ 100 * sv <= StopPct * debit * qty THEN "stop"
    ELSE IF 100 * sv >= TakeProfitPct * debit * qty THEN "tp"
    ELSE "ok"

=============================================================================
