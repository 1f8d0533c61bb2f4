------------------------------- MODULE Sizer -------------------------------
(***************************************************************************)
(* How much of a candidate may be bought (strategy/sizer.py), and whether  *)
(* the book can absorb it (strategy/decision.py _check_liquidity_gate).    *)
(* Quantities are whole numbers of the finest amount step.                 *)
(***************************************************************************)
EXTENDS Scanner

CONSTANTS
    MaxPositions,     \* MAX_POSITIONS
    MaxLossPct,       \* MAX_LOSS_PCT, MAX_TOTAL_RISK_PCT, in per cent
    MaxTotalRiskPct,
    MaxQty,           \* MAX_QTY
    MinNetDebit,      \* MIN_NET_DEBIT
    CorrelationPct,   \* STRIKE_CORRELATION_PCT, in per cent
    Cooldown,         \* REENTRY_COOLDOWN_SEC, in steps of the clock
    MinLegSize,       \* MIN_LEG_BID_SIZE = MIN_LEG_ASK_SIZE
    AbsSpread         \* MAX_LEG_SPREAD_ABS_USD, 0 for none

ASSUME SizerAssumption ==
    /\ \A n \in {MaxPositions, MaxLossPct, MaxTotalRiskPct, MaxQty, MinNetDebit,
                 CorrelationPct, Cooldown, MinLegSize} : n \in Nat
    /\ \A a \in Asset : Limits[a].step \in Nat \ {0} /\ Limits[a].minAmount \in Nat

SeriesOf(i) == [asset |-> i.asset, type |-> i.type, strike |-> i.strike]

\* Fault: only the very same strike counts.
CorrelatedSameStrike(c, p) == SeriesOf(c.near) = SeriesOf(p.near)

\* A position on the same asset and type with a strike within a few per cent.
Correlated(c, p) ==
    /\ p.near.asset = c.near.asset
    /\ p.near.type = c.near.type
    /\ p.near.strike > 0
    /\ 100 * Distance(c.near.strike, p.near.strike) <= CorrelationPct * p.near.strike

RiskInUse(open) == SumFunction([p \in open |-> p.debit * p.qty])

CostPerUnit(c) ==
    c.debit + RoundTripFees(c.near.asset, c.spot, 1, c.nearBid, c.farAsk, TRUE)

FloorToStep(asset, qty) == (qty \div Limits[asset].step) * Limits[asset].step

\* What the trade may lose: its own limit, within what the open positions leave.
MaxLoss(value, open) ==
    Least((value * MaxLossPct) \div 100, (value * MaxTotalRiskPct) \div 100 - RiskInUse(open))

Capped(asset, qty) ==
    LET steps == Least(FloorToStep(asset, qty), FloorToStep(asset, MaxQty))
    IN  IF steps < Limits[asset].minAmount THEN 0 ELSE steps

\* Approved quantity, 0 if the candidate is blocked; `open` is a set of records
\* and `autos` maps a series to the time of its last auto-close.
SizeCandidate(c, value, open, autos, now) ==
    LET series == SeriesOf(c.near)
        blocked == \/ Cardinality(open) >= MaxPositions
                   \/ series \in DOMAIN autos /\ now - autos[series] < Cooldown
                   \/ \E p \in open : Correlated(c, p)
                   \/ MaxLoss(value, open) <= 0
                   \/ c.debit < Greatest(MinNetDebit, 1)
    IN  IF blocked THEN 0
        ELSE Capped(c.near.asset, MaxLoss(value, open) \div CostPerUnit(c))

\* A leg's quotes lie close enough together.
NarrowLeg(asset, bid, ask) ==
    \/ 200 * (ask - bid) <= Limits[asset].legSpread * (ask + bid)
    \/ AbsSpread > 0 /\ ask - bid <= AbsSpread

\* The quoted size covers the floor, and the order where it hits this side; what
\* no size at all means is up to REQUIRE_LEG_SIZE_DATA.
Covers(size, needed, sized) ==
    IF size = 0 THEN ~sized ELSE size >= Greatest(MinLegSize, needed)

\* _check_liquidity_gate: a roll sells the near leg only.
LiquidityGate(c, qty, chain, isRoll, sized) ==
    LET asset == c.near.asset
        mid2 == (c.farBid + c.farAsk) - (c.nearBid + c.nearAsk)
    IN  /\ NarrowLeg(asset, c.nearBid, c.nearAsk)
        /\ NarrowLeg(asset, c.farBid, c.farAsk)
        /\ mid2 > 0 => 100 * (2 * c.debit - mid2) <= Limits[asset].premium * mid2
        /\ c.near \in DOMAIN chain => /\ Covers(chain[c.near].bidSize, qty, sized)
                                      /\ Covers(chain[c.near].askSize, 0, sized)
        /\ c.far \in DOMAIN chain => /\ Covers(chain[c.far].bidSize, 0, sized)
                                     /\ Covers(chain[c.far].askSize, IF isRoll THEN 0 ELSE qty, sized)

=============================================================================
