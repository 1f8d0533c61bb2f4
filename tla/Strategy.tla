------------------------------ MODULE Strategy ------------------------------
(***************************************************************************)
(* The engine with its numbers: what scan_tick enters, what monitor_tick   *)
(* does with a position and what it books (strategy/decision.py), without  *)
(* an exchange.  The executor is DryRunExecutor in "paper" mode, with the  *)
(* figures of a portfolio tracker that has credentials, and                *)
(* BacktestExecutor in "backtest" mode, where BacktestEngine.run drives    *)
(* the ticks (backtest/engine.py).                                         *)
(*                                                                         *)
(* DecisionEngine has the same ticks with every outcome a choice, and the  *)
(* exchange, the commands, crashes and alerts.                             *)
(***************************************************************************)
EXTENDS Sizer, SequencesExt

CONSTANTS
    Frames,          \* the markets considered: spot of each asset, quotes
    Modes,           \* the modes considered, of "paper", "backtest"
    Sized,           \* those with REQUIRE_LEG_SIZE_DATA on
    MinEv,           \* MIN_EV, in per cent
    ConfirmTicks,    \* CLOSE_CONFIRM_TICKS
    RollTriggerDays, \* ROLL_TRIGGER_DAYS
    MinRollGap,      \* MIN_ROLL_NEAR_FAR_GAP_DAYS
    RetryCap,        \* POSITION_FAILURE_RETRY_CAP
    LossLimit,       \* daily_loss_limit
    Capital,         \* INITIAL_CAPITAL, and portfolio_value of a backtest
    Slippage,        \* BacktestExecutor's, per 1000
    ScanEvery,       \* scan_every_n_frames
    MaxTrades,       \* bound on the rows of the book
    DayLength,       \* steps of the clock per day
    LastClock,       \* bound on the clock
    LastFrame        \* bound on the frames of a replay

ASSUME StrategyAssumption ==
    /\ \A n \in {ConfirmTicks, RetryCap, LossLimit, Capital, ScanEvery, DayLength} : n \in Nat \ {0}
    /\ \A n \in {MaxTrades, LastClock, LastFrame, Slippage, MinRollGap, RollTriggerDays} : n \in Nat
    /\ Modes \subseteq {"paper", "backtest"} /\ Sized \subseteq Modes
    /\ MinEv \in Nat \ {0}

ASSUME FramesAssumption ==
    \A f \in Frames :
        /\ f.spots \in [Asset -> Nat]
        /\ DOMAIN f.quotes \subseteq Instrument
        /\ f.quotes \in [DOMAIN f.quotes -> Quote]

VARIABLES
    mode,      \* "paper" or "backtest"
    clock,     \* the time
    spots,     \* ChainCache._spots: asset -> latest spot, 0 before the first
    chain,     \* the fresh quotes: instrument -> quote
    book,      \* calendar_trades, the id is the index
    phase,     \* "idle", "scan" or "monitor": the tick that runs
    found,     \* candidates a scan has still to try
    todo,      \* ids of the positions a monitor tick has still to look at
    value,     \* _portfolio_value
    autos,     \* _recent_auto_closes: series -> time of its last auto-close
    pending,   \* _pending_close: id -> stop/TP signals in a row
    fails,     \* _close_roll_failures: id -> failures held against it
    fresh,     \* _just_entered
    todayPnl,  \* _today_pnl
    halted,    \* BotState.HALTED
    due,       \* what BacktestEngine.run does next
    frame,     \* frames fed so far
    report     \* BacktestResult, or <<>>

market == <<clock, spots, chain>>
replay == <<due, frame, report>>
counters == <<pending, fails>>
vars == <<mode, market, book, phase, found, todo, value, autos, counters, fresh,
          todayPnl, halted, replay>>

Ids == 1..MaxTrades
Day == clock \div DayLength
DayOf(t) == t \div DayLength

Live(i) == book[i].result \in {"Open", "Rolled"} /\ ~book[i].stuck
Positions == {i \in DOMAIN book : Live(i)}
OpenPositions == {book[i] : i \in Positions}
Closed == {i \in DOMAIN book : book[i].result \notin {"Open", "Rolled"}}

LimitBreached == todayPnl <= -LossLimit

Init ==
    /\ mode \in Modes
    /\ clock = DayLength - 1  \* late on a day, before the first quotes
    /\ spots = [a \in Asset |-> 0]
    /\ chain = <<>>
    /\ book = <<>>
    /\ phase = "idle" /\ found = {} /\ todo = {}
    /\ value = Capital
    /\ autos = <<>>
    /\ pending = [i \in Ids |-> 0]
    /\ fails = [i \in Ids |-> 0]
    /\ fresh = {}
    /\ todayPnl = 0
    /\ halted = FALSE
    /\ due = IF mode = "paper" THEN "tick" ELSE "frame"
    /\ frame = 0
    /\ report = <<>>

-----------------------------------------------------------------------------
(* The tracker's figures in paper mode (portfolio/tracker.py).             *)

\* Sum of debit * qty over the rows with result 'Open'.
UsedMargin == RiskInUse({book[i] : i \in {j \in DOMAIN book : book[j].result = "Open"}})

\* P&L and roll P&L of the rows.
Pnls == [i \in DOMAIN book |-> book[i].pnl]
RollPnls == [i \in DOMAIN book |-> book[i].rollPnl]

RealisedToday == SumFunctionOnSet(Pnls, {i \in Closed : DayOf(book[i].closedAt) = Day})

\* Unrealised P&L is always 0: the tracker asks ChainCache for get_ticker, which
\* it does not have, and leaves the position out.
AvailableCash == Greatest(0, Capital + RealisedToday - UsedMargin)

-----------------------------------------------------------------------------
(* The market: tickers arrive while a tick runs, too.                      *)

\* Options expire at 08:00, after the first step of their day.
Unexpired(q, t) == {i \in DOMAIN q : i.expiry * DayLength >= t}

\* What is not quoted again goes stale, spot prices do not.
MarketMoves(f) ==
    /\ mode = "paper"
    /\ clock < LastClock
    /\ clock' = clock + 1
    /\ spots' = [a \in Asset |-> IF f.spots[a] > 0 THEN f.spots[a] ELSE spots[a]]
    /\ chain' = Restrict(f.quotes, Unexpired(f.quotes, clock'))
    /\ UNCHANGED <<mode, book, phase, found, todo, value, autos, counters, fresh,
                   todayPnl, halted, replay>>

-----------------------------------------------------------------------------
(* Scanning                                                                *)

\* scan_tick up to the loop over the candidates.
StartScan ==
    /\ phase = "idle"
    /\ due \in {"tick", "scan"}
    /\ due' = IF due = "scan" THEN "frame" ELSE due
    /\ halted' = (halted \/ LimitBreached)
    /\ LET cash == IF mode = "paper" THEN AvailableCash ELSE value
       IN  /\ value' = IF halted' \/ cash = 0 THEN value ELSE cash
           /\ found' = IF halted' \/ cash = 0 THEN {} ELSE Scan(chain, spots, Day, Asset)
    /\ phase' = IF found' = {} THEN "idle" ELSE "scan"
    /\ UNCHANGED <<mode, market, book, todo, autos, counters, fresh, todayPnl, frame, report>>

\* What the executor fills: at the quotes, or with the replay's slippage.
Fill(c) ==
    IF mode = "paper" THEN [near |-> c.nearBid, far |-> c.farAsk]
    ELSE [near |-> (c.nearBid * (1000 - Slippage)) \div 1000,
          far |-> (c.farAsk * (1000 + Slippage)) \div 1000]

\* The row _enter writes; the executors do not say that they used a combo.
Booked(c, qty) ==
    LET fill == Fill(c)
    IN  [id |-> Len(book) + 1, near |-> c.near, far |-> c.far, qty |-> qty,
         debit |-> fill.far - fill.near, nearPrem |-> fill.near, nearDays |-> c.nearDays,
         openFees |-> EntryFees(c.near.asset, c.spot, qty, fill.near, fill.far, FALSE),
         rollPnl |-> 0, lastSv |-> 0, pnl |-> 0, closedAt |-> -1,
         result |-> "Open", notes |-> "", stuck |-> FALSE]

\* Fault: positions entered in this very scan are not counted.
CountedStale == {p \in OpenPositions : p.id \notin fresh}

\* The positions the sizer is told of: those loaded, and those entered since.
Counted == OpenPositions

\* Fault: a candidate of any expected value is good enough.
AcceptableAnyEv(c, qty) == qty > 0 /\ LiquidityGate(c, qty, chain, FALSE, mode \in Sized)

\* Fault: the book is checked before the quantity is known.
AcceptableUnsized(c, qty) ==
    c.ev >= MinEv /\ qty > 0 /\ LiquidityGate(c, 0, chain, FALSE, mode \in Sized)

Acceptable(c, qty) ==
    /\ c.ev >= MinEv
    /\ qty > 0
    /\ LiquidityGate(c, qty, chain, FALSE, mode \in Sized)

Fillable(c) == Fill(c).far > Fill(c).near /\ Len(book) < MaxTrades

Enter(c, qty) ==
    /\ book' = Append(book, Booked(c, qty))
    /\ fresh' = fresh \cup {Len(book) + 1}
    /\ found' = IF Cardinality(Positions) + 1 >= MaxPositions THEN {} ELSE found \ {c}

Skip(c) == found' = found \ {c} /\ UNCHANGED <<book, fresh>>

\* One turn of the loop over the ranked candidates.
TryEntry(c) ==
    /\ phase = "scan"
    /\ c \in found
    /\ \A d \in found \ {c} : ~Ahead(d, c)
    /\ UNCHANGED <<mode, market, todo, value, autos, counters, todayPnl, halted, replay>>
    /\ \E qty \in {SizeCandidate(c, value, Counted, autos, clock)} :
          IF Acceptable(c, qty) /\ Fillable(c) THEN Enter(c, qty) ELSE Skip(c)
    /\ phase' = IF found' = {} THEN "idle" ELSE phase

-----------------------------------------------------------------------------
(* Monitoring: one step for each position, in the order of the ids.  The   *)
(* engine goes by asset first; no position's turn depends on another's.    *)

StartMonitor ==
    /\ phase = "idle"
    /\ due \in {"tick", "monitor"}
    /\ due' = CASE due = "tick" -> due
                [] due = "monitor" /\ (frame - 1) % ScanEvery = 0 -> "scan"
                [] OTHER -> "frame"
    /\ halted' = (halted \/ LimitBreached)
    /\ todo' = IF halted' THEN {} ELSE Positions
    /\ phase' = IF todo' = {} THEN "idle" ELSE "monitor"
    /\ IF halted' \/ Positions # {} THEN UNCHANGED <<fresh, counters>>
       ELSE /\ fresh' = {}
            /\ fails' = [i \in Ids |-> 0]
            /\ pending' = [i \in Ids |-> 0]
    /\ UNCHANGED <<mode, market, book, found, value, autos, todayPnl, frame, report>>

\* The tail of monitor_tick: what was held against closed positions is dropped.
FinishMonitor ==
    /\ phase = "monitor" /\ todo = {}
    /\ phase' = "idle"
    /\ fresh' = {}
    /\ fails' = [i \in Ids |-> IF i \in Positions THEN fails[i] ELSE 0]
    /\ pending' = [i \in Ids |-> IF i \in Positions THEN pending[i] ELSE 0]
    /\ UNCHANGED <<mode, market, book, found, todo, value, autos, todayPnl, halted, replay>>

NearDaysLeft(p) == DaysToExpiry(p.near.expiry, Day)

\* Implied volatility of the far leg, 0 if there is none.
GetIv(p) == IF p.far \in DOMAIN chain THEN chain[p.far].iv ELSE 0

\* Nothing to value the position by; an expired one needs the spot only.
NoValue(p) ==
    \/ spots[p.near.asset] = 0
    \/ NearDaysLeft(p) > 0 /\ GetIv(p) = 0

Quoted(i) == i \in DOMAIN chain /\ TwoSided(chain[i])

\* Twice the mid of a leg.
Mid2(i) == chain[i].bid + chain[i].ask

\* Mark-to-model, without quotes on both sides of both legs.
ModelValue(p) ==
    SpreadValue(p.near.type, spots[p.near.asset], p.near.strike, GetIv(p),
                Greatest(NearDaysLeft(p), 1),
                Greatest(DaysToExpiry(p.far.expiry, Day), 1), p.qty)

\* Fault: an inverted market gives a negative value.
PositionValueUnclamped(p) ==
    IF Quoted(p.near) /\ Quoted(p.far) THEN ((Mid2(p.far) - Mid2(p.near)) * p.qty) \div 2
    ELSE ModelValue(p)

\* The value stop, take-profit and roll are decided on: mid to mid, never below 0.
PositionValue(p) ==
    IF Quoted(p.near) /\ Quoted(p.far)
    THEN (Greatest(0, Mid2(p.far) - Mid2(p.near)) * p.qty) \div 2
    ELSE ModelValue(p)

Verdict(p) == CheckCalendarStatus(PositionValue(p), p.debit, p.qty)

\* What DryRunExecutor.close_spread says the close fetched.
CloseCredit(p) == IF p.lastSv > 0 THEN p.lastSv ELSE p.debit * p.qty

\* Net P&L as _close_position books it.  The premiums that exit fees are computed
\* from are not among the fields a position is loaded with, and count as 0.
NetPnl(p, worth) ==
    worth - p.debit * p.qty + p.rollPnl - p.openFees
        - ExitFees(p.near.asset, spots[p.near.asset], p.qty, 0, 0)

\* Fault: fees and rolls are left out of the day's total.
DayPnlGross(p, worth) == worth - p.debit * p.qty

\* What a close adds to the day's total.
DayPnl(p, worth) == NetPnl(p, worth)

BySign(p, worth) == IF NetPnl(p, worth) >= 0 THEN "TP" ELSE "Stop"

\* Position i's turn in a monitor tick.
Turn(i) ==
    /\ phase = "monitor"
    /\ i \in todo
    /\ \A j \in todo : i <= j
    /\ todo' = todo \ {i}
    /\ UNCHANGED <<mode, market, phase, found, value, fresh, halted, replay>>

Looks(i) == Turn(i) /\ i \notin fresh /\ ~NoValue(book[i])

Expired(i) == NearDaysLeft(book[i]) = 0
Signalled(i) == ~Expired(i) /\ Verdict(book[i]) # "ok"

Confirmed(i) == Signalled(i) /\ pending[i] + 1 >= ConfirmTicks
RollDue(i) ==
    /\ ~Expired(i) /\ ~Signalled(i)
    /\ NearDaysLeft(book[i]) <= RollTriggerDays
    /\ NearDaysLeft(book[i]) < book[i].nearDays

\* Fault: one failure too few is enough.
OutOfRetriesEarly(i) == fails[i] + 1 >= RetryCap

OutOfRetries(i) == fails[i] >= RetryCap

\* What a turn writes into the row of the position.
ClosedRow(p, worth, sv, label, why) ==
    [p EXCEPT !.result = label, !.notes = why, !.closedAt = clock,
              !.pnl = NetPnl(p, worth), !.lastSv = sv]
ValuedRow(p) == [p EXCEPT !.lastSv = PositionValue(p)]

Write(i, row) == book' = [book EXCEPT ![i] = row]

\* _close_position: executors without an exchange never fail to close.
Close(i, worth, sv, label, why) ==
    /\ Write(i, ClosedRow(book[i], worth, sv, label, why))
    /\ todayPnl' = todayPnl + DayPnl(book[i], worth)
    /\ fails' = [fails EXCEPT ![i] = 0]
    /\ pending' = [pending EXCEPT ![i] = 0]

\* Entered since the last monitor tick, or nothing to value it by.
PassOver(i) ==
    /\ Turn(i)
    /\ i \in fresh \/ NoValue(book[i])
    /\ UNCHANGED <<book, autos, counters, todayPnl>>

\* The near leg has expired: close, whatever the spread is worth.
CloseExpired(i) ==
    /\ Looks(i) /\ Expired(i) /\ ~OutOfRetries(i)
    /\ LET worth == CloseCredit(book[i])
       IN  Close(i, worth, book[i].lastSv, BySign(book[i], worth), "expiry")
    /\ UNCHANGED autos

\* Stop or take-profit, not yet often enough in a row.
AwaitConfirmation(i) ==
    /\ Looks(i) /\ Signalled(i) /\ ~Confirmed(i)
    /\ Write(i, ValuedRow(book[i]))
    /\ pending' = [pending EXCEPT ![i] = @ + 1]
    /\ UNCHANGED <<autos, fails, todayPnl>>

\* Fault: the cooldown is not started.
CoolForgotten(p) == autos

\* A stop or take-profit starts the series' cooldown.
Cool(p) == [s \in DOMAIN autos \cup {SeriesOf(p.near)} |->
               IF s = SeriesOf(p.near) THEN clock ELSE autos[s]]

CloseOnSignal(i) ==
    LET sv == PositionValue(book[i])
    IN  /\ Looks(i) /\ Confirmed(i) /\ ~OutOfRetries(i)
        /\ Close(i, sv, sv, IF Verdict(book[i]) = "tp" THEN "TP" ELSE "Stop", "signal")
        /\ autos' = Cool(book[i])

\* Failures of rolls count as failures to close: the position is given up without
\* an attempt.
GiveUp(i) ==
    /\ Looks(i) /\ (Expired(i) \/ Confirmed(i)) /\ OutOfRetries(i)
    /\ Write(i, [IF Expired(i) THEN book[i] ELSE ValuedRow(book[i]) EXCEPT !.stuck = TRUE])
    /\ fails' = [fails EXCEPT ![i] = 0]
    /\ pending' = IF Expired(i) THEN pending ELSE [pending EXCEPT ![i] = 0]
    /\ UNCHANGED <<autos, todayPnl>>

\* Fault: the candidate's own far leg is taken for the position's.
RollChoicesOwnFar(p) ==
    {c \in ScanForRollAnyFar(chain, spots, Day, p.near, p.far) :
        /\ c.near # p.near
        /\ LiquidityGate(c, p.qty, chain, TRUE, mode \in Sized)}

\* Candidates for the new near leg that pass the gates of a roll.
RollChoices(p) ==
    {c \in ScanForRoll(chain, spots, Day, p.near, p.far) :
        /\ c.near # p.near
        /\ p.far.expiry - c.near.expiry >= MinRollGap
        /\ LiquidityGate(c, p.qty, chain, TRUE, mode \in Sized)}

\* The best of them, if its premium exceeds the fees.  The old near leg is priced
\* at the new one's bid, its own premium not being loaded.
RollTo(p, choices) ==
    {c \in choices :
        /\ \A d \in choices : ~Ahead(d, c)
        /\ c.nearBid * p.qty > RollFees(p.near.asset, spots[p.near.asset], p.qty,
                                        c.nearBid, c.nearBid)}

\* Fault: the premium is booked as taken in, and what is counted twice is a profit.
RollPnlTakenIn(p, c) == c.nearBid * p.qty

\* For the same reason a roll books the new premium as a loss.
RollPnl(p, c) == (0 - c.nearBid) * p.qty

RolledRow(p, c) ==
    [ValuedRow(p) EXCEPT !.near = c.near, !.result = "Rolled", !.rollPnl = @ + RollPnl(p, c)]

RollNear(i, c) ==
    /\ Write(i, RolledRow(book[i], c))
    /\ todayPnl' = todayPnl + RollPnl(book[i], c)
    /\ fails' = [fails EXCEPT ![i] = 0]

\* No roll: the position is held, and the next tick tries again.
RollFails(i) ==
    /\ Write(i, ValuedRow(book[i]))
    /\ fails' = [fails EXCEPT ![i] = @ + 1]
    /\ UNCHANGED todayPnl

TryRoll(i) ==
    /\ Looks(i) /\ RollDue(i) /\ ~OutOfRetries(i)
    /\ \E choices \in {RollChoices(book[i])} :
          \/ \E c \in RollTo(book[i], choices) : RollNear(i, c)
          \/ RollTo(book[i], choices) = {} /\ RollFails(i)
    /\ pending' = [pending EXCEPT ![i] = 0]
    /\ UNCHANGED autos

CloseUnrollable(i) ==
    LET sv == PositionValue(book[i])
    IN  /\ Looks(i) /\ RollDue(i) /\ OutOfRetries(i)
        /\ Close(i, sv, sv, "RollFailed", "roll")
        /\ UNCHANGED autos

Hold(i) ==
    /\ Looks(i) /\ ~Expired(i) /\ ~Signalled(i) /\ ~RollDue(i)
    /\ Write(i, ValuedRow(book[i]))
    /\ pending' = [pending EXCEPT ![i] = 0]
    /\ UNCHANGED <<autos, fails, todayPnl>>

-----------------------------------------------------------------------------
(* A replay: all of it happens now, whatever day the frames are of.        *)

\* The next frame, which the loaders fill without quoted sizes, is merged into the
\* cache, where nothing goes stale.
FeedFrame(f) ==
    /\ phase = "idle" /\ due = "frame"
    /\ frame < LastFrame
    /\ frame' = frame + 1
    /\ due' = "monitor"
    /\ spots' = [a \in Asset |-> IF f.spots[a] > 0 THEN f.spots[a] ELSE spots[a]]
    /\ chain' = [i \in DOMAIN f.quotes \cup DOMAIN chain |->
                    IF i \in DOMAIN f.quotes THEN [f.quotes[i] EXCEPT !.bidSize = 0, !.askSize = 0]
                    ELSE chain[i]]
    /\ UNCHANGED <<mode, clock, book, phase, found, todo, value, autos, counters, fresh,
                   todayPnl, halted, report>>

\* Fault: losing positions are left out.
ReportedWins == {i \in DOMAIN book : book[i].result = "TP"}

\* Rows that get_calendar_stats and _build_result take for closed, in the order
\* of their ids: all were closed on one day.
Reported == {i \in DOMAIN book : book[i].result \in {"TP", "Stop"}}

Cumulated(ids) == [n \in 1..Cardinality(ids) |->
    SumFunctionOnSet(Pnls, {i \in ids : Cardinality({j \in ids : j <= i}) <= n})]

\* Fault: the peak is not carried on.
MaxDrawdownLastStep(equity) ==
    FoldLeft(LAMBDA acc, v : [peak |-> v, mdd |-> Greatest(acc.mdd, acc.peak - v)],
             [peak |-> equity[1], mdd |-> 0], equity).mdd

MaxDrawdown(equity) ==
    FoldLeft(LAMBDA acc, v : LET peak == Greatest(acc.peak, v)
                             IN  [peak |-> peak, mdd |-> Greatest(acc.mdd, peak - v)],
             [peak |-> equity[1], mdd |-> 0], equity).mdd

BuildResult ==
    LET equity == Cumulated(Reported)
    IN  [trades |-> Cardinality(Reported),
         wins |-> Cardinality({i \in Reported : book[i].pnl > 0}),
         total |-> SumFunctionOnSet(Pnls, Reported),
         equity |-> equity,
         drawdown |-> IF equity = <<>> THEN 0 ELSE MaxDrawdown(equity)]

FinishReplay ==
    /\ phase = "idle" /\ due = "frame"
    /\ frame > 0
    /\ due' = "done"
    /\ report' = BuildResult
    /\ UNCHANGED <<mode, market, book, phase, found, todo, value, autos, counters, fresh,
                   todayPnl, halted, frame>>

-----------------------------------------------------------------------------
Monitors(i) ==
    \/ PassOver(i)
    \/ CloseExpired(i)
    \/ AwaitConfirmation(i)
    \/ CloseOnSignal(i)
    \/ GiveUp(i)
    \/ TryRoll(i)
    \/ CloseUnrollable(i)
    \/ Hold(i)

Ticks ==
    \/ \E c \in found : TryEntry(c)
    \/ \E i \in Ids : Monitors(i)
    \/ FinishMonitor

Next ==
    \/ \E f \in Frames : MarketMoves(f) \/ FeedFrame(f)
    \/ StartScan
    \/ StartMonitor
    \/ FinishReplay
    \/ Ticks

Spec == Init /\ [][Next]_vars

-----------------------------------------------------------------------------
(* Properties                                                              *)

\* No two monitored positions are on strikes within STRIKE_CORRELATION_PCT of each
\* other: entries of one scan and of several, rolls in between (sizer.py 124-142).
NoCorrelatedPair ==
    \A i, j \in Positions :
        LET p == book[i].near
            q == book[j].near
        IN  i < j /\ p.asset = q.asset /\ p.type = q.type
               => 100 * Distance(p.strike, q.strike) > CorrelationPct * p.strike

Entered == Len(book') > Len(book)
Entry == book'[Len(book')]

\* The debits of all monitored positions, those of this scan included, stay within
\* MAX_TOTAL_RISK_PCT of what the sizer was given (sizer.py 144-158, the list that
\* scan_tick appends to).  A replay fills worse than what was sized.
WithinBudget ==
    mode = "paper" => 100 * RiskInUse(OpenPositions') <= MaxTotalRiskPct * value

\* A series that a stop or take-profit closed is not entered again within the
\* cooldown (sizer.py 97-122, _recent_auto_closes).
CooledDown ==
    \A j \in DOMAIN book :
        book[j].notes = "signal" /\ SeriesOf(book[j].near) = SeriesOf(Entry.near)
            => clock - book[j].closedAt >= Cooldown

\* With a MIN_EV above 0, as in config.py, no entry loses over the whole range of its
\* samples, although a payoff without any break-even is given a full probability of
\* profit (scanner.py 261-286).
Gainful == \E c \in found : c.near = Entry.near /\ c.far = Entry.far /\ c.gains

\* The book, as it is quoted when the order goes out and not when the candidate
\* was found, absorbs the order (decision.py 605-651); a leg no longer quoted is
\* not looked at.
Absorbed ==
    mode \in Sized =>
        /\ Entry.near \in DOMAIN chain => chain[Entry.near].bidSize >= Entry.qty
        /\ Entry.far \in DOMAIN chain => chain[Entry.far].askSize >= Entry.qty

\* Whatever the scan found, however long ago, and whatever it has entered since: the
\* position that it enters keeps every limit at the moment of the order.
EntryKeepsTheLimits ==
    [][Entered => WithinBudget /\ CooledDown /\ Gainful /\ Absorbed]_vars

\* A position stays a calendar spread through its rolls: one series, and a near
\* leg that expires well before the far one (decision.py 1290-1322).
StaysACalendar ==
    \A i \in DOMAIN book :
        /\ SeriesOf(book[i].near) = SeriesOf(book[i].far)
        /\ book[i].near.expiry < book[i].far.expiry
        /\ book[i].result = "Rolled" => book[i].far.expiry - book[i].near.expiry >= MinRollGap

\* What the rows say has been realised: a closed row's net P&L, its rolls included, and
\* the rolls of those that are not closed.
NetRealised == SumFunctionOnSet(Pnls, Closed) + SumFunctionOnSet(RollPnls, DOMAIN book \ Closed)

\* The sum that decides on the halt never shows a smaller loss than the rows do: what it
\* counts twice, the rolls of a row that has closed, are losses (decision.py 1205, 1367-1371).
TotalNeverFlatters == todayPnl <= NetRealised

\* Whatever the market shows, a closed row books no more than its debit, its opening fees
\* and the losses of its rolls: no spread is taken to be worth less than nothing (decision.py
\* 1508-1511, the clamp).  The losses of rolls are booked, not made: a roll books the
\* premium it takes in as a loss.
LossIsBounded ==
    \A i \in Closed :
        book[i].rollPnl - book[i].pnl <= book[i].debit * book[i].qty + book[i].openFees

\* The P&L that the daily limit goes by errs on the side of the halt, and the rows book no
\* loss that a position cannot make.
LedgerIsPrudent == TotalNeverFlatters /\ LossIsBounded

\* Nothing a replay closed is missing from its result (engine.py 252-300, state.py
\* get_calendar_stats), which agrees with the engine's own total.
ReportCountsEveryClose ==
    due = "done" => /\ report.total = todayPnl
                    /\ report.trades = Cardinality(Closed)

\* The drawdown is the largest drop from an earlier point of the equity curve to a
\* later one (engine.py 315-327).
DrawdownIsLargestDrop ==
    due = "done" /\ report.trades > 0 =>
        report.drawdown = Max({report.equity[n[1]] - report.equity[n[2]] :
                                 n \in {m \in (1..report.trades) \X (1..report.trades) : m[1] <= m[2]}})

\* The report of a replay tells of every close and of the worst stretch.
ReportIsTrue == ReportCountsEveryClose /\ DrawdownIsLargestDrop

Status == [i \in Ids |->
    IF i \notin DOMAIN book THEN "absent"
    ELSE IF book[i].stuck THEN "stuck"
    ELSE IF Live(i) THEN "open"
    ELSE "closed"]

Failed == [i \in Ids |-> IF Status[i] = "stuck" THEN RetryCap ELSE fails[i]]

Lifecycle == INSTANCE TradeLifecycle WITH Trade <- Ids, status <- Status, failed <- Failed

\* Every row lives the life that TradeLifecycle allows: nothing is given up before
\* RetryCap failures since the last roll.
ImplementsLifecycle == Lifecycle!LifecycleSpec

=============================================================================
