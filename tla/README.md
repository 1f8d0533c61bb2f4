# Formal verification of the calendar bot

The bot sells calendar spreads of options on Deribit: it sells a near expiry, buys a
far one, rolls the near leg while that pays, and closes the spread on a stop, a
take-profit or at expiry. This directory holds TLA+ models of the parts of the bot that
decide, price, trade, remember, collect and report, TLC configurations that check them on
small instances, and proofs, checked by TLAPS, of the safety properties that matter most.

Each model is translated from the code. `PROJECT.json` names, for every definition,
the lines it stands for (`map`); for every property a mutation of the code that it
catches (`mutants`); what is hard to test in this code and which property watches it
(`hazards`); and where the code does something else than its documentation says
(`findings`).

To check a module: `tlasany M.tla`, `tlc -workers 2 -config X.cfg M`, `tlapm M.tla`.

## 1. The system

The bot is one Python process. An asyncio event loop runs the market feed, the Telegram
listener and the scheduler; scan and monitor ticks run in a worker thread, one at a time;
alerts are posted by daemon threads. The only state that survives a restart is the SQLite
trade book. The exchange is a separate party with its own truth.

| part | state | operations |
|---|---|---|
| Decision engine `strategy/decision.py` | state (IDLE .. HALTED), paused, running P&L, positions entered since the last monitor tick, failure and confirmation counters, series just stopped out, stuck positions it has told of | `scan_tick`, `monitor_tick`, pause and resume; per position: stop, take-profit, expiry, roll, drain, stuck |
| Scanner and sizer `strategy/scanner.py`, `sizer.py` | none | rank candidates; quantity and blocking reasons |
| Pricing, fees, calendar engine `core/` | none | Black-Scholes, fees, break-evens, verdict on a position |
| Trade book `db/state.py` | one row per trade: result, close status, legs, P&L | create, update near leg, close, mark stuck, reset, close manually, reconcile; the queries |
| Telegram commands `telegram_cmd/` | none of its own; writes engine, book and `config` | `/stop_bot`, `/start_bot`, `/start_drain`, `/start_with_assets`, `/drain_and_new`, `/close`, `/close_manually`; reports: `/positions`, `/portfolio`, `/pnl`, `/closed_trades` and others |
| Executor `execution/executor.py`, order manager `execution/order_manager.py` | the orders of the call under way, the state of each order, price grids it has asked for | `enter_spread` (a combo, else leg by leg), `close_spread`, `roll_near_leg`; rounding, slippage check, wait, cancel, flatten, unwind |
| Portfolio tracker `portfolio/tracker.py` | margins and cash of the last refresh, mismatch fingerprint, repeat count, escalated flag | `refresh`: settle stuck rows, fetch the summaries, reconcile; available cash; margin simulation |
| Main loop `monitor/loop.py`, `bot.py` | scheduler jobs, tick lock, stop event, tasks | start, fire, skip when halted, signal, shutdown, teardown |
| Feed `data/deribit_feed.py`, cache `data/chain_cache.py` | connection, subscriptions, snapshots with their time, spot prices, time of the last ticker | connect, subscribe, parse, watchdog, reconnect; `get`, `get_chain`, `get_spot` |
| Notifier `alerts/notifier.py` | time of the last alert per key | `send` with cooldown; e-mail; Telegram in two attempts |
| Backtest `backtest/engine.py`, `executor.py` | the clock and frame of a replay | drives the engine's ticks frame by frame; report |
| Collector and loaders `backtest/data_collector.py`, `data_loader_db.py`, `loader.py`, `collect.py` | tables of quotes and of collection runs | collect in a loop, once or beside the bot; frames of what was stored |
| Configuration `config.py` | limits and modes, rewritten by commands | read everywhere |
| Logging | its own files | output only |

### How the parts interact

* The scheduler calls the engine's ticks; the tick lock keeps them apart.
* A tick reads the cache, calls the executor and **blocks** until the call returns, then
  writes the book. Telegram handlers run on the event loop meanwhile and write the same
  rows, counters and flags.
* `scan_tick` first calls `portfolio.refresh()`, which may close stuck rows and hands the
  sizer its cash, and may end in an alert through the notifier. It finds all candidates of
  a scan at once and then gates, sizes and buys one after the other.
* The feed asks the book, when it connects, which legs to subscribe to; the engine picks
  legs from the cache the feed fills.
* Reports compute their figures anew from rows and cache, between two steps of a tick.
* The executor, the tracker, the feed and the collector each have their own connection to
  Deribit, and see different moments of it.
* A replay is the engine over another executor, another clock and frames that the loaders
  make of what the collector stored.

### What is hard, and what makes each part correct

* **Engine.** Counters are read before the executor is called and written after it; the
  monitor works through a snapshot; a crash forgets the counters and not the book.
  Correct if: it trades only what the book holds open *now*; a close follows enough
  signals; a position is given up only after enough failures and announced once; no entry
  beyond the loss limit; each trade goes through its life and no other way.
* **Strategy.** Candidates are rated on one snapshot and bought on another, after others of
  the same scan. Correct if every entry keeps the limits at the moment of its order, a
  position stays a calendar through its rolls, and what is booked is what happened.
* **Book.** Updates are by id alone. Correct if a closed row is never rewritten, and,
  while nothing fails, rows and exchange agree.
* **Executor.** Orders fill while they are cancelled, answers get lost, one leg of two
  fails, prices are rounded into another band. Correct if a call trades the whole spread or
  leaves it as it was, and says which; where it cannot, it must at least not overshoot,
  and must tell; its orders must be on the grid and reach the market, and the book must
  be told what was paid.
* **Tracker.** Margins, positions and book are read by separate requests while they
  change. Correct if a mismatch that stays is told, once, and what is no mismatch is not.
* **Loop.** Ticks outlive their coroutine at shutdown. Correct if ticks never overlap,
  neither job starves, and the process ends when it is told to.
* **Feed and cache.** Reconnects rebuild the subscriptions; a connection may be alive and
  silent; spot prices have no TTL. Correct if booked legs stay subscribed, silence is
  noticed, and no fresh quote comes with an old spot price.
* **Reports.** Each command has its own way to the same figure. Correct if they agree with
  each other, before and after a roll, and with what a close then books.
* **Collector.** Requests are slow or fail between the spot and the chain, and statements
  between a row and the log. Correct if rows, log and frames account for each other, the
  cadence does not drift, one asset's failure is its own, and a signal ends it.
* **Notifier.** `send` returns also when it suppresses, and posting is best effort.

## 2. Modules

| module | what it is |
|---|---|
| `TradeLifecycle` | abstract: what the book promises about one trade |
| `DecisionEngine` | engine, book, commands, settling of stuck rows, exchange, crashes; every verdict of the market a choice |
| `MCDecisionEngine`, `DecisionEngineClaims` | instances for TLC; two sentences of the documentation that do not hold |
| `DecisionEngineProofs`, `DecisionEngineRefinement` | types and safety; the engine implements `TradeLifecycle`, and book and exchange agree |
| `Fees`, `CalendarEngine`, `Scanner`, `Sizer` | fees; valuation and verdict; the search for spreads; quantity, caps and liquidity |
| `Strategy` | the engine with its numbers, in paper mode and in a replay |
| `Reports`, `MCStrategy`, `StrategyClaims` | what commands tell of the book that `Strategy` keeps; a small market; three sentences about figures that do not hold |
| `StrategyProofs` | sums over finite sets, safety of `Strategy` and `Reports`, the refinement of `TradeLifecycle` |
| `SpreadContract` | abstract: what the engine relies on when it calls the executor |
| `SpreadExecutor`, `SpreadExecutorProofs` | one call of the executor, request by request, against the exchange; safety proofs |
| `OrderPricing`, `MCOrderPricing`, `OrderPricingProofs` | the prices and amounts of a call; three price grids; safety proofs |
| `TickLoop`, `MarketFeed` | scheduler, lock and threads; connection, subscriptions and ages of data |
| `BotRuntime`, `MCBotRuntime`, `BotRuntimeProofs` | the two composed over the book; instance; safety proofs |
| `Notifier` | cooldown and posting of alerts |
| `PortfolioReconcile`, `PortfolioReconcileProofs` | `refresh()` composed with `Notifier` and a changing book; safety proofs |
| `Collector`, `MCCollector`, `CollectorProofs` | the collector, its tables and the loaders; two assets; safety proofs |

Definitions whose comment begins with *Fault:* are no part of a specification. Each is
a mutation of the definition next to it, as a bug in that code would be, and is listed
under `mutants` with the property that catches it.

### DecisionEngine

A tick is cut where it waits for the executor and, in `_mark_stuck_and_notify`, between
the flag in the book and the alert. Everything between two cuts is one action, because
ticks do not overlap; the event loop runs at the cuts, and the commands are actions that
are enabled always.

* `rows`, `exch`, `near_left`: the book, what Deribit holds for each trade (`flat`, the
  `spread` its row names, or something else, `drifted`) and the days to near expiry.
* `failures`, `pending`, `notified`, `just_entered`, `today_pnl`, `paused`, `state`: the
  attributes of `CalendarDecisionEngine` of these names.
* `tick`, `todo`, `open_count`, `call`: the locals of the tick under way. `call.fc` is the
  failure count read *before* the executor is called: `CloseFailed` and `RollFailed` write
  it back plus one, whatever `/close` did in between, as the code does.
* `tries`, `streak`, `alerts`, `day_pnl`, `faults`: history that no action reads.

`Evaluate(t)` has one action per way through `_monitor_position`, with the code's order
of tests: grace, data, expiry, signal, roll. `Return(t)` has one per result of the
executor, among them those where the trade is done and the row cannot be written
(`EnterUnrecorded`, `CloseUnrecorded`, `RollUnrecorded`). `Crash` is possible at every
cut, with the call under way done or not.

Abstractions: prices become what an evaluation concludes (no data, signal, neither); P&L
a small integer net of fees; the gates, the sizer and the re-entry cooldown the choice of
skipping a candidate. All of these are in `Strategy`. Left out: `fees_paid_today`,
unrealised P&L, and `rolled_this_tick`, which only narrows the choice of candidates; the
second look at the loss limit inside a scan, which cannot fire since nothing is realised
during a scan; the command line's `--drain` at a restart; instruments shared by two trades.

The operator is `Disciplined` in the runs and in the theorems that say so: `/close` only
on a stuck position that Deribit still holds, `/close_manually` only on a stuck one it
does not, which is what the alert on a stuck position asks for. Without that the commands
can be used on any row, closed ones included, and the theorems that do not assume it
hold then too.

### Strategy, with Scanner, Sizer, CalendarEngine and Fees

`Fees`, `CalendarEngine`, `Scanner` and `Sizer` are operators, each module extending the
one before; `Strategy` extends them with the ticks, whose steps are a candidate tried and a
position looked at. In `paper` mode tickers move the market between any two steps, so that a
candidate is rated on other quotes than it is gated, sized and bought on; the executor is
`DryRunExecutor`, the figures are the tracker's. In `backtest` mode `BacktestEngine.run`
feeds frames, drives the ticks in its order and makes its report; the executor is
`BacktestExecutor` with its slippage.

* `book` is the table of trades with the numbers of each row; `found` and `todo` are what a
  tick has still to try; `value` is `_portfolio_value`, read once per scan; `autos`,
  `pending`, `fails`, `fresh`, `todayPnl`, `halted` are the engine's attributes.
* Prices are whole numbers, hundredths of a per cent of the underlying in the instance.
  Time value and the log-normal distribution are constants (`TimeValue`, `LnCdf`), since
  floating-point arithmetic is out of reach; everything the code then does with them
  (intrinsic value, clamp, fees and their caps, floors to amount steps, break-evens from a
  grid, averages of samples, the cap on the score) is kept.
* Days to expiry are counted from midnight to the date of expiry (`Day`), by scanner and
  engine alike; a quote lasts until 08:00 of that date, after the first step of the day.
* A roll books what the code books: `load_calendar_state` does not return the premium that
  `_try_roll` asks it for, so the premium counts as zero and a roll is never a profit. The
  running P&L then has the roll twice once the row closes, which `claim_accounts` holds
  against the comment at `decision.py:1185`. `LedgerIsPrudent` says what is left: the running
  P&L never shows a smaller loss than the rows do, and no row books a loss beyond its debit,
  its opening fees and the losses booked for its rolls.
* `EntryKeepsTheLimits` takes `MIN_EV` to be above zero, as in `config.py`. With the -0.1 of
  `config_test.py` a spread that gains nowhere may be entered.

Left out: the margin gate (a simulation at Deribit), `fees_paid_today`, and commands, crashes
and failing calls, which `DecisionEngine` has. `Strategy` implements `TradeLifecycle` as
well, so that the two models of the engine meet in one abstraction.

### Reports

Operators over the same state, evaluated whenever a command could arrive: the queries of the
book, `/positions`, `/portfolio`, `/closed_trades`, `/pnl` with its curve, and the
statistics. Dates of `TIMEZONE` are ahead of the process's by `AestAhead`. `FiguresAgree` is
about the open rows and the curve. The closes of today and the statistics do not agree with
the book, and `StrategyClaims` has them against their docstrings. Left out:
`/status`, `/config` and the other commands that print one value, drawing and wording.

### SpreadExecutor

One call from its first request to its return, and what its orders do afterwards. `pc`
is the next request; the exchange may fill, partly fill or withdraw any open order
between two requests. An action of the executor covers the answer of one request and the
code up to the next one. The faults that may occur in a behaviour are chosen in `Init`:
refused requests, lost requests and answers, reversing orders that rest, combo orders
that fill in part or late. With no fault chosen, the orders of the legs still fill slowly, in
part and while they are cancelled, but a combo order fills whole or not at all, and only
while it is waited for, and reversing orders fill at once.

Left out: prices, grids and the slippage check, which `OrderPricing` has; paper mode, which
`Strategy` has; the fill summary, `find_stuck` and `reconcile_with_deribit` of the order
manager (nothing calls them), and the order clean-up at start. One call at a time; a
sequence of calls on the same position is planned.

`DecisionEngine` takes the executor at `SpreadContract`. The run `calls` shows when that
is justified (no fault in the sense above, entering and closing), and `claim_entry` and
`claim_roll` show where it is not: what the engine's properties say about the exchange
(`BookMatchesExchange`) is to be read with these two in mind. What they say about the
book, the counters and the alerts does not depend on the executor's honesty.

### OrderPricing

The same calls, seen as prices: from a quote in USD to an index price, to the grid in force
at that price, to an order, its fill, the slippage check and what is booked. A unit is
0.0001 of the underlying, to which `_index_price` rounds; prices on their way to `place_order`
are in hundredths of it. The executor may know the grid of an instrument or not (the
request for it failed), and then rounds to a unit. An order is refused if it is off the grid
or the amount step, filled at its price or better, or not filled in time; the rest of what can
happen to an order is `SpreadExecutor`'s. Deribit may report the fill of a combo by the prices
of its legs, by the net average price, or without a price, and the fill of a leg with or
without one; `told` is the set of those reported. Where nothing is reported the code books
its own limit. The new near leg of a roll is priced as
the near leg of an entry is, and is not modelled again.

### BotRuntime

`TickLoop` models the coroutines of the two jobs, the FIFO lock and the worker threads as
three things, because `scheduler.shutdown(wait=False)` cancels the first and not the
last. `MarketFeed` keeps ages instead of times; `TTL + 1` stands for "older or none".
`BotRuntime` couples them: a tick picks a leg with a fresh snapshot, its orders take
time, then the leg is stored; the feed reads the book once per connection. What the engine
decides is open. Left out: inline ticks (`TICK_OFFLOAD_ENABLED` off), RPC bookkeeping and
authentication, back-off times, the conversion of prices, the cancelling of open orders at
start. The collector's task and its end are in `Collector`.

### Notifier and PortfolioReconcile

`refresh()` is cut at its requests; positions, rows and commands change in between. One
position is one spread with margin `Unit` on both sides (charitable: the real book
figure is a net debit, Deribit's a portfolio margin), `Collateral` is margin asked for
without positions, `Drift` is mark to market. A unit of time is the shortest gap between two
scans (300 s), and a post (two attempts of 10 s) is shorter. Left out: e-mail, resting
orders as a source of margin, equity and the margin simulation. Available cash and
realised P&L of paper mode are in `Strategy`.
The sum over currencies and the single count on a cross-collateral account are one figure.

### Collector

One cycle asset by asset: request the spot, request the chain, write the rows, log the run,
commit; or roll back and log the error. `mode` is the way it runs: in a loop (`collect.py`),
once (`--once`) or as a task of the bot (`--collect`), which is cancelled where the others
get a signal. A price is abstracted to the moment it was read, so that a row tells how old its
spot is. `txn` holds what is not yet committed and is lost in a `Crash`. A failure may come
at any request or statement, or the exchange may return nothing. The loaders (`LoadFrames`,
`Gaps`, `Summary`) are operators over the table. `CollectorAssumption` demands an interval longer than a cycle can
take, which the configuration satisfies (300 s against 30 s per asset).


## 3. Runs

Every passing run checks a question of its own.

| run | question | instance |
|---|---|---|
| `book` | do book, exchange and counters agree, and does the engine implement `TradeLifecycle`, with a crash or database error at any cut? | two trades, two slots, one asset, one fault, wins and losses of 1, limit 1, cap 2, confirmation 2; about 1.3 million states |
| `live` | is a position that expired resolved, and a stuck one settled, with every command, missing data and a restart? | one trade, two assets, one fault; 106 thousand states |
| `strategy` | does every entry keep the limits, every position stay a calendar, is the running P&L on the side of caution, do the commands agree with each other and with the book? does the engine with its numbers implement `TradeLifecycle`? | three strikes (neighbours correlated), expiries of 3, 5 and 8 days, five states of the market, up to three trades of which two may be open, 6 steps of the clock with two to a day, replays of 8 frames; 77 thousand states |
| `calls` | does every call return, tell the truth and not overshoot; does it keep its contract while no request fails, combos fill at once or not at all, and what is reversed fills at once? | two contracts, two attempts, all three calls, no fault or all of them; 135 thousand states |
| `pricing` | are orders on the grid, do they reach what they are meant to reach, is an entry given up for its own price only, and is booked what was paid, as far as Deribit tells? | three price grids, quotes around the bounds of their bands, lots of 1 and 10, fills reported with and without a price; 441 thousand states |
| `runtime` | do ticks overlap, does a job starve, does the process end; are booked legs covered, silence noticed and spot prices fresh? | two legs, one asset, ages 0 and 1; 112 thousand states |
| `alerts` | is a mismatch that stays told, and told once? | one position, another alert key, cooldown 2, threshold 3, drift of 1 in 40, one fault; 83 thousand states |
| `collect` | do rows, log and frames account for each other, does the cadence hold, does the collector end? | two assets with up to two instruments, interval 5, timeout 1, clock to 11, one fault, three ways of running; 395 thousand states |

Why the bounds are enough. Two trades are what it takes for one to be in the executor
while another is in `todo`, full, or counted; a cap and a confirmation of 2 make "one too
few" and "one too many" differ from "never" and "at once"; two contracts make a
partial fill; two legs let one leave the day window while the other is booked; one
fault lies at every point of every behaviour, and what takes two faults is proved, not
checked, where a theorem covers it. Days go from 2 to 0 with the roll trigger at 1, so
a position is before the trigger, at it, and expired. In `alerts` the threshold exceeds the
cooldown by one, the least the assumption allows. `book` has no commands, since with two
trades and all commands the state space is too large; `live` has all of them with one
trade. With one trade and `MAX_POSITIONS` 2 the limit on positions does not bind in
`live`; nor does it in `book`, where both trades may be open.

In `strategy` it does: two positions of three trades. Three strikes have a pair that is
correlated and one that is not; the expiries give an entry, a roll and a second roll; the
states of the market are one to enter in, one in which a spread loses, one whose term
structure is inverted, one too thin to trade, and no data at all. Six half days let a stop,
its cooldown and an entry after it come to pass. In `pricing` the grids are one of
one band, one of two with a coarser upper band and one of three, and the candidates lie on
both sides of each bound. In `collect` an interval of 5 against cycles of at most 4 leaves
room for two cycles and the beginning of a third before the clock stops, so that a
cycle that is late can push the next, and a process that ended can have a gap behind it.

Violations, each against sentences of the documentation (`findings` quotes them):

| run | what happens |
|---|---|
| `claim_engine` | the losses of several days trip the limit on those of today, since they are never reset at midnight; and a position is closed on signals of ticks that did not follow one another, since a tick without data leaves their counter as it was |
| `claim_entry` | a combo that fills while it is cancelled is down as cancelled, and the legs are entered on top; and Deribit refuses the far one, and the sold near leg stays |
| `claim_roll` | a roll whose new leg does not fill leaves the position without near leg |
| `claim_accounts` | a roll is counted twice in the running P&L; what closed between midnight in `TIMEZONE` and midnight of the process is not among the closes of today; and the statistics leave out what was closed for want of a roll |

Three of these runs check that *one* of several sentences holds, `A \/ B`. A behaviour that
refutes the disjunction is against every sentence in it, so that each of the findings is shown
by one and the same counterexample. `claim_accounts` has the instance of `strategy` with three
more steps of the clock, for a position to be rolled and then to find no leg to roll into.

**Deadlock** is allowed (`CHECK_DEADLOCK FALSE`) where the system may stop: a halted or
paused bot with no open position and nobody giving commands does nothing more; one call of
the executor, or its pricing, ends; a replay ends with its frames and the clock of a paper
run is bounded; a process that was told to end has ended. `alerts` checks for it.

## 4. Fairness

* `DecisionEngine`: a tick that has begun goes on (weak), since every request has a timeout
  (`RPC_TIMEOUT_SEC`, the fill deadlines). The monitor starts again and again (strong),
  since its job fires every minute and the FIFO lock is served in order; strong, because
  the other tick disables it in between. Deribit answers a refresh now and then, and an
  expired position has a price now and then (both strong): the feed replaces a silent
  connection, and an exchange that never answers again can settle nothing. Nothing is
  assumed of the operator, of a call's success or of the calendar.
* `SpreadExecutor`: the executor's next step is taken (weak): requests and waits are bounded.
* `BotRuntime`: what the event loop has to do it does (weak), and so do clock, watchdog
  and shutdown. A tick ends (strong, as it is disabled while an entry is under
  way, which itself ends). Nothing is assumed of tickers, connects and job intervals.
* `PortfolioReconcile`: refreshes, time and posts go on (weak). Nothing is assumed of the
  book, the exchange or other alerts. That refreshes go on is what the scan job does
  while the bot is neither paused nor halted.
* `Collector`: its own steps and the clock go on (weak): requests end by their timeout.
  Nothing is assumed of answers, signals or crashes.
* `Strategy` and `OrderPricing` state none: what they promise is safety.

## 5. Proofs

All theorems hold for every value of the constants that satisfies the assumptions of the
modules. These say that limits are numbers and sets are finite, with a few exceptions:
`Cooldown < EscalateAfter` in `PortfolioReconcile`, which the configuration satisfies (300 s
against twelve scans of 300 s) and the code does not enforce; `EscalationIsTold` fails
without it. In `OrderPricing` a band of a price grid begins on a price of its own, and the
spot is odd, so that no price is half-way between two and Python's rounding to even needs no
model; `GridAssumption` says what grids are like on Deribit: bands ascend, begin on the grid
of the one below and are no finer than it, and quotes lie on the grid. Only `GridHolds` and
`ReachHolds` use it, and `BookedHolds` for the half tick. In `Collector` the exchange names
each instrument once, and a cycle is shorter than the interval. What a
theorem assumes beyond that stands in the theorem.

**Engine.** `TypeCorrect`; then, in `DecisionEngineProofs`:

* `LossLimitHolds` for any operator. Needed: a scan and a close are never in the executor
  together (`CallInv`), so nothing is realised while a scan is under way, which began below
  the limit (`LimitInv`).
* `CloseIsConfirmed` for any operator and any data. Needed: the counter never runs ahead of
  the ticks that saw a signal since one looked and saw none (`PendingInv`). Ticks without data
  do not look: that such ticks may lie between is what `claim_engine` shows against the
  documentation, which speaks of consecutive ticks.
* `OnlyMonitoredIsTraded`, `StuckHadItsFailures`, `StuckIsToldOnce`, `ClosedRowsStay` for a
  disciplined operator, from `SafeInv`. An unused row is open and only open rows are stuck
  (`RowInv`); what the tick has still to visit, and what the executor works on, is as it
  was when the tick began, because the only writes that can come in between are to stuck
  rows, and the monitor does not hold those (`TodoInv`, `HeldInv`); the engine's counter,
  and the copy a call took with it, never exceed the failures there were (`CountInv`,
  `LateInv`), which a restart cannot break since it sets the counter to zero; an
  announcement is due only where none was made, `/close` between flag and alert included
  (`AlertInv`). Each part has a lemma with a step per action.
* `BookAgrees` (`DecisionEngineRefinement`), before the first fault, for a disciplined
  operator who does not change the assets: `AgreeInv` says of every row what Deribit then
  holds, and with `SafeInv` every step writes one row and one holding that match. The
  second assumption is needed: a stuck position of an asset that was deconfigured is
  settled in the book though Deribit still holds it (section 6).
* `EngineImplementsLifecycle`: with `SafeInv`, every step is a step of `TradeLifecycle` or
  stutters. `tries` is what the abstract `failed` stands for: the engine's own counter is
  lost in a crash and would not do.

**Executor**, for any quantity, number of attempts and set of faults.

* `FilledHolds` and `ReversalHolds` from `ExecInv`: an order that the executor knows is its
  own and stays as it was sent; for each place in a call, which orders it knows and which of
  them are whole; an order is reversed only by a call that is on its way to failing
  (`Failing`), for no more than was seen filled.
* `SideHolds` from `SideInv`. `OrdersLaw`: what each order is for, its direction and its
  bound. `HeldLaw`: what a leg has traded net is at least what its known order filled less
  what was traded back, and at most what the one order of a close or roll filled.
  `PlaceLaw`: where a call may be that has sent a leg, or traded it back, so that neither
  happens twice.
* `ContractHolds` from `CalmInv`, for entries and closes with no fault: no request fails, a
  combo fills at once and whole or not at all, and reversing orders fill at once. It needs
  more than bounds: at each place in the call only the order being awaited, and the far leg
  of a close, may still fill (`LiveLaw`); a leg has traded exactly what its order and the
  combo have filled, or is back where it was (`ExactLaw`); a combo fills whole and then the
  call ends (`ComboLaw`); and what is traded of the other leg where the call goes on
  (`TradedLaw`). So the position at the return is one of the two the contract knows, and no
  order is left that could move it.

**Prices**, for any prices, grids and amount steps.

* `AdverseHolds` from `PricingInv`, which says at each stage of a call how its orders came from
  the quote: a fill at the limit or better is worse than the slippage check allows only when
  rounding made the limit so, or when the limit stands in for a fill without a price.
* `BookedHolds` from `BookedInv`, which follows each order to what is booked of it. What
  Deribit reports is booked as it is. What it does not report is booked at the limit
  before rounding, from which the order is half a tick at most, and a fill is not worse than
  the order; so the book errs by half a tick to the good, and to the bad by any improvement.
* `GridHolds`: rounding never leaves its band, though it may land on the beginning of
  the next, and there the price is on both grids.
* `ReachHolds`, with `SentInv`: at which price each order of an entry was meant, a grid once
  known is known to all later orders of the leg, and nothing is ordered after a leg was reversed.
  The rest is about rounding, and says more than an instance can: it keeps the order of prices
  across bands (`RoundRises`), does not cross a price of the grid (`RoundReaches`), and is off
  by half a tick of where it lands at most (`RoundNear`). Five per cent of 21 ticks is more
  than the two halves together, which is where the 21 in the property comes from. Assumed is
  `ReversePct >= 5`, as in the code.

**Runtime.** `OneTickHolds`: while the scheduler runs, a thread has its coroutine and
the coroutine the lock; afterwards there is no coroutine left that could start another
(`LockInv`). `CoverageHolds` and `FreshnessHolds` are inductive with the types.

**Reconciliation.** `EscalationHolds`, `OneAlertHolds`, `CollateralHolds` from
`ReconcileInv`: the tracker's fingerprint is what the refreshes met (`SeenInv`), and as long
as the mismatch has not been told, as many units have passed since the key was stamped as
the mismatch was counted, plus those begun and not yet counted (`TimeInv`). So when the
count reaches the threshold, the cooldown is over.

**Strategy**, for any market, limits, capital and number of rows. `PricesAreNumbers`, which
the theorems assume, says of the two constants that stand for floating-point formulas that
time value is a whole number and the distribution a percentage. `TimeIsWorth`, which
`LedgerHolds` assumes too, says that an option is never worth less for living longer; the
code's Black-Scholes has that, since `RISK_FREE_RATE` is 0 (`config.py:154`).

* The module begins with sums. What a fold over a finite set computes cannot be had by the
  library's induction, so it is had from well-founded choice: of the sets for which a claim
  fails, one has the fewest elements (`Smallest`). That gives the equation of
  `SumFunctionOnSet`, that an element adds its value whatever order the fold takes (`SumAdd`),
  and that one changed value changes the sum by the difference (`SumChange`).
* Then what the scanner, the sizer and the fees return: a candidate is one series in order of
  expiry with a positive debit, and gains at a sample if its expected value is above zero
  (`Candidate`); an approved quantity costs no more than may be lost (`SizedIs`).
* `StepEffects` reads every step as one of five things done to the book: nothing, an entry,
  a mark, a close or a roll. All invariants are proved from those five; `ShapeInv` is the
  types, the soundness of every row, and that the monitor visits monitored positions.
* `CalendarHolds` is a part of `ShapeInv`. `ApartHolds` is inductive with it: a roll stays in
  its series, and an entry was sized against every position there is, those of the same
  scan included.
* `LedgerHolds` from `LedgerInv`: the running P&L is the sum over the closed rows and all rolls,
  followed through `SumAdd` and `SumChange`. What it counts twice are the rolls of closed rows,
  and no roll is a profit, so that it is never above what the rows say. A close books no loss
  beyond debit, opening fees and rolls because the value is clamped or, without quotes, is
  that of the model.
* `EntriesKeepTheLimits`, with `CoolInv`: the time at which a series last cooled is no
  earlier than any close on a signal in it. The budget follows by `SumAdd` from the sizer's
  cap, since the new row is none of those counted.
* `StrategyImplementsLifecycle`, with `FailInv`: failures are held against monitored
  positions only and never beyond the cap.
* `ReportHolds`: the clock stands still in a replay, so no row is ever rolled and the engine's
  total is that of the closes (`ReplayInv`); a replay that is done has its report and changes
  no more (`DoneInv`). Counts, total and drawdown of the report are folds, compared by the
  same sums.
* `FiguresHold`, with `DateInv` (closed rows have a closing date, never one to come, and no
  others have): the curve of
  `/pnl` sorts closed rows by date and id, so that the rank of a row is the number of rows up to
  it, and the last point of the curve is the sum over all of them, as the last of each day is
  over those closed until then. Stuck rows are what tells `/positions` from `/pnl`.
  `ClosesCostFees`: a close moves a row from the unrealised sum to the realised one
  (`SumAdd`, `SumChange`), and the fees are what changes on the way.

**Collector**, for any assets, chains, interval, number of faults, and each way of running.
`CollectorInv` has a part for each question that the two theorems ask.

* `CadenceHolds`: a cycle is over before the next is due, since each asset has two requests and
  each request its timeout (`ClockInv`); so while nothing fails every cycle adds rows of every
  asset, and the next ones come within an interval and a cycle (`PaceInv`).
* `TableHolds`: what is in hand is one fetch of this moment, and the transaction a beginning of
  it (`HandInv`); a run that ended well stored its rows at the moment it ended, which no other
  run of the asset shares, and there are no other rows (`RunsInv`); for this the rows of an
  asset have to be older than the cycle until its turn comes (`RowsInv`); what the cycle
  reports is what the table gained since it began (`DoneInv`, `GainInv`).

**Only model-checked:** liveness (`ExpiredIsResolved`, `FlatStuckIsSettled`, `Returns`,
`StallIsBroken`, `MonitorIsServed`, `SignalEndsTheBot`, `MismatchIsTold`, `StopEnds`), which
is out of the proof system's reach. Every safety property of a passing run has its theorem.

## 6. Observations

What reading and modelling the code showed besides the findings, without a run of its own:
limits of the code or of its documentation. Many are also listed as hazards.

Engine and book

* A roll is booked as a loss. `load_calendar_state` returns no `near_prem` or `far_prem`, so
  the premium `_try_roll` asks for counts as zero (`decision.py:1361`) and the roll books
  what the new leg cost to come by; a loss that nobody made may trip the daily limit, and
  the same money is counted again at the close (`claim_accounts`). `LedgerIsPrudent` says that
  both err on the side of the halt.
  The fallback for the exit fee is zero for the same reason.
* A roll may go backward: only the near leg held is skipped (`decision.py:1290`, "first
  genuine forward roll").
* Failed rolls and failed closes share one budget (`decision.py:999`), so "close failed N
  times" may be about rolls alone; README.md:62 describes it for closes. A close in
  drain mode that fails is counted nowhere and retried every tick (`decision.py:989`).
* The process may die between the stuck flag and its alert (`decision.py:1080`). After the
  restart the row is stuck, so nothing announces it again (`db/state.py:745`).
* `/stop_bot` and `/start_drain` do not stop a tick that has begun (`decision.py:301`), while
  their replies (`handlers.py:303`, `340`) speak as if they took effect at once.
* `MAX_POSITIONS` and the sizer's cap on risk do not count stuck positions
  (`decision.py:416`), though Deribit holds them.
* `update_near_leg` leaves `near_days` of the entry in the row (`db/state.py:408`), which the
  roll test compares with (`decision.py:979`).
* An expired position is closed at `last_spread_value`, which after a roll may still be that
  of the pair before it.
* The scanner takes missing break-evens (0, 0) for a profit everywhere; the minimum
  expected value is what then keeps such a spread out. The liquidity gate does not ask for
  sizes of a leg that has no snapshot.
* Like the statistics (`claim_accounts`), `_build_result` (`engine.py:260`) leaves out rows
  "Closed (Roll Failed)" and "Closed (Drain)".

Executor and prices

* The slippage check of the near leg (`executor.py:1127`) compares the fill with the quote,
  not with the rounded limit. Rounding alone (0.0052 to 0.0050) may exceed 2 %: the
  error leaves the near leg sold and `enter_spread` returns None, where `executor.py:553`
  calls an adverse fill "in principle unreachable". A far leg off the grid, because the
  request for its grid failed, is refused with the same result. `AdverseByRounding` says that
  nothing else gives an entry up for its price. It is kept as a property that holds and shows
  how the branch is reached.
* When Deribit reports neither prices of the legs nor an average price of a combo, the price of
  the order or the limit is booked (`executor.py:839`), where the docstring (`executor.py:818`)
  says that the split "keeps the recorded net debit exact". An improved fill then shows as a
  dearer one. `BookedIsPaid` is exact where a price is reported, and bounds the error where
  none is.
* What undoes an entry is priced 5 % through the order it undoes, with no look at the market,
  so that it rests when the market has moved further; below some twenty ticks it may round back
  to the very price it comes from. `OrdersReach` promises no more; only a close is priced from
  the quotes. A reversing order is neither tracked nor waited for (`executor.py:733`); a call
  may return with the leg still open and nobody told. A failed FLATTEN or UNWIND of a whole
  leg is only logged, other than a failed flatten of a partial fill, which is alerted.
* Credits of a close are converted at the spot of the entry (`executor.py:1257`). The
  quantity booked is the one asked for: right as long as Deribit's amount step is the one in
  `config`. Grids are cached for good. A far leg refused in a close cancels the near
  one without a look at what it filled.
* `DryRunExecutor` does not set `via_combo`, so that entries on paper pay for both legs.

Tracker and reports

* A failed request in `_describe_deribit_positions` counts as an empty answer
  (`tracker.py:594`): the mismatch changes its fingerprint, or looks like collateral, and a
  second alert may follow. README.md:180 says the flag clears only when the mismatch
  resolves. While the API is offline the margin of the last refresh is compared again.
* With no margin at all on Deribit's side the comparison does not run (`tracker.py:296`): a
  book whose positions have all gone is never compared on an account without collateral.
* `sync_stuck_positions` asks for the currencies of `config.ASSETS` only (`tracker.py:627`): a
  stuck position of an asset that was deconfigured is recorded closed while Deribit holds it.
* Margin and counts of the book leave out rows "Near Leg Rolled" (`tracker.py:760`), so a
  rolled position raises an alarm without a mismatch, though `tracker.py:164` speaks of all
  open positions. `tracker.py:844` calls a `get_ticker` that the cache does not have, so that
  unrealised P&L is zero on paper; `bot.py` hands the tracker no cache in any case.
* `/pnl` counts a position without quote and last value as zero and leaves stuck ones out;
  `/positions` shows both; `/portfolio` does not fall back to the last value.
  `FiguresAgree` says where they must meet.
* `/closed_trades` and the P&L of today compare a date of `TIMEZONE` with dates of the process
  (`state.py:509`), which `claim_accounts` shows for the latter.

Feed, notifier, replay, collector

* A post that fails twice is lost (`notifier.py:426`), and what makes an alert one-shot is
  set already. If `send` raises, the stamp stays, the retry is suppressed and counts as made.
* The feed reads the book once per connection (`deribit_feed.py:284`). A leg picked before
  a reconnect and stored after it may stay without market data until the next one.
  The day window is read as rarely, so new expiries need a reconnect.
* The age of the last ticker is one for all assets (`deribit_feed.py:320`): one silent asset
  is not noticed.
* `get_spot` has no TTL, against `chain_cache.py:8`; `SpotIsAsFreshAsQuote` says why a fresh
  snapshot still never comes with an older spot price.
* The loaders set no sizes of bid and ask, so that with `REQUIRE_LEG_SIZE_DATA` on
  (`config.py:141`) a replay of collected data enters nothing; days to expiry of old data are
  counted from now. The re-entry cooldown of a replay runs in real time. Slippage makes the
  debit booked exceed the one that was sized. `_max_drawdown` starts from the first point
  of the curve.
* The collector stores quotes in coin (`data_collector.py:108`), the feed converts them to USD
  (`deribit_feed.py:398`). An empty chain leaves no entry in the log. `--interval` shorter
  than a cycle could merge two fetches of one second; `CollectorAssumption` excludes it.

## 7. Not modelled

* The margin gate and the margin simulation (figures of Deribit's risk engine),
  `fees_paid_today`, equity of real accounts.
* Ticks inline in the event loop (`TICK_OFFLOAD_ENABLED` off), the clean-up of open orders at
  start, RPC bookkeeping, authentication, back-off times.
* Black-Scholes prices, greeks and the volatility solver: floating-point arithmetic, given to
  `CalendarEngine` as constants.
* `/status`, `/config` and other reports that print one value, drawing, argument parsing, the
  polling listener, e-mail, wording; command lines, file formats and the viewer of the
  collected data; logging, which keeps no state that the bot reads.
* The scripts under `scratch/`, trials of requests against Deribit that the bot does not use.

## 8. Plan

Done: `TradeLifecycle` and `DecisionEngine` with its proofs, `SpreadContract` and
`SpreadExecutor`, `TickLoop`, `MarketFeed` and `BotRuntime`, `Notifier` and
`PortfolioReconcile`; then the numbers of the engine (`Fees` to `Strategy`), `Reports`,
`OrderPricing` and `Collector`; theorems on every safety property that a passing run checks.

Next, the most important first:

1. **Sequences of calls.** `SpreadExecutor` for a position that is entered, rolled and
   closed in turn, with orders of earlier calls still on the exchange; then
   `DecisionEngine` over that executor instead of over its contract, to say which of the
   engine's properties survive a call that leaves half a spread.
2. **What survives a bad call**: theorems on the engine's book that do not need the
   contract, stated over the executor of item 1.
3. **Alerts of the engine** through `Notifier` instead of taken as told.
4. **Tracker**: equity of segregated and cross-collateral accounts, fees of the day.

The book's counting properties stay in one run with its refinement, since they share
their state space; new runs are for new questions only.
