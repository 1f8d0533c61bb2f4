--------------------------- MODULE DecisionEngine ---------------------------
(***************************************************************************)
(* The decision engine of the calendar-spread bot (strategy/decision.py)   *)
(* with the trade book it keeps in SQLite (db/state.py), the Telegram      *)
(* commands that write to both (telegram_cmd/handlers.py), the exchange as *)
(* far as the engine can tell, and the crash and restart of the process.   *)
(*                                                                         *)
(* Scan and monitor ticks run one at a time in a worker thread             *)
(* (monitor/loop.py, _tick_lock).  A tick is cut where it waits for the    *)
(* executor: the engine reads its counters before the call and writes them *)
(* after it, and the Telegram handlers, on the event loop, run in between. *)
(* The executor is taken at its word here: it opens, closes or rolls the   *)
(* whole spread, or fails and leaves it as it was.                         *)
(*                                                                         *)
(* Prices are abstracted to what an evaluation concludes from them: no     *)
(* data, a stop or take-profit signal, or neither.  P&L is a small integer *)
(* net of fees.                                                            *)
(***************************************************************************)
EXTENDS Integers, FiniteSets

CONSTANTS
  Trade,             \* identities of calendar trades, one per row
  NoTrade,           \* no trade at all
  Asset,             \* underlyings
  AssetOf,           \* the underlying of each trade
  MAX_POSITIONS,     \* config.MAX_POSITIONS
  RetryCap,          \* config.POSITION_FAILURE_RETRY_CAP
  ConfirmTicks,      \* config.CLOSE_CONFIRM_TICKS
  RollTrigger,       \* config.ROLL_TRIGGER_DAYS
  EntryDays,         \* days to near expiry that an entry may have
  RollDays,          \* days to near expiry that a roll may reach
  LossLimit,         \* config.DAILY_LOSS_LIMIT
  ClosePnl,          \* what closing can earn, fees deducted
  RollPnl,           \* what rolling can earn
  Disciplined,       \* the operator uses /close and /close_manually as documented
  Commands,          \* the Telegram commands that the operator uses
  MaxFaults          \* bound on crashes and database errors together

ASSUME EngineAssumption ==
  /\ IsFiniteSet(Trade)
  /\ NoTrade \notin Trade
  /\ AssetOf \in [Trade -> Asset]
  /\ MAX_POSITIONS \in Nat \ {0}
  /\ RetryCap \in Nat \ {0}
  /\ ConfirmTicks \in Nat \ {0}
  /\ RollTrigger \in Nat
  /\ EntryDays \subseteq Nat \ {0}
  /\ RollDays \subseteq Nat \ {0}
  /\ LossLimit \in Nat \ {0}
  /\ ClosePnl \subseteq Int
  /\ RollPnl \subseteq Int
  /\ Disciplined \in BOOLEAN
  /\ Commands \subseteq {"stop_bot", "start_bot", "start_drain",
                         "drain_and_new", "start_with_assets"}
  /\ MaxFaults \in Nat

VARIABLES
  (* The trade book, which survives a crash. *)
  rows,          \* calendar_trades: one row per trade
  (* The exchange and the calendar. *)
  exch,          \* what Deribit holds for the trade
  near_left,     \* days until the near leg of an open row expires
  (* The engine's memory. *)
  state, paused, today_pnl, just_entered, failures, pending, notified,
  (* config.*, rewritten by Telegram commands. *)
  mode, assets,
  (* The tick in the worker thread. *)
  tick,          \* which tick is running, if any
  todo,          \* what it has still to visit: positions of its snapshot, or candidates
  open_count,    \* scan tick: the length of its own list of open positions
  call,          \* the call the tick is waiting for
  (* History, read by no action of the system. *)
  tries,         \* failed attempts since entry, /close or a roll, up to RetryCap
  streak,        \* ticks that saw a stop or take-profit signal since one saw none,
                 \* the last attempt to close on it or the last start
  alerts,        \* stuck alerts since entry or /close, -1 if /close came before a late one
  day_pnl,       \* P&L the engine realised since the last midnight
  faults         \* crashes and database errors so far

bookVars   == <<rows, exch, near_left>>
memVars    == <<state, paused, today_pnl, just_entered, failures, pending, notified>>
configVars == <<mode, assets>>
tickVars   == <<tick, todo, open_count, call>>
histVars   == <<tries, streak, alerts, day_pnl, faults>>
vars       == <<bookVars, memVars, configVars, tickVars, histVars>>

-----------------------------------------------------------------------------
(* The trade book. *)

OpenResults   == {"Open", "Near Leg Rolled"}
ClosedResults == {"Auto", "Manual", "Closed"}

NoRow == [result |-> "none", close_status |-> "open",
          near_days |-> 0, roll_pnl |-> 0, pnl |-> 0]

Row == [result : {"none"} \cup OpenResults \cup ClosedResults,
        close_status : {"open", "closed", "close_stuck"},
        near_days : Nat, roll_pnl : Int, pnl : Int]

(* The row is open on the exchange, stuck or not. *)
Visible(t) == rows[t].result \in OpenResults

Stuck(t) == rows[t].close_status = "close_stuck"

(* Fault: a stuck row is monitored like any other. *)
MonitoredStuck(t) == Visible(t)

(* The row is in the monitor's read path. *)
Monitored(t) == Visible(t) /\ ~ Stuck(t)

(* Fault: the read path does not leave stuck positions out. *)
OpenPositionsWithStuck == {t \in Trade : Visible(t)}

(* Fault: the read path does not ask for the result. *)
OpenPositionsOfAnyResult == {t \in Trade : rows[t].result # "none"}

OpenPositions == {t \in Trade : Monitored(t)}

InsertRow(days) == [NoRow EXCEPT !.result = "Open", !.near_days = days]

CloseRow(r, pnl) ==
  [r EXCEPT !.result = "Auto", !.close_status = "closed", !.pnl = pnl]

RollRow(r, pnl) ==
  [r EXCEPT !.result = "Near Leg Rolled", !.roll_pnl = @ + pnl]

(* Fault: the flag is not written. *)
StickRowUnflagged(r) == r

StickRow(r) == [r EXCEPT !.close_status = "close_stuck"]

ResetRow(r) == [r EXCEPT !.close_status = "open"]

ManualRow(r, pnl) ==
  [r EXCEPT !.result = "Manual", !.close_status = "closed", !.pnl = pnl]

ReconcileRow(r) ==
  [r EXCEPT !.result = IF @ \in OpenResults THEN "Closed" ELSE @,
            !.close_status = "closed"]

(* Fault: an answer that lists nothing is taken for an empty account. *)
LegsLookGoneUnasked(t) == t \in Trade

(* Both legs look gone from Deribit: only the configured assets are asked. *)
LegsLookGone(t) == exch[t] = "flat" \/ AssetOf[t] \notin assets

-----------------------------------------------------------------------------
(* The call the tick waits for, and the exchange's side of it. *)

Calls == [op : {"none", "enter", "close", "roll", "alert"},
          trade : Trade \cup {NoTrade},
          why : {"none", "expired", "signal", "drain", "roll cap", "known", "news"},
          fc : 0..RetryCap]

NoCall == [op |-> "none", trade |-> NoTrade, why |-> "none", fc |-> 0]

Waiting(op, t) == call.op = op /\ call.trade = t

Start(op, t, why) ==
  call' = [op |-> op, trade |-> t, why |-> why, fc |-> failures[t]]

(* Closing sells what the spread holds; without a spread it opens one. *)
AfterClose(held) == IF held = "spread" THEN "flat" ELSE "drifted"

(* Rolling replaces the near leg that the row names. *)
AfterRoll(held) == IF held = "spread" THEN "spread" ELSE "drifted"

(* One more failure, counted no further than the cap. *)
OneMore(n) == IF n < RetryCap THEN n + 1 ELSE n

Cleared(f, S) == [t \in Trade |-> IF t \in S THEN 0 ELSE f[t]]

(* History and calendar of rows that are closed for good. *)
Retire(S) ==
  /\ near_left' = Cleared(near_left, S)
  /\ tries' = Cleared(tries, S)
  /\ alerts' = Cleared(alerts, S)

-----------------------------------------------------------------------------

BookType ==
  /\ rows \in [Trade -> Row]
  /\ exch \in [Trade -> {"flat", "spread", "drifted"}]
  /\ near_left \in [Trade -> Nat]

MemoryType ==
  /\ state \in {"IDLE", "SCAN", "RANK", "ENTER", "MONITOR", "HALTED"}
  /\ paused \in BOOLEAN
  /\ today_pnl \in Int
  /\ just_entered \subseteq Trade
  /\ failures \in [Trade -> 0..RetryCap]
  /\ pending \in [Trade -> 0..ConfirmTicks]
  /\ notified \subseteq Trade
  /\ mode \in {"normal", "drain", "drain_and_new"}
  /\ assets \subseteq Asset

TickType ==
  /\ tick \in {"none", "scan", "monitor"}
  /\ todo \subseteq Trade
  /\ open_count \in Nat
  /\ call \in Calls

HistoryType ==
  /\ tries \in [Trade -> 0..RetryCap]
  /\ streak \in [Trade -> 0..ConfirmTicks]
  /\ alerts \in [Trade -> -1..2]
  /\ day_pnl \in Int
  /\ faults \in 0..MaxFaults

TypeOK == BookType /\ MemoryType /\ TickType /\ HistoryType

Zeros == [t \in Trade |-> 0]

Init ==
  /\ rows = [t \in Trade |-> NoRow]
  /\ exch = [t \in Trade |-> "flat"]
  /\ near_left = Zeros
  /\ state = "IDLE"
  /\ paused = FALSE
  /\ today_pnl = 0
  /\ just_entered = {}
  /\ failures = Zeros
  /\ pending = Zeros
  /\ notified = {}
  /\ mode = "normal"
  /\ assets = Asset
  /\ tick = "none"
  /\ todo = {}
  /\ open_count = 0
  /\ call = NoCall
  /\ tries = Zeros
  /\ streak = Zeros
  /\ alerts = Zeros
  /\ day_pnl = 0
  /\ faults = 0

-----------------------------------------------------------------------------
(* What both ticks do first. *)

(* Fault: the limit itself is still allowed. *)
LimitBreachedStrictly == today_pnl < -LossLimit

LimitBreached == today_pnl <= -LossLimit

TickMayStart == tick = "none" /\ ~ paused /\ state # "HALTED"

HaltOnLoss ==
  /\ TickMayStart
  /\ LimitBreached
  /\ state' = "HALTED"
  /\ UNCHANGED <<bookVars, paused, today_pnl, just_entered, failures, pending,
                 notified, configVars, tickVars, histVars>>

RestState(open) == IF open = {} THEN "IDLE" ELSE "MONITOR"

-----------------------------------------------------------------------------
(* scan_tick *)

(* Fault: only those that this process has told the operator of. *)
GoneIfNotified == {t \in notified : Stuck(t) /\ LegsLookGone(t)}

(* The stuck rows that portfolio.refresh() finds gone from Deribit. *)
Gone == {t \in Trade : Stuck(t) /\ LegsLookGone(t)}

(* It settles them all, or none when the API does not answer. *)
SyncStuckPositions ==
  \E S \in {{}, Gone} :
    /\ rows' = [t \in Trade |-> IF t \in S THEN ReconcileRow(rows[t]) ELSE rows[t]]
    /\ Retire(S)

(* The tick ends before it scans (no cash, drain mode) or finds nothing. *)
ScanSkipped ==
  /\ TickMayStart
  /\ ~ LimitBreached
  /\ SyncStuckPositions
  /\ \/ state' = "IDLE"
     \/ mode = "drain" /\ state' = RestState(OpenPositions)
  /\ UNCHANGED <<exch, paused, today_pnl, just_entered, failures, pending, notified,
                 configVars, tickVars, streak, day_pnl, faults>>

(* Trades that the scanner could propose. *)
Candidates ==
  {t \in Trade : rows[t].result = "none" /\ exch[t] = "flat" /\ AssetOf[t] \in assets}

ScanStart ==
  /\ TickMayStart
  /\ ~ LimitBreached
  /\ mode # "drain"
  /\ Candidates # {}
  /\ SyncStuckPositions
  /\ state' = "RANK"
  /\ tick' = "scan"
  /\ todo' = Candidates
  /\ open_count' = Cardinality(OpenPositions)
  /\ UNCHANGED <<exch, paused, today_pnl, just_entered, failures, pending, notified,
                 configVars, call, streak, day_pnl, faults>>

(* size_candidate and the gates approve a candidate; the others are skipped. *)
ScanEnter(t) ==
  /\ tick = "scan"
  /\ call.op = "none"
  /\ t \in todo
  /\ open_count < MAX_POSITIONS
  /\ state' = "ENTER"
  /\ todo' = todo \ {t}
  /\ Start("enter", t, "none")
  /\ UNCHANGED <<bookVars, paused, today_pnl, just_entered, failures, pending,
                 notified, configVars, tick, open_count, histVars>>

EnterFilled(t) ==
  /\ Waiting("enter", t)
  /\ \E days \in EntryDays :
       /\ rows' = [rows EXCEPT ![t] = InsertRow(days)]
       /\ near_left' = [near_left EXCEPT ![t] = days]
  /\ exch' = [exch EXCEPT ![t] = "spread"]
  /\ just_entered' = just_entered \cup {t}
  /\ open_count' = open_count + 1
  /\ call' = NoCall
  /\ UNCHANGED <<state, paused, today_pnl, failures, pending, notified, configVars,
                 tick, todo, tries, streak, alerts, day_pnl, faults>>

EnterRejected(t) ==
  /\ Waiting("enter", t)
  /\ call' = NoCall
  /\ UNCHANGED <<bookVars, memVars, configVars, tick, todo, open_count, histVars>>

(* An exception leaves scan_tick; the engine stays in ENTER. *)
AbortScan ==
  /\ call' = NoCall
  /\ tick' = "none"
  /\ todo' = {}
  /\ open_count' = 0

(* LegRiskError: one leg could not be filled and the other was given back. *)
EnterRaised(t) ==
  /\ Waiting("enter", t)
  /\ AbortScan
  /\ UNCHANGED <<bookVars, memVars, configVars, histVars>>

(* The entry is filled but create_calendar_trade fails: no row has it. *)
EnterUnrecorded(t) ==
  /\ Waiting("enter", t)
  /\ faults < MaxFaults
  /\ exch' = [exch EXCEPT ![t] = "spread"]
  /\ faults' = faults + 1
  /\ AbortScan
  /\ UNCHANGED <<rows, near_left, memVars, configVars, tries, streak, alerts,
                 day_pnl>>

ScanFinish ==
  /\ tick = "scan"
  /\ call.op = "none"
  /\ tick' = "none"
  /\ todo' = {}
  /\ open_count' = 0
  /\ state' = IF open_count = 0 THEN "IDLE" ELSE "MONITOR"
  /\ UNCHANGED <<bookVars, paused, today_pnl, just_entered, failures, pending,
                 notified, configVars, call, histVars>>

-----------------------------------------------------------------------------
(* monitor_tick: its snapshot, and one position of it at a time. *)

MonitorEmpty ==
  /\ TickMayStart
  /\ ~ LimitBreached
  /\ OpenPositions = {}
  /\ state' = "IDLE"
  /\ just_entered' = {}
  /\ failures' = Zeros
  /\ pending' = Zeros
  /\ UNCHANGED <<bookVars, paused, today_pnl, notified, configVars, tickVars,
                 histVars>>

MonitorStart ==
  /\ TickMayStart
  /\ ~ LimitBreached
  /\ OpenPositions # {}
  /\ state' = "MONITOR"
  /\ tick' = "monitor"
  /\ todo' = OpenPositions
  /\ UNCHANGED <<bookVars, paused, today_pnl, just_entered, failures, pending,
                 notified, configVars, open_count, call, histVars>>

(* _monitor_position goes on after the grace check. *)
Evaluating(t) ==
  /\ tick = "monitor"
  /\ call.op = "none"
  /\ t \in todo
  /\ t \notin just_entered

Done(t) == todo' = todo \ {t}

(* Faults: one attempt too few, one too many. *)
ExhaustedEarly(t) == failures[t] >= RetryCap - 1
ExhaustedLate(t) == failures[t] > RetryCap

Exhausted(t) == failures[t] >= RetryCap

Expired(t) == near_left[t] = 0

(* The near leg has decayed since entry and is close to expiry. *)
RollDue(t) ==
  /\ near_left[t] <= RollTrigger
  /\ near_left[t] < rows[t].near_days

(* Faults: one signal too few, one too many. *)
ConfirmedEarly(t) == pending[t] + 2 >= ConfirmTicks
ConfirmedLate(t) == pending[t] > ConfirmTicks

(* A stop or take-profit signal has now been seen on enough ticks. *)
Confirmed(t) == pending[t] + 1 >= ConfirmTicks

HoldEntered(t) ==
  /\ tick = "monitor"
  /\ call.op = "none"
  /\ t \in todo \cap just_entered
  /\ Done(t)
  /\ UNCHANGED <<bookVars, memVars, configVars, tick, open_count, call, histVars>>

(* No spot, or no IV: the position is left unexamined, its counter as it was. *)
NoMarketData(t) ==
  /\ Evaluating(t)
  /\ Done(t)
  /\ UNCHANGED <<bookVars, memVars, configVars, tick, open_count, call, histVars>>

(* The first half of _mark_stuck_and_notify: the row is flagged and the      *)
(* counter dropped.  An error of the database leaves both, and the position. *)
MarkStuck(t) ==
  \/ /\ rows' = [rows EXCEPT ![t] = StickRow(@)]
     /\ failures' = Cleared(failures, {t})
     /\ call' = [op |-> "alert", trade |-> t,
                 why |-> IF Stuck(t) THEN "known" ELSE "news", fc |-> 0]
     /\ UNCHANGED <<todo, faults>>
  \/ /\ faults < MaxFaults
     /\ faults' = faults + 1
     /\ call' = NoCall
     /\ Done(t)
     /\ UNCHANGED <<rows, failures>>

(* The second half.  Once per stuck position, in one life of the process or  *)
(* in several.                                                               *)
AlertDue(t) == t \notin notified /\ call.why = "news"

AlertStuck(t) ==
  /\ Waiting("alert", t)
  /\ IF AlertDue(t)
     THEN /\ alerts' = [alerts EXCEPT ![t] = IF @ < 2 THEN @ + 1 ELSE @]
          /\ notified' = notified \cup {t}
     ELSE UNCHANGED <<alerts, notified>>
  /\ call' = NoCall
  /\ Done(t)
  /\ UNCHANGED <<bookVars, state, paused, today_pnl, just_entered, failures,
                 pending, configVars, tick, open_count, tries, streak, day_pnl,
                 faults>>

ExpiredClose(t) ==
  /\ Evaluating(t)
  /\ Expired(t)
  /\ ~ Exhausted(t)
  /\ Start("close", t, "expired")
  /\ UNCHANGED <<bookVars, memVars, configVars, tick, todo, open_count, histVars>>

ExpiredStuck(t) ==
  /\ Evaluating(t)
  /\ Expired(t)
  /\ Exhausted(t)
  /\ MarkStuck(t)
  /\ UNCHANGED <<exch, near_left, state, paused, today_pnl, just_entered, pending,
                 notified, configVars, tick, open_count, tries, streak, alerts,
                 day_pnl>>

(* The signal was seen once more. *)
SeeSignal(t) ==
  streak' = [streak EXCEPT ![t] = IF @ < ConfirmTicks THEN @ + 1 ELSE @]

SignalPending(t) ==
  /\ Evaluating(t)
  /\ ~ Expired(t)
  /\ ~ Confirmed(t)
  /\ SeeSignal(t)
  /\ pending' = [pending EXCEPT ![t] = @ + 1]
  /\ Done(t)
  /\ UNCHANGED <<bookVars, state, paused, today_pnl, just_entered, failures,
                 notified, configVars, tick, open_count, call, tries, alerts,
                 day_pnl, faults>>

SignalClose(t) ==
  /\ Evaluating(t)
  /\ ~ Expired(t)
  /\ Confirmed(t)
  /\ ~ Exhausted(t)
  /\ SeeSignal(t)
  /\ pending' = Cleared(pending, {t})
  /\ Start("close", t, "signal")
  /\ UNCHANGED <<bookVars, state, paused, today_pnl, just_entered, failures,
                 notified, configVars, tick, todo, open_count, tries, alerts,
                 day_pnl, faults>>

SignalStuck(t) ==
  /\ Evaluating(t)
  /\ ~ Expired(t)
  /\ Confirmed(t)
  /\ Exhausted(t)
  /\ streak' = Cleared(streak, {t})
  /\ pending' = Cleared(pending, {t})
  /\ MarkStuck(t)
  /\ UNCHANGED <<exch, near_left, state, paused, today_pnl, just_entered, notified,
                 configVars, tick, open_count, tries, alerts, day_pnl>>

(* Neither signal fired: a later one has to be confirmed afresh. *)
NoSignal(t) ==
  /\ Evaluating(t)
  /\ ~ Expired(t)
  /\ pending' = Cleared(pending, {t})
  /\ streak' = Cleared(streak, {t})
  /\ UNCHANGED <<bookVars, state, paused, today_pnl, just_entered, notified,
                 configVars, tick, open_count, alerts, day_pnl, faults>>

Hold(t) ==
  /\ NoSignal(t)
  /\ ~ RollDue(t)
  /\ Done(t)
  /\ UNCHANGED <<failures, call, tries>>

DrainClose(t) ==
  /\ NoSignal(t)
  /\ RollDue(t)
  /\ mode # "normal"
  /\ Start("close", t, "drain")
  /\ UNCHANGED <<failures, todo, tries>>

RollCapClose(t) ==
  /\ NoSignal(t)
  /\ RollDue(t)
  /\ mode = "normal"
  /\ Exhausted(t)
  /\ Start("close", t, "roll cap")
  /\ UNCHANGED <<failures, todo, tries>>

(* No candidate, or the liquidity, margin and fee gates reject them all. *)
RollNoCandidate(t) ==
  /\ NoSignal(t)
  /\ RollDue(t)
  /\ mode = "normal"
  /\ ~ Exhausted(t)
  /\ failures' = [failures EXCEPT ![t] = OneMore(@)]
  /\ tries' = [tries EXCEPT ![t] = OneMore(@)]
  /\ Done(t)
  /\ UNCHANGED call

RollStart(t) ==
  /\ NoSignal(t)
  /\ RollDue(t)
  /\ mode = "normal"
  /\ ~ Exhausted(t)
  /\ Start("roll", t, "none")
  /\ UNCHANGED <<failures, todo, tries>>

-----------------------------------------------------------------------------
(* The executor returns to _close_position or to _try_roll. *)

Realise(pnl) ==
  /\ today_pnl' = today_pnl + pnl
  /\ day_pnl' = day_pnl + pnl

CloseFilled(t) ==
  /\ Waiting("close", t)
  /\ \E gross \in ClosePnl :
       LET pnl == gross + rows[t].roll_pnl
       IN  /\ rows' = [rows EXCEPT ![t] = CloseRow(@, pnl)]
           /\ Realise(pnl)
  /\ exch' = [exch EXCEPT ![t] = AfterClose(@)]
  /\ failures' = Cleared(failures, {t})
  /\ pending' = Cleared(pending, {t})
  /\ call' = NoCall
  /\ Done(t)
  /\ Retire({t})
  /\ streak' = Cleared(streak, {t})
  /\ UNCHANGED <<state, paused, just_entered, notified, configVars, tick,
                 open_count, faults>>

(* Filled, but close_calendar_trade fails: monitor_tick goes on with the next. *)
CloseUnrecorded(t) ==
  /\ Waiting("close", t)
  /\ faults < MaxFaults
  /\ faults' = faults + 1
  /\ exch' = [exch EXCEPT ![t] = AfterClose(@)]
  /\ call' = NoCall
  /\ Done(t)
  /\ streak' = Cleared(streak, IF call.why = "signal" THEN {t} ELSE {})
  /\ UNCHANGED <<rows, near_left, memVars, configVars, tick, open_count, tries,
                 alerts, day_pnl>>

(* The counter that was read before the call, plus one. *)
CloseFailed(t) ==
  /\ Waiting("close", t)
  /\ call.why \in {"expired", "signal"}
  /\ failures' = [failures EXCEPT ![t] = OneMore(call.fc)]
  /\ tries' = [tries EXCEPT ![t] = OneMore(@)]
  /\ call' = NoCall
  /\ Done(t)
  /\ streak' = Cleared(streak, IF call.why = "signal" THEN {t} ELSE {})
  /\ UNCHANGED <<bookVars, state, paused, today_pnl, just_entered, pending,
                 notified, configVars, tick, open_count, alerts, day_pnl, faults>>

(* The drain path returns what _close_position says and counts nothing. *)
DrainCloseFailed(t) ==
  /\ Waiting("close", t)
  /\ call.why = "drain"
  /\ call' = NoCall
  /\ Done(t)
  /\ UNCHANGED <<bookVars, memVars, configVars, tick, open_count, tries, streak,
                 alerts, day_pnl, faults>>

(* The close that replaces the roll is not retried. *)
RollCapCloseFailed(t) ==
  /\ Waiting("close", t)
  /\ call.why = "roll cap"
  /\ MarkStuck(t)
  /\ UNCHANGED <<exch, near_left, state, paused, today_pnl, just_entered, pending,
                 notified, configVars, tick, open_count, tries, streak, alerts,
                 day_pnl>>

(* What a successful roll does to the engine, recorded or not. *)
Rolled(t, pnl) ==
  /\ Waiting("roll", t)
  /\ Realise(pnl)
  /\ failures' = Cleared(failures, {t})
  /\ tries' = Cleared(tries, {t})
  /\ call' = NoCall
  /\ Done(t)
  /\ UNCHANGED <<state, paused, just_entered, pending, notified, configVars, tick,
                 open_count, streak, alerts>>

RollFilled(t) ==
  /\ \E pnl \in RollPnl :
       /\ Rolled(t, pnl)
       /\ rows' = [rows EXCEPT ![t] = RollRow(@, pnl)]
  /\ \E days \in RollDays : near_left' = [near_left EXCEPT ![t] = days]
  /\ exch' = [exch EXCEPT ![t] = AfterRoll(@)]
  /\ UNCHANGED faults

(* update_near_leg fails: logged, and the row keeps the leg it no longer has. *)
RollUnrecorded(t) ==
  /\ faults < MaxFaults
  /\ faults' = faults + 1
  /\ \E pnl \in RollPnl : Rolled(t, pnl)
  /\ exch' = [exch EXCEPT ![t] = "drifted"]
  /\ UNCHANGED <<rows, near_left>>

RollFailed(t) ==
  /\ Waiting("roll", t)
  /\ failures' = [failures EXCEPT ![t] = OneMore(call.fc)]
  /\ tries' = [tries EXCEPT ![t] = OneMore(@)]
  /\ call' = NoCall
  /\ Done(t)
  /\ UNCHANGED <<bookVars, state, paused, today_pnl, just_entered, pending,
                 notified, configVars, tick, open_count, streak, alerts, day_pnl,
                 faults>>

MonitorFinish ==
  /\ tick = "monitor"
  /\ call.op = "none"
  /\ todo = {}
  /\ tick' = "none"
  /\ just_entered' = {}
  /\ failures' = Cleared(failures, Trade \ OpenPositions)
  /\ pending' = Cleared(pending, Trade \ OpenPositions)
  /\ state' = RestState(OpenPositions)
  /\ UNCHANGED <<bookVars, paused, today_pnl, notified, configVars, todo,
                 open_count, call, histVars>>

-----------------------------------------------------------------------------
(* Telegram commands, handled on the event loop whatever the tick is doing. *)

StopBot ==
  /\ "stop_bot" \in Commands
  /\ paused' = TRUE
  /\ UNCHANGED <<bookVars, state, today_pnl, just_entered, failures, pending,
                 notified, configVars, tickVars, histVars>>

(* Every command that starts something resumes a paused bot. *)
Resume ==
  /\ paused' = FALSE
  /\ UNCHANGED <<bookVars, state, today_pnl, just_entered, failures, pending,
                 notified, tickVars, histVars>>

StartBot ==
  /\ "start_bot" \in Commands
  /\ Resume
  /\ UNCHANGED configVars

StartDrain ==
  /\ "start_drain" \in Commands
  /\ mode' = "drain"
  /\ Resume
  /\ UNCHANGED assets

StartWithAssets ==
  /\ "start_with_assets" \in Commands
  /\ mode' = "normal"
  /\ assets' \in (SUBSET Asset) \ {{}}
  /\ Resume

DrainAndNew ==
  /\ "drain_and_new" \in Commands
  /\ mode' = "drain_and_new"
  /\ assets' \in {assets} \cup ((SUBSET Asset) \ {{}})
  /\ Resume

(* /close: the row goes back to the monitor with a fresh set of attempts. *)
Close(t) ==
  /\ rows[t].result # "none"
  /\ Disciplined => Stuck(t) /\ exch[t] = "spread"
  /\ rows' = [rows EXCEPT ![t] = ResetRow(@)]
  /\ notified' = notified \ {t}
  /\ failures' = Cleared(failures, {t})
  /\ tries' = Cleared(tries, {t})
  /\ alerts' = [alerts EXCEPT ![t] = IF Waiting("alert", t) THEN -1 ELSE 0]
  /\ UNCHANGED <<exch, near_left, state, paused, today_pnl, just_entered, pending,
                 configVars, tickVars, streak, day_pnl, faults>>

(* /close_manually: the row is closed on the operator's word. *)
CloseManually(t) ==
  /\ rows[t].result # "none"
  /\ Disciplined => Stuck(t) /\ exch[t] = "flat"
  /\ \E pnl \in ClosePnl : rows' = [rows EXCEPT ![t] = ManualRow(@, pnl)]
  /\ notified' = notified \ {t}
  /\ Retire({t})
  /\ UNCHANGED <<exch, state, paused, today_pnl, just_entered, failures, pending,
                 configVars, tickVars, streak, day_pnl, faults>>

-----------------------------------------------------------------------------
(* The world outside. *)

(* The operator closes a stuck spread on Deribit's own page. *)
OperatorFlattens(t) ==
  /\ Visible(t)
  /\ Stuck(t)
  /\ exch[t] # "flat"
  /\ exch' = [exch EXCEPT ![t] = "flat"]
  /\ UNCHANGED <<rows, near_left, memVars, configVars, tickVars, histVars>>

(* Midnight.  The engine keeps no date and resets nothing. *)
NewDay ==
  /\ day_pnl # 0 \/ \E t \in Trade : near_left[t] > 0
  /\ near_left' = [t \in Trade |-> IF near_left[t] > 0 THEN near_left[t] - 1 ELSE 0]
  /\ day_pnl' = 0
  /\ UNCHANGED <<rows, exch, memVars, configVars, tickVars, tries, streak, alerts,
                 faults>>

(* What the exchange may hold if the process dies while it waits for it. *)
LeftBehind(t) ==
  {exch[t]} \cup
  CASE call.trade # t     -> {}
    [] call.op = "enter"  -> {"spread"}
    [] call.op = "close"  -> {AfterClose(exch[t])}
    [] call.op = "roll"   -> {"drifted"}
    [] OTHER              -> {}

(* The process dies and is started again: __init__ reads nothing back. *)
Crash ==
  /\ faults < MaxFaults
  /\ faults' = faults + 1
  /\ exch' \in {held \in [Trade -> {"flat", "spread", "drifted"}] :
                  \A t \in Trade : held[t] \in LeftBehind(t)}
  /\ state' = "IDLE"
  /\ paused' = FALSE
  /\ today_pnl' = 0
  /\ just_entered' = {}
  /\ failures' = Zeros
  /\ pending' = Zeros
  /\ notified' = {}
  /\ mode' = "normal"
  /\ assets' = Asset
  /\ tick' = "none"
  /\ todo' = {}
  /\ open_count' = 0
  /\ call' = NoCall
  /\ streak' = Zeros
  /\ UNCHANGED <<rows, near_left, tries, alerts, day_pnl>>

-----------------------------------------------------------------------------

Evaluate(t) ==
  \/ HoldEntered(t)
  \/ NoMarketData(t)
  \/ ExpiredClose(t)
  \/ ExpiredStuck(t)
  \/ SignalPending(t)
  \/ SignalClose(t)
  \/ SignalStuck(t)
  \/ Hold(t)
  \/ DrainClose(t)
  \/ RollCapClose(t)
  \/ RollNoCandidate(t)
  \/ RollStart(t)

Return(t) ==
  \/ EnterFilled(t)
  \/ EnterRejected(t)
  \/ EnterRaised(t)
  \/ EnterUnrecorded(t)
  \/ CloseFilled(t)
  \/ CloseUnrecorded(t)
  \/ CloseFailed(t)
  \/ DrainCloseFailed(t)
  \/ RollCapCloseFailed(t)
  \/ RollFilled(t)
  \/ RollUnrecorded(t)
  \/ RollFailed(t)
  \/ AlertStuck(t)

(* A tick that has started goes on. *)
TickStep ==
  \/ \E t \in Trade : ScanEnter(t) \/ Evaluate(t) \/ Return(t)
  \/ ScanFinish
  \/ MonitorFinish

Command ==
  \/ StopBot
  \/ StartBot
  \/ StartDrain
  \/ StartWithAssets
  \/ DrainAndNew
  \/ \E t \in Trade : Close(t) \/ CloseManually(t)

Next ==
  \/ HaltOnLoss
  \/ ScanSkipped
  \/ ScanStart
  \/ MonitorEmpty
  \/ MonitorStart
  \/ TickStep
  \/ Command
  \/ \E t \in Trade : OperatorFlattens(t)
  \/ NewDay
  \/ Crash

Spec == Init /\ [][Next]_vars

(* A scan whose portfolio.refresh() reached Deribit and settled something. *)
SettlingScan == (ScanSkipped \/ ScanStart) /\ rows' # rows

(* A running tick comes to its end: every wait in the executor has a         *)
(* timeout.  The two interval jobs share _tick_lock, which asyncio hands out *)
(* first come first served, so neither job can keep the other from running:  *)
(* that is strong fairness, since the other tick disables them in between.   *)
(* Deribit answers a refresh now and then, and the feed, which replaces      *)
(* silent connections, has a price for an expired position now and then.     *)
Fairness ==
  /\ WF_vars(TickStep)
  /\ SF_vars(MonitorStart)
  /\ SF_vars(SettlingScan)
  /\ \A t \in Trade : SF_vars(ExpiredClose(t) \/ ExpiredStuck(t))

FairSpec == Spec /\ Fairness

-----------------------------------------------------------------------------
(* Safety. *)

(* The executor is asked to close or to roll only what the book holds open   *)
(* and not stuck, although the snapshot it works through was taken before    *)
(* the commands and the calls of this tick (decision.py _monitor_position).  *)
TradesOnlyMonitored ==
  call.op \in {"close", "roll"} => Monitored(call.trade)

(* A position is stuck only after RetryCap failures that neither /close nor  *)
(* a roll has forgiven, across restarts too (decision.py, the three callers  *)
(* of _mark_stuck_and_notify).                                               *)
StuckIsEarned == \A t \in Trade : Stuck(t) => tries[t] = RetryCap

(* The operator is told at most once that a position is stuck, however often *)
(* the process restarts (decision.py 1069-1074, 1093).                       *)
AlertOnce == \A t \in Trade : alerts[t] <= 1

(* Every attempt to close on a stop or take-profit, one after a failed       *)
(* attempt included, follows as many ticks of its own that saw the signal as *)
(* it needs, with no tick between them that saw none; ticks without data do  *)
(* not count for either (decision.py 838-932).                               *)
ConfirmedClose ==
  call.op = "close" /\ call.why = "signal" => streak[call.trade] >= ConfirmTicks

(* Without crashes and database errors the book and the exchange agree: a    *)
(* position the bot looks after is a whole spread, a closed one is gone, and *)
(* what no row tells of is not there (decision.py with db/state.py).         *)
BookMatchesExchange ==
  faults = 0 =>
    \A t \in Trade :
      /\ Monitored(t) => exch[t] = "spread"
      /\ Visible(t) => exch[t] # "drifted"
      /\ ~ Visible(t) => exch[t] = "flat"

(* No entry is attempted once the realised loss has reached the limit, not   *)
(* even by a scan that was already under way (decision.py 307, 411).         *)
NoEntryBeyondLossLimit == call.op = "enter" => today_pnl > -LossLimit

(* What a closed row says of the trade is never rewritten: no late roll,     *)
(* close or stuck flag reaches it (db/state.py, updates by id alone).        *)
TerminalIsFinal ==
  [][\A t \in Trade : rows[t].result \in ClosedResults => rows'[t] = rows[t]]_vars

-----------------------------------------------------------------------------
(* The engine implements the life of a trade. *)

Status ==
  [t \in Trade |->
     CASE rows[t].result = "none" -> "absent"
       [] Stuck(t)                -> "stuck"
       [] Monitored(t)            -> "open"
       [] OTHER                   -> "closed"]

Lifecycle == INSTANCE TradeLifecycle WITH status <- Status, failed <- tries

(* Every trade goes through the life that TradeLifecycle allows, whichever   *)
(* of tick, command, restart or exchange moves it.                           *)
ImplementsLifecycle == Lifecycle!LifecycleSpec

-----------------------------------------------------------------------------
(* Liveness, under FairSpec. *)

(* Nothing keeps the monitor from its positions. *)
Suspended == paused \/ state = "HALTED" \/ LimitBreached

(* A position whose near leg has expired is closed, or rolled by a call      *)
(* already under way, or declared stuck: it is not retried for ever          *)
(* (decision.py 844-863).                                                    *)
ExpiredIsResolved ==
  \A t \in Trade :
    Monitored(t) /\ Expired(t) ~> ~ (Monitored(t) /\ Expired(t)) \/ Suspended

(* A stuck position that the operator has closed on Deribit leaves the book  *)
(* without a command (tracker.py sync_stuck_positions).                      *)
FlatStuckIsSettled ==
  \A t \in Trade : Stuck(t) /\ exch[t] = "flat" ~> ~ Stuck(t) \/ Suspended

=============================================================================
