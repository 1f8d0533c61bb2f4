----------------------------- MODULE Collector -----------------------------
(***************************************************************************)
(* The collector of historical data (backtest/data_collector.py, run by    *)
(* collect.py or beside the bot) and the loaders that make frames of what  *)
(* it stored (backtest/data_loader_db.py, backtest/loader.py), against an  *)
(* exchange that is slow, fails or returns nothing, a database that        *)
(* refuses a statement, signals, cancellation and crashes.                 *)
(*                                                                         *)
(* A price is abstracted to the moment it was read, so that a row tells    *)
(* how old its spot is.  A unit of Clock is at least the second to which   *)
(* _fetch_chain cuts the time of a row.                                    *)
(***************************************************************************)
EXTENDS Integers, Sequences, FiniteSets, SequencesExt

CONSTANTS
    Assets,        \* COLLECTOR_ASSETS, a sequence
    ChainsOf,      \* asset -> the lists of instruments the exchange may return,
                   \* which names each instrument once
    Interval,      \* COLLECTOR_INTERVAL_SEC
    Timeout,       \* the 15 s a request may take
    MaxGap,        \* max_gap_minutes of the loader
    Modes,         \* of "loop" (collect.py), "once" (collect.py --once),
                   \* "task" (bot.py --collect)
    LastClock,     \* bound on the clock
    MaxFaults      \* bound on failures and crashes

Asset == Range(Assets)

\* The longest a cycle takes: two requests for each asset.
CycleTime == 2 * Timeout * Len(Assets)

ASSUME CollectorAssumption ==
    /\ Assets \in Seq(Asset) /\ Len(Assets) >= 1 /\ IsInjective(Assets)
    /\ Interval \in Nat /\ Timeout \in Nat /\ MaxGap \in Nat
    /\ LastClock \in Nat /\ MaxFaults \in Nat
    /\ Interval > CycleTime
    /\ MaxGap >= Interval + CycleTime
    /\ Modes \subseteq {"loop", "once", "task"}
    /\ \A a \in Asset : \A chain \in ChainsOf[a] :
         chain \in Seq(Range(chain)) /\ IsInjective(chain)

VARIABLES
    mode,
    now,
    pc,        \* "spot", "chain" (the request in flight), "insert", "log",
               \* "commit", "error" (about to log it), "sleep", "stopped", "down"
    at,        \* the asset of this iteration, an index of Assets
    cycleAt,   \* t0 of this cycle
    startedAt, \* started_at of this asset
    sentAt,    \* when the request in flight was sent
    spot,      \* spot in hand
    rows,      \* rows of the chain in hand
    results,   \* asset -> rows added in this cycle, for those done
    txn,       \* [rows, runs] of the open transaction
    table,     \* option_chain, as committed
    runs,      \* collection_runs, as committed
    stop,      \* _stop_requested, which only _run_loop of collect.py looks at
    faults     \* failures and crashes so far, but for the log of a failure

progress == <<pc, at, cycleAt, startedAt, sentAt>>
hand == <<spot, rows>>
db == <<txn, table, runs>>
vars == <<mode, now, progress, hand, results, db, stop, faults>>

Nothing == [rows |-> <<>>, runs |-> <<>>]

Init ==
    /\ mode \in Modes
    /\ now = 0 /\ pc = "spot" /\ at = 1
    /\ cycleAt = 0 /\ startedAt = 0 /\ sentAt = 0
    /\ spot = 0 /\ rows = <<>> /\ results = <<>>
    /\ txn = Nothing /\ table = <<>> /\ runs = <<>>
    /\ stop = FALSE /\ faults = 0

-----------------------------------------------------------------------------
(* collect_snapshot                                                        *)

InFlight == pc \in {"spot", "chain"}

Current == Assets[at]

Fault == faults < MaxFaults /\ faults' = faults + 1

\* results[asset] = n.
Reported(n) ==
    [a \in DOMAIN results \cup {Current} |-> IF a = Current THEN n ELSE results[a]]

\* Fault: an asset that returns nothing ends the cycle.
AdvanceOrBreak(n) ==
    /\ results' = Reported(n)
    /\ spot' = 0 /\ rows' = <<>>
    /\ IF at < Len(Assets) /\ n > 0
       THEN /\ pc' = "spot" /\ at' = at + 1
            /\ startedAt' = now /\ sentAt' = now
            /\ UNCHANGED cycleAt
       ELSE /\ pc' = IF mode = "once" THEN "stopped" ELSE "sleep"
            /\ UNCHANGED <<at, cycleAt, startedAt, sentAt>>

\* The next asset or the end of the cycle: run_once
\* and --once return, the loops sleep.
Advance(n) ==
    /\ results' = Reported(n)
    /\ spot' = 0 /\ rows' = <<>>
    /\ IF at < Len(Assets)
       THEN /\ pc' = "spot" /\ at' = at + 1
            /\ startedAt' = now /\ sentAt' = now
            /\ UNCHANGED cycleAt
       ELSE /\ pc' = IF mode = "once" THEN "stopped" ELSE "sleep"
            /\ UNCHANGED <<at, cycleAt, startedAt, sentAt>>

\* Fault: the spot of the last row stored is used again.
FetchSpotCached ==
    /\ pc = "spot"
    /\ spot' = IF table = <<>> THEN now ELSE table[Len(table)].spot
    /\ pc' = "chain" /\ sentAt' = now
    /\ UNCHANGED <<mode, now, at, cycleAt, startedAt, rows, results, db, stop, faults>>

\* The index price of the moment it was asked for, as old as it can be.
FetchSpot ==
    /\ pc = "spot"
    /\ spot' = sentAt
    /\ pc' = "chain" /\ sentAt' = now
    /\ UNCHANGED <<mode, now, at, cycleAt, startedAt, rows, results, db, stop, faults>>

\* The rows of the chain, all with the time of its arrival.
RowsOf(chain) ==
    [i \in DOMAIN chain |->
       [ts |-> now, asset |-> Current, instrument |-> chain[i], spot |-> spot]]

\* con.begin follows at once.
FetchChain ==
    /\ pc = "chain"
    /\ \E chain \in ChainsOf[Current] :
         /\ chain # <<>>
         /\ rows' = RowsOf(chain)
    /\ pc' = "insert" /\ txn' = Nothing
    /\ UNCHANGED <<mode, now, at, cycleAt, startedAt, sentAt, spot, results, table, runs, stop, faults>>

\* The chain comes back empty: nothing is logged.
EmptyChain ==
    /\ pc = "chain"
    /\ Fault
    /\ Advance(0)
    /\ UNCHANGED <<mode, now, db, stop>>

\* A request times out, is refused or answers without a result.
FetchFails ==
    /\ InFlight
    /\ Fault
    /\ pc' = "error"
    /\ UNCHANGED <<mode, now, at, cycleAt, startedAt, sentAt, hand, results, db, stop>>

\* executemany, a row at a time: nothing of it is seen before the commit.
InsertRow ==
    /\ pc = "insert"
    /\ txn' = [txn EXCEPT !.rows = Append(@, rows[Len(@) + 1])]
    /\ pc' = IF Len(txn'.rows) = Len(rows) THEN "log" ELSE "insert"
    /\ UNCHANGED <<mode, now, at, cycleAt, startedAt, sentAt, hand, results, table, runs, stop, faults>>

Run(n, status) ==
    [startedAt |-> startedAt, endedAt |-> now, asset |-> Current,
     rowsAdded |-> n, status |-> status]

\* _log_run inside the transaction.
LogRun ==
    /\ pc = "log"
    /\ txn' = [txn EXCEPT !.runs = Append(@, Run(Len(rows), "ok"))]
    /\ pc' = "commit"
    /\ UNCHANGED <<mode, now, at, cycleAt, startedAt, sentAt, hand, results, table, runs, stop, faults>>

Commit ==
    /\ pc = "commit"
    /\ table' = table \o txn.rows
    /\ runs' = runs \o txn.runs
    /\ txn' = Nothing
    /\ Advance(Len(rows))
    /\ UNCHANGED <<mode, now, stop, faults>>

\* Fault: what was inserted before the failure is committed.
RollbackLate ==
    /\ pc \in {"insert", "log", "commit"}
    /\ Fault
    /\ table' = table \o txn.rows
    /\ txn' = Nothing
    /\ pc' = "error"
    /\ UNCHANGED <<mode, now, at, cycleAt, startedAt, sentAt, hand, results, runs, stop>>

\* Fault: the transaction is left open.
RollbackForgotten ==
    /\ pc \in {"insert", "log", "commit"}
    /\ Fault
    /\ pc' = "error"
    /\ UNCHANGED <<mode, now, at, cycleAt, startedAt, sentAt, hand, results, db, stop>>

\* A statement fails, the commit included: rollback, and the exception goes on.
Rollback ==
    /\ pc \in {"insert", "log", "commit"}
    /\ Fault
    /\ txn' = Nothing
    /\ pc' = "error"
    /\ UNCHANGED <<mode, now, at, cycleAt, startedAt, sentAt, hand, results, table, runs, stop>>

\* The failure is logged, each statement committed by itself; a failure to do
\* so is swallowed.
LogError ==
    /\ pc = "error"
    /\ runs' \in {Append(runs, Run(0, "error")), runs}
    /\ Advance(0)
    /\ UNCHANGED <<mode, now, txn, table, stop, faults>>

-----------------------------------------------------------------------------
(* _run_loop of collect.py and run_loop of data_collector.py               *)

\* Fault: the whole interval is slept, however long the cycle took.
WakeAtFromEnd == sentAt + Timeout + Interval

\* The end of the sleep: sleep_for, counted from the start of the cycle.
WakeAt == cycleAt + Interval

\* Fault: the next cycle begins at once.
NextCycleAtOnce ==
    /\ pc = "sleep" /\ ~stop
    /\ pc' = "spot" /\ at' = 1
    /\ cycleAt' = now /\ startedAt' = now /\ sentAt' = now
    /\ results' = <<>>
    /\ UNCHANGED <<mode, now, hand, db, stop, faults>>

NextCycle ==
    /\ pc = "sleep" /\ ~stop
    /\ now >= WakeAt
    /\ pc' = "spot" /\ at' = 1
    /\ cycleAt' = now /\ startedAt' = now /\ sentAt' = now
    /\ results' = <<>>
    /\ UNCHANGED <<mode, now, hand, db, stop, faults>>

\* Asked to stop, the loop ends after the chunk of a second it sleeps.
Leave ==
    /\ pc = "sleep" /\ stop
    /\ pc' = "stopped"
    /\ UNCHANGED <<mode, now, at, cycleAt, startedAt, sentAt, hand, results, db, stop, faults>>

Running == pc \notin {"stopped", "down"}

Signal ==
    /\ Running /\ mode = "loop" /\ ~stop
    /\ stop' = TRUE
    /\ UNCHANGED <<mode, now, progress, hand, results, db, faults>>

\* The bot cancels the task when it ends: it goes at an await, and no
\* transaction is open there.
Cancel ==
    /\ mode = "task" /\ (InFlight \/ pc = "sleep")
    /\ pc' = "stopped"
    /\ UNCHANGED <<mode, now, at, cycleAt, startedAt, sentAt, hand, results, db, stop, faults>>

\* The process dies, and with it the open transaction.
Crash ==
    /\ Running
    /\ Fault
    /\ pc' = "down" /\ txn' = Nothing
    /\ at' = 1 /\ cycleAt' = now /\ startedAt' = now /\ sentAt' = now
    /\ spot' = 0 /\ rows' = <<>> /\ results' = <<>> /\ stop' = FALSE
    /\ UNCHANGED <<mode, now, table, runs>>

\* A new process, which opens the database and begins a cycle.  The time of
\* the last one has passed, as a process takes more than a second to start.
Restart ==
    /\ pc = "down"
    /\ now < LastClock
    /\ now' = now + 1
    /\ pc' = "spot"
    /\ cycleAt' = now' /\ startedAt' = now' /\ sentAt' = now'
    /\ UNCHANGED <<mode, at, hand, results, db, stop, faults>>

\* Time passes in requests, each of which ends within its timeout, and in the
\* sleep, which ends on time; what is between takes none.
Tick ==
    /\ now < LastClock
    /\ \/ InFlight /\ now < sentAt + Timeout
       \/ pc = "sleep" /\ ~stop /\ now < WakeAt
    /\ now' = now + 1
    /\ UNCHANGED <<mode, progress, hand, results, db, stop, faults>>

-----------------------------------------------------------------------------
Collect ==
    \/ FetchSpot \/ FetchChain \/ EmptyChain \/ FetchFails
    \/ InsertRow \/ LogRun \/ Commit \/ Rollback \/ LogError

Next ==
    \/ Collect
    \/ NextCycle \/ Leave
    \/ Signal \/ Cancel \/ Crash \/ Restart \/ Tick

\* The process goes on, and a request ends: by its timeout at the latest.
Fairness == WF_vars(Collect) /\ WF_vars(NextCycle) /\ WF_vars(Leave) /\ WF_vars(Tick)

Spec == Init /\ [][Next]_vars /\ Fairness

-----------------------------------------------------------------------------
(* The loaders                                                             *)

Stored(asset) == {i \in DOMAIN table : table[i].asset = asset}

Times(records) == {table[i].ts : i \in records}

\* The frames by their times, each the rows of that time.
Grouped(records) == [t \in Times(records) |-> {i \in records : table[i].ts = t}]

\* load_frames_from_db: the rows of an asset between two times.
LoadFrames(asset, start, end) ==
    Grouped({i \in Stored(asset) : table[i].ts \in start .. end})

\* The pairs of successive times the loader warns about.
Gaps(frames) ==
    {gap \in (DOMAIN frames) \X (DOMAIN frames) :
        /\ gap[2] - gap[1] > MaxGap
        /\ \A t \in DOMAIN frames : t <= gap[1] \/ t >= gap[2]}

\* db_summary and _log_db_summary, for one asset.
Summary(asset) ==
    [rows |-> Cardinality(Stored(asset)), snapshots |-> Cardinality(Times(Stored(asset)))]

-----------------------------------------------------------------------------

OkRuns(asset) == {n \in DOMAIN runs : runs[n].asset = asset /\ runs[n].status = "ok"}

\* The frame is what the run stored, each instrument once.
IsOf(frame, time, run) ==
    /\ time \in run.startedAt .. run.endedAt
    /\ Cardinality(frame) = run.rowsAdded
    /\ \A i, j \in frame : table[i].instrument = table[j].instrument => i = j

\* A frame of a replay is the whole chain of one fetch, each run that ended well has
\* its frame, and the summary counts as many snapshots as there were such runs: so
\* the log of the runs accounts for every row.  (data_loader_db.py:105, which groups
\* by the second.)
FramesAreWhole ==
    \A a \in Asset :
        LET frames == LoadFrames(a, 0, LastClock)
        IN  /\ Summary(a) = [rows |-> Cardinality(UNION Range(frames)),
                             snapshots |-> Cardinality(OkRuns(a))]
            /\ \A t \in DOMAIN frames : \E n \in OkRuns(a) : IsOf(frames[t], t, runs[n])
            /\ \A n \in OkRuns(a) : \E t \in DOMAIN frames : IsOf(frames[t], t, runs[n])

\* The chain of a frame is priced against a spot no older than the two requests
\* that made it, and never against one read after it.  (data_collector.py:164)
SpotIsOfItsChain ==
    \A i \in DOMAIN table :
        table[i].spot <= table[i].ts /\ table[i].ts - table[i].spot <= 2 * Timeout

\* At the end of a cycle every asset was tried, one that failed included, and what
\* the cycle reports is what the table gained.  (data_collector.py:160-207)
ResultsAreTrue ==
    pc = "sleep" =>
        /\ DOMAIN results = Asset
        /\ \A a \in Asset :
             results[a] = Cardinality({i \in Stored(a) : table[i].ts >= cycleAt})

\* What the table holds is true to what was fetched: whole frames, each with its own
\* spot, and the rows that the cycle reported.
TableIsTrue == FramesAreWhole /\ SpotIsOfItsChain /\ ResultsAreTrue

\* While nothing fails the loader never warns of a gap: the cadence is counted from
\* the start of a cycle, so the time a cycle takes does not add up.
\* (data_collector.py:281, data_loader_db.py:123)
CadenceIsKept ==
    faults = 0 => \A a \in Asset : Gaps(LoadFrames(a, 0, LastClock)) = {}

\* A collector asked to stop ends, by itself and outside a transaction, unless it
\* crashes first.  (collect.py:144, :162)
StopEnds == (stop /\ Running) ~> (~Running /\ txn = Nothing)

=============================================================================
