---------------------- MODULE DecisionEngineRefinement ----------------------
(* What the trade book stands for, for every value of the constants of       *)
(* DecisionEngine: the life of a trade in TradeLifecycle and, while nothing  *)
(* fails, what Deribit holds.                                                *)
EXTENDS DecisionEngineProofs

(* The status that a row stands for. *)
StatusOf(r) ==
  CASE r.result = "none"               -> "absent"
    [] r.close_status = "close_stuck"  -> "stuck"
    [] r.result \in OpenResults /\ ~ (r.close_status = "close_stuck") -> "open"
    [] OTHER                           -> "closed"

(* The status of a trade, by its row. *)
LEMMA StatusOfRow ==
  ASSUME NEW r \in Row, SoundRow(r)
  PROVE  /\ r.result = "none" => StatusOf(r) = "absent"
         /\ r.close_status = "close_stuck" => StatusOf(r) = "stuck"
         /\ (r.result \in OpenResults /\ r.close_status # "close_stuck") => StatusOf(r) = "open"
         /\ r.result \in ClosedResults => StatusOf(r) = "closed"
<1> USE DEF StatusOf, SoundRow, OpenResults, ClosedResults
<1>1. ASSUME r.result = "none" PROVE StatusOf(r) = "absent"
  BY <1>1
<1>2. ASSUME r.close_status = "close_stuck" PROVE StatusOf(r) = "stuck"
  BY <1>2
<1>3. ASSUME r.result \in OpenResults, r.close_status # "close_stuck" PROVE StatusOf(r) = "open"
  BY <1>3
<1>4. ASSUME r.result \in ClosedResults PROVE StatusOf(r) = "closed"
  BY <1>4
<1> QED
  BY <1>1, <1>2, <1>3, <1>4

(* The status of a trade in this state. *)
LEMMA StatusNow ==
  ASSUME NEW t \in Trade
  PROVE  Status[t] = StatusOf(rows[t]) /\ Status'[t] = StatusOf(rows'[t])
BY DEF Status, StatusOf, Stuck, Monitored, Visible

(* What the book says of a trade now fixes its status. *)
LEMMA StatusAt ==
  ASSUME TypeOK, RowInv, NEW t \in Trade
  PROVE  /\ rows[t].result = "none" => Status[t] = "absent"
         /\ Stuck(t) => Status[t] = "stuck"
         /\ Monitored(t) => Status[t] = "open"
<1>1. rows[t] \in Row /\ SoundRow(rows[t])
  BY DEF RowInv, TypeOK, BookType
<1> QED
  BY <1>1, StatusOfRow, StatusNow DEF Stuck, Monitored, Visible

(* So it does after a step. *)
LEMMA StatusAfter ==
  ASSUME TypeOK', RowInv', NEW t \in Trade
  PROVE  /\ Stuck(t)' => Status'[t] = "stuck"
         /\ Monitored(t)' => Status'[t] = "open"
         /\ rows'[t].result \in ClosedResults => Status'[t] = "closed"
<1>1. rows'[t] \in Row /\ SoundRow(rows'[t])
  BY DEF RowInv, TypeOK, BookType
<1> QED
  BY <1>1, StatusOfRow, StatusNow DEF Stuck, Monitored, Visible

(* A row that is left alone keeps its status. *)
LEMMA StatusSame ==
  ASSUME NEW t \in Trade, rows'[t] = rows[t]
  PROVE  Status'[t] = Status[t]
BY StatusNow

(* What the book holds of one trade changes, and its status with it. *)
LEMMA StatusMoves ==
  ASSUME NEW t \in Trade, NEW to, Status'[t] = to,
         \A u \in Trade : u # t => rows'[u] = rows[u]
  PROVE  Status' = [Status EXCEPT ![t] = to]
<1>1. \A u \in Trade : u # t => Status'[u] = Status[u]
  BY StatusSame
<1>2. Status = [u \in Trade |-> Status[u]] /\ Status' = [u \in Trade |-> Status'[u]]
  BY DEF Status
<1> QED
  BY <1>1, <1>2

(* Statuses that agree on every trade are the same. *)
LEMMA StatusKept ==
  ASSUME \A u \in Trade : Status'[u] = Status[u]
  PROVE  Status' = Status
<1>1. Status = [u \in Trade |-> Status[u]] /\ Status' = [u \in Trade |-> Status'[u]]
  BY DEF Status
<1> QED
  BY <1>1

(* _mark_stuck_and_notify declares the trade stuck, or stutters. *)
LEMMA StuckStep ==
  ASSUME TypeOK, RowInv, TypeOK', RowInv', NEW t \in Trade,
         Monitored(t), tries[t] = RetryCap, tries' = tries, MarkStuck(t)
  PROVE  [Lifecycle!LifecycleNext]_(Lifecycle!lvars)
<1>f. rows \in [Trade -> Row] /\ rows[t] \in Row
  BY DEF TypeOK, BookType
<1>1. CASE rows' = [rows EXCEPT ![t] = StickRow(rows[t])]
  <2>1. Stuck(t)'
    BY <1>1, <1>f DEF StickRow, Row, Stuck
  <2>2. Status'[t] = "stuck" /\ Status[t] = "open"
    BY <2>1, StatusAt, StatusAfter
  <2>3. Status' = [Status EXCEPT ![t] = "stuck"]
    BY <1>1, <1>f, <2>2, StatusMoves
  <2>4. Lifecycle!DeclareStuck(t)
    BY <2>2, <2>3 DEF Lifecycle!DeclareStuck, Lifecycle!Move
  <2> QED
    BY <2>4 DEF Lifecycle!LifecycleNext
<1>2. CASE rows' = rows
  BY <1>2, StatusSame, StatusKept DEF Lifecycle!lvars
<1> QED
  BY <1>1, <1>2 DEF MarkStuck

(* A failed close or roll is a failed attempt, or stutters at the cap. *)
LEMMA FailStep ==
  ASSUME TypeOK, RowInv, NEW t \in Trade, Monitored(t), rows' = rows,
         tries' = [tries EXCEPT ![t] = OneMore(tries[t])]
  PROVE  [Lifecycle!LifecycleNext]_(Lifecycle!lvars)
<1>f. tries \in [Trade -> 0..RetryCap] /\ tries[t] \in 0..RetryCap
  BY DEF TypeOK, HistoryType
<1>1. Status' = Status
  BY StatusSame, StatusKept
<1>2. CASE tries[t] < RetryCap
  <2>1. OneMore(tries[t]) = tries[t] + 1
    BY <1>2 DEF OneMore
  <2>2. Lifecycle!FailAttempt(t)
    BY <1>1, <1>2, <2>1, StatusAt DEF Lifecycle!FailAttempt
  <2> QED
    BY <2>2 DEF Lifecycle!LifecycleNext
<1>3. CASE ~ (tries[t] < RetryCap)
  <2>1. OneMore(tries[t]) = tries[t]
    BY <1>3 DEF OneMore
  <2>2. tries' = tries
    BY <2>1, <1>f
  <2> QED
    BY <1>1, <2>2 DEF Lifecycle!lvars
<1> QED
  BY <1>2, <1>3

(* A roll that succeeds forgives, recorded or not. *)
LEMMA ForgiveStep ==
  ASSUME TypeOK, RowInv, TypeOK', RowInv', NEW t \in Trade, Monitored(t), Monitored(t)',
         \A u \in Trade : u # t => rows'[u] = rows[u], tries' = Cleared(tries, {t})
  PROVE  [Lifecycle!LifecycleNext]_(Lifecycle!lvars)
<1>1. Status[t] = "open" /\ Status'[t] = "open"
  BY StatusAt, StatusAfter
<1>2. Status' = Status
  BY <1>1, StatusSame, StatusKept
<1>3. tries' = [tries EXCEPT ![t] = 0]
  BY DEF Cleared, TypeOK, HistoryType
<1>4. Lifecycle!Forgive(t)
  BY <1>1, <1>2, <1>3 DEF Lifecycle!Forgive
<1> QED
  BY <1>4 DEF Lifecycle!LifecycleNext

(* Settling stuck rows is Settle. *)
LEMMA SettleStep ==
  ASSUME TypeOK, RowInv, TypeOK', RowInv', NEW S \in SUBSET Trade,
         \A u \in S : Stuck(u) /\ rows'[u].result \in ClosedResults,
         \A u \in Trade \ S : rows'[u] = rows[u],
         tries' = Cleared(tries, S)
  PROVE  [Lifecycle!LifecycleNext]_(Lifecycle!lvars)
<1>1. \A u \in S : Status[u] = "stuck" /\ Status'[u] = "closed"
  BY StatusAt, StatusAfter
<1>2. Status' = [u \in Trade |-> IF u \in S THEN "closed" ELSE Status[u]]
  <2>1. Status' = [u \in Trade |-> Status'[u]]
    BY DEF Status
  <2> QED
    BY <1>1, <2>1, StatusSame
<1>3. Lifecycle!Settle(S)
  BY <1>1, <1>2 DEF Lifecycle!Settle, Cleared
<1> QED
  BY <1>3 DEF Lifecycle!LifecycleNext

(* Every step of the engine is a step of the lifecycle or stutters. *)
LEMMA LifecycleStep ==
  ASSUME SafeInv, SafeInv', Disciplined, [Next]_vars
  PROVE  [Lifecycle!LifecycleNext]_(Lifecycle!lvars)
<1>h. /\ TypeOK /\ CallInv /\ RowInv /\ TodoInv /\ HeldInv /\ CountInv /\ LateInv
      /\ TypeOK' /\ RowInv'
  BY DEF SafeInv
<1> USE <1>h
<1>f. rows \in [Trade -> Row] /\ \A u \in Trade : rows[u] \in Row
  BY DEF TypeOK, BookType
<1>s. ASSUME rows' = rows, tries' = tries PROVE [Lifecycle!LifecycleNext]_(Lifecycle!lvars)
  BY <1>s, StatusSame, StatusKept DEF Lifecycle!lvars
<1>q. CASE rows' = rows /\ failures' = failures /\ tries' = tries
  BY <1>q, <1>s
<1>1. CASE ScanSkipped
  <2>1. PICK S \in SUBSET Trade :
          /\ \A u \in S : Stuck(u) /\ rows[u].result \in OpenResults
          /\ rows' = [u \in Trade |-> IF u \in S THEN ReconcileRow(rows[u]) ELSE rows[u]]
          /\ Retire(S)
    BY <1>1, SyncedStuck DEF ScanSkipped
  <2>2. \A u \in S : rows'[u].result = "Closed"
    BY <2>1, <1>f DEF ReconcileRow, Row
  <2> QED
    BY <2>1, <2>2, SettleStep DEF Retire, ClosedResults
<1>2. CASE ScanStart
  <2>1. PICK S \in SUBSET Trade :
          /\ \A u \in S : Stuck(u) /\ rows[u].result \in OpenResults
          /\ rows' = [u \in Trade |-> IF u \in S THEN ReconcileRow(rows[u]) ELSE rows[u]]
          /\ Retire(S)
    BY <1>2, SyncedStuck DEF ScanStart
  <2>2. \A u \in S : rows'[u].result = "Closed"
    BY <2>1, <1>f DEF ReconcileRow, Row
  <2> QED
    BY <2>1, <2>2, SettleStep DEF Retire, ClosedResults
<1>3. CASE MonitorEmpty
  <2>1. rows' = rows /\ tries' = tries
    BY <1>3 DEF MonitorEmpty, bookVars, histVars
  <2> QED
    BY <2>1, <1>s
<1>4. ASSUME NEW t \in Trade, ExpiredStuck(t) PROVE [Lifecycle!LifecycleNext]_(Lifecycle!lvars)
  <2>1. MarkStuck(t) /\ tries' = tries /\ Exhausted(t) /\ Monitored(t)
    BY <1>4, EvaluatedIsMonitored DEF ExpiredStuck
  <2>2. failures[t] \in 0..RetryCap /\ tries[t] \in 0..RetryCap
    BY DEF TypeOK, MemoryType, HistoryType
  <2>3. tries[t] = RetryCap
    BY <2>1, <2>2, Numbers DEF Exhausted, CountInv, CountAt
  <2> QED
    BY <2>1, <2>3, StuckStep
<1>5. ASSUME NEW t \in Trade, SignalStuck(t) PROVE [Lifecycle!LifecycleNext]_(Lifecycle!lvars)
  <2>1. MarkStuck(t) /\ tries' = tries /\ Exhausted(t) /\ Monitored(t)
    BY <1>5, EvaluatedIsMonitored DEF SignalStuck
  <2>2. failures[t] \in 0..RetryCap /\ tries[t] \in 0..RetryCap
    BY DEF TypeOK, MemoryType, HistoryType
  <2>3. tries[t] = RetryCap
    BY <2>1, <2>2, Numbers DEF Exhausted, CountInv, CountAt
  <2> QED
    BY <2>1, <2>3, StuckStep
<1>6. ASSUME NEW t \in Trade, RollNoCandidate(t) PROVE [Lifecycle!LifecycleNext]_(Lifecycle!lvars)
  <2>1. Monitored(t) /\ rows' = rows /\ tries' = [tries EXCEPT ![t] = OneMore(tries[t])]
    BY <1>6, EvaluatedIsMonitored DEF RollNoCandidate, NoSignal, bookVars
  <2> QED
    BY <2>1, FailStep
<1>7. ASSUME NEW t \in Trade, EnterFilled(t) PROVE [Lifecycle!LifecycleNext]_(Lifecycle!lvars)
  <2>1. PICK days \in EntryDays : rows' = [rows EXCEPT ![t] = InsertRow(days)]
    BY <1>7 DEF EnterFilled
  <2>2. tries' = tries /\ rows[t].result = "none"
    BY <1>7 DEF EnterFilled, Waiting, HeldInv
  <2>3. Monitored(t)'
    BY <2>1, <1>f DEF Monitored, Visible, Stuck, InsertRow, NoRow, OpenResults
  <2>4. Status[t] = "absent" /\ Status'[t] = "open"
    BY <2>2, <2>3, StatusAt, StatusAfter
  <2>5. Status' = [Status EXCEPT ![t] = "open"]
    BY <2>1, <2>4, <1>f, StatusMoves
  <2>6. Lifecycle!Open(t)
    BY <2>2, <2>4, <2>5 DEF Lifecycle!Open, Lifecycle!Move
  <2> QED
    BY <2>6 DEF Lifecycle!LifecycleNext
<1>8. ASSUME NEW t \in Trade, CloseFilled(t) PROVE [Lifecycle!LifecycleNext]_(Lifecycle!lvars)
  <2>1. PICK pnl : rows' = [rows EXCEPT ![t] = CloseRow(rows[t], pnl)]
    BY <1>8 DEF CloseFilled
  <2>2. tries' = Cleared(tries, {t}) /\ Monitored(t)
    BY <1>8, TradedIsMonitored DEF CloseFilled, Retire
  <2>3. rows'[t].result \in ClosedResults
    BY <2>1, <1>f DEF CloseRow, Row, ClosedResults
  <2>4. Status[t] = "open" /\ Status'[t] = "closed"
    BY <2>2, <2>3, StatusAt, StatusAfter
  <2>5. Status' = [Status EXCEPT ![t] = "closed"]
    BY <2>1, <2>4, <1>f, StatusMoves
  <2>6. tries' = [tries EXCEPT ![t] = 0]
    BY <2>2 DEF Cleared, TypeOK, HistoryType
  <2>7. Lifecycle!CloseOut(t)
    BY <2>4, <2>5, <2>6 DEF Lifecycle!CloseOut, Lifecycle!Move
  <2> QED
    BY <2>7 DEF Lifecycle!LifecycleNext
<1>9. ASSUME NEW t \in Trade, CloseFailed(t) PROVE [Lifecycle!LifecycleNext]_(Lifecycle!lvars)
  <2>1. Monitored(t) /\ rows' = rows /\ tries' = [tries EXCEPT ![t] = OneMore(tries[t])]
    BY <1>9, TradedIsMonitored DEF CloseFailed, bookVars
  <2> QED
    BY <2>1, FailStep
<1>10. ASSUME NEW t \in Trade, RollCapCloseFailed(t) PROVE [Lifecycle!LifecycleNext]_(Lifecycle!lvars)
  <2>1. MarkStuck(t) /\ tries' = tries /\ Monitored(t)
    BY <1>10, TradedIsMonitored DEF RollCapCloseFailed
  <2>2. tries[t] = RetryCap
    BY <1>10 DEF RollCapCloseFailed, Waiting, LateInv
  <2> QED
    BY <2>1, <2>2, StuckStep
<1>11. ASSUME NEW t \in Trade, RollFilled(t) PROVE [Lifecycle!LifecycleNext]_(Lifecycle!lvars)
  <2>1. PICK pnl : Rolled(t, pnl) /\ rows' = [rows EXCEPT ![t] = RollRow(rows[t], pnl)]
    BY <1>11 DEF RollFilled
  <2>2. Monitored(t) /\ tries' = Cleared(tries, {t})
    BY <2>1, TradedIsMonitored DEF Rolled
  <2>3. Monitored(t)'
    BY <2>1, <2>2, <1>f DEF Monitored, Visible, Stuck, RollRow, Row, OpenResults
  <2>4. \A u \in Trade : u # t => rows'[u] = rows[u]
    BY <2>1, <1>f
  <2> QED
    BY <2>2, <2>3, <2>4, ForgiveStep
<1>12. ASSUME NEW t \in Trade, RollUnrecorded(t) PROVE [Lifecycle!LifecycleNext]_(Lifecycle!lvars)
  <2>1. PICK pnl \in RollPnl : Rolled(t, pnl)
    BY <1>12 DEF RollUnrecorded
  <2>2. Monitored(t) /\ tries' = Cleared(tries, {t}) /\ rows' = rows
    BY <1>12, <2>1, TradedIsMonitored DEF RollUnrecorded, Rolled
  <2>3. Monitored(t)'
    BY <2>2 DEF Monitored, Visible, Stuck
  <2> QED
    BY <2>2, <2>3, ForgiveStep
<1>13. ASSUME NEW t \in Trade, RollFailed(t) PROVE [Lifecycle!LifecycleNext]_(Lifecycle!lvars)
  <2>1. Monitored(t) /\ rows' = rows /\ tries' = [tries EXCEPT ![t] = OneMore(tries[t])]
    BY <1>13, TradedIsMonitored DEF RollFailed, bookVars
  <2> QED
    BY <2>1, FailStep
<1>14. CASE MonitorFinish
  <2>1. rows' = rows /\ tries' = tries
    BY <1>14 DEF MonitorFinish, bookVars, histVars
  <2> QED
    BY <2>1, <1>s
<1>15. ASSUME NEW t \in Trade, Close(t) PROVE [Lifecycle!LifecycleNext]_(Lifecycle!lvars)
  <2>1. /\ rows' = [rows EXCEPT ![t] = ResetRow(rows[t])]
        /\ tries' = Cleared(tries, {t}) /\ Stuck(t)
    BY <1>15 DEF Close
  <2>2. Visible(t)
    BY <2>1 DEF RowInv, SoundRow, Stuck, Visible
  <2>3. Monitored(t)'
    BY <2>1, <2>2, <1>f DEF Monitored, Visible, Stuck, ResetRow, Row, OpenResults
  <2>4. Status[t] = "stuck" /\ Status'[t] = "open"
    BY <2>1, <2>3, StatusAt, StatusAfter
  <2>5. Status' = [Status EXCEPT ![t] = "open"]
    BY <2>1, <2>4, <1>f, StatusMoves
  <2>6. tries' = [tries EXCEPT ![t] = 0]
    BY <2>1 DEF Cleared, TypeOK, HistoryType
  <2>7. Lifecycle!HandBack(t)
    BY <2>4, <2>5, <2>6 DEF Lifecycle!HandBack, Lifecycle!Move
  <2> QED
    BY <2>7 DEF Lifecycle!LifecycleNext
<1>16. ASSUME NEW t \in Trade, CloseManually(t) PROVE [Lifecycle!LifecycleNext]_(Lifecycle!lvars)
  <2>1. PICK pnl : rows' = [rows EXCEPT ![t] = ManualRow(rows[t], pnl)]
    BY <1>16 DEF CloseManually
  <2>2. tries' = Cleared(tries, {t}) /\ Stuck(t)
    BY <1>16 DEF CloseManually, Retire
  <2>3. rows'[t].result = "Manual"
    BY <2>1, <1>f DEF ManualRow, Row
  <2>4. \A u \in Trade \ {t} : rows'[u] = rows[u]
    BY <2>1, <1>f
  <2> QED
    BY <2>2, <2>3, <2>4, SettleStep DEF ClosedResults
<1>17. CASE Crash
  <2>1. rows' = rows /\ tries' = tries
    BY <1>17 DEF Crash, bookVars, histVars
  <2> QED
    BY <2>1, <1>s
<1> QED
  BY <1>q, <1>1, <1>2, <1>3, <1>4, <1>5, <1>6, <1>7, <1>8, <1>9, <1>10, <1>11,
     <1>12, <1>13, <1>14, <1>15, <1>16, <1>17, Effects

(* Whichever of tick, command, restart or exchange moves a trade, it goes    *)
(* through the life that TradeLifecycle allows.                              *)
THEOREM EngineImplementsLifecycle == ASSUME Disciplined PROVE Spec => ImplementsLifecycle
<1>1. Init => Lifecycle!LifecycleInit
  <2> SUFFICES ASSUME Init PROVE Lifecycle!LifecycleInit
    OBVIOUS
  <2>1. \A t \in Trade : rows[t].result = "none"
    BY DEF Init, NoRow
  <2>2. \A t \in Trade : Status[t] = "absent"
    BY <2>1, SafeInit, StatusAt DEF SafeInv
  <2>3. Status = [t \in Trade |-> Status[t]]
    BY DEF Status
  <2>4. Status = [t \in Trade |-> "absent"]
    BY <2>2, <2>3
  <2> QED
    BY <2>4 DEF Init, Zeros, Lifecycle!LifecycleInit
<1>2. SafeInv /\ SafeInv' /\ [Next]_vars => [Lifecycle!LifecycleNext]_(Lifecycle!lvars)
  BY LifecycleStep
<1> QED
  BY <1>1, <1>2, SafeAlways, PTL DEF Spec, ImplementsLifecycle, Lifecycle!LifecycleSpec

-----------------------------------------------------------------------------

(* No command takes an asset out of the configuration: a stuck position of   *)
(* one that is not configured is recorded closed whatever Deribit holds.     *)
AssetsStay == "start_with_assets" \notin Commands /\ "drain_and_new" \notin Commands

(* What the row of a trade says is what Deribit holds. *)
Match(r, held) ==
  /\ r.result \in OpenResults => held # "drifted"
  /\ r.result \in OpenResults /\ r.close_status # "close_stuck" => held = "spread"
  /\ r.result \notin OpenResults => held = "flat"

AllMatch == \A t \in Trade : Match(rows[t], exch[t])

(* The inductive invariant, beside SafeInv. *)
AgreeInv == assets = Asset /\ (faults = 0 => AllMatch)

-----------------------------------------------------------------------------

(* The book and the exchange are left alone, and nothing fails. *)
Quiet == rows' = rows /\ exch' = exch /\ faults' = faults

(* A step that changes neither keeps them in agreement. *)
LEMMA QuietAgrees == ASSUME AllMatch, Quiet PROVE AllMatch'
BY DEF AllMatch, Quiet

(* A step that writes one row and one holding has to make these two agree. *)
LEMMA OneWrite ==
  ASSUME TypeOK, AllMatch, NEW t \in Trade, NEW r, NEW held,
         rows' = [rows EXCEPT ![t] = r], exch' = [exch EXCEPT ![t] = held],
         Match(r, held)
  PROVE  AllMatch'
<1>1. rows' \in [Trade -> {rows[u] : u \in Trade} \cup {r}] /\ rows'[t] = r /\ exch'[t] = held
  BY DEF TypeOK, BookType
<1>2. \A u \in Trade : u # t => rows'[u] = rows[u] /\ exch'[u] = exch[u]
  BY DEF TypeOK, BookType
<1>3. \A u \in Trade : Match(rows'[u], exch'[u])
  BY <1>1, <1>2 DEF AllMatch
<1> QED
  BY <1>3 DEF AllMatch

(* A holding that is left alone. *)
LEMMA SameHolding ==
  ASSUME TypeOK, NEW t \in Trade, exch' = exch
  PROVE  exch' = [exch EXCEPT ![t] = exch[t]]
BY DEF TypeOK, BookType

(* The flag of a stuck position asks for less than a monitored one. *)
LEMMA StickAgrees ==
  ASSUME TypeOK, AllMatch, NEW t \in Trade, Monitored(t), exch' = exch, MarkStuck(t)
  PROVE  faults' # 0 \/ AllMatch'
<1>n. faults \in Nat
  BY Numbers DEF TypeOK, HistoryType
<1>1. CASE rows' = [rows EXCEPT ![t] = StickRow(rows[t])]
  <2>1. rows[t] \in Row /\ Match(rows[t], exch[t])
    BY DEF TypeOK, BookType, AllMatch
  <2>2. StickRow(rows[t]).result = rows[t].result /\ exch[t] = "spread"
    BY <2>1, RowFields DEF Monitored, Visible, Stuck, Match
  <2>3. Match(StickRow(rows[t]), exch[t])
    BY <2>2 DEF Match, Monitored, Visible
  <2> QED
    BY <1>1, <2>3, OneWrite, SameHolding
<1>2. CASE faults' = faults + 1
  BY <1>2, <1>n
<1> QED
  BY <1>1, <1>2 DEF MarkStuck

(* Settling closes stuck rows that Deribit no longer holds: all assets are   *)
(* asked.                                                                    *)
LEMMA SyncAgrees ==
  ASSUME TypeOK, RowInv, assets = Asset, AllMatch, exch' = exch, SyncStuckPositions
  PROVE  AllMatch'
<1>1. PICK S \in {{}, Gone} : rows' = [t \in Trade |-> IF t \in S THEN ReconcileRow(rows[t]) ELSE rows[t]]
  BY DEF SyncStuckPositions
<1>2. ASSUME NEW t \in Trade PROVE Match(rows'[t], exch'[t])
  <2>0. rows[t] \in Row /\ SoundRow(rows[t]) /\ Match(rows[t], exch[t])
    BY DEF TypeOK, BookType, RowInv, AllMatch
  <2>1. CASE t \in S
    <3>1. exch[t] = "flat" /\ Stuck(t)
      BY <1>1, <2>1, EngineAssumption DEF Gone, LegsLookGone, EngineAssumption
    <3>2. ReconcileRow(rows[t]).result = "Closed"
      BY <2>0, <3>1, RowFields DEF SoundRow, Stuck
    <3>3. rows'[t] = ReconcileRow(rows[t])
      BY <1>1, <2>1
    <3> QED
      BY <3>1, <3>2, <3>3 DEF Match, OpenResults
  <2>2. CASE t \notin S
    BY <1>1, <2>0, <2>2
  <2> QED
    BY <2>1, <2>2
<1> QED
  BY <1>2 DEF AllMatch

(* Every step leaves the configuration alone or restores it, and every step  *)
(* after which nothing has failed is one of these.                           *)
LEMMA Writes ==
  ASSUME TypeOK, AssetsStay, [Next]_vars
  PROVE  /\ assets' = assets \/ assets' = Asset
         /\ faults' = faults \/ faults' # 0
         /\ \/ faults' # 0
            \/ Quiet
            \/ ScanSkipped
            \/ ScanStart
            \/ \E t \in Trade :
                 \/ ExpiredStuck(t)
                 \/ SignalStuck(t)
                 \/ EnterFilled(t)
                 \/ CloseFilled(t)
                 \/ RollCapCloseFailed(t)
                 \/ RollFilled(t)
                 \/ Close(t)
                 \/ CloseManually(t)
                 \/ OperatorFlattens(t)
<1> USE DEF bookVars, memVars, configVars, histVars
<1>n. faults \in Nat
  BY Numbers DEF TypeOK, HistoryType
<1> DEFINE Kept == assets' = assets /\ (faults' = faults \/ faults' # 0)
<1>1. ASSUME HaltOnLoss PROVE Kept /\ Quiet
  BY <1>1 DEF HaltOnLoss, Quiet
<1>2. ASSUME MonitorEmpty PROVE Kept /\ Quiet
  BY <1>2 DEF MonitorEmpty, Quiet
<1>3. ASSUME MonitorStart PROVE Kept /\ Quiet
  BY <1>3 DEF MonitorStart, Quiet
<1>4. ASSUME NEW t \in Trade, ScanEnter(t) PROVE Kept /\ Quiet
  BY <1>4 DEF ScanEnter, Quiet
<1>5. ASSUME NEW t \in Trade, HoldEntered(t) PROVE Kept /\ Quiet
  BY <1>5 DEF HoldEntered, Quiet
<1>6. ASSUME NEW t \in Trade, NoMarketData(t) PROVE Kept /\ Quiet
  BY <1>6 DEF NoMarketData, Quiet
<1>7. ASSUME NEW t \in Trade, ExpiredClose(t) PROVE Kept /\ Quiet
  BY <1>7 DEF ExpiredClose, Quiet
<1>8. ASSUME NEW t \in Trade, SignalPending(t) PROVE Kept /\ Quiet
  BY <1>8 DEF SignalPending, Quiet
<1>9. ASSUME NEW t \in Trade, SignalClose(t) PROVE Kept /\ Quiet
  BY <1>9 DEF SignalClose, Quiet
<1>10. ASSUME NEW t \in Trade, Hold(t) PROVE Kept /\ Quiet
  BY <1>10 DEF Hold, Quiet, NoSignal
<1>11. ASSUME NEW t \in Trade, DrainClose(t) PROVE Kept /\ Quiet
  BY <1>11 DEF DrainClose, Quiet, NoSignal
<1>12. ASSUME NEW t \in Trade, RollCapClose(t) PROVE Kept /\ Quiet
  BY <1>12 DEF RollCapClose, Quiet, NoSignal
<1>13. ASSUME NEW t \in Trade, RollNoCandidate(t) PROVE Kept /\ Quiet
  BY <1>13 DEF RollNoCandidate, Quiet, NoSignal
<1>14. ASSUME NEW t \in Trade, RollStart(t) PROVE Kept /\ Quiet
  BY <1>14 DEF RollStart, Quiet, NoSignal
<1>15. ASSUME NEW t \in Trade, EnterRejected(t) PROVE Kept /\ Quiet
  BY <1>15 DEF EnterRejected, Quiet
<1>16. ASSUME NEW t \in Trade, EnterRaised(t) PROVE Kept /\ Quiet
  BY <1>16 DEF EnterRaised, Quiet
<1>17. ASSUME NEW t \in Trade, CloseFailed(t) PROVE Kept /\ Quiet
  BY <1>17 DEF CloseFailed, Quiet
<1>18. ASSUME NEW t \in Trade, DrainCloseFailed(t) PROVE Kept /\ Quiet
  BY <1>18 DEF DrainCloseFailed, Quiet
<1>19. ASSUME NEW t \in Trade, RollFailed(t) PROVE Kept /\ Quiet
  BY <1>19 DEF RollFailed, Quiet
<1>20. ASSUME NEW t \in Trade, AlertStuck(t) PROVE Kept /\ Quiet
  BY <1>20 DEF AlertStuck, Quiet
<1>21. ASSUME ScanFinish PROVE Kept /\ Quiet
  BY <1>21 DEF ScanFinish, Quiet
<1>22. ASSUME MonitorFinish PROVE Kept /\ Quiet
  BY <1>22 DEF MonitorFinish, Quiet
<1>23. ASSUME StopBot PROVE Kept /\ Quiet
  BY <1>23 DEF StopBot, Quiet
<1>24. ASSUME StartBot PROVE Kept /\ Quiet
  BY <1>24 DEF StartBot, Quiet, Resume
<1>25. ASSUME StartDrain PROVE Kept /\ Quiet
  BY <1>25 DEF StartDrain, Quiet, Resume
<1>26. ASSUME NewDay PROVE Kept /\ Quiet
  BY <1>26 DEF NewDay, Quiet
<1>27. ASSUME UNCHANGED vars PROVE Kept /\ Quiet
  BY <1>27 DEF vars, Quiet
<1>28. ASSUME NEW t \in Trade, EnterUnrecorded(t) PROVE Kept /\ faults' # 0
  BY <1>28, <1>n DEF EnterUnrecorded
<1>29. ASSUME NEW t \in Trade, CloseUnrecorded(t) PROVE Kept /\ faults' # 0
  BY <1>29, <1>n DEF CloseUnrecorded
<1>30. ASSUME NEW t \in Trade, RollUnrecorded(t) PROVE Kept /\ faults' # 0
  BY <1>30, <1>n DEF RollUnrecorded, Rolled
<1>31. ASSUME Crash PROVE assets' = Asset /\ faults' # 0
  BY <1>31, <1>n DEF Crash
<1>32. ~ StartWithAssets /\ ~ DrainAndNew
  BY DEF AssetsStay, StartWithAssets, DrainAndNew
<1>33. ASSUME ScanSkipped PROVE Kept
  BY <1>33 DEF ScanSkipped
<1>34. ASSUME ScanStart PROVE Kept
  BY <1>34 DEF ScanStart
<1>35. ASSUME NEW t \in Trade, ExpiredStuck(t) PROVE Kept
  BY <1>35, <1>n DEF ExpiredStuck, MarkStuck
<1>36. ASSUME NEW t \in Trade, SignalStuck(t) PROVE Kept
  BY <1>36, <1>n DEF SignalStuck, MarkStuck
<1>37. ASSUME NEW t \in Trade, EnterFilled(t) PROVE Kept
  BY <1>37 DEF EnterFilled
<1>38. ASSUME NEW t \in Trade, CloseFilled(t) PROVE Kept
  BY <1>38 DEF CloseFilled
<1>39. ASSUME NEW t \in Trade, RollCapCloseFailed(t) PROVE Kept
  <2>1. MarkStuck(t) /\ assets' = assets
    BY <1>39 DEF RollCapCloseFailed
  <2>2. faults' = faults \/ faults' = faults + 1
    BY <2>1 DEF MarkStuck
  <2> QED
    BY <2>1, <2>2, <1>n
<1>40. ASSUME NEW t \in Trade, RollFilled(t) PROVE Kept
  BY <1>40 DEF RollFilled, Rolled
<1>41. ASSUME NEW t \in Trade, Close(t) PROVE Kept
  BY <1>41 DEF Close
<1>42. ASSUME NEW t \in Trade, CloseManually(t) PROVE Kept
  BY <1>42 DEF CloseManually
<1>43. ASSUME NEW t \in Trade, OperatorFlattens(t) PROVE Kept
  BY <1>43 DEF OperatorFlattens
<1> QED
  BY <1>1, <1>2, <1>3, <1>4, <1>5, <1>6, <1>7, <1>8, <1>9, <1>10, <1>11, <1>12,
     <1>13, <1>14, <1>15, <1>16, <1>17, <1>18, <1>19, <1>20, <1>21, <1>22,
     <1>23, <1>24, <1>25, <1>26, <1>27, <1>28, <1>29, <1>30, <1>31, <1>32,
     <1>33, <1>34, <1>35, <1>36, <1>37, <1>38, <1>39, <1>40, <1>41, <1>42, <1>43
     DEF Next, TickStep, Evaluate, Return, Command

(* Each of these keeps the agreement, or fails. *)
LEMMA AgreeStep ==
  ASSUME Disciplined, AssetsStay, SafeInv, AgreeInv, [Next]_vars
  PROVE  AgreeInv'
<1>t. TypeOK /\ RowInv /\ TodoInv /\ HeldInv
  BY DEF SafeInv
<1>n. faults \in Nat
  BY <1>t, Numbers DEF TypeOK, HistoryType
<1>a. assets' = Asset
  BY <1>t, Writes DEF AgreeInv
<1>1. ASSUME faults' = 0, faults # 0 PROVE FALSE
  BY <1>1, <1>t, Writes
<1>2. ASSUME faults = 0, faults' = 0 PROVE AllMatch'
  <2>m. AllMatch /\ assets = Asset
    BY <1>2 DEF AgreeInv
  <2>r. \A t \in Trade : rows[t] \in Row /\ SoundRow(rows[t]) /\ Match(rows[t], exch[t])
    BY <1>t, <2>m DEF TypeOK, BookType, RowInv, AllMatch
  <2>1. CASE Quiet
    BY <2>1, <2>m, QuietAgrees
  <2>2. CASE ScanSkipped
    BY <2>2, <1>t, <2>m, SyncAgrees DEF ScanSkipped
  <2>3. CASE ScanStart
    BY <2>3, <1>t, <2>m, SyncAgrees DEF ScanStart
  <2>4. ASSUME NEW t \in Trade, ExpiredStuck(t) PROVE AllMatch'
    BY <2>4, <1>t, <1>2, <2>m, EvaluatedIsMonitored, StickAgrees DEF ExpiredStuck
  <2>5. ASSUME NEW t \in Trade, SignalStuck(t) PROVE AllMatch'
    BY <2>5, <1>t, <1>2, <2>m, EvaluatedIsMonitored, StickAgrees DEF SignalStuck
  <2>6. ASSUME NEW t \in Trade, RollCapCloseFailed(t) PROVE AllMatch'
    BY <2>6, <1>t, <1>2, <2>m, TradedIsMonitored, StickAgrees DEF RollCapCloseFailed
  <2>7. ASSUME NEW t \in Trade, EnterFilled(t) PROVE AllMatch'
    <3>1. PICK days \in EntryDays : rows' = [rows EXCEPT ![t] = InsertRow(days)]
      BY <2>7 DEF EnterFilled
    <3>2. Match(InsertRow(days), "spread")
      <4>1. InsertRow(days).result = "Open"
        BY DEF InsertRow, NoRow
      <4> QED
        BY <4>1 DEF Match, OpenResults
    <3>3. exch' = [exch EXCEPT ![t] = "spread"]
      BY <2>7 DEF EnterFilled
    <3> QED
      BY <1>t, <2>m, <3>1, <3>2, <3>3, OneWrite
  <2>8. ASSUME NEW t \in Trade, CloseFilled(t) PROVE AllMatch'
    <3>1. Monitored(t)
      BY <2>8, <1>t, TradedIsMonitored DEF CloseFilled
    <3>2. AfterClose(exch[t]) = "flat"
      BY <2>r, <3>1 DEF AfterClose, Match, Monitored, Visible, Stuck
    <3>3. PICK pnl : rows' = [rows EXCEPT ![t] = CloseRow(rows[t], pnl)]
      BY <2>8 DEF CloseFilled
    <3>4. Match(CloseRow(rows[t], pnl), AfterClose(exch[t]))
      BY <2>r, <3>2, RowFields DEF Match, OpenResults
    <3>5. exch' = [exch EXCEPT ![t] = AfterClose(exch[t])]
      BY <2>8 DEF CloseFilled
    <3> QED
      BY <1>t, <2>m, <3>3, <3>4, <3>5, OneWrite
  <2>9. ASSUME NEW t \in Trade, RollFilled(t) PROVE AllMatch'
    <3>1. Monitored(t)
      BY <2>9, <1>t, TradedIsMonitored DEF RollFilled, Rolled
    <3>2. AfterRoll(exch[t]) = "spread"
      BY <2>r, <3>1 DEF AfterRoll, Match, Monitored, Visible, Stuck
    <3>3. PICK pnl : rows' = [rows EXCEPT ![t] = RollRow(rows[t], pnl)]
      BY <2>9 DEF RollFilled
    <3>4. Match(RollRow(rows[t], pnl), AfterRoll(exch[t]))
      <4>1. RollRow(rows[t], pnl).result = "Near Leg Rolled"
        BY <2>r DEF RollRow, Row
      <4> QED
        BY <3>2, <4>1 DEF Match, OpenResults
    <3>5. exch' = [exch EXCEPT ![t] = AfterRoll(exch[t])]
      BY <2>9 DEF RollFilled
    <3> QED
      BY <1>t, <2>m, <3>3, <3>4, <3>5, OneWrite
  <2>10. ASSUME NEW t \in Trade, Close(t) PROVE AllMatch'
    <3>1. rows[t].result \in OpenResults /\ exch[t] = "spread"
      BY <2>10, <2>r DEF Close, SoundRow, Stuck
    <3>2. Match(ResetRow(rows[t]), exch[t])
      BY <2>r, <3>1, RowFields DEF Match
    <3>3. rows' = [rows EXCEPT ![t] = ResetRow(rows[t])] /\ exch' = exch
      BY <2>10 DEF Close
    <3> QED
      BY <1>t, <2>m, <3>2, <3>3, OneWrite, SameHolding
  <2>11. ASSUME NEW t \in Trade, CloseManually(t) PROVE AllMatch'
    <3>1. PICK pnl : rows' = [rows EXCEPT ![t] = ManualRow(rows[t], pnl)]
      BY <2>11 DEF CloseManually
    <3>2. exch[t] = "flat" /\ exch' = exch
      BY <2>11 DEF CloseManually
    <3>3. Match(ManualRow(rows[t], pnl), exch[t])
      BY <2>r, <3>2, RowFields DEF Match, OpenResults
    <3> QED
      BY <1>t, <2>m, <3>1, <3>2, <3>3, OneWrite, SameHolding
  <2>12. ASSUME NEW t \in Trade, OperatorFlattens(t) PROVE AllMatch'
    <3>1. rows' = rows /\ exch' = [exch EXCEPT ![t] = "flat"]
      BY <2>12 DEF OperatorFlattens
    <3>2. rows' = [rows EXCEPT ![t] = rows[t]]
      BY <3>1, <1>t DEF TypeOK, BookType
    <3>3. Match(rows[t], "flat")
      BY <2>12 DEF OperatorFlattens, Stuck, Visible, Match
    <3> QED
      BY <1>t, <2>m, <3>1, <3>2, <3>3, OneWrite
  <2> QED
    BY <1>2, <1>t, <2>1, <2>2, <2>3, <2>4, <2>5, <2>6, <2>7, <2>8, <2>9, <2>10,
       <2>11, <2>12, Writes
<1> QED
  BY <1>a, <1>1, <1>2 DEF AgreeInv

(* Before the first fault, a disciplined operator who keeps the assets, the  *)
(* engine, the settling of stuck rows and the commands leave the book and    *)
(* Deribit in agreement: what is monitored is a whole spread, what is closed *)
(* is gone, and nothing is held that no row tells of.                        *)
THEOREM BookAgrees ==
  ASSUME Disciplined, AssetsStay
  PROVE  Spec => []BookMatchesExchange
<1>1. Init => AgreeInv
  <2> SUFFICES ASSUME Init PROVE AgreeInv
    OBVIOUS
  <2>1. ASSUME NEW t \in Trade PROVE Match(rows[t], exch[t])
    <3>1. rows[t].result = "none" /\ exch[t] = "flat"
      BY DEF Init, NoRow
    <3> QED
      BY <3>1 DEF Match, OpenResults
  <2> QED
    BY <2>1 DEF Init, AgreeInv, AllMatch
<1>2. SafeInv /\ AgreeInv /\ [Next]_vars => AgreeInv'
  BY AgreeStep
<1>3. AgreeInv => BookMatchesExchange
  BY DEF AgreeInv, AllMatch, Match, BookMatchesExchange, Monitored, Visible, Stuck
<1> QED
  BY <1>1, <1>2, <1>3, SafeAlways, PTL DEF Spec

=============================================================================
