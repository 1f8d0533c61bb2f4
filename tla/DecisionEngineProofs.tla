------------------------ MODULE DecisionEngineProofs ------------------------
(* Theorems about DecisionEngine, for every value of its constants: type     *)
(* correctness first, then the inductive safety invariants, one lemma per    *)
(* part of them, and the safety theorems.                                    *)
EXTENDS DecisionEngine, FiniteSetTheorems, TLAPS

(* The assumptions on the limits, as plain facts on numbers. *)
LEMMA Numbers ==
  /\ RetryCap \in Nat /\ RetryCap > 0
  /\ ConfirmTicks \in Nat /\ ConfirmTicks > 0
  /\ MaxFaults \in Nat
BY EngineAssumption DEF EngineAssumption

(* Clearing counters keeps them counters. *)
LEMMA ClearedType ==
  ASSUME NEW A, 0 \in A, NEW f \in [Trade -> A], NEW S
  PROVE  /\ Cleared(f, S) \in [Trade -> A]
         /\ \A t \in Trade : Cleared(f, S)[t] = IF t \in S THEN 0 ELSE f[t]
BY DEF Cleared

(* A new row is a row. *)
LEMMA InsertRowType == ASSUME NEW days \in Nat PROVE InsertRow(days) \in Row
<1>1. NoRow \in Row
  BY DEF NoRow, Row
<1>2. "Open" \in OpenResults /\ days \in Int
  BY DEF OpenResults
<1> QED
  BY <1>1, <1>2 DEF Row, InsertRow

(* So is one that a roll, a close or /close_manually has written P&L to. *)
LEMMA PnlRowTypes ==
  ASSUME NEW r \in Row, NEW pnl \in Int
  PROVE  CloseRow(r, pnl) \in Row /\ RollRow(r, pnl) \in Row /\ ManualRow(r, pnl) \in Row
<1>1. CloseRow(r, pnl) \in Row
  BY DEF Row, CloseRow, ClosedResults
<1>2. RollRow(r, pnl) \in Row
  <2>1. r.roll_pnl \in Int
    BY DEF Row
  <2>2. r.roll_pnl + pnl \in Int
    BY <2>1
  <2>3. "Near Leg Rolled" \in OpenResults
    BY DEF OpenResults
  <2> QED
    BY <2>2, <2>3 DEF Row, RollRow
<1>3. ManualRow(r, pnl) \in Row
  BY DEF Row, ManualRow, ClosedResults
<1> QED
  BY <1>1, <1>2, <1>3

(* So is one whose stuck flag was set, reset or reconciled. *)
LEMMA FlagRowTypes ==
  ASSUME NEW r \in Row
  PROVE  StickRow(r) \in Row /\ ResetRow(r) \in Row /\ ReconcileRow(r) \in Row
<1>1. StickRow(r) \in Row
  BY DEF Row, StickRow
<1>2. ResetRow(r) \in Row
  BY DEF Row, ResetRow
<1>3. ReconcileRow(r) \in Row
  BY DEF Row, ReconcileRow, OpenResults, ClosedResults
<1> QED
  BY <1>1, <1>2, <1>3

(* There are finitely many open positions. *)
LEMMA OpenCountType == Cardinality(OpenPositions) \in Nat
<1>1. OpenPositions \subseteq Trade
  BY DEF OpenPositions
<1>2. IsFiniteSet(OpenPositions)
  BY <1>1, FS_Subset, EngineAssumption DEF EngineAssumption
<1> QED
  BY <1>2, FS_CardinalityType

(* Every variable starts with its type. *)
LEMMA TypeInit == Init => TypeOK
<1> SUFFICES ASSUME Init PROVE TypeOK
  OBVIOUS
<1> USE EngineAssumption DEF EngineAssumption
<1>1. NoRow \in Row
  BY DEF NoRow, Row
<1>2. NoCall \in Calls
  BY DEF NoCall, Calls
<1>3. BookType
  BY <1>1 DEF Init, BookType, Zeros
<1>4. MemoryType
  <2>1. paused \in BOOLEAN
    BY DEF Init
  <2>2. failures \in [Trade -> 0..RetryCap] /\ pending \in [Trade -> 0..ConfirmTicks]
    BY DEF Init, Zeros
  <2> QED
    BY <2>1, <2>2 DEF Init, MemoryType
<1>5. TickType
  BY <1>2 DEF Init, TickType
<1>6. HistoryType
  BY DEF Init, HistoryType, Zeros
<1> QED
  BY <1>3, <1>4, <1>5, <1>6 DEF TypeOK

(* Clearing keeps the type of each of the counters. *)
LEMMA ClearedTypes ==
  ASSUME TypeOK, NEW S
  PROVE  /\ Cleared(failures, S) \in [Trade -> 0..RetryCap]
         /\ Cleared(pending, S) \in [Trade -> 0..ConfirmTicks]
         /\ Cleared(tries, S) \in [Trade -> 0..RetryCap]
         /\ Cleared(streak, S) \in [Trade -> 0..ConfirmTicks]
         /\ Cleared(alerts, S) \in [Trade -> -1..2]
         /\ Cleared(near_left, S) \in [Trade -> Nat]
<1> USE DEF TypeOK
<1>0. 0 \in 0..RetryCap /\ 0 \in 0..ConfirmTicks /\ 0 \in -1..2
  BY Numbers
<1>1. Cleared(failures, S) \in [Trade -> 0..RetryCap]
  BY <1>0, ClearedType DEF MemoryType
<1>2. Cleared(pending, S) \in [Trade -> 0..ConfirmTicks]
  BY <1>0, ClearedType DEF MemoryType
<1>3. Cleared(tries, S) \in [Trade -> 0..RetryCap]
  BY <1>0, ClearedType DEF HistoryType
<1>5. Cleared(streak, S) \in [Trade -> 0..ConfirmTicks]
  BY <1>0, ClearedType DEF HistoryType
<1>6. Cleared(alerts, S) \in [Trade -> -1..2]
  BY <1>0, ClearedType DEF HistoryType
<1>7. Cleared(near_left, S) \in [Trade -> Nat]
  BY <1>0, ClearedType DEF BookType
<1> QED
  BY <1>1, <1>2, <1>3, <1>5, <1>6, <1>7

(* A counter never passes the cap. *)
LEMMA CounterType == \A n \in 0..RetryCap : OneMore(n) \in 0..RetryCap
BY EngineAssumption DEF EngineAssumption, OneMore

(* A call that starts is a call. *)
LEMMA StartType ==
  ASSUME MemoryType, NEW t \in Trade,
         NEW op \in {"enter", "close", "roll"},
         NEW why \in {"none", "expired", "signal", "drain", "roll cap"},
         Start(op, t, why)
  PROVE  call' \in Calls
<1>1. failures[t] \in 0..RetryCap
  BY DEF MemoryType
<1> QED
  BY <1>1 DEF Start, Calls

(* So is no call. *)
LEMMA NoCallType == NoCall \in Calls
BY EngineAssumption DEF EngineAssumption, NoCall, Calls

(* What _mark_stuck_and_notify writes has its type. *)
LEMMA MarkStuckType ==
  ASSUME TypeOK, NEW t \in Trade, MarkStuck(t)
  PROVE  /\ rows' \in [Trade -> Row]
         /\ failures' \in [Trade -> 0..RetryCap]
         /\ call' \in Calls
         /\ todo' \subseteq Trade
         /\ faults' \in 0..MaxFaults
<1> USE EngineAssumption DEF EngineAssumption
<1>1. rows \in [Trade -> Row] /\ rows[t] \in Row
  BY DEF TypeOK, BookType
<1>2. failures \in [Trade -> 0..RetryCap]
  BY DEF TypeOK, MemoryType
<1>3. todo \subseteq Trade
  BY DEF TypeOK, TickType
<1>4. faults \in 0..MaxFaults
  BY DEF TypeOK, HistoryType
<1>5. CASE /\ rows' = [rows EXCEPT ![t] = StickRow(@)]
           /\ failures' = Cleared(failures, {t})
           /\ call' = [op |-> "alert", trade |-> t,
                       why |-> IF Stuck(t) THEN "known" ELSE "news", fc |-> 0]
           /\ UNCHANGED <<todo, faults>>
  <2>1. StickRow(rows[t]) \in Row
    BY <1>1, FlagRowTypes
  <2>2. rows' \in [Trade -> Row]
    BY <1>1, <1>5, <2>1
  <2>3. failures' \in [Trade -> 0..RetryCap]
    BY <1>2, <1>5 DEF Cleared
  <2>4. call' \in Calls
    BY <1>5 DEF Calls
  <2> QED
    BY <1>3, <1>4, <1>5, <2>2, <2>3, <2>4
<1>6. CASE /\ faults < MaxFaults
           /\ faults' = faults + 1
           /\ call' = NoCall
           /\ Done(t)
           /\ UNCHANGED <<rows, failures>>
  BY <1>1, <1>2, <1>3, <1>4, <1>6, NoCallType DEF Done
<1> QED
  BY <1>5, <1>6 DEF MarkStuck

(* An evaluation keeps the types. *)
LEMMA TypeEvaluate ==
  ASSUME TypeOK, NEW t \in Trade, Evaluate(t)
  PROVE  TypeOK'
<1>0. BookType /\ MemoryType /\ TickType /\ HistoryType
  BY DEF TypeOK
<1>1. CASE HoldEntered(t)
  <2>1. BookType'
    BY <1>0, <1>1
       DEF HoldEntered, BookType, bookVars
  <2>2. MemoryType'
    BY <1>0, <1>1
       DEF HoldEntered, MemoryType, memVars, configVars
  <2>3. TickType'
    BY <1>0, <1>1
       DEF HoldEntered, TickType, tickVars, Done
  <2>4. HistoryType'
    BY <1>0, <1>1
       DEF HoldEntered, HistoryType, histVars
  <2> QED
    BY <2>1, <2>2, <2>3, <2>4 DEF TypeOK
<1>2. CASE NoMarketData(t)
  <2>1. BookType'
    BY <1>0, <1>2
       DEF NoMarketData, BookType, bookVars
  <2>2. MemoryType'
    BY <1>0, <1>2
       DEF NoMarketData, MemoryType, memVars, configVars
  <2>3. TickType'
    BY <1>0, <1>2
       DEF NoMarketData, TickType, tickVars, Done
  <2>4. HistoryType'
    BY <1>0, <1>2, ClearedTypes
       DEF NoMarketData, HistoryType, histVars
  <2> QED
    BY <2>1, <2>2, <2>3, <2>4 DEF TypeOK
<1>3. CASE ExpiredClose(t)
  <2>1. BookType'
    BY <1>0, <1>3
       DEF ExpiredClose, BookType, bookVars
  <2>2. MemoryType'
    BY <1>0, <1>3
       DEF ExpiredClose, MemoryType, memVars, configVars
  <2>3. TickType'
    BY <1>0, <1>3, StartType
       DEF ExpiredClose, TickType, tickVars
  <2>4. HistoryType'
    BY <1>0, <1>3
       DEF ExpiredClose, HistoryType, histVars
  <2> QED
    BY <2>1, <2>2, <2>3, <2>4 DEF TypeOK
<1>4. CASE ExpiredStuck(t)
  <2>1. BookType'
    BY <1>0, <1>4, MarkStuckType
       DEF ExpiredStuck, BookType, bookVars
  <2>2. MemoryType'
    BY <1>0, <1>4, MarkStuckType
       DEF ExpiredStuck, MemoryType, memVars, configVars
  <2>3. TickType'
    BY <1>0, <1>4, MarkStuckType
       DEF ExpiredStuck, TickType, tickVars
  <2>4. HistoryType'
    BY <1>0, <1>4, MarkStuckType
       DEF ExpiredStuck, HistoryType, histVars
  <2> QED
    BY <2>1, <2>2, <2>3, <2>4 DEF TypeOK
<1>5. CASE SignalPending(t)
  <2>1. BookType'
    BY <1>0, <1>5
       DEF SignalPending, BookType, bookVars
  <2>2. MemoryType'
    BY <1>0, <1>5, Numbers
       DEF SignalPending, MemoryType, memVars, configVars, Confirmed
  <2>3. TickType'
    BY <1>0, <1>5
       DEF SignalPending, TickType, tickVars, Done
  <2>4. HistoryType'
    BY <1>0, <1>5, Numbers
       DEF SignalPending, HistoryType, histVars, SeeSignal
  <2> QED
    BY <2>1, <2>2, <2>3, <2>4 DEF TypeOK
<1>6. CASE SignalClose(t)
  <2>1. BookType'
    BY <1>0, <1>6
       DEF SignalClose, BookType, bookVars
  <2>2. MemoryType'
    BY <1>0, <1>6, ClearedTypes
       DEF SignalClose, MemoryType, memVars, configVars
  <2>3. TickType'
    BY <1>0, <1>6, StartType
       DEF SignalClose, TickType, tickVars
  <2>4. HistoryType'
    BY <1>0, <1>6, Numbers
       DEF SignalClose, HistoryType, histVars, SeeSignal
  <2> QED
    BY <2>1, <2>2, <2>3, <2>4 DEF TypeOK
<1>7. CASE SignalStuck(t)
  <2>1. BookType'
    BY <1>0, <1>7, MarkStuckType
       DEF SignalStuck, BookType, bookVars
  <2>2. MemoryType'
    BY <1>0, <1>7, MarkStuckType, ClearedTypes
       DEF SignalStuck, MemoryType, memVars, configVars
  <2>3. TickType'
    BY <1>0, <1>7, MarkStuckType
       DEF SignalStuck, TickType, tickVars
  <2>4. HistoryType'
    BY <1>0, <1>7, MarkStuckType, ClearedTypes, Numbers
       DEF SignalStuck, HistoryType, histVars
  <2> QED
    BY <2>1, <2>2, <2>3, <2>4 DEF TypeOK
<1>8. CASE Hold(t)
  <2>1. BookType'
    BY <1>0, <1>8
       DEF Hold, BookType, bookVars, NoSignal
  <2>2. MemoryType'
    BY <1>0, <1>8, ClearedTypes
       DEF Hold, MemoryType, memVars, configVars, NoSignal
  <2>3. TickType'
    BY <1>0, <1>8
       DEF Hold, TickType, tickVars, NoSignal, Done
  <2>4. HistoryType'
    BY <1>0, <1>8, ClearedTypes
       DEF Hold, HistoryType, histVars, NoSignal
  <2> QED
    BY <2>1, <2>2, <2>3, <2>4 DEF TypeOK
<1>9. CASE DrainClose(t)
  <2>1. BookType'
    BY <1>0, <1>9
       DEF DrainClose, BookType, bookVars, NoSignal
  <2>2. MemoryType'
    BY <1>0, <1>9, ClearedTypes
       DEF DrainClose, MemoryType, memVars, configVars, NoSignal
  <2>3. TickType'
    BY <1>0, <1>9, StartType
       DEF DrainClose, TickType, tickVars, NoSignal
  <2>4. HistoryType'
    BY <1>0, <1>9, ClearedTypes
       DEF DrainClose, HistoryType, histVars, NoSignal
  <2> QED
    BY <2>1, <2>2, <2>3, <2>4 DEF TypeOK
<1>10. CASE RollCapClose(t)
  <2>1. BookType'
    BY <1>0, <1>10
       DEF RollCapClose, BookType, bookVars, NoSignal
  <2>2. MemoryType'
    BY <1>0, <1>10, ClearedTypes
       DEF RollCapClose, MemoryType, memVars, configVars, NoSignal
  <2>3. TickType'
    BY <1>0, <1>10, StartType
       DEF RollCapClose, TickType, tickVars, NoSignal
  <2>4. HistoryType'
    BY <1>0, <1>10, ClearedTypes
       DEF RollCapClose, HistoryType, histVars, NoSignal
  <2> QED
    BY <2>1, <2>2, <2>3, <2>4 DEF TypeOK
<1>11. CASE RollNoCandidate(t)
  <2>1. BookType'
    BY <1>0, <1>11
       DEF RollNoCandidate, BookType, bookVars, NoSignal
  <2>2. MemoryType'
    BY <1>0, <1>11, CounterType, ClearedTypes
       DEF RollNoCandidate, MemoryType, memVars, configVars, NoSignal
  <2>3. TickType'
    BY <1>0, <1>11
       DEF RollNoCandidate, TickType, tickVars, NoSignal, Done
  <2>4. HistoryType'
    BY <1>0, <1>11, CounterType, ClearedTypes
       DEF RollNoCandidate, HistoryType, histVars, NoSignal
  <2> QED
    BY <2>1, <2>2, <2>3, <2>4 DEF TypeOK
<1>12. CASE RollStart(t)
  <2>1. BookType'
    BY <1>0, <1>12
       DEF RollStart, BookType, bookVars, NoSignal
  <2>2. MemoryType'
    BY <1>0, <1>12, ClearedTypes
       DEF RollStart, MemoryType, memVars, configVars, NoSignal
  <2>3. TickType'
    BY <1>0, <1>12, StartType
       DEF RollStart, TickType, tickVars, NoSignal
  <2>4. HistoryType'
    BY <1>0, <1>12, ClearedTypes
       DEF RollStart, HistoryType, histVars, NoSignal
  <2> QED
    BY <2>1, <2>2, <2>3, <2>4 DEF TypeOK
<1> QED
  BY <1>1, <1>2, <1>3, <1>4, <1>5, <1>6, <1>7, <1>8, <1>9, <1>10, <1>11, <1>12 DEF Evaluate

(* So does what the engine makes of the executor's answer. *)
LEMMA TypeReturn ==
  ASSUME TypeOK, NEW t \in Trade, Return(t)
  PROVE  TypeOK'
<1>0. BookType /\ MemoryType /\ TickType /\ HistoryType
  BY DEF TypeOK
<1>1. CASE EnterFilled(t)
  <2>0. PICK days \in EntryDays :
          /\ rows' = [rows EXCEPT ![t] = InsertRow(days)]
          /\ near_left' = [near_left EXCEPT ![t] = days]
    BY <1>1 DEF EnterFilled
  <2>d. days \in Nat /\ InsertRow(days) \in Row
    BY EngineAssumption, InsertRowType DEF EngineAssumption
  <2>1. BookType'
    BY <1>0, <1>1, <2>0, <2>d
       DEF EnterFilled, BookType, bookVars
  <2>2. MemoryType'
    BY <1>0, <1>1
       DEF EnterFilled, MemoryType, memVars, configVars
  <2>3. TickType'
    BY <1>0, <1>1, NoCallType
       DEF EnterFilled, TickType, tickVars
  <2>4. HistoryType'
    BY <1>0, <1>1, <2>0, <2>d
       DEF EnterFilled, HistoryType, histVars
  <2> QED
    BY <2>1, <2>2, <2>3, <2>4 DEF TypeOK
<1>2. CASE EnterRejected(t)
  <2>1. BookType'
    BY <1>0, <1>2
       DEF EnterRejected, BookType, bookVars
  <2>2. MemoryType'
    BY <1>0, <1>2
       DEF EnterRejected, MemoryType, memVars, configVars
  <2>3. TickType'
    BY <1>0, <1>2, NoCallType
       DEF EnterRejected, TickType, tickVars
  <2>4. HistoryType'
    BY <1>0, <1>2
       DEF EnterRejected, HistoryType, histVars
  <2> QED
    BY <2>1, <2>2, <2>3, <2>4 DEF TypeOK
<1>3. CASE EnterRaised(t)
  <2>1. BookType'
    BY <1>0, <1>3
       DEF EnterRaised, BookType, bookVars
  <2>2. MemoryType'
    BY <1>0, <1>3
       DEF EnterRaised, MemoryType, memVars, configVars
  <2>3. TickType'
    BY <1>0, <1>3, NoCallType
       DEF EnterRaised, TickType, tickVars, AbortScan
  <2>4. HistoryType'
    BY <1>0, <1>3
       DEF EnterRaised, HistoryType, histVars
  <2> QED
    BY <2>1, <2>2, <2>3, <2>4 DEF TypeOK
<1>4. CASE EnterUnrecorded(t)
  <2>1. BookType'
    BY <1>0, <1>4
       DEF EnterUnrecorded, BookType, bookVars
  <2>2. MemoryType'
    BY <1>0, <1>4
       DEF EnterUnrecorded, MemoryType, memVars, configVars
  <2>3. TickType'
    BY <1>0, <1>4, NoCallType
       DEF EnterUnrecorded, TickType, tickVars, AbortScan
  <2>4. HistoryType'
    BY <1>0, <1>4, Numbers
       DEF EnterUnrecorded, HistoryType, histVars
  <2> QED
    BY <2>1, <2>2, <2>3, <2>4 DEF TypeOK
<1>5. CASE CloseFilled(t)
  <2>0. PICK gross \in ClosePnl :
          /\ rows' = [rows EXCEPT ![t] = CloseRow(rows[t], gross + rows[t].roll_pnl)]
          /\ Realise(gross + rows[t].roll_pnl)
    BY <1>5 DEF CloseFilled
  <2>d. gross + rows[t].roll_pnl \in Int /\ rows[t] \in Row
    BY <1>0, EngineAssumption DEF EngineAssumption, BookType, Row
  <2>1. BookType'
    BY <1>0, <1>5, <2>0, <2>d, PnlRowTypes, ClearedTypes
       DEF CloseFilled, BookType, bookVars, AfterClose, Retire
  <2>2. MemoryType'
    BY <1>0, <1>5, <2>0, <2>d, ClearedTypes
       DEF CloseFilled, MemoryType, memVars, configVars, Realise
  <2>3. TickType'
    BY <1>0, <1>5, NoCallType
       DEF CloseFilled, TickType, tickVars, Done
  <2>4. HistoryType'
    BY <1>0, <1>5, <2>0, <2>d, ClearedTypes
       DEF CloseFilled, HistoryType, histVars, Realise, Retire
  <2> QED
    BY <2>1, <2>2, <2>3, <2>4 DEF TypeOK
<1>6. CASE CloseUnrecorded(t)
  <2>1. BookType'
    BY <1>0, <1>6
       DEF CloseUnrecorded, BookType, bookVars, AfterClose
  <2>2. MemoryType'
    BY <1>0, <1>6
       DEF CloseUnrecorded, MemoryType, memVars, configVars
  <2>3. TickType'
    BY <1>0, <1>6, NoCallType
       DEF CloseUnrecorded, TickType, tickVars, Done
  <2>s. streak' \in [Trade -> 0..ConfirmTicks]
    BY <1>6, ClearedTypes DEF CloseUnrecorded
  <2>4. HistoryType'
    BY <1>0, <1>6, <2>s, Numbers
       DEF CloseUnrecorded, HistoryType, histVars
  <2> QED
    BY <2>1, <2>2, <2>3, <2>4 DEF TypeOK
<1>7. CASE CloseFailed(t)
  <2>0. call.fc \in 0..RetryCap
    BY <1>0 DEF TickType, Calls
  <2>1. BookType'
    BY <1>0, <1>7
       DEF CloseFailed, BookType, bookVars
  <2>2. MemoryType'
    BY <1>0, <1>7, <2>0, CounterType
       DEF CloseFailed, MemoryType, memVars, configVars
  <2>3. TickType'
    BY <1>0, <1>7, NoCallType
       DEF CloseFailed, TickType, tickVars, Done
  <2>s. streak' \in [Trade -> 0..ConfirmTicks]
    BY <1>7, ClearedTypes DEF CloseFailed
  <2>4. HistoryType'
    BY <1>0, <1>7, <2>s, CounterType
       DEF CloseFailed, HistoryType, histVars
  <2> QED
    BY <2>1, <2>2, <2>3, <2>4 DEF TypeOK
<1>8. CASE DrainCloseFailed(t)
  <2>1. BookType'
    BY <1>0, <1>8
       DEF DrainCloseFailed, BookType, bookVars
  <2>2. MemoryType'
    BY <1>0, <1>8
       DEF DrainCloseFailed, MemoryType, memVars, configVars
  <2>3. TickType'
    BY <1>0, <1>8, NoCallType
       DEF DrainCloseFailed, TickType, tickVars, Done
  <2>4. HistoryType'
    BY <1>0, <1>8, CounterType
       DEF DrainCloseFailed, HistoryType, histVars
  <2> QED
    BY <2>1, <2>2, <2>3, <2>4 DEF TypeOK
<1>9. CASE RollCapCloseFailed(t)
  <2>1. BookType'
    BY <1>0, <1>9, MarkStuckType
       DEF RollCapCloseFailed, BookType, bookVars
  <2>2. MemoryType'
    BY <1>0, <1>9, MarkStuckType
       DEF RollCapCloseFailed, MemoryType, memVars, configVars
  <2>3. TickType'
    BY <1>0, <1>9, MarkStuckType
       DEF RollCapCloseFailed, TickType, tickVars
  <2>4. HistoryType'
    BY <1>0, <1>9, MarkStuckType, CounterType
       DEF RollCapCloseFailed, HistoryType, histVars
  <2> QED
    BY <2>1, <2>2, <2>3, <2>4 DEF TypeOK
<1>10. CASE RollFilled(t)
  <2>0. PICK pnl \in RollPnl : Rolled(t, pnl) /\ rows' = [rows EXCEPT ![t] = RollRow(rows[t], pnl)]
    BY <1>10 DEF RollFilled
  <2>d. PICK days \in RollDays : /\ near_left' = [near_left EXCEPT ![t] = days]
                           BY <1>10 DEF RollFilled
  <2>e. pnl \in Int /\ days \in Nat /\ rows[t] \in Row
    BY <1>0, EngineAssumption DEF EngineAssumption, BookType
  <2>1. BookType'
    BY <1>0, <1>10, <2>0, <2>d, <2>e, PnlRowTypes
       DEF RollFilled, BookType, bookVars, AfterRoll
  <2>2. MemoryType'
    BY <1>0, <1>10, <2>0, <2>e, ClearedTypes
       DEF RollFilled, MemoryType, memVars, configVars, Rolled, Realise
  <2>3. TickType'
    BY <1>0, <1>10, <2>0, NoCallType
       DEF RollFilled, TickType, tickVars, Rolled, Done
  <2>4. HistoryType'
    BY <1>0, <1>10, <2>0, <2>d, <2>e, ClearedTypes
       DEF RollFilled, HistoryType, histVars, Rolled, Realise
  <2> QED
    BY <2>1, <2>2, <2>3, <2>4 DEF TypeOK
<1>11. CASE RollUnrecorded(t)
  <2>0. PICK pnl \in RollPnl : Rolled(t, pnl)
    BY <1>11 DEF RollUnrecorded
  <2>e. pnl \in Int
    BY EngineAssumption DEF EngineAssumption
  <2>1. BookType'
    BY <1>0, <1>11
       DEF RollUnrecorded, BookType, bookVars
  <2>2. MemoryType'
    BY <1>0, <1>11, <2>0, <2>e, ClearedTypes
       DEF RollUnrecorded, MemoryType, memVars, configVars, Rolled, Realise
  <2>3. TickType'
    BY <1>0, <1>11, <2>0, NoCallType
       DEF RollUnrecorded, TickType, tickVars, Rolled, Done
  <2>4. HistoryType'
    BY <1>0, <1>11, <2>0, <2>e, Numbers, ClearedTypes
       DEF RollUnrecorded, HistoryType, histVars, Rolled, Realise
  <2> QED
    BY <2>1, <2>2, <2>3, <2>4 DEF TypeOK
<1>12. CASE RollFailed(t)
  <2>0. call.fc \in 0..RetryCap
    BY <1>0 DEF TickType, Calls
  <2>1. BookType'
    BY <1>0, <1>12
       DEF RollFailed, BookType, bookVars
  <2>2. MemoryType'
    BY <1>0, <1>12, <2>0, CounterType
       DEF RollFailed, MemoryType, memVars, configVars
  <2>3. TickType'
    BY <1>0, <1>12, NoCallType
       DEF RollFailed, TickType, tickVars, Done
  <2>4. HistoryType'
    BY <1>0, <1>12, CounterType
       DEF RollFailed, HistoryType, histVars
  <2> QED
    BY <2>1, <2>2, <2>3, <2>4 DEF TypeOK
<1>13. CASE AlertStuck(t)
  <2>1. BookType'
    BY <1>0, <1>13
       DEF AlertStuck, BookType, bookVars
  <2>2. MemoryType'
    BY <1>0, <1>13
       DEF AlertStuck, MemoryType, memVars, configVars
  <2>3. TickType'
    BY <1>0, <1>13, NoCallType
       DEF AlertStuck, TickType, tickVars, Done
  <2>4. HistoryType'
    BY <1>0, <1>13
       DEF AlertStuck, HistoryType, histVars
  <2> QED
    BY <2>1, <2>2, <2>3, <2>4 DEF TypeOK
<1> QED
  BY <1>1, <1>2, <1>3, <1>4, <1>5, <1>6, <1>7, <1>8, <1>9, <1>10, <1>11, <1>12, <1>13 DEF Return

(* The commands of the operator keep the types. *)
LEMMA TypeCommand == TypeOK /\ Command => TypeOK'
<1> SUFFICES ASSUME TypeOK, Command PROVE TypeOK'
  OBVIOUS
<1>0. BookType /\ MemoryType /\ TickType /\ HistoryType
  BY DEF TypeOK
<1>1. CASE StopBot
  <2>1. BookType'
    BY <1>0, <1>1
       DEF StopBot, BookType, bookVars
  <2>2. MemoryType'
    BY <1>0, <1>1
       DEF StopBot, MemoryType, memVars, configVars
  <2>3. TickType'
    BY <1>0, <1>1
       DEF StopBot, TickType, tickVars
  <2>4. HistoryType'
    BY <1>0, <1>1
       DEF StopBot, HistoryType, histVars
  <2> QED
    BY <2>1, <2>2, <2>3, <2>4 DEF TypeOK
<1>2. CASE StartBot
  <2>1. BookType'
    BY <1>0, <1>2
       DEF StartBot, BookType, Resume, bookVars
  <2>2. MemoryType'
    BY <1>0, <1>2
       DEF StartBot, MemoryType, Resume, memVars, configVars
  <2>3. TickType'
    BY <1>0, <1>2
       DEF StartBot, TickType, Resume, tickVars
  <2>4. HistoryType'
    BY <1>0, <1>2
       DEF StartBot, HistoryType, Resume, histVars
  <2> QED
    BY <2>1, <2>2, <2>3, <2>4 DEF TypeOK
<1>3. CASE StartDrain
  <2>1. BookType'
    BY <1>0, <1>3
       DEF StartDrain, BookType, Resume, bookVars
  <2>2. MemoryType'
    BY <1>0, <1>3
       DEF StartDrain, MemoryType, Resume, memVars, configVars
  <2>3. TickType'
    BY <1>0, <1>3
       DEF StartDrain, TickType, Resume, tickVars
  <2>4. HistoryType'
    BY <1>0, <1>3
       DEF StartDrain, HistoryType, Resume, histVars
  <2> QED
    BY <2>1, <2>2, <2>3, <2>4 DEF TypeOK
<1>4. CASE StartWithAssets
  <2>1. BookType'
    BY <1>0, <1>4
       DEF StartWithAssets, BookType, Resume, bookVars
  <2>2. MemoryType'
    BY <1>0, <1>4
       DEF StartWithAssets, MemoryType, Resume, memVars, configVars
  <2>3. TickType'
    BY <1>0, <1>4
       DEF StartWithAssets, TickType, Resume, tickVars
  <2>4. HistoryType'
    BY <1>0, <1>4
       DEF StartWithAssets, HistoryType, Resume, histVars
  <2> QED
    BY <2>1, <2>2, <2>3, <2>4 DEF TypeOK
<1>5. CASE DrainAndNew
  <2>1. BookType'
    BY <1>0, <1>5
       DEF DrainAndNew, BookType, Resume, bookVars
  <2>2. MemoryType'
    BY <1>0, <1>5
       DEF DrainAndNew, MemoryType, Resume, memVars, configVars
  <2>3. TickType'
    BY <1>0, <1>5
       DEF DrainAndNew, TickType, Resume, tickVars
  <2>4. HistoryType'
    BY <1>0, <1>5
       DEF DrainAndNew, HistoryType, Resume, histVars
  <2> QED
    BY <2>1, <2>2, <2>3, <2>4 DEF TypeOK
<1>6. ASSUME NEW t \in Trade, Close(t) PROVE TypeOK'
  <2>0. rows[t] \in Row
    BY <1>0 DEF BookType
  <2>1. BookType'
    BY <1>0, <1>6, <2>0, FlagRowTypes
       DEF Close, BookType, bookVars
  <2>2. MemoryType'
    BY <1>0, <1>6, ClearedTypes
       DEF Close, MemoryType, configVars
  <2>3. TickType'
    BY <1>0, <1>6
       DEF Close, TickType, tickVars
  <2>4. HistoryType'
    BY <1>0, <1>6, ClearedTypes
       DEF Close, HistoryType
  <2> QED
    BY <2>1, <2>2, <2>3, <2>4 DEF TypeOK
<1>7. ASSUME NEW t \in Trade, CloseManually(t) PROVE TypeOK'
  <2>0. PICK pnl \in ClosePnl : rows' = [rows EXCEPT ![t] = ManualRow(rows[t], pnl)]
    BY <1>7 DEF CloseManually
  <2>d. pnl \in Int /\ rows[t] \in Row
    BY <1>0, EngineAssumption DEF EngineAssumption, BookType
  <2>1. BookType'
    BY <1>0, <1>7, <2>0, <2>d, PnlRowTypes, ClearedTypes
       DEF CloseManually, BookType, Retire
  <2>2. MemoryType'
    BY <1>0, <1>7
       DEF CloseManually, MemoryType, configVars
  <2>3. TickType'
    BY <1>0, <1>7
       DEF CloseManually, TickType, tickVars
  <2>4. HistoryType'
    BY <1>0, <1>7, ClearedTypes
       DEF CloseManually, HistoryType, Retire
  <2> QED
    BY <2>1, <2>2, <2>3, <2>4 DEF TypeOK
<1> QED
  BY <1>1, <1>2, <1>3, <1>4, <1>5, <1>6, <1>7 DEF Command

(* So does settling the stuck rows. *)
LEMMA SyncTypes ==
  ASSUME TypeOK, SyncStuckPositions
  PROVE  /\ rows' \in [Trade -> Row]
         /\ near_left' \in [Trade -> Nat]
         /\ tries' \in [Trade -> 0..RetryCap]
         /\ alerts' \in [Trade -> -1..2]
<1>1. PICK S \in {{}, Gone} :
        /\ rows' = [t \in Trade |-> IF t \in S THEN ReconcileRow(rows[t]) ELSE rows[t]]
        /\ Retire(S)
  BY DEF SyncStuckPositions
<1>2. rows' \in [Trade -> Row]
  BY <1>1, FlagRowTypes DEF TypeOK, BookType
<1> QED
  BY <1>1, <1>2, ClearedTypes DEF Retire

(* So does every step. *)
LEMMA TypeNext == TypeOK /\ [Next]_vars => TypeOK'
<1> SUFFICES ASSUME TypeOK, [Next]_vars PROVE TypeOK'
  OBVIOUS
<1>0. BookType /\ MemoryType /\ TickType /\ HistoryType
  BY DEF TypeOK
<1>1. CASE HaltOnLoss
  <2>1. BookType'
    BY <1>0, <1>1
       DEF HaltOnLoss, BookType, bookVars
  <2>2. MemoryType'
    BY <1>0, <1>1
       DEF HaltOnLoss, MemoryType, configVars
  <2>3. TickType'
    BY <1>0, <1>1
       DEF HaltOnLoss, TickType, tickVars
  <2>4. HistoryType'
    BY <1>0, <1>1
       DEF HaltOnLoss, HistoryType, histVars
  <2> QED
    BY <2>1, <2>2, <2>3, <2>4 DEF TypeOK
<1>2. CASE ScanSkipped
  <2>1. BookType'
    BY <1>0, <1>2, SyncTypes
       DEF ScanSkipped, BookType
  <2>2. MemoryType'
    BY <1>0, <1>2
       DEF ScanSkipped, MemoryType, configVars, RestState
  <2>3. TickType'
    BY <1>0, <1>2
       DEF ScanSkipped, TickType, tickVars
  <2>4. HistoryType'
    BY <1>0, <1>2, SyncTypes
       DEF ScanSkipped, HistoryType
  <2> QED
    BY <2>1, <2>2, <2>3, <2>4 DEF TypeOK
<1>3. CASE ScanStart
  <2>1. BookType'
    BY <1>0, <1>3, SyncTypes
       DEF ScanStart, BookType
  <2>2. MemoryType'
    BY <1>0, <1>3
       DEF ScanStart, MemoryType, configVars
  <2>3. TickType'
    BY <1>0, <1>3, OpenCountType
       DEF ScanStart, TickType, Candidates
  <2>4. HistoryType'
    BY <1>0, <1>3, SyncTypes
       DEF ScanStart, HistoryType
  <2> QED
    BY <2>1, <2>2, <2>3, <2>4 DEF TypeOK
<1>4. CASE MonitorEmpty
  <2>1. BookType'
    BY <1>0, <1>4
       DEF MonitorEmpty, BookType, bookVars
  <2>2. MemoryType'
    BY <1>0, <1>4, Numbers
       DEF MonitorEmpty, MemoryType, configVars, Zeros
  <2>3. TickType'
    BY <1>0, <1>4
       DEF MonitorEmpty, TickType, tickVars
  <2>4. HistoryType'
    BY <1>0, <1>4
       DEF MonitorEmpty, HistoryType, histVars
  <2> QED
    BY <2>1, <2>2, <2>3, <2>4 DEF TypeOK
<1>5. CASE MonitorStart
  <2>1. BookType'
    BY <1>0, <1>5
       DEF MonitorStart, BookType, bookVars
  <2>2. MemoryType'
    BY <1>0, <1>5
       DEF MonitorStart, MemoryType, configVars
  <2>3. TickType'
    BY <1>0, <1>5
       DEF MonitorStart, TickType, OpenPositions
  <2>4. HistoryType'
    BY <1>0, <1>5
       DEF MonitorStart, HistoryType, histVars
  <2> QED
    BY <2>1, <2>2, <2>3, <2>4 DEF TypeOK
<1>6. ASSUME NEW t \in Trade, ScanEnter(t) PROVE TypeOK'
  <2>1. BookType'
    BY <1>0, <1>6
       DEF ScanEnter, BookType, bookVars
  <2>2. MemoryType'
    BY <1>0, <1>6
       DEF ScanEnter, MemoryType, configVars
  <2>3. TickType'
    BY <1>0, <1>6, StartType
       DEF ScanEnter, TickType
  <2>4. HistoryType'
    BY <1>0, <1>6
       DEF ScanEnter, HistoryType, histVars
  <2> QED
    BY <2>1, <2>2, <2>3, <2>4 DEF TypeOK
<1>7. ASSUME NEW t \in Trade, Evaluate(t) PROVE TypeOK'
  BY <1>7, TypeEvaluate
<1>8. ASSUME NEW t \in Trade, Return(t) PROVE TypeOK'
  BY <1>8, TypeReturn
<1>9. CASE ScanFinish
  <2>1. BookType'
    BY <1>0, <1>9
       DEF ScanFinish, BookType, bookVars
  <2>2. MemoryType'
    BY <1>0, <1>9
       DEF ScanFinish, MemoryType, configVars
  <2>3. TickType'
    BY <1>0, <1>9
       DEF ScanFinish, TickType
  <2>4. HistoryType'
    BY <1>0, <1>9
       DEF ScanFinish, HistoryType, histVars
  <2> QED
    BY <2>1, <2>2, <2>3, <2>4 DEF TypeOK
<1>10. CASE MonitorFinish
  <2>1. BookType'
    BY <1>0, <1>10
       DEF MonitorFinish, BookType, bookVars
  <2>2. MemoryType'
    BY <1>0, <1>10, ClearedTypes
       DEF MonitorFinish, MemoryType, configVars, RestState
  <2>3. TickType'
    BY <1>0, <1>10
       DEF MonitorFinish, TickType
  <2>4. HistoryType'
    BY <1>0, <1>10
       DEF MonitorFinish, HistoryType, histVars
  <2> QED
    BY <2>1, <2>2, <2>3, <2>4 DEF TypeOK
<1>11. CASE Command
  BY <1>11, TypeCommand
<1>12. ASSUME NEW t \in Trade, OperatorFlattens(t) PROVE TypeOK'
  <2>1. BookType'
    BY <1>0, <1>12
       DEF OperatorFlattens, BookType
  <2>2. MemoryType'
    BY <1>0, <1>12
       DEF OperatorFlattens, MemoryType, memVars, configVars
  <2>3. TickType'
    BY <1>0, <1>12
       DEF OperatorFlattens, TickType, tickVars
  <2>4. HistoryType'
    BY <1>0, <1>12
       DEF OperatorFlattens, HistoryType, histVars
  <2> QED
    BY <2>1, <2>2, <2>3, <2>4 DEF TypeOK
<1>13. CASE NewDay
  <2>0. near_left' \in [Trade -> Nat]
    BY <1>0, <1>13 DEF NewDay, BookType
  <2>1. BookType'
    BY <1>0, <1>13, <2>0
       DEF NewDay, BookType
  <2>2. MemoryType'
    BY <1>0, <1>13
       DEF NewDay, MemoryType, memVars, configVars
  <2>3. TickType'
    BY <1>0, <1>13
       DEF NewDay, TickType, tickVars
  <2>4. HistoryType'
    BY <1>0, <1>13
       DEF NewDay, HistoryType
  <2> QED
    BY <2>1, <2>2, <2>3, <2>4 DEF TypeOK
<1>14. CASE Crash
  <2>1. BookType'
    BY <1>0, <1>14
       DEF Crash, BookType
  <2>2. MemoryType'
    <3>1. paused' \in BOOLEAN
      BY <1>14 DEF Crash
    <3>2. failures' \in [Trade -> 0..RetryCap] /\ pending' \in [Trade -> 0..ConfirmTicks]
      BY <1>14, Numbers DEF Crash, Zeros
    <3> QED
      BY <1>0, <1>14, <3>1, <3>2 DEF Crash, MemoryType
  <2>3. TickType'
    BY <1>0, <1>14, NoCallType
       DEF Crash, TickType
  <2>4. HistoryType'
    BY <1>0, <1>14, Numbers
       DEF Crash, HistoryType, Zeros
  <2> QED
    BY <2>1, <2>2, <2>3, <2>4 DEF TypeOK
<1>15. CASE UNCHANGED vars
  <2>1. BookType'
    BY <1>0, <1>15
       DEF vars, BookType, bookVars
  <2>2. MemoryType'
    BY <1>0, <1>15
       DEF vars, MemoryType, memVars, configVars
  <2>3. TickType'
    BY <1>0, <1>15
       DEF vars, TickType, tickVars
  <2>4. HistoryType'
    BY <1>0, <1>15
       DEF vars, HistoryType, histVars
  <2> QED
    BY <2>1, <2>2, <2>3, <2>4 DEF TypeOK
<1> QED
  BY <1>1, <1>2, <1>3, <1>4, <1>5, <1>6, <1>7, <1>8, <1>9, <1>10, <1>11, <1>12, <1>13,
     <1>14, <1>15 DEF Next, TickStep

(* Every variable keeps its type: the counters stay within the cap and the   *)
(* confirmation count within CLOSE_CONFIRM_TICKS, whatever interleaves.      *)
THEOREM TypeCorrect == Spec => []TypeOK
<1> QED
  BY TypeInit, TypeNext, PTL DEF Spec

-----------------------------------------------------------------------------

(* Which tick a call belongs to. *)
CallInv ==
  /\ tick = "none" => call.op = "none"
  /\ tick = "scan" => call.op \in {"none", "enter"}
  /\ tick = "monitor" => call.op \in {"none", "close", "roll", "alert"}
  /\ call.op # "none" => call.trade \in Trade

(* A scan goes on only below the loss limit.                                 *)
LimitInv == tick = "scan" => today_pnl > -LossLimit

(* No signal is counted that no tick saw, or that an attempt was made on. *)
PendingInv == \A t \in Trade : pending[t] <= streak[t]

(* A close on a signal was confirmed, and used up what confirmed it. *)
SignalInv ==
  call.op = "close" /\ call.why = "signal" =>
    streak[call.trade] >= ConfirmTicks /\ pending[call.trade] = 0

(* A row that no trade uses is open, and only an open position is stuck. *)
SoundRow(r) ==
  /\ r.result = "none" => r.close_status = "open"
  /\ r.close_status = "close_stuck" => r.result \in OpenResults

RowInv == \A t \in Trade : SoundRow(rows[t])

(* What the tick has still to visit is as it was when the tick began, but    *)
(* for the position that it has just declared stuck.                         *)
TodoInv ==
  /\ tick = "scan" => \A t \in todo : rows[t].result = "none"
  /\ tick = "monitor" => \A t \in todo : Monitored(t) \/ Waiting("alert", t)

(* So is what the executor works on. *)
HeldInv ==
  /\ call.op = "enter" => rows[call.trade].result = "none" /\ call.trade \notin todo
  /\ call.op \in {"close", "roll"} => Monitored(call.trade)
  /\ call.op = "alert" => rows[call.trade].result # "none"

(* The engine's counter never runs ahead of the failures there were, and a   *)
(* stuck position has had them all.                                          *)
CountAt(t) ==
  /\ failures[t] <= tries[t]
  /\ Stuck(t) => failures[t] = 0 /\ tries[t] = RetryCap

CountInv == \A t \in Trade : CountAt(t)

(* Nor does the counter that a tick took with it into the executor.          *)
LateInv ==
  /\ call.op \in {"close", "roll"} => call.fc <= tries[call.trade]
  /\ call.op = "close" /\ call.why = "roll cap" => tries[call.trade] = RetryCap

(* A position that may yet be announced has not been announced; one that is  *)
(* about to be has at most been reset by /close in between, which leaves -1. *)
Alertable(t) == ~ Stuck(t) /\ rows[t].result \notin ClosedResults
AlertInv ==
  \A t \in Trade :
    /\ alerts[t] <= 1
    /\ Alertable(t) => alerts[t] <= 0
    /\ Waiting("alert", t) => alerts[t] <= IF Alertable(t) THEN -1 ELSE 0

(* The inductive invariant of an engine whose operator uses /close and       *)
(* /close_manually as documented.                                            *)
SafeInv ==
  /\ TypeOK
  /\ CallInv
  /\ LimitInv
  /\ RowInv
  /\ TodoInv
  /\ HeldInv
  /\ CountInv
  /\ LateInv
  /\ AlertInv

-----------------------------------------------------------------------------
(* Auxiliary facts: the first half of _mark_stuck_and_notify, rows, counters. *)

(* After _mark_stuck_and_notify the tick waits for the alert, or for nothing. *)
LEMMA MarkStuckCall ==
  ASSUME NEW t \in Trade, MarkStuck(t)
  PROVE  call'.op = "none" \/ (call'.op = "alert" /\ call'.trade = t)
<1>1. NoCall.op = "none"
  BY DEF NoCall
<1>2. \/ call' = [op |-> "alert", trade |-> t,
                 why |-> IF Stuck(t) THEN "known" ELSE "news", fc |-> 0]
      \/ call' = NoCall
  BY DEF MarkStuck
<1> QED
  BY <1>1, <1>2

(* Every write of a row leaves a sound row. *)
LEMMA SoundRows ==
  ASSUME NEW r \in Row, SoundRow(r), NEW n
  PROVE  /\ SoundRow(InsertRow(n))
         /\ SoundRow(CloseRow(r, n))
         /\ SoundRow(ManualRow(r, n))
         /\ SoundRow(ResetRow(r))
         /\ r.result \in OpenResults => SoundRow(StickRow(r)) /\ SoundRow(ReconcileRow(r))
         /\ r.result \in OpenResults /\ r.close_status # "close_stuck" => SoundRow(RollRow(r, n))
<1> USE DEF SoundRow, Row, OpenResults, ClosedResults
<1>1. SoundRow(InsertRow(n))
  BY DEF InsertRow, NoRow
<1>2. SoundRow(CloseRow(r, n)) /\ SoundRow(ManualRow(r, n))
  BY DEF CloseRow, ManualRow
<1>3. SoundRow(ResetRow(r))
  BY DEF ResetRow
<1>4. ASSUME r.result \in OpenResults PROVE SoundRow(StickRow(r)) /\ SoundRow(ReconcileRow(r))
  BY <1>4 DEF StickRow, ReconcileRow
<1>5. ASSUME r.result \in OpenResults, r.close_status # "close_stuck" PROVE SoundRow(RollRow(r, n))
  BY <1>5 DEF RollRow
<1> QED
  BY <1>1, <1>2, <1>3, <1>4, <1>5

(* What the monitor evaluates, and what the executor works on, is monitored. *)
LEMMA EvaluatedIsMonitored ==
  ASSUME TodoInv, NEW t \in Trade, Evaluating(t)
  PROVE  Monitored(t)
BY DEF TodoInv, Evaluating, Waiting

(* What is being closed or rolled is monitored. *)
LEMMA TradedIsMonitored ==
  ASSUME HeldInv, NEW t \in Trade, Waiting("close", t) \/ Waiting("roll", t)
  PROVE  Monitored(t)
BY DEF HeldInv, Waiting

(* Settling touches stuck rows only, and none is stuck afterwards. *)
LEMMA SyncedStuck ==
  ASSUME TypeOK, RowInv, SyncStuckPositions
  PROVE  \E S \in SUBSET Trade :
           /\ \A t \in S : Stuck(t) /\ rows[t].result \in OpenResults
           /\ rows' = [t \in Trade |-> IF t \in S THEN ReconcileRow(rows[t]) ELSE rows[t]]
           /\ Retire(S)
<1>1. PICK S \in {{}, Gone} :
        /\ rows' = [t \in Trade |-> IF t \in S THEN ReconcileRow(rows[t]) ELSE rows[t]]
        /\ Retire(S)
  BY DEF SyncStuckPositions
<1>2. S \in SUBSET Trade /\ \A t \in S : Stuck(t) /\ rows[t].result \in OpenResults
  BY DEF Gone, Stuck, RowInv, SoundRow
<1> QED
  BY <1>1, <1>2

(* The fields that the writes of a row set. *)
LEMMA RowFields ==
  ASSUME NEW r \in Row, NEW n
  PROVE  /\ InsertRow(n).result = "Open" /\ InsertRow(n).close_status = "open"
         /\ CloseRow(r, n).result = "Auto" /\ CloseRow(r, n).close_status = "closed"
         /\ ManualRow(r, n).result = "Manual" /\ ManualRow(r, n).close_status = "closed"
         /\ RollRow(r, n).result = "Near Leg Rolled" /\ RollRow(r, n).close_status = r.close_status
         /\ StickRow(r).result = r.result /\ StickRow(r).close_status = "close_stuck"
         /\ ResetRow(r).result = r.result /\ ResetRow(r).close_status = "open"
         /\ r.result \in OpenResults => ReconcileRow(r).result = "Closed"
         /\ ReconcileRow(r).close_status = "closed"
BY DEF Row, InsertRow, NoRow, CloseRow, ManualRow, RollRow, StickRow, ResetRow,
       ReconcileRow

(* How a step may leave the two counters of one position. *)
LEMMA CountKept ==
  ASSUME TypeOK, NEW t \in Trade, CountAt(t),
         \/ /\ failures'[t] = failures[t] \/ failures'[t] = 0
            /\ tries'[t] = tries[t]
            /\ Stuck(t)' => Stuck(t)
         \/ failures'[t] = 0 /\ tries'[t] = 0 /\ ~ Stuck(t)'
         \/ failures'[t] = 0 /\ tries'[t] = RetryCap
         \/ failures'[t] <= tries'[t] /\ ~ Stuck(t)'
  PROVE  CountAt(t)'
<1>1. RetryCap \in Nat /\ failures[t] \in 0..RetryCap /\ tries[t] \in 0..RetryCap
  BY Numbers DEF TypeOK, MemoryType, HistoryType
<1>2. failures[t] <= tries[t] /\ (Stuck(t) => failures[t] = 0 /\ tries[t] = RetryCap)
  BY DEF CountAt
<1>3. failures'[t] <= tries'[t] /\ (Stuck(t)' => failures'[t] = 0 /\ tries'[t] = RetryCap)
  BY <1>1, <1>2
<1> QED
  BY <1>3 DEF CountAt

(* What is cleared is zero; the rest stays. *)
LEMMA ClearedAt ==
  ASSUME NEW f, NEW S, NEW t \in Trade
  PROVE  Cleared(f, S)[t] = IF t \in S THEN 0 ELSE f[t]
BY DEF Cleared

(* Counting one more keeps two counters in order. *)
LEMMA OneMoreMonotone ==
  ASSUME NEW m \in 0..RetryCap, NEW n \in 0..RetryCap, m <= n
  PROVE  OneMore(m) <= OneMore(n)
BY Numbers DEF OneMore

(* A row that is left alone is as stuck as before. *)
LEMMA StuckAt ==
  ASSUME NEW u, rows'[u] = rows[u] PROVE Stuck(u)' <=> Stuck(u)
BY DEF Stuck

(* The steps that touch the rows or count something.                          *)
LEMMA Effects ==
  ASSUME [Next]_vars
  PROVE  \/ rows' = rows /\ failures' = failures /\ tries' = tries
         \/ ScanSkipped
         \/ ScanStart
         \/ MonitorEmpty
         \/ MonitorFinish
         \/ Crash
         \/ \E t \in Trade :
              \/ ExpiredStuck(t)
              \/ SignalStuck(t)
              \/ RollNoCandidate(t)
              \/ EnterFilled(t)
              \/ CloseFilled(t)
              \/ CloseFailed(t)
              \/ RollCapCloseFailed(t)
              \/ RollFilled(t)
              \/ RollUnrecorded(t)
              \/ RollFailed(t)
              \/ Close(t)
              \/ CloseManually(t)
<1> USE DEF bookVars, memVars, histVars
<1> DEFINE Quiet == rows' = rows /\ failures' = failures /\ tries' = tries
<1>1. ASSUME HaltOnLoss PROVE Quiet
  BY <1>1 DEF HaltOnLoss
<1>2. ASSUME MonitorStart PROVE Quiet
  BY <1>2 DEF MonitorStart
<1>3. ASSUME NEW t \in Trade, ScanEnter(t) PROVE Quiet
  BY <1>3 DEF ScanEnter
<1>4. ASSUME NEW t \in Trade, HoldEntered(t) PROVE Quiet
  BY <1>4 DEF HoldEntered
<1>5. ASSUME NEW t \in Trade, NoMarketData(t) PROVE Quiet
  BY <1>5 DEF NoMarketData
<1>6. ASSUME NEW t \in Trade, ExpiredClose(t) PROVE Quiet
  BY <1>6 DEF ExpiredClose
<1>7. ASSUME NEW t \in Trade, SignalPending(t) PROVE Quiet
  BY <1>7 DEF SignalPending
<1>8. ASSUME NEW t \in Trade, SignalClose(t) PROVE Quiet
  BY <1>8 DEF SignalClose
<1>9. ASSUME NEW t \in Trade, Hold(t) PROVE Quiet
  BY <1>9 DEF Hold, NoSignal
<1>10. ASSUME NEW t \in Trade, DrainClose(t) PROVE Quiet
  BY <1>10 DEF DrainClose, NoSignal
<1>11. ASSUME NEW t \in Trade, RollCapClose(t) PROVE Quiet
  BY <1>11 DEF RollCapClose, NoSignal
<1>12. ASSUME NEW t \in Trade, RollStart(t) PROVE Quiet
  BY <1>12 DEF RollStart, NoSignal
<1>13. ASSUME NEW t \in Trade, EnterRejected(t) PROVE Quiet
  BY <1>13 DEF EnterRejected
<1>14. ASSUME NEW t \in Trade, EnterRaised(t) PROVE Quiet
  BY <1>14 DEF EnterRaised
<1>15. ASSUME NEW t \in Trade, EnterUnrecorded(t) PROVE Quiet
  BY <1>15 DEF EnterUnrecorded
<1>16. ASSUME NEW t \in Trade, CloseUnrecorded(t) PROVE Quiet
  BY <1>16 DEF CloseUnrecorded
<1>17. ASSUME NEW t \in Trade, DrainCloseFailed(t) PROVE Quiet
  BY <1>17 DEF DrainCloseFailed
<1>18. ASSUME NEW t \in Trade, AlertStuck(t) PROVE Quiet
  BY <1>18 DEF AlertStuck
<1>19. ASSUME ScanFinish PROVE Quiet
  BY <1>19 DEF ScanFinish
<1>20. ASSUME StopBot PROVE Quiet
  BY <1>20 DEF StopBot
<1>21. ASSUME StartBot PROVE Quiet
  BY <1>21 DEF StartBot, Resume
<1>22. ASSUME StartDrain PROVE Quiet
  BY <1>22 DEF StartDrain, Resume
<1>23. ASSUME StartWithAssets PROVE Quiet
  BY <1>23 DEF StartWithAssets, Resume
<1>24. ASSUME DrainAndNew PROVE Quiet
  BY <1>24 DEF DrainAndNew, Resume
<1>25. ASSUME NEW t \in Trade, OperatorFlattens(t) PROVE Quiet
  BY <1>25 DEF OperatorFlattens
<1>26. ASSUME NewDay PROVE Quiet
  BY <1>26 DEF NewDay
<1>27. ASSUME UNCHANGED vars PROVE Quiet
  BY <1>27 DEF vars
<1> QED
  BY <1>1, <1>2, <1>3, <1>4, <1>5, <1>6, <1>7, <1>8, <1>9, <1>10, <1>11, <1>12,
     <1>13, <1>14, <1>15, <1>16, <1>17, <1>18, <1>19, <1>20, <1>21, <1>22,
     <1>23, <1>24, <1>25, <1>26, <1>27
     DEF Next, TickStep, Evaluate, Return, Command

-----------------------------------------------------------------------------
(* Each part of the invariant, step by step. *)

(* A tick works only for itself. *)
LEMMA CallStep ==
  ASSUME TypeOK, CallInv, [Next]_vars
  PROVE  CallInv'
<1> USE DEF bookVars, memVars, configVars, tickVars, histVars
<1>1. CASE HaltOnLoss
  BY <1>1 DEF HaltOnLoss, TypeOK, TickType, CallInv, NoCall
<1>2. CASE ScanSkipped
  BY <1>2 DEF ScanSkipped, TypeOK, TickType, CallInv, NoCall
<1>3. CASE ScanStart
  BY <1>3 DEF ScanStart, TypeOK, TickType, CallInv, NoCall, TickMayStart
<1>4. CASE MonitorEmpty
  BY <1>4 DEF MonitorEmpty, TypeOK, TickType, CallInv, NoCall
<1>5. CASE MonitorStart
  BY <1>5 DEF MonitorStart, TypeOK, TickType, CallInv, NoCall, TickMayStart
<1>6. ASSUME NEW t \in Trade, ScanEnter(t) PROVE CallInv'
  BY <1>6 DEF ScanEnter, Start, TypeOK, TickType, CallInv, NoCall
<1>7. ASSUME NEW t \in Trade, HoldEntered(t) PROVE CallInv'
  BY <1>7 DEF HoldEntered, Done, TypeOK, TickType, CallInv, NoCall
<1>8. ASSUME NEW t \in Trade, NoMarketData(t) PROVE CallInv'
  BY <1>8 DEF NoMarketData, Evaluating, Done, TypeOK, TickType, CallInv, NoCall
<1>9. ASSUME NEW t \in Trade, ExpiredClose(t) PROVE CallInv'
  BY <1>9
     DEF ExpiredClose, Evaluating, Start, TypeOK, TickType, CallInv, NoCall
<1>10. ASSUME NEW t \in Trade, ExpiredStuck(t) PROVE CallInv'
  BY <1>10
     DEF ExpiredStuck, Evaluating, MarkStuck, Done, TypeOK, TickType, CallInv,
         NoCall
<1>11. ASSUME NEW t \in Trade, SignalPending(t) PROVE CallInv'
  BY <1>11
     DEF SignalPending, Evaluating, Done, TypeOK, TickType, CallInv, NoCall
<1>12. ASSUME NEW t \in Trade, SignalClose(t) PROVE CallInv'
  BY <1>12
     DEF SignalClose, Evaluating, Start, TypeOK, TickType, CallInv, NoCall
<1>13. ASSUME NEW t \in Trade, SignalStuck(t) PROVE CallInv'
  BY <1>13
     DEF SignalStuck, Evaluating, MarkStuck, Done, TypeOK, TickType, CallInv,
         NoCall
<1>14. ASSUME NEW t \in Trade, Hold(t) PROVE CallInv'
  BY <1>14
     DEF Hold, NoSignal, Evaluating, Done, TypeOK, TickType, CallInv, NoCall
<1>15. ASSUME NEW t \in Trade, DrainClose(t) PROVE CallInv'
  BY <1>15
     DEF DrainClose, NoSignal, Evaluating, Start, TypeOK, TickType, CallInv,
         NoCall
<1>16. ASSUME NEW t \in Trade, RollCapClose(t) PROVE CallInv'
  BY <1>16
     DEF RollCapClose, NoSignal, Evaluating, Start, TypeOK, TickType, CallInv,
         NoCall
<1>17. ASSUME NEW t \in Trade, RollNoCandidate(t) PROVE CallInv'
  BY <1>17
     DEF RollNoCandidate, NoSignal, Evaluating, Done, TypeOK, TickType,
         CallInv, NoCall
<1>18. ASSUME NEW t \in Trade, RollStart(t) PROVE CallInv'
  BY <1>18
     DEF RollStart, NoSignal, Evaluating, Start, TypeOK, TickType, CallInv,
         NoCall
<1>19. ASSUME NEW t \in Trade, EnterFilled(t) PROVE CallInv'
  BY <1>19 DEF EnterFilled, Waiting, TypeOK, TickType, CallInv, NoCall
<1>20. ASSUME NEW t \in Trade, EnterRejected(t) PROVE CallInv'
  BY <1>20 DEF EnterRejected, Waiting, TypeOK, TickType, CallInv, NoCall
<1>21. ASSUME NEW t \in Trade, EnterRaised(t) PROVE CallInv'
  BY <1>21
     DEF EnterRaised, Waiting, AbortScan, TypeOK, TickType, CallInv, NoCall
<1>22. ASSUME NEW t \in Trade, EnterUnrecorded(t) PROVE CallInv'
  BY <1>22
     DEF EnterUnrecorded, Waiting, AbortScan, TypeOK, TickType, CallInv, NoCall
<1>23. ASSUME NEW t \in Trade, CloseFilled(t) PROVE CallInv'
  BY <1>23
     DEF CloseFilled, Waiting, Done, Retire, TypeOK, TickType, CallInv, NoCall
<1>24. ASSUME NEW t \in Trade, CloseUnrecorded(t) PROVE CallInv'
  BY <1>24
     DEF CloseUnrecorded, Waiting, Done, TypeOK, TickType, CallInv, NoCall
<1>25. ASSUME NEW t \in Trade, CloseFailed(t) PROVE CallInv'
  BY <1>25 DEF CloseFailed, Waiting, Done, TypeOK, TickType, CallInv, NoCall
<1>26. ASSUME NEW t \in Trade, DrainCloseFailed(t) PROVE CallInv'
  BY <1>26
     DEF DrainCloseFailed, Waiting, Done, TypeOK, TickType, CallInv, NoCall
<1>27. ASSUME NEW t \in Trade, RollCapCloseFailed(t) PROVE CallInv'
  <2>1. tick' = tick /\ call.op = "close"
    BY <1>27 DEF RollCapCloseFailed, Waiting
  <2>2. tick = "monitor"
    BY <2>1 DEF TypeOK, TickType, CallInv
  <2>3. MarkStuck(t)
    BY <1>27 DEF RollCapCloseFailed
  <2>4. call'.op = "none" \/ (call'.op = "alert" /\ call'.trade = t)
    BY <2>3, MarkStuckCall
  <2> QED
    BY <2>1, <2>2, <2>4 DEF CallInv
<1>28. ASSUME NEW t \in Trade, RollFilled(t) PROVE CallInv'
  BY <1>28
     DEF RollFilled, Rolled, Waiting, Done, TypeOK, TickType, CallInv, NoCall
<1>29. ASSUME NEW t \in Trade, RollUnrecorded(t) PROVE CallInv'
  BY <1>29
     DEF RollUnrecorded, Rolled, Waiting, Done, TypeOK, TickType, CallInv,
         NoCall
<1>30. ASSUME NEW t \in Trade, RollFailed(t) PROVE CallInv'
  BY <1>30 DEF RollFailed, Waiting, Done, TypeOK, TickType, CallInv, NoCall
<1>31. ASSUME NEW t \in Trade, AlertStuck(t) PROVE CallInv'
  BY <1>31 DEF AlertStuck, Waiting, Done, TypeOK, TickType, CallInv, NoCall
<1>32. CASE ScanFinish
  BY <1>32 DEF ScanFinish, TypeOK, TickType, CallInv, NoCall
<1>33. CASE MonitorFinish
  BY <1>33 DEF MonitorFinish, TypeOK, TickType, CallInv, NoCall
<1>34. CASE StopBot
  BY <1>34 DEF StopBot, TypeOK, TickType, CallInv, NoCall
<1>35. CASE StartBot
  BY <1>35 DEF StartBot, Resume, TypeOK, TickType, CallInv, NoCall
<1>36. CASE StartDrain
  BY <1>36 DEF StartDrain, Resume, TypeOK, TickType, CallInv, NoCall
<1>37. CASE StartWithAssets
  BY <1>37 DEF StartWithAssets, Resume, TypeOK, TickType, CallInv, NoCall
<1>38. CASE DrainAndNew
  BY <1>38 DEF DrainAndNew, Resume, TypeOK, TickType, CallInv, NoCall
<1>39. ASSUME NEW t \in Trade, Close(t) PROVE CallInv'
  BY <1>39 DEF Close, TypeOK, TickType, CallInv, NoCall
<1>40. ASSUME NEW t \in Trade, CloseManually(t) PROVE CallInv'
  BY <1>40 DEF CloseManually, Retire, TypeOK, TickType, CallInv, NoCall
<1>41. ASSUME NEW t \in Trade, OperatorFlattens(t) PROVE CallInv'
  BY <1>41 DEF OperatorFlattens, TypeOK, TickType, CallInv, NoCall
<1>42. CASE NewDay
  BY <1>42 DEF NewDay, TypeOK, TickType, CallInv, NoCall
<1>43. CASE Crash
  BY <1>43 DEF Crash, TypeOK, TickType, CallInv, NoCall
<1>44. CASE UNCHANGED vars
  BY <1>44 DEF vars, TypeOK, TickType, CallInv, NoCall
<1> QED
  BY <1>1, <1>2, <1>3, <1>4, <1>5, <1>6, <1>7, <1>8, <1>9, <1>10, <1>11, <1>12,
     <1>13, <1>14, <1>15, <1>16, <1>17, <1>18, <1>19, <1>20, <1>21, <1>22,
     <1>23, <1>24, <1>25, <1>26, <1>27, <1>28, <1>29, <1>30, <1>31, <1>32,
     <1>33, <1>34, <1>35, <1>36, <1>37, <1>38, <1>39, <1>40, <1>41, <1>42,
     <1>43, <1>44
     DEF Next, TickStep, Evaluate, Return, Command

(* A scan under way has not met the loss limit. *)
LEMMA LimitStep ==
  ASSUME TypeOK, CallInv, LimitInv, [Next]_vars
  PROVE  LimitInv'
<1> USE DEF bookVars, memVars, configVars, tickVars, histVars
<1>1. CASE HaltOnLoss
  BY <1>1 DEF HaltOnLoss, CallInv, LimitInv, LimitBreached, TypeOK, MemoryType
<1>2. CASE ScanSkipped
  BY <1>2 DEF ScanSkipped, CallInv, LimitInv, LimitBreached, TypeOK, MemoryType
<1>3. CASE ScanStart
  BY <1>3, EngineAssumption
     DEF ScanStart, CallInv, LimitInv, LimitBreached, TypeOK, MemoryType,
         EngineAssumption
<1>4. CASE MonitorEmpty
  BY <1>4
     DEF MonitorEmpty, CallInv, LimitInv, LimitBreached, TypeOK, MemoryType
<1>5. CASE MonitorStart
  BY <1>5
     DEF MonitorStart, CallInv, LimitInv, LimitBreached, TypeOK, MemoryType
<1>6. ASSUME NEW t \in Trade, ScanEnter(t) PROVE LimitInv'
  BY <1>6
     DEF ScanEnter, Start, CallInv, LimitInv, LimitBreached, TypeOK, MemoryType
<1>7. ASSUME NEW t \in Trade, HoldEntered(t) PROVE LimitInv'
  BY <1>7
     DEF HoldEntered, Done, CallInv, LimitInv, LimitBreached, TypeOK,
         MemoryType
<1>8. ASSUME NEW t \in Trade, NoMarketData(t) PROVE LimitInv'
  BY <1>8
     DEF NoMarketData, Evaluating, Done, CallInv, LimitInv, LimitBreached,
         TypeOK, MemoryType
<1>9. ASSUME NEW t \in Trade, ExpiredClose(t) PROVE LimitInv'
  BY <1>9
     DEF ExpiredClose, Evaluating, Start, CallInv, LimitInv, LimitBreached,
         TypeOK, MemoryType
<1>10. ASSUME NEW t \in Trade, ExpiredStuck(t) PROVE LimitInv'
  BY <1>10
     DEF ExpiredStuck, Evaluating, MarkStuck, Done, CallInv, LimitInv,
         LimitBreached, TypeOK, MemoryType
<1>11. ASSUME NEW t \in Trade, SignalPending(t) PROVE LimitInv'
  BY <1>11
     DEF SignalPending, Evaluating, Done, CallInv, LimitInv, LimitBreached,
         TypeOK, MemoryType
<1>12. ASSUME NEW t \in Trade, SignalClose(t) PROVE LimitInv'
  BY <1>12
     DEF SignalClose, Evaluating, Start, CallInv, LimitInv, LimitBreached,
         TypeOK, MemoryType
<1>13. ASSUME NEW t \in Trade, SignalStuck(t) PROVE LimitInv'
  BY <1>13
     DEF SignalStuck, Evaluating, MarkStuck, Done, CallInv, LimitInv,
         LimitBreached, TypeOK, MemoryType
<1>14. ASSUME NEW t \in Trade, Hold(t) PROVE LimitInv'
  BY <1>14
     DEF Hold, NoSignal, Evaluating, Done, CallInv, LimitInv, LimitBreached,
         TypeOK, MemoryType
<1>15. ASSUME NEW t \in Trade, DrainClose(t) PROVE LimitInv'
  BY <1>15
     DEF DrainClose, NoSignal, Evaluating, Start, CallInv, LimitInv,
         LimitBreached, TypeOK, MemoryType
<1>16. ASSUME NEW t \in Trade, RollCapClose(t) PROVE LimitInv'
  BY <1>16
     DEF RollCapClose, NoSignal, Evaluating, Start, CallInv, LimitInv,
         LimitBreached, TypeOK, MemoryType
<1>17. ASSUME NEW t \in Trade, RollNoCandidate(t) PROVE LimitInv'
  BY <1>17
     DEF RollNoCandidate, NoSignal, Evaluating, Done, CallInv, LimitInv,
         LimitBreached, TypeOK, MemoryType
<1>18. ASSUME NEW t \in Trade, RollStart(t) PROVE LimitInv'
  BY <1>18
     DEF RollStart, NoSignal, Evaluating, Start, CallInv, LimitInv,
         LimitBreached, TypeOK, MemoryType
<1>19. ASSUME NEW t \in Trade, EnterFilled(t) PROVE LimitInv'
  BY <1>19
     DEF EnterFilled, Waiting, CallInv, LimitInv, LimitBreached, TypeOK,
         MemoryType
<1>20. ASSUME NEW t \in Trade, EnterRejected(t) PROVE LimitInv'
  BY <1>20
     DEF EnterRejected, Waiting, CallInv, LimitInv, LimitBreached, TypeOK,
         MemoryType
<1>21. ASSUME NEW t \in Trade, EnterRaised(t) PROVE LimitInv'
  BY <1>21
     DEF EnterRaised, Waiting, AbortScan, CallInv, LimitInv, LimitBreached,
         TypeOK, MemoryType
<1>22. ASSUME NEW t \in Trade, EnterUnrecorded(t) PROVE LimitInv'
  BY <1>22
     DEF EnterUnrecorded, Waiting, AbortScan, CallInv, LimitInv, LimitBreached,
         TypeOK, MemoryType
<1>23. ASSUME NEW t \in Trade, CloseFilled(t) PROVE LimitInv'
  BY <1>23
     DEF CloseFilled, Waiting, Done, Retire, CallInv, LimitInv, LimitBreached,
         TypeOK, MemoryType
<1>24. ASSUME NEW t \in Trade, CloseUnrecorded(t) PROVE LimitInv'
  BY <1>24
     DEF CloseUnrecorded, Waiting, Done, CallInv, LimitInv, LimitBreached,
         TypeOK, MemoryType
<1>25. ASSUME NEW t \in Trade, CloseFailed(t) PROVE LimitInv'
  BY <1>25
     DEF CloseFailed, Waiting, Done, CallInv, LimitInv, LimitBreached, TypeOK,
         MemoryType
<1>26. ASSUME NEW t \in Trade, DrainCloseFailed(t) PROVE LimitInv'
  BY <1>26
     DEF DrainCloseFailed, Waiting, Done, CallInv, LimitInv, LimitBreached,
         TypeOK, MemoryType
<1>27. ASSUME NEW t \in Trade, RollCapCloseFailed(t) PROVE LimitInv'
  BY <1>27
     DEF RollCapCloseFailed, Waiting, MarkStuck, Done, CallInv, LimitInv,
         LimitBreached, TypeOK, MemoryType
<1>28. ASSUME NEW t \in Trade, RollFilled(t) PROVE LimitInv'
  BY <1>28
     DEF RollFilled, Rolled, Waiting, Done, CallInv, LimitInv, LimitBreached,
         TypeOK, MemoryType
<1>29. ASSUME NEW t \in Trade, RollUnrecorded(t) PROVE LimitInv'
  BY <1>29
     DEF RollUnrecorded, Rolled, Waiting, Done, CallInv, LimitInv,
         LimitBreached, TypeOK, MemoryType
<1>30. ASSUME NEW t \in Trade, RollFailed(t) PROVE LimitInv'
  BY <1>30
     DEF RollFailed, Waiting, Done, CallInv, LimitInv, LimitBreached, TypeOK,
         MemoryType
<1>31. ASSUME NEW t \in Trade, AlertStuck(t) PROVE LimitInv'
  BY <1>31
     DEF AlertStuck, Waiting, Done, CallInv, LimitInv, LimitBreached, TypeOK,
         MemoryType
<1>32. CASE ScanFinish
  BY <1>32 DEF ScanFinish, CallInv, LimitInv, LimitBreached, TypeOK, MemoryType
<1>33. CASE MonitorFinish
  BY <1>33
     DEF MonitorFinish, CallInv, LimitInv, LimitBreached, TypeOK, MemoryType
<1>34. CASE StopBot
  BY <1>34 DEF StopBot, CallInv, LimitInv, LimitBreached, TypeOK, MemoryType
<1>35. CASE StartBot
  BY <1>35
     DEF StartBot, Resume, CallInv, LimitInv, LimitBreached, TypeOK, MemoryType
<1>36. CASE StartDrain
  BY <1>36
     DEF StartDrain, Resume, CallInv, LimitInv, LimitBreached, TypeOK,
         MemoryType
<1>37. CASE StartWithAssets
  BY <1>37
     DEF StartWithAssets, Resume, CallInv, LimitInv, LimitBreached, TypeOK,
         MemoryType
<1>38. CASE DrainAndNew
  BY <1>38
     DEF DrainAndNew, Resume, CallInv, LimitInv, LimitBreached, TypeOK,
         MemoryType
<1>39. ASSUME NEW t \in Trade, Close(t) PROVE LimitInv'
  BY <1>39 DEF Close, CallInv, LimitInv, LimitBreached, TypeOK, MemoryType
<1>40. ASSUME NEW t \in Trade, CloseManually(t) PROVE LimitInv'
  BY <1>40
     DEF CloseManually, Retire, CallInv, LimitInv, LimitBreached, TypeOK,
         MemoryType
<1>41. ASSUME NEW t \in Trade, OperatorFlattens(t) PROVE LimitInv'
  BY <1>41
     DEF OperatorFlattens, CallInv, LimitInv, LimitBreached, TypeOK, MemoryType
<1>42. CASE NewDay
  BY <1>42 DEF NewDay, CallInv, LimitInv, LimitBreached, TypeOK, MemoryType
<1>43. CASE Crash
  BY <1>43 DEF Crash, CallInv, LimitInv, LimitBreached, TypeOK, MemoryType
<1>44. CASE UNCHANGED vars
  BY <1>44 DEF vars, CallInv, LimitInv, LimitBreached, TypeOK, MemoryType
<1> QED
  BY <1>1, <1>2, <1>3, <1>4, <1>5, <1>6, <1>7, <1>8, <1>9, <1>10, <1>11, <1>12,
     <1>13, <1>14, <1>15, <1>16, <1>17, <1>18, <1>19, <1>20, <1>21, <1>22,
     <1>23, <1>24, <1>25, <1>26, <1>27, <1>28, <1>29, <1>30, <1>31, <1>32,
     <1>33, <1>34, <1>35, <1>36, <1>37, <1>38, <1>39, <1>40, <1>41, <1>42,
     <1>43, <1>44
     DEF Next, TickStep, Evaluate, Return, Command

(* The engine counts no signal that was not there. *)
LEMMA PendingStep ==
  ASSUME TypeOK, CallInv, PendingInv, SignalInv, [Next]_vars
  PROVE  PendingInv'
<1> USE DEF bookVars, memVars, configVars, tickVars, histVars
<1> USE Numbers
<1>a. \A u \in Trade : pending[u] \in Nat /\ streak[u] \in 0..ConfirmTicks
  BY DEF TypeOK, MemoryType, HistoryType
<1>b. pending \in [Trade -> Nat] /\ streak \in [Trade -> Nat]
  BY DEF TypeOK, MemoryType, HistoryType
<1>1. CASE HaltOnLoss
  BY <1>a, <1>b, <1>1 DEF HaltOnLoss, PendingInv, Cleared, Zeros
<1>2. CASE ScanSkipped
  BY <1>a, <1>b, <1>2 DEF ScanSkipped, PendingInv, Cleared, Zeros
<1>3. CASE ScanStart
  BY <1>a, <1>b, <1>3 DEF ScanStart, PendingInv, Cleared, Zeros
<1>4. CASE MonitorEmpty
  BY <1>a, <1>b, <1>4 DEF MonitorEmpty, PendingInv, Cleared, Zeros
<1>5. CASE MonitorStart
  BY <1>a, <1>b, <1>5 DEF MonitorStart, PendingInv, Cleared, Zeros
<1>6. ASSUME NEW t \in Trade, ScanEnter(t) PROVE PendingInv'
  BY <1>a, <1>b, <1>6 DEF ScanEnter, Start, PendingInv, Cleared, Zeros
<1>7. ASSUME NEW t \in Trade, HoldEntered(t) PROVE PendingInv'
  BY <1>a, <1>b, <1>7 DEF HoldEntered, Done, PendingInv, Cleared, Zeros
<1>8. ASSUME NEW t \in Trade, NoMarketData(t) PROVE PendingInv'
  BY <1>a, <1>b, <1>8
     DEF NoMarketData, Evaluating, Done, PendingInv, Cleared, Zeros
<1>9. ASSUME NEW t \in Trade, ExpiredClose(t) PROVE PendingInv'
  BY <1>a, <1>b, <1>9
     DEF ExpiredClose, Evaluating, Start, PendingInv, Cleared, Zeros
<1>10. ASSUME NEW t \in Trade, ExpiredStuck(t) PROVE PendingInv'
  BY <1>a, <1>b, <1>10
     DEF ExpiredStuck, Evaluating, MarkStuck, Done, PendingInv, Cleared, Zeros
<1>11. ASSUME NEW t \in Trade, SignalPending(t) PROVE PendingInv'
  BY <1>a, <1>b, <1>11
     DEF SignalPending, Evaluating, Done, PendingInv, Cleared, Zeros,
         SeeSignal, Confirmed
<1>12. ASSUME NEW t \in Trade, SignalClose(t) PROVE PendingInv'
  BY <1>a, <1>b, <1>12
     DEF SignalClose, Evaluating, Start, PendingInv, Cleared, Zeros, SeeSignal,
         Confirmed
<1>13. ASSUME NEW t \in Trade, SignalStuck(t) PROVE PendingInv'
  BY <1>a, <1>b, <1>13
     DEF SignalStuck, Evaluating, MarkStuck, Done, PendingInv, Cleared, Zeros,
         SeeSignal, Confirmed
<1>14. ASSUME NEW t \in Trade, Hold(t) PROVE PendingInv'
  <2>1. pending' = Cleared(pending, {t}) /\ streak' = Cleared(streak, {t})
    BY <1>14 DEF Hold, NoSignal
  <2> QED
    BY <2>1, <1>a, <1>b DEF PendingInv, Cleared
<1>15. ASSUME NEW t \in Trade, DrainClose(t) PROVE PendingInv'
  <2>1. pending' = Cleared(pending, {t}) /\ streak' = Cleared(streak, {t})
    BY <1>15 DEF DrainClose, NoSignal
  <2> QED
    BY <2>1, <1>a, <1>b DEF PendingInv, Cleared
<1>16. ASSUME NEW t \in Trade, RollCapClose(t) PROVE PendingInv'
  <2>1. pending' = Cleared(pending, {t}) /\ streak' = Cleared(streak, {t})
    BY <1>16 DEF RollCapClose, NoSignal
  <2> QED
    BY <2>1, <1>a, <1>b DEF PendingInv, Cleared
<1>17. ASSUME NEW t \in Trade, RollNoCandidate(t) PROVE PendingInv'
  <2>1. pending' = Cleared(pending, {t}) /\ streak' = Cleared(streak, {t})
    BY <1>17 DEF RollNoCandidate, NoSignal
  <2> QED
    BY <2>1, <1>a, <1>b DEF PendingInv, Cleared
<1>18. ASSUME NEW t \in Trade, RollStart(t) PROVE PendingInv'
  <2>1. pending' = Cleared(pending, {t}) /\ streak' = Cleared(streak, {t})
    BY <1>18 DEF RollStart, NoSignal
  <2> QED
    BY <2>1, <1>a, <1>b DEF PendingInv, Cleared
<1>19. ASSUME NEW t \in Trade, EnterFilled(t) PROVE PendingInv'
  BY <1>a, <1>b, <1>19 DEF EnterFilled, Waiting, PendingInv, Cleared, Zeros
<1>20. ASSUME NEW t \in Trade, EnterRejected(t) PROVE PendingInv'
  BY <1>a, <1>b, <1>20 DEF EnterRejected, Waiting, PendingInv, Cleared, Zeros
<1>21. ASSUME NEW t \in Trade, EnterRaised(t) PROVE PendingInv'
  BY <1>a, <1>b, <1>21
     DEF EnterRaised, Waiting, AbortScan, PendingInv, Cleared, Zeros
<1>22. ASSUME NEW t \in Trade, EnterUnrecorded(t) PROVE PendingInv'
  BY <1>a, <1>b, <1>22
     DEF EnterUnrecorded, Waiting, AbortScan, PendingInv, Cleared, Zeros
<1>23. ASSUME NEW t \in Trade, CloseFilled(t) PROVE PendingInv'
  BY <1>a, <1>b, <1>23
     DEF CloseFilled, Waiting, Done, Retire, PendingInv, Cleared, Zeros
<1>24. ASSUME NEW t \in Trade, CloseUnrecorded(t) PROVE PendingInv'
  BY <1>a, <1>b, <1>24
     DEF CloseUnrecorded, Waiting, Done, PendingInv, SignalInv, Cleared, Zeros
<1>25. ASSUME NEW t \in Trade, CloseFailed(t) PROVE PendingInv'
  BY <1>a, <1>b, <1>25
     DEF CloseFailed, Waiting, Done, PendingInv, SignalInv, Cleared, Zeros
<1>26. ASSUME NEW t \in Trade, DrainCloseFailed(t) PROVE PendingInv'
  BY <1>a, <1>b, <1>26
     DEF DrainCloseFailed, Waiting, Done, PendingInv, Cleared, Zeros
<1>27. ASSUME NEW t \in Trade, RollCapCloseFailed(t) PROVE PendingInv'
  BY <1>a, <1>b, <1>27
     DEF RollCapCloseFailed, Waiting, MarkStuck, Done, PendingInv, Cleared,
         Zeros
<1>28. ASSUME NEW t \in Trade, RollFilled(t) PROVE PendingInv'
  BY <1>a, <1>b, <1>28
     DEF RollFilled, Rolled, Waiting, Done, PendingInv, Cleared, Zeros
<1>29. ASSUME NEW t \in Trade, RollUnrecorded(t) PROVE PendingInv'
  BY <1>a, <1>b, <1>29
     DEF RollUnrecorded, Rolled, Waiting, Done, PendingInv, Cleared, Zeros
<1>30. ASSUME NEW t \in Trade, RollFailed(t) PROVE PendingInv'
  BY <1>a, <1>b, <1>30
     DEF RollFailed, Waiting, Done, PendingInv, Cleared, Zeros
<1>31. ASSUME NEW t \in Trade, AlertStuck(t) PROVE PendingInv'
  BY <1>a, <1>b, <1>31
     DEF AlertStuck, Waiting, Done, PendingInv, Cleared, Zeros
<1>32. CASE ScanFinish
  BY <1>a, <1>b, <1>32 DEF ScanFinish, PendingInv, Cleared, Zeros
<1>33. CASE MonitorFinish
  BY <1>a, <1>b, <1>33 DEF MonitorFinish, PendingInv, Cleared, Zeros
<1>34. CASE StopBot
  BY <1>a, <1>b, <1>34 DEF StopBot, PendingInv, Cleared, Zeros
<1>35. CASE StartBot
  BY <1>a, <1>b, <1>35 DEF StartBot, Resume, PendingInv, Cleared, Zeros
<1>36. CASE StartDrain
  BY <1>a, <1>b, <1>36 DEF StartDrain, Resume, PendingInv, Cleared, Zeros
<1>37. CASE StartWithAssets
  BY <1>a, <1>b, <1>37 DEF StartWithAssets, Resume, PendingInv, Cleared, Zeros
<1>38. CASE DrainAndNew
  BY <1>a, <1>b, <1>38 DEF DrainAndNew, Resume, PendingInv, Cleared, Zeros
<1>39. ASSUME NEW t \in Trade, Close(t) PROVE PendingInv'
  BY <1>a, <1>b, <1>39 DEF Close, PendingInv, Cleared, Zeros
<1>40. ASSUME NEW t \in Trade, CloseManually(t) PROVE PendingInv'
  BY <1>a, <1>b, <1>40 DEF CloseManually, Retire, PendingInv, Cleared, Zeros
<1>41. ASSUME NEW t \in Trade, OperatorFlattens(t) PROVE PendingInv'
  BY <1>a, <1>b, <1>41 DEF OperatorFlattens, PendingInv, Cleared, Zeros
<1>42. CASE NewDay
  BY <1>a, <1>b, <1>42 DEF NewDay, PendingInv, Cleared, Zeros
<1>43. CASE Crash
  BY <1>a, <1>b, <1>43 DEF Crash, PendingInv, Cleared, Zeros
<1>44. CASE UNCHANGED vars
  BY <1>44 DEF vars, PendingInv, Cleared, Zeros
<1> QED
  BY <1>1, <1>2, <1>3, <1>4, <1>5, <1>6, <1>7, <1>8, <1>9, <1>10, <1>11, <1>12,
     <1>13, <1>14, <1>15, <1>16, <1>17, <1>18, <1>19, <1>20, <1>21, <1>22,
     <1>23, <1>24, <1>25, <1>26, <1>27, <1>28, <1>29, <1>30, <1>31, <1>32,
     <1>33, <1>34, <1>35, <1>36, <1>37, <1>38, <1>39, <1>40, <1>41, <1>42,
     <1>43, <1>44
     DEF Next, TickStep, Evaluate, Return, Command

(* A close on a signal stays confirmed until it is over. *)
LEMMA SignalStep ==
  ASSUME TypeOK, CallInv, PendingInv, SignalInv, [Next]_vars
  PROVE  SignalInv'
<1> USE DEF bookVars, memVars, configVars, tickVars, histVars
<1> USE Numbers
<1>a. \A u \in Trade : pending[u] \in Nat /\ streak[u] \in 0..ConfirmTicks
  BY DEF TypeOK, MemoryType, HistoryType
<1>b. pending \in [Trade -> Nat] /\ streak \in [Trade -> Nat]
  BY DEF TypeOK, MemoryType, HistoryType
<1>c. call.op # "none" => call.trade \in Trade
  BY DEF CallInv
<1>1. CASE HaltOnLoss
  BY <1>a, <1>b, <1>c, <1>1 DEF HaltOnLoss, SignalInv, NoCall
<1>2. CASE ScanSkipped
  BY <1>a, <1>b, <1>c, <1>2 DEF ScanSkipped, SignalInv, NoCall
<1>3. CASE ScanStart
  BY <1>a, <1>b, <1>c, <1>3 DEF ScanStart, SignalInv, NoCall
<1>4. CASE MonitorEmpty
  BY <1>a, <1>b, <1>c, <1>4 DEF MonitorEmpty, SignalInv, NoCall, Cleared, Zeros
<1>5. CASE MonitorStart
  BY <1>a, <1>b, <1>c, <1>5 DEF MonitorStart, SignalInv, NoCall
<1>6. ASSUME NEW t \in Trade, ScanEnter(t) PROVE SignalInv'
  BY <1>a, <1>b, <1>c, <1>6 DEF ScanEnter, Start, SignalInv, NoCall
<1>7. ASSUME NEW t \in Trade, HoldEntered(t) PROVE SignalInv'
  BY <1>a, <1>b, <1>c, <1>7 DEF HoldEntered, Done, SignalInv, NoCall
<1>8. ASSUME NEW t \in Trade, NoMarketData(t) PROVE SignalInv'
  BY <1>a, <1>b, <1>c, <1>8
     DEF NoMarketData, Evaluating, Done, SignalInv, NoCall
<1>9. ASSUME NEW t \in Trade, ExpiredClose(t) PROVE SignalInv'
  BY <1>a, <1>b, <1>c, <1>9
     DEF ExpiredClose, Evaluating, Start, SignalInv, NoCall
<1>10. ASSUME NEW t \in Trade, ExpiredStuck(t) PROVE SignalInv'
  <2>0. MarkStuck(t)
    BY <1>10 DEF ExpiredStuck
  <2>1. call'.op \in {"alert", "none"}
    BY <2>0, MarkStuckCall
  <2> QED
    BY <2>1 DEF SignalInv
<1>11. ASSUME NEW t \in Trade, SignalPending(t) PROVE SignalInv'
  BY <1>a, <1>b, <1>c, <1>11
     DEF SignalPending, Evaluating, Done, SignalInv, NoCall
<1>12. ASSUME NEW t \in Trade, SignalClose(t) PROVE SignalInv'
  <2>1. streak'[t] >= ConfirmTicks
    <3>1. pending[t] + 1 >= ConfirmTicks /\ pending[t] <= streak[t]
      BY <1>12 DEF SignalClose, Confirmed, PendingInv
    <3>2. streak'[t] = IF streak[t] < ConfirmTicks THEN streak[t] + 1 ELSE streak[t]
      BY <1>12, <1>b DEF SignalClose, SeeSignal
    <3> QED
      BY <3>1, <3>2, <1>a
  <2>2. call'.trade = t
    BY <1>12 DEF SignalClose, Start
  <2>3. pending'[t] = 0
    BY <1>12, <1>b DEF SignalClose, Cleared
  <2> QED
    BY <2>1, <2>2, <2>3 DEF SignalInv
<1>13. ASSUME NEW t \in Trade, SignalStuck(t) PROVE SignalInv'
  <2>0. MarkStuck(t)
    BY <1>13 DEF SignalStuck
  <2>1. call'.op \in {"alert", "none"}
    BY <2>0, MarkStuckCall
  <2> QED
    BY <2>1 DEF SignalInv
<1>14. ASSUME NEW t \in Trade, Hold(t) PROVE SignalInv'
  BY <1>a, <1>b, <1>c, <1>14
     DEF Hold, NoSignal, Evaluating, Done, SignalInv, NoCall
<1>15. ASSUME NEW t \in Trade, DrainClose(t) PROVE SignalInv'
  BY <1>a, <1>b, <1>c, <1>15
     DEF DrainClose, NoSignal, Evaluating, Start, SignalInv, NoCall
<1>16. ASSUME NEW t \in Trade, RollCapClose(t) PROVE SignalInv'
  BY <1>a, <1>b, <1>c, <1>16
     DEF RollCapClose, NoSignal, Evaluating, Start, SignalInv, NoCall
<1>17. ASSUME NEW t \in Trade, RollNoCandidate(t) PROVE SignalInv'
  BY <1>a, <1>b, <1>c, <1>17
     DEF RollNoCandidate, NoSignal, Evaluating, Done, SignalInv, NoCall
<1>18. ASSUME NEW t \in Trade, RollStart(t) PROVE SignalInv'
  BY <1>a, <1>b, <1>c, <1>18
     DEF RollStart, NoSignal, Evaluating, Start, SignalInv, NoCall
<1>19. ASSUME NEW t \in Trade, EnterFilled(t) PROVE SignalInv'
  BY <1>a, <1>b, <1>c, <1>19 DEF EnterFilled, Waiting, SignalInv, NoCall
<1>20. ASSUME NEW t \in Trade, EnterRejected(t) PROVE SignalInv'
  BY <1>a, <1>b, <1>c, <1>20 DEF EnterRejected, Waiting, SignalInv, NoCall
<1>21. ASSUME NEW t \in Trade, EnterRaised(t) PROVE SignalInv'
  BY <1>a, <1>b, <1>c, <1>21
     DEF EnterRaised, Waiting, AbortScan, SignalInv, NoCall
<1>22. ASSUME NEW t \in Trade, EnterUnrecorded(t) PROVE SignalInv'
  BY <1>a, <1>b, <1>c, <1>22
     DEF EnterUnrecorded, Waiting, AbortScan, SignalInv, NoCall
<1>23. ASSUME NEW t \in Trade, CloseFilled(t) PROVE SignalInv'
  BY <1>a, <1>b, <1>c, <1>23
     DEF CloseFilled, Waiting, Done, Retire, SignalInv, NoCall
<1>24. ASSUME NEW t \in Trade, CloseUnrecorded(t) PROVE SignalInv'
  BY <1>a, <1>b, <1>c, <1>24
     DEF CloseUnrecorded, Waiting, Done, SignalInv, NoCall
<1>25. ASSUME NEW t \in Trade, CloseFailed(t) PROVE SignalInv'
  BY <1>a, <1>b, <1>c, <1>25
     DEF CloseFailed, Waiting, Done, SignalInv, NoCall
<1>26. ASSUME NEW t \in Trade, DrainCloseFailed(t) PROVE SignalInv'
  BY <1>a, <1>b, <1>c, <1>26
     DEF DrainCloseFailed, Waiting, Done, SignalInv, NoCall
<1>27. ASSUME NEW t \in Trade, RollCapCloseFailed(t) PROVE SignalInv'
  <2>0. MarkStuck(t)
    BY <1>27 DEF RollCapCloseFailed
  <2>1. call'.op \in {"alert", "none"}
    BY <2>0, MarkStuckCall
  <2> QED
    BY <2>1 DEF SignalInv
<1>28. ASSUME NEW t \in Trade, RollFilled(t) PROVE SignalInv'
  BY <1>a, <1>b, <1>c, <1>28
     DEF RollFilled, Rolled, Waiting, Done, SignalInv, NoCall
<1>29. ASSUME NEW t \in Trade, RollUnrecorded(t) PROVE SignalInv'
  BY <1>a, <1>b, <1>c, <1>29
     DEF RollUnrecorded, Rolled, Waiting, Done, SignalInv, NoCall
<1>30. ASSUME NEW t \in Trade, RollFailed(t) PROVE SignalInv'
  BY <1>a, <1>b, <1>c, <1>30
     DEF RollFailed, Waiting, Done, SignalInv, NoCall
<1>31. ASSUME NEW t \in Trade, AlertStuck(t) PROVE SignalInv'
  BY <1>a, <1>b, <1>c, <1>31
     DEF AlertStuck, Waiting, Done, SignalInv, NoCall
<1>32. CASE ScanFinish
  BY <1>a, <1>b, <1>c, <1>32 DEF ScanFinish, SignalInv, NoCall
<1>33. CASE MonitorFinish
  BY <1>a, <1>b, <1>c, <1>33 DEF MonitorFinish, SignalInv, NoCall, Cleared, Zeros
<1>34. CASE StopBot
  BY <1>a, <1>b, <1>c, <1>34 DEF StopBot, SignalInv, NoCall
<1>35. CASE StartBot
  BY <1>a, <1>b, <1>c, <1>35 DEF StartBot, Resume, SignalInv, NoCall
<1>36. CASE StartDrain
  BY <1>a, <1>b, <1>c, <1>36 DEF StartDrain, Resume, SignalInv, NoCall
<1>37. CASE StartWithAssets
  BY <1>a, <1>b, <1>c, <1>37
     DEF StartWithAssets, Resume, SignalInv, NoCall
<1>38. CASE DrainAndNew
  BY <1>a, <1>b, <1>c, <1>38 DEF DrainAndNew, Resume, SignalInv, NoCall
<1>39. ASSUME NEW t \in Trade, Close(t) PROVE SignalInv'
  BY <1>a, <1>b, <1>c, <1>39 DEF Close, SignalInv, NoCall
<1>40. ASSUME NEW t \in Trade, CloseManually(t) PROVE SignalInv'
  BY <1>a, <1>b, <1>c, <1>40 DEF CloseManually, Retire, SignalInv, NoCall
<1>41. ASSUME NEW t \in Trade, OperatorFlattens(t) PROVE SignalInv'
  BY <1>a, <1>b, <1>c, <1>41 DEF OperatorFlattens, SignalInv, NoCall
<1>42. CASE NewDay
  BY <1>a, <1>b, <1>c, <1>42 DEF NewDay, SignalInv, NoCall
<1>43. CASE Crash
  BY <1>a, <1>b, <1>c, <1>43 DEF Crash, SignalInv, NoCall, Cleared, Zeros
<1>44. CASE UNCHANGED vars
  BY <1>44 DEF vars, SignalInv, NoCall
<1> QED
  BY <1>1, <1>2, <1>3, <1>4, <1>5, <1>6, <1>7, <1>8, <1>9, <1>10, <1>11, <1>12,
     <1>13, <1>14, <1>15, <1>16, <1>17, <1>18, <1>19, <1>20, <1>21, <1>22,
     <1>23, <1>24, <1>25, <1>26, <1>27, <1>28, <1>29, <1>30, <1>31, <1>32,
     <1>33, <1>34, <1>35, <1>36, <1>37, <1>38, <1>39, <1>40, <1>41, <1>42,
     <1>43, <1>44
     DEF Next, TickStep, Evaluate, Return, Command

(* Rows stay sound. *)
LEMMA RowStep ==
  ASSUME TypeOK, RowInv, TodoInv, HeldInv, [Next]_vars
  PROVE  RowInv'
<1>r. \A u \in Trade : rows[u] \in Row /\ SoundRow(rows[u])
  BY DEF TypeOK, BookType, RowInv
<1>f. rows \in [Trade -> Row]
  BY DEF TypeOK, BookType
<1> USE <1>f
<1>q. CASE rows' = rows /\ failures' = failures /\ tries' = tries
  BY <1>q DEF RowInv, SoundRow
<1>1. CASE ScanSkipped
  <2>1. PICK S \in {{}, Gone} :
          rows' = [u \in Trade |-> IF u \in S THEN ReconcileRow(rows[u]) ELSE rows[u]]
    BY <1>1 DEF ScanSkipped, SyncStuckPositions
  <2>2. \A u \in S : rows[u].result \in OpenResults
    BY DEF Gone, Stuck, RowInv, SoundRow
  <2> QED
    BY <2>1, <2>2, <1>r, SoundRows DEF RowInv
<1>2. CASE ScanStart
  <2>1. PICK S \in {{}, Gone} :
          rows' = [u \in Trade |-> IF u \in S THEN ReconcileRow(rows[u]) ELSE rows[u]]
    BY <1>2 DEF ScanStart, SyncStuckPositions
  <2>2. \A u \in S : rows[u].result \in OpenResults
    BY DEF Gone, Stuck, RowInv, SoundRow
  <2> QED
    BY <2>1, <2>2, <1>r, SoundRows DEF RowInv
<1>3. CASE MonitorEmpty
  BY <1>3 DEF MonitorEmpty, RowInv, SoundRow, bookVars
<1>4. ASSUME NEW t \in Trade, ExpiredStuck(t) PROVE RowInv'
  <2>1. Monitored(t)
    BY <1>4, EvaluatedIsMonitored DEF ExpiredStuck
  <2>2. rows' = rows \/ rows' = [rows EXCEPT ![t] = StickRow(rows[t])]
    BY <1>4 DEF ExpiredStuck, MarkStuck
  <2> QED
    BY <2>1, <2>2, <1>r, SoundRows DEF RowInv, Monitored, Visible
<1>5. ASSUME NEW t \in Trade, SignalStuck(t) PROVE RowInv'
  <2>1. Monitored(t)
    BY <1>5, EvaluatedIsMonitored DEF SignalStuck
  <2>2. rows' = rows \/ rows' = [rows EXCEPT ![t] = StickRow(rows[t])]
    BY <1>5 DEF SignalStuck, MarkStuck
  <2> QED
    BY <2>1, <2>2, <1>r, SoundRows DEF RowInv, Monitored, Visible
<1>6. ASSUME NEW t \in Trade, RollNoCandidate(t) PROVE RowInv'
  BY <1>6 DEF RollNoCandidate, NoSignal, RowInv, SoundRow, bookVars
<1>7. ASSUME NEW t \in Trade, EnterFilled(t) PROVE RowInv'
  <2>1. PICK days \in EntryDays : rows' = [rows EXCEPT ![t] = InsertRow(days)]
    BY <1>7 DEF EnterFilled
  <2> QED
    BY <2>1, <1>r, SoundRows DEF RowInv
<1>8. ASSUME NEW t \in Trade, CloseFilled(t) PROVE RowInv'
  <2>1. PICK pnl : rows' = [rows EXCEPT ![t] = CloseRow(rows[t], pnl)]
    BY <1>8 DEF CloseFilled
  <2> QED
    BY <2>1, <1>r, SoundRows DEF RowInv
<1>9. ASSUME NEW t \in Trade, CloseFailed(t) PROVE RowInv'
  BY <1>9 DEF CloseFailed, RowInv, SoundRow, bookVars
<1>10. ASSUME NEW t \in Trade, RollCapCloseFailed(t) PROVE RowInv'
  <2>1. Monitored(t)
    BY <1>10, TradedIsMonitored DEF RollCapCloseFailed
  <2>2. rows' = rows \/ rows' = [rows EXCEPT ![t] = StickRow(rows[t])]
    BY <1>10 DEF RollCapCloseFailed, MarkStuck
  <2> QED
    BY <2>1, <2>2, <1>r, SoundRows DEF RowInv, Monitored, Visible
<1>11. ASSUME NEW t \in Trade, RollFilled(t) PROVE RowInv'
  <2>1. PICK pnl \in RollPnl : Rolled(t, pnl) /\ rows' = [rows EXCEPT ![t] = RollRow(rows[t], pnl)]
    BY <1>11 DEF RollFilled
  <2>2. Monitored(t)
    BY <2>1, TradedIsMonitored DEF Rolled
  <2> QED
    BY <2>1, <2>2, <1>r, SoundRows DEF RowInv, Monitored, Visible, Stuck
<1>12. ASSUME NEW t \in Trade, RollUnrecorded(t) PROVE RowInv'
  BY <1>12 DEF RollUnrecorded, RowInv, SoundRow, bookVars
<1>13. ASSUME NEW t \in Trade, RollFailed(t) PROVE RowInv'
  BY <1>13 DEF RollFailed, RowInv, SoundRow, bookVars
<1>14. CASE MonitorFinish
  BY <1>14 DEF MonitorFinish, RowInv, SoundRow, bookVars
<1>15. ASSUME NEW t \in Trade, Close(t) PROVE RowInv'
  <2>1. rows' = [rows EXCEPT ![t] = ResetRow(rows[t])]
    BY <1>15 DEF Close
  <2> QED
    BY <2>1, <1>r, SoundRows DEF RowInv
<1>16. ASSUME NEW t \in Trade, CloseManually(t) PROVE RowInv'
  <2>1. PICK pnl \in ClosePnl : rows' = [rows EXCEPT ![t] = ManualRow(rows[t], pnl)]
    BY <1>16 DEF CloseManually
  <2> QED
    BY <2>1, <1>r, SoundRows DEF RowInv
<1>17. CASE Crash
  BY <1>17 DEF Crash, RowInv, SoundRow, bookVars
<1> QED
  BY <1>q, <1>1, <1>2, <1>3, <1>4, <1>5, <1>6, <1>7, <1>8, <1>9, <1>10, <1>11,
     <1>12, <1>13, <1>14, <1>15, <1>16, <1>17, Effects

(* What is still to visit stays as the tick found it. *)
LEMMA TodoStep ==
  ASSUME TypeOK, Disciplined, CallInv, RowInv, TodoInv, HeldInv, [Next]_vars
  PROVE  TodoInv'
<1> USE DEF bookVars, memVars, configVars, tickVars, histVars
<1>f. rows \in [Trade -> Row] /\ todo \subseteq Trade
  BY DEF TypeOK, BookType, TickType
<1>c. /\ tick = "none" => call.op = "none"
      /\ tick = "scan" => call.op \in {"none", "enter"}
      /\ call.op \in {"close", "roll", "alert"} => tick = "monitor"
  BY DEF TypeOK, TickType, CallInv
<1>1. CASE HaltOnLoss
  BY <1>f, <1>c, <1>1
     DEF HaltOnLoss, TodoInv, Monitored, Visible, Stuck, Waiting
<1>2. CASE ScanSkipped
  BY <1>f, <1>c, <1>2
     DEF ScanSkipped, TodoInv, Monitored, Visible, Stuck, Waiting, TickMayStart
<1>3. CASE ScanStart
  <2>1. PICK S \in {{}, Gone} :
          rows' = [u \in Trade |-> IF u \in S THEN ReconcileRow(rows[u]) ELSE rows[u]]
    BY <1>3 DEF ScanStart, SyncStuckPositions
  <2>2. \A u \in Candidates : u \in Trade /\ rows[u].result = "none" /\ u \notin S
    BY DEF Candidates, Gone, Stuck, RowInv, SoundRow
  <2>3. tick' = "scan" /\ todo' = Candidates
    BY <1>3 DEF ScanStart
  <2> QED
    BY <2>1, <2>2, <2>3 DEF TodoInv
<1>4. CASE MonitorEmpty
  BY <1>f, <1>c, <1>4
     DEF MonitorEmpty, TodoInv, Monitored, Visible, Stuck, Waiting
<1>5. CASE MonitorStart
  BY <1>f, <1>c, <1>5
     DEF MonitorStart, TodoInv, Monitored, Visible, Stuck, Waiting,
         TickMayStart, OpenPositions
<1>6. ASSUME NEW t \in Trade, ScanEnter(t) PROVE TodoInv'
  BY <1>f, <1>c, <1>6
     DEF ScanEnter, Start, TodoInv, Monitored, Visible, Stuck, Waiting
<1>7. ASSUME NEW t \in Trade, HoldEntered(t) PROVE TodoInv'
  BY <1>f, <1>c, <1>7
     DEF HoldEntered, Done, TodoInv, Monitored, Visible, Stuck, Waiting
<1>8. ASSUME NEW t \in Trade, NoMarketData(t) PROVE TodoInv'
  BY <1>f, <1>c, <1>8
     DEF NoMarketData, Evaluating, Done, TodoInv, Monitored, Visible, Stuck,
         Waiting
<1>9. ASSUME NEW t \in Trade, ExpiredClose(t) PROVE TodoInv'
  BY <1>f, <1>c, <1>9
     DEF ExpiredClose, Evaluating, Start, TodoInv, Monitored, Visible, Stuck,
         Waiting
<1>10. ASSUME NEW t \in Trade, ExpiredStuck(t) PROVE TodoInv'
  <2>1. tick' = tick /\ tick = "monitor" /\ call.op # "alert"
    BY <1>10, <1>c DEF ExpiredStuck, Evaluating
  <2>2. CASE /\ call'.op = "alert" /\ call'.trade = t
             /\ rows' = [rows EXCEPT ![t] = StickRow(rows[t])]
             /\ todo' = todo
    BY <2>1, <2>2, <1>f DEF TodoInv, Monitored, Visible, Stuck, Waiting
  <2>3. CASE rows' = rows /\ todo' = todo \ {t}
    BY <2>1, <2>3, <1>f DEF TodoInv, Monitored, Visible, Stuck, Waiting
  <2>4. MarkStuck(t)
    BY <1>10 DEF ExpiredStuck
  <2> QED
    BY <2>2, <2>3, <2>4 DEF MarkStuck, Done
<1>11. ASSUME NEW t \in Trade, SignalPending(t) PROVE TodoInv'
  BY <1>f, <1>c, <1>11
     DEF SignalPending, Evaluating, Done, TodoInv, Monitored, Visible, Stuck,
         Waiting
<1>12. ASSUME NEW t \in Trade, SignalClose(t) PROVE TodoInv'
  BY <1>f, <1>c, <1>12
     DEF SignalClose, Evaluating, Start, TodoInv, Monitored, Visible, Stuck,
         Waiting
<1>13. ASSUME NEW t \in Trade, SignalStuck(t) PROVE TodoInv'
  <2>1. tick' = tick /\ tick = "monitor" /\ call.op # "alert"
    BY <1>13, <1>c DEF SignalStuck, Evaluating
  <2>2. CASE /\ call'.op = "alert" /\ call'.trade = t
             /\ rows' = [rows EXCEPT ![t] = StickRow(rows[t])]
             /\ todo' = todo
    BY <2>1, <2>2, <1>f DEF TodoInv, Monitored, Visible, Stuck, Waiting
  <2>3. CASE rows' = rows /\ todo' = todo \ {t}
    BY <2>1, <2>3, <1>f DEF TodoInv, Monitored, Visible, Stuck, Waiting
  <2>4. MarkStuck(t)
    BY <1>13 DEF SignalStuck
  <2> QED
    BY <2>2, <2>3, <2>4 DEF MarkStuck, Done
<1>14. ASSUME NEW t \in Trade, Hold(t) PROVE TodoInv'
  BY <1>f, <1>c, <1>14
     DEF Hold, NoSignal, Evaluating, Done, TodoInv, Monitored, Visible, Stuck,
         Waiting
<1>15. ASSUME NEW t \in Trade, DrainClose(t) PROVE TodoInv'
  BY <1>f, <1>c, <1>15
     DEF DrainClose, NoSignal, Evaluating, Start, TodoInv, Monitored, Visible,
         Stuck, Waiting
<1>16. ASSUME NEW t \in Trade, RollCapClose(t) PROVE TodoInv'
  BY <1>f, <1>c, <1>16
     DEF RollCapClose, NoSignal, Evaluating, Start, TodoInv, Monitored,
         Visible, Stuck, Waiting
<1>17. ASSUME NEW t \in Trade, RollNoCandidate(t) PROVE TodoInv'
  BY <1>f, <1>c, <1>17
     DEF RollNoCandidate, NoSignal, Evaluating, Done, TodoInv, Monitored,
         Visible, Stuck, Waiting
<1>18. ASSUME NEW t \in Trade, RollStart(t) PROVE TodoInv'
  BY <1>f, <1>c, <1>18
     DEF RollStart, NoSignal, Evaluating, Start, TodoInv, Monitored, Visible,
         Stuck, Waiting
<1>19. ASSUME NEW t \in Trade, EnterFilled(t) PROVE TodoInv'
  <2>1. PICK r : rows' = [rows EXCEPT ![t] = r]
    BY <1>19 DEF EnterFilled
  <2>2. tick' = tick /\ todo' = todo /\ t \notin todo /\ call.op = "enter"
    BY <1>19 DEF EnterFilled, Waiting, HeldInv
  <2> QED
    BY <2>1, <2>2, <1>f, <1>c DEF TodoInv, Monitored, Visible, Stuck, Waiting
<1>20. ASSUME NEW t \in Trade, EnterRejected(t) PROVE TodoInv'
  BY <1>f, <1>c, <1>20
     DEF EnterRejected, Waiting, TodoInv, Monitored, Visible, Stuck
<1>21. ASSUME NEW t \in Trade, EnterRaised(t) PROVE TodoInv'
  BY <1>f, <1>c, <1>21
     DEF EnterRaised, Waiting, AbortScan, TodoInv, Monitored, Visible, Stuck
<1>22. ASSUME NEW t \in Trade, EnterUnrecorded(t) PROVE TodoInv'
  BY <1>f, <1>c, <1>22
     DEF EnterUnrecorded, Waiting, AbortScan, TodoInv, Monitored, Visible,
         Stuck
<1>23. ASSUME NEW t \in Trade, CloseFilled(t) PROVE TodoInv'
  BY <1>f, <1>c, <1>23
     DEF CloseFilled, Waiting, Done, Retire, TodoInv, Monitored, Visible, Stuck
<1>24. ASSUME NEW t \in Trade, CloseUnrecorded(t) PROVE TodoInv'
  BY <1>f, <1>c, <1>24
     DEF CloseUnrecorded, Waiting, Done, TodoInv, Monitored, Visible, Stuck
<1>25. ASSUME NEW t \in Trade, CloseFailed(t) PROVE TodoInv'
  BY <1>f, <1>c, <1>25
     DEF CloseFailed, Waiting, Done, TodoInv, Monitored, Visible, Stuck
<1>26. ASSUME NEW t \in Trade, DrainCloseFailed(t) PROVE TodoInv'
  BY <1>f, <1>c, <1>26
     DEF DrainCloseFailed, Waiting, Done, TodoInv, Monitored, Visible, Stuck
<1>27. ASSUME NEW t \in Trade, RollCapCloseFailed(t) PROVE TodoInv'
  <2>1. tick' = tick /\ tick = "monitor" /\ call.op # "alert"
    BY <1>27, <1>c DEF RollCapCloseFailed, Waiting
  <2>2. CASE /\ call'.op = "alert" /\ call'.trade = t
             /\ rows' = [rows EXCEPT ![t] = StickRow(rows[t])]
             /\ todo' = todo
    BY <2>1, <2>2, <1>f DEF TodoInv, Monitored, Visible, Stuck, Waiting
  <2>3. CASE rows' = rows /\ todo' = todo \ {t}
    BY <2>1, <2>3, <1>f DEF TodoInv, Monitored, Visible, Stuck, Waiting
  <2>4. MarkStuck(t)
    BY <1>27 DEF RollCapCloseFailed
  <2> QED
    BY <2>2, <2>3, <2>4 DEF MarkStuck, Done
<1>28. ASSUME NEW t \in Trade, RollFilled(t) PROVE TodoInv'
  BY <1>f, <1>c, <1>28
     DEF RollFilled, Rolled, Waiting, Done, TodoInv, Monitored, Visible, Stuck
<1>29. ASSUME NEW t \in Trade, RollUnrecorded(t) PROVE TodoInv'
  BY <1>f, <1>c, <1>29
     DEF RollUnrecorded, Rolled, Waiting, Done, TodoInv, Monitored, Visible,
         Stuck
<1>30. ASSUME NEW t \in Trade, RollFailed(t) PROVE TodoInv'
  BY <1>f, <1>c, <1>30
     DEF RollFailed, Waiting, Done, TodoInv, Monitored, Visible, Stuck
<1>31. ASSUME NEW t \in Trade, AlertStuck(t) PROVE TodoInv'
  BY <1>f, <1>c, <1>31
     DEF AlertStuck, Waiting, Done, TodoInv, Monitored, Visible, Stuck
<1>32. CASE ScanFinish
  BY <1>f, <1>c, <1>32
     DEF ScanFinish, TodoInv, Monitored, Visible, Stuck, Waiting
<1>33. CASE MonitorFinish
  BY <1>f, <1>c, <1>33
     DEF MonitorFinish, TodoInv, Monitored, Visible, Stuck, Waiting
<1>34. CASE StopBot
  BY <1>f, <1>c, <1>34 DEF StopBot, TodoInv, Monitored, Visible, Stuck, Waiting
<1>35. CASE StartBot
  BY <1>f, <1>c, <1>35
     DEF StartBot, Resume, TodoInv, Monitored, Visible, Stuck, Waiting
<1>36. CASE StartDrain
  BY <1>f, <1>c, <1>36
     DEF StartDrain, Resume, TodoInv, Monitored, Visible, Stuck, Waiting
<1>37. CASE StartWithAssets
  BY <1>f, <1>c, <1>37
     DEF StartWithAssets, Resume, TodoInv, Monitored, Visible, Stuck, Waiting
<1>38. CASE DrainAndNew
  BY <1>f, <1>c, <1>38
     DEF DrainAndNew, Resume, TodoInv, Monitored, Visible, Stuck, Waiting
<1>39. ASSUME NEW t \in Trade, Close(t) PROVE TodoInv'
  BY <1>f, <1>c, <1>39 DEF Close, TodoInv, Monitored, Visible, Stuck, Waiting
<1>40. ASSUME NEW t \in Trade, CloseManually(t) PROVE TodoInv'
  BY <1>f, <1>c, <1>40
     DEF CloseManually, Retire, TodoInv, Monitored, Visible, Stuck, Waiting
<1>41. ASSUME NEW t \in Trade, OperatorFlattens(t) PROVE TodoInv'
  BY <1>f, <1>c, <1>41
     DEF OperatorFlattens, TodoInv, Monitored, Visible, Stuck, Waiting
<1>42. CASE NewDay
  BY <1>f, <1>c, <1>42 DEF NewDay, TodoInv, Monitored, Visible, Stuck, Waiting
<1>43. CASE Crash
  BY <1>f, <1>c, <1>43 DEF Crash, TodoInv, Monitored, Visible, Stuck, Waiting
<1>44. CASE UNCHANGED vars
  BY <1>44 DEF vars, TodoInv, Monitored, Visible, Stuck, Waiting
<1> QED
  BY <1>1, <1>2, <1>3, <1>4, <1>5, <1>6, <1>7, <1>8, <1>9, <1>10, <1>11, <1>12,
     <1>13, <1>14, <1>15, <1>16, <1>17, <1>18, <1>19, <1>20, <1>21, <1>22,
     <1>23, <1>24, <1>25, <1>26, <1>27, <1>28, <1>29, <1>30, <1>31, <1>32,
     <1>33, <1>34, <1>35, <1>36, <1>37, <1>38, <1>39, <1>40, <1>41, <1>42,
     <1>43, <1>44
     DEF Next, TickStep, Evaluate, Return, Command

(* So does what the executor holds. *)
LEMMA HeldStep ==
  ASSUME TypeOK, Disciplined, CallInv, RowInv, TodoInv, HeldInv, [Next]_vars
  PROVE  HeldInv'
<1> USE DEF bookVars, memVars, configVars, tickVars, histVars
<1>f. rows \in [Trade -> Row] /\ todo \subseteq Trade
  BY DEF TypeOK, BookType, TickType
<1>c. /\ tick = "none" => call.op = "none"
      /\ tick = "scan" => call.op \in {"none", "enter"}
      /\ tick = "monitor" => call.op \in {"none", "close", "roll", "alert"}
      /\ call.op \in {"close", "roll", "alert"} => tick = "monitor"
      /\ call.op # "none" => call.trade \in Trade
  BY DEF TypeOK, TickType, CallInv
<1>n. NoCall.op = "none"
  BY DEF NoCall
<1>1. CASE HaltOnLoss
  BY <1>f, <1>c, <1>n, <1>1
     DEF HaltOnLoss, HeldInv, Monitored, Visible, Stuck, Waiting
<1>2. CASE ScanSkipped
  <2>1. call' = call /\ tick = "none"
    BY <1>2 DEF ScanSkipped, TickMayStart, tickVars
  <2> QED
    BY <2>1, <1>c DEF HeldInv
<1>3. CASE ScanStart
  <2>1. call' = call /\ tick = "none"
    BY <1>3 DEF ScanStart, TickMayStart, tickVars
  <2> QED
    BY <2>1, <1>c DEF HeldInv
<1>4. CASE MonitorEmpty
  BY <1>f, <1>c, <1>n, <1>4
     DEF MonitorEmpty, HeldInv, Monitored, Visible, Stuck, Waiting
<1>5. CASE MonitorStart
  BY <1>f, <1>c, <1>n, <1>5
     DEF MonitorStart, HeldInv, Monitored, Visible, Stuck, Waiting,
         TickMayStart, OpenPositions
<1>6. ASSUME NEW t \in Trade, ScanEnter(t) PROVE HeldInv'
  BY <1>f, <1>c, <1>n, <1>6
     DEF ScanEnter, Start, HeldInv, Monitored, Visible, Stuck, Waiting, TodoInv
<1>7. ASSUME NEW t \in Trade, HoldEntered(t) PROVE HeldInv'
  BY <1>f, <1>c, <1>n, <1>7
     DEF HoldEntered, Done, HeldInv, Monitored, Visible, Stuck, Waiting
<1>8. ASSUME NEW t \in Trade, NoMarketData(t) PROVE HeldInv'
  BY <1>f, <1>c, <1>n, <1>8
     DEF NoMarketData, Evaluating, Done, HeldInv, Monitored, Visible, Stuck,
         Waiting
<1>9. ASSUME NEW t \in Trade, ExpiredClose(t) PROVE HeldInv'
  <2>1. Monitored(t)
    BY <1>9, EvaluatedIsMonitored DEF ExpiredClose
  <2>2. rows' = rows /\ call'.op \in {"close", "roll"} /\ call'.trade = t
    BY <1>9 DEF ExpiredClose, Start, bookVars
  <2> QED
    BY <2>1, <2>2 DEF HeldInv, Monitored, Visible, Stuck
<1>10. ASSUME NEW t \in Trade, ExpiredStuck(t) PROVE HeldInv'
  <2>1. MarkStuck(t) /\ Monitored(t)
    BY <1>10, EvaluatedIsMonitored DEF ExpiredStuck
  <2>2. call'.op = "none" \/ (call'.op = "alert" /\ call'.trade = t)
    BY <2>1, MarkStuckCall
  <2>3. rows' = rows \/ rows' = [rows EXCEPT ![t] = StickRow(rows[t])]
    BY <2>1 DEF MarkStuck
  <2>4. rows'[t].result = rows[t].result
    BY <2>3, <1>f DEF StickRow, Row
  <2> QED
    BY <2>1, <2>2, <2>4 DEF HeldInv, Monitored, Visible, OpenResults
<1>11. ASSUME NEW t \in Trade, SignalPending(t) PROVE HeldInv'
  BY <1>f, <1>c, <1>n, <1>11
     DEF SignalPending, Evaluating, Done, HeldInv, Monitored, Visible, Stuck,
         Waiting
<1>12. ASSUME NEW t \in Trade, SignalClose(t) PROVE HeldInv'
  <2>1. Monitored(t)
    BY <1>12, EvaluatedIsMonitored DEF SignalClose
  <2>2. rows' = rows /\ call'.op \in {"close", "roll"} /\ call'.trade = t
    BY <1>12 DEF SignalClose, Start, bookVars
  <2> QED
    BY <2>1, <2>2 DEF HeldInv, Monitored, Visible, Stuck
<1>13. ASSUME NEW t \in Trade, SignalStuck(t) PROVE HeldInv'
  <2>1. MarkStuck(t) /\ Monitored(t)
    BY <1>13, EvaluatedIsMonitored DEF SignalStuck
  <2>2. call'.op = "none" \/ (call'.op = "alert" /\ call'.trade = t)
    BY <2>1, MarkStuckCall
  <2>3. rows' = rows \/ rows' = [rows EXCEPT ![t] = StickRow(rows[t])]
    BY <2>1 DEF MarkStuck
  <2>4. rows'[t].result = rows[t].result
    BY <2>3, <1>f DEF StickRow, Row
  <2> QED
    BY <2>1, <2>2, <2>4 DEF HeldInv, Monitored, Visible, OpenResults
<1>14. ASSUME NEW t \in Trade, Hold(t) PROVE HeldInv'
  BY <1>f, <1>c, <1>n, <1>14
     DEF Hold, NoSignal, Evaluating, Done, HeldInv, Monitored, Visible, Stuck,
         Waiting
<1>15. ASSUME NEW t \in Trade, DrainClose(t) PROVE HeldInv'
  <2>1. Monitored(t)
    BY <1>15, EvaluatedIsMonitored DEF DrainClose, NoSignal
  <2>2. rows' = rows /\ call'.op \in {"close", "roll"} /\ call'.trade = t
    BY <1>15 DEF DrainClose, NoSignal, Start, bookVars
  <2> QED
    BY <2>1, <2>2 DEF HeldInv, Monitored, Visible, Stuck
<1>16. ASSUME NEW t \in Trade, RollCapClose(t) PROVE HeldInv'
  <2>1. Monitored(t)
    BY <1>16, EvaluatedIsMonitored DEF RollCapClose, NoSignal
  <2>2. rows' = rows /\ call'.op \in {"close", "roll"} /\ call'.trade = t
    BY <1>16 DEF RollCapClose, NoSignal, Start, bookVars
  <2> QED
    BY <2>1, <2>2 DEF HeldInv, Monitored, Visible, Stuck
<1>17. ASSUME NEW t \in Trade, RollNoCandidate(t) PROVE HeldInv'
  BY <1>f, <1>c, <1>n, <1>17
     DEF RollNoCandidate, NoSignal, Evaluating, Done, HeldInv, Monitored,
         Visible, Stuck, Waiting
<1>18. ASSUME NEW t \in Trade, RollStart(t) PROVE HeldInv'
  <2>1. Monitored(t)
    BY <1>18, EvaluatedIsMonitored DEF RollStart, NoSignal
  <2>2. rows' = rows /\ call'.op \in {"close", "roll"} /\ call'.trade = t
    BY <1>18 DEF RollStart, NoSignal, Start, bookVars
  <2> QED
    BY <2>1, <2>2 DEF HeldInv, Monitored, Visible, Stuck
<1>19. ASSUME NEW t \in Trade, EnterFilled(t) PROVE HeldInv'
  <2>1. call'.op = "none"
    BY <1>19, <1>n DEF EnterFilled
  <2> QED
    BY <2>1 DEF HeldInv
<1>20. ASSUME NEW t \in Trade, EnterRejected(t) PROVE HeldInv'
  BY <1>f, <1>c, <1>n, <1>20
     DEF EnterRejected, Waiting, HeldInv, Monitored, Visible, Stuck
<1>21. ASSUME NEW t \in Trade, EnterRaised(t) PROVE HeldInv'
  BY <1>f, <1>c, <1>n, <1>21
     DEF EnterRaised, Waiting, AbortScan, HeldInv, Monitored, Visible, Stuck
<1>22. ASSUME NEW t \in Trade, EnterUnrecorded(t) PROVE HeldInv'
  BY <1>f, <1>c, <1>n, <1>22
     DEF EnterUnrecorded, Waiting, AbortScan, HeldInv, Monitored, Visible,
         Stuck
<1>23. ASSUME NEW t \in Trade, CloseFilled(t) PROVE HeldInv'
  <2>1. call'.op = "none"
    BY <1>23, <1>n DEF CloseFilled
  <2> QED
    BY <2>1 DEF HeldInv
<1>24. ASSUME NEW t \in Trade, CloseUnrecorded(t) PROVE HeldInv'
  BY <1>f, <1>c, <1>n, <1>24
     DEF CloseUnrecorded, Waiting, Done, HeldInv, Monitored, Visible, Stuck
<1>25. ASSUME NEW t \in Trade, CloseFailed(t) PROVE HeldInv'
  BY <1>f, <1>c, <1>n, <1>25
     DEF CloseFailed, Waiting, Done, HeldInv, Monitored, Visible, Stuck
<1>26. ASSUME NEW t \in Trade, DrainCloseFailed(t) PROVE HeldInv'
  BY <1>f, <1>c, <1>n, <1>26
     DEF DrainCloseFailed, Waiting, Done, HeldInv, Monitored, Visible, Stuck
<1>27. ASSUME NEW t \in Trade, RollCapCloseFailed(t) PROVE HeldInv'
  <2>1. MarkStuck(t) /\ Monitored(t)
    BY <1>27, TradedIsMonitored DEF RollCapCloseFailed
  <2>2. call'.op = "none" \/ (call'.op = "alert" /\ call'.trade = t)
    BY <2>1, MarkStuckCall
  <2>3. rows' = rows \/ rows' = [rows EXCEPT ![t] = StickRow(rows[t])]
    BY <2>1 DEF MarkStuck
  <2>4. rows'[t].result = rows[t].result
    BY <2>3, <1>f DEF StickRow, Row
  <2> QED
    BY <2>1, <2>2, <2>4 DEF HeldInv, Monitored, Visible, OpenResults
<1>28. ASSUME NEW t \in Trade, RollFilled(t) PROVE HeldInv'
  <2>1. call'.op = "none"
    BY <1>28, <1>n DEF RollFilled, Rolled
  <2> QED
    BY <2>1 DEF HeldInv
<1>29. ASSUME NEW t \in Trade, RollUnrecorded(t) PROVE HeldInv'
  BY <1>f, <1>c, <1>n, <1>29
     DEF RollUnrecorded, Rolled, Waiting, Done, HeldInv, Monitored, Visible,
         Stuck
<1>30. ASSUME NEW t \in Trade, RollFailed(t) PROVE HeldInv'
  BY <1>f, <1>c, <1>n, <1>30
     DEF RollFailed, Waiting, Done, HeldInv, Monitored, Visible, Stuck
<1>31. ASSUME NEW t \in Trade, AlertStuck(t) PROVE HeldInv'
  BY <1>f, <1>c, <1>n, <1>31
     DEF AlertStuck, Waiting, Done, HeldInv, Monitored, Visible, Stuck
<1>32. CASE ScanFinish
  BY <1>f, <1>c, <1>n, <1>32
     DEF ScanFinish, HeldInv, Monitored, Visible, Stuck, Waiting
<1>33. CASE MonitorFinish
  BY <1>f, <1>c, <1>n, <1>33
     DEF MonitorFinish, HeldInv, Monitored, Visible, Stuck, Waiting
<1>34. CASE StopBot
  BY <1>f, <1>c, <1>n, <1>34
     DEF StopBot, HeldInv, Monitored, Visible, Stuck, Waiting
<1>35. CASE StartBot
  BY <1>f, <1>c, <1>n, <1>35
     DEF StartBot, Resume, HeldInv, Monitored, Visible, Stuck, Waiting
<1>36. CASE StartDrain
  BY <1>f, <1>c, <1>n, <1>36
     DEF StartDrain, Resume, HeldInv, Monitored, Visible, Stuck, Waiting
<1>37. CASE StartWithAssets
  BY <1>f, <1>c, <1>n, <1>37
     DEF StartWithAssets, Resume, HeldInv, Monitored, Visible, Stuck, Waiting
<1>38. CASE DrainAndNew
  BY <1>f, <1>c, <1>n, <1>38
     DEF DrainAndNew, Resume, HeldInv, Monitored, Visible, Stuck, Waiting
<1>39. ASSUME NEW t \in Trade, Close(t) PROVE HeldInv'
  <2>1. rows' = [rows EXCEPT ![t] = ResetRow(rows[t])]
    BY <1>39 DEF Close
  <2>2. /\ call' = call /\ todo' = todo
        /\ rows[t].result # "none" /\ Stuck(t)
    BY <1>39 DEF Close, tickVars
  <2>3. rows'[t].result # "none"
    BY <2>1, <2>2, <1>f DEF ResetRow, Row
  <2>4. \A u \in Trade : u # t => rows'[u] = rows[u]
    BY <2>1, <1>f
  <2> QED
    BY <2>2, <2>3, <2>4, <1>c DEF HeldInv, Monitored, Visible, Stuck
<1>40. ASSUME NEW t \in Trade, CloseManually(t) PROVE HeldInv'
  <2>1. PICK pnl \in ClosePnl : rows' = [rows EXCEPT ![t] = ManualRow(rows[t], pnl)]
    BY <1>40 DEF CloseManually
  <2>2. /\ call' = call /\ todo' = todo
        /\ rows[t].result # "none" /\ Stuck(t)
    BY <1>40 DEF CloseManually, tickVars
  <2>3. rows'[t].result # "none"
    BY <2>1, <2>2, <1>f DEF ManualRow, Row
  <2>4. \A u \in Trade : u # t => rows'[u] = rows[u]
    BY <2>1, <1>f
  <2> QED
    BY <2>2, <2>3, <2>4, <1>c DEF HeldInv, Monitored, Visible, Stuck
<1>41. ASSUME NEW t \in Trade, OperatorFlattens(t) PROVE HeldInv'
  BY <1>f, <1>c, <1>n, <1>41
     DEF OperatorFlattens, HeldInv, Monitored, Visible, Stuck, Waiting
<1>42. CASE NewDay
  BY <1>f, <1>c, <1>n, <1>42
     DEF NewDay, HeldInv, Monitored, Visible, Stuck, Waiting
<1>43. CASE Crash
  BY <1>f, <1>c, <1>n, <1>43
     DEF Crash, HeldInv, Monitored, Visible, Stuck, Waiting
<1>44. CASE UNCHANGED vars
  BY <1>44 DEF vars, HeldInv, Monitored, Visible, Stuck, Waiting
<1> QED
  BY <1>1, <1>2, <1>3, <1>4, <1>5, <1>6, <1>7, <1>8, <1>9, <1>10, <1>11, <1>12,
     <1>13, <1>14, <1>15, <1>16, <1>17, <1>18, <1>19, <1>20, <1>21, <1>22,
     <1>23, <1>24, <1>25, <1>26, <1>27, <1>28, <1>29, <1>30, <1>31, <1>32,
     <1>33, <1>34, <1>35, <1>36, <1>37, <1>38, <1>39, <1>40, <1>41, <1>42,
     <1>43, <1>44
     DEF Next, TickStep, Evaluate, Return, Command

(* The counter stays behind the history of failures. *)
LEMMA CountStep ==
  ASSUME TypeOK, Disciplined, CallInv, RowInv, TodoInv, HeldInv, CountInv, LateInv, [Next]_vars
  PROVE  CountInv'
<1>f. rows \in [Trade -> Row] /\ failures \in [Trade -> 0..RetryCap] /\ tries \in [Trade -> 0..RetryCap]
  BY DEF TypeOK, BookType, MemoryType, HistoryType
<1>g. \A u \in Trade : failures[u] \in 0..RetryCap /\ tries[u] \in 0..RetryCap
  BY <1>f
<1>h. \A u \in Trade : CountAt(u)
  BY DEF CountInv
<1>q. CASE rows' = rows /\ failures' = failures /\ tries' = tries
  BY <1>q, <1>h, CountKept, StuckAt DEF CountInv
<1>1. CASE ScanSkipped
  <2>1. PICK S \in SUBSET Trade :
          /\ \A u \in S : Stuck(u) /\ rows[u].result \in OpenResults
          /\ rows' = [u \in Trade |-> IF u \in S THEN ReconcileRow(rows[u]) ELSE rows[u]]
          /\ Retire(S)
    BY <1>1, SyncedStuck DEF ScanSkipped
  <2>2. failures' = failures /\ tries' = Cleared(tries, S)
    BY <1>1, <2>1 DEF ScanSkipped, Retire
  <2>3. ASSUME NEW u \in S PROVE failures[u] = 0 /\ ~ Stuck(u)'
    <3>1. u \in Trade /\ Stuck(u) /\ rows[u] \in Row /\ rows'[u] = ReconcileRow(rows[u])
      BY <2>1, <1>f
    <3>2. rows'[u].close_status = "closed"
      BY <3>1 DEF ReconcileRow, Row
    <3> QED BY <3>1, <3>2, <1>h DEF Stuck, CountAt
  <2>4. \A u \in Trade : IF u \in S
                         THEN failures'[u] = 0 /\ tries'[u] = 0 /\ ~ Stuck(u)'
                         ELSE /\ failures'[u] = failures[u]
                              /\ tries'[u] = tries[u]
                              /\ rows'[u] = rows[u]
    BY <2>1, <2>2, <2>3, <1>f, ClearedAt
  <2> QED
    BY <2>4, <1>h, CountKept, StuckAt DEF CountInv
<1>2. CASE ScanStart
  <2>1. PICK S \in SUBSET Trade :
          /\ \A u \in S : Stuck(u) /\ rows[u].result \in OpenResults
          /\ rows' = [u \in Trade |-> IF u \in S THEN ReconcileRow(rows[u]) ELSE rows[u]]
          /\ Retire(S)
    BY <1>2, SyncedStuck DEF ScanStart
  <2>2. failures' = failures /\ tries' = Cleared(tries, S)
    BY <1>2, <2>1 DEF ScanStart, Retire
  <2>3. ASSUME NEW u \in S PROVE failures[u] = 0 /\ ~ Stuck(u)'
    <3>1. u \in Trade /\ Stuck(u) /\ rows[u] \in Row /\ rows'[u] = ReconcileRow(rows[u])
      BY <2>1, <1>f
    <3>2. rows'[u].close_status = "closed"
      BY <3>1 DEF ReconcileRow, Row
    <3> QED BY <3>1, <3>2, <1>h DEF Stuck, CountAt
  <2>4. \A u \in Trade : IF u \in S
                         THEN failures'[u] = 0 /\ tries'[u] = 0 /\ ~ Stuck(u)'
                         ELSE /\ failures'[u] = failures[u]
                              /\ tries'[u] = tries[u]
                              /\ rows'[u] = rows[u]
    BY <2>1, <2>2, <2>3, <1>f, ClearedAt
  <2> QED
    BY <2>4, <1>h, CountKept, StuckAt DEF CountInv
<1>3. CASE MonitorEmpty
  <2>1. \A u \in Trade : /\ failures'[u] = failures[u] \/ failures'[u] = 0
                         /\ tries'[u] = tries[u]
                         /\ rows'[u] = rows[u]
    BY <1>3, ClearedAt DEF MonitorEmpty, Zeros, bookVars, histVars
  <2> QED
    BY <2>1, <1>h, CountKept, StuckAt DEF CountInv
<1>4. ASSUME NEW t \in Trade, ExpiredStuck(t) PROVE CountInv'
  <2>1. MarkStuck(t) /\ tries' = tries
    BY <1>4 DEF ExpiredStuck
  <2>2. Exhausted(t)
    BY <1>4 DEF ExpiredStuck
  <2>3. tries[t] = RetryCap
    BY <2>2, <1>g, <1>h, Numbers DEF Exhausted, CountAt
  <2>4. CASE rows' = rows /\ failures' = failures
    BY <2>1, <2>4, <1>h, CountKept, StuckAt DEF CountInv
  <2>5. CASE /\ rows' = [rows EXCEPT ![t] = StickRow(rows[t])]
             /\ failures' = Cleared(failures, {t})
    <3>1. \A u \in Trade : IF u = t
                           THEN failures'[u] = 0 /\ tries'[u] = RetryCap
                           ELSE /\ failures'[u] = failures[u]
                                /\ tries'[u] = tries[u]
                                /\ rows'[u] = rows[u]
      BY <2>1, <2>3, <2>5, <1>f, ClearedAt
    <3> QED
      BY <3>1, <1>h, CountKept, StuckAt DEF CountInv
  <2> QED
    BY <2>1, <2>4, <2>5 DEF MarkStuck
<1>5. ASSUME NEW t \in Trade, SignalStuck(t) PROVE CountInv'
  <2>1. MarkStuck(t) /\ tries' = tries
    BY <1>5 DEF SignalStuck
  <2>2. Exhausted(t)
    BY <1>5 DEF SignalStuck
  <2>3. tries[t] = RetryCap
    BY <2>2, <1>g, <1>h, Numbers DEF Exhausted, CountAt
  <2>4. CASE rows' = rows /\ failures' = failures
    BY <2>1, <2>4, <1>h, CountKept, StuckAt DEF CountInv
  <2>5. CASE /\ rows' = [rows EXCEPT ![t] = StickRow(rows[t])]
             /\ failures' = Cleared(failures, {t})
    <3>1. \A u \in Trade : IF u = t
                           THEN failures'[u] = 0 /\ tries'[u] = RetryCap
                           ELSE /\ failures'[u] = failures[u]
                                /\ tries'[u] = tries[u]
                                /\ rows'[u] = rows[u]
      BY <2>1, <2>3, <2>5, <1>f, ClearedAt
    <3> QED
      BY <3>1, <1>h, CountKept, StuckAt DEF CountInv
  <2> QED
    BY <2>1, <2>4, <2>5 DEF MarkStuck
<1>6. ASSUME NEW t \in Trade, RollNoCandidate(t) PROVE CountInv'
  <2>1. ~ Stuck(t) /\ rows' = rows /\ failures[t] <= tries[t]
    BY <1>6, <1>h, EvaluatedIsMonitored DEF RollNoCandidate, NoSignal, Monitored, bookVars, CountAt
  <2>2. /\ failures' = [failures EXCEPT ![t] = OneMore(failures[t])]
        /\ tries' = [tries EXCEPT ![t] = OneMore(tries[t])]
    BY <1>6 DEF RollNoCandidate
  <2>3. OneMore(failures[t]) <= OneMore(tries[t])
    BY <2>1, <1>g, OneMoreMonotone
  <2>4. \A u \in Trade : IF u = t
                         THEN failures'[u] <= tries'[u] /\ ~ Stuck(u)'
                         ELSE /\ failures'[u] = failures[u]
                              /\ tries'[u] = tries[u]
                              /\ rows'[u] = rows[u]
    BY <2>1, <2>2, <2>3, <1>f DEF Stuck
  <2> QED
    BY <2>4, <1>h, CountKept, StuckAt DEF CountInv
<1>7. ASSUME NEW t \in Trade, EnterFilled(t) PROVE CountInv'
  <2>1. PICK days \in EntryDays : rows' = [rows EXCEPT ![t] = InsertRow(days)]
    BY <1>7 DEF EnterFilled
  <2>2. failures' = failures /\ tries' = tries
    BY <1>7 DEF EnterFilled
  <2>3. ~ Stuck(t)'
    BY <2>1, <1>f, RowFields DEF Stuck
  <2>4. \A u \in Trade : /\ failures'[u] = failures[u]
                         /\ tries'[u] = tries[u]
                         /\ u # t => rows'[u] = rows[u]
    BY <2>1, <2>2, <1>f
  <2> QED
    BY <2>3, <2>4, <1>h, CountKept, StuckAt DEF CountInv
<1>8. ASSUME NEW t \in Trade, CloseFilled(t) PROVE CountInv'
  <2>1. PICK pnl : rows' = [rows EXCEPT ![t] = CloseRow(rows[t], pnl)]
    BY <1>8 DEF CloseFilled
  <2>2. failures' = Cleared(failures, {t}) /\ tries' = Cleared(tries, {t})
    BY <1>8 DEF CloseFilled, Retire
  <2>r. rows[t] \in Row /\ rows'[t] = CloseRow(rows[t], pnl)
    BY <2>1, <1>f
  <2>s. ~ Stuck(t)'
    BY <2>r DEF Stuck, CloseRow, Row
  <2>3. \A u \in Trade : IF u = t
                         THEN failures'[u] = 0 /\ tries'[u] = 0 /\ ~ Stuck(u)'
                         ELSE /\ failures'[u] = failures[u]
                              /\ tries'[u] = tries[u]
                              /\ rows'[u] = rows[u]
    BY <2>1, <2>2, <2>s, <1>f, ClearedAt
  <2> QED
    BY <2>3, <1>h, CountKept, StuckAt DEF CountInv
<1>9. ASSUME NEW t \in Trade, CloseFailed(t) PROVE CountInv'
  <2>1. ~ Stuck(t) /\ call.fc \in 0..RetryCap /\ call.fc <= tries[t] /\ rows' = rows
    BY <1>9, TradedIsMonitored
       DEF CloseFailed, Waiting, LateInv, Monitored, TypeOK, TickType, Calls, bookVars
  <2>2. /\ failures' = [failures EXCEPT ![t] = OneMore(call.fc)]
        /\ tries' = [tries EXCEPT ![t] = OneMore(tries[t])]
    BY <1>9 DEF CloseFailed
  <2>3. OneMore(call.fc) <= OneMore(tries[t])
    BY <2>1, <1>g, OneMoreMonotone
  <2>4. \A u \in Trade : IF u = t
                         THEN failures'[u] <= tries'[u] /\ ~ Stuck(u)'
                         ELSE /\ failures'[u] = failures[u]
                              /\ tries'[u] = tries[u]
                              /\ rows'[u] = rows[u]
    BY <2>1, <2>2, <2>3, <1>f DEF Stuck
  <2> QED
    BY <2>4, <1>h, CountKept, StuckAt DEF CountInv
<1>10. ASSUME NEW t \in Trade, RollCapCloseFailed(t) PROVE CountInv'
  <2>1. MarkStuck(t) /\ tries' = tries
    BY <1>10 DEF RollCapCloseFailed
  <2>3. tries[t] = RetryCap
    BY <1>10 DEF RollCapCloseFailed, Waiting, LateInv
  <2>4. CASE rows' = rows /\ failures' = failures
    BY <2>1, <2>4, <1>h, CountKept, StuckAt DEF CountInv
  <2>5. CASE /\ rows' = [rows EXCEPT ![t] = StickRow(rows[t])]
             /\ failures' = Cleared(failures, {t})
    <3>1. \A u \in Trade : IF u = t
                           THEN failures'[u] = 0 /\ tries'[u] = RetryCap
                           ELSE /\ failures'[u] = failures[u]
                                /\ tries'[u] = tries[u]
                                /\ rows'[u] = rows[u]
      BY <2>1, <2>3, <2>5, <1>f, ClearedAt
    <3> QED
      BY <3>1, <1>h, CountKept, StuckAt DEF CountInv
  <2> QED
    BY <2>1, <2>4, <2>5 DEF MarkStuck
<1>11. ASSUME NEW t \in Trade, RollFilled(t) PROVE CountInv'
  <2>1. PICK pnl : Rolled(t, pnl) /\ rows' = [rows EXCEPT ![t] = RollRow(rows[t], pnl)]
    BY <1>11 DEF RollFilled
  <2>2. failures' = Cleared(failures, {t}) /\ tries' = Cleared(tries, {t})
    BY <2>1 DEF Rolled
  <2>m. ~ Stuck(t)
    BY <2>1, TradedIsMonitored DEF Rolled, Monitored
  <2>s. ~ Stuck(t)'
    BY <2>1, <2>m, <1>f DEF Stuck, RollRow, Row
  <2>3. \A u \in Trade : IF u = t
                         THEN failures'[u] = 0 /\ tries'[u] = 0 /\ ~ Stuck(u)'
                         ELSE /\ failures'[u] = failures[u]
                              /\ tries'[u] = tries[u]
                              /\ rows'[u] = rows[u]
    BY <2>1, <2>2, <2>s, <1>f, ClearedAt
  <2> QED
    BY <2>3, <1>h, CountKept, StuckAt DEF CountInv
<1>12. ASSUME NEW t \in Trade, RollUnrecorded(t) PROVE CountInv'
  <2>1. PICK pnl \in RollPnl : Rolled(t, pnl)
    BY <1>12 DEF RollUnrecorded
  <2>2. /\ rows' = rows
        /\ failures' = Cleared(failures, {t}) /\ tries' = Cleared(tries, {t})
    BY <1>12, <2>1 DEF RollUnrecorded, Rolled
  <2>m. ~ Stuck(t)
    BY <2>1, TradedIsMonitored DEF Rolled, Monitored
  <2>s. ~ Stuck(t)'
    BY <2>2, <2>m DEF Stuck
  <2>3. \A u \in Trade : IF u = t
                         THEN failures'[u] = 0 /\ tries'[u] = 0 /\ ~ Stuck(u)'
                         ELSE /\ failures'[u] = failures[u]
                              /\ tries'[u] = tries[u]
                              /\ rows'[u] = rows[u]
    BY <2>1, <2>2, <2>s, <1>f, ClearedAt
  <2> QED
    BY <2>3, <1>h, CountKept, StuckAt DEF CountInv
<1>13. ASSUME NEW t \in Trade, RollFailed(t) PROVE CountInv'
  <2>1. ~ Stuck(t) /\ call.fc \in 0..RetryCap /\ call.fc <= tries[t] /\ rows' = rows
    BY <1>13, TradedIsMonitored
       DEF RollFailed, Waiting, LateInv, Monitored, TypeOK, TickType, Calls, bookVars
  <2>2. /\ failures' = [failures EXCEPT ![t] = OneMore(call.fc)]
        /\ tries' = [tries EXCEPT ![t] = OneMore(tries[t])]
    BY <1>13 DEF RollFailed
  <2>3. OneMore(call.fc) <= OneMore(tries[t])
    BY <2>1, <1>g, OneMoreMonotone
  <2>4. \A u \in Trade : IF u = t
                         THEN failures'[u] <= tries'[u] /\ ~ Stuck(u)'
                         ELSE /\ failures'[u] = failures[u]
                              /\ tries'[u] = tries[u]
                              /\ rows'[u] = rows[u]
    BY <2>1, <2>2, <2>3, <1>f DEF Stuck
  <2> QED
    BY <2>4, <1>h, CountKept, StuckAt DEF CountInv
<1>14. CASE MonitorFinish
  <2>1. \A u \in Trade : /\ failures'[u] = failures[u] \/ failures'[u] = 0
                         /\ tries'[u] = tries[u]
                         /\ rows'[u] = rows[u]
    BY <1>14, ClearedAt DEF MonitorFinish, Zeros, bookVars, histVars
  <2> QED
    BY <2>1, <1>h, CountKept, StuckAt DEF CountInv
<1>15. ASSUME NEW t \in Trade, Close(t) PROVE CountInv'
  <2>1. rows' = [rows EXCEPT ![t] = ResetRow(rows[t])]
    BY <1>15 DEF Close
  <2>2. failures' = Cleared(failures, {t}) /\ tries' = Cleared(tries, {t})
    BY <1>15 DEF Close
  <2>r. rows[t] \in Row /\ rows'[t] = ResetRow(rows[t])
    BY <2>1, <1>f
  <2>s. ~ Stuck(t)'
    BY <2>r DEF Stuck, ResetRow, Row
  <2>3. \A u \in Trade : IF u = t
                         THEN failures'[u] = 0 /\ tries'[u] = 0 /\ ~ Stuck(u)'
                         ELSE /\ failures'[u] = failures[u]
                              /\ tries'[u] = tries[u]
                              /\ rows'[u] = rows[u]
    BY <2>1, <2>2, <2>s, <1>f, ClearedAt
  <2> QED
    BY <2>3, <1>h, CountKept, StuckAt DEF CountInv
<1>16. ASSUME NEW t \in Trade, CloseManually(t) PROVE CountInv'
  <2>1. PICK pnl : rows' = [rows EXCEPT ![t] = ManualRow(rows[t], pnl)]
    BY <1>16 DEF CloseManually
  <2>2. failures' = failures /\ tries' = Cleared(tries, {t}) /\ failures[t] = 0
    BY <1>16, <1>h DEF CloseManually, Retire, CountAt
  <2>r. rows[t] \in Row /\ rows'[t] = ManualRow(rows[t], pnl)
    BY <2>1, <1>f
  <2>s. ~ Stuck(t)'
    BY <2>r DEF Stuck, ManualRow, Row
  <2>3. \A u \in Trade : IF u = t
                         THEN failures'[u] = 0 /\ tries'[u] = 0 /\ ~ Stuck(u)'
                         ELSE /\ failures'[u] = failures[u]
                              /\ tries'[u] = tries[u]
                              /\ rows'[u] = rows[u]
    BY <2>1, <2>2, <2>s, <1>f, ClearedAt
  <2> QED
    BY <2>3, <1>h, CountKept, StuckAt DEF CountInv
<1>17. CASE Crash
  <2>1. \A u \in Trade : /\ failures'[u] = failures[u] \/ failures'[u] = 0
                         /\ tries'[u] = tries[u]
                         /\ rows'[u] = rows[u]
    BY <1>17, ClearedAt DEF Crash, Zeros, bookVars, histVars
  <2> QED
    BY <2>1, <1>h, CountKept, StuckAt DEF CountInv
<1> QED
  BY <1>q, <1>1, <1>2, <1>3, <1>4, <1>5, <1>6, <1>7, <1>8, <1>9, <1>10, <1>11,
     <1>12, <1>13, <1>14, <1>15, <1>16, <1>17, Effects

(* So does the counter that waits in the executor. *)
LEMMA LateStep ==
  ASSUME TypeOK, Disciplined, CallInv, HeldInv, CountInv, LateInv, [Next]_vars
  PROVE  LateInv'
<1> USE DEF bookVars, memVars, configVars, tickVars, histVars
<1>g. \A u \in Trade : failures[u] \in 0..RetryCap /\ tries[u] \in 0..RetryCap
  BY DEF TypeOK, MemoryType, HistoryType
<1>c. (call.op # "none" => call.trade \in Trade) /\ (tick = "none" => call.op = "none")
  BY DEF CallInv
<1>n. NoCall.op = "none"
  BY DEF NoCall
<1>1. CASE HaltOnLoss
  <2>1. call'.op \notin {"close", "roll"}
    BY <1>1, <1>c, <1>n DEF HaltOnLoss, TickMayStart, tickVars
  <2> QED
    BY <2>1 DEF LateInv
<1>2. CASE ScanSkipped
  <2>1. call'.op \notin {"close", "roll"}
    BY <1>2, <1>c, <1>n DEF ScanSkipped, TickMayStart, tickVars
  <2> QED
    BY <2>1 DEF LateInv
<1>3. CASE ScanStart
  <2>1. call'.op \notin {"close", "roll"}
    BY <1>3, <1>c, <1>n DEF ScanStart, TickMayStart, tickVars
  <2> QED
    BY <2>1 DEF LateInv
<1>4. CASE MonitorEmpty
  <2>1. call'.op \notin {"close", "roll"}
    BY <1>4, <1>c, <1>n DEF MonitorEmpty, TickMayStart, tickVars
  <2> QED
    BY <2>1 DEF LateInv
<1>5. CASE MonitorStart
  <2>1. call'.op \notin {"close", "roll"}
    BY <1>5, <1>c, <1>n DEF MonitorStart, TickMayStart, tickVars
  <2> QED
    BY <2>1 DEF LateInv
<1>6. ASSUME NEW t \in Trade, ScanEnter(t) PROVE LateInv'
  <2>1. call'.op \notin {"close", "roll"}
    BY <1>6, <1>c, <1>n DEF ScanEnter, Start
  <2> QED
    BY <2>1 DEF LateInv
<1>7. ASSUME NEW t \in Trade, HoldEntered(t) PROVE LateInv'
  <2>1. call'.op \notin {"close", "roll"}
    BY <1>7, <1>c, <1>n DEF HoldEntered
  <2> QED
    BY <2>1 DEF LateInv
<1>8. ASSUME NEW t \in Trade, NoMarketData(t) PROVE LateInv'
  <2>1. call'.op \notin {"close", "roll"}
    BY <1>8, <1>c, <1>n DEF NoMarketData, Evaluating
  <2> QED
    BY <2>1 DEF LateInv
<1>9. ASSUME NEW t \in Trade, ExpiredClose(t) PROVE LateInv'
  <2>1. /\ tries' = tries
        /\ call' = [op |-> "close", trade |-> t, why |-> "expired", fc |-> failures[t]]
    BY <1>9 DEF ExpiredClose, Start, histVars
  <2>2. failures[t] <= tries[t]
    BY DEF CountInv, CountAt
  <2> QED
    BY <2>1, <2>2 DEF LateInv
<1>10. ASSUME NEW t \in Trade, ExpiredStuck(t) PROVE LateInv'
  <2>1. call'.op \notin {"close", "roll"}
    BY <1>10, <1>c, <1>n, MarkStuckCall DEF ExpiredStuck
  <2> QED
    BY <2>1 DEF LateInv
<1>11. ASSUME NEW t \in Trade, SignalPending(t) PROVE LateInv'
  <2>1. call'.op \notin {"close", "roll"}
    BY <1>11, <1>c, <1>n DEF SignalPending, Evaluating
  <2> QED
    BY <2>1 DEF LateInv
<1>12. ASSUME NEW t \in Trade, SignalClose(t) PROVE LateInv'
  <2>1. /\ tries' = tries
        /\ call' = [op |-> "close", trade |-> t, why |-> "signal", fc |-> failures[t]]
    BY <1>12 DEF SignalClose, Start
  <2>2. failures[t] <= tries[t]
    BY DEF CountInv, CountAt
  <2> QED
    BY <2>1, <2>2 DEF LateInv
<1>13. ASSUME NEW t \in Trade, SignalStuck(t) PROVE LateInv'
  <2>1. call'.op \notin {"close", "roll"}
    BY <1>13, <1>c, <1>n, MarkStuckCall DEF SignalStuck
  <2> QED
    BY <2>1 DEF LateInv
<1>14. ASSUME NEW t \in Trade, Hold(t) PROVE LateInv'
  <2>1. call'.op \notin {"close", "roll"}
    BY <1>14, <1>c, <1>n DEF Hold, Evaluating, NoSignal
  <2> QED
    BY <2>1 DEF LateInv
<1>15. ASSUME NEW t \in Trade, DrainClose(t) PROVE LateInv'
  <2>1. /\ tries' = tries
        /\ call' = [op |-> "close", trade |-> t, why |-> "drain", fc |-> failures[t]]
    BY <1>15 DEF DrainClose, NoSignal, Start
  <2>2. failures[t] <= tries[t]
    BY DEF CountInv, CountAt
  <2> QED
    BY <2>1, <2>2 DEF LateInv
<1>16. ASSUME NEW t \in Trade, RollCapClose(t) PROVE LateInv'
  <2>1. /\ tries' = tries
        /\ call' = [op |-> "close", trade |-> t, why |-> "roll cap", fc |-> failures[t]]
    BY <1>16 DEF RollCapClose, NoSignal, Start
  <2>2. failures[t] <= tries[t]
    BY DEF CountInv, CountAt
  <2>3. tries[t] = RetryCap
    <3>1. Exhausted(t)
      BY <1>16 DEF RollCapClose
    <3> QED
      BY <3>1, <1>g, Numbers DEF Exhausted, CountInv, CountAt
  <2> QED
    BY <2>1, <2>2, <2>3 DEF LateInv
<1>17. ASSUME NEW t \in Trade, RollNoCandidate(t) PROVE LateInv'
  <2>1. call'.op \notin {"close", "roll"}
    BY <1>17, <1>c, <1>n DEF RollNoCandidate, Evaluating, NoSignal
  <2> QED
    BY <2>1 DEF LateInv
<1>18. ASSUME NEW t \in Trade, RollStart(t) PROVE LateInv'
  <2>1. /\ tries' = tries
        /\ call' = [op |-> "roll", trade |-> t, why |-> "none", fc |-> failures[t]]
    BY <1>18 DEF RollStart, NoSignal, Start
  <2>2. failures[t] <= tries[t]
    BY DEF CountInv, CountAt
  <2> QED
    BY <2>1, <2>2 DEF LateInv
<1>19. ASSUME NEW t \in Trade, EnterFilled(t) PROVE LateInv'
  <2>1. call'.op \notin {"close", "roll"}
    BY <1>19, <1>c, <1>n DEF EnterFilled
  <2> QED
    BY <2>1 DEF LateInv
<1>20. ASSUME NEW t \in Trade, EnterRejected(t) PROVE LateInv'
  <2>1. call'.op \notin {"close", "roll"}
    BY <1>20, <1>c, <1>n DEF EnterRejected
  <2> QED
    BY <2>1 DEF LateInv
<1>21. ASSUME NEW t \in Trade, EnterRaised(t) PROVE LateInv'
  <2>1. call'.op \notin {"close", "roll"}
    BY <1>21, <1>c, <1>n DEF EnterRaised, AbortScan
  <2> QED
    BY <2>1 DEF LateInv
<1>22. ASSUME NEW t \in Trade, EnterUnrecorded(t) PROVE LateInv'
  <2>1. call'.op \notin {"close", "roll"}
    BY <1>22, <1>c, <1>n DEF EnterUnrecorded, AbortScan
  <2> QED
    BY <2>1 DEF LateInv
<1>23. ASSUME NEW t \in Trade, CloseFilled(t) PROVE LateInv'
  <2>1. call'.op \notin {"close", "roll"}
    BY <1>23, <1>c, <1>n DEF CloseFilled
  <2> QED
    BY <2>1 DEF LateInv
<1>24. ASSUME NEW t \in Trade, CloseUnrecorded(t) PROVE LateInv'
  <2>1. call'.op \notin {"close", "roll"}
    BY <1>24, <1>c, <1>n DEF CloseUnrecorded
  <2> QED
    BY <2>1 DEF LateInv
<1>25. ASSUME NEW t \in Trade, CloseFailed(t) PROVE LateInv'
  <2>1. call'.op \notin {"close", "roll"}
    BY <1>25, <1>c, <1>n DEF CloseFailed
  <2> QED
    BY <2>1 DEF LateInv
<1>26. ASSUME NEW t \in Trade, DrainCloseFailed(t) PROVE LateInv'
  <2>1. call'.op \notin {"close", "roll"}
    BY <1>26, <1>c, <1>n DEF DrainCloseFailed
  <2> QED
    BY <2>1 DEF LateInv
<1>27. ASSUME NEW t \in Trade, RollCapCloseFailed(t) PROVE LateInv'
  <2>1. call'.op \notin {"close", "roll"}
    BY <1>27, <1>c, <1>n, MarkStuckCall DEF RollCapCloseFailed
  <2> QED
    BY <2>1 DEF LateInv
<1>28. ASSUME NEW t \in Trade, RollFilled(t) PROVE LateInv'
  <2>1. call'.op \notin {"close", "roll"}
    BY <1>28, <1>c, <1>n DEF RollFilled, Rolled
  <2> QED
    BY <2>1 DEF LateInv
<1>29. ASSUME NEW t \in Trade, RollUnrecorded(t) PROVE LateInv'
  <2>1. call'.op \notin {"close", "roll"}
    BY <1>29, <1>c, <1>n DEF RollUnrecorded, Rolled
  <2> QED
    BY <2>1 DEF LateInv
<1>30. ASSUME NEW t \in Trade, RollFailed(t) PROVE LateInv'
  <2>1. call'.op \notin {"close", "roll"}
    BY <1>30, <1>c, <1>n DEF RollFailed
  <2> QED
    BY <2>1 DEF LateInv
<1>31. ASSUME NEW t \in Trade, AlertStuck(t) PROVE LateInv'
  <2>1. call'.op \notin {"close", "roll"}
    BY <1>31, <1>c, <1>n DEF AlertStuck
  <2> QED
    BY <2>1 DEF LateInv
<1>32. CASE ScanFinish
  <2>1. call'.op \notin {"close", "roll"}
    BY <1>32, <1>c, <1>n DEF ScanFinish
  <2> QED
    BY <2>1 DEF LateInv
<1>33. CASE MonitorFinish
  <2>1. call'.op \notin {"close", "roll"}
    BY <1>33, <1>c, <1>n DEF MonitorFinish
  <2> QED
    BY <2>1 DEF LateInv
<1>34. CASE StopBot
  <2>1. call' = call /\ tries' = tries
    BY <1>34 DEF StopBot, tickVars, histVars
  <2> QED
    BY <2>1 DEF LateInv
<1>35. CASE StartBot
  <2>1. call' = call /\ tries' = tries
    BY <1>35 DEF StartBot, Resume, tickVars, histVars
  <2> QED
    BY <2>1 DEF LateInv
<1>36. CASE StartDrain
  <2>1. call' = call /\ tries' = tries
    BY <1>36 DEF StartDrain, Resume, tickVars, histVars
  <2> QED
    BY <2>1 DEF LateInv
<1>37. CASE StartWithAssets
  <2>1. call' = call /\ tries' = tries
    BY <1>37 DEF StartWithAssets, Resume, tickVars, histVars
  <2> QED
    BY <2>1 DEF LateInv
<1>38. CASE DrainAndNew
  <2>1. call' = call /\ tries' = tries
    BY <1>38 DEF DrainAndNew, Resume, tickVars, histVars
  <2> QED
    BY <2>1 DEF LateInv
<1>39. ASSUME NEW t \in Trade, Close(t) PROVE LateInv'
  <2>1. call' = call /\ tries' = Cleared(tries, {t}) /\ Stuck(t)
    BY <1>39 DEF Close, tickVars
  <2>2. call.op \in {"close", "roll"} => call.trade # t /\ tries'[call.trade] = tries[call.trade]
    BY <2>1, <1>c, ClearedAt DEF HeldInv, Monitored
  <2> QED
    BY <2>1, <2>2 DEF LateInv
<1>40. ASSUME NEW t \in Trade, CloseManually(t) PROVE LateInv'
  <2>1. call' = call /\ tries' = Cleared(tries, {t}) /\ Stuck(t)
    BY <1>40 DEF CloseManually, Retire, tickVars
  <2>2. call.op \in {"close", "roll"} => call.trade # t /\ tries'[call.trade] = tries[call.trade]
    BY <2>1, <1>c, ClearedAt DEF HeldInv, Monitored
  <2> QED
    BY <2>1, <2>2 DEF LateInv
<1>41. ASSUME NEW t \in Trade, OperatorFlattens(t) PROVE LateInv'
  <2>1. call' = call /\ tries' = tries
    BY <1>41 DEF OperatorFlattens, tickVars, histVars
  <2> QED
    BY <2>1 DEF LateInv
<1>42. CASE NewDay
  <2>1. call' = call /\ tries' = tries
    BY <1>42 DEF NewDay, tickVars, histVars
  <2> QED
    BY <2>1 DEF LateInv
<1>43. CASE Crash
  <2>1. call'.op \notin {"close", "roll"}
    BY <1>43, <1>c, <1>n DEF Crash
  <2> QED
    BY <2>1 DEF LateInv
<1>44. CASE UNCHANGED vars
  BY <1>44 DEF vars, LateInv
<1> QED
  BY <1>1, <1>2, <1>3, <1>4, <1>5, <1>6, <1>7, <1>8, <1>9, <1>10, <1>11, <1>12,
     <1>13, <1>14, <1>15, <1>16, <1>17, <1>18, <1>19, <1>20, <1>21, <1>22,
     <1>23, <1>24, <1>25, <1>26, <1>27, <1>28, <1>29, <1>30, <1>31, <1>32,
     <1>33, <1>34, <1>35, <1>36, <1>37, <1>38, <1>39, <1>40, <1>41, <1>42,
     <1>43, <1>44
     DEF Next, TickStep, Evaluate, Return, Command

(* Alerts stay within one. *)
LEMMA AlertStep ==
  ASSUME TypeOK, Disciplined, CallInv, RowInv, TodoInv, HeldInv, AlertInv, [Next]_vars
  PROVE  AlertInv'
<1> USE DEF bookVars, memVars, configVars, tickVars, histVars
<1>f. /\ rows \in [Trade -> Row] /\ alerts \in [Trade -> -1..2]
      /\ \A u \in Trade : alerts[u] \in -1..2
  BY DEF TypeOK, BookType, HistoryType
<1>c. tick = "none" => call.op = "none"
  BY DEF CallInv
<1>n. NoCall.op = "none"
  BY DEF NoCall
<1>1. CASE HaltOnLoss
  BY <1>f, <1>c, <1>n, <1>1
     DEF HaltOnLoss, AlertInv, Alertable, Stuck, Waiting, Cleared
<1>2. CASE ScanSkipped
  <2>1. PICK S \in SUBSET Trade :
          /\ \A u \in S : Stuck(u) /\ rows[u].result \in OpenResults
          /\ rows' = [u \in Trade |-> IF u \in S THEN ReconcileRow(rows[u]) ELSE rows[u]]
          /\ Retire(S)
    BY <1>2, SyncedStuck DEF ScanSkipped
  <2>2. call' = call /\ alerts' = Cleared(alerts, S) /\ call.op = "none"
    BY <1>2, <2>1, <1>c DEF ScanSkipped, Retire, tickVars, TickMayStart
  <2> QED
    BY <2>1, <2>2, <1>f DEF AlertInv, Alertable, Stuck, Waiting, Cleared
<1>3. CASE ScanStart
  <2>1. PICK S \in SUBSET Trade :
          /\ \A u \in S : Stuck(u) /\ rows[u].result \in OpenResults
          /\ rows' = [u \in Trade |-> IF u \in S THEN ReconcileRow(rows[u]) ELSE rows[u]]
          /\ Retire(S)
    BY <1>3, SyncedStuck DEF ScanStart
  <2>2. call' = call /\ alerts' = Cleared(alerts, S) /\ call.op = "none"
    BY <1>3, <2>1, <1>c DEF ScanStart, Retire, tickVars, TickMayStart
  <2> QED
    BY <2>1, <2>2, <1>f DEF AlertInv, Alertable, Stuck, Waiting, Cleared
<1>4. CASE MonitorEmpty
  BY <1>f, <1>c, <1>n, <1>4
     DEF MonitorEmpty, AlertInv, Alertable, Stuck, Waiting, Cleared
<1>5. CASE MonitorStart
  BY <1>f, <1>c, <1>n, <1>5
     DEF MonitorStart, AlertInv, Alertable, Stuck, Waiting, Cleared
<1>6. ASSUME NEW t \in Trade, ScanEnter(t) PROVE AlertInv'
  BY <1>f, <1>c, <1>n, <1>6
     DEF ScanEnter, Start, AlertInv, Alertable, Stuck, Waiting, Cleared
<1>7. ASSUME NEW t \in Trade, HoldEntered(t) PROVE AlertInv'
  BY <1>f, <1>c, <1>n, <1>7
     DEF HoldEntered, Done, AlertInv, Alertable, Stuck, Waiting, Cleared
<1>8. ASSUME NEW t \in Trade, NoMarketData(t) PROVE AlertInv'
  BY <1>f, <1>c, <1>n, <1>8
     DEF NoMarketData, Evaluating, Done, AlertInv, Alertable, Stuck, Waiting,
         Cleared
<1>9. ASSUME NEW t \in Trade, ExpiredClose(t) PROVE AlertInv'
  BY <1>f, <1>c, <1>n, <1>9
     DEF ExpiredClose, Evaluating, Start, AlertInv, Alertable, Stuck, Waiting,
         Cleared
<1>10. ASSUME NEW t \in Trade, ExpiredStuck(t) PROVE AlertInv'
  <2>1. MarkStuck(t) /\ Monitored(t) /\ alerts' = alerts
    BY <1>10, EvaluatedIsMonitored DEF ExpiredStuck
  <2>2. alerts[t] <= 0
    BY <2>1 DEF AlertInv, Alertable, Monitored, Visible, OpenResults, ClosedResults
  <2>3. call'.op = "none" \/ (call'.op = "alert" /\ call'.trade = t)
    BY <2>1, MarkStuckCall
  <2>4. CASE rows' = rows /\ call' = NoCall
    BY <2>1, <2>4, <1>n DEF AlertInv, Alertable, Stuck, Waiting
  <2>5. CASE rows' = [rows EXCEPT ![t] = StickRow(rows[t])]
    <3>1. StickRow(rows[t]).close_status = "close_stuck"
      BY <1>f, RowFields
    <3>2. ~ Alertable(t)' /\ \A u \in Trade : u # t => rows'[u] = rows[u]
      BY <3>1, <2>5, <1>f DEF Alertable, Stuck
    <3> QED
      BY <2>1, <2>2, <2>3, <3>2, <1>f DEF AlertInv, Alertable, Stuck, Waiting
  <2> QED
    BY <2>1, <2>4, <2>5 DEF MarkStuck
<1>11. ASSUME NEW t \in Trade, SignalPending(t) PROVE AlertInv'
  BY <1>f, <1>c, <1>n, <1>11
     DEF SignalPending, Evaluating, Done, AlertInv, Alertable, Stuck, Waiting,
         Cleared
<1>12. ASSUME NEW t \in Trade, SignalClose(t) PROVE AlertInv'
  BY <1>f, <1>c, <1>n, <1>12
     DEF SignalClose, Evaluating, Start, AlertInv, Alertable, Stuck, Waiting,
         Cleared
<1>13. ASSUME NEW t \in Trade, SignalStuck(t) PROVE AlertInv'
  <2>1. MarkStuck(t) /\ Monitored(t) /\ alerts' = alerts
    BY <1>13, EvaluatedIsMonitored DEF SignalStuck
  <2>2. alerts[t] <= 0
    BY <2>1 DEF AlertInv, Alertable, Monitored, Visible, OpenResults, ClosedResults
  <2>3. call'.op = "none" \/ (call'.op = "alert" /\ call'.trade = t)
    BY <2>1, MarkStuckCall
  <2>4. CASE rows' = rows /\ call' = NoCall
    BY <2>1, <2>4, <1>n DEF AlertInv, Alertable, Stuck, Waiting
  <2>5. CASE rows' = [rows EXCEPT ![t] = StickRow(rows[t])]
    <3>1. StickRow(rows[t]).close_status = "close_stuck"
      BY <1>f, RowFields
    <3>2. ~ Alertable(t)' /\ \A u \in Trade : u # t => rows'[u] = rows[u]
      BY <3>1, <2>5, <1>f DEF Alertable, Stuck
    <3> QED
      BY <2>1, <2>2, <2>3, <3>2, <1>f DEF AlertInv, Alertable, Stuck, Waiting
  <2> QED
    BY <2>1, <2>4, <2>5 DEF MarkStuck
<1>14. ASSUME NEW t \in Trade, Hold(t) PROVE AlertInv'
  BY <1>f, <1>c, <1>n, <1>14
     DEF Hold, NoSignal, Evaluating, Done, AlertInv, Alertable, Stuck, Waiting,
         Cleared
<1>15. ASSUME NEW t \in Trade, DrainClose(t) PROVE AlertInv'
  BY <1>f, <1>c, <1>n, <1>15
     DEF DrainClose, NoSignal, Evaluating, Start, AlertInv, Alertable, Stuck,
         Waiting, Cleared
<1>16. ASSUME NEW t \in Trade, RollCapClose(t) PROVE AlertInv'
  BY <1>f, <1>c, <1>n, <1>16
     DEF RollCapClose, NoSignal, Evaluating, Start, AlertInv, Alertable, Stuck,
         Waiting, Cleared
<1>17. ASSUME NEW t \in Trade, RollNoCandidate(t) PROVE AlertInv'
  BY <1>f, <1>c, <1>n, <1>17
     DEF RollNoCandidate, NoSignal, Evaluating, Done, AlertInv, Alertable,
         Stuck, Waiting, Cleared
<1>18. ASSUME NEW t \in Trade, RollStart(t) PROVE AlertInv'
  BY <1>f, <1>c, <1>n, <1>18
     DEF RollStart, NoSignal, Evaluating, Start, AlertInv, Alertable, Stuck,
         Waiting, Cleared
<1>19. ASSUME NEW t \in Trade, EnterFilled(t) PROVE AlertInv'
  <2>1. PICK days \in EntryDays : rows' = [rows EXCEPT ![t] = InsertRow(days)]
    BY <1>19 DEF EnterFilled
  <2>2. alerts' = alerts /\ call'.op = "none"
    BY <1>19, <1>n DEF EnterFilled
  <2>3. rows[t].result = "none" /\ ~ Stuck(t)
    BY <1>19 DEF EnterFilled, Waiting, HeldInv, RowInv, SoundRow, Stuck
  <2> QED
    BY <2>1, <2>2, <2>3, <1>f, RowFields DEF AlertInv, Alertable, Stuck, Waiting, ClosedResults
<1>20. ASSUME NEW t \in Trade, EnterRejected(t) PROVE AlertInv'
  BY <1>f, <1>c, <1>n, <1>20
     DEF EnterRejected, Waiting, AlertInv, Alertable, Stuck, Cleared
<1>21. ASSUME NEW t \in Trade, EnterRaised(t) PROVE AlertInv'
  BY <1>f, <1>c, <1>n, <1>21
     DEF EnterRaised, Waiting, AbortScan, AlertInv, Alertable, Stuck, Cleared
<1>22. ASSUME NEW t \in Trade, EnterUnrecorded(t) PROVE AlertInv'
  BY <1>f, <1>c, <1>n, <1>22
     DEF EnterUnrecorded, Waiting, AbortScan, AlertInv, Alertable, Stuck,
         Cleared
<1>23. ASSUME NEW t \in Trade, CloseFilled(t) PROVE AlertInv'
  <2>1. PICK pnl : rows' = [rows EXCEPT ![t] = CloseRow(rows[t], pnl)]
    BY <1>23 DEF CloseFilled
  <2>2. alerts' = Cleared(alerts, {t}) /\ call'.op = "none"
    BY <1>23, <1>n DEF CloseFilled, Retire
  <2> QED
    BY <2>1, <2>2, <1>f DEF AlertInv, Alertable, Stuck, Waiting, Cleared
<1>24. ASSUME NEW t \in Trade, CloseUnrecorded(t) PROVE AlertInv'
  BY <1>f, <1>c, <1>n, <1>24
     DEF CloseUnrecorded, Waiting, Done, AlertInv, Alertable, Stuck, Cleared
<1>25. ASSUME NEW t \in Trade, CloseFailed(t) PROVE AlertInv'
  BY <1>f, <1>c, <1>n, <1>25
     DEF CloseFailed, Waiting, Done, AlertInv, Alertable, Stuck, Cleared
<1>26. ASSUME NEW t \in Trade, DrainCloseFailed(t) PROVE AlertInv'
  BY <1>f, <1>c, <1>n, <1>26
     DEF DrainCloseFailed, Waiting, Done, AlertInv, Alertable, Stuck, Cleared
<1>27. ASSUME NEW t \in Trade, RollCapCloseFailed(t) PROVE AlertInv'
  <2>1. MarkStuck(t) /\ Monitored(t) /\ alerts' = alerts
    BY <1>27, TradedIsMonitored DEF RollCapCloseFailed
  <2>2. alerts[t] <= 0
    BY <2>1 DEF AlertInv, Alertable, Monitored, Visible, OpenResults, ClosedResults
  <2>3. call'.op = "none" \/ (call'.op = "alert" /\ call'.trade = t)
    BY <2>1, MarkStuckCall
  <2>4. CASE rows' = rows /\ call' = NoCall
    BY <2>1, <2>4, <1>n DEF AlertInv, Alertable, Stuck, Waiting
  <2>5. CASE rows' = [rows EXCEPT ![t] = StickRow(rows[t])]
    <3>1. StickRow(rows[t]).close_status = "close_stuck"
      BY <1>f, RowFields
    <3>2. ~ Alertable(t)' /\ \A u \in Trade : u # t => rows'[u] = rows[u]
      BY <3>1, <2>5, <1>f DEF Alertable, Stuck
    <3> QED
      BY <2>1, <2>2, <2>3, <3>2, <1>f DEF AlertInv, Alertable, Stuck, Waiting
  <2> QED
    BY <2>1, <2>4, <2>5 DEF MarkStuck
<1>28. ASSUME NEW t \in Trade, RollFilled(t) PROVE AlertInv'
  <2>1. PICK pnl : Rolled(t, pnl) /\ rows' = [rows EXCEPT ![t] = RollRow(rows[t], pnl)]
    BY <1>28 DEF RollFilled
  <2>2. alerts' = alerts /\ call'.op = "none"
    BY <2>1, <1>n DEF Rolled
  <2>3. Alertable(t)
    BY <2>1, TradedIsMonitored
       DEF Rolled, Monitored, Visible, Alertable, OpenResults, ClosedResults
  <2>4. rows[t] \in Row /\ rows'[t] = RollRow(rows[t], pnl)
        /\ \A u \in Trade : u # t => rows'[u] = rows[u]
    BY <2>1, <1>f
  <2>5. rows'[t].result = "Near Leg Rolled" /\ rows'[t].close_status = rows[t].close_status
    BY <2>4 DEF RollRow, Row
  <2> QED
    BY <2>2, <2>3, <2>4, <2>5 DEF AlertInv, Alertable, Stuck, Waiting
<1>29. ASSUME NEW t \in Trade, RollUnrecorded(t) PROVE AlertInv'
  <2>1. PICK pnl \in RollPnl : Rolled(t, pnl)
    BY <1>29 DEF RollUnrecorded
  <2>2. rows' = rows /\ alerts' = alerts /\ call'.op = "none"
    BY <1>29, <2>1, <1>n DEF RollUnrecorded, Rolled
  <2> QED
    BY <2>2, <1>f DEF AlertInv, Alertable, Stuck, Waiting
<1>30. ASSUME NEW t \in Trade, RollFailed(t) PROVE AlertInv'
  BY <1>f, <1>c, <1>n, <1>30
     DEF RollFailed, Waiting, Done, AlertInv, Alertable, Stuck, Cleared
<1>31. ASSUME NEW t \in Trade, AlertStuck(t) PROVE AlertInv'
  <2>1. /\ rows' = rows /\ call'.op = "none"
        /\ \A u \in Trade \ {t} : alerts'[u] = alerts[u]
        /\ alerts'[t] \in {alerts[t], alerts[t] + 1}
    BY <1>31, <1>f, <1>n DEF AlertStuck, bookVars
  <2>2. alerts[t] <= IF Alertable(t) THEN -1 ELSE 0
    BY <1>31 DEF AlertStuck, AlertInv
  <2> QED
    BY <2>1, <2>2, <1>f DEF AlertInv, Alertable, Stuck, Waiting
<1>32. CASE ScanFinish
  BY <1>f, <1>c, <1>n, <1>32
     DEF ScanFinish, AlertInv, Alertable, Stuck, Waiting, Cleared
<1>33. CASE MonitorFinish
  BY <1>f, <1>c, <1>n, <1>33
     DEF MonitorFinish, AlertInv, Alertable, Stuck, Waiting, Cleared
<1>34. CASE StopBot
  BY <1>f, <1>c, <1>n, <1>34
     DEF StopBot, AlertInv, Alertable, Stuck, Waiting, Cleared
<1>35. CASE StartBot
  BY <1>f, <1>c, <1>n, <1>35
     DEF StartBot, Resume, AlertInv, Alertable, Stuck, Waiting, Cleared
<1>36. CASE StartDrain
  BY <1>f, <1>c, <1>n, <1>36
     DEF StartDrain, Resume, AlertInv, Alertable, Stuck, Waiting, Cleared
<1>37. CASE StartWithAssets
  BY <1>f, <1>c, <1>n, <1>37
     DEF StartWithAssets, Resume, AlertInv, Alertable, Stuck, Waiting, Cleared
<1>38. CASE DrainAndNew
  BY <1>f, <1>c, <1>n, <1>38
     DEF DrainAndNew, Resume, AlertInv, Alertable, Stuck, Waiting, Cleared
<1>39. ASSUME NEW t \in Trade, Close(t) PROVE AlertInv'
  <2>1. rows' = [rows EXCEPT ![t] = ResetRow(rows[t])]
    BY <1>39 DEF Close
  <2>2. /\ alerts' = [alerts EXCEPT ![t] = IF Waiting("alert", t) THEN -1 ELSE 0]
        /\ call' = call
    BY <1>39 DEF Close, tickVars
  <2> QED
    BY <2>1, <2>2, <1>f DEF AlertInv, Alertable, Stuck, Waiting
<1>40. ASSUME NEW t \in Trade, CloseManually(t) PROVE AlertInv'
  <2>1. PICK pnl : rows' = [rows EXCEPT ![t] = ManualRow(rows[t], pnl)]
    BY <1>40 DEF CloseManually
  <2>2. alerts' = Cleared(alerts, {t}) /\ call' = call
    BY <1>40 DEF CloseManually, Retire, tickVars
  <2>3. rows'[t].result = "Manual"
    BY <2>1, <1>f DEF ManualRow, Row
  <2>4. ~ Alertable(t)'
    BY <2>3 DEF Alertable, ClosedResults
  <2> QED
    BY <2>1, <2>2, <2>4, <1>f DEF AlertInv, Alertable, Stuck, Waiting, Cleared
<1>41. ASSUME NEW t \in Trade, OperatorFlattens(t) PROVE AlertInv'
  BY <1>f, <1>c, <1>n, <1>41
     DEF OperatorFlattens, AlertInv, Alertable, Stuck, Waiting, Cleared
<1>42. CASE NewDay
  BY <1>f, <1>c, <1>n, <1>42
     DEF NewDay, AlertInv, Alertable, Stuck, Waiting, Cleared
<1>43. CASE Crash
  BY <1>f, <1>c, <1>n, <1>43
     DEF Crash, AlertInv, Alertable, Stuck, Waiting, Cleared
<1>44. CASE UNCHANGED vars
  BY <1>44 DEF vars, AlertInv, Alertable, Stuck, Waiting, Cleared
<1> QED
  BY <1>1, <1>2, <1>3, <1>4, <1>5, <1>6, <1>7, <1>8, <1>9, <1>10, <1>11, <1>12,
     <1>13, <1>14, <1>15, <1>16, <1>17, <1>18, <1>19, <1>20, <1>21, <1>22,
     <1>23, <1>24, <1>25, <1>26, <1>27, <1>28, <1>29, <1>30, <1>31, <1>32,
     <1>33, <1>34, <1>35, <1>36, <1>37, <1>38, <1>39, <1>40, <1>41, <1>42,
     <1>43, <1>44
     DEF Next, TickStep, Evaluate, Return, Command

(* A step leaves every closed row as it is. *)
Final == \A t \in Trade : rows[t].result \in ClosedResults => rows'[t] = rows[t]

(* No step rewrites a closed row. *)
LEMMA FinalStep ==
  ASSUME TypeOK, Disciplined, CallInv, RowInv, TodoInv, HeldInv, [Next]_vars
  PROVE  Final
<1>f. rows \in [Trade -> Row]
  BY DEF TypeOK, BookType
<1>o. \A u \in Trade : Stuck(u) \/ Monitored(u) => rows[u].result \notin ClosedResults
  BY DEF RowInv, SoundRow, Stuck, Monitored, Visible, OpenResults, ClosedResults
<1>q. CASE rows' = rows /\ failures' = failures /\ tries' = tries
  BY <1>q DEF Final
<1>1. CASE ScanSkipped
  <2>1. PICK S \in SUBSET Trade :
          /\ \A u \in S : Stuck(u) /\ rows[u].result \in OpenResults
          /\ rows' = [u \in Trade |-> IF u \in S THEN ReconcileRow(rows[u]) ELSE rows[u]]
          /\ Retire(S)
    BY <1>1, SyncedStuck DEF ScanSkipped
  <2> QED
    BY <2>1, <1>f, <1>o DEF Final
<1>2. CASE ScanStart
  <2>1. PICK S \in SUBSET Trade :
          /\ \A u \in S : Stuck(u) /\ rows[u].result \in OpenResults
          /\ rows' = [u \in Trade |-> IF u \in S THEN ReconcileRow(rows[u]) ELSE rows[u]]
          /\ Retire(S)
    BY <1>2, SyncedStuck DEF ScanStart
  <2> QED
    BY <2>1, <1>f, <1>o DEF Final
<1>3. CASE MonitorEmpty
  <2>1. rows' = rows
    BY <1>3 DEF MonitorEmpty, bookVars
  <2> QED
    BY <2>1 DEF Final
<1>4. ASSUME NEW t \in Trade, ExpiredStuck(t) PROVE Final
  <2>1. \A u \in Trade : u # t => rows'[u] = rows[u]
    BY <1>4, <1>f DEF ExpiredStuck, MarkStuck
  <2>2. Monitored(t)
    BY <1>4, EvaluatedIsMonitored DEF ExpiredStuck
  <2> QED
    BY <2>1, <2>2, <1>o DEF Final
<1>5. ASSUME NEW t \in Trade, SignalStuck(t) PROVE Final
  <2>1. \A u \in Trade : u # t => rows'[u] = rows[u]
    BY <1>5, <1>f DEF SignalStuck, MarkStuck
  <2>2. Monitored(t)
    BY <1>5, EvaluatedIsMonitored DEF SignalStuck
  <2> QED
    BY <2>1, <2>2, <1>o DEF Final
<1>6. ASSUME NEW t \in Trade, RollNoCandidate(t) PROVE Final
  <2>1. rows' = rows
    BY <1>6 DEF RollNoCandidate, NoSignal, bookVars
  <2> QED
    BY <2>1 DEF Final
<1>7. ASSUME NEW t \in Trade, EnterFilled(t) PROVE Final
  <2>1. \A u \in Trade : u # t => rows'[u] = rows[u]
    BY <1>7, <1>f DEF EnterFilled
  <2>2. rows[t].result = "none"
    BY <1>7 DEF EnterFilled, Waiting, HeldInv
  <2> QED
    BY <2>1, <2>2 DEF Final, ClosedResults
<1>8. ASSUME NEW t \in Trade, CloseFilled(t) PROVE Final
  <2>1. \A u \in Trade : u # t => rows'[u] = rows[u]
    BY <1>8, <1>f DEF CloseFilled
  <2>2. Monitored(t)
    BY <1>8, TradedIsMonitored DEF CloseFilled
  <2> QED
    BY <2>1, <2>2, <1>o DEF Final
<1>9. ASSUME NEW t \in Trade, CloseFailed(t) PROVE Final
  <2>1. rows' = rows
    BY <1>9 DEF CloseFailed, bookVars
  <2> QED
    BY <2>1 DEF Final
<1>10. ASSUME NEW t \in Trade, RollCapCloseFailed(t) PROVE Final
  <2>1. \A u \in Trade : u # t => rows'[u] = rows[u]
    BY <1>10, <1>f DEF RollCapCloseFailed, MarkStuck
  <2>2. Monitored(t)
    BY <1>10, TradedIsMonitored DEF RollCapCloseFailed
  <2> QED
    BY <2>1, <2>2, <1>o DEF Final
<1>11. ASSUME NEW t \in Trade, RollFilled(t) PROVE Final
  <2>1. \A u \in Trade : u # t => rows'[u] = rows[u]
    BY <1>11, <1>f DEF RollFilled
  <2>2. Monitored(t)
    BY <1>11, TradedIsMonitored DEF RollFilled, Rolled
  <2> QED
    BY <2>1, <2>2, <1>o DEF Final
<1>12. ASSUME NEW t \in Trade, RollUnrecorded(t) PROVE Final
  <2>1. rows' = rows
    BY <1>12 DEF RollUnrecorded, bookVars
  <2> QED
    BY <2>1 DEF Final
<1>13. ASSUME NEW t \in Trade, RollFailed(t) PROVE Final
  <2>1. rows' = rows
    BY <1>13 DEF RollFailed, bookVars
  <2> QED
    BY <2>1 DEF Final
<1>14. CASE MonitorFinish
  <2>1. rows' = rows
    BY <1>14 DEF MonitorFinish, bookVars
  <2> QED
    BY <2>1 DEF Final
<1>15. ASSUME NEW t \in Trade, Close(t) PROVE Final
  <2>1. Stuck(t) /\ \A u \in Trade : u # t => rows'[u] = rows[u]
    BY <1>15, <1>f DEF Close
  <2> QED
    BY <2>1, <1>o DEF Final
<1>16. ASSUME NEW t \in Trade, CloseManually(t) PROVE Final
  <2>1. Stuck(t) /\ \A u \in Trade : u # t => rows'[u] = rows[u]
    BY <1>16, <1>f DEF CloseManually
  <2> QED
    BY <2>1, <1>o DEF Final
<1>17. CASE Crash
  <2>1. rows' = rows
    BY <1>17 DEF Crash, bookVars
  <2> QED
    BY <2>1 DEF Final
<1> QED
  BY <1>q, <1>1, <1>2, <1>3, <1>4, <1>5, <1>6, <1>7, <1>8, <1>9, <1>10, <1>11,
     <1>12, <1>13, <1>14, <1>15, <1>16, <1>17, Effects

(* The initial states satisfy the invariant. *)
LEMMA SafeInit == Init => SafeInv
<1> SUFFICES ASSUME Init PROVE SafeInv
  OBVIOUS
<1>0. TypeOK
  BY TypeInit
<1>1. CallInv
  BY DEF Init, CallInv, NoCall
<1>2. LimitInv
  BY DEF Init, LimitInv
<1>3. RowInv
  BY DEF Init, RowInv, SoundRow, NoRow
<1>4. TodoInv
  BY DEF Init, TodoInv
<1>5. HeldInv
  BY DEF Init, HeldInv, NoCall
<1>6. CountInv
  BY DEF Init, CountInv, CountAt, Stuck, NoRow, Zeros
<1>7. LateInv
  BY DEF Init, LateInv, NoCall
<1>8. AlertInv
  <2>1. \A t \in Trade : alerts[t] = 0 /\ ~ Waiting("alert", t)
    BY DEF Init, Zeros, Waiting, NoCall
  <2>2. \A t \in Trade : alerts[t] <= 1 /\ (Alertable(t) => alerts[t] <= 0)
    BY <2>1
  <2> QED
    BY <2>1, <2>2 DEF AlertInv
<1> QED
  BY <1>0, <1>1, <1>2, <1>3, <1>4, <1>5, <1>6, <1>7, <1>8 DEF SafeInv

(* Every step keeps it. *)
LEMMA SafeStep == Disciplined /\ SafeInv /\ [Next]_vars => SafeInv'
<1> SUFFICES ASSUME Disciplined, SafeInv, [Next]_vars PROVE SafeInv'
  OBVIOUS
<1>0. TypeOK /\ CallInv /\ LimitInv /\ RowInv /\ TodoInv /\ HeldInv /\ CountInv /\ LateInv /\ AlertInv
  BY DEF SafeInv
<1>1. TypeOK'
  BY <1>0, TypeNext
<1>2. CallInv' /\ LimitInv'
  BY <1>0, CallStep, LimitStep
<1>3. RowInv'
  BY <1>0, RowStep
<1>4. TodoInv' /\ HeldInv'
  BY <1>0, TodoStep, HeldStep
<1>5. CountInv' /\ LateInv'
  BY <1>0, CountStep, LateStep
<1>6. AlertInv'
  BY <1>0, AlertStep
<1> QED
  BY <1>1, <1>2, <1>3, <1>4, <1>5, <1>6 DEF SafeInv

-----------------------------------------------------------------------------

(* Every state of a disciplined engine satisfies the invariant.              *)
LEMMA SafeAlways == ASSUME Disciplined PROVE Spec => []SafeInv
<1>1. Init => SafeInv
  BY SafeInit
<1>2. SafeInv /\ [Next]_vars => SafeInv'
  BY SafeStep
<1> QED
  BY <1>1, <1>2, PTL DEF Spec

(* No scan enters a position once the realised loss has reached the daily    *)
(* limit, whatever the operator does and however the process crashes: the    *)
(* executor never works for a scan and a close at the same time.             *)
THEOREM LossLimitHolds == Spec => []NoEntryBeyondLossLimit
<1> DEFINE I == TypeOK /\ CallInv /\ LimitInv
<1>1. Init => I
  BY TypeInit DEF Init, CallInv, LimitInv, NoCall
<1>2. I /\ [Next]_vars => I'
  BY TypeNext, CallStep, LimitStep
<1>3. I => NoEntryBeyondLossLimit
  BY DEF TypeOK, TickType, CallInv, LimitInv, NoEntryBeyondLossLimit
<1> QED
  BY <1>1, <1>2, <1>3, PTL DEF Spec

(* The executor is asked to close on a signal, again after a failed attempt  *)
(* too, only what showed one on CLOSE_CONFIRM_TICKS monitor ticks since one  *)
(* saw none, the last attempt and the last start; ticks without data between *)
(* them do not count.                                                        *)
THEOREM CloseIsConfirmed == Spec => []ConfirmedClose
<1> DEFINE I == TypeOK /\ CallInv /\ PendingInv /\ SignalInv
<1>1. Init => I
  <2> SUFFICES ASSUME Init PROVE I
    OBVIOUS
  <2>1. TypeOK /\ CallInv
    BY TypeInit DEF Init, CallInv, NoCall
  <2>2. \A t \in Trade : pending[t] = 0 /\ streak[t] = 0
    BY DEF Init, Zeros
  <2>3. PendingInv
    BY <2>2 DEF PendingInv
  <2>4. SignalInv
    BY DEF Init, SignalInv, NoCall
  <2> QED
    BY <2>1, <2>3, <2>4
<1>2. I /\ [Next]_vars => I'
  BY TypeNext, CallStep, PendingStep, SignalStep
<1>3. I => ConfirmedClose
  BY DEF SignalInv, ConfirmedClose
<1> QED
  BY <1>1, <1>2, <1>3, PTL DEF Spec

(* The executor closes and rolls only what the book holds open and not       *)
(* stuck, although commands and earlier calls of the tick may have changed   *)
(* the book since the snapshot was taken.                                    *)
THEOREM OnlyMonitoredIsTraded == ASSUME Disciplined PROVE Spec => []TradesOnlyMonitored
<1>1. SafeInv => TradesOnlyMonitored
  BY DEF SafeInv, HeldInv, TradesOnlyMonitored
<1> QED
  BY <1>1, SafeAlways, PTL

(* Every stuck position has had RetryCap failures that nothing forgave,      *)
(* whatever restarts lie between them.                                       *)
THEOREM StuckHadItsFailures == ASSUME Disciplined PROVE Spec => []StuckIsEarned
<1>1. SafeInv => StuckIsEarned
  BY DEF SafeInv, CountInv, CountAt, StuckIsEarned
<1> QED
  BY <1>1, SafeAlways, PTL

(* No stuck position is announced twice, across restarts and however /close  *)
(* falls between the flag in the book and the alert.                         *)
THEOREM StuckIsToldOnce == ASSUME Disciplined PROVE Spec => []AlertOnce
<1>1. SafeInv => AlertOnce
  BY DEF SafeInv, AlertInv, AlertOnce
<1> QED
  BY <1>1, SafeAlways, PTL

(* No step rewrites the row of a closed trade.                               *)
THEOREM ClosedRowsStay == ASSUME Disciplined PROVE Spec => TerminalIsFinal
<1>1. SafeInv /\ [Next]_vars => Final
  BY FinalStep DEF SafeInv
<1>2. SafeInv /\ [Next]_vars => [\A t \in Trade : rows[t].result \in ClosedResults => rows'[t] = rows[t]]_vars
  BY <1>1 DEF Final
<1> QED
  BY <1>2, SafeAlways, PTL DEF Spec, TerminalIsFinal

=============================================================================
