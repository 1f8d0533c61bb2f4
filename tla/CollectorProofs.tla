-------------------------- MODULE CollectorProofs --------------------------
(***************************************************************************)
(* Theorems about Collector, for any assets, chains, interval and number   *)
(* of failures: the table is true to what was fetched, and the cadence is  *)
(* kept.                                                                   *)
(***************************************************************************)
EXTENDS Collector, FiniteSetTheorems, SequenceTheorems, TLAPS

-----------------------------------------------------------------------------
(* The inductive invariant.                                                *)

Listed == UNION {UNION {Range(chain) : chain \in ChainsOf[a]} : a \in Asset}

Row == [ts : Nat, asset : Asset, instrument : Listed, spot : Nat]

RunRow == [startedAt : Nat, endedAt : Nat, asset : Asset, rowsAdded : Nat, status : {"ok", "error"}]

Storing == {"insert", "log", "commit"}

Places == {"spot", "chain", "error", "sleep", "stopped", "down"} \cup Storing

TypeInv ==
  /\ mode \in Modes /\ now \in 0..LastClock
  /\ pc \in Places /\ at \in 1..Len(Assets)
  /\ cycleAt \in Nat /\ startedAt \in Nat /\ sentAt \in Nat /\ spot \in Nat
  /\ rows \in Seq(Row) /\ table \in Seq(Row) /\ runs \in Seq(RunRow)
  /\ txn \in [rows : Seq(Row), runs : Seq(RunRow)]
  /\ results \in [DOMAIN results -> Nat]
  /\ stop \in BOOLEAN /\ faults \in Nat

\* What the requests before the k-th asset may take.
Due(k) == 2 * Timeout * (k - 1)

(* How late it can be at each place: a cycle is over before the next is due.  *)
ClockInv ==
  /\ cycleAt <= startedAt /\ startedAt <= sentAt /\ sentAt <= now
  /\ startedAt <= cycleAt + Due(at)
  /\ pc = "spot" => sentAt = startedAt
  /\ pc = "chain" => spot = startedAt /\ sentAt <= startedAt + Timeout
  /\ InFlight => now <= sentAt + Timeout
  /\ pc \in Storing \cup {"error"} => now <= startedAt + 2 * Timeout
  /\ pc = "sleep" => now <= WakeAt

(* What is in hand is one fetch of this moment, and the transaction holds a   *)
(* beginning of it.                                                           *)
HandInv ==
  pc \in Storing =>
    /\ rows # <<>>
    /\ \A i \in DOMAIN rows : rows[i].ts = now /\ rows[i].asset = Current /\ rows[i].spot = startedAt
    /\ \A i, j \in DOMAIN rows : rows[i].instrument = rows[j].instrument => i = j
    /\ pc = "insert" => /\ txn.runs = <<>> /\ Len(txn.rows) < Len(rows)
                        /\ \A i \in DOMAIN txn.rows : txn.rows[i] = rows[i]
    /\ pc = "log" => txn.runs = <<>> /\ txn.rows = rows
    /\ pc = "commit" => txn.rows = rows /\ txn.runs = <<Run(Len(rows), "ok")>>

(* The assets a cycle is done with.                                           *)
DoneInv ==
  /\ pc \in {"spot", "chain", "error"} \cup Storing => DOMAIN results = {Assets[k] : k \in 1..(at - 1)}
  /\ pc = "sleep" => DOMAIN results = Asset
  /\ pc = "down" => DOMAIN results = {} /\ at = 1

Ok(n) == runs[n].status = "ok"

Frame(a, t) == {i \in Stored(a) : table[i].ts = t}

Gained(a) == {i \in Stored(a) : table[i].ts >= cycleAt}

(* Each run that ended well stored its rows at the moment it ended, which is  *)
(* that of no other run on the asset, and there are no other rows.            *)
RunsInv ==
  /\ \A n \in DOMAIN runs : Ok(n) =>
       /\ runs[n].startedAt <= runs[n].endedAt
       /\ IsOf(Frame(runs[n].asset, runs[n].endedAt), runs[n].endedAt, runs[n])
       /\ runs[n].rowsAdded > 0
  /\ \A m, n \in DOMAIN runs :
       Ok(m) /\ Ok(n) /\ runs[m].asset = runs[n].asset /\ runs[m].endedAt = runs[n].endedAt => m = n
  /\ \A i \in DOMAIN table : \E n \in DOMAIN runs :
       Ok(n) /\ runs[n].asset = table[i].asset /\ runs[n].endedAt = table[i].ts

(* The rows of an asset are older than the cycle until it is their turn.      *)
RowsInv ==
  \A i \in DOMAIN table :
    /\ table[i].ts <= now /\ table[i].ts <= cycleAt + CycleTime
    /\ table[i].spot <= table[i].ts /\ table[i].ts <= table[i].spot + 2 * Timeout
    /\ pc # "down" /\ table[i].asset \notin DOMAIN results => table[i].ts < cycleAt

GainInv == \A a \in DOMAIN results : results[a] = Cardinality(Gained(a))

Sibling(i, j) == j \in DOMAIN table /\ table[j].asset = table[i].asset

(* While nothing fails, every cycle adds rows of every asset.                 *)
PaceInv ==
  faults = 0 =>
    /\ pc \notin {"error", "down"}
    /\ \A i \in DOMAIN table :
         /\ \E j \in DOMAIN table : Sibling(i, j) /\ table[j].ts >= cycleAt - Interval
         /\ table[i].asset \in DOMAIN results
              => \E j \in DOMAIN table : Sibling(i, j) /\ table[j].ts >= cycleAt
         /\ \/ \A j \in DOMAIN table : Sibling(i, j) => table[j].ts >= table[i].ts
            \/ \E j \in DOMAIN table : /\ Sibling(i, j)
                                       /\ table[j].ts < table[i].ts
                                       /\ table[i].ts <= table[j].ts + MaxGap

CollectorInv ==
  TypeInv /\ ClockInv /\ HandInv /\ DoneInv /\ RunsInv /\ RowsInv /\ GainInv /\ PaceInv

-----------------------------------------------------------------------------
(* The constants, and what the operators return.                           *)

LEMMA Numbers ==
  /\ Interval \in Nat /\ Timeout \in Nat /\ MaxGap \in Nat /\ LastClock \in Nat
  /\ Assets \in Seq(Asset) /\ Len(Assets) \in Nat /\ Len(Assets) >= 1
  /\ CycleTime \in Nat /\ Interval > CycleTime /\ MaxGap >= Interval + CycleTime
<1>1. /\ Interval \in Nat /\ Timeout \in Nat /\ MaxGap \in Nat /\ LastClock \in Nat
      /\ Assets \in Seq(Asset) /\ Len(Assets) >= 1
      /\ Interval > CycleTime /\ MaxGap >= Interval + CycleTime
  BY CollectorAssumption
<1>2. Len(Assets) \in Nat
  BY <1>1
<1>3. CycleTime \in Nat
  BY <1>1, <1>2 DEF CycleTime
<1> QED BY <1>1, <1>2, <1>3

LEMMA AssetsAre ==
  /\ Asset = {Assets[k] : k \in 1..Len(Assets)}
  /\ \A k \in 1..Len(Assets) : Assets[k] \in Asset
  /\ \A k, m \in 1..Len(Assets) : Assets[k] = Assets[m] => k = m
<1>1. DOMAIN Assets = 1..Len(Assets)
  BY Numbers
<1>2. Asset = {Assets[k] : k \in 1..Len(Assets)}
  BY <1>1 DEF Asset, Range
<1>3. \A k, m \in DOMAIN Assets : Assets[k] = Assets[m] => k = m
  BY CollectorAssumption DEF IsInjective
<1> QED BY <1>1, <1>2, <1>3

LEMMA DueIs ==
  ASSUME NEW k \in 1..Len(Assets)
  PROVE  /\ Due(k) \in Nat /\ Due(k + 1) = Due(k) + 2 * Timeout
         /\ Due(k) + 2 * Timeout <= CycleTime
<1> DEFINE d == 2 * Timeout
           n == Len(Assets)
<1>1. d \in Nat /\ n \in Nat /\ k \in Nat /\ 1 <= k /\ k <= n
  BY Numbers
<1>2. Due(k) = d * (k - 1) /\ Due(k + 1) = d * ((k + 1) - 1) /\ CycleTime = d * n
  BY DEF Due, CycleTime
<1> HIDE DEF d, n
<1>3. d * (k - 1) \in Nat
  BY <1>1
<1>4. d * ((k + 1) - 1) = d * (k - 1) + d
  BY <1>1
<1>5. d * k <= d * n
  <2>1. PICK m \in Nat : n = k + m
    <3>1. n - k \in Nat /\ n = k + (n - k)
      BY <1>1
    <3> QED BY <3>1
  <2>2. d * n = d * k + d * m /\ d * m \in Nat /\ d * k \in Nat
    BY <1>1, <2>1
  <2> QED BY <2>2
<1>6. d * (k - 1) + d = d * k
  BY <1>1
<1>7. Due(k) + d <= CycleTime
  BY <1>2, <1>5, <1>6
<1> QED BY <1>2, <1>3, <1>4, <1>7 DEF d

LEMMA CurrentIs == ASSUME TypeInv PROVE Current \in Asset
  BY AssetsAre DEF TypeInv, Current

LEMMA RunIs ==
  ASSUME TypeInv, NEW n \in Nat, NEW s \in {"ok", "error"}
  PROVE  /\ Run(n, s) \in RunRow
         /\ Run(n, s).startedAt = startedAt /\ Run(n, s).endedAt = now
         /\ Run(n, s).asset = Current /\ Run(n, s).rowsAdded = n /\ Run(n, s).status = s
<1>1. now \in Nat /\ startedAt \in Nat
  BY Numbers DEF TypeInv
<1> QED BY <1>1, CurrentIs DEF Run, RunRow

(* The rows of a chain, which lists each instrument once.                     *)
LEMMA FetchedIs ==
  ASSUME TypeInv, NEW chain \in ChainsOf[Current], chain # <<>>
  PROVE  /\ RowsOf(chain) \in Seq(Row) /\ RowsOf(chain) # <<>> /\ Len(RowsOf(chain)) > 0
         /\ \A i \in DOMAIN RowsOf(chain) : /\ RowsOf(chain)[i].ts = now
                                            /\ RowsOf(chain)[i].asset = Current
                                            /\ RowsOf(chain)[i].spot = spot
         /\ \A i, j \in DOMAIN RowsOf(chain) :
              RowsOf(chain)[i].instrument = RowsOf(chain)[j].instrument => i = j
<1> DEFINE r == RowsOf(chain)
<1>1. Current \in Asset /\ now \in Nat /\ spot \in Nat
  BY CurrentIs, Numbers DEF TypeInv
<1>2. chain \in Seq(Range(chain)) /\ IsInjective(chain)
  BY <1>1, CollectorAssumption
<1>3. Len(chain) \in Nat /\ Len(chain) > 0 /\ DOMAIN chain = 1..Len(chain)
  BY <1>2
<1>4. \A i \in DOMAIN chain : chain[i] \in Listed
  BY <1>1 DEF Listed, Range
<1>5. DOMAIN r = 1..Len(chain)
  BY <1>3 DEF RowsOf
<1>6. \A i \in 1..Len(chain) :
        r[i] = [ts |-> now, asset |-> Current, instrument |-> chain[i], spot |-> spot]
  BY <1>3 DEF RowsOf
<1>7. ASSUME NEW i \in 1..Len(chain) PROVE r[i] \in Row
  <2>1. chain[i] \in Listed
    BY <1>3, <1>4
  <2>2. r[i] = [ts |-> now, asset |-> Current, instrument |-> chain[i], spot |-> spot]
    BY <1>6
  <2> HIDE DEF r
  <2> QED BY <1>1, <2>1, <2>2 DEF Row
<1>8. r = [i \in 1..Len(chain) |-> r[i]]
  BY <1>3 DEF RowsOf
<1> HIDE DEF r
<1>9. r \in Seq(Row) /\ Len(r) = Len(chain)
  BY <1>3, <1>5, <1>7, <1>8
<1>10. r # <<>>
  BY <1>3, <1>9
<1>11. \A i, j \in DOMAIN r : r[i].instrument = r[j].instrument => i = j
  BY <1>2, <1>3, <1>5, <1>6 DEF IsInjective
<1>12. \A i \in DOMAIN r : r[i].ts = now /\ r[i].asset = Current /\ r[i].spot = spot
  BY <1>5, <1>6
<1>13. Len(r) > 0
  BY <1>3, <1>9
<1> QED BY <1>9, <1>10, <1>11, <1>12, <1>13 DEF r

(* What the end of an asset's turn does.                                      *)
LEMMA AdvanceIs ==
  ASSUME TypeInv, NEW n \in Nat, Advance(n)
  PROVE  /\ DOMAIN results' = DOMAIN results \cup {Current}
         /\ results' \in [DOMAIN results' -> Nat]
         /\ results'[Current] = n
         /\ \A a \in DOMAIN results : a # Current => results'[a] = results[a]
         /\ spot' = 0 /\ rows' = <<>> /\ cycleAt' = cycleAt
         /\ \/ /\ at < Len(Assets) /\ pc' = "spot" /\ at' = at + 1
               /\ startedAt' = now /\ sentAt' = now
            \/ /\ at = Len(Assets) /\ pc' \in {"stopped", "sleep"}
               /\ at' = at /\ startedAt' = startedAt /\ sentAt' = sentAt
<1>2. results' = [a \in DOMAIN results \cup {Current} |-> IF a = Current THEN n ELSE results[a]]
  BY DEF Advance, Reported
<1>3. results \in [DOMAIN results -> Nat] /\ at \in 1..Len(Assets) /\ Len(Assets) \in Nat
  BY Numbers DEF TypeInv
<1>4. /\ DOMAIN results' = DOMAIN results \cup {Current}
      /\ results'[Current] = n
      /\ \A a \in DOMAIN results : a # Current => results'[a] = results[a]
  BY <1>2
<1>5. results' \in [DOMAIN results' -> Nat]
  BY <1>2, <1>3
<1>6. CASE at < Len(Assets)
  BY <1>3, <1>4, <1>5, <1>6 DEF Advance
<1>7. CASE ~(at < Len(Assets))
  <2>1. at = Len(Assets)
    BY <1>3, <1>7
  <2> QED BY <1>4, <1>5, <1>7, <2>1 DEF Advance
<1> QED BY <1>6, <1>7

-----------------------------------------------------------------------------
(* Types                                                                   *)

LEMMA TypeInit == ASSUME Init PROVE TypeInv
<1>1. 0 \in 0..LastClock /\ 1 \in 1..Len(Assets)
  BY Numbers
<1>2. <<>> \in Seq(Row) /\ <<>> \in Seq(RunRow)
  OBVIOUS
<1>3. results \in [DOMAIN results -> Nat]
  BY DEF Init
<1>4. Nothing \in [rows : Seq(Row), runs : Seq(RunRow)]
  BY <1>2 DEF Nothing
<1> QED BY <1>1, <1>2, <1>3, <1>4 DEF Init, TypeInv, Places

LEMMA NothingIs == Nothing \in [rows : Seq(Row), runs : Seq(RunRow)]
<1>1. <<>> \in Seq(Row) /\ <<>> \in Seq(RunRow)
  OBVIOUS
<1> QED BY <1>1 DEF Nothing

LEMMA TypeAdvance ==
  ASSUME TypeInv, NEW n \in Nat, Advance(n)
  PROVE  /\ pc' \in Places /\ at' \in 1..Len(Assets)
         /\ cycleAt' \in Nat /\ startedAt' \in Nat /\ sentAt' \in Nat /\ spot' \in Nat
         /\ rows' \in Seq(Row) /\ results' \in [DOMAIN results' -> Nat]
<1>1. now \in Nat /\ at \in 1..Len(Assets) /\ Len(Assets) \in Nat
  BY Numbers DEF TypeInv
<1>2. results' \in [DOMAIN results' -> Nat] /\ spot' = 0 /\ rows' = <<>> /\ cycleAt' = cycleAt
  BY AdvanceIs
<1>3. <<>> \in Seq(Row)
  OBVIOUS
<1>4. \/ /\ at < Len(Assets) /\ pc' = "spot" /\ at' = at + 1
         /\ startedAt' = now /\ sentAt' = now
      \/ /\ at = Len(Assets) /\ pc' \in {"stopped", "sleep"}
         /\ at' = at /\ startedAt' = startedAt /\ sentAt' = sentAt
  BY AdvanceIs
<1>5. cycleAt \in Nat /\ startedAt \in Nat /\ sentAt \in Nat
  BY DEF TypeInv
<1>6. /\ pc' \in Places /\ at' \in 1..Len(Assets)
      /\ startedAt' \in Nat /\ sentAt' \in Nat
  BY <1>1, <1>4, <1>5 DEF Places
<1>7. cycleAt' \in Nat /\ spot' \in Nat /\ rows' \in Seq(Row)
  BY <1>2, <1>3, <1>5
<1> QED BY <1>2, <1>6, <1>7

LEMMA TypeNext == ASSUME TypeInv, HandInv, [Next]_vars PROVE TypeInv'
<1>1. now \in Nat /\ at \in 1..Len(Assets) /\ Len(Assets) \in Nat /\ Len(Assets) >= 1 /\ LastClock \in Nat
  BY Numbers DEF TypeInv
<1>2. <<>> \in Seq(Row) /\ <<>> \in [DOMAIN <<>> -> Nat]
  OBVIOUS
<1>3. CASE FetchSpot
  BY <1>1, <1>3 DEF FetchSpot, TypeInv, Places, db
<1>4. CASE FetchChain
  <2>1. rows' \in Seq(Row)
    BY <1>4, FetchedIs DEF FetchChain
  <2> QED BY <1>4, <2>1, NothingIs DEF FetchChain, TypeInv, Places, Storing
<1>5. CASE EmptyChain
  <2>1. Advance(0) /\ faults' \in Nat /\ UNCHANGED <<mode, now, db, stop>>
    BY <1>5 DEF EmptyChain, Fault, TypeInv
  <2> QED BY <2>1, TypeAdvance DEF TypeInv, db
<1>6. CASE FetchFails
  BY <1>6 DEF FetchFails, Fault, TypeInv, Places, hand, db
<1>7. CASE InsertRow
  <2> DEFINE k == Len(txn.rows) + 1
  <2>1. /\ pc = "insert" /\ txn' = [txn EXCEPT !.rows = Append(txn.rows, rows[k])]
        /\ pc' \in {"log", "insert"}
        /\ UNCHANGED <<mode, now, at, cycleAt, startedAt, sentAt, hand, results, table, runs, stop, faults>>
    BY <1>7 DEF InsertRow
  <2>2. txn.rows \in Seq(Row) /\ txn.runs \in Seq(RunRow) /\ rows \in Seq(Row)
    BY DEF TypeInv
  <2>3. Len(txn.rows) < Len(rows)
    BY <2>1 DEF HandInv, Storing
  <2>4. k \in DOMAIN rows
    BY <2>2, <2>3
  <2>5. rows[k] \in Row
    BY <2>2, <2>4
  <2>6. Append(txn.rows, rows[k]) \in Seq(Row)
    BY <2>2, <2>5
  <2>7. txn' \in [rows : Seq(Row), runs : Seq(RunRow)]
    BY <2>1, <2>6 DEF TypeInv
  <2> QED BY <2>1, <2>7 DEF TypeInv, Places, Storing, hand
<1>8. CASE LogRun
  <2>1. Len(rows) \in Nat
    BY DEF TypeInv
  <2>2. Run(Len(rows), "ok") \in RunRow
    BY <2>1, RunIs
  <2>3. txn.runs \in Seq(RunRow)
    BY DEF TypeInv
  <2>4. Append(txn.runs, Run(Len(rows), "ok")) \in Seq(RunRow)
    BY <2>2, <2>3
  <2>5. txn' \in [rows : Seq(Row), runs : Seq(RunRow)]
    BY <1>8, <2>4 DEF LogRun, TypeInv
  <2> QED BY <1>8, <2>5 DEF LogRun, TypeInv, Places, Storing, hand
<1>9. CASE Commit
  <2>1. Len(rows) \in Nat
    BY DEF TypeInv
  <2>2. Advance(Len(rows)) /\ table' = table \o txn.rows /\ runs' = runs \o txn.runs /\ txn' = Nothing
        /\ UNCHANGED <<mode, now, stop, faults>>
    BY <1>9 DEF Commit
  <2>3. txn.rows \in Seq(Row) /\ txn.runs \in Seq(RunRow) /\ table \in Seq(Row) /\ runs \in Seq(RunRow)
    BY DEF TypeInv
  <2>4. table' \in Seq(Row) /\ runs' \in Seq(RunRow)
    BY <2>2, <2>3
  <2> QED BY <2>1, <2>2, <2>4, TypeAdvance, NothingIs DEF TypeInv
<1>10. CASE Rollback
  BY <1>10, NothingIs DEF Rollback, Fault, TypeInv, Places, hand
<1>11. CASE LogError
  <2>1. Advance(0) /\ UNCHANGED <<mode, now, txn, table, stop, faults>>
    BY <1>11 DEF LogError
  <2>2. runs' = Append(runs, Run(0, "error")) \/ runs' = runs
    BY <1>11 DEF LogError
  <2>3. Run(0, "error") \in RunRow /\ runs \in Seq(RunRow)
    BY RunIs DEF TypeInv
  <2>4. runs' \in Seq(RunRow)
    BY <2>2, <2>3
  <2> QED BY <2>1, <2>4, TypeAdvance DEF TypeInv
<1>12. CASE NextCycle
  <2>1. results' \in [DOMAIN results' -> Nat]
    BY <1>2, <1>12 DEF NextCycle
  <2> QED BY <1>1, <1>12, <2>1 DEF NextCycle, TypeInv, Places, hand, db
<1>13. CASE Leave
  BY <1>13 DEF Leave, TypeInv, Places, hand, db
<1>14. CASE Signal
  BY <1>14 DEF Signal, TypeInv, progress, hand, db
<1>15. CASE Cancel
  BY <1>15 DEF Cancel, TypeInv, Places, hand, db
<1>16. CASE Crash
  <2>1. results' \in [DOMAIN results' -> Nat]
    BY <1>2, <1>16 DEF Crash
  <2>2. /\ pc' = "down" /\ txn' = Nothing /\ at' = 1 /\ cycleAt' = now /\ startedAt' = now
        /\ sentAt' = now /\ spot' = 0 /\ rows' = <<>> /\ stop' = FALSE /\ faults' = faults + 1
        /\ UNCHANGED <<mode, now, table, runs>>
    BY <1>16 DEF Crash, Fault
  <2>3. rows' \in Seq(Row) /\ txn' \in [rows : Seq(Row), runs : Seq(RunRow)]
    BY <1>2, <2>2, NothingIs
  <2>4. /\ mode' \in Modes /\ now' \in 0..LastClock /\ pc' \in Places /\ at' \in 1..Len(Assets)
        /\ stop' \in BOOLEAN /\ faults' \in Nat
    <3>1. /\ mode \in Modes /\ now \in 0..LastClock /\ faults \in Nat
      BY DEF TypeInv
    <3>2. stop' \in BOOLEAN
      BY <2>2
    <3>3. pc' \in Places
      BY <2>2 DEF Places
    <3>4. at' \in 1..Len(Assets)
      BY <1>1, <2>2
    <3> QED BY <2>2, <3>1, <3>2, <3>3, <3>4
  <2>5. cycleAt' \in Nat /\ startedAt' \in Nat /\ sentAt' \in Nat /\ spot' \in Nat
    BY <1>1, <2>2
  <2>6. table' \in Seq(Row) /\ runs' \in Seq(RunRow)
    BY <2>2 DEF TypeInv
  <2> QED BY <2>1, <2>3, <2>4, <2>5, <2>6 DEF TypeInv
<1>17. CASE Restart
  BY <1>1, <1>17 DEF Restart, TypeInv, Places, hand, db
<1>18. CASE Tick
  BY <1>1, <1>18 DEF Tick, TypeInv, progress, hand, db
<1>19. CASE UNCHANGED vars
  BY <1>19 DEF vars, TypeInv, progress, hand, db
<1> QED
  BY <1>3, <1>4, <1>5, <1>6, <1>7, <1>8, <1>9, <1>10, <1>11, <1>12, <1>13, <1>14, <1>15, <1>16,
     <1>17, <1>18, <1>19 DEF Next, Collect

-----------------------------------------------------------------------------
(* The clock, what is in hand, and which assets are done                   *)

LEMMA AdvanceKeepsTime ==
  ASSUME TypeInv, ClockInv, NEW n \in Nat, Advance(n), now' = now,
         now <= startedAt + 2 * Timeout
  PROVE  ClockInv'
<1>1. /\ now \in Nat /\ at \in 1..Len(Assets) /\ Len(Assets) \in Nat /\ Timeout \in Nat
      /\ cycleAt \in Nat /\ startedAt \in Nat /\ sentAt \in Nat
      /\ Interval \in Nat /\ CycleTime \in Nat /\ Interval > CycleTime
  BY Numbers DEF TypeInv
<1>2. /\ cycleAt <= startedAt /\ startedAt <= sentAt /\ sentAt <= now
      /\ startedAt <= cycleAt + Due(at)
  BY DEF ClockInv
<1>3. /\ Due(at) \in Nat /\ Due(at + 1) = Due(at) + 2 * Timeout
      /\ Due(at) + 2 * Timeout <= CycleTime
  BY <1>1, DueIs
<1> DEFINE d == Due(at)
<1>4. cycleAt' = cycleAt
  BY AdvanceIs
<1>5. CASE at < Len(Assets) /\ pc' = "spot" /\ at' = at + 1 /\ startedAt' = now /\ sentAt' = now
  <2>1. Due(at)' = Due(at + 1)
    BY <1>5 DEF Due
  <2>2. now <= cycleAt + Due(at + 1)
    BY <1>1, <1>2, <1>3
  <2> HIDE DEF d
  <2> QED BY <1>1, <1>2, <1>4, <1>5, <2>1, <2>2 DEF ClockInv, InFlight, Storing
<1>6. CASE /\ at = Len(Assets) /\ pc' \in {"stopped", "sleep"}
           /\ at' = at /\ startedAt' = startedAt /\ sentAt' = sentAt
  <2>1. Due(at)' = Due(at)
    BY <1>6 DEF Due
  <2>2. now <= cycleAt + Interval
    BY <1>1, <1>2, <1>3
  <2> QED BY <1>1, <1>2, <1>4, <1>6, <2>1, <2>2 DEF ClockInv, InFlight, Storing, WakeAt
<1> QED BY <1>5, <1>6, AdvanceIs

LEMMA ClockNext == ASSUME TypeInv, ClockInv, [Next]_vars PROVE ClockInv'
<1>1. /\ now \in Nat /\ at \in 1..Len(Assets) /\ Timeout \in Nat
      /\ cycleAt \in Nat /\ startedAt \in Nat /\ sentAt \in Nat
      /\ Interval \in Nat /\ Due(at) \in Nat
  BY Numbers, DueIs DEF TypeInv
<1>2. /\ cycleAt <= startedAt /\ startedAt <= sentAt /\ sentAt <= now
      /\ startedAt <= cycleAt + Due(at)
  BY DEF ClockInv
<1>3. ASSUME at' = at PROVE Due(at)' = Due(at)
  BY <1>3 DEF Due
<1>4. Due(1) = 0
  BY <1>1 DEF Due
<1>5. CASE FetchSpot
  BY <1>1, <1>2, <1>3, <1>5 DEF FetchSpot, ClockInv, InFlight, Storing
<1>6. CASE FetchChain
  BY <1>1, <1>2, <1>3, <1>6 DEF FetchChain, ClockInv, InFlight, Storing
<1>7. CASE EmptyChain
  <2>1. pc = "chain" /\ Advance(0) /\ now' = now
    BY <1>7 DEF EmptyChain
  <2>2. now <= startedAt + 2 * Timeout
    BY <1>1, <2>1 DEF ClockInv, InFlight
  <2> QED BY <2>1, <2>2, AdvanceKeepsTime
<1>8. CASE FetchFails
  BY <1>1, <1>2, <1>3, <1>8 DEF FetchFails, ClockInv, InFlight, Storing
<1>9. CASE InsertRow
  BY <1>1, <1>2, <1>3, <1>9 DEF InsertRow, ClockInv, InFlight, Storing
<1>10. CASE LogRun
  BY <1>1, <1>2, <1>3, <1>10 DEF LogRun, ClockInv, InFlight, Storing
<1>11. CASE Commit
  <2>1. pc = "commit" /\ Advance(Len(rows)) /\ now' = now /\ Len(rows) \in Nat
    BY <1>11 DEF Commit, TypeInv
  <2>2. now <= startedAt + 2 * Timeout
    BY <2>1 DEF ClockInv, Storing
  <2> QED BY <2>1, <2>2, AdvanceKeepsTime
<1>12. CASE Rollback
  BY <1>1, <1>2, <1>3, <1>12 DEF Rollback, ClockInv, InFlight, Storing
<1>13. CASE LogError
  <2>1. pc = "error" /\ Advance(0) /\ now' = now
    BY <1>13 DEF LogError
  <2>2. now <= startedAt + 2 * Timeout
    BY <2>1 DEF ClockInv
  <2> QED BY <2>1, <2>2, AdvanceKeepsTime
<1>14. CASE NextCycle
  <2>1. pc' = "spot" /\ at' = 1 /\ cycleAt' = now /\ startedAt' = now /\ sentAt' = now /\ now' = now
    BY <1>14 DEF NextCycle
  <2>2. Due(at)' = 0
    BY <1>1, <2>1 DEF Due
  <2> QED BY <1>1, <2>1, <2>2 DEF ClockInv, InFlight, Storing
<1>15. CASE Leave
  BY <1>1, <1>2, <1>3, <1>15 DEF Leave, ClockInv, InFlight, Storing
<1>16. CASE Signal
  BY <1>1, <1>2, <1>3, <1>16 DEF Signal, progress, hand, ClockInv, InFlight, Storing, WakeAt
<1>17. CASE Cancel
  BY <1>1, <1>2, <1>3, <1>17 DEF Cancel, ClockInv, InFlight, Storing
<1>18. CASE Crash
  <2>1. pc' = "down" /\ at' = 1 /\ cycleAt' = now /\ startedAt' = now /\ sentAt' = now /\ now' = now
    BY <1>18 DEF Crash
  <2>2. Due(at)' = 0
    BY <1>1, <2>1 DEF Due
  <2> QED BY <1>1, <2>1, <2>2 DEF ClockInv, InFlight, Storing
<1>19. CASE Restart
  <2>1. /\ pc' = "spot" /\ at' = at /\ now' = now + 1
        /\ cycleAt' = now' /\ startedAt' = now' /\ sentAt' = now'
    BY <1>19 DEF Restart
  <2>2. Due(at)' \in Nat
    BY <1>1, <1>3, <2>1
  <2> QED BY <1>1, <2>1, <2>2 DEF ClockInv, InFlight, Storing
<1>20. CASE Tick
  <2>1. /\ UNCHANGED <<mode, progress, hand>> /\ now' = now + 1
        /\ \/ InFlight /\ now < sentAt + Timeout
           \/ pc = "sleep" /\ now < WakeAt
    BY <1>20 DEF Tick
  <2>2. UNCHANGED <<pc, at, cycleAt, startedAt, sentAt, spot>>
    BY <2>1 DEF progress, hand
  <2> QED BY <1>1, <1>2, <1>3, <2>1, <2>2 DEF ClockInv, InFlight, Storing, WakeAt
<1>21. CASE UNCHANGED vars
  BY <1>3, <1>21 DEF vars, progress, hand, ClockInv, InFlight, WakeAt
<1> QED
  BY <1>5, <1>6, <1>7, <1>8, <1>9, <1>10, <1>11, <1>12, <1>13, <1>14, <1>15, <1>16,
     <1>17, <1>18, <1>19, <1>20, <1>21 DEF Next, Collect

LEMMA HandNext == ASSUME TypeInv, ClockInv, HandInv, [Next]_vars PROVE HandInv'
<1>1. now \in Nat /\ Timeout \in Nat /\ rows \in Seq(Row)
  BY Numbers DEF TypeInv
<1>2. CASE FetchChain
  <2>1. /\ pc = "chain" /\ pc' = "insert" /\ txn' = Nothing
        /\ UNCHANGED <<now, at, startedAt, spot>>
    BY <1>2 DEF FetchChain
  <2>2. PICK chain \in ChainsOf[Current] : chain # <<>> /\ rows' = RowsOf(chain)
    BY <1>2 DEF FetchChain
  <2>3. spot = startedAt
    BY <2>1 DEF ClockInv
  <2>4. /\ rows' # <<>> /\ Len(rows') > 0
        /\ \A i \in DOMAIN rows' : rows'[i].ts = now /\ rows'[i].asset = Current /\ rows'[i].spot = spot
        /\ \A i, j \in DOMAIN rows' : rows'[i].instrument = rows'[j].instrument => i = j
    BY <2>2, FetchedIs
  <2>5. Current' = Current
    BY <2>1 DEF Current
  <2>6. txn'.runs = <<>> /\ txn'.rows = <<>> /\ Len(txn'.rows) = 0 /\ DOMAIN txn'.rows = {}
    BY <2>1 DEF Nothing
  <2> QED BY <2>1, <2>3, <2>4, <2>5, <2>6 DEF HandInv
<1>3. CASE InsertRow
  <2> DEFINE k == Len(txn.rows) + 1
             more == Append(txn.rows, rows[k])
  <2>1. /\ pc = "insert" /\ txn' = [txn EXCEPT !.rows = more]
        /\ pc' = IF Len(txn'.rows) = Len(rows) THEN "log" ELSE "insert"
        /\ rows' = rows /\ now' = now /\ at' = at /\ startedAt' = startedAt
    BY <1>3 DEF InsertRow, hand
  <2>2. txn \in [rows : Seq(Row), runs : Seq(RunRow)] /\ txn.rows \in Seq(Row)
    BY DEF TypeInv
  <2>3. /\ Len(txn.rows) < Len(rows) /\ txn.runs = <<>>
        /\ \A i \in DOMAIN txn.rows : txn.rows[i] = rows[i]
    BY <2>1 DEF HandInv, Storing
  <2>4. /\ DOMAIN more = 1..k /\ Len(more) = k /\ more[k] = rows[k]
        /\ \A i \in DOMAIN txn.rows : more[i] = txn.rows[i]
        /\ k \in Nat /\ DOMAIN txn.rows = 1..(k - 1)
    BY <2>2
  <2>5. txn'.rows = more /\ txn'.runs = <<>>
    BY <2>1, <2>2, <2>3
  <2>6. Current' = Current
    BY <2>1 DEF Current
  <2> HIDE DEF more, k
  <2>7. \A i \in DOMAIN more : more[i] = rows[i]
    <3> SUFFICES ASSUME NEW i \in 1..k PROVE more[i] = rows[i]
      BY <2>4
    <3>1. CASE i = k
      BY <2>4, <3>1
    <3>2. CASE i # k
      BY <2>3, <2>4, <3>2
    <3> QED BY <3>1, <3>2
  <2>8. ASSUME Len(more) = Len(rows) PROVE more = rows
    <3>1. DOMAIN rows = 1..k /\ rows = [i \in 1..k |-> rows[i]]
      BY <1>1, <2>4, <2>8
    <3>2. more \in Seq(Row)
      BY <1>1, <2>2, <2>3 DEF more, k
    <3>3. more = [i \in 1..k |-> more[i]]
      BY <2>4, <3>2
    <3> QED BY <2>4, <2>7, <3>1, <3>3
  <2>9. Len(rows) \in Nat /\ Len(more) <= Len(rows)
    BY <1>1, <2>2, <2>3, <2>4 DEF k
  <2>10. /\ rows # <<>>
         /\ \A i \in DOMAIN rows : rows[i].ts = now /\ rows[i].asset = Current /\ rows[i].spot = startedAt
         /\ \A i, j \in DOMAIN rows : rows[i].instrument = rows[j].instrument => i = j
    BY <2>1 DEF HandInv, Storing
  <2>11. CASE Len(more) = Len(rows)
    BY <2>1, <2>5, <2>6, <2>8, <2>10, <2>11 DEF HandInv
  <2>12. CASE Len(more) # Len(rows)
    <3>1. pc' = "insert" /\ Len(more) < Len(rows)
      BY <2>1, <2>4, <2>5, <2>9, <2>12
    <3> QED BY <2>1, <2>5, <2>6, <2>7, <2>10, <3>1 DEF HandInv
  <2> QED BY <2>11, <2>12
<1>4. CASE LogRun
  <2>1. /\ pc = "log" /\ pc' = "commit" /\ txn' = [txn EXCEPT !.runs = Append(txn.runs, Run(Len(rows), "ok"))]
        /\ rows' = rows /\ now' = now /\ at' = at /\ startedAt' = startedAt
    BY <1>4 DEF LogRun, hand
  <2>2. txn.runs = <<>> /\ txn.rows = rows
    BY <2>1 DEF HandInv, Storing
  <2>3. txn'.rows = rows /\ txn'.runs = <<Run(Len(rows), "ok")>>
    BY <2>1, <2>2 DEF TypeInv
  <2>4. Current' = Current
    BY <2>1 DEF Current
  <2>5. Run(Len(rows), "ok")' = Run(Len(rows), "ok")
    BY <2>1, <2>4 DEF Run
  <2> QED BY <2>1, <2>3, <2>4, <2>5 DEF HandInv, Storing
<1>5. CASE /\ pc' \notin Storing
  BY <1>5 DEF HandInv
<1>6. CASE UNCHANGED <<pc, now, at, startedAt, rows, txn>>
  BY <1>6 DEF HandInv, Current, Run
<1>7. [Next]_vars => \/ FetchChain \/ InsertRow \/ LogRun \/ pc' \notin Storing
                     \/ UNCHANGED <<pc, now, at, startedAt, rows, txn>>
  <2>1. ASSUME NEW n \in Nat, Advance(n) PROVE pc' \notin Storing
    BY <2>1, AdvanceIs DEF Storing
  <2>2. EmptyChain \/ LogError => pc' \notin Storing
    BY <2>1 DEF EmptyChain, LogError
  <2>3. Commit => pc' \notin Storing
    <3>1. Len(rows) \in Nat
      BY <1>1
    <3> QED BY <2>1, <3>1 DEF Commit
  <2>4. FetchSpot \/ FetchFails \/ Rollback \/ NextCycle \/ Leave \/ Cancel \/ Crash \/ Restart => pc' \notin Storing
    BY DEF FetchSpot, FetchFails, Rollback, NextCycle, Leave, Cancel, Crash, Restart, Storing
  <2>5. Signal => UNCHANGED <<pc, now, at, startedAt, rows, txn>>
    BY DEF Signal, progress, hand, db
  <2>6. Tick => pc' \notin Storing
    BY DEF Tick, progress, Storing, InFlight
  <2>7. UNCHANGED vars => UNCHANGED <<pc, now, at, startedAt, rows, txn>>
    BY DEF vars, progress, hand, db
  <2> QED BY <2>2, <2>3, <2>4, <2>5, <2>6, <2>7 DEF Next, Collect
<1> QED BY <1>2, <1>3, <1>4, <1>5, <1>6, <1>7

LEMMA NotYetDone ==
  ASSUME TypeInv, DoneInv, pc \in {"spot", "chain", "error"} \cup Storing
  PROVE  /\ Current \notin DOMAIN results
         /\ DOMAIN results \cup {Current} = {Assets[k] : k \in 1..at}
<1>1. DOMAIN results = {Assets[k] : k \in 1..(at - 1)}
  BY DEF DoneInv
<1>2. at \in 1..Len(Assets) /\ Len(Assets) \in Nat
  BY Numbers DEF TypeInv
<1>3. 1..at = 1..(at - 1) \cup {at} /\ at \notin 1..(at - 1) /\ 1..at \subseteq 1..Len(Assets)
  BY <1>2
<1> QED BY <1>1, <1>2, <1>3, AssetsAre DEF Current

LEMMA DoneNext == ASSUME TypeInv, DoneInv, [Next]_vars PROVE DoneInv'
<1>1. at \in 1..Len(Assets) /\ Len(Assets) \in Nat
  BY Numbers DEF TypeInv
<1>2. ASSUME NEW n \in Nat, Advance(n), pc \in {"spot", "chain", "error"} \cup Storing
      PROVE  DoneInv'
  <2>1. DOMAIN results' = {Assets[k] : k \in 1..at}
    BY <1>2, AdvanceIs, NotYetDone
  <2>2. CASE at < Len(Assets) /\ pc' = "spot" /\ at' = at + 1
    <3>1. (at + 1) - 1 = at
      BY <1>1
    <3> QED BY <2>1, <2>2, <3>1 DEF DoneInv, Storing
  <2>3. CASE at = Len(Assets) /\ pc' \in {"stopped", "sleep"}
    BY <2>1, <2>3, AssetsAre DEF DoneInv, Storing
  <2> QED BY <1>2, <2>2, <2>3, AdvanceIs
<1>3. CASE EmptyChain \/ LogError
  BY <1>2, <1>3 DEF EmptyChain, LogError
<1>4. CASE Commit
  <2>1. Len(rows) \in Nat
    BY DEF TypeInv
  <2> QED BY <1>2, <1>4, <2>1 DEF Commit, Storing
<1>5. CASE FetchSpot \/ FetchChain \/ FetchFails \/ InsertRow \/ LogRun \/ Rollback
  BY <1>5 DEF FetchSpot, FetchChain, FetchFails, InsertRow, LogRun, Rollback, DoneInv, Storing, InFlight
<1>6. CASE NextCycle
  <2>1. pc' = "spot" /\ at' = 1 /\ results' = <<>>
    BY <1>6 DEF NextCycle
  <2>2. DOMAIN results' = {} /\ 1..(at' - 1) = {}
    BY <2>1
  <2> QED BY <2>1, <2>2 DEF DoneInv, Storing
<1>7. CASE Leave \/ Cancel
  BY <1>7 DEF Leave, Cancel, DoneInv, Storing
<1>8. CASE Crash
  <2>1. pc' = "down" /\ DOMAIN results' = {} /\ at' = 1
    BY <1>8 DEF Crash
  <2> QED BY <2>1 DEF DoneInv, Storing
<1>9. CASE Signal \/ Tick \/ UNCHANGED vars
  BY <1>9 DEF Signal, Tick, vars, progress, DoneInv
<1>10. CASE Restart
  <2>1. DOMAIN results = {} /\ at = 1 /\ pc' = "spot" /\ results' = results /\ at' = at
    BY <1>10 DEF Restart, DoneInv
  <2>2. 1..(at - 1) = {}
    BY <2>1
  <2> QED BY <2>1, <2>2 DEF DoneInv, Storing
<1> QED
  BY <1>3, <1>4, <1>5, <1>6, <1>7, <1>8, <1>9, <1>10 DEF Next, Collect

-----------------------------------------------------------------------------
(* What a commit adds, and what the log of a failure does not              *)

Added == (Len(table) + 1)..(Len(table) + Len(rows))

LEMMA CommitIs ==
  ASSUME TypeInv, HandInv, Commit
  PROVE  /\ DOMAIN table' = DOMAIN table \cup Added /\ DOMAIN table \cap Added = {}
         /\ IsFiniteSet(Added) /\ Cardinality(Added) = Len(rows) /\ Len(rows) \in Nat /\ Len(rows) > 0
         /\ \A i \in DOMAIN table : table'[i] = table[i]
         /\ \A i \in Added : /\ table'[i].ts = now /\ table'[i].asset = Current
                             /\ table'[i].spot = startedAt
         /\ \A i, j \in Added : table'[i].instrument = table'[j].instrument => i = j
         /\ runs' = Append(runs, Run(Len(rows), "ok"))
         /\ Advance(Len(rows)) /\ UNCHANGED <<now, faults>>
<1>1. /\ pc = "commit" /\ table' = table \o txn.rows /\ runs' = runs \o txn.runs
      /\ Advance(Len(rows)) /\ UNCHANGED <<now, faults>>
  BY DEF Commit
<1>2. /\ txn.rows = rows /\ txn.runs = <<Run(Len(rows), "ok")>> /\ rows # <<>>
      /\ \A i \in DOMAIN rows : rows[i].ts = now /\ rows[i].asset = Current /\ rows[i].spot = startedAt
      /\ \A i, j \in DOMAIN rows : rows[i].instrument = rows[j].instrument => i = j
  BY <1>1 DEF HandInv, Storing
<1>3. table \in Seq(Row) /\ rows \in Seq(Row) /\ runs \in Seq(RunRow)
  BY DEF TypeInv
<1>4. Len(rows) \in Nat /\ Len(rows) > 0 /\ Len(table) \in Nat
      /\ DOMAIN rows = 1..Len(rows) /\ DOMAIN table = 1..Len(table)
  BY <1>2, <1>3
<1>5. DOMAIN table' = DOMAIN table \cup Added /\ DOMAIN table \cap Added = {}
  <2>1. table' \in Seq(Row) /\ Len(table') = Len(table) + Len(rows)
    BY <1>1, <1>2, <1>3
  <2>2. DOMAIN table' = 1..(Len(table) + Len(rows))
    BY <2>1
  <2> QED BY <1>4, <2>2 DEF Added
<1>6. IsFiniteSet(Added) /\ Cardinality(Added) = Len(rows)
  <2> DEFINE a == Len(table) + 1
             b == Len(table) + Len(rows)
  <2>1. a \in Int /\ b \in Int /\ ~(a > b) /\ b - a + 1 = Len(rows)
    BY <1>4
  <2> HIDE DEF a, b
  <2>2. IsFiniteSet(a..b) /\ Cardinality(a..b) = Len(rows)
    BY <2>1, FS_Interval
  <2> QED BY <2>2 DEF a, b, Added
<1>7. \A i \in DOMAIN table : table'[i] = table[i]
  BY <1>1, <1>2, <1>3
<1>8. \A i \in Added : i - Len(table) \in DOMAIN rows /\ table'[i] = rows[i - Len(table)]
  BY <1>1, <1>2, <1>3, <1>4 DEF Added
<1>9. \A i \in Added : table'[i].ts = now /\ table'[i].asset = Current /\ table'[i].spot = startedAt
  BY <1>2, <1>8
<1>10. ASSUME NEW i \in Added, NEW j \in Added, table'[i].instrument = table'[j].instrument
       PROVE  i = j
  <2>1. i - Len(table) = j - Len(table)
    BY <1>2, <1>8, <1>10
  <2>2. i \in Nat /\ j \in Nat
    BY <1>4 DEF Added
  <2> QED BY <1>4, <2>1, <2>2
<1>11. runs' = Append(runs, Run(Len(rows), "ok"))
  BY <1>1, <1>2, <1>3
<1> QED BY <1>1, <1>4, <1>5, <1>6, <1>7, <1>9, <1>10, <1>11

LEMMA AppendIs ==
  ASSUME TypeInv, NEW r, runs' = Append(runs, r)
  PROVE  /\ DOMAIN runs' = DOMAIN runs \cup {Len(runs) + 1} /\ Len(runs) + 1 \notin DOMAIN runs
         /\ runs'[Len(runs) + 1] = r
         /\ \A n \in DOMAIN runs : runs'[n] = runs[n]
<1>1. runs \in Seq(RunRow) /\ Len(runs) \in Nat /\ DOMAIN runs = 1..Len(runs)
  BY DEF TypeInv
<1>2. DOMAIN runs' = 1..(Len(runs) + 1)
  BY <1>1
<1>3. runs'[Len(runs) + 1] = r /\ \A n \in DOMAIN runs : runs'[n] = runs[n]
  BY <1>1
<1> QED BY <1>1, <1>2, <1>3

LEMMA TableIs ==
  ASSUME TypeInv
  PROVE  /\ \A i \in DOMAIN table : /\ table[i].ts \in Nat /\ table[i].spot \in Nat
                                    /\ table[i].asset \in Asset
         /\ \A n \in DOMAIN runs : /\ runs[n].startedAt \in Nat /\ runs[n].endedAt \in Nat
                                   /\ runs[n].asset \in Asset /\ runs[n].rowsAdded \in Nat
         /\ IsFiniteSet(DOMAIN table) /\ IsFiniteSet(DOMAIN runs)
<1>1. table \in Seq(Row) /\ runs \in Seq(RunRow)
  BY DEF TypeInv
<1>2. \A i \in DOMAIN table : table[i] \in Row
  BY <1>1
<1>3. \A n \in DOMAIN runs : runs[n] \in RunRow
  BY <1>1
<1>4. IsFiniteSet(DOMAIN table)
  <2>1. DOMAIN table = 1..Len(table) /\ Len(table) \in Int
    BY <1>1
  <2> QED BY <2>1, FS_Interval
<1>5. IsFiniteSet(DOMAIN runs)
  <2>1. DOMAIN runs = 1..Len(runs) /\ Len(runs) \in Int
    BY <1>1
  <2> QED BY <2>1, FS_Interval
<1> QED BY <1>2, <1>3, <1>4, <1>5 DEF Row, RunRow

(* Nothing of an asset in hand was stored at this moment.                     *)
LEMMA Earlier ==
  ASSUME TypeInv, ClockInv, DoneInv, RowsInv, pc \in {"spot", "chain", "error"} \cup Storing
  PROVE  \A i \in Stored(Current) : table[i].ts < cycleAt /\ table[i].ts < now
<1>1. Current \notin DOMAIN results
  BY NotYetDone
<1>2. pc # "down"
  BY DEF Storing
<1>3. cycleAt <= now /\ cycleAt \in Nat /\ now \in Nat
  <2>1. cycleAt \in Nat /\ startedAt \in Nat /\ sentAt \in Nat /\ now \in Nat
    BY Numbers DEF TypeInv
  <2> QED BY <2>1 DEF ClockInv
<1>4. \A i \in Stored(Current) : table[i].ts < cycleAt /\ table[i].ts \in Nat
  BY <1>1, <1>2, TableIs DEF RowsInv, Stored
<1> QED BY <1>3, <1>4

-----------------------------------------------------------------------------
(* What every step does to what is stored                                  *)

(* A step that stores nothing: the log may gain a failure.                    *)
Quiet ==
  /\ table' = table
  /\ DOMAIN runs \subseteq DOMAIN runs'
  /\ \A n \in DOMAIN runs : runs'[n] = runs[n]
  /\ \A n \in DOMAIN runs' : runs'[n].status = "ok" => n \in DOMAIN runs

LEMMA StepIs == ASSUME TypeInv, HandInv, [Next]_vars PROVE Commit \/ Quiet
<1>1. CASE LogError
  <2>1. table' = table /\ (runs' = Append(runs, Run(0, "error")) \/ runs' = runs)
    BY <1>1 DEF LogError
  <2>2. CASE runs' = runs
    BY <2>1, <2>2 DEF Quiet
  <2>3. CASE runs' = Append(runs, Run(0, "error"))
    <3>1. Run(0, "error").status = "error"
      BY RunIs
    <3> QED BY <2>1, <2>3, <3>1, AppendIs DEF Quiet
  <2> QED BY <2>1, <2>2, <2>3
<1>2. CASE UNCHANGED <<table, runs>>
  BY <1>2 DEF Quiet
<1>3. \/ Commit \/ LogError \/ UNCHANGED <<table, runs>>
  BY DEF Next, Collect, FetchSpot, FetchChain, EmptyChain, FetchFails, InsertRow, LogRun, Rollback,
         NextCycle, Leave, Signal, Cancel, Crash, Restart, Tick, vars, db
<1> QED BY <1>1, <1>2, <1>3

LEMMA CommitAt ==
  ASSUME Commit
  PROVE  pc = "commit" /\ pc \in Storing /\ pc \in {"spot", "chain", "error"} \cup Storing
  BY DEF Commit, Storing

LEMMA RunsNext ==
  ASSUME TypeInv, ClockInv, HandInv, DoneInv, RunsInv, RowsInv, [Next]_vars
  PROVE  RunsInv'
<1>1. CASE Quiet
  <2>1. \A a, t : Frame(a, t)' = Frame(a, t)
    BY <1>1 DEF Quiet, Frame, Stored
  <2>2. \A n \in DOMAIN runs' : Ok(n)' => n \in DOMAIN runs /\ Ok(n) /\ runs'[n] = runs[n]
    BY <1>1 DEF Quiet, Ok
  <2>3. \A n \in DOMAIN runs : Ok(n) => n \in DOMAIN runs' /\ Ok(n)' /\ runs'[n] = runs[n]
    BY <1>1 DEF Quiet, Ok
  <2>4. ASSUME NEW n \in DOMAIN runs', Ok(n)'
        PROVE  /\ runs'[n].startedAt <= runs'[n].endedAt
               /\ IsOf(Frame(runs[n].asset, runs[n].endedAt), runs[n].endedAt, runs[n])'
               /\ runs'[n].rowsAdded > 0
    <3>1. /\ runs[n].startedAt <= runs[n].endedAt /\ runs[n].rowsAdded > 0
          /\ IsOf(Frame(runs[n].asset, runs[n].endedAt), runs[n].endedAt, runs[n])
      BY <2>2, <2>4 DEF RunsInv
    <3>2. runs'[n] = runs[n] /\ table' = table
      BY <1>1, <2>2, <2>4 DEF Quiet
    <3>3. Frame(runs[n].asset, runs[n].endedAt)' = Frame(runs[n].asset, runs[n].endedAt)
      BY <3>2 DEF Frame, Stored
    <3> QED BY <3>1, <3>2, <3>3 DEF IsOf
  <2>5. \A m, n \in DOMAIN runs' :
          Ok(m)' /\ Ok(n)' /\ runs'[m].asset = runs'[n].asset /\ runs'[m].endedAt = runs'[n].endedAt => m = n
    BY <2>2 DEF RunsInv
  <2>6. \A i \in DOMAIN table' : \E n \in DOMAIN runs' :
          Ok(n)' /\ runs'[n].asset = table'[i].asset /\ runs'[n].endedAt = table'[i].ts
    BY <1>1, <2>3 DEF RunsInv, Quiet
  <2> QED BY <2>4, <2>5, <2>6 DEF RunsInv
<1>2. CASE Commit
  <2> DEFINE k == Len(rows)
             z == Len(runs) + 1
  <2>1. /\ DOMAIN table' = DOMAIN table \cup Added /\ DOMAIN table \cap Added = {}
        /\ IsFiniteSet(Added) /\ Cardinality(Added) = k /\ k \in Nat /\ k > 0
        /\ \A i \in DOMAIN table : table'[i] = table[i]
        /\ \A i \in Added : table'[i].ts = now /\ table'[i].asset = Current
        /\ \A i, j \in Added : table'[i].instrument = table'[j].instrument => i = j
        /\ runs' = Append(runs, Run(k, "ok"))
    BY <1>2, CommitIs
  <2>2. /\ DOMAIN runs' = DOMAIN runs \cup {z} /\ z \notin DOMAIN runs
        /\ runs'[z] = Run(k, "ok") /\ \A n \in DOMAIN runs : runs'[n] = runs[n]
    BY <2>1, AppendIs
  <2>3. /\ runs'[z].startedAt = startedAt /\ runs'[z].endedAt = now /\ runs'[z].asset = Current
        /\ runs'[z].rowsAdded = k /\ runs'[z].status = "ok"
    BY <2>1, <2>2, RunIs
  <2>4. \A i \in Stored(Current) : table[i].ts < now /\ table[i].ts # now
    <3>1. \A i \in Stored(Current) : table[i].ts < now /\ table[i].ts \in Nat
      BY <1>2, CommitAt, Earlier, TableIs DEF Stored
    <3>2. now \in Nat
      BY Numbers DEF TypeInv
    <3> QED BY <3>1, <3>2
  <2> HIDE DEF k, z
  <2>5. ASSUME NEW n \in DOMAIN runs, Ok(n), runs[n].asset = Current PROVE runs[n].endedAt # now
    <3>1. Cardinality(Frame(Current, runs[n].endedAt)) = runs[n].rowsAdded /\ runs[n].rowsAdded > 0
      BY <2>5 DEF RunsInv, IsOf
    <3>2. Frame(Current, runs[n].endedAt) # {}
      <4>1. Cardinality({}) = 0
        BY FS_EmptySet
      <4> QED BY <3>1, <4>1
    <3>3. PICK i \in Stored(Current) : table[i].ts = runs[n].endedAt
      BY <3>2 DEF Frame
    <3> QED BY <2>4, <3>3
  <2>6. ASSUME NEW a, NEW t
        PROVE  {i \in DOMAIN table' : table'[i].asset = a /\ table'[i].ts = t}
                 = Frame(a, t) \cup (IF a = Current /\ t = now THEN Added ELSE {})
    BY <2>1 DEF Frame, Stored
  <2>7. Frame(Current, now) = {}
    BY <2>4 DEF Frame
  <2>8. ASSUME NEW n \in DOMAIN runs', Ok(n)'
        PROVE  /\ runs'[n].startedAt <= runs'[n].endedAt
               /\ IsOf(Frame(runs[n].asset, runs[n].endedAt), runs[n].endedAt, runs[n])'
               /\ runs'[n].rowsAdded > 0
    <3> DEFINE f == {i \in DOMAIN table' : table'[i].asset = runs'[n].asset /\ table'[i].ts = runs'[n].endedAt}
    <3>1. CASE n = z
      <4>1. f = Added
        BY <2>3, <2>6, <2>7, <3>1
      <4>2. startedAt <= now /\ startedAt \in Nat /\ now \in Nat
        <5>1. startedAt \in Nat /\ sentAt \in Nat /\ now \in Nat
          BY Numbers DEF TypeInv
        <5> QED BY <5>1 DEF ClockInv
      <4>3. now \in startedAt..now
        BY <4>2
      <4>4. \A i, j \in f : table'[i].instrument = table'[j].instrument => i = j
        BY <2>1, <4>1
      <4>5. Cardinality(f) = runs'[n].rowsAdded
        BY <2>1, <2>3, <3>1, <4>1
      <4>6. runs'[n].startedAt = startedAt /\ runs'[n].endedAt = now /\ runs'[n].rowsAdded > 0
        BY <2>1, <2>3, <3>1
      <4> HIDE DEF f
      <4>7. f = Frame(runs[n].asset, runs[n].endedAt)'
        BY DEF f, Frame, Stored
      <4> QED BY <4>2, <4>3, <4>4, <4>5, <4>6, <4>7 DEF IsOf
    <3>2. CASE n # z
      <4>1. n \in DOMAIN runs /\ runs'[n] = runs[n] /\ Ok(n)
        BY <2>2, <2>8, <3>2 DEF Ok
      <4>2. /\ runs[n].startedAt <= runs[n].endedAt /\ runs[n].rowsAdded > 0
            /\ IsOf(Frame(runs[n].asset, runs[n].endedAt), runs[n].endedAt, runs[n])
        BY <4>1 DEF RunsInv
      <4>3. f = Frame(runs[n].asset, runs[n].endedAt)
        BY <2>5, <2>6, <4>1
      <4>4. f = Frame(runs[n].asset, runs[n].endedAt)'
        BY DEF Frame, Stored
      <4> HIDE DEF f
      <4>5. \A i \in f : table'[i] = table[i]
        BY <2>1, <4>3 DEF Frame, Stored
      <4> QED BY <4>1, <4>2, <4>3, <4>4, <4>5 DEF IsOf
    <3> QED BY <3>1, <3>2
  <2>9. ASSUME NEW m \in DOMAIN runs', NEW n \in DOMAIN runs', Ok(m)', Ok(n)',
               runs'[m].asset = runs'[n].asset, runs'[m].endedAt = runs'[n].endedAt
        PROVE  m = n
    <3>1. ASSUME NEW l \in DOMAIN runs', Ok(l)', l # z PROVE l \in DOMAIN runs /\ runs'[l] = runs[l] /\ Ok(l)
      BY <2>2, <3>1 DEF Ok
    <3>2. CASE m # z /\ n # z
      BY <2>9, <3>1, <3>2 DEF RunsInv
    <3>3. CASE m = z /\ n # z
      BY <2>3, <2>5, <2>9, <3>1, <3>3
    <3>4. CASE n = z /\ m # z
      BY <2>3, <2>5, <2>9, <3>1, <3>4
    <3> QED BY <3>2, <3>3, <3>4
  <2>10. ASSUME NEW i \in DOMAIN table'
         PROVE  \E n \in DOMAIN runs' :
                  Ok(n)' /\ runs'[n].asset = table'[i].asset /\ runs'[n].endedAt = table'[i].ts
    <3>1. CASE i \in Added
      BY <2>1, <2>2, <2>3, <3>1 DEF Ok
    <3>2. CASE i \in DOMAIN table
      <4>1. PICK n \in DOMAIN runs : Ok(n) /\ runs[n].asset = table[i].asset /\ runs[n].endedAt = table[i].ts
        BY <3>2 DEF RunsInv
      <4>2. n \in DOMAIN runs' /\ runs'[n] = runs[n] /\ table'[i] = table[i]
        BY <2>1, <2>2, <3>2, <4>1
      <4> QED BY <4>1, <4>2 DEF Ok
    <3> QED BY <2>1, <3>1, <3>2
  <2> QED BY <2>8, <2>9, <2>10 DEF RunsInv
<1> QED BY <1>1, <1>2, StepIs

(* Where a step leaves the time, the cycle and the table.                     *)
LEMMA Passing ==
  ASSUME TypeInv, ClockInv, HandInv, DoneInv, [Next]_vars
  PROVE  /\ now' \in Nat /\ now <= now' /\ cycleAt' \in Nat /\ cycleAt <= cycleAt'
         /\ \/ DOMAIN results \subseteq DOMAIN results' /\ cycleAt' = cycleAt /\ (pc' # "down" => pc # "down")
            \/ /\ NextCycle /\ pc = "sleep" /\ cycleAt' = now /\ now >= cycleAt + Interval
            \/ /\ pc' = "down" /\ cycleAt' = now
            \/ /\ pc = "down" /\ now < cycleAt'
<1>1. now \in Nat /\ cycleAt \in Nat /\ startedAt \in Nat /\ sentAt \in Nat
  BY Numbers DEF TypeInv
<1>2. cycleAt <= now
  BY <1>1 DEF ClockInv
<1>3. ASSUME NEW n \in Nat, Advance(n)
      PROVE  DOMAIN results \subseteq DOMAIN results' /\ cycleAt' = cycleAt /\ pc' # "down"
  BY <1>3, AdvanceIs
<1>4. CASE EmptyChain \/ LogError
  BY <1>1, <1>3, <1>4 DEF EmptyChain, LogError, InFlight
<1>5. CASE Commit
  <2>1. Len(rows) \in Nat
    BY DEF TypeInv
  <2> QED BY <1>1, <1>3, <1>5, <2>1 DEF Commit
<1>6. CASE NextCycle
  BY <1>1, <1>2, <1>6 DEF NextCycle, WakeAt
<1>7. CASE Crash
  BY <1>1, <1>2, <1>7 DEF Crash
<1>8. CASE Restart
  BY <1>1, <1>2, <1>8 DEF Restart
<1>9. CASE Tick
  <2>1. now' = now + 1 /\ UNCHANGED <<pc, cycleAt, results>>
    BY <1>9 DEF Tick, progress
  <2> QED BY <1>1, <2>1
<1>10. CASE FetchSpot \/ FetchChain \/ FetchFails \/ InsertRow \/ LogRun \/ Rollback \/ Leave \/ Cancel
  BY <1>1, <1>10 DEF FetchSpot, FetchChain, FetchFails, InsertRow, LogRun, Rollback, Leave, Cancel, InFlight
<1>11. CASE Signal \/ UNCHANGED vars
  BY <1>1, <1>11 DEF Signal, vars, progress
<1> QED
  BY <1>4, <1>5, <1>6, <1>7, <1>8, <1>9, <1>10, <1>11 DEF Next, Collect

LEMMA RowsNext ==
  ASSUME TypeInv, ClockInv, HandInv, DoneInv, RowsInv, [Next]_vars
  PROVE  RowsInv'
<1> DEFINE Right(r, t, c) ==
             /\ r.ts <= t /\ r.ts <= c + CycleTime
             /\ r.spot <= r.ts /\ r.ts <= r.spot + 2 * Timeout
<1>1. /\ now' \in Nat /\ now <= now' /\ cycleAt' \in Nat /\ cycleAt <= cycleAt'
      /\ now \in Nat /\ cycleAt \in Nat /\ startedAt \in Nat /\ sentAt \in Nat
      /\ CycleTime \in Nat /\ Timeout \in Nat /\ Interval \in Nat /\ Interval > CycleTime
  <2>1. now' \in Nat /\ now <= now' /\ cycleAt' \in Nat /\ cycleAt <= cycleAt'
    BY Passing
  <2>2. now \in Nat /\ cycleAt \in Nat /\ startedAt \in Nat /\ sentAt \in Nat
    BY Numbers DEF TypeInv
  <2> QED BY <2>1, <2>2, Numbers
<1>2. ASSUME NEW i \in DOMAIN table PROVE Right(table[i], now', cycleAt')
  <2>1. table[i].ts \in Nat
    BY TableIs
  <2>2. Right(table[i], now, cycleAt)
    BY DEF RowsInv
  <2> QED BY <1>1, <2>1, <2>2
<1>3. ASSUME NEW i \in DOMAIN table, pc' # "down", table[i].asset \notin DOMAIN results'
      PROVE  table[i].ts < cycleAt'
  <2>1. table[i].ts \in Nat /\ table[i].asset \in Asset /\ Right(table[i], now, cycleAt)
    BY TableIs DEF RowsInv
  <2>2. CASE DOMAIN results \subseteq DOMAIN results' /\ cycleAt' = cycleAt /\ (pc' # "down" => pc # "down")
    BY <1>3, <2>2 DEF RowsInv
  <2>3. CASE NextCycle /\ cycleAt' = now /\ now >= cycleAt + Interval
    BY <1>1, <2>1, <2>3
  <2>4. CASE pc = "down" /\ now < cycleAt'
    BY <1>1, <2>1, <2>4
  <2> QED BY <1>3, <2>2, <2>3, <2>4, Passing
<1>4. CASE Quiet
  BY <1>2, <1>3, <1>4 DEF Quiet, RowsInv
<1>5. CASE Commit
  <2>1. /\ DOMAIN table' = DOMAIN table \cup Added
        /\ \A i \in DOMAIN table : table'[i] = table[i]
        /\ \A i \in Added : table'[i].ts = now /\ table'[i].asset = Current /\ table'[i].spot = startedAt
        /\ Advance(Len(rows)) /\ Len(rows) \in Nat /\ now' = now
    BY <1>5, CommitIs
  <2>2. Current \in DOMAIN results' /\ cycleAt' = cycleAt
    BY <2>1, AdvanceIs
  <2>3. now <= cycleAt + CycleTime /\ startedAt <= now /\ now <= startedAt + 2 * Timeout
    <3>1. at \in 1..Len(Assets)
      BY DEF TypeInv
    <3>2. Due(at) \in Nat /\ Due(at) + 2 * Timeout <= CycleTime
      BY <3>1, DueIs
    <3>3. /\ startedAt <= sentAt /\ sentAt <= now /\ startedAt <= cycleAt + Due(at)
          /\ now <= startedAt + 2 * Timeout
      BY <1>5, CommitAt DEF ClockInv
    <3> QED BY <1>1, <3>2, <3>3
  <2>4. \A i \in Added : Right(table'[i], now', cycleAt')
    BY <1>1, <2>1, <2>2, <2>3
  <2> QED BY <1>2, <1>3, <2>1, <2>2, <2>4 DEF RowsInv
<1> QED BY <1>4, <1>5, StepIs

LEMMA GainNext ==
  ASSUME TypeInv, ClockInv, HandInv, DoneInv, RowsInv, GainInv, [Next]_vars
  PROVE  GainInv'
<1> DEFINE G(a) == {i \in DOMAIN table' : table'[i].asset = a /\ table'[i].ts >= cycleAt'}
<1>1. \A a : Gained(a)' = G(a)
  BY DEF Gained, Stored
<1>2. SUFFICES \A a \in DOMAIN results' : results'[a] = Cardinality(G(a))
  BY <1>1 DEF GainInv, Gained, Stored
<1>3. now \in Nat /\ cycleAt \in Nat
  BY Numbers DEF TypeInv
<1>4. ASSUME table' = table, cycleAt' = cycleAt PROVE \A a : G(a) = Gained(a)
  BY <1>4 DEF Gained, Stored
<1>5. ASSUME pc \in {"spot", "chain", "error"} \cup Storing PROVE Gained(Current) = {}
  <2>1. \A i \in Stored(Current) : table[i].ts < cycleAt /\ table[i].ts \in Nat
    BY <1>5, Earlier, TableIs DEF Stored
  <2> QED BY <1>3, <2>1 DEF Gained
<1>6. CASE EmptyChain \/ LogError
  <2>1. /\ Advance(0) /\ table' = table
        /\ pc \in {"spot", "chain", "error"} \cup Storing
    BY <1>6 DEF EmptyChain, LogError, db
  <2>2. cycleAt' = cycleAt /\ DOMAIN results' = DOMAIN results \cup {Current}
        /\ results'[Current] = 0
        /\ \A a \in DOMAIN results : a # Current => results'[a] = results[a]
    BY <2>1, AdvanceIs
  <2>3. \A a : G(a) = Gained(a)
    BY <1>4, <2>1, <2>2
  <2>4. Gained(Current) = {}
    BY <1>5, <2>1
  <2>5. results'[Current] = Cardinality(G(Current))
    BY <2>2, <2>3, <2>4, FS_EmptySet
  <2> HIDE DEF G
  <2> QED BY <2>2, <2>3, <2>5 DEF GainInv
<1>7. CASE Commit
  <2> DEFINE k == Len(rows)
  <2>1. /\ DOMAIN table' = DOMAIN table \cup Added /\ DOMAIN table \cap Added = {}
        /\ Cardinality(Added) = k /\ k \in Nat
        /\ \A i \in DOMAIN table : table'[i] = table[i]
        /\ \A i \in Added : table'[i].ts = now /\ table'[i].asset = Current
        /\ Advance(k)
    BY <1>7, CommitIs
  <2>2. cycleAt' = cycleAt /\ DOMAIN results' = DOMAIN results \cup {Current}
        /\ results'[Current] = k
        /\ \A a \in DOMAIN results : a # Current => results'[a] = results[a]
    BY <2>1, AdvanceIs
  <2> HIDE DEF k
  <2>3. Gained(Current) = {}
    BY <1>5, <1>7, CommitAt
  <2>4. now >= cycleAt
    <3>1. startedAt \in Nat /\ sentAt \in Nat
      BY DEF TypeInv
    <3> QED BY <1>3, <3>1 DEF ClockInv
  <2>5. G(Current) = Added
    BY <2>1, <2>2, <2>3, <2>4 DEF Gained, Stored
  <2>6. ASSUME NEW a, a # Current PROVE G(a) = Gained(a)
    BY <2>1, <2>2, <2>6 DEF Gained, Stored
  <2>7. results'[Current] = Cardinality(G(Current))
    BY <2>1, <2>2, <2>5
  <2> HIDE DEF G
  <2> QED BY <2>2, <2>6, <2>7 DEF GainInv
<1>8. CASE NextCycle \/ Crash
  <2>1. results' = <<>>
    BY <1>8 DEF NextCycle, Crash
  <2>2. DOMAIN results' = {}
    BY <2>1
  <2> QED BY <2>2
<1>9. CASE Restart
  <2>1. DOMAIN results' = {}
    BY <1>9 DEF Restart, DoneInv
  <2> QED BY <2>1
<1>10. CASE UNCHANGED <<table, results, cycleAt>>
  <2>1. \A a : G(a) = Gained(a)
    BY <1>4, <1>10
  <2> HIDE DEF G
  <2> QED BY <1>10, <2>1 DEF GainInv
<1>11. \/ EmptyChain \/ LogError \/ Commit \/ NextCycle \/ Crash \/ Restart
       \/ UNCHANGED <<table, results, cycleAt>>
  BY DEF Next, Collect, FetchSpot, FetchChain, FetchFails, InsertRow, LogRun, Rollback,
         Leave, Signal, Cancel, Tick, vars, db, progress
<1> QED BY <1>6, <1>7, <1>8, <1>9, <1>10, <1>11

LEMMA PaceNext ==
  ASSUME TypeInv, ClockInv, HandInv, DoneInv, RowsInv, PaceInv, [Next]_vars
  PROVE  PaceInv'
<1> DEFINE Near(i) == \/ \A j \in DOMAIN table : Sibling(i, j) => table[j].ts >= table[i].ts
                      \/ \E j \in DOMAIN table : /\ Sibling(i, j)
                                                 /\ table[j].ts < table[i].ts
                                                 /\ table[i].ts <= table[j].ts + MaxGap
<1> SUFFICES ASSUME faults' = 0 PROVE PaceInv'
  BY DEF PaceInv
<1>1. /\ now \in Nat /\ cycleAt \in Nat /\ faults \in Nat
      /\ Interval \in Nat /\ CycleTime \in Nat /\ MaxGap \in Nat /\ MaxGap >= Interval + CycleTime
  BY Numbers DEF TypeInv
<1>2. ~Fault
  BY <1>1 DEF Fault
<1>3. faults = 0
  <2>1. \/ UNCHANGED faults \/ Fault
    BY DEF Next, Collect, FetchSpot, FetchChain, EmptyChain, FetchFails, InsertRow, LogRun, Commit,
           Rollback, LogError, NextCycle, Leave, Signal, Cancel, Crash, Restart, Tick, vars
  <2> QED BY <1>2, <2>1
<1>4. /\ pc \notin {"error", "down"}
      /\ \A i \in DOMAIN table :
           /\ \E j \in DOMAIN table : Sibling(i, j) /\ table[j].ts >= cycleAt - Interval
           /\ table[i].asset \in DOMAIN results
                => \E j \in DOMAIN table : Sibling(i, j) /\ table[j].ts >= cycleAt
           /\ Near(i)
  BY <1>3 DEF PaceInv
<1>5. CASE Commit
  <2>1. /\ DOMAIN table' = DOMAIN table \cup Added /\ DOMAIN table \cap Added = {}
        /\ Cardinality(Added) = Len(rows) /\ Len(rows) \in Nat /\ Len(rows) > 0
        /\ \A i \in DOMAIN table : table'[i] = table[i]
        /\ \A i \in Added : table'[i].ts = now /\ table'[i].asset = Current
        /\ Advance(Len(rows))
    BY <1>5, CommitIs
  <2>2. cycleAt' = cycleAt /\ DOMAIN results' = DOMAIN results \cup {Current} /\ pc' \notin {"error", "down"}
    BY <2>1, AdvanceIs
  <2>3. PICK w \in Added : TRUE
    <3>1. Cardinality({}) = 0
      BY FS_EmptySet
    <3> QED BY <2>1, <3>1
  <2>4. /\ w \in DOMAIN table' /\ table'[w].ts = now /\ table'[w].asset = Current
        /\ now >= cycleAt /\ now <= cycleAt + CycleTime
    <3>1. startedAt \in Nat /\ sentAt \in Nat /\ at \in 1..Len(Assets) /\ Timeout \in Nat
      BY Numbers DEF TypeInv
    <3>2. Due(at) \in Nat /\ Due(at) + 2 * Timeout <= CycleTime
      BY <3>1, DueIs
    <3>3. /\ cycleAt <= startedAt /\ startedAt <= sentAt /\ sentAt <= now /\ startedAt <= cycleAt + Due(at)
          /\ now <= startedAt + 2 * Timeout
      BY <1>5, CommitAt DEF ClockInv
    <3>4. now >= cycleAt /\ now <= cycleAt + CycleTime
      BY <1>1, <3>1, <3>2, <3>3
    <3> QED BY <2>1, <2>3, <3>4
  <2>5. \A i \in Stored(Current) : table[i].ts < cycleAt /\ table[i].ts < now /\ table[i].ts \in Nat
    BY <1>5, CommitAt, Earlier, TableIs DEF Stored
  <2>6. ASSUME NEW i \in DOMAIN table'
        PROVE  /\ \E j \in DOMAIN table' : Sibling(i, j)' /\ table'[j].ts >= cycleAt' - Interval
               /\ table'[i].asset \in DOMAIN results'
                    => \E j \in DOMAIN table' : Sibling(i, j)' /\ table'[j].ts >= cycleAt'
    <3>1. CASE table'[i].asset = Current
      <4>1. Sibling(i, w)' /\ table'[w].ts >= cycleAt'
        BY <2>2, <2>4, <3>1 DEF Sibling
      <4>2. table'[w].ts >= cycleAt' - Interval
        BY <1>1, <2>2, <2>4
      <4> QED BY <2>4, <4>1, <4>2
    <3>2. CASE table'[i].asset # Current
      <4>1. i \in DOMAIN table /\ table'[i] = table[i]
        BY <2>1, <3>2
      <4>2. PICK j \in DOMAIN table : Sibling(i, j) /\ table[j].ts >= cycleAt - Interval
        BY <1>4, <4>1
      <4>3. j \in DOMAIN table' /\ table'[j] = table[j]
        BY <2>1, <4>2
      <4>4. Sibling(i, j)' /\ table'[j].ts >= cycleAt' - Interval
        BY <2>2, <4>1, <4>2, <4>3 DEF Sibling
      <4>5. ASSUME table'[i].asset \in DOMAIN results'
            PROVE  \E l \in DOMAIN table' : Sibling(i, l)' /\ table'[l].ts >= cycleAt'
        <5>1. table[i].asset \in DOMAIN results
          BY <2>2, <3>2, <4>1, <4>5
        <5>2. PICK l \in DOMAIN table : Sibling(i, l) /\ table[l].ts >= cycleAt
          BY <1>4, <4>1, <5>1
        <5>3. l \in DOMAIN table' /\ table'[l] = table[l]
          BY <2>1, <5>2
        <5> QED BY <2>2, <4>1, <5>2, <5>3 DEF Sibling
      <4> QED BY <4>3, <4>4, <4>5
    <3> QED BY <3>1, <3>2
  <2>7. ASSUME NEW i \in DOMAIN table' PROVE Near(i)'
    <3>1. CASE i \in DOMAIN table
      <4>1. table'[i] = table[i] /\ table[i].ts <= now
        BY <2>1, <3>1 DEF RowsInv
      <4>2. CASE \A j \in DOMAIN table : Sibling(i, j) => table[j].ts >= table[i].ts
        <5>1. ASSUME NEW j \in DOMAIN table', Sibling(i, j)' PROVE table'[j].ts >= table'[i].ts
          <6>1. CASE j \in DOMAIN table
            BY <2>1, <4>1, <4>2, <5>1, <6>1 DEF Sibling
          <6>2. CASE j \in Added
            <7>1. table'[j].ts = now /\ table[i].ts \in Nat
              BY <2>1, <3>1, <6>2, TableIs
            <7> QED BY <1>1, <4>1, <7>1
          <6> QED BY <2>1, <6>1, <6>2
        <5> QED BY <5>1
      <4>3. ASSUME NEW j \in DOMAIN table, Sibling(i, j), table[j].ts < table[i].ts,
                   table[i].ts <= table[j].ts + MaxGap
            PROVE  Near(i)'
        <5>1. j \in DOMAIN table' /\ table'[j] = table[j]
          BY <2>1
        <5> QED BY <4>1, <4>3, <5>1 DEF Sibling
      <4> QED BY <1>4, <3>1, <4>2, <4>3
    <3>2. CASE i \in Added
      <4>1. table'[i].ts = now /\ table'[i].asset = Current
        BY <2>1, <3>2
      <4>2. CASE Stored(Current) = {}
        <5>1. ASSUME NEW j \in DOMAIN table', Sibling(i, j)' PROVE table'[j].ts >= table'[i].ts
          <6>1. table'[j].asset = Current
            BY <4>1, <5>1 DEF Sibling
          <6>2. j \in Added
            BY <2>1, <4>2, <6>1 DEF Stored
          <6>3. table'[j].ts = now
            BY <2>1, <6>2
          <6> QED BY <1>1, <4>1, <6>3
        <5> QED BY <5>1
      <4>3. CASE Stored(Current) # {}
        <5>1. PICK l \in DOMAIN table : table[l].asset = Current
          BY <4>3 DEF Stored
        <5>2. PICK j \in DOMAIN table : Sibling(l, j) /\ table[j].ts >= cycleAt - Interval
          BY <1>4, <5>1
        <5>3. table[j].asset = Current /\ j \in Stored(Current)
          BY <5>1, <5>2 DEF Sibling, Stored
        <5>4. table[j].ts < now /\ table[j].ts \in Nat
          BY <2>5, <5>3
        <5>5. now <= table[j].ts + MaxGap
          BY <1>1, <2>4, <5>2, <5>4
        <5>6. j \in DOMAIN table' /\ table'[j] = table[j]
          BY <2>1, <5>2
        <5>7. Sibling(i, j)'
          BY <4>1, <5>3, <5>6 DEF Sibling
        <5> QED BY <4>1, <5>4, <5>5, <5>6, <5>7
      <4> QED BY <4>2, <4>3
    <3> QED BY <2>1, <3>1, <3>2
  <2> QED BY <2>2, <2>6, <2>7 DEF PaceInv
<1>6. CASE NextCycle
  <2>1. /\ pc = "sleep" /\ pc' = "spot" /\ cycleAt' = now /\ results' = <<>> /\ table' = table
        /\ now >= cycleAt + Interval
    BY <1>6 DEF NextCycle, db, WakeAt
  <2>2. DOMAIN results = Asset /\ DOMAIN results' = {}
    BY <2>1 DEF DoneInv
  <2>3. now <= cycleAt + Interval
    BY <2>1 DEF ClockInv, WakeAt
  <2>4. cycleAt' - Interval = cycleAt
    BY <1>1, <2>1, <2>3
  <2>5. ASSUME NEW i \in DOMAIN table
        PROVE  \E j \in DOMAIN table : Sibling(i, j) /\ table[j].ts >= cycleAt' - Interval
    <3>1. table[i].asset \in DOMAIN results
      BY <2>2, TableIs
    <3> QED BY <1>4, <2>4, <3>1
  <2>6. \A i, j : Sibling(i, j)' <=> Sibling(i, j)
    BY <2>1 DEF Sibling
  <2>7. pc' \notin {"error", "down"}
    BY <2>1
  <2> QED BY <1>4, <2>1, <2>2, <2>5, <2>7 DEF PaceInv, Sibling
<1>7. CASE UNCHANGED <<table, results, cycleAt>> /\ pc' \notin {"error", "down"}
  BY <1>3, <1>7 DEF PaceInv, Sibling
<1>8. \/ Commit \/ NextCycle
      \/ UNCHANGED <<table, results, cycleAt>> /\ pc' \notin {"error", "down"}
  BY <1>2, <1>4 DEF Next, Collect, FetchSpot, FetchChain, EmptyChain, FetchFails, InsertRow, LogRun,
         Rollback, LogError, Leave, Signal, Cancel, Crash, Restart, Tick, vars, db, progress
<1> QED BY <1>5, <1>6, <1>7, <1>8

LEMMA CollectorInit == ASSUME Init PROVE CollectorInv
<1>1. TypeInv
  BY TypeInit
<1>2. DOMAIN results = {} /\ DOMAIN table = {} /\ DOMAIN runs = {} /\ 1..(at - 1) = {}
  BY DEF Init
<1>3. Due(at) = 0 /\ Timeout \in Nat
  BY Numbers DEF Init, Due
<1>4. ClockInv
  BY <1>3 DEF Init, ClockInv, InFlight, Storing
<1>5. HandInv /\ DoneInv
  BY <1>2 DEF Init, HandInv, DoneInv, Storing
<1>6. RunsInv /\ RowsInv /\ GainInv
  BY <1>2 DEF RunsInv, RowsInv, GainInv
<1>7. PaceInv
  BY <1>2 DEF Init, PaceInv
<1> QED BY <1>1, <1>4, <1>5, <1>6, <1>7 DEF CollectorInv

(* The types, the clock of a cycle, and how table, log and results go         *)
(* together at each place of a cycle (data_collector.py 148-284).             *)
THEOREM CollectorHolds == Spec => []CollectorInv
<1>1. Init => CollectorInv
  BY CollectorInit
<1>2. CollectorInv /\ [Next]_vars => CollectorInv'
  BY TypeNext, ClockNext, HandNext, DoneNext, RunsNext, RowsNext, GainNext, PaceNext DEF CollectorInv
<1> QED BY <1>1, <1>2, PTL DEF Spec

-----------------------------------------------------------------------------
(* What follows for the loaders                                            *)

LEMMA LoadIs ==
  ASSUME CollectorInv, NEW a \in Asset
  PROVE  LET frames == LoadFrames(a, 0, LastClock)
         IN  /\ DOMAIN frames = Times(Stored(a))
             /\ \A t \in DOMAIN frames : frames[t] = Frame(a, t)
             /\ Times(Stored(a)) = {runs[n].endedAt : n \in OkRuns(a)}
             /\ Times(Stored(a)) \subseteq Nat
<1> DEFINE all == {i \in Stored(a) : table[i].ts \in 0..LastClock}
<1>1. \A i \in Stored(a) : table[i].ts \in 0..LastClock
  <2>1. now \in 0..LastClock /\ LastClock \in Nat
    BY Numbers DEF CollectorInv, TypeInv
  <2>2. \A i \in DOMAIN table : table[i].ts \in Nat /\ table[i].ts <= now
    BY TableIs DEF CollectorInv, RowsInv
  <2> QED BY <2>1, <2>2 DEF Stored
<1>2. all = Stored(a)
  BY <1>1
<1>3. LoadFrames(a, 0, LastClock) = Grouped(Stored(a))
  BY <1>2 DEF LoadFrames
<1>4. Times(Stored(a)) = {runs[n].endedAt : n \in OkRuns(a)}
  <2>1. ASSUME NEW i \in Stored(a) PROVE \E n \in OkRuns(a) : runs[n].endedAt = table[i].ts
    BY DEF CollectorInv, RunsInv, OkRuns, Ok, Stored
  <2>2. ASSUME NEW n \in OkRuns(a) PROVE \E i \in Stored(a) : table[i].ts = runs[n].endedAt
    <3>1. Cardinality(Frame(a, runs[n].endedAt)) = runs[n].rowsAdded /\ runs[n].rowsAdded > 0
      BY DEF CollectorInv, RunsInv, OkRuns, Ok, IsOf
    <3>2. Cardinality({}) = 0
      BY FS_EmptySet
    <3>3. Frame(a, runs[n].endedAt) # {}
      BY <3>1, <3>2
    <3> QED BY <3>3 DEF Frame
  <2> QED BY <2>1, <2>2 DEF Times
<1>5. Times(Stored(a)) \subseteq Nat
  BY TableIs DEF CollectorInv, Times, Stored
<1> QED BY <1>3, <1>4, <1>5 DEF Grouped, Frame

LEMMA FramesFollow == ASSUME CollectorInv PROVE FramesAreWhole
<1> SUFFICES ASSUME NEW a \in Asset
             PROVE  LET frames == LoadFrames(a, 0, LastClock)
                    IN  /\ Summary(a) = [rows |-> Cardinality(UNION Range(frames)),
                                         snapshots |-> Cardinality(OkRuns(a))]
                        /\ \A t \in DOMAIN frames : \E n \in OkRuns(a) : IsOf(frames[t], t, runs[n])
                        /\ \A n \in OkRuns(a) : \E t \in DOMAIN frames : IsOf(frames[t], t, runs[n])
  BY DEF FramesAreWhole
<1> DEFINE frames == LoadFrames(a, 0, LastClock)
           ok == OkRuns(a)
           times == Times(Stored(a))
<1>1. /\ DOMAIN frames = times /\ \A t \in times : frames[t] = Frame(a, t)
      /\ times = {runs[n].endedAt : n \in ok}
  BY LoadIs
<1>2. \A n \in ok : IsOf(Frame(a, runs[n].endedAt), runs[n].endedAt, runs[n])
  BY DEF CollectorInv, RunsInv, OkRuns, Ok
<1>3. \A m, n \in ok : runs[m].endedAt = runs[n].endedAt => m = n
  BY DEF CollectorInv, RunsInv, OkRuns, Ok
<1>4. IsFiniteSet(ok)
  <2>1. IsFiniteSet(DOMAIN runs) /\ ok \in SUBSET DOMAIN runs
    BY TableIs DEF CollectorInv, OkRuns
  <2> QED BY <2>1, FS_Subset
<1>5. UNION Range(frames) = Stored(a)
  <2>1. ASSUME NEW i \in Stored(a) PROVE i \in UNION Range(frames)
    <3>1. table[i].ts \in times /\ i \in Frame(a, table[i].ts)
      BY DEF Times, Frame
    <3> HIDE DEF frames, times
    <3> QED BY <1>1, <3>1 DEF Range
  <2>2. ASSUME NEW i \in UNION Range(frames) PROVE i \in Stored(a)
    <3> HIDE DEF frames, times
    <3>1. PICK t \in times : i \in frames[t]
      BY <1>1 DEF Range
    <3> QED BY <1>1, <3>1 DEF Frame
  <2> QED BY <2>1, <2>2
<1> HIDE DEF frames, ok, times
<1>6. Cardinality(times) = Cardinality(ok)
  <2> DEFINE f == [n \in ok |-> runs[n].endedAt]
  <2>1. f \in Bijection(ok, times)
    BY <1>1, <1>3 DEF Bijection, Injection, Surjection, IsInjective
  <2>2. ExistsBijection(ok, times)
    BY <2>1 DEF ExistsBijection
  <2> QED BY <1>4, <2>2, FS_Bijection
<1>7. Summary(a) = [rows |-> Cardinality(UNION Range(frames)), snapshots |-> Cardinality(ok)]
  BY <1>5, <1>6 DEF Summary, times
<1>8. \A t \in times : \E n \in ok : IsOf(frames[t], t, runs[n])
  BY <1>1, <1>2
<1>9. \A n \in ok : \E t \in times : IsOf(frames[t], t, runs[n])
  BY <1>1, <1>2
<1> QED BY <1>1, <1>7, <1>8, <1>9 DEF frames, ok

(* TableIsTrue (data_collector.py 148-209, data_loader_db.py 105-193): what the *)
(* table holds are whole frames, each with its own spot, for which log, summary *)
(* and results account, whatever request or statement failed or crash came.     *)
THEOREM TableHolds == Spec => []TableIsTrue
<1>1. ASSUME CollectorInv PROVE TableIsTrue
  <2>1. FramesAreWhole
    BY <1>1, FramesFollow
  <2>2. SpotIsOfItsChain
    <3>1. ASSUME NEW i \in DOMAIN table
          PROVE  table[i].spot <= table[i].ts /\ table[i].ts - table[i].spot <= 2 * Timeout
      <4>1. table[i].spot \in Nat /\ table[i].ts \in Nat /\ Timeout \in Nat
        BY <1>1, TableIs, Numbers DEF CollectorInv
      <4>2. table[i].spot <= table[i].ts /\ table[i].ts <= table[i].spot + 2 * Timeout
        BY <1>1 DEF CollectorInv, RowsInv
      <4> QED BY <4>1, <4>2
    <3> QED BY <3>1 DEF SpotIsOfItsChain
  <2>3. ResultsAreTrue
    BY <1>1 DEF CollectorInv, DoneInv, GainInv, Gained, ResultsAreTrue
  <2> QED BY <2>1, <2>2, <2>3 DEF TableIsTrue
<1> QED BY <1>1, CollectorHolds, PTL

(* CadenceIsKept (data_collector.py 249-284, data_loader_db.py 123-134): while    *)
(* nothing fails the loader warns of no gap, however long requests take.          *)
THEOREM CadenceHolds == Spec => []CadenceIsKept
<1>1. ASSUME CollectorInv PROVE CadenceIsKept
  <2> SUFFICES ASSUME faults = 0, NEW a \in Asset, NEW gap \in Gaps(LoadFrames(a, 0, LastClock))
               PROVE  FALSE
    BY DEF CadenceIsKept
  <2> DEFINE times == Times(Stored(a))
             t == gap[1]
             u == gap[2]
  <2>1. DOMAIN LoadFrames(a, 0, LastClock) = times /\ times \subseteq Nat
    BY <1>1, LoadIs
  <2>2. t \in times /\ u \in times /\ u - t > MaxGap /\ \A v \in times : v <= t \/ v >= u
    BY <2>1 DEF Gaps
  <2>3. t \in Nat /\ u \in Nat /\ MaxGap \in Nat
    BY <2>1, <2>2, Numbers
  <2>4. PICK i \in Stored(a), k \in Stored(a) : table[i].ts = u /\ table[k].ts = t
    BY <2>2 DEF Times
  <2> HIDE DEF times, t, u
  <2>5. i \in DOMAIN table /\ k \in DOMAIN table /\ table[i].asset = a /\ Sibling(i, k)
    BY <2>4 DEF Stored, Sibling
  <2>6. ~(\A j \in DOMAIN table : Sibling(i, j) => table[j].ts >= table[i].ts)
    BY <2>2, <2>3, <2>4, <2>5
  <2>7. PICK j \in DOMAIN table : Sibling(i, j) /\ table[j].ts < table[i].ts
                                  /\ table[i].ts <= table[j].ts + MaxGap
    BY <1>1, <2>5, <2>6 DEF CollectorInv, PaceInv
  <2>8. table[j].ts \in times
    BY <2>5, <2>7 DEF times, Times, Stored, Sibling
  <2>9. table[j].ts \in Nat
    BY <1>1, TableIs DEF CollectorInv
  <2> QED BY <2>2, <2>3, <2>4, <2>7, <2>8, <2>9
<1> QED BY <1>1, CollectorHolds, PTL

=============================================================================
