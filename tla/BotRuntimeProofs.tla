-------------------------- MODULE BotRuntimeProofs --------------------------
(* Safety of BotRuntime for any instruments, assets and time limits. *)
EXTENDS BotRuntime, TLAPS

(* The types that the proofs need; quotes and spot prices have an age. *)
Types ==
    /\ job \in [Jobs -> {"none", "new", "waiting", "running"}]
    /\ queue \in Seq(Jobs)
    /\ holder \in Jobs \cup {"none"}
    /\ ticks \in [Jobs -> Nat]
    /\ loop \in {"up", "stopping", "down", "exited"}
    /\ quote \in [Leg -> Nat]
    /\ spot \in [Asset -> Nat]
    /\ silence \in Nat

(* While the scheduler runs, a tick has its coroutine, and that coroutine    *)
(* has the lock; once it is shut down there is no coroutine that could begin *)
(* another.  No job has two ticks.                                           *)
LockInv ==
    /\ \A j \in Jobs : job[j] = "running" <=> holder = j
    /\ \A j \in Jobs : InTick(j) /\ SchedulerRuns => job[j] = "running"
    /\ ~SchedulerRuns => \A j \in Jobs : job[j] = "none"
    /\ \A j \in Jobs : ticks[j] <= 1

SafeInv == Types /\ LockInv /\ OneTickAtATime /\ BookedLegsCovered /\ SpotIsAsFreshAsQuote

-----------------------------------------------------------------------------
(* One lemma per part. *)

(* The initial states satisfy the invariant. *)
LEMMA InitSafe == Init => SafeInv
BY FeedAssumption DEF Init, LoopInit, FeedInit, SafeInv, Types, LockInv, Jobs,
   OneTickAtATime, BookedLegsCovered, SpotIsAsFreshAsQuote, InTick, SchedulerRuns, Fresh

(* Every step keeps the types; only Queue, which appends, needs a fact of its own. *)
LEMMA TypesStay == Types /\ [Next]_vars => Types'
<1> SUFFICES ASSUME Types, [Next]_vars PROVE Types'
  OBVIOUS
<1> USE DEF Types, Jobs
<1>1. ASSUME NEW j \in Jobs, Store(j) PROVE Types'
  BY <1>1 DEF Store, loopVars, feedVars
<1>2. ASSUME NEW j \in Jobs, TickReturns(j) PROVE Types'
  BY <1>2 DEF TickReturns, TickEnds, InTick, feedVars
<1>3. ASSUME NEW j \in Jobs, NEW l \in Leg, Pick(j, l) PROVE Types'
  BY <1>3 DEF Pick, loopVars, feedVars
<1>4. CASE EnterFails
  BY <1>4 DEF EnterFails, loopVars, feedVars
<1>5. ASSUME NEW l \in Leg, Close(l) PROVE Types'
  BY <1>5 DEF Close, loopVars, feedVars
<1>6. CASE FeedSetup
  BY <1>6 DEF FeedSetup, SubscribeExtras, loopVars
<1>7. CASE FeedBreaks
  BY <1>7 DEF FeedBreaks, Lose, Watchdog, Disconnected, loopVars
<1>8. CASE FeedStep
  <2>1. CASE Connect \/ Fetch \/ Mute
    BY <1>8, <2>1 DEF FeedStep, Connect, Fetch, Mute, loopVars
  <2>2. CASE Clock
    BY <1>8, <2>2, FeedAssumption DEF FeedStep, Clock, Older, loopVars
  <2>3. ASSUME NEW l \in Leg, Ticker(l) \/ LeaveWindow(l) PROVE Types'
    BY <1>8, <2>3 DEF FeedStep, Ticker, LeaveWindow, SpotsOf, loopVars
  <2> QED
    BY <1>8, <2>1, <2>2, <2>3 DEF FeedStep
<1>9. CASE LoopStep
  <2>1. CASE Wake
    BY <1>9, <2>1 DEF LoopStep, Wake, Acquire, feedVars
  <2>2. CASE Signal \/ Shutdown
    BY <1>9, <2>2 DEF LoopStep, Signal, Shutdown, feedVars
  <2>3. ASSUME NEW j \in Jobs, Fire(j) \/ SkipHalted(j) \/ Halt(j) PROVE Types'
    BY <1>9, <2>3 DEF LoopStep, Fire, SkipHalted, Halt, feedVars
  <2>4. ASSUME NEW j \in Jobs, BeginAtOnce(j) PROVE Types'
    BY <1>9, <2>4 DEF LoopStep, BeginAtOnce, Acquire, feedVars
  <2>5. ASSUME NEW j \in Jobs, Queue(j) PROVE Types'
    <3>1. queue' \in Seq(Jobs)
      BY <2>5 DEF Queue
    <3> QED
      BY <1>9, <2>5, <3>1 DEF LoopStep, Queue, feedVars
  <2> QED
    BY <1>9, <2>1, <2>2, <2>3, <2>4, <2>5 DEF LoopStep
<1>10. CASE Teardown
  BY <1>10 DEF Teardown, Disconnected, loopVars
<1>11. CASE Exit
  BY <1>11 DEF Exit, feedVars
<1>12. CASE UNCHANGED vars
  BY <1>12 DEF vars, loopVars, feedVars
<1> QED
  BY <1>1, <1>2, <1>3, <1>4, <1>5, <1>6, <1>7, <1>8, <1>9, <1>10, <1>11, <1>12 DEF Next

(* A tick begins only with the lock free, when no tick runs. *)
LEMMA LockStays ==
    Types /\ LockInv /\ OneTickAtATime /\ [Next]_vars => LockInv' /\ OneTickAtATime'
<1> SUFFICES ASSUME Types, LockInv, OneTickAtATime, [Next]_vars
             PROVE  LockInv' /\ OneTickAtATime'
  OBVIOUS
<1> USE DEF Types, Jobs, LockInv, OneTickAtATime, InTick, SchedulerRuns
<1>1. CASE UNCHANGED loopVars
  BY <1>1 DEF loopVars
<1>2. ASSUME NEW j \in Jobs, TickReturns(j) PROVE LockInv' /\ OneTickAtATime'
  <2>1. \A k \in Jobs : k # j => ticks[k] = 0
    BY <1>2 DEF TickReturns, TickEnds
  <2>2. loop' = loop /\ ticks' = [ticks EXCEPT ![j] = @ - 1] /\ ticks[j] > 0
    BY <1>2 DEF TickReturns, TickEnds
  <2>3. CASE job[j] = "running"
    <3>1. job' = [job EXCEPT ![j] = "none"] /\ holder' = "none" /\ holder = j
      BY <1>2, <2>3 DEF TickReturns, TickEnds
    <3> QED
      BY <2>1, <2>2, <3>1
  <2>4. CASE job[j] # "running"
    <3>1. UNCHANGED <<job, holder>>
      BY <1>2, <2>4 DEF TickReturns, TickEnds
    <3> QED
      BY <2>1, <2>2, <2>4, <3>1
  <2> QED
    BY <2>3, <2>4
<1>3. CASE LoopStep
  <2>1. CASE Wake
    <3> DEFINE h == Head(queue)
    <3>1. h \in Jobs /\ job[h] = "waiting" /\ Acquire(h) /\ holder = "none" /\ loop' = loop
      BY <2>1 DEF Wake
    <3>2. \A j \in Jobs : ticks[j] = 0
      BY <3>1
    <3> HIDE DEF h
    <3> QED
      BY <3>1, <3>2 DEF Acquire
  <2>2. CASE Signal \/ Shutdown
    BY <2>2 DEF Signal, Shutdown, MayShutDown, CancelledJobs
  <2>3. ASSUME NEW j \in Jobs, BeginAtOnce(j) PROVE LockInv' /\ OneTickAtATime'
    <3>1. \A k \in Jobs : ticks[k] = 0
      BY <2>3 DEF BeginAtOnce, LockIsFree
    <3> QED
      BY <2>3, <3>1 DEF BeginAtOnce, Acquire, LockIsFree
  <2>4. ASSUME NEW j \in Jobs, Fire(j) \/ SkipHalted(j) \/ Queue(j) \/ Halt(j)
        PROVE LockInv' /\ OneTickAtATime'
    BY <2>4 DEF Fire, SkipHalted, Queue, Halt
  <2> QED
    BY <1>3, <2>1, <2>2, <2>3, <2>4 DEF LoopStep
<1>4. CASE Exit
  BY <1>4 DEF Exit
<1> QED
  BY <1>1, <1>2, <1>3, <1>4
  DEF Next, vars, Store, Pick, EnterFails, Close, FeedSetup, FeedBreaks, FeedStep, Teardown

(* Subscriptions end only with the connection, and then nothing is claimed. *)
LEMMA CoverageStays == BookedLegsCovered /\ [Next]_vars => BookedLegsCovered'
<1> SUFFICES ASSUME BookedLegsCovered, [Next]_vars PROVE BookedLegsCovered'
  OBVIOUS
<1> USE DEF BookedLegsCovered
<1>1. ASSUME NEW j \in Jobs, Store(j) PROVE BookedLegsCovered'
  BY <1>1 DEF Store, Rebook, feedVars
<1>2. ASSUME NEW l \in Leg, Close(l) PROVE BookedLegsCovered'
  BY <1>2 DEF Close, Rebook, feedVars
<1>3. CASE FeedSetup
  BY <1>3 DEF FeedSetup, SubscribeExtras, Extras
<1>4. CASE FeedBreaks \/ Teardown
  BY <1>4 DEF FeedBreaks, Lose, Watchdog, Disconnected, Teardown
<1>5. CASE FeedStep
  BY <1>5 DEF FeedStep, Connect, Fetch, Mute, Clock, Ticker, LeaveWindow
<1>6. CASE UNCHANGED <<conn, subs, atSetup>>
  BY <1>6
<1> QED
  BY <1>1, <1>2, <1>3, <1>4, <1>5, <1>6
  DEF Next, vars, feedVars, TickReturns, Pick, EnterFails, LoopStep, Exit

(* All ages grow together, and a ticker renews quote and spot price at once. *)
LEMMA FreshnessStays == Types /\ SpotIsAsFreshAsQuote /\ [Next]_vars => SpotIsAsFreshAsQuote'
<1> SUFFICES ASSUME Types, SpotIsAsFreshAsQuote, [Next]_vars PROVE SpotIsAsFreshAsQuote'
  OBVIOUS
<1> USE FeedAssumption DEF Types, SpotIsAsFreshAsQuote, Fresh
<1>1. CASE UNCHANGED <<quote, spot>>
  BY <1>1
<1>2. CASE Clock
  BY <1>2 DEF Clock, Older
<1>3. ASSUME NEW l \in Leg, Ticker(l) PROVE SpotIsAsFreshAsQuote'
  BY <1>3 DEF Ticker, SpotsOf
<1> QED
  BY <1>1, <1>2, <1>3
  DEF Next, vars, feedVars, TickReturns, Store, Pick, EnterFails, Close, FeedSetup,
      SubscribeExtras, FeedBreaks, Lose, Watchdog, Disconnected, FeedStep, Connect,
      Fetch, Mute, LeaveWindow, LoopStep, Teardown, Exit

-----------------------------------------------------------------------------
(* Every state satisfies it. *)
LEMMA RuntimeIsSafe == Spec => []SafeInv
<1>1. SafeInv /\ [Next]_vars => SafeInv'
  BY TypesStay, LockStays, CoverageStays, FreshnessStays DEF SafeInv
<1> QED
  BY InitSafe, <1>1, PTL DEF Spec

(* The engine is never in two ticks, neither while the scheduler runs nor    *)
(* while it is shut down under a tick (loop.py _run_tick, _shutdown).        *)
THEOREM OneTickHolds == Spec => []OneTickAtATime
BY RuntimeIsSafe, PTL DEF SafeInv

(* What the book named when a connection was set up stays subscribed while   *)
(* it is in the book (deribit_feed.py _subscribe_all).                       *)
THEOREM CoverageHolds == Spec => []BookedLegsCovered
BY RuntimeIsSafe, PTL DEF SafeInv

(* A fresh quote never comes with an older spot price (chain_cache.py).      *)
THEOREM FreshnessHolds == Spec => []SpotIsAsFreshAsQuote
BY RuntimeIsSafe, PTL DEF SafeInv

=============================================================================
