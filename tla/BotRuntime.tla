----------------------------- MODULE BotRuntime -----------------------------
(***************************************************************************)
(* bot.py: the tick loop and the feed of one process, coupled in both      *)
(* directions.  A tick picks legs from the cache that the feed fills and   *)
(* stores them only when the exchange has taken the orders, and the feed   *)
(* asks the book, when it connects, which legs to subscribe to.  What the  *)
(* engine decides is left open; DecisionEngine is about that.              *)
(***************************************************************************)
EXTENDS TickLoop, MarketFeed

VARIABLES
    book,       \* the legs of open rows: get_open_instrument_names
    entering,   \* the legs a tick has picked, and whose orders are under way
    atSetup     \* history: the legs that the book named when this connection
                \* asked for them, and booked ever since

vars == <<loopVars, feedVars, book, entering, atSetup>>

Init ==
    /\ LoopInit
    /\ FeedInit
    /\ book \in SUBSET Leg
    /\ entering = {}
    /\ atSetup = {}

-----------------------------------------------------------------------------
(* The ticks. *)

\* The scan enters a spread, or a roll takes a new near leg: the instrument is
\* one with a fresh snapshot.
Pick(j, l) ==
    /\ InTick(j)
    /\ ~halted
    /\ entering = {}
    /\ j = "monitor" => book # {}
    /\ Fresh(l)
    /\ l \notin book
    /\ entering' = {l}
    /\ UNCHANGED <<loopVars, feedVars, book, atSetup>>

Rebook(legs) ==
    /\ book' = legs
    /\ atSetup' = atSetup \cap legs

\* create_calendar_trade, or update_near_leg in place of the old near leg.
Store(j) ==
    /\ InTick(j)
    /\ entering # {}
    /\ \/ j = "scan" /\ Rebook(book \cup entering)
       \/ j = "monitor" /\ \E l \in book : Rebook((book \ {l}) \cup entering)
    /\ entering' = {}
    /\ UNCHANGED <<loopVars, feedVars>>

EnterFails ==
    /\ entering # {}
    /\ entering' = {}
    /\ UNCHANGED <<loopVars, feedVars, book, atSetup>>

Close(l) ==
    /\ InTick("monitor")
    /\ ~halted
    /\ entering = {}
    /\ l \in book
    /\ Rebook(book \ {l})
    /\ UNCHANGED <<loopVars, feedVars, entering>>

TickReturns(j) ==
    /\ entering = {}
    /\ TickEnds(j)
    /\ UNCHANGED <<feedVars, book, entering, atSetup>>

-----------------------------------------------------------------------------
(* The feed. *)

\* Fault: an instrument with a fresh snapshot is thought to be subscribed.
ExtrasWithoutQuote == {l \in book : ~Fresh(l)}

\* The instruments the feed asks for on top of the day window.
Extras == book

\* If the book cannot be read the feed does without.
FeedSetup ==
    /\ \/ SubscribeExtras(Extras) /\ atSetup' = book
       \/ SubscribeExtras({}) /\ atSetup' = {}
    /\ UNCHANGED <<loopVars, book, entering>>

FeedBreaks ==
    /\ Lose \/ Watchdog
    /\ atSetup' = {}
    /\ UNCHANGED <<loopVars, book, entering>>

FeedStep ==
    /\ \/ Connect \/ Fetch \/ Mute \/ Clock
       \/ \E l \in Leg : Ticker(l) \/ LeaveWindow(l)
    /\ UNCHANGED <<loopVars, book, entering, atSetup>>

LoopStep ==
    /\ \/ Wake \/ Signal \/ Shutdown
       \/ \E j \in Jobs : Fire(j) \/ SkipHalted(j) \/ BeginAtOnce(j) \/ Queue(j)
       \/ entering = {} /\ \E j \in Jobs : Halt(j)
    /\ UNCHANGED <<feedVars, book, entering, atSetup>>

\* The loop task has ended: feed.stop(), and the tasks are cancelled.
Teardown ==
    /\ loop = "down"
    /\ conn # "closed"
    /\ Disconnected("closed")
    /\ atSetup' = {}
    /\ UNCHANGED <<loopVars, book, entering>>

\* asyncio.run returns when the worker threads have.
Exit ==
    /\ loop = "down"
    /\ conn = "closed"
    /\ \A j \in Jobs : ~InTick(j)
    /\ loop' = "exited"
    /\ UNCHANGED <<job, queue, holder, ticks, halted, feedVars, book, entering, atSetup>>

Next ==
    \/ \E j \in Jobs : Store(j) \/ TickReturns(j) \/ \E l \in Leg : Pick(j, l)
    \/ EnterFails
    \/ \E l \in Leg : Close(l)
    \/ FeedSetup \/ FeedBreaks \/ FeedStep
    \/ LoopStep
    \/ Teardown \/ Exit

Fairness ==
    /\ \A j \in Jobs : WF_vars(LoopStep /\ (SkipHalted(j) \/ BeginAtOnce(j) \/ Queue(j)))
    /\ \A j \in Jobs : SF_vars(TickReturns(j))
    /\ WF_vars(EnterFails \/ \E j \in Jobs : Store(j))
    /\ WF_vars(LoopStep /\ Wake)
    /\ WF_vars(LoopStep /\ Shutdown)
    /\ WF_vars(FeedStep /\ Clock)
    /\ WF_vars(FeedBreaks /\ Watchdog)
    /\ WF_vars(Teardown)
    /\ WF_vars(Exit)

Spec == Init /\ [][Next]_vars /\ Fairness

-----------------------------------------------------------------------------
(* Properties. *)

\* Everything has its type; at most one thread is in a tick of a job.
TypeOK ==
    /\ job \in [Jobs -> {"none", "new", "waiting", "running"}]
    /\ queue \in Seq(Jobs) /\ Len(queue) <= 2
    /\ holder \in Jobs \cup {"none"}
    /\ ticks \in [Jobs -> 0..1]
    /\ halted \in BOOLEAN
    /\ loop \in {"up", "stopping", "down", "exited"}
    /\ conn \in {"off", "fetching", "extras", "streaming", "closed"}
    /\ window \subseteq Leg /\ subs \subseteq Leg
    /\ mute \in BOOLEAN
    /\ quote \in [Leg -> 0..(TTL + 1)]
    /\ spot \in [Asset -> 0..(TTL + 1)]
    /\ silence \in 0..(WatchdogTimeout + 1)
    /\ book \subseteq Leg /\ entering \subseteq Leg /\ atSetup \subseteq book

\* The engine is never in two ticks (loop.py _tick_lock), not even while the
\* scheduler is shut down and a tick has lost the coroutine that held the lock
\* for it: no job that waited gets the lock then.
OneTickAtATime == ~(InTick("scan") /\ InTick("monitor"))

\* A leg that was in the book when the feed connected stays subscribed as long
\* as it is in the book, whatever happens to the day window
\* (deribit_feed.py _open_position_extras).
BookedLegsCovered == conn = "streaming" => atSetup \subseteq subs

\* get_spot has no TTL; a snapshot that get_chain or get lets pass still
\* never comes with a spot price older than itself.
SpotIsAsFreshAsQuote == \A l \in Leg : Fresh(l) => spot[AssetOf[l]] <= quote[l]

\* A connection on which the exchange has gone silent is given up
\* (deribit_feed.py _watchdog).
StallIsBroken == (conn = "streaming" /\ mute) ~> conn # "streaming"

\* A monitor job that waits for a tick to end gets the lock, however often the
\* scan fires.
MonitorIsServed == job["monitor"] = "waiting" ~> job["monitor"] # "waiting"

\* After a signal the process ends, once the tick under way has returned.
SignalEndsTheBot == loop = "stopping" ~> loop = "exited"

=============================================================================
