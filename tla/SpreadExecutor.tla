--------------------------- MODULE SpreadExecutor ---------------------------
(***************************************************************************)
(* One call of CalendarExecutor (execution/executor.py) against Deribit:   *)
(* enter_spread, close_spread or roll_near_leg, order by order.  The       *)
(* exchange fills, partly fills and cancels orders at any moment, also     *)
(* between two requests of the executor and after the call has returned.   *)
(* A request is answered by what the exchange holds when it gets there;    *)
(* the executor acts on that answer later.                                 *)
(***************************************************************************)
EXTENDS Integers, Sequences, FiniteSets

CONSTANTS
    Qty,          \* contracts of the spread
    MaxRetries,   \* MAX_ORDER_RETRIES
    Kinds,        \* the calls considered, of "enter", "close", "roll"
    FaultSets     \* the sets of faults considered, see `faults`

ASSUME ExecutorAssumption ==
    /\ Qty \in Nat \ {0}
    /\ MaxRetries \in Nat \ {0}
    /\ Kinds \subseteq {"enter", "close", "roll"}
    /\ \A f \in FaultSets : f \subseteq {"refuse", "lost", "rest", "combo"}

VARIABLES
    faults,    \* what may go wrong besides slow and partial fills:
               \*   "refuse"  a request is answered with an error
               \*   "lost"    no answer comes, the request done or not
               \*   "rest"    a crossed reversing order is not filled at once
               \*   "combo"   a combo order is filled in part, or after the
               \*             executor has stopped waiting for it
    kind,      \* which call this is
    pc,        \* the request the executor makes next
    id,        \* leg -> the order id the executor holds for it, 0 for none
    got,       \* the legs whose fill _async_close_spread has seen
    partial,   \* filled_amount as _cancel_and_flatten has read it
    manager,   \* OrderManager: order id -> state, "unknown" if not tracked
    outcome,   \* what the call returned, "none" while it runs
    alerted,   \* notify_warning: MANUAL ACTION REQUIRED
    orders,    \* the orders on the exchange, the id is the index
    held       \* leg -> contracts held on the exchange

call == <<faults, kind, pc, id, got, partial, manager, outcome, alerted>>
vars == <<faults, kind, pc, id, got, partial, manager, outcome, alerted, orders, held>>

Legs == {"near", "far", "new"}
Targets == Legs \cup {"combo"}

\* The direction of the order a call makes for a leg: +1 buys, -1 sells.
Direction(k, leg) ==
    IF k = "enter" THEN (IF leg = "near" THEN -1 ELSE 1)
    ELSE (IF leg = "near" THEN 1 ELSE -1)

FirstLeg(k) == IF k = "enter" THEN "combo" ELSE "near"

Flat == [leg \in Legs |-> 0]
Spread == [near |-> -Qty, far |-> Qty, new |-> 0]
Before(k) == IF k = "enter" THEN Flat ELSE Spread
After(k) == CASE k = "enter" -> Spread
              [] k = "close" -> Flat
              [] k = "roll"  -> [near |-> 0, far |-> Qty, new |-> -Qty]

\* What q contracts of order o do to the position.  A combo sells the near
\* leg and buys the far leg, one to one.
Moved(h, o, q) ==
    [leg \in Legs |->
        h[leg] + CASE o.leg = leg                       -> o.direction * q
                   [] o.leg = "combo" /\ leg = "near"   -> -q
                   [] o.leg = "combo" /\ leg = "far"    -> q
                   [] OTHER                             -> 0]

Order(leg, direction, amount, undoes) ==
    [leg |-> leg, direction |-> direction, amount |-> amount, filled |-> 0,
     status |-> "open", undoes |-> undoes]

-----------------------------------------------------------------------------
(* The exchange. *)

\* Deribit takes the order; the OrderManager knows it as `state`.
Book(o, state) == /\ orders' = Append(orders, o)
                  /\ manager' = Append(manager, state)
                  /\ held' = held

\* A reversing order is priced through the market and fills on arrival,
\* unless "rest".  It is not tracked, and its fill is not waited for.
BookReverse(leg, amount, known) ==
    LET o == Order(leg, -Direction(kind, leg), amount, id[leg])
    IN  /\ manager' = Append(known, "unknown")
        /\ \/ /\ orders' = Append(orders, [o EXCEPT !.filled = amount,
                                                    !.status = "filled"])
              /\ held' = Moved(held, o, amount)
           \/ /\ "rest" \in faults
              /\ orders' = Append(orders, o)
              /\ held' = held

Fill(i) ==
    /\ orders[i].status = "open"
    /\ \E q \in 1..(orders[i].amount - orders[i].filled) :
        /\ \/ orders[i].leg # "combo"
           \/ "combo" \in faults
           \/ q = orders[i].amount /\ pc.at = "wait"
        /\ orders' = [orders EXCEPT
                ![i].filled = @ + q,
                ![i].status = IF orders[i].filled + q = orders[i].amount
                              THEN "filled" ELSE "open"]
        /\ held' = Moved(held, orders[i], q)
    /\ UNCHANGED call

\* The exchange takes an order off the book by itself: "cancelled", "rejected".
Withdraw(i) ==
    /\ orders[i].status = "open"
    /\ orders' = [orders EXCEPT ![i].status = "cancelled"]
    /\ UNCHANGED <<call, held>>

\* private/cancel: an order that is no longer open is left as it is.
Cancelled(i) ==
    IF orders[i].status = "open"
    THEN [orders EXCEPT ![i].status = "cancelled"] ELSE orders

-----------------------------------------------------------------------------
(* The executor. *)

Init ==
    /\ faults \in FaultSets
    /\ kind \in Kinds
    /\ pc = [at |-> "submit", leg |-> FirstLeg(kind), attempt |-> 0]
    /\ id = [leg \in Targets |-> 0]
    /\ got = {}
    /\ partial = 0
    /\ manager = <<>>
    /\ outcome = "none"
    /\ alerted = FALSE
    /\ orders = <<>>
    /\ held = Before(kind)

At(at) == pc.at = at

Go(at, leg) == /\ pc' = [at |-> at, leg |-> leg, attempt |-> 0]
               /\ outcome' = outcome
Return(o) == /\ pc' = [pc EXCEPT !.at = "returned"]
             /\ outcome' = o

\* OrderManager.update.
Update(i, state) == manager' = [manager EXCEPT ![i] = state]

\* The WebSocket connection or its login fails before the first order of the
\* connection: the exception ends the call with None or False.
ConnectFails ==
    /\ At("submit")
    /\ pc.leg \in {"combo", "near"}
    /\ pc.attempt = 0
    /\ Return("failed")
    /\ UNCHANGED <<faults, kind, id, got, partial, manager, alerted, orders, held>>

\* place_order is answered with the order, which is tracked.
Place(leg) ==
    /\ At("submit")
    /\ pc.leg = leg
    /\ Book(Order(leg, Direction(kind, leg), Qty, 0), "submitted")
    /\ id' = [id EXCEPT ![leg] = Len(orders) + 1]
    /\ UNCHANGED <<faults, kind, got, partial, alerted>>

\* Entering: the combo, or one leg after the other.
EnterSubmit ==
    /\ kind = "enter"
    /\ \E leg \in {"combo", "near", "far"} : Place(leg) /\ Go("wait", leg)

\* Closing submits both legs before it waits for either.
CloseSubmit ==
    /\ kind = "close"
    /\ \/ Place("near") /\ Go("submit", "far")
       \/ Place("far") /\ Go("wait", "near")

\* Rolling: the old near leg is bought back, then the new one is sold.
RollSubmit ==
    /\ kind = "roll"
    /\ \E leg \in {"near", "new"} : Place(leg) /\ Go("wait", leg)

\* What a failed submission leads to where the code does not retry.
GiveUpSubmit(leg) ==
    \/ leg = "combo" /\ Go("submit", "near")
    \/ kind = "close" /\ leg = "far" /\ Go("drop", "near")
    \/ leg # "combo" /\ ~(kind = "close" /\ leg = "far") /\ Return("failed")

\* place_order (or create_combo) raises RuntimeError or AmountBelowMinimumError.
\* The retry loops of entry do not catch these: the call ends there and then,
\* also when it was the far leg's turn.
SubmitRefused ==
    /\ At("submit")
    /\ pc.leg \in {"combo", "near"} \/ "refuse" \in faults
    /\ GiveUpSubmit(pc.leg)
    /\ UNCHANGED <<faults, kind, id, got, partial, manager, alerted, orders, held>>

\* The loop in range(MAX_RETRIES) comes round again.
AttemptsLeft == pc.attempt < MaxRetries - 1

\* place_order raises TimeoutError or a connection error: the exchange may have
\* taken the order all the same, under an id the executor never learns.
SubmitLost ==
    LET leg == pc.leg
        retried == kind = "enter" /\ leg # "combo"
    IN  /\ At("submit")
        /\ "lost" \in faults
        /\ \/ Book(Order(leg, Direction(kind, leg), Qty, 0), "unknown")
           \/ UNCHANGED <<orders, manager, held>>
        /\ \/ /\ retried /\ AttemptsLeft
              /\ pc' = [pc EXCEPT !.attempt = @ + 1]
              /\ outcome' = outcome
           \/ /\ retried /\ ~AttemptsLeft
              /\ IF leg = "far" THEN Go("undo", "near") ELSE Return("failed")
           \/ ~retried /\ GiveUpSubmit(leg)
        /\ UNCHANGED <<faults, kind, id, got, partial, alerted>>

\* What _wait_for_fill takes for filled: the state, or the quantity when the
\* state lags behind.
SeenFilledPartly(i) == orders[i].filled > 0
SeenFilled(i) == orders[i].status = "filled" \/ orders[i].filled = orders[i].amount

\* Any other answer at the deadline is an OrderTimeoutError.
TimedOutNever(i) == orders[i].status = "cancelled"
TimedOut(i) == ~SeenFilled(i)

Fills(leg) ==
    /\ At("wait")
    /\ pc.leg = leg
    /\ SeenFilled(id[leg])
    /\ UNCHANGED <<faults, kind, id, partial, alerted, orders, held>>

\* Entering, by a combo or by legs: the near leg, then the far leg.
EnterFilled ==
    /\ kind = "enter"
    /\ \/ Fills("combo") /\ Update(id["combo"], "filled") /\ Return("filled")
       \/ Fills("near") /\ Update(id["near"], "filled") /\ Go("submit", "far")
       \/ Fills("far") /\ Update(id["far"], "filled") /\ Return("filled")
    /\ got' = got

\* Closing waits for the near leg, then for the far leg, and says so to the
\* OrderManager only when both have filled.  A far leg that filled alone is
\* bought back.
CloseFilled ==
    /\ kind = "close"
    /\ \/ /\ Fills("near")
          /\ Go("wait", "far")
          /\ got' = {"near"}
          /\ manager' = manager
       \/ /\ Fills("far") /\ "near" \in got
          /\ Return("filled")
          /\ got' = got \cup {"far"}
          /\ manager' = [manager EXCEPT ![id["near"]] = "filled",
                                        ![id["far"]] = "filled"]
       \/ /\ Fills("far") /\ "near" \notin got
          /\ Go("undo", "far")
          /\ got' = {"far"}
          /\ manager' = manager

RollFilled ==
    /\ kind = "roll"
    /\ \/ Fills("near") /\ Update(id["near"], "filled") /\ Go("submit", "new")
       \/ Fills("new") /\ Update(id["new"], "filled") /\ Return("filled")
    /\ got' = got

\* The deadline passed with the order not filled (OrderTimeoutError), the
\* exchange had taken it off the book, or the poll was answered with an error
\* (RuntimeError).  A combo that was taken off the book is not cancelled.
WaitGivesUp ==
    LET leg == pc.leg
        withdrawn == orders[id[leg]].status = "cancelled"
    IN  /\ At("wait")
        /\ TimedOut(id[leg]) \/ "refuse" \in faults
        /\ \/ leg # "combo" /\ Go("cancel", leg) /\ manager' = manager
           \/ /\ leg = "combo"
              /\ ~withdrawn /\ TimedOut(id[leg])
              /\ Go("drop", leg)
              /\ manager' = manager
           \/ /\ leg = "combo"
              /\ withdrawn \/ "refuse" \in faults
              /\ Update(id[leg], "cancelled")
              /\ Go("submit", "near")
        /\ partial' = 0
        /\ UNCHANGED <<faults, kind, id, got, alerted, orders, held>>

\* The poll itself is not answered: TimeoutError is neither an
\* OrderTimeoutError nor a RuntimeError, and ends the call.
WaitLost ==
    /\ At("wait")
    /\ "lost" \in faults
    /\ Return("failed")
    /\ UNCHANGED <<faults, kind, id, got, partial, manager, alerted, orders, held>>

\* The cancel whose failure is swallowed: a combo that timed out, and the near
\* close when the far close could not be submitted.
Drop ==
    LET leg == pc.leg
    IN  /\ At("drop")
        /\ \/ orders' = Cancelled(id[leg])
           \/ faults \cap {"lost", "refuse"} # {} /\ orders' = orders
        /\ \/ leg = "combo" /\ Update(id[leg], "cancelled") /\ Go("submit", "near")
           \/ leg # "combo" /\ manager' = manager /\ Return("failed")
        /\ UNCHANGED <<faults, kind, id, got, partial, alerted, held>>

-----------------------------------------------------------------------------
(* _cancel_and_flatten: cancel, ask what had filled, reverse that much. *)

\* filled_amount of an answer.
FilledAmount(i) == orders[i].filled

\* Where the callers of _cancel_and_flatten go on.
EnterAfterFlatten(leg) ==
    /\ kind = "enter"
    /\ \/ leg = "near" /\ Return("failed")
       \/ leg = "far" /\ Go("undo", "near")

CloseAfterFlattenNoUnwind(leg) ==
    /\ kind = "close"
    /\ \/ leg = "near" /\ Go("wait", "far")
       \/ leg = "far" /\ Return("failed")
CloseAfterFlatten(leg) ==
    /\ kind = "close"
    /\ \/ leg = "near" /\ Go("wait", "far")
       \/ leg = "far" /\ "near" \in got /\ Go("undo", "near")
       \/ leg = "far" /\ "near" \notin got /\ Return("failed")

RollAfterFlatten == kind = "roll" /\ Return("failed")

AfterFlatten(leg) ==
    EnterAfterFlatten(leg) \/ CloseAfterFlatten(leg) \/ RollAfterFlatten

\* The cancel is answered with what had filled, and an order that is gone
\* already with an error; it may also get lost, done or not.  Unless it names
\* a fill, the order's state is asked for.
CancelOrder ==
    LET leg == pc.leg
        open == orders[id[leg]].status = "open"
    IN  /\ At("cancel")
        /\ \/ /\ open
              /\ orders' = Cancelled(id[leg])
              /\ partial' = FilledAmount(id[leg])
           \/ /\ ~open \/ "refuse" \in faults
              /\ UNCHANGED <<orders, partial>>
           \/ /\ "lost" \in faults
              /\ orders' \in {orders, Cancelled(id[leg])}
              /\ UNCHANGED partial
        /\ IF partial' > 0 THEN Go("flatten", leg) ELSE Go("query", leg)
        /\ UNCHANGED <<faults, kind, id, got, manager, alerted, held>>

\* get_order_state; a failure counts as nothing filled.
QueryFilled ==
    LET leg == pc.leg
    IN  /\ At("query")
        /\ \/ partial' = FilledAmount(id[leg])
           \/ faults \cap {"lost", "refuse"} # {} /\ partial' = 0
        /\ \/ partial' > 0 /\ Go("flatten", leg) /\ manager' = manager
           \/ partial' = 0 /\ Update(id[leg], "cancelled") /\ AfterFlatten(leg)
        /\ UNCHANGED <<faults, kind, id, got, alerted, orders, held>>

\* The reversing order never gets to the exchange, or its answer does not
\* come back: place_order raises.
SendFails(leg, amount, known) ==
    \/ /\ faults \cap {"lost", "refuse"} # {}
       /\ manager' = known
       /\ UNCHANGED <<orders, held>>
    \/ "lost" \in faults /\ BookReverse(leg, amount, known)

FlattenSilently ==
    LET leg == pc.leg
        known == [manager EXCEPT ![id[leg]] = "cancelled_partial"]
    IN  /\ At("flatten")
        /\ \/ BookReverse(leg, partial, known)
           \/ SendFails(leg, partial, known)
        /\ AfterFlatten(leg)
        /\ UNCHANGED <<faults, kind, id, got, partial, alerted>>

\* How much is reversed.
FlattenAmountOrdered == Qty
FlattenAmount == partial

\* The order is marked, then what had filled of it is reversed, once.  Only a
\* failure to send the reversing order is reported.
Flatten ==
    LET leg == pc.leg
        known == [manager EXCEPT ![id[leg]] = "cancelled_partial"]
    IN  /\ At("flatten")
        /\ \/ BookReverse(leg, FlattenAmount, known) /\ alerted' = alerted
           \/ SendFails(leg, FlattenAmount, known) /\ alerted' = TRUE
        /\ AfterFlatten(leg)
        /\ UNCHANGED <<faults, kind, id, got, partial>>

\* FLATTEN-NEAR, UNWIND-NEAR, UNWIND-FAR: a leg that did fill is traded back
\* because the other did not.  A failure is only logged.
Undo ==
    /\ At("undo")
    /\ \/ BookReverse(pc.leg, Qty, manager)
       \/ SendFails(pc.leg, Qty, manager)
    /\ Return(IF kind = "enter" THEN "legrisk" ELSE "failed")
    /\ UNCHANGED <<faults, kind, id, got, partial, alerted>>

-----------------------------------------------------------------------------
Executor ==
    \/ ConnectFails \/ EnterSubmit \/ CloseSubmit \/ RollSubmit
    \/ SubmitRefused \/ SubmitLost
    \/ EnterFilled \/ CloseFilled \/ RollFilled \/ WaitGivesUp \/ WaitLost \/ Drop
    \/ CancelOrder \/ QueryFilled \/ Flatten \/ Undo

Exchange == \E i \in DOMAIN orders : Fill(i) \/ Withdraw(i)

Next == Executor \/ Exchange

\* Every request is bounded by RPC_TIMEOUT_SEC and every wait by its timeout.
Spec == Init /\ [][Next]_vars /\ WF_vars(Executor)

-----------------------------------------------------------------------------
(* Properties. *)

OrderStates == {"submitted", "filled", "cancelled", "cancelled_partial", "unknown"}

\* The legs a call has to trade one by one.
Needed == CASE kind = "roll" -> {"near", "new"} [] OTHER -> {"near", "far"}

\* A call reports success only when the orders it knows of have filled to the
\* last contract and it has reversed nothing, whatever else went wrong.
FilledIsWhole ==
    outcome = "filled" =>
        /\ LET whole(leg) == id[leg] # 0 /\ orders[id[leg]].filled = Qty
           IN  \/ \A leg \in Needed : whole(leg)
               \/ kind = "enter" /\ id["near"] = 0 /\ whole("combo")
        /\ \A i \in DOMAIN orders : orders[i].undoes = 0

\* Reversing never overshoots, however late fills arrive: the near leg is never
\* held long nor the far leg short, and closing never adds to a leg.
StaysOnItsSide ==
    /\ held["near"] <= 0 /\ held["far"] >= 0 /\ held["new"] <= 0
    /\ kind # "enter" => held["near"] >= -Qty /\ held["far"] <= Qty

\* What _cancel_and_flatten has seen filled is reversed for just that amount,
\* or the operator has been told (notify_warning).
PartialIsReversedOrTold ==
    \A i \in DOMAIN manager :
        manager[i] = "cancelled_partial" =>
            \/ alerted
            \/ \E j \in DOMAIN orders : /\ orders[j].undoes = i
                                        /\ orders[j].amount <= orders[i].filled
                                        /\ orders[j].direction = -orders[i].direction

\* Every call returns: the engine, which holds its lock meanwhile, goes on.
Returns == <>(outcome # "none")

\* Entering and closing are what the engine relies on while no request fails, a combo
\* fills at once and whole or not at all, and what reverses a leg fills at once: legs that
\* fill slowly, in part or while they are being cancelled included, the call trades the
\* spread or leaves it as it was, and no order of its own fills afterwards.  Combos that
\* fill in part or late break it, which ShortCoveredOrCancelEmpty shows.  (Any other call
\* maps to a call that has not returned.)
Relied == faults = {} /\ kind # "roll"
Contract == INSTANCE SpreadContract WITH
    outcome <- IF Relied THEN outcome ELSE "none",
    position <- CASE ~Relied \/ outcome = "none" \/ held = Before(kind) -> "untouched"
                  [] Relied /\ outcome # "none" /\ held = After(kind) -> "traded"
                  [] OTHER -> "broken"
ImplementsContract == Contract!Spec

\* The module docstring of executor.py: an entry whose near leg has filled and
\* whose far leg has not is never left with a naked short, a near leg that the
\* far leg does not cover.
NeverNakedShort ==
    kind = "enter" /\ outcome # "none" /\ id["near"] # 0 /\ manager[id["near"]] = "filled"
        => held["near"] + held["far"] >= 0

\* OrderState.CANCELLED_PARTIAL (order_manager.py): what an order filled before
\* it was cancelled is never invisible, so an order that is down as CANCELLED
\* and is off Deribit's book has filled nothing.
CancelledIsEmpty ==
    outcome # "none" =>
        \A i \in DOMAIN manager :
            manager[i] = "cancelled" /\ orders[i].status # "open" => orders[i].filled = 0


\* The comment on a failed roll in _monitor_position: the position is held, and
\* the roll is tried again.
FailedRollHolds ==
    kind = "roll" /\ outcome = "failed" => held = Before(kind)
=============================================================================
