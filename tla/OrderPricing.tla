---------------------------- MODULE OrderPricing ----------------------------
(***************************************************************************)
(* The prices and amounts of one call of CalendarExecutor (execution/      *)
(* executor.py): how a quote in USD becomes an order on Deribit's grid,    *)
(* what a fill is checked against and what the book is told was paid.      *)
(* SpreadExecutor has the same calls without prices, and with every way an *)
(* order can fill, fail or get lost; here an order is refused, filled or   *)
(* not filled in time.                                                     *)
(*                                                                         *)
(* Order prices count units of 0.0001 of the underlying, to which          *)
(* _index_price rounds; before place_order rounds them they are in         *)
(* hundredths of a unit.  An option quoted in USD has spot 1.              *)
(***************************************************************************)
EXTENDS Integers, Sequences, FiniteSets

CONSTANTS
    Candidates,   \* spreads to enter: near bid and far ask in USD, spot, qty
    Quotes,       \* quotes to close against: bid and ask of each leg, 0 for none
    Grids,        \* Deribit's price grids: tick and tick_size_steps
    Lots,         \* the minimum of an instrument's amounts, which is their step
    SlippagePct,  \* SLIPPAGE_LIMIT_PCT
    ReversePct,   \* how far a leg of an entry is reversed through its limit
    BufferPct,    \* CLOSE_PRICE_CROSS_BUFFER_PCT
    Improve       \* bound on the units by which a fill beats its limit

ASSUME PricingAssumption ==
    /\ \A n \in {SlippagePct, ReversePct, BufferPct, Improve} : n \in Nat
    /\ \A c \in Candidates :
          /\ c.nearBid \in Nat \ {0} /\ c.farAsk \in Nat \ {0} /\ c.farAsk > c.nearBid
          /\ c.spot \in Nat \ {0} /\ c.spot % 2 = 1  \* so that no price is half-way
          /\ c.qty \in Nat \ {0}
    /\ \A q \in Quotes :
          /\ q.qty \in Nat \ {0}
          /\ \A side \in {q.near, q.far} : side.bid \in Nat /\ side.ask \in Nat
    /\ \A l \in Lots : l.min \in Nat \ {0}
    /\ \A g \in Grids : g.tick \in Nat \ {0} /\ g.steps \in Seq([above : Nat, tick : Nat \ {0}])
    \* A band begins on its own grid, as Deribit's do.
    /\ \A g \in Grids : \A s \in DOMAIN g.steps : g.steps[s].above % g.steps[s].tick = 0

VARIABLES
    kind,    \* "enter" or "close"
    task,    \* the candidate, or the quotes
    grid,    \* the grid of the legs, and of the combo
    lot,     \* the amounts the legs trade in
    ticks,   \* the instruments in _TICK_SIZE_CACHE
    pc,      \* the next request, "done" at the end
    undo,    \* the legs still to be reversed
    sent,    \* the orders sent
    fill,    \* leg -> price it was filled at, 0 if not
    told,    \* the legs, or the combo, whose fill Deribit gave a price for
    result   \* what the call came to

setting == <<kind, task, grid, lot>>
vars == <<setting, ticks, pc, undo, sent, fill, told, result>>

Legs == {"near", "far"}
Nothing == [is |-> "nothing"]
Larger(a, b) == IF a >= b THEN a ELSE b

Init ==
    /\ \/ kind = "enter" /\ task \in Candidates /\ pc = "combo"
       \/ kind = "close" /\ task \in Quotes /\ pc = "closeNear"
    /\ \E g, h \in Grids : grid = [near |-> g, far |-> g, combo |-> h]
    /\ lot \in Lots
    /\ task.qty % lot.min = 0  \* the sizer sees to it
    /\ ticks = {}
    /\ undo = {}
    /\ sent = {}
    /\ fill = [leg \in Legs |-> 0]
    /\ told = {}
    /\ result = Nothing

-----------------------------------------------------------------------------
(* Prices.                                                                 *)

IndexPrice(usd, spot) == (2 * usd + spot) \div (2 * spot)

NearLimit == IndexPrice(task.nearBid, task.spot)
FarLimit == IndexPrice(task.farAsk, task.spot)
Limit(leg) == IF leg = "near" THEN NearLimit ELSE FarLimit

\* Fault: the bands of the grid are not looked at.
BaseTick(price, g) == g.tick

\* The tick at a price, in hundredths: that of the last band that has begun.
EffectiveTickSize(price, g) ==
    LET begun == {s \in DOMAIN g.steps : price >= 100 * g.steps[s].above}
    IN  IF begun = {} THEN g.tick
        ELSE g.steps[CHOOSE s \in begun : \A r \in begun : r <= s].tick

HalfUp(price, tick) == ((price + 50 * tick) \div (100 * tick)) * tick

\* The prices that an order may go out at; without a grid, the nearest unit, and
\* of two equally near ones either.
RoundToTick(price, g, known) ==
    IF known THEN {HalfUp(price, EffectiveTickSize(price, g))}
    ELSE {n \in (price \div 100)..(price \div 100 + 1) :
            2 * (100 * n - price) \in -100..100}

\* Fault: what an improved fill saves counts as slippage, too.
AdverseEitherWay(side, price, intended) ==
    LET paid == price * task.spot
    IN  100 * Larger(paid - intended, intended - paid) > SlippagePct * intended

\* _check_slippage.
Adverse(side, price, intended) ==
    LET paid == price * task.spot
        worse == IF side = "buy" THEN paid - intended ELSE intended - paid
    IN  100 * worse > SlippagePct * intended

\* clamp_amount, 0 for none.  The step of an option is its minimum; the static
\* table, for want of an answer, says the same.
ClampAmount(amount) == (amount \div lot.min) * lot.min

-----------------------------------------------------------------------------
(* Deribit.                                                                *)

\* The tick of Deribit's grid at a price; the bands are in order.
TickAt(price, g) ==
    LET begun == {s \in DOMAIN g.steps : g.steps[s].above <= price}
    IN  IF begun = {} THEN g.tick ELSE g.steps[Cardinality(begun)].tick

OnGrid(price, g) == price % TickAt(price, g) = 0

\* The bands of a grid ascend, and each begins on the grid of the one below.
GridsNested ==
    \A g \in Grids : \A s \in DOMAIN g.steps :
        /\ g.steps[s].above % (IF s = 1 THEN g.tick ELSE g.steps[s - 1].tick) = 0
        /\ \A r \in DOMAIN g.steps : r < s => g.steps[r].above < g.steps[s].above

\* No band is finer than one below it.
TicksRise ==
    \A g \in Grids : \A s \in DOMAIN g.steps :
        /\ g.tick <= g.steps[s].tick
        /\ \A r \in DOMAIN g.steps : r < s => g.steps[r].tick <= g.steps[s].tick

\* The quotes of a close lie on the grid of their instrument.
QuotesOnGrid ==
    \A q \in Quotes, g \in Grids : \A leg \in Legs :
        OnGrid(q[leg].bid, g) /\ OnGrid(q[leg].ask, g)

\* What Deribit's grids and quotes are like, which the code takes for granted.
ASSUME GridAssumption == GridsNested /\ TicksRise /\ QuotesOnGrid

Accepts(o) ==
    /\ OnGrid(o.price, grid[o.leg])
    /\ o.amount > 0
    /\ o.leg # "combo" => o.amount % lot.min = 0

FillPrices(o) ==
    {p \in 1..(o.price + Improve) :
        /\ OnGrid(p, grid[o.leg])
        /\ IF o.side = "buy" THEN p \in (o.price - Improve)..o.price ELSE p >= o.price}

-----------------------------------------------------------------------------
(* place_order: the grid of an instrument is asked for until it is known.  *)

Sends(leg, side, price, amount, why) ==
    \E known \in IF leg \in ticks THEN {TRUE} ELSE BOOLEAN :
        /\ ticks' = IF known THEN ticks \cup {leg} ELSE ticks
        /\ \E rounded \in RoundToTick(price, grid[leg], known) :
              sent' = sent \cup {[leg |-> leg, side |-> side, price |-> rounded, why |-> why,
                                  known |-> known,
                                  amount |-> IF leg = "combo" THEN amount ELSE ClampAmount(amount)]}

OrdersOf(leg, why) == {o \in sent : o.leg = leg /\ o.why = why}
Sent(leg, why) == CHOOSE o \in OrdersOf(leg, why) : TRUE
Last(leg, why) == CHOOSE o \in sent' : o.leg = leg /\ o.why = why

Done(r) == pc' = "done" /\ result' = r
Goes(there) == pc' = there /\ UNCHANGED result

\* Sends an order and goes on, or elsewhere if Deribit refuses it.
Submit(leg, side, price, why, Accepted, Refused) ==
    /\ Sends(leg, side, price, task.qty, why)
    /\ IF Accepts(Last(leg, why)) THEN Accepted ELSE Refused
    /\ UNCHANGED <<setting, undo, fill, told>>

-----------------------------------------------------------------------------
(* enter_spread                                                            *)

\* Deribit makes the combo, or the call goes on with the legs.
TryCombo ==
    /\ pc = "combo"
    /\ Submit("combo", "buy", 100 * (FarLimit - NearLimit), "enter", Goes("comboSent"), Goes("near"))

NoCombo ==
    /\ pc \in {"combo", "comboSent"}
    /\ Goes("near")
    /\ UNCHANGED <<setting, ticks, undo, sent, fill, told>>

\* What the book is told of a fill of orders, in hundredths of a unit.
Booked(orders, near, far) ==
    [is |-> "filled", orders |-> orders, near |-> near, far |-> far]

\* The fill of a combo comes with the prices of its legs or with the net price, or
\* its state has the price of the order alone, or not even that.
ComboReports == {"legs", "average", "order", "none"}

\* Fault: the near leg is put down at the limit of the spread, the far one at twice
\* its price.
ComboLegFillsDoubled(report, near, net) ==
    IF report = "legs" THEN Booked({"combo"}, 100 * near, 100 * (near + net))
    ELSE Booked({"combo"}, 100 * (FarLimit - NearLimit), 200 * net)

\* _combo_leg_fills: from the fills of the legs; else the near leg at its limit and
\* the far one to match the net price, for which the order's stands in, or its limit.
ComboLegFills(report, near, net) ==
    LET price == CASE report = "average" -> net
                   [] report = "order" -> Sent("combo", "enter").price
                   [] OTHER -> FarLimit - NearLimit
    IN  IF report = "legs" THEN Booked({"combo"}, 100 * near, 100 * (near + net))
        ELSE Booked({"combo"}, 100 * NearLimit, 100 * (NearLimit + price))

ComboFills ==
    /\ pc = "comboSent"
    /\ \E net \in FillPrices(Sent("combo", "enter")), near \in NearLimit..(NearLimit + Improve) :
          /\ fill' = [near |-> near, far |-> near + net]
          /\ \E report \in ComboReports :
                /\ told' = IF report \in {"legs", "average"} THEN {"combo"} ELSE {}
                /\ Done(ComboLegFills(report, near, net))
    /\ UNCHANGED <<setting, ticks, undo, sent>>

\* Deribit says what a leg was filled at, or nothing.
Reports(leg) == told' \in {told, told \cup {leg}}

\* What a leg of an entry is taken to be filled at: its limit, if nothing is said.
Taken(leg) == IF leg \in told' THEN fill'[leg] ELSE Limit(leg)

PlaceNear ==
    /\ pc = "near"
    /\ Submit("near", "sell", 100 * NearLimit, "enter",
              Goes("nearSent"), Done([is |-> "refused"]))

\* An adverse fill of the near leg ends the call with the leg sold.
NearFills ==
    /\ pc = "nearSent"
    /\ \E price \in FillPrices(Sent("near", "enter")) :
          /\ fill' = [fill EXCEPT !.near = price]
          /\ Reports("near")
          /\ IF Adverse("sell", Taken("near"), task.nearBid)
             THEN Done([is |-> "slippage"]) ELSE Goes("far")
    /\ UNCHANGED <<setting, ticks, undo, sent>>

\* A refusal is not among the errors that are retried.
PlaceFar ==
    /\ pc = "far"
    /\ Submit("far", "buy", 100 * FarLimit, "enter", Goes("farSent"), Done([is |-> "naked"]))

FarFills ==
    /\ pc = "farSent"
    /\ \E price \in FillPrices(Sent("far", "enter")) :
          /\ fill' = [fill EXCEPT !.far = price]
          /\ Reports("far")
          /\ IF Adverse("buy", Taken("far"), task.farAsk)
             THEN undo' = Legs /\ pc' = "undo" /\ result' = [is |-> "slippage"]
             ELSE undo' = {} /\ Done(Booked(Legs, 100 * Taken("near"), 100 * Taken("far")))
    /\ UNCHANGED <<setting, ticks, sent>>

\* A leg that is not filled in time is cancelled; what has filled of it is reversed,
\* and so is the near leg if it was the far one.
EntryLate ==
    /\ pc \in {"nearSent", "farSent"}
    /\ undo' \in IF pc = "nearSent" THEN {{}, {"near"}} ELSE {{"near"}, Legs}
    /\ pc' = IF undo' = {} THEN "done" ELSE "undo"
    /\ result' = [is |-> "late"]
    /\ UNCHANGED <<setting, ticks, sent, fill, told>>

-----------------------------------------------------------------------------
(* close_spread, and the near leg of roll_near_leg                         *)

\* Fault: orders are priced from the middle of the market.
CrossFromMid(side, q) ==
    IF q.bid = 0 \/ q.ask = 0 THEN 1000
    ELSE IF side = "buy" THEN ((q.bid + q.ask) * (100 + BufferPct)) \div 2
    ELSE ((q.bid + q.ask) * (100 - BufferPct)) \div 2

\* The price that crosses the market, else the other side's, else 0.001.
Cross(side, q) ==
    LET across == IF side = "buy" THEN q.ask ELSE q.bid
        quoted == IF across > 0 THEN across ELSE IF side = "buy" THEN q.bid ELSE q.ask
        beyond == IF side = "buy" THEN 100 + BufferPct ELSE 100 - BufferPct
    IN  IF quoted > 0 THEN quoted * beyond ELSE 1000

CloseNear ==
    /\ pc = "closeNear"
    /\ Submit("near", "buy", Cross("buy", task.near), "close",
              Goes("closeFar"), Done([is |-> "refused"]))

\* Refused, the near leg's order is cancelled.
CloseFar ==
    /\ pc = "closeFar"
    /\ Submit("far", "sell", Cross("sell", task.far), "close",
              Goes("closeSent"), Done([is |-> "refused"]))

CloseFills ==
    /\ pc = "closeSent"
    /\ \E n \in FillPrices(Sent("near", "close")), f \in FillPrices(Sent("far", "close")) :
          /\ fill' = [near |-> n, far |-> f]
          /\ told' \in SUBSET Legs
          /\ Done(Booked(Legs,
                         IF "near" \in told' THEN 100 * n ELSE Cross("buy", task.near),
                         IF "far" \in told' THEN 100 * f ELSE Cross("sell", task.far)))
    /\ UNCHANGED <<setting, ticks, undo, sent>>

\* What has filled of either leg is reversed.
CloseLate ==
    /\ pc = "closeSent"
    /\ undo' \in SUBSET Legs
    /\ pc' = IF undo' = {} THEN "done" ELSE "undo"
    /\ result' = [is |-> "late"]
    /\ UNCHANGED <<setting, ticks, sent, fill, told>>

-----------------------------------------------------------------------------
\* Fault: legs are reversed on the wrong side of their limits.
ReverseAway(leg) ==
    IF leg = "near" THEN NearLimit * (100 - ReversePct) ELSE FarLimit * (100 + ReversePct)

\* A leg of an entry is reversed through its limit.
ReverseEntry(leg) ==
    IF leg = "near" THEN NearLimit * (100 + ReversePct) ELSE FarLimit * (100 - ReversePct)

\* A leg of a close is reversed at the quotes the close began with, or at 0.001.
ReverseClose(leg) ==
    IF leg = "near"
    THEN IF task.near.bid > 0 THEN Cross("sell", task.near) ELSE 1000
    ELSE IF task.far.ask > 0 THEN Cross("buy", task.far) ELSE 1000

\* The reversing order of a leg; SpreadExecutor has its amount, what has filled.
Reverse(leg) ==
    /\ pc = "undo"
    /\ leg \in undo
    /\ undo' = undo \ {leg}
    /\ pc' = IF undo' = {} THEN "done" ELSE pc
    /\ IF kind = "enter"
       THEN Sends(leg, IF leg = "near" THEN "buy" ELSE "sell", ReverseEntry(leg), task.qty, "undo")
       ELSE Sends(leg, IF leg = "near" THEN "sell" ELSE "buy", ReverseClose(leg), task.qty, "undo")
    /\ UNCHANGED <<setting, fill, told, result>>

Next ==
    \/ TryCombo \/ NoCombo \/ ComboFills
    \/ PlaceNear \/ NearFills
    \/ PlaceFar \/ FarFills
    \/ EntryLate
    \/ CloseNear \/ CloseFar \/ CloseFills \/ CloseLate
    \/ \E leg \in Legs : Reverse(leg)

Spec == Init /\ [][Next]_vars

-----------------------------------------------------------------------------
(* Properties                                                              *)

\* Deribit takes every order of an instrument whose grid the executor knows, in
\* whichever band its rounded price falls, reversing and closing orders included: a
\* refused far leg leaves a naked short (executor.py 462-538, 329-377).
KnownGridIsMet == \A o \in sent : o.known => Accepts(o)

\* What is traded at a price of each leg: a leg, or the spread.
Traded(price, leg) == IF leg = "combo" THEN price.far - price.near ELSE price[leg]

\* What is booked of a spread is what was paid for it, if Deribit says so, and if it
\* does not, it makes the trade look better by half a tick of its order at most: what
\* stands in for a price is a limit that was rounded, and fills improve on it
\* (executor.py 805-852, 1122, 1183, 1418-1419).
BookedIsPaid ==
    result.is = "filled" =>
        \A leg \in result.orders :
            LET o == Sent(leg, kind)
                paid == 100 * Traded(fill, leg)
                booked == Traded(result, leg)
            IN  /\ leg \in told => booked = paid
                /\ (IF o.side = "buy" THEN paid - booked ELSE booked - paid)
                       <= 50 * TickAt(o.price, grid[leg])

\* An entry is given up for its price only if the price of its own order, rounded, or
\* the limit that stands in for what Deribit does not say, was worse than the slippage
\* limit allows: never for an improved fill, and not by the market (executor.py
\* 541-575, which calls it unreachable).
AdverseByRounding ==
    result.is = "slippage" =>
        \E o \in sent :
            /\ o.leg \in Legs /\ o.why = "enter"
            /\ Adverse(o.side, IF o.leg \in told THEN o.price ELSE Limit(o.leg),
                       IF o.leg = "near" THEN task.nearBid ELSE task.farAsk)

\* A leg of an entry is never reversed short of the price it was ordered at, and if it
\* costs 21 ticks or more, through it (executor.py 1109-1126, 1167-1190).
ReversedThroughItsPrice ==
    kind = "enter" =>
        \A o, u \in sent :
            o.why = "enter" /\ u.why = "undo" /\ o.leg = u.leg /\ o.known =>
                LET tick == TickAt(o.price, grid[o.leg])
                    through == IF u.side = "buy" THEN u.price - o.price ELSE o.price - u.price
                IN  through >= 0 /\ (o.price >= 21 * tick => through > 0)

\* What a close sends, to close or to undo, reaches the quote on the other side of
\* the market, if there is one, with or without the grid (executor.py 1278-1316,
\* 1340-1409).
CloseReachesTheMarket ==
    kind = "close" =>
        \A o \in sent :
            LET q == task[o.leg]
            IN  /\ o.side = "buy" /\ q.ask > 0 => o.price >= q.ask
                /\ o.side = "sell" /\ q.bid > 0 => o.price <= q.bid

\* What a close sends reaches the market; what undoes an entry, at prices the entry
\* was given and no quote of its own, is at least as good for the other side as the
\* order it undoes, and from 21 ticks on it is better.  That is all the code sees to:
\* at lower prices the two may be equal, and at any price the market may have moved
\* off, so that an order it calls crossed can rest (executor.py 1114, 1169).
OrdersReach == ReversedThroughItsPrice /\ CloseReachesTheMarket

=============================================================================
