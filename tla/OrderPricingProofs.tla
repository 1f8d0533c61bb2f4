------------------------- MODULE OrderPricingProofs -------------------------
(***************************************************************************)
(* The properties of OrderPricing for any candidates, quotes, grids, lots  *)
(* and percentages: an entry is given up only for its own order's price or *)
(* limit, an order of a known grid is on it, what closes reaches the       *)
(* market, what undoes an entry is not short of the order it undoes, and   *)
(* what is booked is what was paid, as far as Deribit says what that was.  *)
(***************************************************************************)
EXTENDS OrderPricing, FiniteSetTheorems, SequenceTheorems, WellFoundedInduction, TLAPS

-----------------------------------------------------------------------------
(* Numbers.                                                                *)

LEMMA ClampKeeps ==
  ASSUME NEW q \in Nat, NEW m \in Nat \ {0}, q % m = 0
  PROVE  (q \div m) * m = q
BY SMT

\* A price on the better side of another is adverse only if that one is.
LEMMA AdverseOfBetter ==
  ASSUME NEW p \in Int, NEW o \in Int, NEW s \in Nat, NEW i \in Int, NEW pct \in Nat
  PROVE  /\ p >= o /\ 100 * (i - p * s) > pct * i => 100 * (i - o * s) > pct * i
         /\ p <= o /\ 100 * (p * s - i) > pct * i => 100 * (o * s - i) > pct * i
<1>1. p * s \in Int /\ o * s \in Int /\ pct * i \in Int
  BY SMT
<1>2. p >= o => p * s >= o * s
  BY SMT
<1>3. p <= o => p * s <= o * s
  BY SMT
<1> QED BY <1>1, <1>2, <1>3, SMT

LEMMA AdverseSale ==
  ASSUME NEW p \in Int, NEW o \in Int, NEW s \in Nat, NEW i \in Int, NEW pct \in Nat,
         p >= o, 100 * (i - p * s) > pct * i
  PROVE  100 * (i - o * s) > pct * i
BY AdverseOfBetter

LEMMA AdversePurchase ==
  ASSUME NEW p \in Int, NEW o \in Int, NEW s \in Nat, NEW i \in Int, NEW pct \in Nat,
         p <= o, 100 * (p * s - i) > pct * i
  PROVE  100 * (o * s - i) > pct * i
BY AdverseOfBetter

Less == {p \in Nat \X Nat : p[1] < p[2]}

LEMMA LessWF == IsWellFoundedOn(Less, Nat)
<1>1. OpToRel(<, Nat) = Less
  BY Zenon DEF OpToRel, Less
<1> QED BY <1>1, NatLessThanWellFounded, Zenon

\* A set of positions in a sequence has a last one.
LEMMA LastOf ==
  ASSUME NEW n \in Nat, NEW S \in SUBSET (1..n), S # {}
  PROVE  \E s \in S : \A r \in S : r <= s
<1> DEFINE T == {n - s : s \in S}
<1>0. \A s \in S : s \in 1..n /\ n - s \in Nat
  BY SMT
<1>1. T \subseteq Nat /\ T # {}
  <2>1. PICK s \in S : TRUE
    OBVIOUS
  <2>2. n - s \in T
    BY <2>1
  <2> QED BY <1>0, <2>2
<1>2. PICK x \in T : \A y \in T : ~(<<y, x>> \in Less)
  <2> HIDE DEF T
  <2> QED BY <1>1, WFMin, LessWF
<1>3. PICK s \in S : x = n - s
  OBVIOUS
<1>4. \A y \in T : ~(y < x)
  <2> SUFFICES ASSUME NEW y \in T, y < x PROVE FALSE
    OBVIOUS
  <2>1. y \in Nat /\ x \in Nat
    BY <1>1
  <2> HIDE DEF T
  <2>2. <<y, x>> \in Less
    BY <2>1 DEF Less
  <2> QED BY <2>2, <1>2
<1>5. ASSUME NEW r \in S PROVE r <= s
  <2>1. n - r \in T
    BY <1>5
  <2>2. ~(n - r < n - s)
    BY <1>3, <1>4, <2>1
  <2> QED BY <2>2, <1>0, SMT
<1> QED BY <1>5

LEMMA GridType ==
  ASSUME NEW g \in Grids
  PROVE  g.tick \in Nat \ {0} /\ g.steps \in Seq([above : Nat, tick : Nat \ {0}])
BY PricingAssumption

LEMMA TickType ==
  ASSUME NEW g \in Grids, NEW price \in Int
  PROVE  EffectiveTickSize(price, g) \in Nat \ {0}
<1> DEFINE begun == {s \in DOMAIN g.steps : price >= 100 * g.steps[s].above}
           isLast(s) == \A r \in begun : r <= s
           end == CHOOSE s \in begun : isLast(s)
<1>1. g.tick \in Nat \ {0} /\ g.steps \in Seq([above : Nat, tick : Nat \ {0}])
  BY GridType
<1>2. ASSUME begun # {} PROVE end \in DOMAIN g.steps
  <2>1. /\ Len(g.steps) \in Nat /\ DOMAIN g.steps = 1..Len(g.steps)
        /\ begun \in SUBSET (1..Len(g.steps))
    BY <1>1
  <2> HIDE DEF begun
  <2>2. \E s \in begun : isLast(s)
    BY <1>2, <2>1, LastOf
  <2>3. end \in begun
    BY <2>2
  <2> HIDE DEF end
  <2> QED BY <2>1, <2>3
<1>3. ASSUME begun # {} PROVE g.steps[end].tick \in Nat \ {0}
  <2>1. end \in DOMAIN g.steps
    BY <1>2, <1>3
  <2> HIDE DEF end
  <2>2. end \in 1..Len(g.steps)
    BY <1>1, <2>1
  <2>3. g.steps[end] \in [above : Nat, tick : Nat \ {0}]
    BY <1>1, <2>2, ElementOfSeq
  <2> QED BY <2>3
<1>4. EffectiveTickSize(price, g) = IF begun = {} THEN g.tick ELSE g.steps[end].tick
  BY DEF EffectiveTickSize
<1> HIDE DEF begun, end
<1> QED BY <1>1, <1>3, <1>4

\* Rounding gives a whole number of units.
LEMMA RoundedType ==
  ASSUME NEW g \in Grids, NEW price \in Int, NEW known \in BOOLEAN,
         NEW r \in RoundToTick(price, g, known)
  PROVE  r \in Int
<1>1. CASE known
  <2> DEFINE tick == EffectiveTickSize(price, g)
  <2>1. tick \in Nat \ {0}
    BY TickType
  <2>2. r = HalfUp(price, tick)
    BY <1>1 DEF RoundToTick
  <2> HIDE DEF tick
  <2>3. 100 * tick \in Nat \ {0} /\ price + 50 * tick \in Int
    BY <2>1
  <2>4. (price + 50 * tick) \div (100 * tick) \in Int
    BY <2>3
  <2> QED BY <2>1, <2>2, <2>4 DEF HalfUp
<1>2. CASE ~known
  BY <1>2 DEF RoundToTick
<1> QED BY <1>1, <1>2

LEMMA LimitTypes ==
  ASSUME kind = "enter", task \in Candidates
  PROVE  NearLimit \in Int /\ FarLimit \in Int
<1>1. /\ task.nearBid \in Nat \ {0} /\ task.farAsk \in Nat \ {0}
      /\ task.spot \in Nat \ {0}
  BY PricingAssumption
<1>2. 2 * task.spot \in Nat \ {0} /\ 2 * task.nearBid + task.spot \in Int
      /\ 2 * task.farAsk + task.spot \in Int
  BY <1>1
<1> QED BY <1>2 DEF NearLimit, FarLimit, IndexPrice

LEMMA CrossType ==
  ASSUME kind = "close", task \in Quotes, NEW leg \in Legs, NEW side \in {"buy", "sell"}
  PROVE  Cross(side, task[leg]) \in Int
<1>1. /\ task[leg].bid \in Nat /\ task[leg].ask \in Nat
      /\ BufferPct \in Nat
  BY PricingAssumption DEF Legs
<1>2. side = "buy" \/ side = "sell"
  OBVIOUS
<1> QED BY <1>1, <1>2 DEF Cross

-----------------------------------------------------------------------------
(* The invariant.                                                          *)

\* What a call is given.
SettingOK ==
    /\ \/ kind = "enter" /\ task \in Candidates
       \/ kind = "close" /\ task \in Quotes
    /\ grid \in [{"near", "far", "combo"} -> Grids]
    /\ lot \in Lots
    /\ task.qty \in Nat \ {0} /\ task.qty % lot.min = 0

\* Every order is for the whole quantity, and on the side of its leg.
OrdersOK ==
    \A o \in sent :
        /\ o.price \in Int
        /\ o.leg # "combo" => o.amount = task.qty
        /\ o.why = "enter" /\ o.leg = "near" => o.side = "sell"
        /\ o.why = "enter" /\ o.leg = "far" => o.side = "buy"

\* The order that is waited for has been sent.
StageOK ==
    /\ pc = "nearSent" => \E o \in sent : o.leg = "near" /\ o.why = "enter"
    /\ pc = "farSent" => \E o \in sent : o.leg = "far" /\ o.why = "enter"
    /\ pc \in {"combo", "comboSent", "near", "nearSent", "far", "farSent"} => kind = "enter"
    /\ pc \in {"closeNear", "closeFar", "closeSent"} => kind = "close"
    /\ result.is = "filled" => pc = "done"
    /\ result.is = "slippage" => pc \in {"undo", "done"}

FillOK == fill \in [Legs -> Int]

PricingInv ==
    SettingOK /\ OrdersOK /\ StageOK /\ FillOK /\ AdverseByRounding

LEMMA InvInit == Init => PricingInv
<1> SUFFICES ASSUME Init PROVE PricingInv
  OBVIOUS
<1>1. SettingOK
  <2>1. task.qty \in Nat \ {0}
    BY PricingAssumption DEF Init
  <2>2. grid \in [{"near", "far", "combo"} -> Grids]
    BY DEF Init
  <2> QED BY <2>1, <2>2 DEF Init, SettingOK
<1>2. OrdersOK /\ StageOK /\ FillOK
  BY DEF Init, OrdersOK, StageOK, FillOK, Nothing, Legs
<1>3. AdverseByRounding
  BY DEF Init, AdverseByRounding, Nothing
<1> QED BY <1>1, <1>2, <1>3 DEF PricingInv

\* What a call is given, it keeps.
LEMMA SettingStays == [Next]_vars => UNCHANGED setting
BY DEF Next, vars, Submit, TryCombo, NoCombo, ComboFills, PlaceNear, NearFills, PlaceFar,
       FarFills, EntryLate, CloseNear, CloseFar, CloseFills, CloseLate, Reverse

LEMMA SettingKept == SettingOK /\ [Next]_vars => SettingOK'
BY SettingStays DEF SettingOK, setting

\* One order more, whole and rounded.
LEMMA SendsOne ==
  ASSUME SettingOK,
         NEW leg \in {"near", "far", "combo"}, NEW side, NEW why, NEW price \in Int,
         Sends(leg, side, price, task.qty, why)
  PROVE  \E o : /\ sent' = sent \cup {o}
                /\ o.leg = leg /\ o.side = side /\ o.why = why /\ o.price \in Int
                /\ leg # "combo" => o.amount = task.qty
<1>1. PICK known \in BOOLEAN : \E rounded \in RoundToTick(price, grid[leg], known) :
         sent' = sent \cup {[leg |-> leg, side |-> side, price |-> rounded, why |-> why,
                             known |-> known,
                             amount |-> IF leg = "combo" THEN task.qty ELSE ClampAmount(task.qty)]}
  BY DEF Sends
<1>2. PICK rounded \in RoundToTick(price, grid[leg], known) :
         sent' = sent \cup {[leg |-> leg, side |-> side, price |-> rounded, why |-> why,
                             known |-> known,
                             amount |-> IF leg = "combo" THEN task.qty ELSE ClampAmount(task.qty)]}
  BY <1>1
<1>3. rounded \in Int
  <2>1. grid[leg] \in Grids
    BY DEF SettingOK
  <2> QED BY <2>1, <1>2, RoundedType
<1>4. ClampAmount(task.qty) = task.qty
  <2>1. lot.min \in Nat \ {0}
    BY PricingAssumption DEF SettingOK
  <2> QED BY <2>1, ClampKeeps DEF SettingOK, ClampAmount
<1> DEFINE new == [leg |-> leg, side |-> side, price |-> rounded, why |-> why, known |-> known,
                   amount |-> IF leg = "combo" THEN task.qty ELSE ClampAmount(task.qty)]
<1>5. /\ sent' = sent \cup {new}
      /\ new.leg = leg /\ new.side = side /\ new.why = why /\ new.price \in Int
      /\ leg # "combo" => new.amount = task.qty
  BY <1>2, <1>3, <1>4
<1> HIDE DEF new
<1> QED BY <1>5

\* Orders stay sound when one is sent, whatever it is for.
LEMMA SubmitKeeps ==
  ASSUME PricingInv, UNCHANGED setting,
         NEW leg \in {"near", "far", "combo"}, NEW side, NEW why, NEW price \in Int,
         Sends(leg, side, price, task.qty, why),
         why = "enter" /\ leg = "near" => side = "sell",
         why = "enter" /\ leg = "far" => side = "buy"
  PROVE  /\ OrdersOK'
         /\ \E o \in sent' : o.leg = leg /\ o.why = why
         /\ sent \subseteq sent'
<1>1. PICK o : /\ sent' = sent \cup {o}
               /\ o.leg = leg /\ o.side = side /\ o.why = why /\ o.price \in Int
               /\ leg # "combo" => o.amount = task.qty
  BY SendsOne DEF PricingInv
<1>2. task' = task
  BY DEF setting
<1>3. OrdersOK'
  BY <1>1, <1>2 DEF PricingInv, OrdersOK
<1>4. o \in sent' /\ sent \subseteq sent'
  BY <1>1
<1> QED BY <1>1, <1>3, <1>4

\* What an entry was given up for stays what it was.
LEMMA AdverseStays ==
  ASSUME UNCHANGED <<setting, told, result>>, sent \subseteq sent', AdverseByRounding
  PROVE  AdverseByRounding'
<1>1. task' = task
  BY DEF setting
<1>2. NearLimit' = NearLimit /\ FarLimit' = FarLimit
  BY <1>1 DEF NearLimit, FarLimit
<1> QED BY <1>1, <1>2 DEF AdverseByRounding, Adverse, Limit

\* An order whose price, or whose limit if no fill is known, was too bad is a reason.
LEMMA GivenUp ==
  ASSUME UNCHANGED setting, NEW o \in sent', o.leg \in Legs, o.why = "enter",
         o.leg \in told' => Adverse(o.side, o.price, IF o.leg = "near" THEN task.nearBid ELSE task.farAsk),
         o.leg \notin told' => Adverse(o.side, Limit(o.leg), IF o.leg = "near" THEN task.nearBid ELSE task.farAsk)
  PROVE  AdverseByRounding'
<1>1. task' = task
  BY DEF setting
<1>2. NearLimit' = NearLimit /\ FarLimit' = FarLimit
  BY <1>1 DEF NearLimit, FarLimit
<1> QED BY <1>1, <1>2 DEF AdverseByRounding, Adverse, Limit

\* What an order of a leg was filled at is no worse than its price.
LEMMA FilledAtBest ==
  ASSUME PricingInv, NEW leg \in Legs, \E o \in sent : o.leg = leg /\ o.why = "enter",
         NEW price \in FillPrices(Sent(leg, "enter"))
  PROVE  /\ price \in Int
         /\ Sent(leg, "enter") \in sent
         /\ Sent(leg, "enter").leg = leg /\ Sent(leg, "enter").why = "enter"
         /\ Sent(leg, "enter").price \in Int
         /\ leg = "near" => Sent(leg, "enter").side = "sell" /\ price >= Sent(leg, "enter").price
         /\ leg = "far" => Sent(leg, "enter").side = "buy" /\ price <= Sent(leg, "enter").price
<1> DEFINE o == Sent(leg, "enter")
<1>1. o \in sent /\ o.leg = leg /\ o.why = "enter"
  BY DEF Sent, OrdersOf
<1>2. /\ o.price \in Int
      /\ leg = "near" => o.side = "sell"
      /\ leg = "far" => o.side = "buy"
  BY <1>1 DEF PricingInv, OrdersOK
<1> HIDE DEF o
<1>3. /\ price \in Int
      /\ o.side = "buy" => price \in (o.price - Improve)..o.price
      /\ o.side # "buy" => price >= o.price
  BY DEF FillPrices, o
<1>4. Improve \in Int
  BY PricingAssumption
<1> QED BY <1>1, <1>2, <1>3, <1>4 DEF o

LEMMA InvStep == PricingInv /\ [Next]_vars => PricingInv'
<1> SUFFICES ASSUME PricingInv, [Next]_vars PROVE PricingInv'
  OBVIOUS
<1>0. UNCHANGED setting /\ SettingOK'
  BY SettingStays, SettingKept DEF PricingInv
<1>0a. /\ kind' = kind /\ task' = task /\ grid' = grid /\ lot' = lot
       /\ kind = "enter" => task \in Candidates /\ NearLimit \in Int /\ FarLimit \in Int
       /\ kind = "close" => task \in Quotes
       /\ kind \in {"enter", "close"}
  BY <1>0, LimitTypes DEF setting, PricingInv, SettingOK
\* A stage that sends one order, for an entry of a leg or for anything else, and
\* ends the call with "refused" or "naked" at worst.
<1>1. ASSUME NEW leg \in {"near", "far", "combo"}, NEW side, NEW why, NEW price \in Int,
             Sends(leg, side, price, task.qty, why), fill' = fill, told' = told,
             why = "enter" /\ leg = "near" => side = "sell",
             why = "enter" /\ leg = "far" => side = "buy",
             result' = result \/ result'.is \in {"refused", "naked"},
             result.is # "filled", result.is = "slippage" => pc' \in {"undo", "done"},
             pc' = "nearSent" => leg = "near" /\ why = "enter",
             pc' = "farSent" => leg = "far" /\ why = "enter",
             pc' \in {"combo", "comboSent", "near", "nearSent", "far", "farSent"} => kind = "enter",
             pc' \in {"closeNear", "closeFar", "closeSent"} => kind = "close"
      PROVE  PricingInv'
  <2>1. OrdersOK' /\ (\E o \in sent' : o.leg = leg /\ o.why = why) /\ sent \subseteq sent'
    BY <1>0, <1>1, SubmitKeeps
  <2>2. result'.is # "filled"
    BY <1>1
  <2>3. StageOK'
    BY <1>0a, <1>1, <2>1, <2>2 DEF StageOK
  <2>4. FillOK'
    BY <1>1 DEF PricingInv, FillOK
  <2>6. AdverseByRounding'
    <3>1. CASE result' = result
      BY <1>0, <1>1, <2>1, <3>1, AdverseStays DEF PricingInv
    <3>2. CASE result'.is \in {"refused", "naked"}
      BY <3>2 DEF AdverseByRounding
    <3> QED BY <1>1, <3>1, <3>2
  <2> QED BY <1>0, <2>1, <2>3, <2>4, <2>6 DEF PricingInv
<1>2. CASE TryCombo
  <2>1. kind = "enter" /\ result.is \notin {"filled", "slippage"}
    BY <1>2 DEF TryCombo, PricingInv, StageOK
  <2>2. /\ Sends("combo", "buy", 100 * (FarLimit - NearLimit), task.qty, "enter")
        /\ fill' = fill /\ told' = told /\ result' = result /\ pc' \in {"comboSent", "near"}
    BY <1>2 DEF TryCombo, Submit, Goes
  <2>3. 100 * (FarLimit - NearLimit) \in Int
    BY <1>0a, <2>1
  <2> QED BY <1>1, <2>1, <2>2, <2>3
<1>3. CASE NoCombo
  <2>1. /\ pc \in {"combo", "comboSent"} /\ pc' = "near" /\ result' = result
        /\ fill' = fill /\ told' = told /\ sent' = sent
    BY <1>3 DEF NoCombo, Goes
  <2>2. AdverseByRounding'
    BY <1>0, <2>1, AdverseStays DEF PricingInv
  <2> QED BY <1>0, <1>0a, <2>1, <2>2 DEF PricingInv, OrdersOK, StageOK, FillOK
<1>4. CASE ComboFills
  <2>1. PICK net \in FillPrices(Sent("combo", "enter")), near \in NearLimit..(NearLimit + Improve) :
           /\ fill' = [near |-> near, far |-> near + net]
           /\ \E report \in ComboReports :
                pc' = "done" /\ result' = ComboLegFills(report, near, net)
    BY <1>4 DEF ComboFills, Done
  <2>2. net \in Int /\ near \in Int
    BY <2>1 DEF FillPrices
  <2>3. sent' = sent
    BY <1>4 DEF ComboFills
  <2>4. FillOK'
    BY <2>1, <2>2 DEF FillOK, Legs
  <2>5. result'.is = "filled" /\ pc' = "done"
    BY <2>1 DEF ComboLegFills, Booked
  <2>6. OrdersOK'
    BY <1>0a, <2>3 DEF PricingInv, OrdersOK
  <2>7. StageOK' /\ AdverseByRounding'
    BY <2>5 DEF StageOK, AdverseByRounding
  <2> QED BY <1>0, <2>4, <2>6, <2>7 DEF PricingInv
<1>5. CASE PlaceNear
  <2>1. kind = "enter" /\ result.is \notin {"filled", "slippage"}
    BY <1>5 DEF PlaceNear, PricingInv, StageOK
  <2>2. /\ Sends("near", "sell", 100 * NearLimit, task.qty, "enter") /\ fill' = fill /\ told' = told
        /\ \/ pc' = "nearSent" /\ result' = result
           \/ pc' = "done" /\ result'.is = "refused"
    BY <1>5 DEF PlaceNear, Submit, Goes, Done
  <2>3. 100 * NearLimit \in Int
    BY <1>0a, <2>1
  <2> QED BY <1>1, <2>1, <2>2, <2>3
<1>6. CASE NearFills
  <2>1. PICK price \in FillPrices(Sent("near", "enter")) :
           /\ fill' = [fill EXCEPT !.near = price]
           /\ Reports("near")
           /\ IF Adverse("sell", Taken("near"), task.nearBid)
              THEN Done([is |-> "slippage"]) ELSE Goes("far")
    BY <1>6 DEF NearFills
  <2>2. kind = "enter" /\ sent' = sent /\ result.is \notin {"filled", "slippage"}
        /\ \E o \in sent : o.leg = "near" /\ o.why = "enter"
    BY <1>6 DEF NearFills, PricingInv, StageOK
  <2> DEFINE o == Sent("near", "enter")
  <2>3. /\ price \in Int /\ o \in sent /\ o.price \in Int
        /\ o.leg = "near" /\ o.why = "enter"
        /\ o.side = "sell" /\ price >= o.price
    BY <2>1, <2>2, FilledAtBest DEF Legs
  <2> HIDE DEF o
  <2>4. OrdersOK' /\ FillOK'
    BY <1>0a, <2>1, <2>2, <2>3 DEF PricingInv, OrdersOK, FillOK, Legs
  <2>5. CASE Adverse("sell", Taken("near"), task.nearBid)
    <3>1. pc' = "done" /\ result'.is = "slippage"
      BY <2>1, <2>5 DEF Done
    <3>2. task.spot \in Nat /\ task.nearBid \in Int /\ SlippagePct \in Nat
      BY <1>0a, <2>2, PricingAssumption
    <3>3. ASSUME "near" \in told' PROVE Adverse("sell", o.price, task.nearBid)
      <4> DEFINE q == o.price
                 s == task.spot
                 i == task.nearBid
      <4>1. /\ q \in Int /\ price \in Int /\ price >= q
            /\ s \in Nat /\ i \in Int /\ SlippagePct \in Nat
        BY <2>3, <3>2
      <4>2. Taken("near") = price
        BY <2>1, <3>3 DEF Taken, PricingInv, FillOK, Legs
      <4>3. 100 * (i - price * s) > SlippagePct * i
        BY <2>5, <4>2 DEF Adverse
      <4> HIDE DEF q, s, i
      <4>4. 100 * (i - q * s) > SlippagePct * i
        BY <4>1, <4>3, AdverseSale
      <4> QED BY <4>4 DEF Adverse, q, s, i
    <3>4. ASSUME "near" \notin told' PROVE Adverse("sell", Limit("near"), task.nearBid)
      BY <2>5, <3>4 DEF Taken
    <3>5. AdverseByRounding'
      BY <1>0, <2>2, <2>3, <3>3, <3>4, GivenUp DEF Legs
    <3> QED BY <1>0, <2>4, <3>1, <3>5 DEF PricingInv, StageOK
  <2>6. CASE ~Adverse("sell", Taken("near"), task.nearBid)
    <3>1. pc' = "far" /\ result' = result
      BY <2>1, <2>6 DEF Goes
    <3>2. AdverseByRounding'
      BY <3>1, <2>2 DEF PricingInv, AdverseByRounding, StageOK
    <3> QED BY <1>0, <1>0a, <2>2, <2>4, <3>1, <3>2 DEF PricingInv, StageOK
  <2> QED BY <2>5, <2>6
<1>7. CASE PlaceFar
  <2>1. kind = "enter" /\ result.is \notin {"filled", "slippage"}
    BY <1>7 DEF PlaceFar, PricingInv, StageOK
  <2>2. /\ Sends("far", "buy", 100 * FarLimit, task.qty, "enter") /\ fill' = fill /\ told' = told
        /\ \/ pc' = "farSent" /\ result' = result
           \/ pc' = "done" /\ result'.is = "naked"
    BY <1>7 DEF PlaceFar, Submit, Goes, Done
  <2>3. 100 * FarLimit \in Int
    BY <1>0a, <2>1
  <2> QED BY <1>1, <2>1, <2>2, <2>3
<1>8. CASE FarFills
  <2>1. PICK price \in FillPrices(Sent("far", "enter")) :
           /\ fill' = [fill EXCEPT !.far = price]
           /\ Reports("far")
           /\ IF Adverse("buy", Taken("far"), task.farAsk)
              THEN pc' = "undo" /\ result' = [is |-> "slippage"]
              ELSE Done(Booked(Legs, 100 * Taken("near"), 100 * Taken("far")))
    BY <1>8 DEF FarFills
  <2>2. kind = "enter" /\ sent' = sent /\ result.is \notin {"filled", "slippage"}
        /\ \E o \in sent : o.leg = "far" /\ o.why = "enter"
    BY <1>8 DEF FarFills, PricingInv, StageOK
  <2> DEFINE o == Sent("far", "enter")
  <2>3. /\ price \in Int /\ o \in sent /\ o.price \in Int
        /\ o.leg = "far" /\ o.why = "enter"
        /\ o.side = "buy" /\ price <= o.price
    BY <2>1, <2>2, FilledAtBest DEF Legs
  <2> HIDE DEF o
  <2>4. OrdersOK' /\ FillOK'
    BY <1>0a, <2>1, <2>2, <2>3 DEF PricingInv, OrdersOK, FillOK, Legs
  <2>5. CASE Adverse("buy", Taken("far"), task.farAsk)
    <3>1. pc' = "undo" /\ result'.is = "slippage"
      BY <2>1, <2>5
    <3>2. task.spot \in Nat /\ task.farAsk \in Int /\ SlippagePct \in Nat
      BY <1>0a, <2>2, PricingAssumption
    <3>3. ASSUME "far" \in told' PROVE Adverse("buy", o.price, task.farAsk)
      <4> DEFINE q == o.price
                 s == task.spot
                 i == task.farAsk
      <4>1. /\ q \in Int /\ price \in Int /\ price <= q
            /\ s \in Nat /\ i \in Int /\ SlippagePct \in Nat
        BY <2>3, <3>2
      <4>2. Taken("far") = price
        BY <2>1, <3>3 DEF Taken, PricingInv, FillOK, Legs
      <4>3. 100 * (price * s - i) > SlippagePct * i
        BY <2>5, <4>2 DEF Adverse
      <4> HIDE DEF q, s, i
      <4>4. 100 * (q * s - i) > SlippagePct * i
        BY <4>1, <4>3, AdversePurchase
      <4> QED BY <4>4 DEF Adverse, q, s, i
    <3>4. ASSUME "far" \notin told' PROVE Adverse("buy", Limit("far"), task.farAsk)
      BY <2>5, <3>4 DEF Taken
    <3>5. AdverseByRounding'
      BY <1>0, <2>2, <2>3, <3>3, <3>4, GivenUp DEF Legs
    <3> QED BY <1>0, <2>4, <3>1, <3>5 DEF PricingInv, StageOK
  <2>6. CASE ~Adverse("buy", Taken("far"), task.farAsk)
    <3>1. pc' = "done" /\ result'.is = "filled"
      BY <2>1, <2>6 DEF Done, Booked
    <3>2. AdverseByRounding'
      BY <3>1 DEF AdverseByRounding
    <3> QED BY <1>0, <2>4, <3>1, <3>2 DEF PricingInv, StageOK
  <2> QED BY <2>5, <2>6
<1>9. CASE EntryLate
  <2>1. /\ pc' \in {"done", "undo"} /\ result' = [is |-> "late"]
        /\ fill' = fill /\ sent' = sent
    BY <1>9 DEF EntryLate
  <2> QED BY <1>0, <1>0a, <2>1 DEF PricingInv, OrdersOK, StageOK, FillOK, AdverseByRounding
<1>10. CASE CloseNear
  <2>1. kind = "close" /\ result.is \notin {"filled", "slippage"}
    BY <1>10 DEF CloseNear, PricingInv, StageOK
  <2>2. /\ Sends("near", "buy", Cross("buy", task.near), task.qty, "close") /\ fill' = fill /\ told' = told
        /\ \/ pc' = "closeFar" /\ result' = result
           \/ pc' = "done" /\ result'.is = "refused"
    BY <1>10 DEF CloseNear, Submit, Goes, Done
  <2>3. Cross("buy", task.near) \in Int
    BY <1>0a, <2>1, CrossType DEF Legs
  <2> QED BY <1>1, <2>1, <2>2, <2>3
<1>11. CASE CloseFar
  <2>1. kind = "close" /\ result.is \notin {"filled", "slippage"}
    BY <1>11 DEF CloseFar, PricingInv, StageOK
  <2>2. /\ Sends("far", "sell", Cross("sell", task.far), task.qty, "close") /\ fill' = fill /\ told' = told
        /\ \/ pc' = "closeSent" /\ result' = result
           \/ pc' = "done" /\ result'.is = "refused"
    BY <1>11 DEF CloseFar, Submit, Goes, Done
  <2>3. Cross("sell", task.far) \in Int
    BY <1>0a, <2>1, CrossType DEF Legs
  <2> QED BY <1>1, <2>1, <2>2, <2>3
<1>12. CASE CloseFills
  <2>1. PICK n \in FillPrices(Sent("near", "close")), f \in FillPrices(Sent("far", "close")) :
           /\ fill' = [near |-> n, far |-> f]
           /\ pc' = "done" /\ result'.is = "filled"
    BY <1>12 DEF CloseFills, Done, Booked
  <2>2. n \in Int /\ f \in Int /\ sent' = sent
    BY <1>12, <2>1 DEF FillPrices, CloseFills
  <2>3. OrdersOK' /\ FillOK'
    BY <1>0a, <2>1, <2>2 DEF PricingInv, OrdersOK, FillOK, Legs
  <2>4. AdverseByRounding' /\ StageOK'
    BY <2>1 DEF AdverseByRounding, StageOK
  <2> QED BY <1>0, <2>3, <2>4 DEF PricingInv
<1>13. CASE CloseLate
  <2>1. /\ pc' \in {"done", "undo"} /\ result' = [is |-> "late"]
        /\ fill' = fill /\ sent' = sent
    BY <1>13 DEF CloseLate
  <2> QED BY <1>0, <1>0a, <2>1 DEF PricingInv, OrdersOK, StageOK, FillOK, AdverseByRounding
<1>14. ASSUME NEW leg \in Legs, Reverse(leg) PROVE PricingInv'
  <2>1. /\ result.is # "filled" /\ result' = result /\ fill' = fill /\ told' = told
        /\ pc' \in {"done", "undo"}
    BY <1>14 DEF Reverse, PricingInv, StageOK
  <2>2. leg \in {"near", "far", "combo"}
    BY DEF Legs
  <2>3. CASE kind = "enter"
    <3>1. Sends(leg, IF leg = "near" THEN "buy" ELSE "sell", ReverseEntry(leg), task.qty, "undo")
      BY <1>14, <2>3 DEF Reverse
    <3>2. ReversePct \in Nat
      BY PricingAssumption
    <3>3. ReverseEntry(leg) \in Int
      BY <1>0a, <2>3, <3>2 DEF ReverseEntry
    <3> QED BY <1>1, <2>1, <2>2, <3>1, <3>3
  <2>4. CASE kind = "close"
    <3>1. Sends(leg, IF leg = "near" THEN "sell" ELSE "buy", ReverseClose(leg), task.qty, "undo")
      BY <1>14, <2>4 DEF Reverse
    <3>2. ReverseClose(leg) \in Int
      BY <1>0a, <2>4, CrossType DEF ReverseClose, Legs
    <3> QED BY <1>1, <2>1, <2>2, <3>1, <3>2
  <2> QED BY <1>0a, <2>3, <2>4
<1>15. CASE UNCHANGED vars
  <2>1. AdverseByRounding'
    BY <1>0, <1>15, AdverseStays DEF vars, PricingInv
  <2> QED BY <1>0, <1>0a, <1>15, <2>1 DEF vars, PricingInv, OrdersOK, StageOK, FillOK
<1> QED BY <1>2, <1>3, <1>4, <1>5, <1>6, <1>7, <1>8, <1>9, <1>10, <1>11, <1>12, <1>13, <1>14, <1>15
        DEF Next

LEMMA InvHolds == Spec => []PricingInv
BY InvInit, InvStep, PTL DEF Spec

\* Whatever the market does, an entry is given up only for the price of its own order,
\* or for its limit where Deribit does not say what it was filled at.
THEOREM AdverseHolds == Spec => []AdverseByRounding
<1>1. PricingInv => AdverseByRounding
  BY DEF PricingInv
<1> QED BY <1>1, InvHolds, PTL

-----------------------------------------------------------------------------
(* Rounding lands on the grid, in whichever band.                          *)

LEMMA MultipleOf ==
  ASSUME NEW x \in Int, NEW t \in Nat \ {0}
  PROVE  (x * t) % t = 0
BY SMT

LEMMA DivBounds ==
  ASSUME NEW y \in Int, NEW d \in Nat \ {0}, NEW k \in Int
  PROVE  /\ y \div d \in Int
         /\ y >= k * d => y \div d >= k
         /\ y < (k + 1) * d => y \div d <= k
BY SMT

LEMMA TimesOrder ==
  ASSUME NEW x \in Int, NEW k \in Int, NEW t \in Nat \ {0}
  PROVE  x >= k => x * t >= k * t
BY SMT

\* A price on the grid is not crossed by rounding.
LEMMA HalfUpStops ==
  ASSUME NEW price \in Int, NEW t \in Nat \ {0}
  PROVE  /\ HalfUp(price, t) \in Int /\ HalfUp(price, t) % t = 0
         /\ \A a \in Int : a % t = 0 /\ price >= 100 * a => HalfUp(price, t) >= a
         /\ \A a \in Int : a % t = 0 /\ price < 100 * a => HalfUp(price, t) <= a
<1> DEFINE y == price + 50 * t
           d == 100 * t
           x == y \div d
<1>1. y \in Int /\ d \in Nat \ {0} /\ x \in Int
  BY DivBounds
<1>2. HalfUp(price, t) = x * t
  BY DEF HalfUp
<1>3. HalfUp(price, t) \in Int /\ HalfUp(price, t) % t = 0
  <2> HIDE DEF x
  <2> QED BY <1>1, <1>2, MultipleOf
<1>4. ASSUME NEW a \in Int, a % t = 0
      PROVE  /\ price >= 100 * a => x * t >= a
             /\ price < 100 * a => x * t <= a
  <2>1. PICK k \in Int : a = k * t
    BY <1>4, SMT
  <2>2. k * d = 100 * a /\ (k + 1) * d = 100 * a + 100 * t
    BY <2>1, SMT
  <2>3. /\ price >= 100 * a => y >= k * d
        /\ price < 100 * a => y < (k + 1) * d
    BY <1>4, <2>2
  <2> HIDE DEF y, d
  <2>4. /\ price >= 100 * a => x >= k
        /\ price < 100 * a => x <= k
    BY <1>1, <2>3, DivBounds
  <2> HIDE DEF x
  <2> QED BY <1>1, <2>1, <2>4, TimesOrder
<1> HIDE DEF x
<1> QED BY <1>2, <1>3, <1>4

\* The bands of a grid, as the numbers they are.
LEMMA BandTypes ==
  ASSUME NEW g \in Grids
  PROVE  /\ g.tick \in Nat \ {0} /\ Len(g.steps) \in Nat /\ DOMAIN g.steps = 1..Len(g.steps)
         /\ \A s \in DOMAIN g.steps :
               /\ g.steps[s].above \in Nat /\ g.steps[s].tick \in Nat \ {0}
               /\ g.steps[s].above % g.steps[s].tick = 0
<1>1. g.tick \in Nat \ {0} /\ g.steps \in Seq([above : Nat, tick : Nat \ {0}])
  BY GridType
<1>2. ASSUME NEW s \in DOMAIN g.steps PROVE g.steps[s] \in [above : Nat, tick : Nat \ {0}]
  <2>1. s \in 1..Len(g.steps)
    BY <1>1
  <2> QED BY <1>1, <2>1, ElementOfSeq
<1>3. \A s \in DOMAIN g.steps : g.steps[s].above % g.steps[s].tick = 0
  BY PricingAssumption
<1> QED BY <1>1, <1>2, <1>3

\* Below all bands the grid has its own tick.
LEMMA TickBelow ==
  ASSUME NEW g \in Grids, NEW r \in Int, \A s \in DOMAIN g.steps : r < g.steps[s].above
  PROVE  TickAt(r, g) = g.tick
<1>1. {s \in DOMAIN g.steps : g.steps[s].above <= r} = {}
  BY BandTypes
<1> QED BY <1>1 DEF TickAt

\* From the start of a band to that of the next one, it has the band's.
LEMMA TickInBand ==
  ASSUME GridsNested, NEW g \in Grids, NEW r \in Int, NEW k \in DOMAIN g.steps,
         g.steps[k].above <= r, \A s \in DOMAIN g.steps : s > k => r < g.steps[s].above
  PROVE  TickAt(r, g) = g.steps[k].tick
<1> DEFINE begun == {s \in DOMAIN g.steps : g.steps[s].above <= r}
<1>1. DOMAIN g.steps = 1..Len(g.steps) /\ Len(g.steps) \in Nat /\ k \in Nat \ {0}
      /\ \A s \in DOMAIN g.steps : g.steps[s].above \in Nat
  BY BandTypes
<1>2. \A s \in DOMAIN g.steps : s < k => g.steps[s].above < g.steps[k].above
  BY DEF GridsNested
<1>3. \A s \in DOMAIN g.steps : s <= k => g.steps[s].above <= r
  BY <1>1, <1>2
<1>4. begun = 1..k
  BY <1>1, <1>3
<1>5. Cardinality(1..k) = k /\ 1..k # {}
  BY <1>1, FS_Interval
<1> HIDE DEF begun
<1>6. TickAt(r, g) = IF begun = {} THEN g.tick ELSE g.steps[Cardinality(begun)].tick
  BY DEF TickAt, begun
<1> QED BY <1>4, <1>5, <1>6

\* The tick a price is rounded to is that of the last band that has begun.
LEMMA TickChosen ==
  ASSUME NEW g \in Grids, NEW price \in Int
  PROVE  \/ /\ \A s \in DOMAIN g.steps : price < 100 * g.steps[s].above
            /\ EffectiveTickSize(price, g) = g.tick
         \/ \E k \in DOMAIN g.steps :
               /\ price >= 100 * g.steps[k].above
               /\ \A s \in DOMAIN g.steps : s > k => price < 100 * g.steps[s].above
               /\ EffectiveTickSize(price, g) = g.steps[k].tick
<1> DEFINE begun == {s \in DOMAIN g.steps : price >= 100 * g.steps[s].above}
           end == CHOOSE s \in begun : \A r \in begun : r <= s
<1>1. DOMAIN g.steps = 1..Len(g.steps) /\ Len(g.steps) \in Nat
      /\ \A s \in DOMAIN g.steps : g.steps[s].above \in Nat
  BY BandTypes
<1>2. EffectiveTickSize(price, g) = IF begun = {} THEN g.tick ELSE g.steps[end].tick
  BY DEF EffectiveTickSize
<1>3. CASE begun = {}
  BY <1>1, <1>2, <1>3
<1>4. CASE begun # {}
  <2>1. begun \in SUBSET (1..Len(g.steps))
    BY <1>1
  <2>2. \A s \in DOMAIN g.steps : s \notin begun => price < 100 * g.steps[s].above
    BY <1>1
  <2>3. \A s \in begun : price >= 100 * g.steps[s].above
    OBVIOUS
  <2> HIDE DEF begun
  <2>4. \E s \in begun : \A r \in begun : r <= s
    BY <1>1, <1>4, <2>1, LastOf
  <2>5. end \in begun /\ \A r \in begun : r <= end
    BY <2>4
  <2> HIDE DEF end
  <2>6. /\ end \in DOMAIN g.steps /\ price >= 100 * g.steps[end].above
        /\ \A s \in DOMAIN g.steps : s > end => price < 100 * g.steps[s].above
    BY <1>1, <2>1, <2>2, <2>3, <2>5
  <2> QED BY <1>2, <1>4, <2>6
<1> QED BY <1>3, <1>4

\* A rounded price lies on the grid, also one that was rounded into the next band.
LEMMA RoundedOnGrid ==
  ASSUME GridsNested, NEW g \in Grids, NEW price \in Int
  PROVE  OnGrid(HalfUp(price, EffectiveTickSize(price, g)), g)
<1>1. /\ g.tick \in Nat \ {0} /\ Len(g.steps) \in Nat /\ DOMAIN g.steps = 1..Len(g.steps)
      /\ \A s \in DOMAIN g.steps :
            /\ g.steps[s].above \in Nat /\ g.steps[s].tick \in Nat \ {0}
            /\ g.steps[s].above % g.steps[s].tick = 0
  BY BandTypes
<1>2. \A s, t \in DOMAIN g.steps : s < t => g.steps[s].above < g.steps[t].above
  BY DEF GridsNested
<1>3. ASSUME NEW k \in DOMAIN g.steps, NEW r \in Int, r = g.steps[k].above
      PROVE  OnGrid(r, g)
  <2>1. \A s \in DOMAIN g.steps : s > k => r < g.steps[s].above
    BY <1>1, <1>2, <1>3
  <2>2. g.steps[k].above <= r
    BY <1>1, <1>3
  <2>3. TickAt(r, g) = g.steps[k].tick
    BY <2>1, <2>2, TickInBand
  <2> QED BY <1>1, <1>3, <2>3 DEF OnGrid
<1>4. CASE /\ \A s \in DOMAIN g.steps : price < 100 * g.steps[s].above
           /\ EffectiveTickSize(price, g) = g.tick
  <2> DEFINE r == HalfUp(price, g.tick)
  <2>1. /\ r \in Int /\ r % g.tick = 0
        /\ \A a \in Int : a % g.tick = 0 /\ price < 100 * a => r <= a
    BY <1>1, HalfUpStops
  <2> HIDE DEF r
  <2>2. CASE \A s \in DOMAIN g.steps : r < g.steps[s].above
    BY <2>1, <2>2, TickBelow, <1>4 DEF OnGrid, r
  <2>3. CASE \E s \in DOMAIN g.steps : r >= g.steps[s].above
    <3>1. 1 \in DOMAIN g.steps /\ g.steps[1].above % g.tick = 0
      BY <1>1, <2>3 DEF GridsNested
    <3>2. r <= g.steps[1].above
      BY <1>1, <1>4, <2>1, <3>1
    <3>3. r = g.steps[1].above
      BY <1>1, <1>2, <2>1, <2>3, <3>1, <3>2
    <3> QED BY <1>3, <1>4, <2>1, <3>1, <3>3 DEF r
  <2> QED BY <1>1, <2>1, <2>2, <2>3
<1>5. CASE \E k \in DOMAIN g.steps :
              /\ price >= 100 * g.steps[k].above
              /\ \A s \in DOMAIN g.steps : s > k => price < 100 * g.steps[s].above
              /\ EffectiveTickSize(price, g) = g.steps[k].tick
  <2>1. PICK k \in DOMAIN g.steps :
              /\ price >= 100 * g.steps[k].above
              /\ \A s \in DOMAIN g.steps : s > k => price < 100 * g.steps[s].above
              /\ EffectiveTickSize(price, g) = g.steps[k].tick
    BY <1>5
  <2> DEFINE r == HalfUp(price, g.steps[k].tick)
  <2>2. /\ r \in Int /\ r % g.steps[k].tick = 0
        /\ \A a \in Int : a % g.steps[k].tick = 0 /\ price >= 100 * a => r >= a
        /\ \A a \in Int : a % g.steps[k].tick = 0 /\ price < 100 * a => r <= a
    BY <1>1, HalfUpStops
  <2> HIDE DEF r
  <2>3. g.steps[k].above <= r
    BY <1>1, <2>1, <2>2
  <2>4. CASE \A s \in DOMAIN g.steps : s > k => r < g.steps[s].above
    <3>1. TickAt(r, g) = g.steps[k].tick
      BY <2>2, <2>3, <2>4, TickInBand
    <3> QED BY <2>1, <2>2, <3>1 DEF OnGrid, r
  <2>5. CASE \E s \in DOMAIN g.steps : s > k /\ r >= g.steps[s].above
    <3> DEFINE n == k + 1
    <3>1. n \in DOMAIN g.steps /\ n > k /\ n # 1 /\ n - 1 = k
      BY <1>1, <2>5
    <3> HIDE DEF n
    <3>2. g.steps[n].above % g.steps[k].tick = 0
      BY <3>1 DEF GridsNested
    <3>3. price < 100 * g.steps[n].above /\ g.steps[n].above \in Int
      BY <1>1, <2>1, <3>1
    <3>4. r <= g.steps[n].above
      BY <2>2, <3>2, <3>3
    <3>5. PICK s \in DOMAIN g.steps : s > k /\ r >= g.steps[s].above
      BY <2>5
    <3>6. s = n \/ g.steps[n].above < g.steps[s].above
      BY <1>1, <1>2, <3>1, <3>5 DEF n
    <3>7. r = g.steps[n].above
      BY <1>1, <2>2, <3>3, <3>4, <3>5, <3>6
    <3> QED BY <1>3, <2>1, <2>2, <3>1, <3>7 DEF r
  <2> QED BY <1>1, <2>2, <2>4, <2>5
<1> QED BY <1>4, <1>5, TickChosen

-----------------------------------------------------------------------------
\* An order of a known grid is accepted.
LEMMA SendsAccepted ==
  ASSUME GridsNested, SettingOK, UNCHANGED setting, KnownGridIsMet,
         NEW leg \in {"near", "far", "combo"}, NEW side, NEW why, NEW price \in Int,
         Sends(leg, side, price, task.qty, why)
  PROVE  KnownGridIsMet'
<1>1. PICK known \in BOOLEAN : \E rounded \in RoundToTick(price, grid[leg], known) :
         sent' = sent \cup {[leg |-> leg, side |-> side, price |-> rounded, why |-> why,
                             known |-> known,
                             amount |-> IF leg = "combo" THEN task.qty ELSE ClampAmount(task.qty)]}
  BY DEF Sends
<1>2. PICK rounded \in RoundToTick(price, grid[leg], known) :
         sent' = sent \cup {[leg |-> leg, side |-> side, price |-> rounded, why |-> why,
                             known |-> known,
                             amount |-> IF leg = "combo" THEN task.qty ELSE ClampAmount(task.qty)]}
  BY <1>1
<1>3. ClampAmount(task.qty) = task.qty /\ task.qty \in Nat \ {0} /\ task.qty % lot.min = 0
  <2>1. lot.min \in Nat \ {0}
    BY PricingAssumption DEF SettingOK
  <2> QED BY <2>1, ClampKeeps DEF SettingOK, ClampAmount
<1>4. known => OnGrid(rounded, grid[leg])
  <2>1. grid[leg] \in Grids
    BY DEF SettingOK
  <2>2. known => rounded = HalfUp(price, EffectiveTickSize(price, grid[leg]))
    BY <1>2 DEF RoundToTick
  <2> QED BY <2>1, <2>2, RoundedOnGrid
<1> DEFINE new == [leg |-> leg, side |-> side, price |-> rounded, why |-> why, known |-> known,
                   amount |-> IF leg = "combo" THEN task.qty ELSE ClampAmount(task.qty)]
<1>5. /\ sent' = sent \cup {new} /\ new.known = known
      /\ new.price = rounded /\ new.leg = leg /\ new.amount = task.qty
  BY <1>2, <1>3
<1> HIDE DEF new
<1>6. grid' = grid /\ lot' = lot
  BY DEF setting
<1>7. ASSUME NEW o \in sent', o.known PROVE Accepts(o)'
  <2>1. CASE o = new
    BY <1>3, <1>4, <1>5, <1>6, <1>7, <2>1 DEF Accepts
  <2>2. CASE o \in sent
    <3>1. Accepts(o)
      BY <1>7, <2>2 DEF KnownGridIsMet
    <3> QED BY <1>6, <3>1 DEF Accepts
  <2> QED BY <1>5, <2>1, <2>2
<1> QED BY <1>7 DEF KnownGridIsMet

\* A step sends one order of the call's quantity, or none.
LEMMA StepSends ==
  ASSUME SettingOK, StageOK, [Next]_vars
  PROVE  \/ sent' = sent
         \/ \E leg \in {"near", "far", "combo"}, side \in {"buy", "sell"},
               why \in {"enter", "close", "undo"}, price \in Int :
                  Sends(leg, side, price, task.qty, why)
<1>1. /\ kind = "enter" => NearLimit \in Int /\ FarLimit \in Int
      /\ kind = "close" => task \in Quotes
      /\ kind \in {"enter", "close"} /\ ReversePct \in Nat
  BY LimitTypes, PricingAssumption DEF SettingOK
<1>2. CASE TryCombo
  <2>1. kind = "enter" /\ Sends("combo", "buy", 100 * (FarLimit - NearLimit), task.qty, "enter")
    BY <1>2 DEF TryCombo, Submit, StageOK
  <2> QED BY <1>1, <2>1
<1>3. CASE PlaceNear
  <2>1. kind = "enter" /\ Sends("near", "sell", 100 * NearLimit, task.qty, "enter")
    BY <1>3 DEF PlaceNear, Submit, StageOK
  <2> QED BY <1>1, <2>1
<1>4. CASE PlaceFar
  <2>1. kind = "enter" /\ Sends("far", "buy", 100 * FarLimit, task.qty, "enter")
    BY <1>4 DEF PlaceFar, Submit, StageOK
  <2> QED BY <1>1, <2>1
<1>5. CASE CloseNear
  <2>1. kind = "close" /\ Sends("near", "buy", Cross("buy", task.near), task.qty, "close")
    BY <1>5 DEF CloseNear, Submit, StageOK
  <2>2. Cross("buy", task.near) \in Int
    BY <1>1, <2>1, CrossType DEF Legs
  <2> QED BY <2>1, <2>2
<1>6. CASE CloseFar
  <2>1. kind = "close" /\ Sends("far", "sell", Cross("sell", task.far), task.qty, "close")
    BY <1>6 DEF CloseFar, Submit, StageOK
  <2>2. Cross("sell", task.far) \in Int
    BY <1>1, <2>1, CrossType DEF Legs
  <2> QED BY <2>1, <2>2
<1>7. ASSUME NEW leg \in Legs, Reverse(leg)
      PROVE  \E side \in {"buy", "sell"}, price \in Int : Sends(leg, side, price, task.qty, "undo")
  <2>1. CASE kind = "enter"
    <3>1. ReverseEntry(leg) \in Int
      BY <1>1, <2>1 DEF ReverseEntry
    <3> QED BY <1>7, <2>1, <3>1 DEF Reverse
  <2>2. CASE kind = "close"
    <3>1. ReverseClose(leg) \in Int
      BY <1>1, <2>2, CrossType DEF ReverseClose, Legs
    <3> QED BY <1>1, <1>7, <2>2, <3>1 DEF Reverse
  <2> QED BY <1>1, <2>1, <2>2
<1>8. CASE NoCombo \/ ComboFills \/ NearFills \/ FarFills \/ EntryLate \/ CloseFills \/ CloseLate
           \/ UNCHANGED vars
  BY <1>8 DEF NoCombo, ComboFills, NearFills, FarFills, EntryLate, CloseFills, CloseLate, vars
<1>9. CASE \E leg \in Legs : Reverse(leg)
  BY <1>7, <1>9 DEF Legs
<1> QED BY <1>2, <1>3, <1>4, <1>5, <1>6, <1>8, <1>9 DEF Next

\* Deribit takes every order of an instrument whose grid the executor knows, in whichever
\* band rounding leaves it, for any prices, grids and amount steps.
THEOREM GridHolds == Spec => []KnownGridIsMet
<1>1. Init => KnownGridIsMet
  BY DEF Init, KnownGridIsMet
<1>2. PricingInv /\ KnownGridIsMet /\ [Next]_vars => KnownGridIsMet'
  <2> SUFFICES ASSUME PricingInv, KnownGridIsMet, [Next]_vars PROVE KnownGridIsMet'
    OBVIOUS
  <2>1. UNCHANGED setting /\ SettingOK
    BY SettingStays DEF PricingInv
  <2>2. CASE sent' = sent
    BY <2>1, <2>2 DEF KnownGridIsMet, Accepts, setting
  <2> QED BY <2>1, <2>2, GridAssumption, StepSends, SendsAccepted DEF PricingInv
<1> QED BY <1>1, <1>2, InvHolds, PTL DEF Spec

-----------------------------------------------------------------------------
(* Rounding keeps the order of prices.                                     *)

\* The bands of a grid, the one below all steps being the 0th.
BandTick(g, k) == IF k = 0 THEN g.tick ELSE g.steps[k].tick

InBand(g, price, k) ==
    /\ k \in 0..Len(g.steps)
    /\ k > 0 => price >= 100 * g.steps[k].above
    /\ k < Len(g.steps) => price < 100 * g.steps[k + 1].above

Rounded(price, g) == HalfUp(price, EffectiveTickSize(price, g))

LEMMA BandFacts ==
  ASSUME GridsNested, NEW g \in Grids
  PROVE  /\ Len(g.steps) \in Nat
         /\ \A k \in 0..Len(g.steps) : BandTick(g, k) \in Nat \ {0}
         /\ \A k \in 1..Len(g.steps) : /\ g.steps[k].above \in Nat
                                       /\ g.steps[k].above % BandTick(g, k) = 0
                                       /\ g.steps[k].above % BandTick(g, k - 1) = 0
         /\ \A j, k \in 1..Len(g.steps) : j < k => g.steps[j].above < g.steps[k].above
         /\ TicksRise => \A j, k \in 0..Len(g.steps) : j <= k => BandTick(g, j) <= BandTick(g, k)
<1>1. /\ g.tick \in Nat \ {0} /\ Len(g.steps) \in Nat /\ DOMAIN g.steps = 1..Len(g.steps)
      /\ \A s \in DOMAIN g.steps :
            /\ g.steps[s].above \in Nat /\ g.steps[s].tick \in Nat \ {0}
            /\ g.steps[s].above % g.steps[s].tick = 0
  BY BandTypes
<1>2. \A s \in 1..Len(g.steps) :
        /\ g.steps[s].above % (IF s = 1 THEN g.tick ELSE g.steps[s - 1].tick) = 0
        /\ \A r \in 1..Len(g.steps) : r < s => g.steps[r].above < g.steps[s].above
  BY <1>1 DEF GridsNested
<1>3. \A k \in 0..Len(g.steps) : BandTick(g, k) \in Nat \ {0}
  BY <1>1 DEF BandTick
<1>4. \A k \in 1..Len(g.steps) : /\ g.steps[k].above \in Nat
                                 /\ g.steps[k].above % BandTick(g, k) = 0
  BY <1>1 DEF BandTick
<1>5. ASSUME NEW k \in 1..Len(g.steps) PROVE g.steps[k].above % BandTick(g, k - 1) = 0
  <2>1. CASE k = 1
    BY <1>1, <1>2, <2>1 DEF BandTick
  <2>2. CASE k # 1
    <3>1. k - 1 # 0
      BY <2>2
    <3> QED BY <1>1, <1>2, <2>2, <3>1 DEF BandTick
  <2> QED BY <2>1, <2>2
<1>6. ASSUME TicksRise, NEW j \in 0..Len(g.steps), NEW k \in 0..Len(g.steps), j <= k
      PROVE  BandTick(g, j) <= BandTick(g, k)
  <2>1. \A s \in 1..Len(g.steps) :
          /\ g.tick <= g.steps[s].tick
          /\ \A r \in 1..Len(g.steps) : r < s => g.steps[r].tick <= g.steps[s].tick
    BY <1>1, <1>6 DEF TicksRise
  <2>2. CASE j = k
    BY <1>3, <2>2
  <2>3. CASE j < k
    BY <1>1, <1>6, <2>1, <2>3 DEF BandTick
  <2> QED BY <1>1, <1>6, <2>2, <2>3
<1> QED BY <1>1, <1>2, <1>3, <1>4, <1>5, <1>6

LEMMA BandOf ==
  ASSUME GridsNested, NEW g \in Grids, NEW price \in Int
  PROVE  \E k \in 0..Len(g.steps) :
            InBand(g, price, k) /\ EffectiveTickSize(price, g) = BandTick(g, k)
<1>1. DOMAIN g.steps = 1..Len(g.steps) /\ Len(g.steps) \in Nat
  BY BandTypes
<1>2. CASE /\ \A s \in DOMAIN g.steps : price < 100 * g.steps[s].above
           /\ EffectiveTickSize(price, g) = g.tick
  <2>1. 0 \in 0..Len(g.steps) /\ InBand(g, price, 0)
    BY <1>1, <1>2 DEF InBand
  <2> QED BY <1>2, <2>1 DEF BandTick
<1>3. ASSUME NEW k \in DOMAIN g.steps,
             price >= 100 * g.steps[k].above,
             \A s \in DOMAIN g.steps : s > k => price < 100 * g.steps[s].above,
             EffectiveTickSize(price, g) = g.steps[k].tick
      PROVE  k \in 0..Len(g.steps) /\ InBand(g, price, k)
             /\ EffectiveTickSize(price, g) = BandTick(g, k)
  <2>1. k \in 1..Len(g.steps)
    BY <1>1
  <2>2. k < Len(g.steps) => price < 100 * g.steps[k + 1].above
    BY <1>1, <1>3, <2>1
  <2> QED BY <1>1, <1>3, <2>1, <2>2 DEF InBand, BandTick
<1> QED BY <1>2, <1>3, TickChosen

LEMMA BandAt ==
  ASSUME GridsNested, NEW g \in Grids, NEW r \in Int
  PROVE  \E k \in 0..Len(g.steps) : InBand(g, 100 * r, k) /\ TickAt(r, g) = BandTick(g, k)
<1>1. /\ DOMAIN g.steps = 1..Len(g.steps) /\ Len(g.steps) \in Nat
      /\ \A s \in 1..Len(g.steps) : g.steps[s].above \in Nat
      /\ \A i, j \in 1..Len(g.steps) : i < j => g.steps[i].above < g.steps[j].above
  BY BandTypes, BandFacts
<1>2. PICK k \in 0..Len(g.steps) : InBand(g, 100 * r, k)
  BY BandOf
<1>3. \A s \in 1..Len(g.steps) : s > k => r < g.steps[s].above
  <2> SUFFICES ASSUME NEW s \in 1..Len(g.steps), s > k PROVE r < g.steps[s].above
    OBVIOUS
  <2>1. k + 1 \in 1..Len(g.steps) /\ r < g.steps[k + 1].above
    BY <1>1, <1>2 DEF InBand
  <2>2. s = k + 1 \/ g.steps[k + 1].above < g.steps[s].above
    BY <1>1, <2>1
  <2> QED BY <1>1, <2>1, <2>2
<1>4. CASE k = 0
  <2>1. TickAt(r, g) = g.tick
    BY <1>1, <1>3, <1>4, TickBelow
  <2> QED BY <1>2, <1>4, <2>1 DEF BandTick
<1>5. CASE k # 0
  <2>1. k \in DOMAIN g.steps /\ g.steps[k].above <= r
    BY <1>1, <1>2, <1>5 DEF InBand
  <2>2. TickAt(r, g) = g.steps[k].tick
    BY <1>1, <1>3, <2>1, TickInBand
  <2> QED BY <1>2, <1>5, <2>2 DEF BandTick
<1> QED BY <1>4, <1>5

\* A higher price is in no lower band, and between two bands lies a start.
LEMMA BandsAscend ==
  ASSUME GridsNested, NEW g \in Grids, NEW p \in Int, NEW q \in Int, p <= q,
         NEW j \in 0..Len(g.steps), InBand(g, p, j),
         NEW k \in 0..Len(g.steps), InBand(g, q, k)
  PROVE  /\ j <= k
         /\ j < k => /\ j + 1 \in 1..Len(g.steps) /\ k \in 1..Len(g.steps)
                     /\ p < 100 * g.steps[j + 1].above
                     /\ g.steps[j + 1].above <= g.steps[k].above
                     /\ 100 * g.steps[k].above <= q
<1>1. /\ Len(g.steps) \in Nat
      /\ \A s \in 1..Len(g.steps) : g.steps[s].above \in Nat
      /\ \A x, y \in 1..Len(g.steps) : x < y => g.steps[x].above < g.steps[y].above
  BY BandFacts
<1>2. ASSUME k < j PROVE FALSE
  <2> DEFINE x == g.steps[k + 1].above
             y == g.steps[j].above
  <2>1. k + 1 \in 1..Len(g.steps) /\ j \in 1..Len(g.steps)
    BY <1>1, <1>2
  <2>2. q < 100 * x /\ 100 * y <= p
    BY <1>1, <1>2, <2>1 DEF InBand
  <2>3. x \in Nat /\ y \in Nat
    BY <1>1, <2>1
  <2>4. x <= y
    <3>1. k + 1 = j \/ x < y
      BY <1>1, <1>2, <2>1
    <3> HIDE DEF x
    <3>2. k + 1 = j => x = y
      BY DEF x
    <3> QED BY <2>3, <3>1, <3>2
  <2> HIDE DEF x, y
  <2> QED BY <2>2, <2>3, <2>4
<1>3. ASSUME j < k
      PROVE  /\ j + 1 \in 1..Len(g.steps) /\ k \in 1..Len(g.steps)
             /\ p < 100 * g.steps[j + 1].above
             /\ g.steps[j + 1].above <= g.steps[k].above
             /\ 100 * g.steps[k].above <= q
  <2>1. j + 1 \in 1..Len(g.steps) /\ k \in 1..Len(g.steps)
    BY <1>1, <1>3
  <2>2. p < 100 * g.steps[j + 1].above /\ 100 * g.steps[k].above <= q
    BY <1>1, <1>3, <2>1 DEF InBand
  <2>3. j + 1 = k \/ g.steps[j + 1].above < g.steps[k].above
    BY <1>1, <1>3, <2>1
  <2> QED BY <1>1, <2>1, <2>2, <2>3
<1>4. j <= k
  BY <1>1, <1>2
<1> QED BY <1>3, <1>4

\* Where a price is rounded to, exactly.
LEMMA HalfUpIs ==
  ASSUME NEW p \in Int, NEW t \in Nat \ {0}, NEW a \in Int, a % t = 0
  PROVE  /\ HalfUp(p, t) \in Int
         /\ p + 50 * t >= 100 * a => HalfUp(p, t) >= a
         /\ p + 50 * t < 100 * a => HalfUp(p, t) <= a - t
<1> DEFINE y == p + 50 * t
           d == 100 * t
           x == y \div d
<1>1. y \in Int /\ d \in Nat \ {0} /\ x \in Int
  BY DivBounds
<1>2. HalfUp(p, t) = x * t
  BY DEF HalfUp
<1>3. PICK k \in Int : a = k * t
  BY SMT
<1>4. k * d = 100 * a /\ (k - 1) + 1 = k /\ (k - 1) * t = a - t /\ k - 1 \in Int
  BY <1>3, SMT
<1> HIDE DEF d
<1>5. y >= 100 * a => x >= k
  <2> HIDE DEF y
  <2> QED BY <1>1, <1>4, DivBounds
<1>6. y < 100 * a => x <= k - 1
  <2>1. ((k - 1) + 1) * d = 100 * a
    BY <1>4
  <2> HIDE DEF y
  <2> QED BY <1>1, <1>4, <2>1, DivBounds
<1> HIDE DEF x
<1>7. /\ x >= k => x * t >= k * t
      /\ x <= k - 1 => (k - 1) * t >= x * t
      /\ x * t \in Int
  BY <1>1, <1>4, TimesOrder
<1> QED BY <1>2, <1>3, <1>4, <1>5, <1>6, <1>7

LEMMA NextMultiple ==
  ASSUME NEW r \in Int, NEW t \in Nat \ {0}, r % t = 0
  PROVE  r + t \in Int /\ (r + t) % t = 0
<1>1. PICK k \in Int : r = k * t
  BY SMT
<1>2. r + t = (k + 1) * t /\ k + 1 \in Int
  BY <1>1, SMT
<1>3. r + t \in Int
  OBVIOUS
<1> QED BY <1>2, <1>3, MultipleOf

LEMMA HalfUpMeets ==
  ASSUME NEW p \in Int, NEW t \in Nat \ {0}, NEW a \in Int, a % t = 0
  PROVE  /\ HalfUp(p, t) \in Int
         /\ p >= 100 * a => HalfUp(p, t) >= a
         /\ p < 100 * a => HalfUp(p, t) <= a
BY HalfUpStops

LEMMA HalfUpRises ==
  ASSUME NEW p \in Int, NEW q \in Int, p <= q, NEW t \in Nat \ {0}
  PROVE  HalfUp(p, t) <= HalfUp(q, t)
<1> DEFINE a == HalfUp(p, t)
<1>1. a \in Int /\ a % t = 0
  BY HalfUpStops
<1> HIDE DEF a
<1>2. p + 50 * t < 100 * a => a <= a - t
  BY <1>1, HalfUpIs DEF a
<1>3. q + 50 * t >= 100 * a
  BY <1>1, <1>2
<1> QED BY <1>1, <1>3, HalfUpIs DEF a

LEMMA RoundedInt ==
  ASSUME NEW g \in Grids, NEW p \in Int
  PROVE  Rounded(p, g) \in Int
BY TickType, HalfUpStops DEF Rounded

\* A price beyond one on the grid stays beyond it, or meets it.
LEMMA RoundReaches ==
  ASSUME GridsNested, NEW g \in Grids, NEW p \in Int, NEW a \in Int, OnGrid(a, g)
  PROVE  /\ Rounded(p, g) \in Int
         /\ p >= 100 * a => Rounded(p, g) >= a
         /\ p <= 100 * a => Rounded(p, g) <= a
<1>1. PICK j \in 0..Len(g.steps) : InBand(g, p, j) /\ EffectiveTickSize(p, g) = BandTick(g, j)
  BY BandOf
<1>2. PICK k \in 0..Len(g.steps) : InBand(g, 100 * a, k) /\ TickAt(a, g) = BandTick(g, k)
  BY BandAt
<1> DEFINE t == BandTick(g, j)
<1>3. t \in Nat \ {0} /\ Rounded(p, g) = HalfUp(p, t) /\ HalfUp(p, t) \in Int
  BY <1>1, BandFacts, HalfUpStops DEF Rounded
<1>4. a % BandTick(g, k) = 0
  BY <1>2 DEF OnGrid
<1>5. CASE j = k
  <2>1. a % t = 0
    BY <1>4, <1>5
  <2> HIDE DEF t
  <2>2. p <= 100 * a => HalfUp(p, t) <= HalfUp(100 * a, t)
    BY <1>3, HalfUpRises
  <2>3. p >= 100 * a => HalfUp(p, t) >= a
    BY <1>3, <2>1, HalfUpMeets
  <2>5. HalfUp(100 * a, t) <= (a + t) - t
    <3>1. (a + t) % t = 0 /\ a + t \in Int
      BY <1>3, <2>1, NextMultiple
    <3>2. 100 * a + 50 * t < 100 * (a + t)
      BY <1>3
    <3>3. 100 * a \in Int
      OBVIOUS
    <3> QED BY <1>3, <3>1, <3>2, <3>3, HalfUpIs
  <2>4. HalfUp(100 * a, t) \in Int
    BY <1>3, HalfUpStops
  <2> QED BY <1>3, <2>2, <2>3, <2>4, <2>5
<1>6. CASE p >= 100 * a /\ j # k
  <2> DEFINE b == g.steps[j].above
             c == g.steps[k + 1].above
  <2>1. k + 1 \in 1..Len(g.steps) /\ j \in 1..Len(g.steps)
        /\ 100 * a < 100 * c /\ c <= b /\ 100 * b <= p
    BY <1>1, <1>2, <1>6, BandsAscend
  <2>2. b \in Nat /\ b % t = 0 /\ c \in Nat
    BY <2>1, BandFacts
  <2> HIDE DEF t, b, c
  <2>3. HalfUp(p, t) >= b
    BY <1>3, <2>1, <2>2, HalfUpMeets
  <2>4. a < b /\ 100 * a < p
    BY <2>1, <2>2
  <2> QED BY <1>3, <2>2, <2>3, <2>4
<1>7. CASE p < 100 * a /\ j # k
  <2> DEFINE b == g.steps[j + 1].above
             c == g.steps[k].above
  <2>1. j + 1 \in 1..Len(g.steps) /\ k \in 1..Len(g.steps)
        /\ p < 100 * b /\ b <= c /\ 100 * c <= 100 * a
    BY <1>1, <1>2, <1>7, BandsAscend
  <2>2. b \in Nat /\ b % t = 0 /\ c \in Nat
    <3>1. (j + 1) - 1 = j
      OBVIOUS
    <3> QED BY <2>1, <3>1, BandFacts
  <2> HIDE DEF t, b, c
  <2>3. HalfUp(p, t) <= b
    BY <1>3, <2>1, <2>2, HalfUpMeets
  <2> QED BY <1>3, <1>7, <2>1, <2>2, <2>3
<1> QED BY <1>5, <1>6, <1>7

LEMMA RoundRises ==
  ASSUME GridsNested, NEW g \in Grids, NEW p \in Int, NEW q \in Int, p <= q
  PROVE  Rounded(p, g) <= Rounded(q, g)
<1>1. PICK j \in 0..Len(g.steps) : InBand(g, p, j) /\ EffectiveTickSize(p, g) = BandTick(g, j)
  BY BandOf
<1>2. PICK k \in 0..Len(g.steps) : InBand(g, q, k) /\ EffectiveTickSize(q, g) = BandTick(g, k)
  BY BandOf
<1> DEFINE t == BandTick(g, j)
           u == BandTick(g, k)
<1>3. /\ t \in Nat \ {0} /\ Rounded(p, g) = HalfUp(p, t) /\ HalfUp(p, t) \in Int
      /\ u \in Nat \ {0} /\ Rounded(q, g) = HalfUp(q, u) /\ HalfUp(q, u) \in Int
  BY <1>1, <1>2, BandFacts, HalfUpStops DEF Rounded
<1>4. CASE j = k
  BY <1>3, <1>4, HalfUpRises
<1>5. CASE j # k
  <2> DEFINE b == g.steps[j + 1].above
             c == g.steps[k].above
  <2>1. j + 1 \in 1..Len(g.steps) /\ k \in 1..Len(g.steps)
        /\ p < 100 * b /\ b <= c /\ 100 * c <= q
    BY <1>1, <1>2, <1>5, BandsAscend
  <2>2. b \in Nat /\ b % t = 0 /\ c \in Nat /\ c % u = 0
    <3>1. (j + 1) - 1 = j
      OBVIOUS
    <3> QED BY <2>1, <3>1, BandFacts
  <2> HIDE DEF t, u, b, c
  <2>3. HalfUp(p, t) <= b
    BY <1>3, <2>1, <2>2, HalfUpMeets
  <2>4. HalfUp(q, u) >= c
    BY <1>3, <2>1, <2>2, HalfUpMeets
  <2> QED BY <1>3, <2>1, <2>2, <2>3, <2>4
<1> QED BY <1>4, <1>5

\* Half a tick beyond a price on the grid, rounding goes to another one.
LEMMA RoundAbove ==
  ASSUME GridsNested, NEW g \in Grids, NEW p \in Int, NEW r \in Int, OnGrid(r, g),
         p >= 100 * r + 50 * TickAt(r, g)
  PROVE  Rounded(p, g) > r
<1>1. PICK j \in 0..Len(g.steps) : InBand(g, p, j) /\ EffectiveTickSize(p, g) = BandTick(g, j)
  BY BandOf
<1>2. PICK k \in 0..Len(g.steps) : InBand(g, 100 * r, k) /\ TickAt(r, g) = BandTick(g, k)
  BY BandAt
<1> DEFINE t == BandTick(g, j)
           u == BandTick(g, k)
<1>3. t \in Nat \ {0} /\ Rounded(p, g) = HalfUp(p, t) /\ u \in Nat \ {0}
  BY <1>1, <1>2, BandFacts DEF Rounded
<1>4. r % u = 0 /\ p >= 100 * r + 50 * u
  BY <1>2 DEF OnGrid
<1>5. 100 * r <= p
  <2> HIDE DEF u
  <2> QED BY <1>3, <1>4
<1>6. CASE j = k
  <2>1. t = u
    BY <1>6
  <2> HIDE DEF t, u
  <2>2. (r + u) % u = 0 /\ r + u \in Int
    BY <1>3, <1>4, NextMultiple
  <2>3. p + 50 * u >= 100 * (r + u)
    BY <1>3, <1>4
  <2>4. HalfUp(p, u) \in Int /\ HalfUp(p, u) >= r + u
    BY <1>3, <2>2, <2>3, HalfUpIs
  <2> QED BY <1>3, <2>1, <2>4
<1>7. CASE j # k
  <2> DEFINE b == g.steps[k + 1].above
             c == g.steps[j].above
  <2>1. k + 1 \in 1..Len(g.steps) /\ j \in 1..Len(g.steps)
        /\ 100 * r < 100 * b /\ b <= c /\ 100 * c <= p
    BY <1>1, <1>2, <1>5, <1>7, BandsAscend
  <2>2. b \in Nat /\ c \in Nat /\ c % t = 0
    BY <2>1, BandFacts
  <2> HIDE DEF t, b, c
  <2>3. HalfUp(p, t) \in Int
    BY <1>3, HalfUpStops
  <2>4. HalfUp(p, t) >= c
    BY <1>3, <2>1, <2>2, HalfUpMeets
  <2> QED BY <1>3, <2>1, <2>2, <2>3, <2>4
<1> QED BY <1>6, <1>7

LEMMA RoundBelow ==
  ASSUME GridsNested, TicksRise, NEW g \in Grids, NEW p \in Int, NEW r \in Int, OnGrid(r, g),
         p < 100 * r - 50 * TickAt(r, g)
  PROVE  Rounded(p, g) < r
<1>1. PICK j \in 0..Len(g.steps) : InBand(g, p, j) /\ EffectiveTickSize(p, g) = BandTick(g, j)
  BY BandOf
<1>2. PICK k \in 0..Len(g.steps) : InBand(g, 100 * r, k) /\ TickAt(r, g) = BandTick(g, k)
  BY BandAt
<1> DEFINE t == BandTick(g, j)
           u == BandTick(g, k)
<1>3. t \in Nat \ {0} /\ Rounded(p, g) = HalfUp(p, t) /\ u \in Nat \ {0}
  BY <1>1, <1>2, BandFacts DEF Rounded
<1>4. r % u = 0 /\ p < 100 * r - 50 * u
  BY <1>2 DEF OnGrid
<1>5. p <= 100 * r
  <2> HIDE DEF u
  <2> QED BY <1>3, <1>4
<1>6. t <= u
  BY <1>1, <1>2, <1>5, BandsAscend, BandFacts
<1>7. ASSUME r % t = 0 PROVE HalfUp(p, t) < r
  <2> HIDE DEF t, u
  <2>1. p + 50 * t < 100 * r
    BY <1>3, <1>4, <1>6
  <2>2. HalfUp(p, t) \in Int /\ HalfUp(p, t) <= r - t
    BY <1>3, <1>7, <2>1, HalfUpIs
  <2> QED BY <1>3, <2>2
<1>8. CASE j = k
  BY <1>3, <1>4, <1>7, <1>8
<1>9. CASE j # k
  <2> DEFINE b == g.steps[j + 1].above
             c == g.steps[k].above
  <2>1. j + 1 \in 1..Len(g.steps) /\ k \in 1..Len(g.steps)
        /\ p < 100 * b /\ b <= c /\ 100 * c <= 100 * r
    BY <1>1, <1>2, <1>5, <1>9, BandsAscend
  <2>2. b \in Nat /\ b % t = 0 /\ c \in Nat
    <3>1. (j + 1) - 1 = j
      OBVIOUS
    <3> QED BY <2>1, <3>1, BandFacts
  <2> HIDE DEF t, b, c
  <2>3. CASE r = b
    BY <1>3, <1>7, <2>2, <2>3
  <2>4. CASE r # b
    <3>0. HalfUp(p, t) \in Int
      BY <1>3, HalfUpStops
    <3>1. HalfUp(p, t) <= b
      BY <1>3, <2>1, <2>2, HalfUpMeets
    <3> QED BY <1>3, <2>1, <2>2, <2>4, <3>0, <3>1
  <2> QED BY <2>3, <2>4
<1> QED BY <1>8, <1>9

\* A rounded price is half a tick from what it was at most.
LEMMA RoundNear ==
  ASSUME GridsNested, TicksRise, NEW g \in Grids, NEW q \in Int
  PROVE  LET r == Rounded(q, g)
         IN  /\ r \in Int /\ TickAt(r, g) \in Nat \ {0}
             /\ 100 * r - 50 * TickAt(r, g) <= q /\ q < 100 * r + 50 * TickAt(r, g)
<1> DEFINE r == Rounded(q, g)
<1>1. PICK j \in 0..Len(g.steps) : InBand(g, q, j) /\ EffectiveTickSize(q, g) = BandTick(g, j)
  BY BandOf
<1> DEFINE t == BandTick(g, j)
<1>2. t \in Nat \ {0} /\ r = HalfUp(q, t) /\ r \in Int /\ r % t = 0
  BY <1>1, BandFacts, HalfUpStops DEF Rounded
<1>3. PICK k \in 0..Len(g.steps) : InBand(g, 100 * r, k) /\ TickAt(r, g) = BandTick(g, k)
  BY <1>2, BandAt
<1> DEFINE u == BandTick(g, k)
<1>4. u \in Nat \ {0}
  BY <1>3, BandFacts
<1>5. 100 * r - 50 * t <= q /\ q < 100 * r + 50 * t
  <2> HIDE DEF t, r
  <2>1. q + 50 * t < 100 * r => r <= r - t
    BY <1>2, HalfUpIs
  <2>2. (r + t) % t = 0 /\ r + t \in Int
    BY <1>2, NextMultiple
  <2>3. q + 50 * t >= 100 * (r + t) => r >= r + t
    BY <1>2, <2>2, HalfUpIs
  <2> QED BY <1>2, <2>1, <2>3
<1>6. t <= u
  <2>1. j <= k
    <3>1. CASE j = 0
      BY <1>3, <3>1
    <3>2. CASE j # 0
      <4> DEFINE b == g.steps[j].above
      <4>1. j \in 1..Len(g.steps) /\ 100 * b <= q
        BY <1>1, <3>2 DEF InBand
      <4>2. b \in Nat /\ b % t = 0
        BY <4>1, BandFacts
      <4>3. r >= b
        <5> HIDE DEF t, b, r
        <5> QED BY <1>2, <4>1, <4>2, HalfUpMeets
      <4>4. InBand(g, 100 * b, j)
        <5> DEFINE c == g.steps[j + 1].above
        <5>1. ASSUME j < Len(g.steps) PROVE b < c /\ c \in Nat
          <6>1. j + 1 \in 1..Len(g.steps) /\ j < j + 1
            BY <4>1, <5>1, BandFacts
          <6> QED BY <4>1, <6>1, BandFacts
        <5> QED BY <4>1, <4>2, <5>1 DEF InBand
      <4> HIDE DEF r, b
      <4>5. 100 * b <= 100 * r /\ 100 * b \in Int /\ 100 * r \in Int
        BY <1>2, <4>2, <4>3
      <4> QED BY <1>3, <4>4, <4>5, BandsAscend
    <3> QED BY <3>1, <3>2
  <2> QED BY <1>3, <2>1, BandFacts
<1> HIDE DEF t, u, r
<1>7. 100 * r - 50 * u <= q /\ q < 100 * r + 50 * u
  <2>1. 50 * t <= 50 * u /\ 50 * t \in Int /\ 50 * u \in Int /\ 100 * r \in Int
    BY <1>2, <1>4, <1>6
  <2> QED BY <1>5, <2>1
<1> QED BY <1>2, <1>3, <1>4, <1>7 DEF r, u

\* Five per cent beyond its price, an order of 21 ticks or more is rounded beyond it.
LEMMA ReversedUp ==
  ASSUME GridsNested, TicksRise, NEW g \in Grids, NEW lim \in Nat, NEW pct \in Nat, pct >= 5
  PROVE  LET r == Rounded(100 * lim, g)
             u == Rounded(lim * (100 + pct), g)
         IN  u >= r /\ (r >= 21 * TickAt(r, g) => u > r)
<1> DEFINE q == 100 * lim
           p == lim * (100 + pct)
           r == Rounded(q, g)
           t == TickAt(r, g)
<1>1. q \in Int /\ p \in Int /\ q <= p /\ 100 * p >= 105 * q
  <2>1. lim * pct \in Nat /\ lim * pct >= lim * 5
    BY SMT
  <2>2. p = 100 * lim + lim * pct
    BY SMT
  <2> QED BY <2>1, <2>2
<1> HIDE DEF q, p
<1>2. r \in Int /\ t \in Nat \ {0} /\ 100 * r - 50 * t <= q
  BY <1>1, RoundNear
<1>3. OnGrid(r, g)
  BY <1>1, RoundedOnGrid DEF Rounded
<1>4. Rounded(p, g) >= r
  <2>1. r <= Rounded(p, g)
    BY <1>1, RoundRises
  <2>2. Rounded(p, g) \in Int
    BY <1>1, <1>2, <1>3, RoundReaches
  <2> HIDE DEF r
  <2> QED BY <1>2, <2>1, <2>2
<1>5. ASSUME r >= 21 * t PROVE Rounded(p, g) > r
  <2>1. p >= 100 * r + 50 * t
    <3> HIDE DEF r, t
    <3> QED BY <1>1, <1>2, <1>5
  <2> HIDE DEF r
  <2> QED BY <1>1, <1>2, <1>3, <2>1, RoundAbove
<1> QED BY <1>4, <1>5 DEF q, p

LEMMA ReversedDown ==
  ASSUME GridsNested, TicksRise, NEW g \in Grids, NEW lim \in Nat, NEW pct \in Nat, pct >= 5
  PROVE  LET r == Rounded(100 * lim, g)
             u == Rounded(lim * (100 - pct), g)
         IN  u <= r /\ (r >= 21 * TickAt(r, g) => u < r)
<1> DEFINE q == 100 * lim
           p == lim * (100 - pct)
           r == Rounded(q, g)
           t == TickAt(r, g)
<1>1. q \in Int /\ p \in Int /\ p <= q /\ 100 * p <= 95 * q
  <2>1. lim * pct \in Nat /\ lim * pct >= lim * 5
    BY SMT
  <2>2. p = 100 * lim - lim * pct
    BY SMT
  <2> QED BY <2>1, <2>2
<1> HIDE DEF q, p
<1>2. r \in Int /\ t \in Nat \ {0} /\ q < 100 * r + 50 * t
  BY <1>1, RoundNear
<1>3. OnGrid(r, g)
  BY <1>1, RoundedOnGrid DEF Rounded
<1>4. Rounded(p, g) <= r
  BY <1>1, RoundRises
<1>5. ASSUME r >= 21 * t PROVE Rounded(p, g) < r
  <2>1. p < 100 * r - 50 * t
    <3> HIDE DEF r, t
    <3> QED BY <1>1, <1>2, <1>5
  <2> HIDE DEF r
  <2> QED BY <1>1, <1>2, <1>3, <2>1, RoundBelow
<1> QED BY <1>4, <1>5 DEF q, p

-----------------------------------------------------------------------------
(* Which orders a call sends, and at what prices.                          *)

EntrySide(leg) == IF leg = "near" THEN "sell" ELSE "buy"
ReverseSide(leg) == IF leg = "near" THEN "buy" ELSE "sell"

\* An order of a leg for an entry is at its limit, or reverses the leg.
EntryOrder(o) ==
    \/ o.leg = "combo" /\ o.why = "enter"
    \/ /\ o.leg \in Legs
       /\ \/ /\ o.why = "enter" /\ o.side = EntrySide(o.leg)
             /\ o.price \in RoundToTick(100 * Limit(o.leg), grid[o.leg], o.known)
          \/ /\ o.why = "undo" /\ o.side = ReverseSide(o.leg)
             /\ o.price \in RoundToTick(ReverseEntry(o.leg), grid[o.leg], o.known)

\* A grid once known stays known, and nothing is ordered after a leg was reversed.
SentInv ==
    /\ \A o \in sent : /\ o.known \in BOOLEAN
                       /\ o.known => o.leg \in ticks
                       /\ kind = "enter" => EntryOrder(o)
    /\ \A o, u \in sent : o.why = "enter" /\ u.why = "undo" /\ o.leg = u.leg /\ o.known => u.known
    /\ \A u \in sent : u.why = "undo" => pc \in {"undo", "done"}

\* An order as place_order makes it.
IsOrder(n, leg, side, price, why) ==
    /\ n.leg = leg /\ n.side = side /\ n.why = why /\ n.known \in BOOLEAN
    /\ n.price \in RoundToTick(price, grid[leg], n.known)
    /\ leg \in ticks => n.known
    /\ n.known => leg \in ticks'

LEMMA SendsIs ==
  ASSUME NEW leg, NEW side, NEW why, NEW price, Sends(leg, side, price, task.qty, why)
  PROVE  /\ ticks \subseteq ticks'
         /\ \E n : sent' = sent \cup {n} /\ IsOrder(n, leg, side, price, why)
<1>1. PICK known \in IF leg \in ticks THEN {TRUE} ELSE BOOLEAN :
         /\ ticks' = IF known THEN ticks \cup {leg} ELSE ticks
         /\ \E rounded \in RoundToTick(price, grid[leg], known) :
              sent' = sent \cup {[leg |-> leg, side |-> side, price |-> rounded, why |-> why,
                                  known |-> known,
                                  amount |-> IF leg = "combo" THEN task.qty
                                             ELSE ClampAmount(task.qty)]}
  BY DEF Sends
<1>2. PICK rounded \in RoundToTick(price, grid[leg], known) :
         sent' = sent \cup {[leg |-> leg, side |-> side, price |-> rounded, why |-> why,
                             known |-> known,
                             amount |-> IF leg = "combo" THEN task.qty
                                        ELSE ClampAmount(task.qty)]}
  BY <1>1
<1>3. known \in BOOLEAN /\ (leg \in ticks => known) /\ (known => leg \in ticks')
      /\ ticks \subseteq ticks'
  BY <1>1
<1> DEFINE n == [leg |-> leg, side |-> side, price |-> rounded, why |-> why, known |-> known,
                 amount |-> IF leg = "combo" THEN task.qty ELSE ClampAmount(task.qty)]
<1>4. /\ n.leg = leg /\ n.side = side /\ n.why = why /\ n.known = known /\ n.price = rounded
      /\ sent' = sent \cup {n}
  BY <1>2
<1> HIDE DEF n
<1>5. IsOrder(n, leg, side, price, why)
  BY <1>2, <1>3, <1>4 DEF IsOrder
<1> QED BY <1>3, <1>4, <1>5

\* The price of an order of a close crosses the other side of the market.
Crosses(leg, side, price) ==
    /\ price \in Int
    /\ side = "buy" /\ task[leg].ask > 0 => price >= 100 * task[leg].ask
    /\ side = "sell" /\ task[leg].bid > 0 => price <= 100 * task[leg].bid

LEMMA CrossCrosses ==
  ASSUME task \in Quotes, NEW leg \in Legs, NEW side \in {"buy", "sell"}
  PROVE  Crosses(leg, side, Cross(side, task[leg]))
<1> DEFINE bid == task[leg].bid
           ask == task[leg].ask
<1>1. bid \in Nat /\ ask \in Nat /\ BufferPct \in Nat
  BY PricingAssumption DEF Legs
<1>2. /\ ask * (100 + BufferPct) \in Int /\ ask * (100 + BufferPct) >= 100 * ask
      /\ bid * (100 + BufferPct) \in Int
      /\ bid * (100 - BufferPct) \in Int /\ bid * (100 - BufferPct) <= 100 * bid
      /\ ask * (100 - BufferPct) \in Int
  <2> HIDE DEF bid, ask
  <2>1. ask * BufferPct \in Nat /\ bid * BufferPct \in Nat
    BY <1>1, SMT
  <2>2. /\ ask * (100 + BufferPct) = 100 * ask + ask * BufferPct
        /\ bid * (100 + BufferPct) = 100 * bid + bid * BufferPct
        /\ bid * (100 - BufferPct) = 100 * bid - bid * BufferPct
        /\ ask * (100 - BufferPct) = 100 * ask - ask * BufferPct
    BY <1>1, SMT
  <2> QED BY <1>1, <2>1, <2>2
<1> DEFINE price == Cross(side, task[leg])
<1>3. /\ side = "buy" /\ ask > 0 => price = ask * (100 + BufferPct)
      /\ side = "sell" /\ bid > 0 => price = bid * (100 - BufferPct)
  BY DEF Cross
<1>4. price \in Int
  <2>1. side = "buy" \/ side = "sell"
    OBVIOUS
  <2> QED BY <1>1, <2>1 DEF Cross
<1> HIDE DEF bid, ask, price
<1>5. /\ side = "buy" /\ ask > 0 => price >= 100 * ask
      /\ side = "sell" /\ bid > 0 => price <= 100 * bid
  BY <1>2, <1>3
<1> QED BY <1>4, <1>5 DEF Crosses, price, bid, ask

\* Every step sends nothing, or one of the orders that its kind of call has.
Quiet == sent' = sent /\ ticks' = ticks /\ (pc \in {"undo", "done"} => pc' = pc)

Places(leg) ==
    kind = "enter" /\ pc \notin {"undo", "done"}
    /\ Sends(leg, EntrySide(leg), 100 * Limit(leg), task.qty, "enter")

Undoes(leg) ==
    kind = "enter" /\ pc' \in {"undo", "done"}
    /\ Sends(leg, ReverseSide(leg), ReverseEntry(leg), task.qty, "undo")

Closes(leg, side, why, price) ==
    /\ kind = "close" /\ Crosses(leg, side, price)
    /\ \/ why = "close" /\ pc \notin {"undo", "done"}
       \/ why = "undo" /\ pc' \in {"undo", "done"}
    /\ Sends(leg, side, price, task.qty, why)

PlacesCombo ==
    kind = "enter" /\ pc \notin {"undo", "done"}
    /\ Sends("combo", "buy", 100 * (FarLimit - NearLimit), task.qty, "enter")

LEMMA StepOrders ==
  ASSUME SettingOK, StageOK, [Next]_vars
  PROVE  \/ Quiet \/ PlacesCombo
         \/ \E leg \in Legs : Places(leg) \/ Undoes(leg)
         \/ \E leg \in Legs, side \in {"buy", "sell"}, why \in {"close", "undo"}, price \in Int :
               Closes(leg, side, why, price)
<1>1. kind \in {"enter", "close"} /\ (kind = "close" => task \in Quotes)
  BY DEF SettingOK
<1>2. CASE TryCombo
  BY <1>2 DEF TryCombo, Submit, StageOK, PlacesCombo
<1>3. CASE PlaceNear
  <2>1. Places("near")
    BY <1>3 DEF PlaceNear, Submit, StageOK, Places, Limit, EntrySide
  <2> QED BY <2>1 DEF Legs
<1>4. CASE PlaceFar
  <2>1. Places("far")
    BY <1>4 DEF PlaceFar, Submit, StageOK, Places, Limit, EntrySide
  <2> QED BY <2>1 DEF Legs
<1>5. CASE CloseNear
  <2>1. kind = "close" /\ pc \notin {"undo", "done"}
        /\ Sends("near", "buy", Cross("buy", task.near), task.qty, "close")
    BY <1>5 DEF CloseNear, Submit, StageOK
  <2>2. Crosses("near", "buy", Cross("buy", task.near))
    BY <1>1, <2>1, CrossCrosses DEF Legs
  <2>3. Closes("near", "buy", "close", Cross("buy", task.near))
    BY <2>1, <2>2 DEF Closes
  <2> QED BY <2>2, <2>3 DEF Legs, Crosses
<1>6. CASE CloseFar
  <2>1. kind = "close" /\ pc \notin {"undo", "done"}
        /\ Sends("far", "sell", Cross("sell", task.far), task.qty, "close")
    BY <1>6 DEF CloseFar, Submit, StageOK
  <2>2. Crosses("far", "sell", Cross("sell", task.far))
    BY <1>1, <2>1, CrossCrosses DEF Legs
  <2>3. Closes("far", "sell", "close", Cross("sell", task.far))
    BY <2>1, <2>2 DEF Closes
  <2> QED BY <2>2, <2>3 DEF Legs, Crosses
<1>7. ASSUME NEW leg \in Legs, Reverse(leg), kind = "enter" PROVE Undoes(leg)
  BY <1>7 DEF Reverse, Undoes, ReverseSide
<1>8. ASSUME NEW leg \in Legs, Reverse(leg), kind = "close"
      PROVE  \E side \in {"buy", "sell"}, price \in Int : Closes(leg, side, "undo", price)
  <2> DEFINE side == IF leg = "near" THEN "sell" ELSE "buy"
  <2>1. pc' \in {"undo", "done"} /\ Sends(leg, side, ReverseClose(leg), task.qty, "undo")
    BY <1>8 DEF Reverse
  <2>2. Crosses(leg, side, ReverseClose(leg))
    <3>1. Crosses(leg, side, Cross(side, task[leg]))
      BY <1>1, <1>8, CrossCrosses
    <3>2. CASE leg = "near" /\ task.near.bid > 0
      BY <3>1, <3>2 DEF ReverseClose
    <3>3. CASE leg = "near" /\ ~(task.near.bid > 0)
      BY <3>3 DEF ReverseClose, Crosses
    <3>4. CASE leg = "far" /\ task.far.ask > 0
      BY <3>1, <3>4 DEF ReverseClose
    <3>5. CASE leg = "far" /\ ~(task.far.ask > 0)
      BY <3>5 DEF ReverseClose, Crosses
    <3> QED BY <3>2, <3>3, <3>4, <3>5 DEF Legs
  <2>3. Closes(leg, side, "undo", ReverseClose(leg))
    BY <1>8, <2>1, <2>2 DEF Closes
  <2>4. ReverseClose(leg) \in Int
    BY <2>2 DEF Crosses
  <2> QED BY <2>3, <2>4
<1>9. CASE NoCombo \/ ComboFills \/ NearFills \/ FarFills \/ EntryLate \/ CloseFills \/ CloseLate
           \/ UNCHANGED vars
  BY <1>9 DEF NoCombo, ComboFills, NearFills, FarFills, EntryLate, CloseFills, CloseLate, vars, Quiet
<1>10. CASE \E leg \in Legs : Reverse(leg)
  BY <1>1, <1>7, <1>8, <1>10
<1> QED BY <1>2, <1>3, <1>4, <1>5, <1>6, <1>9, <1>10 DEF Next

LEMMA LimitsAreNat ==
  ASSUME kind = "enter", task \in Candidates
  PROVE  NearLimit \in Nat /\ FarLimit \in Nat
<1>1. /\ task.nearBid \in Nat \ {0} /\ task.farAsk \in Nat \ {0}
      /\ task.spot \in Nat \ {0}
  BY PricingAssumption
<1>2. ASSUME NEW usd \in Nat \ {0}, NEW spot \in Nat \ {0} PROVE IndexPrice(usd, spot) \in Nat
  <2> DEFINE y == 2 * usd + spot
             d == 2 * spot
  <2>1. y \in Int /\ d \in Nat \ {0} /\ y >= 0 * d
    OBVIOUS
  <2> HIDE DEF y, d
  <2>2. y \div d \in Int /\ y \div d >= 0
    BY <2>1, DivBounds
  <2> QED BY <2>2 DEF IndexPrice, y, d
<1> QED BY <1>1, <1>2 DEF NearLimit, FarLimit

\* What reads the setting alone does not change with the orders.
LEMMA EntryOrderStays ==
  ASSUME UNCHANGED setting, NEW o, EntryOrder(o)
  PROVE  EntryOrder(o)'
<1>1. task' = task /\ grid' = grid
  BY DEF setting
<1>2. NearLimit' = NearLimit /\ FarLimit' = FarLimit
  BY <1>1 DEF NearLimit, FarLimit
<1>3. Limit(o.leg)' = Limit(o.leg) /\ ReverseEntry(o.leg)' = ReverseEntry(o.leg)
  BY <1>2 DEF Limit, ReverseEntry
<1> QED BY <1>1, <1>3 DEF EntryOrder

LEMMA SentInit == Init => SentInv /\ CloseReachesTheMarket
BY DEF Init, SentInv, CloseReachesTheMarket

LEMMA SentStep == SettingOK /\ StageOK /\ SentInv /\ [Next]_vars => SentInv'
<1> SUFFICES ASSUME SettingOK, StageOK, SentInv, [Next]_vars PROVE SentInv'
  OBVIOUS
<1>0. UNCHANGED setting /\ kind' = kind /\ \A o : EntryOrder(o) => EntryOrder(o)'
  BY SettingStays, EntryOrderStays DEF setting
<1>1. CASE Quiet
  BY <1>0, <1>1 DEF Quiet, SentInv
\* An order more, for an entry while nothing was reversed, or a reversing one.
<1>2. ASSUME NEW leg, NEW side, NEW why, NEW price, Sends(leg, side, price, task.qty, why),
             \/ why # "undo" /\ pc \notin {"undo", "done"}
             \/ why = "undo" /\ pc' \in {"undo", "done"},
             \A n : IsOrder(n, leg, side, price, why) /\ kind = "enter" => EntryOrder(n)
      PROVE  SentInv'
  <2>1. PICK n : sent' = sent \cup {n} /\ IsOrder(n, leg, side, price, why)
    BY <1>2, SendsIs
  <2>2. ticks \subseteq ticks' /\ n.leg = leg /\ n.why = why /\ n.known \in BOOLEAN
        /\ (leg \in ticks => n.known) /\ (n.known => leg \in ticks')
    BY <1>2, <2>1, SendsIs DEF IsOrder
  <2>3. ASSUME NEW o \in sent'
        PROVE  /\ o.known \in BOOLEAN
               /\ o.known => o.leg \in ticks'
               /\ kind' = "enter" => EntryOrder(o)'
    <3>1. CASE o = n
      <4>1. kind = "enter" => EntryOrder(o)
        BY <1>2, <2>1, <3>1
      <4> QED BY <1>0, <2>2, <3>1, <4>1
    <3>2. CASE o \in sent
      BY <1>0, <2>2, <3>2 DEF SentInv
    <3> QED BY <2>1, <3>1, <3>2
  <2>4. ASSUME NEW o \in sent', NEW u \in sent', o.why = "enter", u.why = "undo",
               o.leg = u.leg, o.known
        PROVE  u.known
    <3>1. CASE o \in sent /\ u \in sent
      BY <2>4, <3>1 DEF SentInv
    <3>2. CASE o \in sent /\ u = n
      <4>1. o.leg \in ticks
        BY <2>4, <3>2 DEF SentInv
      <4> QED BY <2>2, <2>4, <3>2, <4>1
    <3>3. CASE o = n /\ u \in sent
      <4>1. pc \in {"undo", "done"}
        BY <2>4, <3>3 DEF SentInv
      <4> QED BY <1>2, <2>2, <2>4, <3>3, <4>1
    <3>4. CASE o = n /\ u = n
      BY <2>4, <3>4
    <3> QED BY <2>1, <3>1, <3>2, <3>3, <3>4
  <2>5. ASSUME NEW u \in sent', u.why = "undo" PROVE pc' \in {"undo", "done"}
    <3>1. CASE why = "undo"
      BY <1>2, <3>1
    <3>2. CASE why # "undo"
      <4>1. u \in sent
        BY <2>1, <2>2, <2>5, <3>2
      <4>2. pc \in {"undo", "done"}
        BY <2>5, <4>1 DEF SentInv
      <4> QED BY <1>2, <3>2, <4>2
    <3> QED BY <3>1, <3>2
  <2> QED BY <2>3, <2>4, <2>5 DEF SentInv
<1>3. CASE PlacesCombo
  <2>1. \A n : IsOrder(n, "combo", "buy", 100 * (FarLimit - NearLimit), "enter") => EntryOrder(n)
    BY DEF IsOrder, EntryOrder, Legs
  <2> QED BY <1>2, <1>3, <2>1 DEF PlacesCombo
<1>4. ASSUME NEW leg \in Legs, Places(leg) PROVE SentInv'
  <2>1. \A n : IsOrder(n, leg, EntrySide(leg), 100 * Limit(leg), "enter") => EntryOrder(n)
    BY DEF IsOrder, EntryOrder
  <2> QED BY <1>2, <1>4, <2>1 DEF Places
<1>5. ASSUME NEW leg \in Legs, Undoes(leg) PROVE SentInv'
  <2>1. \A n : IsOrder(n, leg, ReverseSide(leg), ReverseEntry(leg), "undo") => EntryOrder(n)
    BY DEF IsOrder, EntryOrder
  <2> QED BY <1>2, <1>5, <2>1 DEF Undoes
<1>6. ASSUME NEW leg \in Legs, NEW side \in {"buy", "sell"}, NEW why \in {"close", "undo"},
             NEW price \in Int, Closes(leg, side, why, price)
      PROVE  SentInv'
  <2>1. kind # "enter" /\ Sends(leg, side, price, task.qty, why)
    BY <1>6 DEF Closes
  <2>2. \/ why # "undo" /\ pc \notin {"undo", "done"}
        \/ why = "undo" /\ pc' \in {"undo", "done"}
    BY <1>6 DEF Closes
  <2> QED BY <1>2, <2>1, <2>2
<1> QED BY <1>1, <1>3, <1>4, <1>5, <1>6, StepOrders

\* An entry's leg, reversed at its limit and five per cent, goes through its price.
LEMMA EntryReverses ==
  GridsNested /\ TicksRise /\ ReversePct >= 5 /\ SettingOK /\ SentInv => ReversedThroughItsPrice
<1> SUFFICES ASSUME GridsNested, TicksRise, ReversePct >= 5, SettingOK, SentInv, kind = "enter",
                    NEW o \in sent, NEW u \in sent,
                    o.why = "enter", u.why = "undo", o.leg = u.leg, o.known
             PROVE  LET tick == TickAt(o.price, grid[o.leg])
                        through == IF u.side = "buy" THEN u.price - o.price ELSE o.price - u.price
                    IN  through >= 0 /\ (o.price >= 21 * tick => through > 0)
  BY DEF ReversedThroughItsPrice
<1>1. u.known /\ o.known /\ EntryOrder(o) /\ EntryOrder(u) /\ ReversePct \in Nat
  BY PricingAssumption DEF SentInv
<1>2. NearLimit \in Nat /\ FarLimit \in Nat /\ grid \in [{"near", "far", "combo"} -> Grids]
  BY LimitsAreNat DEF SettingOK
<1> DEFINE leg == o.leg
           g == grid[leg]
           lim == Limit(leg)
<1>3. /\ leg \in Legs /\ u.leg = leg
      /\ o.price \in RoundToTick(100 * lim, g, TRUE)
      /\ u.side = ReverseSide(leg) /\ u.price \in RoundToTick(ReverseEntry(leg), g, TRUE)
  BY <1>1 DEF EntryOrder, Legs
<1>4. o.price = Rounded(100 * lim, g) /\ u.price = Rounded(ReverseEntry(leg), g)
  BY <1>3 DEF RoundToTick, Rounded
<1>5. g \in Grids /\ lim \in Nat
  BY <1>2, <1>3 DEF Legs, Limit
<1>6. 100 * lim \in Int /\ ReverseEntry(leg) \in Int
  BY <1>1, <1>2, <1>5 DEF ReverseEntry
<1>7. o.price \in Int /\ u.price \in Int
  <2> HIDE DEF g
  <2>1. Rounded(100 * lim, g) \in Int /\ Rounded(ReverseEntry(leg), g) \in Int
    BY <1>5, <1>6, RoundedInt
  <2> QED BY <1>4, <2>1
<1>8. CASE leg = "near"
  <2>1. u.side = "buy" /\ ReverseEntry(leg) = lim * (100 + ReversePct)
    BY <1>3, <1>8 DEF ReverseSide, ReverseEntry, Limit
  <2>2. u.price >= o.price /\ (o.price >= 21 * TickAt(o.price, g) => u.price > o.price)
    <3> HIDE DEF g, lim
    <3>1. LET r == Rounded(100 * lim, g)
              v == Rounded(lim * (100 + ReversePct), g)
          IN  v >= r /\ (r >= 21 * TickAt(r, g) => v > r)
      BY <1>1, <1>5, ReversedUp
    <3> QED BY <1>4, <2>1, <3>1
  <2> QED BY <1>7, <2>1, <2>2
<1>9. CASE leg = "far"
  <2>1. u.side = "sell" /\ ReverseEntry(leg) = lim * (100 - ReversePct)
    BY <1>3, <1>9 DEF ReverseSide, ReverseEntry, Limit
  <2>2. u.price <= o.price /\ (o.price >= 21 * TickAt(o.price, g) => u.price < o.price)
    <3> HIDE DEF g, lim
    <3>1. LET r == Rounded(100 * lim, g)
              v == Rounded(lim * (100 - ReversePct), g)
          IN  v <= r /\ (r >= 21 * TickAt(r, g) => v < r)
      BY <1>1, <1>5, ReversedDown
    <3> QED BY <1>4, <2>1, <3>1
  <2> QED BY <1>7, <2>1, <2>2
<1> QED BY <1>3, <1>8, <1>9 DEF Legs

\* What crosses the market before it is rounded reaches it afterwards, without the
\* grid as with it.
LEMMA RoundedReaches ==
  ASSUME GridsNested, NEW g \in Grids, NEW price \in Int, NEW known \in BOOLEAN,
         NEW r \in RoundToTick(price, g, known), NEW a \in Int, OnGrid(a, g)
  PROVE  /\ price >= 100 * a => r >= a
         /\ price <= 100 * a => r <= a
<1>1. CASE known
  <2>1. r = Rounded(price, g)
    BY <1>1 DEF RoundToTick, Rounded
  <2> QED BY <2>1, RoundReaches
<1>2. CASE ~known
  <2>1. r \in Int /\ 2 * (100 * r - price) \in -100..100
    BY <1>2, RoundedType DEF RoundToTick
  <2> QED BY <2>1
<1> QED BY <1>1, <1>2

LEMMA CloseStep ==
  GridsNested /\ QuotesOnGrid /\ SettingOK /\ StageOK /\ CloseReachesTheMarket /\ [Next]_vars
    => CloseReachesTheMarket'
<1> SUFFICES ASSUME GridsNested, QuotesOnGrid, SettingOK, StageOK, CloseReachesTheMarket,
                    [Next]_vars, kind = "close"
             PROVE  CloseReachesTheMarket'
  BY SettingStays DEF CloseReachesTheMarket, setting
<1>0. kind' = kind /\ task' = task /\ task \in Quotes /\ grid \in [{"near", "far", "combo"} -> Grids]
  BY SettingStays DEF setting, SettingOK
<1>1. CASE Quiet
  BY <1>0, <1>1 DEF Quiet, CloseReachesTheMarket
<1>2. ASSUME NEW leg \in Legs, NEW side \in {"buy", "sell"}, NEW why \in {"close", "undo"},
             NEW price \in Int, Closes(leg, side, why, price)
      PROVE  CloseReachesTheMarket'
  <2>1. Sends(leg, side, price, task.qty, why) /\ Crosses(leg, side, price)
    BY <1>2 DEF Closes
  <2>2. PICK n : sent' = sent \cup {n} /\ IsOrder(n, leg, side, price, why)
    BY <2>1, SendsIs
  <2>3. n.leg = leg /\ n.side = side /\ n.known \in BOOLEAN
        /\ n.price \in RoundToTick(price, grid[leg], n.known)
    BY <2>2 DEF IsOrder
  <2> DEFINE g == grid[leg]
             q == task[leg]
  <2>4. g \in Grids /\ q.bid \in Nat /\ q.ask \in Nat /\ OnGrid(q.bid, g) /\ OnGrid(q.ask, g)
    <3>1. g \in Grids
      BY <1>0 DEF Legs
    <3>2. q.bid \in Nat /\ q.ask \in Nat
      BY <1>0, PricingAssumption DEF Legs
    <3> QED BY <1>0, <3>1, <3>2 DEF QuotesOnGrid
  <2>5. \A a \in Int : OnGrid(a, g) => /\ price >= 100 * a => n.price >= a
                                       /\ price <= 100 * a => n.price <= a
    <3> HIDE DEF g
    <3> QED BY <2>3, <2>4, RoundedReaches DEF g
  <2>6. /\ side = "buy" /\ q.ask > 0 => n.price >= q.ask
        /\ side = "sell" /\ q.bid > 0 => n.price <= q.bid
    <3>1. /\ side = "buy" /\ q.ask > 0 => price >= 100 * q.ask
          /\ side = "sell" /\ q.bid > 0 => price <= 100 * q.bid
      BY <2>1 DEF Crosses
    <3> HIDE DEF g, q
    <3> QED BY <2>4, <2>5, <3>1
  <2> QED BY <1>0, <2>2, <2>3, <2>6 DEF CloseReachesTheMarket
<1> QED BY <1>1, <1>2, StepOrders DEF PlacesCombo, Places, Undoes

\* What a close sends reaches the market and what undoes an entry is never short of
\* the order it undoes, and through it from 21 ticks on, for any prices and any
\* amounts by which they cross, of five per cent at least for a reversal.
THEOREM ReachHolds == ASSUME ReversePct >= 5 PROVE Spec => []OrdersReach
<1>1. Init => SentInv /\ CloseReachesTheMarket
  BY SentInit
<1>2. PricingInv /\ SentInv /\ CloseReachesTheMarket /\ [Next]_vars
        => SentInv' /\ CloseReachesTheMarket'
  BY GridAssumption, SentStep, CloseStep DEF PricingInv
<1>3. PricingInv /\ SentInv /\ CloseReachesTheMarket => OrdersReach
  BY GridAssumption, EntryReverses DEF PricingInv, OrdersReach
<1> QED BY <1>1, <1>2, <1>3, InvHolds, PTL DEF Spec
-----------------------------------------------------------------------------
(* What is booked.                                                         *)

\* The price, in hundredths, that an order is made from, and its side.
LimitOf(leg) ==
    IF kind = "enter"
    THEN IF leg = "combo" THEN 100 * (FarLimit - NearLimit) ELSE 100 * Limit(leg)
    ELSE IF leg = "near" THEN Cross("buy", task.near) ELSE Cross("sell", task.far)

SideOf(leg) ==
    IF kind = "enter" THEN IF leg = "near" THEN "sell" ELSE "buy"
    ELSE IF leg = "near" THEN "buy" ELSE "sell"

\* An order is within half a tick of the price it is made from.
Near(o) ==
    LET half == 50 * TickAt(o.price, grid[o.leg])
    IN  /\ o.price \in Int /\ half \in Nat /\ LimitOf(o.leg) \in Int
        /\ o.side = SideOf(o.leg)
        /\ 100 * o.price - half <= LimitOf(o.leg)
        /\ LimitOf(o.leg) <= 100 * o.price + half

\* The order a stage waits for is there, and a near leg was sold at its price.
Waiting ==
    /\ pc = "comboSent" => OrdersOf("combo", "enter") # {}
    /\ pc \in {"nearSent", "far", "farSent"} => OrdersOf("near", "enter") # {}
    /\ pc = "farSent" => OrdersOf("far", "enter") # {}
    /\ pc \in {"closeFar", "closeSent"} => OrdersOf("near", "close") # {}
    /\ pc = "closeSent" => OrdersOf("far", "close") # {}
    /\ pc \in {"far", "farSent"} => fill.near >= Sent("near", "enter").price

BookedInv ==
    /\ \A o \in sent : o.why # "undo" => o.why = kind /\ Near(o)
    /\ Waiting
    /\ BookedIsPaid

LEMMA TickOfPrice ==
  ASSUME GridsNested, NEW g \in Grids, NEW r \in Int
  PROVE  TickAt(r, g) \in Nat \ {0}
<1>1. PICK k \in 0..Len(g.steps) : TickAt(r, g) = BandTick(g, k)
  BY BandAt
<1> QED BY <1>1, BandFacts

LEMMA RoundedNear ==
  ASSUME GridsNested, TicksRise, NEW g \in Grids, NEW price \in Int, NEW known \in BOOLEAN,
         NEW r \in RoundToTick(price, g, known)
  PROVE  /\ r \in Int /\ 50 * TickAt(r, g) \in Nat
         /\ 100 * r - 50 * TickAt(r, g) <= price
         /\ price <= 100 * r + 50 * TickAt(r, g)
<1>1. r \in Int /\ TickAt(r, g) \in Nat \ {0}
  BY RoundedType, TickOfPrice
<1>2. CASE known
  <2>1. r = Rounded(price, g)
    BY <1>2 DEF RoundToTick, Rounded
  <2>2. LET q == Rounded(price, g)
        IN  /\ 100 * q - 50 * TickAt(q, g) <= price
            /\ price < 100 * q + 50 * TickAt(q, g)
    BY RoundNear
  <2> DEFINE t == TickAt(r, g)
  <2>3. 100 * r - 50 * t <= price /\ price < 100 * r + 50 * t
    BY <2>1, <2>2
  <2>4. t \in Nat \ {0}
    BY <1>1
  <2> HIDE DEF t
  <2>5. 50 * t \in Nat /\ 100 * r - 50 * t <= price /\ price <= 100 * r + 50 * t
    BY <1>1, <2>3, <2>4
  <2> QED BY <1>1, <2>5 DEF t
<1>3. CASE ~known
  <2>1. 2 * (100 * r - price) \in -100..100
    BY <1>3 DEF RoundToTick
  <2> DEFINE t == TickAt(r, g)
  <2>2. t \in Nat \ {0}
    BY <1>1
  <2> HIDE DEF t
  <2>3. 50 * t \in Nat /\ 100 * r - 50 * t <= price /\ price <= 100 * r + 50 * t
    BY <1>1, <2>1, <2>2
  <2> QED BY <1>1, <2>3 DEF t
<1> QED BY <1>2, <1>3

\* What a call is given fixes what its orders are near to.
LEMMA NearStays ==
  ASSUME UNCHANGED setting
  PROVE  /\ \A o : Near(o)' <=> Near(o)
         /\ \A leg : LimitOf(leg)' = LimitOf(leg)
<1>1. task' = task /\ grid' = grid /\ kind' = kind
  BY DEF setting
<1>2. NearLimit' = NearLimit /\ FarLimit' = FarLimit
  BY <1>1 DEF NearLimit, FarLimit
<1>3. \A leg : LimitOf(leg)' = LimitOf(leg) /\ SideOf(leg)' = SideOf(leg)
  BY <1>1, <1>2 DEF LimitOf, SideOf, Limit
<1> QED BY <1>1, <1>3 DEF Near

\* An order that is sent is near what it is made from, and the only one that is new.
LEMMA SendsNear ==
  ASSUME GridsNested, TicksRise, SettingOK, UNCHANGED setting,
         NEW leg \in {"near", "far", "combo"}, NEW why, NEW side,
         side = SideOf(leg), LimitOf(leg) \in Int,
         Sends(leg, side, LimitOf(leg), task.qty, why), why = kind,
         \A o \in sent : o.why # "undo" => o.why = kind /\ Near(o)
  PROVE  /\ \A o \in sent' : o.why # "undo" => o.why = kind' /\ Near(o)'
         /\ OrdersOf(leg, why)' # {}
         /\ \A l \in {"near", "far", "combo"} : l # leg => OrdersOf(l, why)' = OrdersOf(l, why)
<1>1. PICK n : sent' = sent \cup {n} /\ IsOrder(n, leg, side, LimitOf(leg), why)
  BY SendsIs
<1>2. n.leg = leg /\ n.why = why /\ n.side = side /\ n.known \in BOOLEAN
      /\ n.price \in RoundToTick(LimitOf(leg), grid[leg], n.known)
  BY <1>1 DEF IsOrder
<1>3. grid[leg] \in Grids
  BY DEF SettingOK
<1>4. Near(n)
  <2> DEFINE q == LimitOf(leg)
             g == grid[leg]
             p == n.price
  <2>1. q \in Int /\ g \in Grids /\ p \in RoundToTick(q, g, n.known) /\ n.known \in BOOLEAN
    BY <1>2, <1>3
  <2> HIDE DEF q, g, p
  <2>2. /\ p \in Int /\ 50 * TickAt(p, g) \in Nat
        /\ 100 * p - 50 * TickAt(p, g) <= q /\ q <= 100 * p + 50 * TickAt(p, g)
    BY <2>1, RoundedNear
  <2> QED BY <1>2, <2>1, <2>2 DEF Near, q, g, p
<1>5. kind' = kind
  BY DEF setting
<1>6. \A o \in sent' : o.why # "undo" => o.why = kind' /\ Near(o)'
  BY <1>1, <1>2, <1>4, <1>5, NearStays
<1>7. n \in OrdersOf(leg, why)'
  BY <1>1, <1>2 DEF OrdersOf
<1>8. ASSUME NEW l \in {"near", "far", "combo"}, l # leg
      PROVE  OrdersOf(l, why)' = OrdersOf(l, why)
  BY <1>1, <1>2, <1>8 DEF OrdersOf
<1> QED BY <1>6, <1>7, <1>8

\* The order that a stage waits for is near what it is made from, and fills at its
\* price or better.
LEMMA FillsNear ==
  ASSUME BookedInv, NEW leg \in {"near", "far", "combo"}, kind # "undo", OrdersOf(leg, kind) # {}
  PROVE  LET o == Sent(leg, kind)
             half == 50 * TickAt(o.price, grid[leg])
         IN  /\ o.price \in Int /\ half \in Nat /\ LimitOf(leg) \in Int
             /\ o.side = SideOf(leg) /\ o.leg = leg
             /\ 100 * o.price - half <= LimitOf(leg)
             /\ LimitOf(leg) <= 100 * o.price + half
             /\ \A p \in FillPrices(o) : /\ p \in Int
                                         /\ o.side = "buy" => p <= o.price
                                         /\ o.side # "buy" => p >= o.price
<1> DEFINE o == Sent(leg, kind)
<1>1. o \in sent /\ o.leg = leg /\ o.why = kind
  BY DEF Sent, OrdersOf
<1> HIDE DEF o
<1>2. Near(o)
  BY <1>1 DEF BookedInv
<1>3. Improve \in Nat /\ o.price \in Int
  BY <1>2, PricingAssumption DEF Near
<1>4. ASSUME NEW p \in FillPrices(o)
      PROVE  /\ p \in Int
             /\ o.side = "buy" => p <= o.price
             /\ o.side # "buy" => p >= o.price
  <2>1. /\ p \in Int
        /\ o.side = "buy" => p \in (o.price - Improve)..o.price
        /\ o.side # "buy" => p >= o.price
    BY <1>3 DEF FillPrices
  <2> QED BY <1>3, <2>1
<1> QED BY <1>1, <1>2, <1>4 DEF Near, o

\* A leg booked at its fill, or at its limit if none is known.
LEMMA LegBooked ==
  ASSUME NEW p \in Int, NEW f \in Int, NEW q \in Int, NEW half \in Nat, NEW named \in BOOLEAN,
         NEW side, NEW booked, booked = IF named THEN 100 * f ELSE q,
         100 * p - half <= q, q <= 100 * p + half,
         side = "buy" => f <= p, side # "buy" => f >= p
  PROVE  /\ named => booked = 100 * f
         /\ (IF side = "buy" THEN 100 * f - booked ELSE booked - 100 * f) <= half
<1>1. CASE named
  BY <1>1
<1>2. CASE ~named
  <2>1. booked = q
    BY <1>2
  <2>2. CASE side = "buy"
    BY <1>2, <2>1, <2>2
  <2>3. CASE side # "buy"
    BY <1>2, <2>1, <2>3
  <2> QED BY <2>2, <2>3
<1> QED BY <1>1, <1>2
LEMMA LimitTypesOf ==
  ASSUME SettingOK
  PROVE  /\ \A leg \in {"near", "far", "combo"} : LimitOf(leg) \in Int
         /\ kind # "undo" /\ kind \in {"enter", "close"}
<1>1. CASE kind = "enter" /\ task \in Candidates
  <2>1. NearLimit \in Int /\ FarLimit \in Int
    BY <1>1, LimitTypes
  <2>2. 100 * (FarLimit - NearLimit) \in Int /\ 100 * NearLimit \in Int /\ 100 * FarLimit \in Int
    BY <2>1
  <2> QED BY <1>1, <2>2 DEF LimitOf, Limit
<1>2. CASE kind = "close" /\ task \in Quotes
  <2>1. Cross("buy", task["near"]) \in Int /\ Cross("sell", task["far"]) \in Int
    BY <1>2, CrossType DEF Legs
  <2> QED BY <1>2, <2>1 DEF LimitOf
<1> QED BY <1>1, <1>2 DEF SettingOK

LEMMA BookedStep ==
  ASSUME GridsNested, TicksRise, PricingInv, BookedInv, [Next]_vars
  PROVE  BookedInv'
<1> DEFINE OrdersNear == \A o \in sent : o.why # "undo" => o.why = kind /\ Near(o)
<1>0. /\ SettingOK /\ StageOK /\ UNCHANGED setting
      /\ kind' = kind /\ task' = task /\ grid' = grid
      /\ kind \in {"enter", "close"} /\ kind # "undo"
      /\ \A leg \in {"near", "far", "combo"} : LimitOf(leg) \in Int
      /\ fill \in [Legs -> Int] /\ OrdersNear /\ Waiting /\ BookedIsPaid
  BY SettingStays, LimitTypesOf DEF PricingInv, FillOK, setting, BookedInv
<1>a. ASSUME sent' = sent PROVE OrdersNear' /\ \A l, w : OrdersOf(l, w)' = OrdersOf(l, w)
  BY <1>0, <1>a, NearStays DEF OrdersOf
<1>b. ASSUME result'.is # "filled" PROVE BookedIsPaid'
  BY <1>b DEF BookedIsPaid
<1>c. ASSUME NEW leg \in {"near", "far", "combo"}, NEW side, NEW why, NEW price,
             side = SideOf(leg), why = kind, price = LimitOf(leg),
             Sends(leg, side, price, task.qty, why)
      PROVE  /\ OrdersNear'
             /\ OrdersOf(leg, why)' # {}
             /\ \A l \in {"near", "far", "combo"} : l # leg => OrdersOf(l, why)' = OrdersOf(l, why)
  <2>1. Sends(leg, side, LimitOf(leg), task.qty, why)
    BY <1>c
  <2> QED BY <1>0, <1>c, <2>1, SendsNear
\* A stage that ends the call, or undoes it, waits for nothing.
<1>d. ASSUME OrdersNear', pc' \in {"done", "undo", "near"}, BookedIsPaid' PROVE BookedInv'
  BY <1>d DEF BookedInv, Waiting
<1>1. CASE TryCombo
  <2>1. /\ kind = "enter" /\ result.is # "filled" /\ result' = result
        /\ pc' \in {"comboSent", "near"}
        /\ Sends("combo", "buy", 100 * (FarLimit - NearLimit), task.qty, "enter")
    BY <1>0, <1>1 DEF TryCombo, Submit, Goes, StageOK
  <2>a. SideOf("combo") = "buy" /\ LimitOf("combo") = 100 * (FarLimit - NearLimit)
    BY <2>1 DEF SideOf, LimitOf
  <2>2. OrdersNear' /\ OrdersOf("combo", "enter")' # {}
    BY <2>1, <2>a, <1>c
  <2> QED BY <1>b, <2>1, <2>2 DEF BookedInv, Waiting
<1>2. CASE NoCombo
  <2>1. /\ sent' = sent /\ pc' = "near" /\ result' = result /\ result.is # "filled"
    BY <1>0, <1>2 DEF NoCombo, Goes, StageOK
  <2> QED BY <1>a, <1>b, <1>d, <2>1
<1>3. CASE ComboFills
  <2>1. PICK net \in FillPrices(Sent("combo", "enter")), near \in NearLimit..(NearLimit + Improve),
             report \in ComboReports :
           /\ fill' = [near |-> near, far |-> near + net]
           /\ told' = IF report \in {"legs", "average"} THEN {"combo"} ELSE {}
           /\ pc' = "done" /\ result' = ComboLegFills(report, near, net)
    BY <1>3 DEF ComboFills, Done
  <2>2. kind = "enter" /\ sent' = sent /\ OrdersOf("combo", "enter") # {}
    BY <1>0, <1>3 DEF ComboFills, StageOK, Waiting
  <2> DEFINE o == Sent("combo", "enter")
             half == 50 * TickAt(o.price, grid["combo"])
             q == FarLimit - NearLimit
  <2>3. /\ o.price \in Int /\ half \in Nat /\ o.side = "buy"
        /\ 100 * o.price - half <= LimitOf("combo") /\ LimitOf("combo") <= 100 * o.price + half
        /\ net \in Int /\ net <= o.price
    BY <1>0, <2>1, <2>2, FillsNear, BookedInv DEF SideOf
  <2>4. near \in Int /\ NearLimit \in Int /\ FarLimit \in Int /\ q \in Int /\ LimitOf("combo") = 100 * q
    BY <1>0, <2>1, <2>2, LimitTypes DEF SettingOK, LimitOf
  <2>5. o' = o
    BY <1>a, <2>2 DEF Sent
  <2> HIDE DEF o, half
  <2>6. /\ result'.is = "filled" /\ result'.orders = {"combo"}
        /\ result'.near = IF report = "legs" THEN 100 * near ELSE 100 * NearLimit
        /\ result'.far = IF report = "legs" THEN 100 * (near + net)
                         ELSE 100 * (NearLimit + (CASE report = "average" -> net
                                                    [] report = "order" -> o.price
                                                    [] OTHER -> q))
    BY <2>1 DEF ComboLegFills, Booked, o
  <2>7. Traded(fill', "combo") = net /\ 100 * net \in Int
    BY <2>1, <2>3, <2>4 DEF Traded
  <2> HIDE DEF q
  <2>8. Traded(result', "combo") = 100 * (CASE report \in {"legs", "average"} -> net
                                            [] report = "order" -> o.price
                                            [] OTHER -> q)
    <3>1. CASE report = "legs"
      BY <2>3, <2>4, <2>6, <3>1 DEF Traded
    <3>2. CASE report = "average"
      BY <2>3, <2>4, <2>6, <3>2 DEF Traded
    <3>3. CASE report = "order"
      BY <2>3, <2>4, <2>6, <3>3 DEF Traded
    <3>4. CASE report = "none"
      BY <2>3, <2>4, <2>6, <3>4 DEF Traded
    <3> QED BY <2>1, <3>1, <3>2, <3>3, <3>4 DEF ComboReports
  <2>9. /\ "combo" \in told' => Traded(result', "combo") = 100 * net
        /\ 100 * net - Traded(result', "combo") <= half
    <3>1. CASE report \in {"legs", "average"}
      <4>1. Traded(result', "combo") = 100 * net
        BY <2>8, <3>1
      <4> QED BY <2>3, <4>1
    <3>2. CASE report = "order"
      <4>1. Traded(result', "combo") = 100 * o.price /\ "combo" \notin told'
        BY <2>1, <2>8, <3>2
      <4> QED BY <2>3, <4>1
    <3>3. CASE report = "none"
      <4>1. Traded(result', "combo") = 100 * q /\ "combo" \notin told'
        BY <2>1, <2>8, <3>3
      <4> QED BY <2>3, <2>4, <4>1
    <3> QED BY <2>1, <3>1, <3>2, <3>3 DEF ComboReports
  <2>10. BookedIsPaid'
    <3>1. Sent("combo", "enter")' = o
      BY <2>5 DEF o
    <3>2. /\ "combo" \in told' => Traded(result', "combo") = 100 * Traded(fill', "combo")
          /\ 100 * Traded(fill', "combo") - Traded(result', "combo") <= half
      BY <2>7, <2>9
    <3> QED BY <1>0, <2>2, <2>3, <2>6, <3>1, <3>2 DEF BookedIsPaid, half
  <2> QED BY <1>a, <1>d, <2>1, <2>2, <2>10
<1>4. CASE PlaceNear
  <2>1. /\ kind = "enter" /\ result'.is # "filled"
        /\ pc' \in {"nearSent", "done"}
        /\ Sends("near", "sell", 100 * NearLimit, task.qty, "enter")
    BY <1>0, <1>4 DEF PlaceNear, Submit, Goes, Done, StageOK
  <2>a. SideOf("near") = "sell" /\ LimitOf("near") = 100 * NearLimit
    BY <2>1 DEF SideOf, LimitOf, Limit
  <2>2. OrdersNear' /\ OrdersOf("near", "enter")' # {}
    BY <2>1, <2>a, <1>c
  <2> QED BY <1>b, <2>1, <2>2 DEF BookedInv, Waiting
<1>5. CASE NearFills
  <2>1. PICK price \in FillPrices(Sent("near", "enter")) : fill' = [fill EXCEPT !.near = price]
    BY <1>5 DEF NearFills
  <2>2. /\ kind = "enter" /\ sent' = sent /\ OrdersOf("near", "enter") # {}
        /\ pc' \in {"far", "done"} /\ result'.is # "filled"
    BY <1>0, <1>5 DEF NearFills, StageOK, Waiting, Done, Goes
  <2>3. fill'.near = price
    BY <1>0, <2>1 DEF Legs
  <2>4. price >= Sent("near", "enter").price
    BY <1>0, <2>1, <2>2, FillsNear, BookedInv DEF SideOf
  <2>5. Sent("near", "enter")' = Sent("near", "enter") /\ OrdersNear' /\ OrdersOf("near", "enter")' # {}
    BY <1>a, <2>2 DEF Sent
  <2> QED BY <1>b, <2>2, <2>3, <2>4, <2>5 DEF BookedInv, Waiting
<1>6. CASE PlaceFar
  <2>1. /\ kind = "enter" /\ result'.is # "filled" /\ fill' = fill
        /\ pc = "far" /\ pc' \in {"farSent", "done"}
        /\ Sends("far", "buy", 100 * FarLimit, task.qty, "enter")
    BY <1>0, <1>6 DEF PlaceFar, Submit, Goes, Done, StageOK
  <2>a. SideOf("far") = "buy" /\ LimitOf("far") = 100 * FarLimit
    BY <2>1 DEF SideOf, LimitOf, Limit
  <2>2. /\ OrdersNear' /\ OrdersOf("far", "enter")' # {}
        /\ OrdersOf("near", "enter")' = OrdersOf("near", "enter")
    BY <2>1, <2>a, <1>c
  <2>3. Sent("near", "enter")' = Sent("near", "enter")
    BY <2>2 DEF Sent
  <2>4. OrdersOf("near", "enter") # {} /\ fill.near >= Sent("near", "enter").price
    BY <1>0, <2>1 DEF Waiting
  <2> QED BY <1>b, <2>1, <2>2, <2>3, <2>4 DEF BookedInv, Waiting
<1>7. CASE FarFills
  <2>1. PICK price \in FillPrices(Sent("far", "enter")) :
           /\ fill' = [fill EXCEPT !.far = price]
           /\ Reports("far")
           /\ IF Adverse("buy", Taken("far"), task.farAsk)
              THEN pc' = "undo" /\ result' = [is |-> "slippage"]
              ELSE pc' = "done" /\ result' = Booked(Legs, 100 * Taken("near"), 100 * Taken("far"))
    BY <1>7 DEF FarFills, Done
  <2>2. /\ kind = "enter" /\ sent' = sent
        /\ OrdersOf("near", "enter") # {} /\ OrdersOf("far", "enter") # {}
        /\ fill.near >= Sent("near", "enter").price
    BY <1>0, <1>7 DEF FarFills, StageOK, Waiting
  <2>3. CASE result'.is # "filled" /\ pc' = "undo"
    BY <1>a, <1>b, <1>d, <2>2, <2>3
  <2>4. CASE pc' = "done" /\ result' = Booked(Legs, 100 * Taken("near"), 100 * Taken("far"))
    <3> DEFINE o(leg) == Sent(leg, "enter")
               half(leg) == 50 * TickAt(o(leg).price, grid[leg])
    <3>1. ASSUME NEW leg \in Legs
          PROVE  /\ o(leg).price \in Int /\ half(leg) \in Nat /\ LimitOf(leg) \in Int
                 /\ o(leg).side = SideOf(leg)
                 /\ 100 * o(leg).price - half(leg) <= LimitOf(leg)
                 /\ LimitOf(leg) <= 100 * o(leg).price + half(leg)
                 /\ o(leg)' = o(leg) /\ LimitOf(leg) = 100 * Limit(leg)
      <4>1. leg \in {"near", "far", "combo"} /\ OrdersOf(leg, kind) # {}
        BY <2>2, <3>1 DEF Legs
      <4>2. o(leg)' = o(leg)
        BY <1>a, <2>2 DEF Sent
      <4> QED BY <1>0, <2>2, <3>1, <4>1, <4>2, FillsNear, BookedInv DEF LimitOf, Legs
    <3>2. price \in Int /\ price <= o("far").price
      BY <1>0, <2>1, <2>2, FillsNear, BookedInv DEF SideOf
    <3>3. fill'.far = price /\ fill'.near = fill.near /\ fill'.near \in Int
      BY <1>0, <2>1 DEF Legs
    <3>4. /\ result'.is = "filled" /\ result'.orders = Legs
          /\ \A leg \in Legs : result'[leg] = IF leg \in told' THEN 100 * fill'[leg] ELSE LimitOf(leg)
      BY <2>4, <3>1 DEF Booked, Taken, Legs
    <3> HIDE DEF o, half
    <3>5. ASSUME NEW leg \in Legs
          PROVE  /\ leg \in told' => result'[leg] = 100 * fill'[leg]
                 /\ (IF o(leg).side = "buy" THEN 100 * fill'[leg] - result'[leg]
                     ELSE result'[leg] - 100 * fill'[leg]) <= half(leg)
      <4>1. /\ fill'[leg] \in Int
            /\ o(leg).side = "buy" => fill'[leg] <= o(leg).price
            /\ o(leg).side # "buy" => fill'[leg] >= o(leg).price
        <5>1. CASE leg = "near"
          BY <2>2, <3>1, <3>3, <5>1 DEF SideOf, o
        <5>2. CASE leg = "far"
          BY <2>2, <3>1, <3>2, <3>3, <5>2 DEF SideOf
        <5> QED BY <5>1, <5>2 DEF Legs
      <4> DEFINE named == leg \in told'
                 p == o(leg).price
                 f == fill'[leg]
                 q == LimitOf(leg)
                 h == half(leg)
                 side == o(leg).side
                 b == result'[leg]
      <4>2. /\ p \in Int /\ f \in Int /\ q \in Int /\ h \in Nat /\ named \in BOOLEAN
            /\ b = IF named THEN 100 * f ELSE q
            /\ 100 * p - h <= q /\ q <= 100 * p + h
            /\ side = "buy" => f <= p
            /\ side # "buy" => f >= p
        BY <3>1, <3>4, <4>1
      <4> HIDE DEF named, p, f, q, h, side, b
      <4>3. /\ named => b = 100 * f
            /\ (IF side = "buy" THEN 100 * f - b ELSE b - 100 * f) <= h
        BY <4>2, LegBooked
      <4> QED BY <4>3 DEF named, p, f, q, h, side, b
    <3>6. BookedIsPaid'
      <4>1. \A leg \in Legs : /\ Sent(leg, kind)' = o(leg) /\ leg # "combo"
                              /\ 50 * TickAt(o(leg).price, grid[leg]) = half(leg)
        BY <1>0, <2>2, <3>1 DEF o, half, Legs
      <4> QED BY <1>0, <3>4, <3>5, <4>1 DEF BookedIsPaid, Traded
    <3> QED BY <1>a, <1>d, <2>2, <2>4, <3>6
  <2> QED BY <2>1, <2>3, <2>4
<1>8. CASE EntryLate \/ CloseLate
  <2>1. sent' = sent /\ pc' \in {"done", "undo"} /\ result'.is # "filled"
    BY <1>8 DEF EntryLate, CloseLate
  <2> QED BY <1>a, <1>b, <1>d, <2>1
<1>9. CASE CloseNear
  <2>1. /\ kind = "close" /\ result'.is # "filled"
        /\ pc' \in {"closeFar", "done"}
        /\ Sends("near", "buy", Cross("buy", task.near), task.qty, "close")
    BY <1>0, <1>9 DEF CloseNear, Submit, Goes, Done, StageOK
  <2>a. SideOf("near") = "buy" /\ LimitOf("near") = Cross("buy", task.near)
    BY <2>1 DEF SideOf, LimitOf
  <2>2. OrdersNear' /\ OrdersOf("near", "close")' # {}
    BY <2>1, <2>a, <1>c
  <2> QED BY <1>b, <2>1, <2>2 DEF BookedInv, Waiting
<1>10. CASE CloseFar
  <2>1. /\ kind = "close" /\ result'.is # "filled"
        /\ pc = "closeFar" /\ pc' \in {"closeSent", "done"}
        /\ Sends("far", "sell", Cross("sell", task.far), task.qty, "close")
    BY <1>0, <1>10 DEF CloseFar, Submit, Goes, Done, StageOK
  <2>a. SideOf("far") = "sell" /\ LimitOf("far") = Cross("sell", task.far)
    BY <2>1 DEF SideOf, LimitOf
  <2>2. /\ OrdersNear' /\ OrdersOf("far", "close")' # {}
        /\ OrdersOf("near", "close")' = OrdersOf("near", "close")
    BY <2>1, <2>a, <1>c
  <2>3. OrdersOf("near", "close") # {}
    BY <1>0, <2>1 DEF Waiting
  <2> QED BY <1>b, <2>1, <2>2, <2>3 DEF BookedInv, Waiting
<1>11. CASE CloseFills
  <2>1. PICK n \in FillPrices(Sent("near", "close")), f \in FillPrices(Sent("far", "close")) :
           /\ fill' = [near |-> n, far |-> f]
           /\ pc' = "done"
           /\ result' = Booked(Legs,
                               IF "near" \in told' THEN 100 * n ELSE Cross("buy", task.near),
                               IF "far" \in told' THEN 100 * f ELSE Cross("sell", task.far))
    BY <1>11 DEF CloseFills, Done
  <2>2. /\ kind = "close" /\ sent' = sent
        /\ OrdersOf("near", "close") # {} /\ OrdersOf("far", "close") # {}
    BY <1>0, <1>11 DEF CloseFills, StageOK, Waiting
  <2> DEFINE o(leg) == Sent(leg, "close")
             half(leg) == 50 * TickAt(o(leg).price, grid[leg])
  <2>3. ASSUME NEW leg \in Legs
        PROVE  /\ o(leg).price \in Int /\ half(leg) \in Nat /\ LimitOf(leg) \in Int
               /\ 100 * o(leg).price - half(leg) <= LimitOf(leg)
               /\ LimitOf(leg) <= 100 * o(leg).price + half(leg)
               /\ o(leg)' = o(leg)
               /\ \A p \in FillPrices(o(leg)) : /\ p \in Int
                                                /\ o(leg).side = "buy" => p <= o(leg).price
                                                /\ o(leg).side # "buy" => p >= o(leg).price
    <3>1. leg \in {"near", "far", "combo"} /\ OrdersOf(leg, kind) # {}
      BY <2>2, <2>3 DEF Legs
    <3>2. o(leg)' = o(leg)
      BY <1>a, <2>2 DEF Sent
    <3> QED BY <1>0, <2>2, <3>1, <3>2, FillsNear, BookedInv
  <2> HIDE DEF o, half
  <2>4. ASSUME NEW leg \in Legs
        PROVE  /\ fill'[leg] \in FillPrices(o(leg))
               /\ result'[leg] = IF leg \in told' THEN 100 * fill'[leg] ELSE LimitOf(leg)
    <3>1. CASE leg = "near"
      BY <2>1, <2>2, <3>1 DEF o, Booked, LimitOf
    <3>2. CASE leg = "far"
      BY <2>1, <2>2, <3>2 DEF o, Booked, LimitOf
    <3> QED BY <3>1, <3>2 DEF Legs
  <2>5. result'.is = "filled" /\ result'.orders = Legs
    BY <2>1 DEF Booked
  <2>6. ASSUME NEW leg \in Legs
        PROVE  /\ leg \in told' => result'[leg] = 100 * fill'[leg]
               /\ (IF o(leg).side = "buy" THEN 100 * fill'[leg] - result'[leg]
                   ELSE result'[leg] - 100 * fill'[leg]) <= half(leg)
    <3> DEFINE named == leg \in told'
               p == o(leg).price
               g == fill'[leg]
               q == LimitOf(leg)
               h == half(leg)
               side == o(leg).side
               b == result'[leg]
    <3>1. /\ p \in Int /\ g \in Int /\ q \in Int /\ h \in Nat /\ named \in BOOLEAN
          /\ b = IF named THEN 100 * g ELSE q
          /\ 100 * p - h <= q /\ q <= 100 * p + h
          /\ side = "buy" => g <= p
          /\ side # "buy" => g >= p
      BY <2>3, <2>4
    <3> HIDE DEF named, p, g, q, h, side, b
    <3>2. /\ named => b = 100 * g
          /\ (IF side = "buy" THEN 100 * g - b ELSE b - 100 * g) <= h
      BY <3>1, LegBooked
    <3> QED BY <3>2 DEF named, p, g, q, h, side, b
  <2>7. BookedIsPaid'
    <3>1. \A leg \in Legs : /\ Sent(leg, kind)' = o(leg) /\ leg # "combo"
                            /\ 50 * TickAt(o(leg).price, grid[leg]) = half(leg)
      BY <1>0, <2>2, <2>3 DEF o, half, Legs
    <3> QED BY <1>0, <2>5, <2>6, <3>1 DEF BookedIsPaid, Traded
  <2> QED BY <1>a, <1>d, <2>1, <2>2, <2>7
<1>12. ASSUME NEW leg \in Legs, Reverse(leg) PROVE BookedInv'
  <2>1. /\ result' = result /\ result.is # "filled" /\ pc' \in {"done", "undo"}
        /\ \E side, price : Sends(leg, side, price, task.qty, "undo")
    BY <1>0, <1>12 DEF Reverse, StageOK
  <2>2. PICK n : sent' = sent \cup {n} /\ n.why = "undo"
    BY <2>1, SendsIs DEF IsOrder
  <2>3. OrdersNear'
    BY <1>0, <2>2, NearStays
  <2> QED BY <1>b, <1>d, <2>1, <2>3
<1>13. CASE UNCHANGED vars
  <2>1. sent' = sent /\ pc' = pc /\ result' = result /\ fill' = fill /\ told' = told
    BY <1>13 DEF vars
  <2>2. \A l, w : Sent(l, w)' = Sent(l, w)
    BY <1>a, <2>1 DEF Sent
  <2>3. BookedIsPaid' /\ Waiting'
    BY <1>0, <1>a, <2>1, <2>2 DEF BookedIsPaid, Waiting, Traded
  <2> QED BY <1>a, <2>1, <2>3 DEF BookedInv
<1> QED BY <1>1, <1>2, <1>3, <1>4, <1>5, <1>6, <1>7, <1>8, <1>9, <1>10, <1>11, <1>12, <1>13 DEF Next

\* The book is told what a spread cost where Deribit says so, and where it does not, half
\* a tick of each order less at most: for any prices, grids and fills.
THEOREM BookedHolds == Spec => []BookedIsPaid
<1>1. Init => BookedInv
  BY DEF Init, BookedInv, Waiting, BookedIsPaid, Nothing
<1>2. PricingInv /\ BookedInv /\ [Next]_vars => BookedInv'
  BY GridAssumption, BookedStep
<1>3. BookedInv => BookedIsPaid
  BY DEF BookedInv
<1> QED BY <1>1, <1>2, <1>3, InvHolds, PTL DEF Spec
=============================================================================
