------------------------ MODULE SpreadExecutorProofs ------------------------
(***************************************************************************)
(* SpreadExecutor for any quantity, number of retries and set of faults:   *)
(* success is a whole spread, a partial fill is reversed or told, and      *)
(* reversing never overshoots; a call in which nothing goes wrong is what  *)
(* SpreadContract promises.                                                *)
(***************************************************************************)
EXTENDS SpreadExecutor, SequenceTheorems, TLAPS

-----------------------------------------------------------------------------
(* The invariant.                                                          *)

Stages == {"submit", "wait", "drop", "cancel", "query", "flatten", "undo", "returned"}

OrderType == [leg : Targets, direction : {-1, 1}, amount : Nat, filled : Nat,
              status : {"open", "filled", "cancelled"}, undoes : Nat]

OrdersType ==
    /\ orders \in Seq(OrderType)
    /\ \A i \in DOMAIN orders :
          /\ orders[i].filled <= orders[i].amount
          /\ orders[i].status = "filled" <=> orders[i].filled = orders[i].amount

ManagerType ==
    /\ manager \in Seq(OrderStates)
    /\ Len(manager) = Len(orders)

CallType ==
    /\ kind \in {"enter", "close", "roll"}
    /\ pc \in [at : Stages, leg : Targets, attempt : Nat]
    /\ got \subseteq {"near", "far"}
    /\ partial \in Nat
    /\ outcome \in {"none", "filled", "failed", "legrisk"}

\* An order that the executor knows is the one it made for the leg.
Own(leg) ==
    /\ id[leg] \in DOMAIN orders
    /\ orders[id[leg]].amount = Qty
    /\ orders[id[leg]].direction = Direction(kind, leg)
    /\ orders[id[leg]].undoes = 0

IdsOK ==
    /\ id \in [Targets -> Nat]
    /\ \A leg \in Targets : id[leg] # 0 => Own(leg)

Whole(leg) == id[leg] # 0 /\ orders[id[leg]].filled = Qty

Awaited == {"wait", "cancel", "query", "flatten"}

\* Where the call is, and what it has got by then.
StageOK ==
    /\ pc.at = "returned" <=> outcome # "none"
    /\ kind = "enter" => pc.leg \in {"combo", "near", "far"}
    /\ kind = "close" => pc.leg \in {"near", "far"}
    /\ kind = "roll" => pc.leg \in {"near", "new"}
    /\ pc.at \in Awaited \cup {"drop"} => id[pc.leg] # 0
    /\ pc.leg = "combo" => id["near"] = 0
    /\ kind = "enter" /\ pc.leg = "far" /\ pc.at \in {"submit", "wait"} => Whole("near")
    /\ pc.leg = "new" /\ pc.at \in {"submit", "wait"} => Whole("near")
    /\ kind = "close" /\ pc.leg = "far" /\ pc.at = "submit" => id["near"] # 0
    /\ kind = "close" /\ pc.at \in Awaited => id["near"] # 0 /\ id["far"] # 0
    /\ kind = "close" /\ pc.at = "submit" => "near" \notin got
    /\ kind = "close" /\ pc.leg = "near" /\ pc.at \in Awaited => "near" \notin got
    /\ kind = "close" /\ "near" \in got => Whole("near")

\* After a reversal the call is about to fail.
Failing ==
    \/ pc.at = "returned" /\ outcome # "filled"
    \/ pc.at = "undo"
    \/ kind = "close" /\ pc.leg = "far" /\ pc.at \in Awaited /\ "near" \notin got

ReversedFails == \A i \in DOMAIN orders : orders[i].undoes # 0 => Failing

\* What is to be reversed has been seen filled.
PartialOK ==
    /\ pc.at = "cancel" => partial = 0
    /\ pc.at = "flatten" => partial > 0 /\ partial <= orders[id[pc.leg]].filled

ExecInv ==
    /\ OrdersType /\ ManagerType /\ CallType /\ IdsOK
    /\ StageOK /\ ReversedFails /\ PartialOK
    /\ FilledIsWhole /\ PartialIsReversedOrTold

LEMMA InvInit == Init => ExecInv
<1> SUFFICES ASSUME Init PROVE ExecInv
  OBVIOUS
<1>1. /\ kind \in {"enter", "close", "roll"} /\ orders = <<>> /\ manager = <<>>
      /\ id = [leg \in Targets |-> 0] /\ outcome = "none" /\ got = {} /\ partial = 0
      /\ pc = [at |-> "submit", leg |-> FirstLeg(kind), attempt |-> 0]
  BY ExecutorAssumption DEF Init
<1>2. OrdersType /\ ManagerType
  BY <1>1 DEF OrdersType, ManagerType
<1>3. CallType
  BY <1>1 DEF CallType, FirstLeg, Targets, Legs, Stages
<1>4. IdsOK
  BY <1>1 DEF IdsOK
<1>5. StageOK
  BY <1>1 DEF StageOK, FirstLeg, Awaited, Targets, Legs
<1>6. ReversedFails /\ PartialOK /\ FilledIsWhole /\ PartialIsReversedOrTold
  BY <1>1 DEF ReversedFails, PartialOK, FilledIsWhole, PartialIsReversedOrTold
<1> QED BY <1>2, <1>3, <1>4, <1>5, <1>6 DEF ExecInv

-----------------------------------------------------------------------------
(* What happens to the orders.                                             *)

\* Orders keep what they are for, and what they have filled.
Grown ==
    /\ Len(orders) <= Len(orders')
    /\ \A i \in DOMAIN orders :
          /\ i \in DOMAIN orders'
          /\ orders'[i].amount = orders[i].amount
          /\ orders'[i].direction = orders[i].direction
          /\ orders'[i].undoes = orders[i].undoes
          /\ orders[i].filled <= orders'[i].filled
          /\ orders'[i].filled <= orders[i].amount

\* Reversals are made in two stages only.
NoneReversed ==
    \A i \in DOMAIN orders' : orders'[i].undoes # 0 => i \in DOMAIN orders /\ orders[i].undoes # 0

LEMMA Typed ==
  ASSUME NEW s \in Seq(OrderType), NEW i \in DOMAIN s
  PROVE  s[i] \in OrderType /\ s[i].filled \in Nat /\ s[i].amount \in Nat
<1>1. s[i] \in OrderType
  BY ElementOfSeq
<1> QED BY <1>1 DEF OrderType

LEMMA OrderTyped ==
  ASSUME OrdersType, NEW i \in DOMAIN orders
  PROVE  orders[i] \in OrderType /\ orders[i].filled \in Nat /\ orders[i].amount \in Nat
BY Typed DEF OrdersType

LEMMA AppendsOne ==
  ASSUME OrdersType, NEW o \in OrderType, o.filled <= o.amount,
         o.status = "filled" <=> o.filled = o.amount,
         orders' = Append(orders, o)
  PROVE  /\ OrdersType' /\ Grown /\ Len(orders') = Len(orders) + 1
         /\ orders'[Len(orders) + 1] = o
         /\ \A i \in DOMAIN orders : orders'[i] = orders[i]
         /\ o.undoes = 0 => NoneReversed
<1>1. /\ orders \in Seq(OrderType) /\ orders' \in Seq(OrderType)
      /\ Len(orders') = Len(orders) + 1 /\ Len(orders) \in Nat
      /\ DOMAIN orders = 1..Len(orders) /\ DOMAIN orders' = 1..(Len(orders) + 1)
      /\ orders'[Len(orders) + 1] = o
      /\ \A i \in 1..Len(orders) : orders'[i] = orders[i]
  BY DEF OrdersType
<1>2. \A i \in DOMAIN orders : orders[i] \in OrderType /\ orders[i].filled \in Nat
  BY OrderTyped
<1>3. \A i \in DOMAIN orders' : i = Len(orders) + 1 \/ i \in DOMAIN orders
  BY <1>1
<1>4. OrdersType'
  BY <1>1, <1>3 DEF OrdersType
<1>5. Grown
  BY <1>1, <1>2 DEF Grown, OrdersType
<1>6. o.undoes = 0 => NoneReversed
  BY <1>1, <1>3 DEF NoneReversed
<1> QED BY <1>1, <1>4, <1>5, <1>6

LEMMA ChangesOne ==
  ASSUME OrdersType, NEW i \in DOMAIN orders,
         NEW f \in Nat, f >= orders[i].filled, f <= orders[i].amount,
         NEW s \in {"open", "filled", "cancelled"}, s = "filled" <=> f = orders[i].amount,
         orders' = [orders EXCEPT ![i] = [orders[i] EXCEPT !.filled = f, !.status = s]]
  PROVE  OrdersType' /\ Grown /\ NoneReversed /\ Len(orders') = Len(orders)
<1> DEFINE o == [orders[i] EXCEPT !.filled = f, !.status = s]
<1>1. orders \in Seq(OrderType) /\ orders[i] \in OrderType
  BY OrderTyped DEF OrdersType
<1>2. /\ o \in OrderType /\ o.filled = f /\ o.status = s /\ o.amount = orders[i].amount
      /\ o.direction = orders[i].direction /\ o.undoes = orders[i].undoes
  BY <1>1 DEF OrderType
<1>3. /\ DOMAIN orders' = DOMAIN orders /\ orders'[i] = o
      /\ \A j \in DOMAIN orders : j # i => orders'[j] = orders[j]
  OBVIOUS
<1> HIDE DEF o
<1>4. orders' \in Seq(OrderType) /\ Len(orders') = Len(orders) /\ Len(orders) \in Nat
  BY <1>1, <1>2, <1>3
<1>5. \A j \in DOMAIN orders : orders[j] \in OrderType /\ orders[j].filled \in Nat
  BY OrderTyped
<1>6. OrdersType'
  BY <1>2, <1>3, <1>4 DEF OrdersType
<1>7. Grown
  BY <1>2, <1>3, <1>4, <1>5 DEF Grown, OrdersType
<1>8. NoneReversed
  BY <1>2, <1>3 DEF NoneReversed
<1> QED BY <1>4, <1>6, <1>7, <1>8

LEMMA SameOrders ==
  ASSUME OrdersType, orders' = orders
  PROVE  OrdersType' /\ Grown /\ NoneReversed /\ Len(orders') = Len(orders)
<1>1. orders \in Seq(OrderType) /\ Len(orders) \in Nat
  BY DEF OrdersType
<1>2. \A j \in DOMAIN orders : orders[j] \in OrderType /\ orders[j].filled \in Nat
  BY OrderTyped
<1> QED BY <1>1, <1>2 DEF OrdersType, Grown, NoneReversed

\* Orders that are kept stay the executor's own, and whole ones stay whole.
LEMMA IdsKept ==
  ASSUME OrdersType, OrdersType', IdsOK, Grown, id' = id, kind' = kind
  PROVE  /\ IdsOK'
         /\ \A leg \in Targets : Whole(leg) => Whole(leg)'
<1>1. ASSUME NEW leg \in Targets, id[leg] # 0
      PROVE  Own(leg)' /\ (orders[id[leg]].filled = Qty => orders'[id[leg]].filled = Qty)
  <2>1. Own(leg) /\ id'[leg] = id[leg] /\ id[leg] \in DOMAIN orders
    BY <1>1 DEF IdsOK, Own
  <2>2. id[leg] \in DOMAIN orders' /\ orders[id[leg]].filled \in Nat /\ orders'[id[leg]].filled \in Nat
    BY <2>1, OrderTyped, Typed DEF Grown, OrdersType
  <2> QED BY <2>1, <2>2 DEF Own, Grown
<1> QED BY <1>1 DEF IdsOK, Whole

\* No order is newly marked as cancelled in part.
MarksNone ==
    \A i \in DOMAIN manager' :
        manager'[i] = "cancelled_partial" => i \in DOMAIN manager /\ manager[i] = "cancelled_partial"

LEMMA ReversalKept ==
  ASSUME ExecInv, OrdersType', Grown, ~alerted,
         NEW i \in DOMAIN manager, manager[i] = "cancelled_partial"
  PROVE  \E j \in DOMAIN orders' : /\ orders'[j].undoes = i
                                   /\ orders'[j].amount <= orders'[i].filled
                                   /\ orders'[j].direction = -orders'[i].direction
<1>1. PICK j \in DOMAIN orders : /\ orders[j].undoes = i
                                 /\ orders[j].amount <= orders[i].filled
                                 /\ orders[j].direction = -orders[i].direction
  BY DEF ExecInv, PartialIsReversedOrTold
<1>2. i \in DOMAIN orders
  BY DEF ExecInv, ManagerType, OrdersType
<1>3. /\ orders[i].filled \in Nat /\ orders[j].amount \in Nat
      /\ i \in DOMAIN orders' /\ j \in DOMAIN orders'
  BY <1>1, <1>2, OrderTyped DEF ExecInv, Grown
<1>4. orders'[i].filled \in Nat
  BY <1>3, Typed DEF OrdersType
<1> QED BY <1>1, <1>2, <1>3, <1>4 DEF Grown

LEMMA PartialKept ==
  ASSUME ExecInv, OrdersType', Grown, MarksNone, alerted => alerted'
  PROVE  PartialIsReversedOrTold'
BY ReversalKept DEF MarksNone, PartialIsReversedOrTold

\* The market moves, and the call does not.
LEMMA QuietStep ==
  ASSUME ExecInv, UNCHANGED call, OrdersType', Grown, NoneReversed, Len(orders') = Len(orders)
  PROVE  ExecInv'
<1>1. /\ faults' = faults /\ kind' = kind /\ pc' = pc /\ id' = id /\ got' = got
      /\ partial' = partial /\ manager' = manager /\ outcome' = outcome /\ alerted' = alerted
  BY DEF call
<1>2. IdsOK' /\ \A leg \in Targets : Whole(leg) => Whole(leg)'
  BY <1>1, IdsKept DEF ExecInv
<1>3. ManagerType' /\ CallType'
  BY <1>1 DEF ExecInv, ManagerType, CallType
<1>4. StageOK'
  BY <1>1, <1>2 DEF ExecInv, StageOK, Targets, Legs
<1>5. ReversedFails'
  BY <1>1 DEF ExecInv, ReversedFails, NoneReversed, Failing
<1>6. PartialOK'
  <2>1. SUFFICES ASSUME pc.at = "flatten" PROVE partial <= orders'[id[pc.leg]].filled
    BY <1>1 DEF ExecInv, PartialOK
  <2>2. Own(pc.leg) /\ partial <= orders[id[pc.leg]].filled /\ partial \in Nat
    BY <2>1 DEF ExecInv, PartialOK, IdsOK, StageOK, Awaited, CallType
  <2>3. orders[id[pc.leg]].filled \in Nat /\ orders'[id[pc.leg]].filled \in Nat
        /\ orders[id[pc.leg]].filled <= orders'[id[pc.leg]].filled
    <3>1. id[pc.leg] \in DOMAIN orders /\ id[pc.leg] \in DOMAIN orders'
      BY <2>2 DEF Own, Grown
    <3>2. orders[id[pc.leg]].filled \in Nat /\ orders'[id[pc.leg]].filled \in Nat
      BY <3>1, Typed DEF ExecInv, OrdersType
    <3> QED BY <3>1, <3>2 DEF Grown
  <2> QED BY <2>2, <2>3
<1>7. FilledIsWhole'
  <2> SUFFICES ASSUME outcome = "filled" PROVE FilledIsWhole'
    BY <1>1 DEF FilledIsWhole
  <2>1. /\ \/ \A leg \in Needed : Whole(leg)
           \/ kind = "enter" /\ id["near"] = 0 /\ Whole("combo")
        /\ \A i \in DOMAIN orders : orders[i].undoes = 0
    BY DEF ExecInv, FilledIsWhole, Whole
  <2>2. Needed \subseteq Targets /\ Needed' = Needed
    BY <1>1 DEF Needed, Targets, Legs
  <2>3. \/ \A leg \in Needed' : Whole(leg)'
        \/ kind' = "enter" /\ id'["near"] = 0 /\ Whole("combo")'
    BY <1>1, <1>2, <2>1, <2>2 DEF Targets
  <2>4. \A i \in DOMAIN orders' : orders'[i].undoes = 0
    BY <2>1 DEF NoneReversed
  <2> QED BY <2>3, <2>4 DEF FilledIsWhole, Whole
<1>8. PartialIsReversedOrTold'
  BY <1>1, PartialKept DEF MarksNone
<1> QED BY <1>2, <1>3, <1>4, <1>5, <1>6, <1>7, <1>8 DEF ExecInv

LEMMA ExchangeStep ==
  ASSUME ExecInv, NEW i \in DOMAIN orders, Fill(i) \/ Withdraw(i)
  PROVE  ExecInv'
<1>0. OrdersType /\ orders[i] \in OrderType /\ orders[i].filled \in Nat /\ orders[i].amount \in Nat
  BY OrderTyped DEF ExecInv
<1>1. CASE Fill(i)
  <2>1. PICK q \in 1..(orders[i].amount - orders[i].filled) :
           orders' = [orders EXCEPT
                ![i].filled = @ + q,
                ![i].status = IF orders[i].filled + q = orders[i].amount
                              THEN "filled" ELSE "open"]
    BY <1>1 DEF Fill
  <2> DEFINE f == orders[i].filled + q
             s == IF f = orders[i].amount THEN "filled" ELSE "open"
  <2>2. orders' = [orders EXCEPT ![i] = [orders[i] EXCEPT !.filled = f, !.status = s]]
    BY <2>1
  <2>3. f \in Nat /\ f >= orders[i].filled /\ f <= orders[i].amount
        /\ s \in {"open", "filled", "cancelled"} /\ (s = "filled" <=> f = orders[i].amount)
    BY <1>0, <2>1
  <2> HIDE DEF f, s
  <2>4. OrdersType' /\ Grown /\ NoneReversed /\ Len(orders') = Len(orders)
    BY <1>0, <2>2, <2>3, ChangesOne
  <2> QED BY <1>1, <2>4, QuietStep DEF Fill
<1>2. CASE Withdraw(i)
  <2> DEFINE f == orders[i].filled
             s == "cancelled"
  <2>1. orders' = [orders EXCEPT ![i] = [orders[i] EXCEPT !.filled = f, !.status = s]]
    BY <1>0, <1>2 DEF Withdraw, OrderType
  <2>2. f \in Nat /\ f >= orders[i].filled /\ f <= orders[i].amount
        /\ s \in {"open", "filled", "cancelled"} /\ (s = "filled" <=> f = orders[i].amount)
    BY <1>0, <1>2 DEF Withdraw, OrdersType
  <2> HIDE DEF f, s
  <2>3. OrdersType' /\ Grown /\ NoneReversed /\ Len(orders') = Len(orders)
    BY <1>0, <2>1, <2>2, ChangesOne
  <2> QED BY <1>2, <2>3, QuietStep DEF Withdraw, call
<1> QED BY <1>1, <1>2

-----------------------------------------------------------------------------
(* What a request of the executor does.                                    *)

LEMMA Directed ==
  ASSUME NEW k, NEW leg
  PROVE  Direction(k, leg) \in {-1, 1} /\ -Direction(k, leg) \in {-1, 1}
<1>1. Direction(k, leg) = 1 \/ Direction(k, leg) = -1
  BY DEF Direction
<1> QED BY <1>1

LEMMA ManagerSame ==
  ASSUME ManagerType, manager' = manager, Len(orders') = Len(orders)
  PROVE  ManagerType' /\ MarksNone
BY DEF ManagerType, MarksNone

LEMMA StateSet ==
  ASSUME NEW m \in Seq(OrderStates), NEW k, NEW v \in OrderStates
  PROVE  /\ [m EXCEPT ![k] = v] \in Seq(OrderStates)
         /\ Len([m EXCEPT ![k] = v]) = Len(m)
         /\ DOMAIN [m EXCEPT ![k] = v] = DOMAIN m
         /\ \A i \in DOMAIN m : [m EXCEPT ![k] = v][i] \in {m[i], v}
<1> DEFINE n == [m EXCEPT ![k] = v]
<1>1. DOMAIN m = 1..Len(m)
  OBVIOUS
<1>2. CASE k \in 1..Len(m)
  BY <1>2, ExceptSeq
<1>3. CASE k \notin 1..Len(m)
  <2>1. n = m
    BY <1>1, <1>3
  <2> QED BY <2>1
<1> QED BY <1>2, <1>3

LEMMA ManagerSets ==
  ASSUME ManagerType, NEW k, NEW v \in OrderStates, v # "cancelled_partial",
         manager' = [manager EXCEPT ![k] = v], Len(orders') = Len(orders)
  PROVE  ManagerType' /\ MarksNone
<1>1. /\ manager \in Seq(OrderStates) /\ manager' \in Seq(OrderStates)
      /\ Len(manager') = Len(manager)
      /\ \A i \in DOMAIN manager : manager'[i] \in {manager[i], v}
  BY StateSet DEF ManagerType
<1>2. DOMAIN manager' = DOMAIN manager
  BY <1>1
<1> QED BY <1>1, <1>2 DEF ManagerType, MarksNone

LEMMA ManagerAppends ==
  ASSUME ManagerType, NEW v \in OrderStates, v # "cancelled_partial",
         manager' = Append(manager, v), Len(orders') = Len(orders) + 1
  PROVE  ManagerType' /\ MarksNone
<1>1. manager \in Seq(OrderStates) /\ manager' \in Seq(OrderStates) /\ Len(manager) \in Nat
      /\ Len(manager') = Len(manager) + 1 /\ DOMAIN manager' = 1..(Len(manager) + 1)
      /\ DOMAIN manager = 1..Len(manager)
      /\ manager'[Len(manager) + 1] = v
      /\ \A i \in 1..Len(manager) : manager'[i] = manager[i]
  BY DEF ManagerType
<1>2. \A i \in DOMAIN manager' : i = Len(manager) + 1 \/ i \in DOMAIN manager
  BY <1>1
<1> QED BY <1>1, <1>2 DEF ManagerType, MarksNone

LEMMA PlaceStep ==
  ASSUME ExecInv, NEW leg \in Targets, Place(leg)
  PROVE  /\ OrdersType' /\ Grown /\ NoneReversed /\ ManagerType' /\ MarksNone
         /\ IdsOK' /\ id'[leg] # 0
         /\ \A l \in Targets : l # leg => id'[l] = id[l] /\ (Whole(l) => Whole(l)')
         /\ kind' = kind /\ got' = got /\ partial' = partial /\ alerted' = alerted
<1> DEFINE o == Order(leg, Direction(kind, leg), Qty, 0)
<1>1. /\ o \in OrderType /\ o.filled <= o.amount /\ (o.status = "filled" <=> o.filled = o.amount)
      /\ o.undoes = 0 /\ o.amount = Qty /\ o.direction = Direction(kind, leg)
  BY ExecutorAssumption DEF Order, OrderType, Direction
<1>2. /\ orders' = Append(orders, o) /\ manager' = Append(manager, "submitted")
      /\ id' = [id EXCEPT ![leg] = Len(orders) + 1]
      /\ kind' = kind /\ got' = got /\ partial' = partial /\ alerted' = alerted
  BY DEF Place, Book
<1> HIDE DEF o
<1>3. /\ OrdersType' /\ Grown /\ NoneReversed /\ Len(orders') = Len(orders) + 1
      /\ orders'[Len(orders) + 1] = o
  BY <1>1, <1>2, AppendsOne DEF ExecInv
<1>4. ManagerType' /\ MarksNone
  <2>1. "submitted" \in OrderStates /\ "submitted" # "cancelled_partial" /\ ManagerType
    BY DEF ExecInv, OrderStates
  <2> QED BY <1>2, <1>3, <2>1, ManagerAppends
<1>5. Len(orders) \in Nat /\ id \in [Targets -> Nat] /\ orders' \in Seq(OrderType)
  BY <1>3 DEF ExecInv, OrdersType, IdsOK
<1>6. id' \in [Targets -> Nat] /\ id'[leg] = Len(orders) + 1
      /\ \A l \in Targets : l # leg => id'[l] = id[l]
  BY <1>2, <1>5
<1>7. Own(leg)'
  <2>1. Len(orders) + 1 \in DOMAIN orders'
    BY <1>3, <1>5
  <2> QED BY <1>1, <1>2, <1>3, <1>6, <2>1 DEF Own
<1>8. ASSUME NEW l \in Targets, l # leg, id[l] # 0
      PROVE  Own(l)' /\ (orders[id[l]].filled = Qty => orders'[id[l]].filled = Qty)
  <2>1. Own(l) /\ id'[l] = id[l] /\ id[l] \in DOMAIN orders /\ id[l] \in DOMAIN orders'
    BY <1>3, <1>6, <1>8 DEF ExecInv, IdsOK, Own, Grown
  <2>2. orders[id[l]].filled \in Nat /\ orders'[id[l]].filled \in Nat
    BY <2>1, <1>3, Typed DEF ExecInv, OrdersType
  <2> QED BY <1>2, <1>3, <2>1, <2>2 DEF Own, Grown
<1>9. IdsOK'
  BY <1>6, <1>7, <1>8 DEF IdsOK
<1>10. \A l \in Targets : l # leg => id'[l] = id[l] /\ (Whole(l) => Whole(l)')
  BY <1>6, <1>8 DEF Whole
<1> QED BY <1>2, <1>3, <1>4, <1>5, <1>6, <1>9, <1>10

LEMMA ReverseStep ==
  ASSUME ExecInv, NEW leg \in Targets, NEW amount \in Nat \ {0},
         NEW known \in Seq(OrderStates), Len(known) = Len(orders),
         BookReverse(leg, amount, known), id' = id, kind' = kind
  PROVE  /\ OrdersType' /\ Grown /\ ManagerType' /\ IdsOK'
         /\ \A l \in Targets : Whole(l) => Whole(l)'
         /\ manager' = Append(known, "unknown")
         /\ \E j \in DOMAIN orders' :
               /\ orders'[j].undoes = id[leg] /\ orders'[j].amount = amount
               /\ orders'[j].direction = -Direction(kind, leg)
<1> DEFINE o == Order(leg, -Direction(kind, leg), amount, id[leg])
           u == [o EXCEPT !.filled = amount, !.status = "filled"]
<1>0. id[leg] \in Nat
  BY DEF ExecInv, IdsOK
<1>1. /\ o \in OrderType /\ o.filled <= o.amount /\ (o.status = "filled" <=> o.filled = o.amount)
      /\ o.undoes = id[leg] /\ o.amount = amount /\ o.direction = -Direction(kind, leg)
  BY <1>0, Directed DEF Order, OrderType
<1>1a. orders' = Append(orders, u) \/ orders' = Append(orders, o)
  BY DEF BookReverse
<1> HIDE DEF o
<1>2. /\ u \in OrderType /\ u.filled <= u.amount /\ (u.status = "filled" <=> u.filled = u.amount)
      /\ u.undoes = id[leg] /\ u.amount = amount /\ u.direction = -Direction(kind, leg)
  <2>1. u \in OrderType
    BY <1>1 DEF OrderType
  <2>2. u.filled = amount /\ u.status = "filled" /\ u.amount = o.amount /\ u.undoes = o.undoes
        /\ u.direction = o.direction
    BY <1>1 DEF OrderType
  <2> HIDE DEF u
  <2> QED BY <1>1, <2>1, <2>2
<1>3. manager' = Append(known, "unknown")
  BY DEF BookReverse
<1> HIDE DEF u
<1>4. PICK n \in OrderType :
         /\ orders' = Append(orders, n)
         /\ n.filled <= n.amount /\ (n.status = "filled" <=> n.filled = n.amount)
         /\ n.undoes = id[leg] /\ n.amount = amount /\ n.direction = -Direction(kind, leg)
  BY <1>1, <1>1a, <1>2
<1>5. OrdersType' /\ Grown /\ Len(orders') = Len(orders) + 1 /\ orders'[Len(orders) + 1] = n
  BY <1>4, AppendsOne DEF ExecInv
<1>6. ManagerType'
  <2>1. "unknown" \in OrderStates
    BY DEF OrderStates
  <2>2. manager' \in Seq(OrderStates) /\ Len(manager') = Len(known) + 1
    BY <1>3, <2>1, AppendProperties
  <2> QED BY <1>5, <2>2 DEF ManagerType
<1>7. IdsOK' /\ \A l \in Targets : Whole(l) => Whole(l)'
  BY <1>5, IdsKept DEF ExecInv
<1>8. Len(orders) + 1 \in DOMAIN orders'
  BY <1>5 DEF ExecInv, OrdersType
<1> QED BY <1>3, <1>4, <1>5, <1>6, <1>7, <1>8

\* A step that reverses nothing keeps the invariant if it keeps its place in the call.
LEMMA ForwardStep ==
  ASSUME ExecInv, OrdersType', Grown, NoneReversed, ManagerType', MarksNone,
         CallType', IdsOK', StageOK', PartialOK', alerted => alerted',
         Failing => Failing', outcome' = "filled" => FilledIsWhole'
  PROVE  ExecInv'
<1>1. ReversedFails'
  BY DEF ExecInv, ReversedFails, NoneReversed
<1>2. FilledIsWhole'
  BY DEF FilledIsWhole
<1>3. PartialIsReversedOrTold'
  BY PartialKept
<1> QED BY <1>1, <1>2, <1>3 DEF ExecInv

\* A call that ends without a fill may have reversed whatever it has.
LEMMA FailStep ==
  ASSUME ExecInv, pc.at # "returned", OrdersType', ManagerType', IdsOK',
         \A l \in Targets : Whole(l) => Whole(l)',
         id' = id, kind' = kind, got' = got, partial' \in Nat,
         outcome' \in {"failed", "legrisk"}, pc' = [pc EXCEPT !.at = "returned"],
         PartialIsReversedOrTold'
  PROVE  ExecInv'
<1>1. /\ pc' \in [at : Stages, leg : Targets, attempt : Nat]
      /\ pc'.at = "returned" /\ pc'.leg = pc.leg
  BY DEF ExecInv, CallType, Stages
<1>2. CallType'
  BY <1>1 DEF ExecInv, CallType
<1>3. StageOK' /\ PartialOK'
  BY <1>1 DEF ExecInv, StageOK, PartialOK, Awaited, Targets, Legs
<1>4. ReversedFails' /\ FilledIsWhole'
  BY <1>1 DEF ReversedFails, Failing, FilledIsWhole
<1> QED BY <1>2, <1>3, <1>4 DEF ExecInv

\* Orders, manager and ids as they were.
LEMMA StillStep ==
  ASSUME ExecInv, orders' = orders, manager' = manager, id' = id, kind' = kind
  PROVE  /\ OrdersType' /\ Grown /\ NoneReversed /\ ManagerType' /\ MarksNone /\ IdsOK'
         /\ \A l \in Targets : Whole(l) => Whole(l)'
<1>1. OrdersType' /\ Grown /\ NoneReversed /\ Len(orders') = Len(orders)
  BY SameOrders DEF ExecInv
<1>2. ManagerType' /\ MarksNone
  BY <1>1, ManagerSame DEF ExecInv
<1>3. IdsOK' /\ \A l \in Targets : Whole(l) => Whole(l)'
  BY <1>1, IdsKept DEF ExecInv
<1> QED BY <1>1, <1>2, <1>3

\* The same, with a state set in the OrderManager.
LEMMA UpdateStep ==
  ASSUME ExecInv, orders' = orders, id' = id, kind' = kind,
         NEW i, NEW v \in OrderStates, v # "cancelled_partial", Update(i, v)
  PROVE  /\ OrdersType' /\ Grown /\ NoneReversed /\ ManagerType' /\ MarksNone /\ IdsOK'
         /\ \A l \in Targets : Whole(l) => Whole(l)'
<1>1. OrdersType' /\ Grown /\ NoneReversed /\ Len(orders') = Len(orders)
  BY SameOrders DEF ExecInv
<1>2. manager' = [manager EXCEPT ![i] = v]
  BY DEF Update
<1>3. ManagerType' /\ MarksNone
  BY <1>1, <1>2, ManagerSets DEF ExecInv
<1>4. IdsOK' /\ \A l \in Targets : Whole(l) => Whole(l)'
  BY <1>1, IdsKept DEF ExecInv
<1> QED BY <1>1, <1>3, <1>4

\* An order whose id the executor never learns.
LEMMA UnknownStep ==
  ASSUME ExecInv, NEW leg \in Targets, Book(Order(leg, Direction(kind, leg), Qty, 0), "unknown"),
         id' = id, kind' = kind
  PROVE  /\ OrdersType' /\ Grown /\ NoneReversed /\ ManagerType' /\ MarksNone /\ IdsOK'
         /\ \A l \in Targets : Whole(l) => Whole(l)'
<1> DEFINE o == Order(leg, Direction(kind, leg), Qty, 0)
<1>1. /\ o \in OrderType /\ o.filled <= o.amount /\ (o.status = "filled" <=> o.filled = o.amount)
      /\ o.undoes = 0
  BY ExecutorAssumption, Directed DEF Order, OrderType
<1>2. orders' = Append(orders, o) /\ manager' = Append(manager, "unknown")
  BY DEF Book
<1> HIDE DEF o
<1>3. OrdersType' /\ Grown /\ NoneReversed /\ Len(orders') = Len(orders) + 1
  BY <1>1, <1>2, AppendsOne DEF ExecInv
<1>4. ManagerType' /\ MarksNone
  <2>1. "unknown" \in OrderStates /\ "unknown" # "cancelled_partial" /\ ManagerType
    BY DEF ExecInv, OrderStates
  <2> QED BY <1>2, <1>3, <2>1, ManagerAppends
<1>5. IdsOK' /\ \A l \in Targets : Whole(l) => Whole(l)'
  BY <1>3, IdsKept DEF ExecInv
<1> QED BY <1>3, <1>4, <1>5

-----------------------------------------------------------------------------
(* Submissions.                                                            *)

LEMMA SubmitSteps ==
  ASSUME ExecInv, ConnectFails \/ EnterSubmit \/ CloseSubmit \/ RollSubmit \/ SubmitRefused
  PROVE  ExecInv'
<1>0. /\ outcome = "none" /\ pc.at = "submit" /\ ~Failing
      /\ pc \in [at : Stages, leg : Targets, attempt : Nat]
  BY DEF ConnectFails, EnterSubmit, CloseSubmit, RollSubmit, SubmitRefused, Place, At,
         ExecInv, StageOK, Failing, CallType, Awaited
<1>1. CASE ConnectFails
  <2>1. /\ orders' = orders /\ manager' = manager /\ id' = id /\ kind' = kind /\ got' = got
        /\ partial' = partial /\ alerted' = alerted
        /\ outcome' = "failed" /\ pc' = [pc EXCEPT !.at = "returned"]
    BY <1>1 DEF ConnectFails, Return
  <2>2. pc' \in [at : Stages, leg : Targets, attempt : Nat] /\ pc'.at = "returned" /\ pc'.leg = pc.leg
    BY <1>0, <2>1 DEF Stages
  <2>3. /\ OrdersType' /\ Grown /\ NoneReversed /\ ManagerType' /\ MarksNone /\ IdsOK'
        /\ \A l \in Targets : Whole(l) => Whole(l)'
    BY <2>1, StillStep
  <2>4. CallType'
    BY <2>1, <2>2 DEF ExecInv, CallType
  <2>5. StageOK' /\ PartialOK'
    BY <2>1, <2>2, <2>3 DEF ExecInv, StageOK, PartialOK, Awaited, Targets, Legs
  <2> QED BY <1>0, <2>1, <2>3, <2>4, <2>5, ForwardStep
<1>2. CASE EnterSubmit
  <2>1. PICK leg \in {"combo", "near", "far"} :
           /\ Place(leg) /\ pc.leg = leg /\ kind = "enter"
           /\ pc' = [at |-> "wait", leg |-> leg, attempt |-> 0] /\ outcome' = outcome
    BY <1>2 DEF EnterSubmit, Go, Place
  <2>2. leg \in Targets
    BY DEF Targets, Legs
  <2>3. /\ OrdersType' /\ Grown /\ NoneReversed /\ ManagerType' /\ MarksNone
        /\ IdsOK' /\ id'[leg] # 0
        /\ \A l \in Targets : l # leg => id'[l] = id[l] /\ (Whole(l) => Whole(l)')
        /\ kind' = kind /\ got' = got /\ partial' = partial /\ alerted' = alerted
    BY <2>1, <2>2, PlaceStep
  <2>4. CallType'
    BY <2>1, <2>2, <2>3 DEF ExecInv, CallType, Stages
  <2>5. StageOK' /\ PartialOK'
    BY <1>0, <2>1, <2>3 DEF ExecInv, StageOK, PartialOK, Awaited, Targets, Legs
  <2> QED BY <1>0, <2>1, <2>3, <2>4, <2>5, ForwardStep
<1>3. CASE CloseSubmit
  <2>1. PICK leg \in {"near", "far"} :
           /\ Place(leg) /\ pc.leg = leg /\ kind = "close" /\ outcome' = outcome
           /\ \/ leg = "near" /\ pc' = [at |-> "submit", leg |-> "far", attempt |-> 0]
              \/ leg = "far" /\ pc' = [at |-> "wait", leg |-> "near", attempt |-> 0]
    BY <1>3 DEF CloseSubmit, Go, Place
  <2>2. leg \in Targets
    BY DEF Targets, Legs
  <2>3. /\ OrdersType' /\ Grown /\ NoneReversed /\ ManagerType' /\ MarksNone
        /\ IdsOK' /\ id'[leg] # 0
        /\ \A l \in Targets : l # leg => id'[l] = id[l] /\ (Whole(l) => Whole(l)')
        /\ kind' = kind /\ got' = got /\ partial' = partial /\ alerted' = alerted
    BY <2>1, <2>2, PlaceStep
  <2>4. CallType'
    BY <2>1, <2>2, <2>3 DEF ExecInv, CallType, Stages, Targets, Legs
  <2>5. StageOK' /\ PartialOK'
    BY <1>0, <2>1, <2>3 DEF ExecInv, StageOK, PartialOK, Awaited, Targets, Legs
  <2> QED BY <1>0, <2>1, <2>3, <2>4, <2>5, ForwardStep
<1>4. CASE RollSubmit
  <2>1. PICK leg \in {"near", "new"} :
           /\ Place(leg) /\ pc.leg = leg /\ kind = "roll"
           /\ pc' = [at |-> "wait", leg |-> leg, attempt |-> 0] /\ outcome' = outcome
    BY <1>4 DEF RollSubmit, Go, Place
  <2>2. leg \in Targets
    BY DEF Targets, Legs
  <2>3. /\ OrdersType' /\ Grown /\ NoneReversed /\ ManagerType' /\ MarksNone
        /\ IdsOK' /\ id'[leg] # 0
        /\ \A l \in Targets : l # leg => id'[l] = id[l] /\ (Whole(l) => Whole(l)')
        /\ kind' = kind /\ got' = got /\ partial' = partial /\ alerted' = alerted
    BY <2>1, <2>2, PlaceStep
  <2>4. CallType'
    BY <2>1, <2>2, <2>3 DEF ExecInv, CallType, Stages
  <2>5. StageOK' /\ PartialOK'
    BY <1>0, <2>1, <2>3 DEF ExecInv, StageOK, PartialOK, Awaited, Targets, Legs
  <2> QED BY <1>0, <2>1, <2>3, <2>4, <2>5, ForwardStep
<1>5. CASE SubmitRefused
  <2>1. /\ orders' = orders /\ manager' = manager /\ id' = id /\ kind' = kind /\ got' = got
        /\ partial' = partial /\ alerted' = alerted
        /\ \/ pc.leg = "combo" /\ outcome' = outcome
              /\ pc' = [at |-> "submit", leg |-> "near", attempt |-> 0]
           \/ kind = "close" /\ pc.leg = "far" /\ outcome' = outcome
              /\ pc' = [at |-> "drop", leg |-> "near", attempt |-> 0]
           \/ outcome' = "failed" /\ pc' = [pc EXCEPT !.at = "returned"]
    BY <1>5 DEF SubmitRefused, GiveUpSubmit, Go, Return
  <2>2. /\ pc' \in [at : Stages, leg : Targets, attempt : Nat]
        /\ outcome' = "failed" => pc'.at = "returned" /\ pc'.leg = pc.leg
    BY <1>0, <2>1 DEF Stages, Targets, Legs
  <2>3. /\ OrdersType' /\ Grown /\ NoneReversed /\ ManagerType' /\ MarksNone /\ IdsOK'
        /\ \A l \in Targets : Whole(l) => Whole(l)'
    BY <2>1, StillStep
  <2>4. CallType'
    BY <2>1, <2>2 DEF ExecInv, CallType
  <2>5. CASE pc.leg = "combo" /\ outcome' = outcome
             /\ pc' = [at |-> "submit", leg |-> "near", attempt |-> 0]
    <3>1. StageOK' /\ PartialOK'
      BY <1>0, <2>1, <2>3, <2>5 DEF ExecInv, StageOK, PartialOK, Awaited, Targets, Legs
    <3> QED BY <1>0, <2>1, <2>3, <2>4, <2>5, <3>1, ForwardStep
  <2>6. CASE kind = "close" /\ pc.leg = "far" /\ outcome' = outcome
             /\ pc' = [at |-> "drop", leg |-> "near", attempt |-> 0]
    <3>1. StageOK' /\ PartialOK'
      BY <1>0, <2>1, <2>3, <2>6 DEF ExecInv, StageOK, PartialOK, Awaited, Targets, Legs
    <3> QED BY <1>0, <2>1, <2>3, <2>4, <2>6, <3>1, ForwardStep
  <2>7. CASE outcome' = "failed" /\ pc' = [pc EXCEPT !.at = "returned"]
    <3>1. alerted' = alerted /\ PartialIsReversedOrTold'
      BY <2>1, <2>3, PartialKept
    <3> QED BY <1>0, <2>1, <2>3, <2>7, <3>1, FailStep DEF ExecInv, CallType
  <2> QED BY <2>1, <2>5, <2>6, <2>7
<1> QED BY <1>1, <1>2, <1>3, <1>4, <1>5

LEMMA SubmitLostStep ==
  ASSUME ExecInv, SubmitLost
  PROVE  ExecInv'
<1>0. /\ outcome = "none" /\ pc.at = "submit" /\ ~Failing
      /\ pc \in [at : Stages, leg : Targets, attempt : Nat] /\ pc.leg \in Targets
  BY DEF SubmitLost, At, ExecInv, StageOK, Failing, CallType, Awaited
<1>1. /\ id' = id /\ kind' = kind /\ got' = got /\ partial' = partial /\ alerted' = alerted
      /\ \/ Book(Order(pc.leg, Direction(kind, pc.leg), Qty, 0), "unknown")
         \/ orders' = orders /\ manager' = manager
  BY DEF SubmitLost
<1>2. /\ OrdersType' /\ Grown /\ NoneReversed /\ ManagerType' /\ MarksNone /\ IdsOK'
      /\ \A l \in Targets : Whole(l) => Whole(l)'
  BY <1>0, <1>1, UnknownStep, StillStep
<1>3. \/ /\ outcome' = outcome /\ kind = "enter"
         /\ pc' = [pc EXCEPT !.attempt = pc.attempt + 1]
      \/ /\ outcome' = outcome
         /\ kind = "enter" /\ pc.leg = "far"
         /\ pc' = [at |-> "undo", leg |-> "near", attempt |-> 0]
      \/ /\ outcome' = outcome /\ pc.leg = "combo"
         /\ pc' = [at |-> "submit", leg |-> "near", attempt |-> 0]
      \/ /\ outcome' = outcome /\ kind = "close" /\ pc.leg = "far"
         /\ pc' = [at |-> "drop", leg |-> "near", attempt |-> 0]
      \/ outcome' = "failed" /\ pc' = [pc EXCEPT !.at = "returned"]
  BY DEF SubmitLost, GiveUpSubmit, Go, Return
<1>4. CASE /\ outcome' = outcome /\ kind = "enter"
           /\ pc' = [pc EXCEPT !.attempt = pc.attempt + 1]
  <2>1. /\ pc' \in [at : Stages, leg : Targets, attempt : Nat]
        /\ pc'.at = pc.at /\ pc'.leg = pc.leg
    BY <1>0, <1>4
  <2>2. CallType'
    BY <1>1, <1>4, <2>1 DEF ExecInv, CallType
  <2>3. StageOK' /\ PartialOK'
    BY <1>0, <1>1, <1>2, <1>4, <2>1 DEF ExecInv, StageOK, PartialOK, Awaited, Targets, Legs
  <2> QED BY <1>0, <1>1, <1>2, <1>4, <2>2, <2>3, ForwardStep
<1>5. CASE /\ outcome' = outcome /\ kind = "enter" /\ pc.leg = "far"
           /\ pc' = [at |-> "undo", leg |-> "near", attempt |-> 0]
  <2>1. CallType'
    BY <1>0, <1>1, <1>5 DEF ExecInv, CallType, Stages, Targets, Legs
  <2>2. StageOK' /\ PartialOK'
    BY <1>0, <1>1, <1>2, <1>5 DEF ExecInv, StageOK, PartialOK, Awaited, Targets, Legs
  <2> QED BY <1>0, <1>1, <1>2, <1>5, <2>1, <2>2, ForwardStep
<1>6. CASE /\ outcome' = outcome /\ pc.leg = "combo"
           /\ pc' = [at |-> "submit", leg |-> "near", attempt |-> 0]
  <2>1. CallType'
    BY <1>0, <1>1, <1>6 DEF ExecInv, CallType, Stages, Targets, Legs
  <2>2. StageOK' /\ PartialOK'
    BY <1>0, <1>1, <1>2, <1>6 DEF ExecInv, StageOK, PartialOK, Awaited, Targets, Legs
  <2> QED BY <1>0, <1>1, <1>2, <1>6, <2>1, <2>2, ForwardStep
<1>7. CASE /\ outcome' = outcome /\ kind = "close" /\ pc.leg = "far"
           /\ pc' = [at |-> "drop", leg |-> "near", attempt |-> 0]
  <2>1. CallType'
    BY <1>0, <1>1, <1>7 DEF ExecInv, CallType, Stages, Targets, Legs
  <2>2. StageOK' /\ PartialOK'
    BY <1>0, <1>1, <1>2, <1>7 DEF ExecInv, StageOK, PartialOK, Awaited, Targets, Legs
  <2> QED BY <1>0, <1>1, <1>2, <1>7, <2>1, <2>2, ForwardStep
<1>8. CASE outcome' = "failed" /\ pc' = [pc EXCEPT !.at = "returned"]
  <2>1. PartialIsReversedOrTold'
    BY <1>1, <1>2, PartialKept
  <2> QED BY <1>0, <1>1, <1>2, <1>8, <2>1, FailStep DEF ExecInv, CallType
<1> QED BY <1>3, <1>4, <1>5, <1>6, <1>7, <1>8

-----------------------------------------------------------------------------
(* Waiting.                                                                *)

\* What the poll takes for filled is filled.
LEMMA SeenIsWhole ==
  ASSUME ExecInv, NEW leg \in Targets, id[leg] # 0, SeenFilled(id[leg])
  PROVE  Whole(leg)
<1>1. Own(leg)
  BY DEF ExecInv, IdsOK
<1>2. orders[id[leg]].filled = orders[id[leg]].amount
  BY <1>1 DEF ExecInv, OrdersType, SeenFilled, Own
<1> QED BY <1>1, <1>2 DEF Whole, Own

\* A wait that ends in success ends with nothing reversed.
LEMMA NothingReversed ==
  ASSUME ExecInv, ~Failing, orders' = orders
  PROVE  \A i \in DOMAIN orders' : orders'[i].undoes = 0
BY DEF ExecInv, ReversedFails

LEMMA FilledStep ==
  ASSUME ExecInv, ~Failing, pc.at = "wait", orders' = orders, id' = id, kind' = kind,
         got' \subseteq {"near", "far"}, partial' = partial, alerted' = alerted,
         ManagerType', MarksNone, outcome' = "filled",
         pc' = [pc EXCEPT !.at = "returned"],
         kind = "close" /\ "near" \in got' => Whole("near"),
         \/ \A leg \in Needed : Whole(leg)
         \/ kind = "enter" /\ id["near"] = 0 /\ Whole("combo")
  PROVE  ExecInv'
<1>1. /\ pc' \in [at : Stages, leg : Targets, attempt : Nat]
      /\ pc'.at = "returned" /\ pc'.leg = pc.leg
  BY DEF ExecInv, CallType, Stages
<1>2. OrdersType' /\ Grown /\ NoneReversed /\ IdsOK'
  <2>1. OrdersType' /\ Grown /\ NoneReversed
    BY SameOrders DEF ExecInv
  <2> QED BY <2>1, IdsKept DEF ExecInv
<1>3. CallType'
  BY <1>1 DEF ExecInv, CallType
<1>4. StageOK' /\ PartialOK'
  BY <1>1 DEF ExecInv, StageOK, PartialOK, Awaited, Targets, Legs, Whole
<1>5. FilledIsWhole'
  BY NothingReversed DEF FilledIsWhole, Whole, Needed
<1> QED BY <1>2, <1>3, <1>4, <1>5, ForwardStep

LEMMA EnterFilledStep ==
  ASSUME ExecInv, EnterFilled
  PROVE  ExecInv'
<1>0. /\ outcome = "none" /\ pc.at = "wait" /\ kind = "enter" /\ ~Failing
      /\ pc.leg \in {"combo", "near", "far"} /\ id[pc.leg] # 0 /\ pc.leg \in Targets
      /\ SeenFilled(id[pc.leg])
      /\ pc \in [at : Stages, leg : Targets, attempt : Nat]
  BY DEF EnterFilled, Fills, At, ExecInv, StageOK, Failing, CallType, Awaited, Targets, Legs
<1>1. /\ orders' = orders /\ id' = id /\ kind' = kind /\ got' = got /\ partial' = partial
      /\ alerted' = alerted /\ Update(id[pc.leg], "filled")
      /\ \/ pc.leg \in {"combo", "far"} /\ outcome' = "filled" /\ pc' = [pc EXCEPT !.at = "returned"]
         \/ /\ pc.leg = "near" /\ outcome' = outcome
            /\ pc' = [at |-> "submit", leg |-> "far", attempt |-> 0]
  BY DEF EnterFilled, Fills, Go, Return
<1>2. Whole(pc.leg)
  BY <1>0, SeenIsWhole
<1>3. /\ OrdersType' /\ Grown /\ NoneReversed /\ ManagerType' /\ MarksNone /\ IdsOK'
      /\ \A l \in Targets : Whole(l) => Whole(l)'
  <2>1. "filled" \in OrderStates /\ "filled" # "cancelled_partial"
    BY DEF OrderStates
  <2> QED BY <1>1, <2>1, UpdateStep
<1>4. CASE /\ pc.leg = "near" /\ outcome' = outcome
           /\ pc' = [at |-> "submit", leg |-> "far", attempt |-> 0]
  <2>1. CallType'
    BY <1>0, <1>1, <1>4 DEF ExecInv, CallType, Stages, Targets, Legs
  <2>2. StageOK' /\ PartialOK'
    BY <1>0, <1>1, <1>2, <1>3, <1>4 DEF ExecInv, StageOK, PartialOK, Awaited, Targets, Legs
  <2> QED BY <1>0, <1>1, <1>3, <1>4, <2>1, <2>2, ForwardStep
<1>5. CASE pc.leg \in {"combo", "far"} /\ outcome' = "filled" /\ pc' = [pc EXCEPT !.at = "returned"]
  <2>1. \/ \A leg \in Needed : Whole(leg)
        \/ kind = "enter" /\ id["near"] = 0 /\ Whole("combo")
    BY <1>0, <1>2, <1>5 DEF ExecInv, StageOK, Needed
  <2>2. got' \subseteq {"near", "far"} /\ kind # "close"
    BY <1>0, <1>1 DEF ExecInv, CallType
  <2> QED BY <1>0, <1>1, <1>3, <1>5, <2>1, <2>2, FilledStep
<1> QED BY <1>1, <1>4, <1>5

LEMMA RollFilledStep ==
  ASSUME ExecInv, RollFilled
  PROVE  ExecInv'
<1>0. /\ outcome = "none" /\ pc.at = "wait" /\ kind = "roll" /\ ~Failing
      /\ pc.leg \in {"near", "new"} /\ id[pc.leg] # 0 /\ pc.leg \in Targets
      /\ SeenFilled(id[pc.leg])
      /\ pc \in [at : Stages, leg : Targets, attempt : Nat]
  BY DEF RollFilled, Fills, At, ExecInv, StageOK, Failing, CallType, Awaited, Targets, Legs
<1>1. /\ orders' = orders /\ id' = id /\ kind' = kind /\ got' = got /\ partial' = partial
      /\ alerted' = alerted /\ Update(id[pc.leg], "filled")
      /\ \/ pc.leg = "new" /\ outcome' = "filled" /\ pc' = [pc EXCEPT !.at = "returned"]
         \/ /\ pc.leg = "near" /\ outcome' = outcome
            /\ pc' = [at |-> "submit", leg |-> "new", attempt |-> 0]
  BY DEF RollFilled, Fills, Go, Return
<1>2. Whole(pc.leg)
  BY <1>0, SeenIsWhole
<1>3. /\ OrdersType' /\ Grown /\ NoneReversed /\ ManagerType' /\ MarksNone /\ IdsOK'
      /\ \A l \in Targets : Whole(l) => Whole(l)'
  <2>1. "filled" \in OrderStates /\ "filled" # "cancelled_partial"
    BY DEF OrderStates
  <2> QED BY <1>1, <2>1, UpdateStep
<1>4. CASE /\ pc.leg = "near" /\ outcome' = outcome
           /\ pc' = [at |-> "submit", leg |-> "new", attempt |-> 0]
  <2>1. CallType'
    BY <1>0, <1>1, <1>4 DEF ExecInv, CallType, Stages, Targets, Legs
  <2>2. StageOK' /\ PartialOK'
    BY <1>0, <1>1, <1>2, <1>3, <1>4 DEF ExecInv, StageOK, PartialOK, Awaited, Targets, Legs
  <2> QED BY <1>0, <1>1, <1>3, <1>4, <2>1, <2>2, ForwardStep
<1>5. CASE pc.leg = "new" /\ outcome' = "filled" /\ pc' = [pc EXCEPT !.at = "returned"]
  <2>1. \A leg \in Needed : Whole(leg)
    BY <1>0, <1>2, <1>5 DEF ExecInv, StageOK, Needed
  <2>2. got' \subseteq {"near", "far"} /\ kind # "close"
    BY <1>0, <1>1 DEF ExecInv, CallType
  <2> QED BY <1>0, <1>1, <1>3, <1>5, <2>1, <2>2, FilledStep
<1> QED BY <1>1, <1>4, <1>5

LEMMA CloseFilledStep ==
  ASSUME ExecInv, CloseFilled
  PROVE  ExecInv'
<1>0. /\ outcome = "none" /\ pc.at = "wait" /\ kind = "close"
      /\ pc.leg \in {"near", "far"} /\ id[pc.leg] # 0 /\ pc.leg \in Targets
      /\ SeenFilled(id[pc.leg]) /\ got \subseteq {"near", "far"}
      /\ pc \in [at : Stages, leg : Targets, attempt : Nat]
  BY DEF CloseFilled, Fills, At, ExecInv, StageOK, CallType, Awaited, Targets, Legs
<1>1. /\ orders' = orders /\ id' = id /\ kind' = kind /\ partial' = partial /\ alerted' = alerted
      /\ \/ /\ pc.leg = "near" /\ got' = {"near"} /\ outcome' = outcome /\ manager' = manager
            /\ pc' = [at |-> "wait", leg |-> "far", attempt |-> 0]
         \/ /\ pc.leg = "far" /\ "near" \in got /\ got' = got \cup {"far"} /\ outcome' = "filled"
            /\ pc' = [pc EXCEPT !.at = "returned"]
            /\ manager' = [manager EXCEPT ![id["near"]] = "filled", ![id["far"]] = "filled"]
         \/ /\ pc.leg = "far" /\ got' = {"far"} /\ outcome' = outcome /\ manager' = manager
            /\ pc' = [at |-> "undo", leg |-> "far", attempt |-> 0]
  BY DEF CloseFilled, Fills, Go, Return
<1>2. Whole(pc.leg)
  BY <1>0, SeenIsWhole
<1>3. CASE /\ pc.leg = "near" /\ got' = {"near"} /\ outcome' = outcome /\ manager' = manager
           /\ pc' = [at |-> "wait", leg |-> "far", attempt |-> 0]
  <2>1. /\ OrdersType' /\ Grown /\ NoneReversed /\ ManagerType' /\ MarksNone /\ IdsOK'
        /\ \A l \in Targets : Whole(l) => Whole(l)'
    BY <1>1, <1>3, StillStep
  <2>2. CallType'
    BY <1>0, <1>1, <1>3 DEF ExecInv, CallType, Stages, Targets, Legs
  <2>3. StageOK' /\ PartialOK'
    BY <1>0, <1>1, <1>2, <1>3, <2>1 DEF ExecInv, StageOK, PartialOK, Awaited, Targets, Legs
  <2>4. ~Failing
    BY <1>0, <1>3 DEF Failing
  <2> QED BY <1>0, <1>1, <1>3, <2>1, <2>2, <2>3, <2>4, ForwardStep
<1>4. CASE /\ pc.leg = "far" /\ "near" \in got /\ got' = got \cup {"far"} /\ outcome' = "filled"
           /\ pc' = [pc EXCEPT !.at = "returned"]
           /\ manager' = [manager EXCEPT ![id["near"]] = "filled", ![id["far"]] = "filled"]
  <2> DEFINE m == [manager EXCEPT ![id["near"]] = "filled"]
  <2>1. manager' = [m EXCEPT ![id["far"]] = "filled"]
    BY <1>4
  <2>2. "filled" \in OrderStates /\ manager \in Seq(OrderStates) /\ Len(manager) = Len(orders)
    BY DEF ExecInv, OrderStates, ManagerType
  <2>3. /\ m \in Seq(OrderStates) /\ Len(m) = Len(manager)
        /\ \A i \in DOMAIN manager : m[i] \in {manager[i], "filled"}
    BY <2>2, StateSet
  <2> HIDE DEF m
  <2>3a. /\ [m EXCEPT ![id["far"]] = "filled"] \in Seq(OrderStates)
         /\ Len([m EXCEPT ![id["far"]] = "filled"]) = Len(m)
         /\ \A i \in DOMAIN m : [m EXCEPT ![id["far"]] = "filled"][i] \in {m[i], "filled"}
    BY <2>2, <2>3, StateSet
  <2>4. /\ manager' \in Seq(OrderStates) /\ Len(manager') = Len(m)
        /\ \A i \in DOMAIN m : manager'[i] \in {m[i], "filled"}
    BY <2>1, <2>3a
  <2>5. DOMAIN manager' = DOMAIN manager /\ DOMAIN m = DOMAIN manager
    BY <2>2, <2>3, <2>4
  <2>6. ManagerType' /\ MarksNone
    BY <1>1, <2>2, <2>3, <2>4, <2>5 DEF ManagerType, MarksNone
  <2>7. Whole("near") /\ ~Failing
    BY <1>0, <1>4 DEF ExecInv, StageOK, Failing
  <2>8. \A leg \in Needed : Whole(leg)
    BY <1>0, <1>2, <1>4, <2>7 DEF Needed
  <2>9. got' \subseteq {"near", "far"}
    BY <1>0, <1>4
  <2> QED BY <1>0, <1>1, <1>4, <2>6, <2>7, <2>8, <2>9, FilledStep
<1>5. CASE /\ pc.leg = "far" /\ got' = {"far"} /\ outcome' = outcome /\ manager' = manager
           /\ pc' = [at |-> "undo", leg |-> "far", attempt |-> 0]
  <2>1. /\ OrdersType' /\ Grown /\ NoneReversed /\ ManagerType' /\ MarksNone /\ IdsOK'
        /\ \A l \in Targets : Whole(l) => Whole(l)'
    BY <1>1, <1>5, StillStep
  <2>2. CallType'
    BY <1>0, <1>1, <1>5 DEF ExecInv, CallType, Stages, Targets, Legs
  <2>3. StageOK' /\ PartialOK'
    BY <1>0, <1>1, <1>5, <2>1 DEF ExecInv, StageOK, PartialOK, Awaited, Targets, Legs
  <2>4. Failing'
    BY <1>5 DEF Failing
  <2> QED BY <1>0, <1>1, <1>5, <2>1, <2>2, <2>3, <2>4, ForwardStep
<1> QED BY <1>1, <1>3, <1>4, <1>5

LEMMA WaitEnds ==
  ASSUME ExecInv, WaitGivesUp \/ WaitLost
  PROVE  ExecInv'
<1>0. /\ outcome = "none" /\ pc.at = "wait" /\ id[pc.leg] # 0 /\ pc.leg \in Targets
      /\ pc \in [at : Stages, leg : Targets, attempt : Nat]
  BY DEF WaitGivesUp, WaitLost, At, ExecInv, StageOK, CallType, Awaited
<1>1. /\ orders' = orders /\ id' = id /\ kind' = kind /\ got' = got /\ partial' \in Nat
      /\ alerted' = alerted
      /\ \/ /\ manager' = manager /\ outcome' = outcome /\ partial' = 0
            /\ pc' = [at |-> "cancel", leg |-> pc.leg, attempt |-> 0]
         \/ /\ pc.leg = "combo" /\ manager' = manager /\ outcome' = outcome
            /\ pc' = [at |-> "drop", leg |-> "combo", attempt |-> 0]
         \/ /\ pc.leg = "combo" /\ Update(id[pc.leg], "cancelled") /\ outcome' = outcome
            /\ pc' = [at |-> "submit", leg |-> "near", attempt |-> 0]
         \/ manager' = manager /\ outcome' = "failed" /\ pc' = [pc EXCEPT !.at = "returned"]
  BY DEF WaitGivesUp, WaitLost, Go, Return, ExecInv, CallType
<1>2. manager' = manager \/ Update(id[pc.leg], "cancelled")
  BY <1>1
<1>3. /\ OrdersType' /\ Grown /\ NoneReversed /\ ManagerType' /\ MarksNone /\ IdsOK'
      /\ \A l \in Targets : Whole(l) => Whole(l)'
  <2>1. "cancelled" \in OrderStates /\ "cancelled" # "cancelled_partial"
    BY DEF OrderStates
  <2> QED BY <1>1, <1>2, <2>1, UpdateStep, StillStep
<1>4. CASE /\ outcome' = outcome /\ partial' = 0
           /\ pc' = [at |-> "cancel", leg |-> pc.leg, attempt |-> 0]
  <2>1. CallType'
    BY <1>0, <1>1, <1>4 DEF ExecInv, CallType, Stages
  <2>2. StageOK' /\ PartialOK'
    BY <1>0, <1>1, <1>3, <1>4 DEF ExecInv, StageOK, PartialOK, Awaited, Targets, Legs
  <2>3. Failing => Failing'
    BY <1>0, <1>1, <1>4 DEF Failing, Awaited
  <2> QED BY <1>0, <1>1, <1>3, <1>4, <2>1, <2>2, <2>3, ForwardStep
<1>5. CASE /\ pc.leg = "combo" /\ outcome' = outcome
           /\ pc' = [at |-> "drop", leg |-> "combo", attempt |-> 0]
  <2>1. CallType'
    BY <1>0, <1>1, <1>5 DEF ExecInv, CallType, Stages, Targets, Legs
  <2>2. StageOK' /\ PartialOK'
    BY <1>0, <1>1, <1>3, <1>5 DEF ExecInv, StageOK, PartialOK, Awaited, Targets, Legs
  <2>3. ~Failing
    BY <1>0, <1>5 DEF Failing
  <2> QED BY <1>0, <1>1, <1>3, <1>5, <2>1, <2>2, <2>3, ForwardStep
<1>6. CASE /\ pc.leg = "combo" /\ outcome' = outcome
           /\ pc' = [at |-> "submit", leg |-> "near", attempt |-> 0]
  <2>1. CallType'
    BY <1>0, <1>1, <1>6 DEF ExecInv, CallType, Stages, Targets, Legs
  <2>2. StageOK' /\ PartialOK'
    BY <1>0, <1>1, <1>3, <1>6 DEF ExecInv, StageOK, PartialOK, Awaited, Targets, Legs
  <2>3. ~Failing
    BY <1>0, <1>6 DEF Failing
  <2> QED BY <1>0, <1>1, <1>3, <1>6, <2>1, <2>2, <2>3, ForwardStep
<1>7. CASE outcome' = "failed" /\ pc' = [pc EXCEPT !.at = "returned"]
  <2>1. PartialIsReversedOrTold'
    BY <1>1, <1>3, PartialKept
  <2> QED BY <1>0, <1>1, <1>3, <1>7, <2>1, FailStep
<1> QED BY <1>1, <1>4, <1>5, <1>6, <1>7

-----------------------------------------------------------------------------
(* Cancelling and reversing.                                               *)

LEMMA CancelStep ==
  ASSUME ExecInv, NEW i \in DOMAIN orders, orders' \in {orders, Cancelled(i)}
  PROVE  OrdersType' /\ Grown /\ NoneReversed /\ Len(orders') = Len(orders)
<1>1. CASE orders' = orders
  BY <1>1, SameOrders DEF ExecInv
<1>2. CASE orders[i].status = "open" /\ orders' = [orders EXCEPT ![i].status = "cancelled"]
  <2>0. OrdersType /\ orders[i] \in OrderType /\ orders[i].filled \in Nat /\ orders[i].amount \in Nat
    BY OrderTyped DEF ExecInv
  <2> DEFINE f == orders[i].filled
             s == "cancelled"
  <2>1. orders' = [orders EXCEPT ![i] = [orders[i] EXCEPT !.filled = f, !.status = s]]
    BY <2>0, <1>2 DEF OrderType
  <2>2. f \in Nat /\ f >= orders[i].filled /\ f <= orders[i].amount
        /\ s \in {"open", "filled", "cancelled"} /\ (s = "filled" <=> f = orders[i].amount)
    BY <2>0, <1>2 DEF OrdersType
  <2> HIDE DEF f, s
  <2> QED BY <2>0, <2>1, <2>2, ChangesOne
<1> QED BY <1>1, <1>2 DEF Cancelled

LEMMA DropStep ==
  ASSUME ExecInv, Drop
  PROVE  ExecInv'
<1>0. /\ outcome = "none" /\ pc.at = "drop" /\ id[pc.leg] # 0 /\ pc.leg \in Targets
      /\ pc \in [at : Stages, leg : Targets, attempt : Nat] /\ ~Failing
      /\ id[pc.leg] \in DOMAIN orders
  BY DEF Drop, At, ExecInv, StageOK, CallType, Awaited, Failing, IdsOK, Own
<1>1. /\ orders' \in {orders, Cancelled(id[pc.leg])}
      /\ id' = id /\ kind' = kind /\ got' = got /\ partial' = partial /\ alerted' = alerted
      /\ \/ /\ pc.leg = "combo" /\ manager' = [manager EXCEPT ![id[pc.leg]] = "cancelled"]
            /\ outcome' = outcome
            /\ pc' = [at |-> "submit", leg |-> "near", attempt |-> 0]
         \/ manager' = manager /\ outcome' = "failed" /\ pc' = [pc EXCEPT !.at = "returned"]
  BY DEF Drop, Go, Return, Update
<1>2. OrdersType' /\ Grown /\ NoneReversed /\ Len(orders') = Len(orders)
  BY <1>0, <1>1, CancelStep
<1>3. ManagerType' /\ MarksNone
  <2>1. "cancelled" \in OrderStates /\ "cancelled" # "cancelled_partial" /\ ManagerType
    BY DEF OrderStates, ExecInv
  <2> QED BY <1>1, <1>2, <2>1, ManagerSets, ManagerSame
<1>4. IdsOK' /\ \A l \in Targets : Whole(l) => Whole(l)'
  BY <1>1, <1>2, IdsKept DEF ExecInv
<1>5. CASE pc.leg = "combo" /\ outcome' = outcome
           /\ pc' = [at |-> "submit", leg |-> "near", attempt |-> 0]
  <2>1. CallType'
    BY <1>0, <1>1, <1>5 DEF ExecInv, CallType, Stages, Targets, Legs
  <2>2. StageOK' /\ PartialOK'
    BY <1>0, <1>1, <1>4, <1>5 DEF ExecInv, StageOK, PartialOK, Awaited, Targets, Legs
  <2> QED BY <1>0, <1>1, <1>2, <1>3, <1>4, <1>5, <2>1, <2>2, ForwardStep
<1>6. CASE outcome' = "failed" /\ pc' = [pc EXCEPT !.at = "returned"]
  <2>1. PartialIsReversedOrTold'
    BY <1>1, <1>2, <1>3, PartialKept
  <2> QED BY <1>0, <1>1, <1>2, <1>3, <1>4, <1>6, <2>1, FailStep DEF ExecInv, CallType
<1> QED BY <1>1, <1>5, <1>6

LEMMA CancelOrderStep ==
  ASSUME ExecInv, CancelOrder
  PROVE  ExecInv'
<1>0. /\ outcome = "none" /\ pc.at = "cancel" /\ id[pc.leg] # 0 /\ pc.leg \in Targets
      /\ pc \in [at : Stages, leg : Targets, attempt : Nat] /\ partial = 0
      /\ id[pc.leg] \in DOMAIN orders
  BY DEF CancelOrder, At, ExecInv, StageOK, PartialOK, CallType, Awaited, IdsOK, Own
<1>1. /\ orders' \in {orders, Cancelled(id[pc.leg])}
      /\ id' = id /\ kind' = kind /\ got' = got /\ alerted' = alerted /\ manager' = manager
      /\ outcome' = outcome /\ partial' \in {partial, orders[id[pc.leg]].filled}
      /\ pc' = [at |-> IF partial' > 0 THEN "flatten" ELSE "query",
                leg |-> pc.leg, attempt |-> 0]
  BY DEF CancelOrder, Go, FilledAmount
<1>2. OrdersType' /\ Grown /\ NoneReversed /\ Len(orders') = Len(orders)
  BY <1>0, <1>1, CancelStep
<1>3. ManagerType' /\ MarksNone
  BY <1>1, <1>2, ManagerSame DEF ExecInv
<1>4. IdsOK' /\ \A l \in Targets : Whole(l) => Whole(l)'
  BY <1>1, <1>2, IdsKept DEF ExecInv
<1>5. orders[id[pc.leg]].filled \in Nat
  BY <1>0, OrderTyped DEF ExecInv
<1>6. CallType'
  BY <1>0, <1>1, <1>5 DEF ExecInv, CallType, Stages
<1>7. StageOK'
  BY <1>0, <1>1, <1>4 DEF ExecInv, StageOK, Awaited, Targets, Legs
<1>8. PartialOK'
  BY <1>0, <1>1, <1>2, <1>5 DEF PartialOK, Grown
<1>9. Failing => Failing'
  BY <1>0, <1>1 DEF Failing, Awaited
<1> QED BY <1>0, <1>1, <1>2, <1>3, <1>4, <1>6, <1>7, <1>8, <1>9, ForwardStep

\* After _cancel_and_flatten the call has failed, or is about to.
LEMMA AfterStep ==
  ASSUME ExecInv, pc.at \in {"query", "flatten"}, AfterFlatten(pc.leg),
         OrdersType', ManagerType', IdsOK', \A l \in Targets : Whole(l) => Whole(l)',
         id' = id, kind' = kind, got' = got, partial' \in Nat, PartialIsReversedOrTold'
  PROVE  ExecInv'
<1>0. outcome = "none"
  BY DEF ExecInv, StageOK, Awaited
<1>1. \/ outcome' = "failed" /\ pc' = [pc EXCEPT !.at = "returned"]
      \/ /\ outcome' = outcome /\ kind \in {"enter", "close"}
         /\ pc' = [at |-> "undo", leg |-> "near", attempt |-> 0]
      \/ /\ outcome' = outcome /\ kind = "close" /\ pc.leg = "near"
         /\ pc' = [at |-> "wait", leg |-> "far", attempt |-> 0]
  BY DEF AfterFlatten, EnterAfterFlatten, CloseAfterFlatten, RollAfterFlatten, Go, Return
<1>2. CASE outcome' = "failed" /\ pc' = [pc EXCEPT !.at = "returned"]
  BY <1>0, <1>2, FailStep
<1>3. CASE /\ outcome' = outcome /\ kind \in {"enter", "close"}
           /\ pc' = [at |-> "undo", leg |-> "near", attempt |-> 0]
  <2>1. CallType'
    BY <1>3 DEF ExecInv, CallType, Stages, Targets, Legs
  <2>2. StageOK' /\ PartialOK'
    BY <1>0, <1>3 DEF ExecInv, StageOK, PartialOK, Awaited, Targets, Legs
  <2>3. ReversedFails' /\ FilledIsWhole'
    BY <1>0, <1>3 DEF ReversedFails, Failing, FilledIsWhole
  <2> QED BY <2>1, <2>2, <2>3 DEF ExecInv
<1>4. CASE /\ outcome' = outcome /\ kind = "close" /\ pc.leg = "near"
           /\ pc' = [at |-> "wait", leg |-> "far", attempt |-> 0]
  <2>0. "near" \notin got
    BY <1>4 DEF ExecInv, StageOK, Awaited
  <2>1. CallType'
    BY <1>4 DEF ExecInv, CallType, Stages, Targets, Legs
  <2>2. StageOK' /\ PartialOK'
    BY <1>0, <1>4, <2>0 DEF ExecInv, StageOK, PartialOK, Awaited, Targets, Legs
  <2>3. ReversedFails' /\ FilledIsWhole'
    BY <1>0, <1>4, <2>0 DEF ReversedFails, Failing, FilledIsWhole, Awaited
  <2> QED BY <2>1, <2>2, <2>3 DEF ExecInv
<1> QED BY <1>1, <1>2, <1>3, <1>4

LEMMA QueryStep ==
  ASSUME ExecInv, QueryFilled
  PROVE  ExecInv'
<1>0. /\ outcome = "none" /\ pc.at = "query" /\ id[pc.leg] # 0 /\ pc.leg \in Targets
      /\ pc \in [at : Stages, leg : Targets, attempt : Nat]
      /\ id[pc.leg] \in DOMAIN orders
  BY DEF QueryFilled, At, ExecInv, StageOK, CallType, Awaited, IdsOK, Own
<1>1. orders[id[pc.leg]].filled \in Nat
  BY <1>0, OrderTyped DEF ExecInv
<1>2. /\ orders' = orders /\ id' = id /\ kind' = kind /\ got' = got /\ alerted' = alerted
      /\ partial' \in {0, orders[id[pc.leg]].filled}
      /\ \/ /\ partial' > 0 /\ manager' = manager /\ outcome' = outcome
            /\ pc' = [at |-> "flatten", leg |-> pc.leg, attempt |-> 0]
         \/ Update(id[pc.leg], "cancelled") /\ AfterFlatten(pc.leg)
  BY DEF QueryFilled, Go, FilledAmount
<1>3. /\ OrdersType' /\ Grown /\ NoneReversed /\ ManagerType' /\ MarksNone /\ IdsOK'
      /\ \A l \in Targets : Whole(l) => Whole(l)'
  <2>1. "cancelled" \in OrderStates /\ "cancelled" # "cancelled_partial"
    BY DEF OrderStates
  <2> QED BY <1>2, <2>1, UpdateStep, StillStep
<1>4. CASE /\ partial' > 0 /\ outcome' = outcome
           /\ pc' = [at |-> "flatten", leg |-> pc.leg, attempt |-> 0]
  <2>1. CallType'
    BY <1>0, <1>1, <1>2, <1>4 DEF ExecInv, CallType, Stages
  <2>2. StageOK'
    BY <1>0, <1>2, <1>3, <1>4 DEF ExecInv, StageOK, Awaited, Targets, Legs
  <2>3. PartialOK'
    BY <1>1, <1>2, <1>4 DEF PartialOK
  <2>4. Failing => Failing'
    BY <1>0, <1>2, <1>4 DEF Failing, Awaited
  <2> QED BY <1>0, <1>2, <1>3, <1>4, <2>1, <2>2, <2>3, <2>4, ForwardStep
<1>5. CASE AfterFlatten(pc.leg)
  <2>1. PartialIsReversedOrTold'
    BY <1>2, <1>3, PartialKept
  <2>2. partial' \in Nat
    BY <1>1, <1>2
  <2> QED BY <1>0, <1>2, <1>3, <1>5, <2>1, <2>2, AfterStep
<1> QED BY <1>2, <1>4, <1>5

\* A reversing order that is sent, or is not.
LEMMA SentStep ==
  ASSUME ExecInv, NEW leg \in Targets, NEW amount \in Nat \ {0},
         NEW known \in Seq(OrderStates), Len(known) = Len(orders),
         BookReverse(leg, amount, known) \/ SendFails(leg, amount, known),
         id' = id, kind' = kind
  PROVE  /\ OrdersType' /\ Grown /\ ManagerType' /\ IdsOK'
         /\ \A l \in Targets : Whole(l) => Whole(l)'
         /\ manager' \in {known, Append(known, "unknown")}
<1>1. CASE BookReverse(leg, amount, known)
  BY <1>1, ReverseStep
<1>2. CASE manager' = known /\ orders' = orders
  <2>1. OrdersType' /\ Grown
    BY <1>2, SameOrders DEF ExecInv
  <2>2. IdsOK' /\ \A l \in Targets : Whole(l) => Whole(l)'
    BY <2>1, IdsKept DEF ExecInv
  <2> QED BY <1>2, <2>1, <2>2 DEF ManagerType
<1> QED BY <1>1, <1>2 DEF SendFails

LEMMA FlattenStep ==
  ASSUME ExecInv, Flatten
  PROVE  ExecInv'
<1> DEFINE known == [manager EXCEPT ![id[pc.leg]] = "cancelled_partial"]
<1>0. /\ pc.at = "flatten" /\ id[pc.leg] # 0 /\ pc.leg \in Targets /\ Own(pc.leg)
      /\ partial \in Nat \ {0} /\ partial <= orders[id[pc.leg]].filled
      /\ id[pc.leg] \in DOMAIN orders
  BY DEF Flatten, At, ExecInv, StageOK, PartialOK, CallType, Awaited, IdsOK, Own
<1>1. /\ \/ BookReverse(pc.leg, partial, known) /\ alerted' = alerted
         \/ SendFails(pc.leg, partial, known) /\ alerted' = TRUE
      /\ AfterFlatten(pc.leg)
      /\ id' = id /\ kind' = kind /\ got' = got /\ partial' = partial
  BY DEF Flatten, FlattenAmount
<1>2. /\ known \in Seq(OrderStates) /\ Len(known) = Len(orders)
      /\ DOMAIN known = DOMAIN manager
      /\ \A i \in DOMAIN manager : i # id[pc.leg] => known[i] = manager[i]
  <2>1. "cancelled_partial" \in OrderStates /\ manager \in Seq(OrderStates)
        /\ Len(manager) = Len(orders)
    BY DEF OrderStates, ExecInv, ManagerType
  <2>2. known \in Seq(OrderStates) /\ Len(known) = Len(manager) /\ DOMAIN known = DOMAIN manager
    BY <2>1, StateSet
  <2>3. \A i \in DOMAIN manager : i # id[pc.leg] => known[i] = manager[i]
    OBVIOUS
  <2> QED BY <2>1, <2>2, <2>3
<1> HIDE DEF known
<1>3. /\ OrdersType' /\ Grown /\ ManagerType' /\ IdsOK'
      /\ \A l \in Targets : Whole(l) => Whole(l)'
  BY <1>0, <1>1, <1>2, SentStep
<1>4. PartialIsReversedOrTold'
  <2>1. CASE alerted' = TRUE
    BY <2>1 DEF PartialIsReversedOrTold
  <2>2. CASE BookReverse(pc.leg, partial, known) /\ alerted' = alerted
    <3> SUFFICES ASSUME NEW i \in DOMAIN manager', manager'[i] = "cancelled_partial", ~alerted
                 PROVE  \E j \in DOMAIN orders' :
                            /\ orders'[j].undoes = i
                            /\ orders'[j].amount <= orders'[i].filled
                            /\ orders'[j].direction = -orders'[i].direction
      BY <2>2 DEF PartialIsReversedOrTold
    <3>1. /\ manager' = Append(known, "unknown")
          /\ \E j \in DOMAIN orders' :
               /\ orders'[j].undoes = id[pc.leg] /\ orders'[j].amount = partial
               /\ orders'[j].direction = -Direction(kind, pc.leg)
      BY <1>0, <1>1, <1>2, <2>2, ReverseStep
    <3>2. i \in DOMAIN known /\ known[i] = "cancelled_partial"
      BY <1>2, <3>1
    <3>3. CASE i = id[pc.leg]
      <4>1. PICK j \in DOMAIN orders' :
               /\ orders'[j].undoes = id[pc.leg] /\ orders'[j].amount = partial
               /\ orders'[j].direction = -Direction(kind, pc.leg)
        BY <3>1
      <4>2. orders'[i].direction = Direction(kind, pc.leg) /\ orders[i].filled <= orders'[i].filled
            /\ i \in DOMAIN orders'
        BY <1>0, <1>3, <3>3 DEF Own, Grown
      <4>3. orders[i].filled \in Nat /\ orders'[i].filled \in Nat
        BY <1>0, <1>3, <3>3, <4>2, OrderTyped, Typed DEF ExecInv, OrdersType
      <4>4. orders'[j].amount <= orders'[i].filled
        BY <1>0, <3>3, <4>1, <4>2, <4>3
      <4> QED BY <3>3, <4>1, <4>2, <4>4
    <3>4. CASE i # id[pc.leg]
      <4>1. i \in DOMAIN manager /\ manager[i] = "cancelled_partial"
        BY <1>2, <3>2, <3>4
      <4> QED BY <1>3, <4>1, ReversalKept
    <3> QED BY <3>3, <3>4
  <2> QED BY <1>1, <2>1, <2>2
<1>5. partial' \in Nat
  BY <1>0, <1>1
<1> QED BY <1>0, <1>1, <1>3, <1>4, <1>5, AfterStep

LEMMA UndoStep ==
  ASSUME ExecInv, Undo
  PROVE  ExecInv'
<1>0. /\ pc.at = "undo" /\ pc.leg \in Targets /\ Qty \in Nat \ {0} /\ partial \in Nat
      /\ manager \in Seq(OrderStates) /\ Len(manager) = Len(orders)
  BY ExecutorAssumption DEF Undo, At, ExecInv, CallType, ManagerType
<1>1. /\ BookReverse(pc.leg, Qty, manager) \/ SendFails(pc.leg, Qty, manager)
      /\ outcome' \in {"failed", "legrisk"} /\ pc' = [pc EXCEPT !.at = "returned"]
      /\ id' = id /\ kind' = kind /\ got' = got /\ partial' = partial /\ alerted' = alerted
  BY DEF Undo, Return
<1>2. /\ OrdersType' /\ Grown /\ ManagerType' /\ IdsOK'
      /\ \A l \in Targets : Whole(l) => Whole(l)'
      /\ manager' \in {manager, Append(manager, "unknown")}
  BY <1>0, <1>1, SentStep
<1>3. MarksNone
  BY <1>0, <1>2 DEF MarksNone
<1>4. PartialIsReversedOrTold'
  BY <1>1, <1>2, <1>3, PartialKept
<1> QED BY <1>0, <1>1, <1>2, <1>4, FailStep

-----------------------------------------------------------------------------
(* The theorems.                                                           *)

LEMMA InvStep == ExecInv /\ [Next]_vars => ExecInv'
<1> SUFFICES ASSUME ExecInv, [Next]_vars PROVE ExecInv'
  OBVIOUS
<1>1. CASE Executor
  BY <1>1, SubmitSteps, SubmitLostStep, EnterFilledStep, CloseFilledStep, RollFilledStep,
     WaitEnds, DropStep, CancelOrderStep, QueryStep, FlattenStep, UndoStep DEF Executor
<1>2. CASE Exchange
  BY <1>2, ExchangeStep DEF Exchange
<1>3. CASE UNCHANGED vars
  <2>1. UNCHANGED call /\ orders' = orders
    BY <1>3 DEF vars, call
  <2>2. OrdersType' /\ Grown /\ NoneReversed /\ Len(orders') = Len(orders)
    BY <2>1, SameOrders DEF ExecInv
  <2> QED BY <2>1, <2>2, QuietStep
<1> QED BY <1>1, <1>2, <1>3 DEF Next

\* The executor's place in a call and the orders on the exchange agree, whatever fails.
LEMMA ExecInvHolds == Spec => []ExecInv
BY InvInit, InvStep, PTL DEF Spec

\* enter_spread, close_spread and roll_near_leg report success only for a whole spread of
\* orders they know, with nothing reversed, for every quantity, retry limit and set of faults.
THEOREM FilledHolds == Spec => []FilledIsWhole
<1>1. ExecInv => FilledIsWhole
  BY DEF ExecInv
<1> QED BY <1>1, ExecInvHolds, PTL

\* What _cancel_and_flatten has seen filled of an order is reversed for no more than that, in
\* the other direction, or the operator is told, for every quantity and set of faults.
THEOREM ReversalHolds == Spec => []PartialIsReversedOrTold
<1>1. ExecInv => PartialIsReversedOrTold
  BY DEF ExecInv
<1> QED BY <1>1, ExecInvHolds, PTL

-----------------------------------------------------------------------------
(* What is held, against what the orders have filled.                      *)

Involved == CASE kind = "enter" -> {"combo", "near", "far"}
              [] kind = "close" -> {"near", "far"}
              [] kind = "roll"  -> {"near", "new"}

\* Orders that trade a leg, and orders that trade it back.
Ahead(i, leg) == orders[i].undoes = 0 /\ orders[i].leg = leg
Back(i, leg) == orders[i].undoes # 0 /\ orders[i].leg = leg

\* What an order is for.
Lawful(i) ==
    /\ orders[i].leg \in Involved
    /\ orders[i].undoes = 0 =>
          /\ orders[i].amount = Qty
          /\ orders[i].direction = Direction(kind, orders[i].leg)
    /\ orders[i].undoes # 0 =>
          /\ orders[i].leg # "combo"
          /\ orders[i].undoes = id[orders[i].leg]
          /\ orders[i].direction = -Direction(kind, orders[i].leg)
          /\ orders[i].amount <= orders[orders[i].undoes].filled

\* A leg is traded back once, and traded once but in an entry, which tries again.
OrdersLaw ==
    /\ \A i \in DOMAIN orders : Lawful(i)
    /\ \A leg \in Targets : id[leg] # 0 => orders[id[leg]].leg = leg
    /\ \A leg \in Legs : \A i, j \in DOMAIN orders : Back(i, leg) /\ Back(j, leg) => i = j
    /\ kind # "enter" =>
          \A leg \in Legs : \A i, j \in DOMAIN orders : Ahead(i, leg) /\ Ahead(j, leg) => i = j

\* What the call has traded of a leg, in the direction it means to.
Net(leg) == IF Direction(kind, leg) = 1 THEN held[leg] - Before(kind)[leg]
            ELSE Before(kind)[leg] - held[leg]

Known(leg) == IF id[leg] = 0 THEN 0 ELSE orders[id[leg]].filled

\* At least what the known order has filled, less what was traded back.
AtLeast(leg) ==
    /\ (\A i \in DOMAIN orders : ~Back(i, leg)) => Net(leg) >= Known(leg)
    /\ \A i \in DOMAIN orders : Back(i, leg) => Net(leg) >= Known(leg) - orders[i].filled

\* At most what the one order of a close or roll has filled.
AtMost(leg) ==
    /\ (\A i \in DOMAIN orders : ~Ahead(i, leg)) => Net(leg) <= 0
    /\ \A i \in DOMAIN orders : Ahead(i, leg) => Net(leg) <= orders[i].filled

HeldLaw ==
    /\ held \in [Legs -> Int]
    /\ \A leg \in Legs :
          /\ leg \in Involved => AtLeast(leg)
          /\ leg \in Involved /\ kind # "enter" => AtMost(leg)
          /\ leg \notin Involved => held[leg] = Before(kind)[leg]

\* Where a call may be that has traded a leg back.
Past(leg) ==
    \/ pc.at = "returned"
    \/ pc.at = "undo" /\ leg # pc.leg
    \/ /\ kind = "close" /\ leg = "near" /\ pc.leg = "far"
       /\ pc.at \in Awaited /\ "near" \notin got

\* Where a close or a roll may be that has sent the order for a leg.
Sent(leg) ==
    /\ pc.at = "submit" => pc.leg # leg /\ (kind = "close" => leg = "near")
    /\ leg = "new" => pc.leg = "new"

\* The legs traded back, and those sent.
BackLegs == {leg \in Legs : \E i \in DOMAIN orders : Back(i, leg)}
SentLegs == {leg \in Legs : \E i \in DOMAIN orders : Ahead(i, leg)}

PlaceLaw ==
    /\ \A leg \in BackLegs : Past(leg)
    /\ kind # "enter" => \A leg \in SentLegs : Sent(leg)
    /\ pc.at \in {"cancel", "query", "flatten", "undo"} => pc.leg # "combo"
    /\ pc.at = "undo" => Whole(pc.leg)
    /\ kind = "enter" /\ pc.leg = "far" => Whole("near")

SideInv == OrdersLaw /\ HeldLaw /\ PlaceLaw

LEMMA SideInit == Init => SideInv
<1> SUFFICES ASSUME Init PROVE SideInv
  OBVIOUS
<1>1. /\ kind \in {"enter", "close", "roll"} /\ orders = <<>> /\ held = Before(kind)
      /\ id = [leg \in Targets |-> 0] /\ DOMAIN orders = {}
      /\ pc = [at |-> "submit", leg |-> FirstLeg(kind), attempt |-> 0]
  BY ExecutorAssumption DEF Init
<1>2. held \in [Legs -> Int] /\ Qty \in Nat
  BY <1>1, ExecutorAssumption DEF Before, Flat, Spread, Legs
<1>3. OrdersLaw
  BY <1>1 DEF OrdersLaw, Lawful
<1>4. HeldLaw
  BY <1>1, <1>2 DEF HeldLaw, AtLeast, AtMost, Net, Known, Targets
<1>5. PlaceLaw
  BY <1>1 DEF PlaceLaw, BackLegs, SentLegs, FirstLeg
<1> QED BY <1>3, <1>4, <1>5 DEF SideInv

\* A leg is Qty short, Qty long or not held before a call.
LEMMA BeforeType == Before(kind) \in [Legs -> Int] /\ Qty \in Nat
BY ExecutorAssumption DEF Before, Flat, Spread, Legs

LEMMA NetType ==
  ASSUME held \in [Legs -> Int], NEW leg \in Legs
  PROVE  Net(leg) \in Int
BY BeforeType DEF Net

\* What q contracts of an order for one leg do to the position.
LEMMA MovedByLeg ==
  ASSUME held \in [Legs -> Int], kind' = kind, NEW o \in OrderType, NEW q \in Nat,
         held' = Moved(held, o, q), o.leg # "combo"
  PROVE  /\ held' \in [Legs -> Int]
         /\ \A leg \in Legs :
              /\ o.leg # leg => held'[leg] = held[leg] /\ Net(leg)' = Net(leg)
              /\ o.leg = leg /\ o.direction = Direction(kind, leg) => Net(leg)' = Net(leg) + q
              /\ o.leg = leg /\ o.direction = -Direction(kind, leg) => Net(leg)' = Net(leg) - q
<1>1. ASSUME NEW leg \in Legs
      PROVE  held'[leg] = held[leg] + (IF o.leg = leg THEN o.direction * q ELSE 0)
  BY <1>1 DEF Moved
<1>2. o.direction \in {1, -1} /\ o.direction * q \in Int
  BY DEF OrderType
<1>2a. o.direction = 1 => o.direction * q = q
  BY <1>2
<1>2b. o.direction = -1 => o.direction * q = -q
  BY <1>2
<1>3. held' \in [Legs -> Int]
  <2>1. held' = [leg \in Legs |-> held'[leg]]
    BY DEF Moved
  <2>2. \A leg \in Legs : held'[leg] \in Int
    BY <1>1, <1>2
  <2> QED BY <2>1, <2>2
<1>4. ASSUME NEW leg \in Legs, o.leg # leg
      PROVE  held'[leg] = held[leg] /\ Net(leg)' = Net(leg)
  <2>1. held'[leg] = held[leg]
    BY <1>1, <1>4
  <2> QED BY <2>1 DEF Net, Before
<1>5. ASSUME NEW leg \in Legs, o.leg = leg, o.direction = Direction(kind, leg)
      PROVE  Net(leg)' = Net(leg) + q
  <2>1. held'[leg] = held[leg] + o.direction * q
    BY <1>1, <1>5
  <2>2. Before(kind)[leg] \in Int /\ held[leg] \in Int
    BY BeforeType
  <2> QED BY <1>2, <1>2a, <1>2b, <1>5, <2>1, <2>2 DEF Net
<1>6. ASSUME NEW leg \in Legs, o.leg = leg, o.direction = -Direction(kind, leg)
      PROVE  Net(leg)' = Net(leg) - q
  <2>1. held'[leg] = held[leg] + o.direction * q
    BY <1>1, <1>6
  <2>2. Before(kind)[leg] \in Int /\ held[leg] \in Int
    BY BeforeType
  <2>3. Direction(kind, leg) = 1 \/ Direction(kind, leg) = -1
    BY DEF Direction
  <2> QED BY <1>2, <1>2a, <1>2b, <1>6, <2>1, <2>2, <2>3 DEF Net
<1> QED BY <1>3, <1>4, <1>5, <1>6

\* A combo trades both legs of an entry.
LEMMA MovedByCombo ==
  ASSUME held \in [Legs -> Int], kind' = kind, kind = "enter", NEW o, NEW q \in Nat,
         held' = Moved(held, o, q), o.leg = "combo"
  PROVE  /\ held' \in [Legs -> Int] /\ held'["new"] = held["new"]
         /\ Net("near")' = Net("near") + q /\ Net("far")' = Net("far") + q
<1>1. /\ held' = [leg \in Legs |-> held'[leg]]
      /\ held'["near"] = held["near"] - q /\ held'["far"] = held["far"] + q
      /\ held'["new"] = held["new"]
  BY DEF Moved, Legs
<1>2. /\ held["near"] \in Int /\ held["far"] \in Int /\ held["new"] \in Int
      /\ Before(kind)["near"] \in Int /\ Before(kind)["far"] \in Int
  BY BeforeType DEF Legs
<1>3. held' \in [Legs -> Int]
  <2>1. \A leg \in Legs : held'[leg] \in Int
    BY <1>1, <1>2 DEF Legs
  <2> QED BY <1>1, <2>1
<1>4. Direction(kind, "near") = -1 /\ Direction(kind, "far") = 1
  BY DEF Direction
<1> QED BY <1>1, <1>2, <1>3, <1>4 DEF Net

\* The known order of a leg is one for that leg.
LEMMA KnownType ==
  ASSUME ExecInv, OrdersLaw, NEW leg \in Targets
  PROVE  /\ Known(leg) \in Nat
         /\ id[leg] # 0 => id[leg] \in DOMAIN orders /\ Ahead(id[leg], leg)
<1>1. CASE id[leg] = 0
  BY <1>1 DEF Known
<1>2. CASE id[leg] # 0
  <2>1. Own(leg)
    BY <1>2 DEF ExecInv, IdsOK
  <2>2. id[leg] \in DOMAIN orders /\ orders[id[leg]].filled \in Nat
    BY <2>1, OrderTyped DEF Own, ExecInv
  <2> QED BY <1>2, <2>1, <2>2 DEF Known, OrdersLaw, Own, Ahead
<1> QED BY <1>1, <1>2

-----------------------------------------------------------------------------
(* The orders stay, and have filled no more.                               *)

Alike ==
    /\ DOMAIN orders' = DOMAIN orders
    /\ \A i \in DOMAIN orders :
          /\ orders'[i].leg = orders[i].leg
          /\ orders'[i].amount = orders[i].amount
          /\ orders'[i].direction = orders[i].direction
          /\ orders'[i].undoes = orders[i].undoes

SameLegs == BackLegs' = BackLegs /\ SentLegs' = SentLegs

LEMMA AlikeLegs == ASSUME Alike PROVE SameLegs
BY DEF Alike, SameLegs, BackLegs, SentLegs, Back, Ahead

LEMMA AlikeLaw ==
  ASSUME ExecInv, OrdersLaw, Alike, id' = id, kind' = kind,
         \A i \in DOMAIN orders : orders[i].filled <= orders'[i].filled /\ orders'[i].filled \in Nat
  PROVE  OrdersLaw'
<1>1. ASSUME NEW i \in DOMAIN orders' PROVE Lawful(i)'
  <2>1. i \in DOMAIN orders /\ Lawful(i)
    BY <1>1 DEF Alike, OrdersLaw
  <2>2. Involved' = Involved
    BY DEF Involved
  <2>3. ASSUME orders[i].undoes # 0 PROVE orders[i].amount <= orders'[orders[i].undoes].filled
    <3>1. orders[i].leg \in Targets /\ orders[i].undoes = id[orders[i].leg]
          /\ orders[i].amount <= orders[orders[i].undoes].filled
      BY <2>1, <2>3, OrderTyped DEF Lawful, ExecInv, OrderType
    <3>2. orders[i].undoes \in DOMAIN orders
      BY <2>3, <3>1, KnownType
    <3>3. orders[i].amount \in Nat /\ orders[orders[i].undoes].filled \in Nat
      BY <2>1, <3>2, OrderTyped DEF ExecInv
    <3> QED BY <3>1, <3>2, <3>3
  <2> QED BY <2>1, <2>2, <2>3 DEF Lawful, Alike
<1>2. \A leg \in Targets : id[leg] # 0 => orders'[id[leg]].leg = leg
  BY KnownType DEF Alike, Ahead
<1>3. \A leg \in Legs : \A i, j \in DOMAIN orders' : Back(i, leg)' /\ Back(j, leg)' => i = j
  BY DEF Alike, OrdersLaw, Back
<1>4. kind # "enter" =>
        \A leg \in Legs : \A i, j \in DOMAIN orders' : Ahead(i, leg)' /\ Ahead(j, leg)' => i = j
  BY DEF Alike, OrdersLaw, Ahead
<1> QED BY <1>1, <1>2, <1>3, <1>4 DEF OrdersLaw

\* Orders that are withdrawn or cancelled, and steps that send nothing.
LEMMA StillLaws ==
  ASSUME ExecInv, OrdersLaw, HeldLaw, Alike, id' = id, kind' = kind, held' = held,
         \A i \in DOMAIN orders : orders'[i].filled = orders[i].filled
  PROVE  OrdersLaw' /\ HeldLaw' /\ SameLegs
<1>1. \A i \in DOMAIN orders : orders[i].filled \in Nat
  BY OrderTyped DEF ExecInv
<1>2. OrdersLaw' /\ SameLegs
  BY <1>1, AlikeLaw, AlikeLegs
<1>3. ASSUME NEW leg \in Legs
      PROVE  /\ Net(leg)' = Net(leg) /\ Known(leg)' = Known(leg)
             /\ \A i \in DOMAIN orders : (Back(i, leg)' <=> Back(i, leg)) /\ (Ahead(i, leg)' <=> Ahead(i, leg))
  <2>1. leg \in Targets
    BY DEF Targets
  <2>2. Net(leg)' = Net(leg)
    BY DEF Net, Before
  <2>3. Known(leg)' = Known(leg)
    BY <2>1, KnownType DEF Known
  <2> QED BY <2>2, <2>3 DEF Alike, Back, Ahead
<1>4. Involved' = Involved /\ Before(kind)' = Before(kind)
  BY DEF Involved, Before
<1>5. ASSUME NEW leg \in Legs PROVE (AtLeast(leg) => AtLeast(leg)') /\ (AtMost(leg) => AtMost(leg)')
  BY <1>3 DEF AtLeast, AtMost, Alike
<1>6. HeldLaw'
  BY <1>4, <1>5 DEF HeldLaw
<1> QED BY <1>2, <1>6

\* An order fills by q.
LEMMA FillLaws ==
  ASSUME ExecInv, OrdersLaw, HeldLaw, NEW i \in DOMAIN orders, Fill(i)
  PROVE  OrdersLaw' /\ HeldLaw' /\ SameLegs
<1>0. /\ OrdersType /\ orders[i] \in OrderType /\ orders[i].filled \in Nat /\ orders[i].amount \in Nat
      /\ \A j \in DOMAIN orders : orders[j] \in OrderType /\ orders[j].filled \in Nat
  BY OrderTyped DEF ExecInv
<1>1. PICK q \in 1..(orders[i].amount - orders[i].filled) :
         /\ orders' = [orders EXCEPT
              ![i].filled = @ + q,
              ![i].status = IF orders[i].filled + q = orders[i].amount
                            THEN "filled" ELSE "open"]
         /\ held' = Moved(held, orders[i], q)
  BY DEF Fill
<1>2. kind' = kind /\ id' = id
  BY DEF Fill, call
<1>3. /\ Alike /\ q \in Nat /\ orders'[i].filled = orders[i].filled + q
      /\ \A j \in DOMAIN orders : j # i => orders'[j].filled = orders[j].filled
  BY <1>0, <1>1 DEF Alike, OrderType
<1>4. /\ \A j \in DOMAIN orders : orders[j].filled <= orders'[j].filled /\ orders'[j].filled \in Nat
  BY <1>0, <1>3
<1>5. OrdersLaw' /\ SameLegs
  BY <1>2, <1>4, <1>3, AlikeLaw, AlikeLegs
<1>6. Involved' = Involved /\ Before(kind)' = Before(kind) /\ held \in [Legs -> Int] /\ Lawful(i)
  BY <1>2 DEF Involved, Before, HeldLaw, OrdersLaw
<1>7. ASSUME NEW leg \in Legs
      PROVE  /\ leg \in Targets /\ Known(leg) \in Nat /\ Net(leg) \in Int
             /\ \A j \in DOMAIN orders : (Back(j, leg)' <=> Back(j, leg)) /\ (Ahead(j, leg)' <=> Ahead(j, leg))
             /\ id[leg] # i => Known(leg)' = Known(leg)
             /\ id[leg] = i => Known(leg)' = Known(leg) + q /\ orders[i].leg = leg /\ orders[i].undoes = 0
  <2>1. leg \in Targets /\ Net(leg) \in Int
    BY <1>6, NetType DEF Targets
  <2>2. Known(leg) \in Nat /\ (id[leg] # 0 => id[leg] \in DOMAIN orders /\ Ahead(id[leg], leg))
    BY <2>1, KnownType
  <2>3. i # 0
    BY <1>0 DEF OrdersType
  <2>4. \A j \in DOMAIN orders : (Back(j, leg)' <=> Back(j, leg)) /\ (Ahead(j, leg)' <=> Ahead(j, leg))
    BY <1>3 DEF Alike, Back, Ahead
  <2> QED BY <1>2, <1>3, <2>1, <2>2, <2>3, <2>4 DEF Known, Ahead
<1>8. CASE orders[i].leg = "combo"
  <2>1. kind = "enter" /\ orders[i].undoes = 0
    <3>1. kind \in {"enter", "close", "roll"}
      BY DEF ExecInv, CallType
    <3> QED BY <1>6, <1>8, <3>1 DEF Lawful, Involved
  <2>2. /\ held' \in [Legs -> Int] /\ held'["new"] = held["new"]
        /\ Net("near")' = Net("near") + q /\ Net("far")' = Net("far") + q
    BY <1>1, <1>2, <1>3, <1>6, <1>8, <2>1, MovedByCombo
  <2>3. ASSUME NEW leg \in {"near", "far"} PROVE AtLeast(leg)'
    <3>1. leg \in Legs /\ id[leg] # i /\ AtLeast(leg) /\ Net(leg)' = Net(leg) + q
      BY <1>7, <1>8, <2>1, <2>2 DEF Legs, HeldLaw, Involved
    <3>2. /\ Known(leg) \in Nat /\ Net(leg) \in Int /\ Known(leg)' = Known(leg)
          /\ \A j \in DOMAIN orders : Back(j, leg)' <=> Back(j, leg)
      BY <1>7, <3>1
    <3>3. \A j \in DOMAIN orders : Back(j, leg) => orders'[j].filled = orders[j].filled
      BY <1>3, <1>8, <3>1 DEF Back, Legs
    <3> QED BY <1>0, <1>3, <3>1, <3>2, <3>3 DEF AtLeast, Alike
  <2> QED BY <1>5, <1>6, <1>2, <2>1, <2>2, <2>3 DEF HeldLaw, Involved, Legs
<1>9. CASE orders[i].leg # "combo"
  <2>1. /\ held' \in [Legs -> Int]
        /\ \A leg \in Legs :
              /\ orders[i].leg # leg => held'[leg] = held[leg] /\ Net(leg)' = Net(leg)
              /\ orders[i].leg = leg /\ orders[i].direction = Direction(kind, leg) => Net(leg)' = Net(leg) + q
              /\ orders[i].leg = leg /\ orders[i].direction = -Direction(kind, leg) => Net(leg)' = Net(leg) - q
    BY <1>0, <1>1, <1>2, <1>3, <1>6, <1>9, MovedByLeg
  <2>2. ASSUME NEW leg \in Legs, leg # orders[i].leg
        PROVE  (AtLeast(leg) => AtLeast(leg)') /\ (AtMost(leg) => AtMost(leg)')
    <3>1. Known(leg)' = Known(leg) /\ Net(leg)' = Net(leg)
      BY <1>7, <2>1, <2>2
    <3>2. \A j \in DOMAIN orders : Back(j, leg) \/ Ahead(j, leg) => orders'[j].filled = orders[j].filled
      BY <1>3, <2>2 DEF Back, Ahead
    <3>3. \A j \in DOMAIN orders : (Back(j, leg)' <=> Back(j, leg)) /\ (Ahead(j, leg)' <=> Ahead(j, leg))
      BY <1>7
    <3> QED BY <1>3, <3>1, <3>2, <3>3 DEF AtLeast, AtMost, Alike
  <2>3. ASSUME NEW leg \in Legs, leg = orders[i].leg, orders[i].undoes = 0
        PROVE  (AtLeast(leg) => AtLeast(leg)') /\ (kind # "enter" /\ AtMost(leg) => AtMost(leg)')
    <3>1. Net(leg)' = Net(leg) + q
      BY <1>6, <2>1, <2>3 DEF Lawful
    <3>2. /\ Known(leg) \in Nat /\ Net(leg) \in Int /\ Known(leg)' \in {Known(leg), Known(leg) + q}
          /\ \A j \in DOMAIN orders : (Back(j, leg)' <=> Back(j, leg)) /\ (Ahead(j, leg)' <=> Ahead(j, leg))
      BY <1>7
    <3>3. \A j \in DOMAIN orders : Back(j, leg) => orders'[j].filled = orders[j].filled
      BY <1>3, <2>3 DEF Back
    <3>4. AtLeast(leg) => AtLeast(leg)'
      BY <1>0, <1>3, <3>1, <3>2, <3>3 DEF AtLeast, Alike
    <3>5. kind # "enter" => \A j \in DOMAIN orders : Ahead(j, leg) => j = i
      BY <2>3 DEF Ahead, OrdersLaw
    <3>6. Ahead(i, leg)
      BY <2>3 DEF Ahead
    <3>7. kind # "enter" /\ AtMost(leg) => AtMost(leg)'
      BY <1>0, <1>3, <3>1, <3>2, <3>5, <3>6 DEF AtMost, Alike
    <3> QED BY <3>4, <3>7
  <2>4. ASSUME NEW leg \in Legs, leg = orders[i].leg, orders[i].undoes # 0
        PROVE  (AtLeast(leg) => AtLeast(leg)') /\ (AtMost(leg) => AtMost(leg)')
    <3>1. Net(leg)' = Net(leg) - q
      BY <1>6, <2>1, <2>4 DEF Lawful
    <3>2. /\ Known(leg) \in Nat /\ Net(leg) \in Int /\ Known(leg)' = Known(leg)
          /\ \A j \in DOMAIN orders : (Back(j, leg)' <=> Back(j, leg)) /\ (Ahead(j, leg)' <=> Ahead(j, leg))
      BY <1>7, <2>4
    <3>3. \A j \in DOMAIN orders : Ahead(j, leg) => orders'[j].filled = orders[j].filled
      BY <1>3, <2>4 DEF Ahead
    <3>4. AtMost(leg) => AtMost(leg)'
      BY <1>0, <1>3, <3>1, <3>2, <3>3 DEF AtMost, Alike
    <3>5. Back(i, leg) /\ \A j \in DOMAIN orders : Back(j, leg) => j = i
      BY <2>4 DEF Back, OrdersLaw
    <3>6. AtLeast(leg) => AtLeast(leg)'
      BY <1>0, <1>3, <3>1, <3>2, <3>5 DEF AtLeast, Alike
    <3> QED BY <3>4, <3>6
  <2>5. \A leg \in Legs : leg \notin Involved => held'[leg] = held[leg]
    BY <1>6, <2>1 DEF Lawful
  <2>6. HeldLaw'
    BY <1>2, <1>6, <2>1, <2>2, <2>3, <2>4, <2>5 DEF HeldLaw
  <2> QED BY <1>5, <2>6
<1> QED BY <1>8, <1>9

-----------------------------------------------------------------------------
(* An order is sent.                                                       *)

\* The orders before stay as they are.
LEMMA AppendLaws ==
  ASSUME ExecInv, OrdersLaw, NEW o \in OrderType, orders' = Append(orders, o)
  PROVE  /\ DOMAIN orders' = DOMAIN orders \cup {Len(orders) + 1}
         /\ Len(orders) + 1 \notin DOMAIN orders /\ Len(orders) + 1 # 0
         /\ orders'[Len(orders) + 1] = o
         /\ \A i \in DOMAIN orders : orders'[i] = orders[i]
<1>1. orders \in Seq(OrderType) /\ Len(orders) \in Nat
  BY DEF ExecInv, OrdersType
<1>2. /\ DOMAIN orders = 1..Len(orders) /\ DOMAIN orders' = 1..(Len(orders) + 1)
      /\ orders'[Len(orders) + 1] = o
      /\ \A i \in 1..Len(orders) : orders'[i] = orders[i]
  BY <1>1
<1> QED BY <1>1, <1>2

\* The order that a call means to make, learnt by its id or not.
LEMMA SendLaws ==
  ASSUME ExecInv, OrdersLaw, HeldLaw, NEW leg \in Targets, leg \in Involved,
         NEW v, Book(Order(leg, Direction(kind, leg), Qty, 0), v), kind' = kind,
         id' = id \/ id' = [id EXCEPT ![leg] = Len(orders) + 1],
         leg \notin BackLegs, kind # "enter" => leg \notin SentLegs
  PROVE  /\ OrdersLaw' /\ HeldLaw'
         /\ BackLegs' = BackLegs /\ SentLegs' \subseteq SentLegs \cup {leg}
<1> DEFINE o == Order(leg, Direction(kind, leg), Qty, 0)
<1>1. /\ o \in OrderType /\ o.filled = 0 /\ o.undoes = 0 /\ o.amount = Qty
      /\ o.direction = Direction(kind, leg) /\ o.leg = leg
  BY ExecutorAssumption, Directed DEF Order, OrderType
<1>2. orders' = Append(orders, o) /\ held' = held
  BY DEF Book
<1> HIDE DEF o
<1>3. PICK n : /\ n = Len(orders) + 1
               /\ DOMAIN orders' = DOMAIN orders \cup {n} /\ n \notin DOMAIN orders /\ n # 0
               /\ orders'[n] = o /\ \A i \in DOMAIN orders : orders'[i] = orders[i]
  BY <1>1, <1>2, AppendLaws
<1>4. ASSUME NEW l \in Targets
      PROVE  /\ id[l] # 0 => id[l] \in DOMAIN orders /\ Ahead(id[l], l)
             /\ id'[l] = id[l] \/ (l = leg /\ id'[l] = n)
  <2>1. id \in [Targets -> Nat]
    BY DEF ExecInv, IdsOK
  <2> QED BY <1>3, <1>4, <2>1, KnownType
<1>5. Involved' = Involved /\ Before(kind)' = Before(kind)
  BY DEF Involved, Before
<1>6. ASSUME NEW l \in Legs
      PROVE  /\ \A i \in DOMAIN orders : (Back(i, l)' <=> Back(i, l)) /\ (Ahead(i, l)' <=> Ahead(i, l))
             /\ ~Back(n, l)' /\ (Ahead(n, l)' <=> l = leg)
  BY <1>1, <1>3 DEF Back, Ahead
<1>7. leg \in Legs => /\ \A i \in DOMAIN orders : ~Back(i, leg)
                      /\ kind # "enter" => \A i \in DOMAIN orders : ~Ahead(i, leg)
  BY DEF BackLegs, SentLegs
<1>8. OrdersLaw'
  <2>1. ASSUME NEW i \in DOMAIN orders PROVE Lawful(i)'
    <3>1. Lawful(i) /\ orders[i] \in OrderType /\ orders'[i] = orders[i]
      BY <1>3, <2>1, OrderTyped DEF OrdersLaw, ExecInv
    <3>2. ASSUME orders[i].undoes # 0
          PROVE  /\ id'[orders[i].leg] = id[orders[i].leg] /\ orders[i].undoes \in DOMAIN orders
    <4>1. orders[i].leg \in Legs /\ orders[i].leg \in Targets
      BY <3>1, <3>2 DEF Lawful, OrderType, Targets
    <4>2. orders[i].leg # leg
      BY <1>7, <3>2, <4>1 DEF Back
    <4> QED BY <1>4, <3>1, <3>2, <4>1, <4>2 DEF Lawful
    <3> QED BY <1>3, <1>5, <3>1, <3>2 DEF Lawful
  <2>2. Lawful(n)'
    BY <1>1, <1>3, <1>5 DEF Lawful
  <2>3. ASSUME NEW l \in Targets, id'[l] # 0 PROVE orders'[id'[l]].leg = l
    BY <1>1, <1>3, <1>4, <2>3 DEF Ahead
  <2>4. \A l \in Legs : \A i, j \in DOMAIN orders' : Back(i, l)' /\ Back(j, l)' => i = j
    BY <1>3, <1>6 DEF OrdersLaw
  <2>5. kind # "enter" =>
          \A l \in Legs : \A i, j \in DOMAIN orders' : Ahead(i, l)' /\ Ahead(j, l)' => i = j
    BY <1>3, <1>6, <1>7 DEF OrdersLaw
  <2> QED BY <1>3, <2>1, <2>2, <2>3, <2>4, <2>5 DEF OrdersLaw
<1>9. ASSUME NEW l \in Legs
      PROVE  (AtLeast(l) => AtLeast(l)') /\ (kind # "enter" /\ AtMost(l) => AtMost(l)')
  <2>1. l \in Targets /\ Net(l)' = Net(l) /\ Net(l) \in Int
    BY <1>2, <1>5, NetType DEF Net, Targets, HeldLaw
  <2>2. Known(l) \in Nat /\ \A i \in DOMAIN orders : orders[i].filled \in Nat
    BY <2>1, KnownType, OrderTyped DEF ExecInv
  <2>3. Known(l)' = Known(l) \/ (l = leg /\ Known(l)' = 0)
    BY <1>1, <1>3, <1>4, <2>1 DEF Known
  <2>4. AtLeast(l) => AtLeast(l)'
    BY <1>3, <1>6, <1>7, <2>1, <2>2, <2>3 DEF AtLeast
  <2>5. kind # "enter" /\ AtMost(l) => AtMost(l)'
    BY <1>1, <1>3, <1>6, <1>7, <2>1, <2>2 DEF AtMost
  <2> QED BY <2>4, <2>5
<1>10. HeldLaw'
  BY <1>2, <1>5, <1>9 DEF HeldLaw
<1>11. BackLegs' = BackLegs /\ SentLegs' \subseteq SentLegs \cup {leg}
  BY <1>3, <1>6 DEF BackLegs, SentLegs
<1> QED BY <1>8, <1>10, <1>11

\* The order that trades back what a known order has filled.
LEMMA ReverseLaws ==
  ASSUME ExecInv, OrdersLaw, HeldLaw, NEW leg \in Legs, leg \in Involved,
         NEW amount \in Nat \ {0}, id[leg] # 0, amount <= orders[id[leg]].filled,
         NEW known, BookReverse(leg, amount, known), id' = id, kind' = kind,
         leg \notin BackLegs
  PROVE  /\ OrdersLaw' /\ HeldLaw'
         /\ BackLegs' \subseteq BackLegs \cup {leg} /\ SentLegs' = SentLegs
<1> DEFINE o == Order(leg, -Direction(kind, leg), amount, id[leg])
           u == [o EXCEPT !.filled = amount, !.status = "filled"]
<1>0. id[leg] \in Nat /\ leg \in Targets
  BY DEF ExecInv, IdsOK, Targets
<1>1. /\ o \in OrderType /\ o.filled = 0 /\ o.undoes = id[leg] /\ o.amount = amount
      /\ o.direction = -Direction(kind, leg) /\ o.leg = leg
  BY <1>0, Directed DEF Order, OrderType
<1>2. \/ orders' = Append(orders, u) /\ held' = Moved(held, o, amount)
      \/ orders' = Append(orders, o) /\ held' = held
  BY DEF BookReverse
<1> HIDE DEF o
<1>3. /\ u \in OrderType /\ u.filled = amount /\ u.undoes = id[leg] /\ u.amount = amount
      /\ u.direction = -Direction(kind, leg) /\ u.leg = leg
  BY <1>1 DEF OrderType
<1> HIDE DEF u
<1>4. PICK n \in OrderType :
         /\ orders' = Append(orders, n) /\ n.undoes = id[leg] /\ n.amount = amount
         /\ n.direction = -Direction(kind, leg) /\ n.leg = leg
         /\ \/ n.filled = amount /\ held' = Moved(held, o, amount)
            \/ n.filled = 0 /\ held' = held
  BY <1>1, <1>2, <1>3
<1>5. PICK m : /\ DOMAIN orders' = DOMAIN orders \cup {m} /\ m \notin DOMAIN orders /\ m # 0
               /\ orders'[m] = n /\ \A i \in DOMAIN orders : orders'[i] = orders[i]
  BY <1>4, AppendLaws
<1>6. Involved' = Involved /\ Before(kind)' = Before(kind) /\ held \in [Legs -> Int]
  BY DEF Involved, Before, HeldLaw
<1>7. ASSUME NEW l \in Legs
      PROVE  /\ \A i \in DOMAIN orders : (Back(i, l)' <=> Back(i, l)) /\ (Ahead(i, l)' <=> Ahead(i, l))
             /\ ~Ahead(m, l)' /\ (Back(m, l)' <=> l = leg)
  BY <1>4, <1>5 DEF Back, Ahead
<1>8. \A i \in DOMAIN orders : ~Back(i, leg)
  BY DEF BackLegs
<1>9. ASSUME NEW l \in Targets
      PROVE  /\ Known(l) \in Nat /\ Known(l)' = Known(l)
             /\ id[l] # 0 => id[l] \in DOMAIN orders /\ Ahead(id[l], l)
  BY <1>5, <1>9, KnownType DEF Known
<1>10. OrdersLaw'
  <2>1. ASSUME NEW i \in DOMAIN orders PROVE Lawful(i)'
    <3>1. Lawful(i) /\ orders[i] \in OrderType /\ orders'[i] = orders[i]
      BY <1>5, <2>1, OrderTyped DEF OrdersLaw, ExecInv
    <3>2. ASSUME orders[i].undoes # 0 PROVE orders[i].undoes \in DOMAIN orders
      BY <1>9, <3>1, <3>2 DEF Lawful, OrderType
    <3> QED BY <1>5, <1>6, <3>1, <3>2 DEF Lawful
  <2>2. Lawful(m)'
    <3>1. leg # "combo" /\ orders'[id[leg]] = orders[id[leg]]
      BY <1>0, <1>5, <1>9 DEF Legs
    <3> QED BY <1>4, <1>5, <1>6, <3>1 DEF Lawful
  <2>3. \A l \in Targets : id'[l] # 0 => orders'[id'[l]].leg = l
    BY <1>5, <1>9 DEF Ahead
  <2>4. \A l \in Legs : \A i, j \in DOMAIN orders' : Back(i, l)' /\ Back(j, l)' => i = j
    BY <1>5, <1>7, <1>8 DEF OrdersLaw
  <2>5. kind # "enter" =>
          \A l \in Legs : \A i, j \in DOMAIN orders' : Ahead(i, l)' /\ Ahead(j, l)' => i = j
    BY <1>5, <1>7 DEF OrdersLaw
  <2> QED BY <2>1, <2>2, <2>3, <2>4, <2>5, <1>5 DEF OrdersLaw
<1>11. /\ held' \in [Legs -> Int]
       /\ \A l \in Legs : l # leg => held'[l] = held[l] /\ Net(l)' = Net(l)
       /\ Net(leg)' = Net(leg) - n.filled
  <2>1. CASE n.filled = amount /\ held' = Moved(held, o, amount)
    BY <1>1, <1>6, <2>1, MovedByLeg DEF Legs
  <2>2. CASE n.filled = 0 /\ held' = held
    <3>1. Net(leg) \in Int /\ \A l \in Legs : Net(l)' = Net(l)
      BY <1>6, <2>2, NetType DEF Net
    <3> QED BY <1>6, <2>2, <3>1
  <2> QED BY <1>4, <2>1, <2>2
<1>12. ASSUME NEW l \in Legs
       PROVE  (AtLeast(l) => AtLeast(l)') /\ (AtMost(l) => AtMost(l)')
  <2>1. /\ l \in Targets /\ Net(l) \in Int /\ n.filled \in Nat
        /\ \A i \in DOMAIN orders : orders[i].filled \in Nat
    BY <1>6, NetType, OrderTyped DEF Targets, OrderType, ExecInv
  <2>2. Known(l) \in Nat /\ Known(l)' = Known(l)
    BY <1>9, <2>1
  <2>3. Net(l)' = Net(l) \/ (l = leg /\ Net(l)' = Net(l) - n.filled)
    BY <1>11
  <2>4. CASE l # leg
    BY <1>5, <1>7, <1>11, <2>2, <2>4 DEF AtLeast, AtMost
  <2>5. CASE l = leg
    <3>1. AtLeast(l) => AtLeast(l)'
      BY <1>5, <1>7, <1>8, <1>11, <2>1, <2>2, <2>5 DEF AtLeast
    <3>2. AtMost(l) => AtMost(l)'
      BY <1>5, <1>7, <1>11, <2>1, <2>5 DEF AtMost
    <3> QED BY <3>1, <3>2
  <2> QED BY <2>4, <2>5
<1>13. HeldLaw'
  BY <1>6, <1>11, <1>12 DEF HeldLaw
<1>14. BackLegs' \subseteq BackLegs \cup {leg} /\ SentLegs' = SentLegs
  BY <1>5, <1>7 DEF BackLegs, SentLegs
<1> QED BY <1>10, <1>13, <1>14

-----------------------------------------------------------------------------
(* What a step does to the place of the call.                              *)

\* A step that sends and fills nothing.
Still ==
    /\ Alike /\ \A i \in DOMAIN orders : orders'[i].filled = orders[i].filled
    /\ id' = id /\ kind' = kind /\ held' = held

LEMMA StillSide ==
  ASSUME ExecInv, SideInv, Still
  PROVE  /\ OrdersLaw' /\ HeldLaw' /\ BackLegs' = BackLegs /\ SentLegs' = SentLegs
         /\ \A leg \in Targets : Whole(leg) => Whole(leg)'
<1>1. OrdersLaw' /\ HeldLaw' /\ SameLegs
  BY StillLaws DEF Still, SideInv
<1>2. \A leg \in Targets : id[leg] # 0 => id[leg] \in DOMAIN orders
  BY DEF ExecInv, IdsOK, Own
<1>3. \A leg \in Targets : Whole(leg) => Whole(leg)'
  BY <1>2 DEF Whole, Still
<1> QED BY <1>1, <1>3 DEF SameLegs

LEMMA SameOrdersStill ==
  ASSUME orders' = orders, id' = id, kind' = kind, held' = held
  PROVE  Still
BY DEF Still, Alike

LEMMA CancelStill ==
  ASSUME ExecInv, NEW i \in DOMAIN orders, id' = id, kind' = kind, held' = held,
         orders' = orders \/ orders' = Cancelled(i)
           \/ orders' = [orders EXCEPT ![i].status = "cancelled"]
  PROVE  Still
<1>1. orders \in Seq(OrderType) /\ \A j \in DOMAIN orders : orders[j] \in OrderType
  BY OrderTyped DEF ExecInv, OrdersType
<1>2. CASE orders' = orders
  BY <1>2, SameOrdersStill
<1>3. CASE orders' = [orders EXCEPT ![i].status = "cancelled"]
  BY <1>1, <1>3 DEF Still, Alike, OrderType
<1> QED BY <1>2, <1>3 DEF Cancelled

\* Where calls go on, and what they need there.
LEMMA CallTyped ==
  ASSUME ExecInv
  PROVE  /\ pc \in [at : Stages, leg : Targets, attempt : Nat]
         /\ kind \in {"enter", "close", "roll"}
         /\ kind = "enter" => pc.leg \in {"combo", "near", "far"}
         /\ kind = "close" => pc.leg \in {"near", "far"}
         /\ kind = "roll" => pc.leg \in {"near", "new"}
BY DEF ExecInv, CallType, StageOK

\* The end of a call.
LEMMA EndPlace ==
  ASSUME ExecInv, PlaceLaw, kind' = kind, pc' = [pc EXCEPT !.at = "returned"],
         kind = "roll" => \A leg \in SentLegs' : leg \in SentLegs \/ leg = pc.leg,
         kind = "close" => SentLegs' \subseteq SentLegs \cup {"near", "far"},
         \A leg \in Targets : Whole(leg) => Whole(leg)'
  PROVE  PlaceLaw'
<1>1. pc'.at = "returned" /\ pc'.leg = pc.leg
  BY CallTyped
<1>2. ASSUME kind # "enter", NEW leg \in SentLegs' PROVE Sent(leg)'
  BY <1>1, <1>2, CallTyped DEF PlaceLaw, Sent
<1> QED BY <1>1, <1>2 DEF PlaceLaw, Past, Targets, Legs

\* A call that has sent nothing back and submits.
LEMMA NothingBack ==
  ASSUME PlaceLaw, pc.at = "submit"
  PROVE  BackLegs = {} /\ (kind # "enter" => pc.leg \notin SentLegs)
BY DEF PlaceLaw, Past, Sent, Awaited

LEMMA StillPlace ==
  ASSUME ExecInv, SideInv, Still, pc' = pc, got' = got
  PROVE  SideInv'
<1>1. /\ OrdersLaw' /\ HeldLaw' /\ BackLegs' = BackLegs /\ SentLegs' = SentLegs
      /\ \A leg \in Targets : Whole(leg) => Whole(leg)'
  BY StillSide
<1>2. kind' = kind /\ pc.leg \in Targets /\ "near" \in Targets
  BY CallTyped DEF Still, Targets, Legs
<1>3. PlaceLaw'
  BY <1>1, <1>2 DEF SideInv, PlaceLaw, Past, Sent
<1> QED BY <1>1, <1>3 DEF SideInv

-----------------------------------------------------------------------------
(* The steps.                                                              *)

LEMMA ExchangeSide ==
  ASSUME ExecInv, SideInv, NEW i \in DOMAIN orders, Fill(i) \/ Withdraw(i)
  PROVE  SideInv'
<1>1. CASE Withdraw(i)
  BY <1>1, CancelStill, StillPlace DEF Withdraw, call
<1>2. CASE Fill(i)
  <2>1. OrdersLaw' /\ HeldLaw' /\ BackLegs' = BackLegs /\ SentLegs' = SentLegs
    BY <1>2, FillLaws DEF SideInv, SameLegs
  <2>2. pc' = pc /\ kind' = kind /\ got' = got /\ id' = id
    BY <1>2 DEF Fill, call
  <2>3. PICK q \in 1..(orders[i].amount - orders[i].filled) :
           orders' = [orders EXCEPT
                ![i].filled = @ + q,
                ![i].status = IF orders[i].filled + q = orders[i].amount
                              THEN "filled" ELSE "open"]
    BY <1>2 DEF Fill
  <2>4. ASSUME NEW leg \in Targets, Whole(leg) PROVE Whole(leg)'
    <3>1. /\ id[leg] \in DOMAIN orders /\ orders[id[leg]].amount = Qty
          /\ orders[id[leg]].filled = Qty
      BY <2>4 DEF ExecInv, IdsOK, Own, Whole
    <3>2. orders[i].filled \in Nat /\ orders[i].amount \in Nat /\ Qty \in Nat
      BY OrderTyped, BeforeType DEF ExecInv
    <3>3. id[leg] # i
      BY <2>3, <3>1, <3>2
    <3>4. orders'[id[leg]] = orders[id[leg]]
      BY <2>3, <3>1, <3>3
    <3> QED BY <2>2, <2>4, <3>4 DEF Whole
  <2>5. pc.leg \in Targets /\ "near" \in Targets
    BY CallTyped DEF Targets, Legs
  <2>6. PlaceLaw'
    BY <2>1, <2>2, <2>4, <2>5 DEF SideInv, PlaceLaw, Past, Sent
  <2> QED BY <2>1, <2>6 DEF SideInv
<1> QED BY <1>1, <1>2

\* A call ends without having sent anything more.
LEMMA EndSide ==
  ASSUME ExecInv, SideInv, Still, pc' = [pc EXCEPT !.at = "returned"]
  PROVE  SideInv'
<1>1. /\ OrdersLaw' /\ HeldLaw' /\ BackLegs' = BackLegs /\ SentLegs' = SentLegs
      /\ \A leg \in Targets : Whole(leg) => Whole(leg)'
  BY StillSide
<1>2. PlaceLaw'
  BY <1>1, EndPlace DEF SideInv, Still
<1> QED BY <1>1, <1>2 DEF SideInv

\* It goes on without having sent anything more.
LEMMA GoSide ==
  ASSUME ExecInv, SideInv, Still, NEW at \in Stages, NEW leg \in Targets, Go(at, leg),
         kind # "enter" => \A l \in SentLegs : Sent(l)',
         \A l \in BackLegs : Past(l)',
         at \in {"cancel", "query", "flatten", "undo"} => leg # "combo",
         at = "undo" => Whole(leg),
         kind = "enter" /\ leg = "far" => Whole("near")
  PROVE  SideInv'
<1>1. /\ OrdersLaw' /\ HeldLaw' /\ BackLegs' = BackLegs /\ SentLegs' = SentLegs
      /\ \A l \in Targets : Whole(l) => Whole(l)'
  BY StillSide
<1>2. kind' = kind /\ pc'.at = at /\ pc'.leg = leg /\ "near" \in Targets
  BY DEF Still, Go, Targets, Legs
<1>3. PlaceLaw'
  BY <1>1, <1>2 DEF PlaceLaw
<1> QED BY <1>1, <1>3 DEF SideInv

\* An order is sent, and the call goes on.
LEMMA SendSide ==
  ASSUME ExecInv, SideInv, pc.at = "submit", pc.leg \in Involved,
         NEW v, Book(Order(pc.leg, Direction(kind, pc.leg), Qty, 0), v), kind' = kind,
         id' = id \/ id' = [id EXCEPT ![pc.leg] = Len(orders) + 1]
  PROVE  /\ OrdersLaw' /\ HeldLaw' /\ BackLegs' = {}
         /\ kind # "enter" => pc.leg \notin SentLegs
         /\ SentLegs' \subseteq SentLegs \cup {pc.leg}
<1>1. BackLegs = {} /\ (kind # "enter" => pc.leg \notin SentLegs) /\ pc.leg \in Targets
  BY NothingBack, CallTyped DEF SideInv
<1> DEFINE leg == pc.leg
<1>2. leg \in Targets /\ leg \in Involved /\ leg \notin BackLegs /\ (kind # "enter" => leg \notin SentLegs)
      /\ Book(Order(leg, Direction(kind, leg), Qty, 0), v)
      /\ (id' = id \/ id' = [id EXCEPT ![leg] = Len(orders) + 1])
  BY <1>1
<1> HIDE DEF leg
<1>3. /\ OrdersLaw' /\ HeldLaw'
      /\ BackLegs' = BackLegs /\ SentLegs' \subseteq SentLegs \cup {leg}
  BY <1>2, SendLaws DEF SideInv
<1> QED BY <1>1, <1>3 DEF leg

LEMMA InvolvedLeg ==
  ASSUME ExecInv
  PROVE  pc.leg \in Involved
BY CallTyped DEF Involved

LEMMA SubmitSide ==
  ASSUME ExecInv, SideInv, EnterSubmit \/ CloseSubmit \/ RollSubmit
  PROVE  SideInv'
<1>1. /\ pc.at = "submit" /\ kind' = kind /\ Place(pc.leg) /\ pc.leg \in Targets
      /\ Book(Order(pc.leg, Direction(kind, pc.leg), Qty, 0), "submitted")
      /\ id' = [id EXCEPT ![pc.leg] = Len(orders) + 1]
  <2>1. PICK leg : Place(leg)
    BY DEF EnterSubmit, CloseSubmit, RollSubmit
  <2> QED BY <2>1, CallTyped DEF Place, At
<1>2. /\ OrdersLaw' /\ HeldLaw' /\ BackLegs' = {}
      /\ kind # "enter" => pc.leg \notin SentLegs
      /\ SentLegs' \subseteq SentLegs \cup {pc.leg}
  BY <1>1, InvolvedLeg, SendSide
<1>3. \A l \in Targets : l # pc.leg => (Whole(l) => Whole(l)')
  BY <1>1, PlaceStep
<1>4. \/ kind = "close" /\ pc.leg = "near" /\ pc'.at = "submit" /\ pc'.leg = "far"
      \/ kind = "close" /\ pc.leg = "far" /\ pc'.at = "wait" /\ pc'.leg = "near"
      \/ kind # "close" /\ pc'.at = "wait" /\ pc'.leg = pc.leg
  BY DEF EnterSubmit, CloseSubmit, RollSubmit, Place, Go
<1>5. \A l \in SentLegs' : kind # "enter" => Sent(l)'
  <2>1. \A l \in SentLegs : kind # "enter" => Sent(l)
    BY DEF SideInv, PlaceLaw
  <2> QED BY <1>1, <1>2, <1>4, <2>1, CallTyped DEF Sent
<1>6. PlaceLaw'
  BY <1>1, <1>2, <1>3, <1>4, <1>5 DEF SideInv, PlaceLaw, Targets, Legs
<1> QED BY <1>2, <1>6 DEF SideInv

LEMMA GiveUpSide ==
  ASSUME ExecInv, SideInv, Still, pc.at = "submit", GiveUpSubmit(pc.leg)
  PROVE  SideInv'
<1>1. BackLegs = {} /\ (kind # "enter" => pc.leg \notin SentLegs) /\ kind' = kind
  BY NothingBack DEF SideInv, Still
<1>2. CASE pc.leg = "combo" /\ Go("submit", "near")
  <2>1. kind = "enter"
    BY <1>2, CallTyped
  <2> QED BY <1>1, <1>2, <2>1, GoSide DEF Stages, Targets, Legs
<1>3. CASE kind = "close" /\ pc.leg = "far" /\ Go("drop", "near")
  <2>1. \A l \in SentLegs : Sent(l)'
    BY <1>1, <1>3 DEF SideInv, PlaceLaw, Sent, Go
  <2> QED BY <1>1, <1>3, <2>1, GoSide DEF Stages, Targets, Legs
<1>4. CASE Return("failed")
  BY <1>4, EndSide DEF Return
<1> QED BY <1>2, <1>3, <1>4 DEF GiveUpSubmit

LEMMA FarNeedsNear ==
  ASSUME ExecInv, SideInv, kind = "enter", pc.leg = "far"
  PROVE  Whole("near")
BY DEF SideInv, PlaceLaw

\* A submission that is not answered.
LEMMA SubmitLostSide ==
  ASSUME ExecInv, SideInv, SubmitLost
  PROVE  SideInv'
<1>1. /\ pc.at = "submit" /\ kind' = kind /\ id' = id
      /\ BackLegs = {} /\ (kind # "enter" => pc.leg \notin SentLegs)
  BY NothingBack DEF SubmitLost, At, SideInv
<1>2. \/ kind = "enter" /\ pc' = [pc EXCEPT !.attempt = @ + 1]
      \/ kind = "enter" /\ pc.leg = "far" /\ Go("undo", "near")
      \/ pc' = [pc EXCEPT !.at = "returned"]
      \/ kind = "enter" /\ pc.leg = "combo" /\ Go("submit", "near")
      \/ kind = "close" /\ pc.leg = "far" /\ Go("drop", "near")
  BY CallTyped DEF SubmitLost, GiveUpSubmit, Return
<1>3. /\ OrdersLaw' /\ HeldLaw' /\ BackLegs' = {}
      /\ SentLegs' \subseteq SentLegs \cup {pc.leg}
      /\ \A l \in Targets : Whole(l) => Whole(l)'
  <2>1. CASE Book(Order(pc.leg, Direction(kind, pc.leg), Qty, 0), "unknown")
    <3>1. \A l \in Targets : Whole(l) => Whole(l)'
      BY <1>1, <2>1, UnknownStep, CallTyped
    <3> QED BY <1>1, <2>1, <3>1, InvolvedLeg, SendSide
  <2>2. CASE UNCHANGED <<orders, manager, held>>
    <3>1. Still
      BY <1>1, <2>2, SameOrdersStill
    <3> QED BY <1>1, <3>1, StillSide
  <2> QED BY <2>1, <2>2 DEF SubmitLost
<1>4. "near" \in Targets
  BY DEF Targets, Legs
<1>5. CASE kind = "enter" /\ pc' = [pc EXCEPT !.attempt = @ + 1]
  <2>1. pc'.at = pc.at /\ pc'.leg = pc.leg
    BY <1>5, CallTyped
  <2>2. PlaceLaw'
    BY <1>1, <1>3, <1>4, <1>5, <2>1 DEF SideInv, PlaceLaw
  <2> QED BY <1>3, <2>2 DEF SideInv
<1>6. CASE kind = "enter" /\ pc.leg = "far" /\ Go("undo", "near")
  <2>1. pc'.at = "undo" /\ pc'.leg = "near" /\ Whole("near")'
    BY <1>3, <1>4, <1>6, FarNeedsNear DEF Go
  <2>2. PlaceLaw'
    BY <1>1, <1>3, <1>6, <2>1 DEF PlaceLaw
  <2> QED BY <1>3, <2>2 DEF SideInv
<1>7. CASE pc' = [pc EXCEPT !.at = "returned"]
  <2>1. kind = "close" => SentLegs' \subseteq SentLegs \cup {"near", "far"}
    BY <1>3, CallTyped
  <2>2. PlaceLaw'
    BY <1>1, <1>3, <1>7, <2>1, EndPlace DEF SideInv
  <2> QED BY <1>3, <2>2 DEF SideInv
<1>8. CASE kind = "enter" /\ pc.leg = "combo" /\ Go("submit", "near")
  <2>1. PlaceLaw'
    BY <1>1, <1>3, <1>8 DEF PlaceLaw, Go
  <2> QED BY <1>3, <2>1 DEF SideInv
<1>9. CASE kind = "close" /\ pc.leg = "far" /\ Go("drop", "near")
  <2>1. \A l \in SentLegs' : Sent(l)'
    BY <1>1, <1>3, <1>9 DEF SideInv, PlaceLaw, Sent, Go
  <2>2. PlaceLaw'
    BY <1>1, <1>3, <1>9, <2>1 DEF PlaceLaw, Go
  <2> QED BY <1>3, <2>2 DEF SideInv
<1> QED BY <1>2, <1>5, <1>6, <1>7, <1>8, <1>9

\* Where a leg that was traded back leaves a call that waits.
LEMMA BackWhileAwaited ==
  ASSUME SideInv, pc.at \in Awaited, NEW leg \in BackLegs
  PROVE  kind = "close" /\ leg = "near" /\ pc.leg = "far" /\ "near" \notin got
BY DEF SideInv, PlaceLaw, Past, Awaited

LEMMA FilledSide ==
  ASSUME ExecInv, SideInv, EnterFilled \/ CloseFilled \/ RollFilled
  PROVE  SideInv'
<1>1. /\ pc.at = "wait" /\ SeenFilled(id[pc.leg]) /\ pc.leg \in Targets /\ id[pc.leg] # 0
      /\ Still
  <2>1. PICK leg : Fills(leg)
    BY DEF EnterFilled, CloseFilled, RollFilled
  <2>2. Still
    BY <2>1, SameOrdersStill DEF Fills
  <2> QED BY <2>1, <2>2, CallTyped DEF Fills, At, ExecInv, StageOK, Awaited
<1>2. Whole(pc.leg)
  <2> DEFINE leg == pc.leg
  <2>1. leg \in Targets /\ id[leg] # 0 /\ SeenFilled(id[leg])
    BY <1>1
  <2> HIDE DEF leg
  <2>2. Whole(leg)
    BY <2>1, SeenIsWhole
  <2> QED BY <2>2 DEF leg
<1>3. \/ pc' = [pc EXCEPT !.at = "returned"]
      \/ kind = "enter" /\ pc.leg = "near" /\ Go("submit", "far")
      \/ kind = "close" /\ pc.leg = "near" /\ got' = {"near"} /\ Go("wait", "far")
      \/ kind = "close" /\ pc.leg = "far" /\ Go("undo", "far")
      \/ kind = "roll" /\ pc.leg = "near" /\ Go("submit", "new")
  BY DEF EnterFilled, CloseFilled, RollFilled, Fills, Return
<1>4. \A l \in BackLegs : kind = "close" /\ l = "near" /\ pc.leg = "far"
  BY <1>1, BackWhileAwaited DEF Awaited
<1>5. \A l \in SentLegs : kind # "enter" => Sent(l)
  BY DEF SideInv, PlaceLaw
<1>6. CASE pc' = [pc EXCEPT !.at = "returned"]
  BY <1>1, <1>6, EndSide
<1>7. CASE kind = "enter" /\ pc.leg = "near" /\ Go("submit", "far")
  BY <1>1, <1>2, <1>4, <1>7, GoSide DEF Stages, Targets, Legs
<1>8. CASE kind = "close" /\ pc.leg = "near" /\ got' = {"near"} /\ Go("wait", "far")
  <2>1. \A l \in SentLegs : Sent(l)'
    BY <1>5, <1>8 DEF Sent, Go
  <2> QED BY <1>1, <1>4, <1>8, <2>1, GoSide DEF Stages, Targets, Legs
<1>9. CASE kind = "close" /\ pc.leg = "far" /\ Go("undo", "far")
  <2>1. \A l \in SentLegs : Sent(l)'
    BY <1>5, <1>9 DEF Sent, Go
  <2>2. \A l \in BackLegs : Past(l)'
    BY <1>4, <1>9 DEF Past, Go
  <2> QED BY <1>1, <1>2, <1>9, <2>1, <2>2, GoSide DEF Stages, Targets, Legs
<1>10. CASE kind = "roll" /\ pc.leg = "near" /\ Go("submit", "new")
  <2>1. \A l \in SentLegs : Sent(l)'
    BY <1>1, <1>5, <1>10 DEF Sent, Go, Still
  <2> QED BY <1>1, <1>4, <1>10, <2>1, GoSide DEF Stages, Targets, Legs
<1> QED BY <1>3, <1>6, <1>7, <1>8, <1>9, <1>10

LEMMA OwnOrder ==
  ASSUME ExecInv, pc.at \in Awaited \cup {"drop"}
  PROVE  id[pc.leg] \in DOMAIN orders /\ pc.leg \in Targets
BY CallTyped DEF ExecInv, StageOK, IdsOK, Own

LEMMA WaitSide ==
  ASSUME ExecInv, SideInv, WaitGivesUp \/ WaitLost
  PROVE  SideInv'
<1>1. pc.at = "wait" /\ Still /\ pc.leg \in Targets /\ got' = got
  BY CallTyped, SameOrdersStill DEF WaitGivesUp, WaitLost, At
<1>2. \A l \in BackLegs : kind = "close" /\ l = "near" /\ pc.leg = "far" /\ "near" \notin got
  BY <1>1, BackWhileAwaited DEF Awaited
<1>3. \A l \in SentLegs : kind # "enter" => Sent(l)
  BY DEF SideInv, PlaceLaw
<1>4. \/ pc.leg # "combo" /\ Go("cancel", pc.leg)
      \/ pc.leg = "combo" /\ Go("drop", pc.leg)
      \/ pc.leg = "combo" /\ Go("submit", "near")
      \/ pc' = [pc EXCEPT !.at = "returned"]
  BY DEF WaitGivesUp, WaitLost, Return
<1>5. kind = "enter" /\ pc.leg = "far" => Whole("near")
  BY FarNeedsNear
<1>6. CASE pc.leg # "combo" /\ Go("cancel", pc.leg)
  <2>1. kind # "enter" => \A l \in SentLegs : Sent(l)'
    BY <1>1, <1>3, <1>6 DEF Sent, Go, Still
  <2>2. \A l \in BackLegs : Past(l)'
    BY <1>1, <1>2, <1>6 DEF Past, Go, Awaited, Still
  <2> QED BY <1>1, <1>5, <1>6, <2>1, <2>2, GoSide DEF Stages
<1>7. CASE pc.leg = "combo"
  <2>1. kind = "enter" /\ BackLegs = {}
    BY <1>2, <1>7, CallTyped
  <2>2. Go("drop", "combo") \/ Go("submit", "near") => SideInv'
    BY <1>1, <2>1, GoSide DEF Stages, Targets, Legs
  <2> QED BY <1>1, <1>4, <1>7, <2>2, EndSide
<1> QED BY <1>1, <1>4, <1>6, <1>7, EndSide

LEMMA DropSide ==
  ASSUME ExecInv, SideInv, Drop
  PROVE  SideInv'
<1>1. pc.at = "drop" /\ id[pc.leg] \in DOMAIN orders
  BY OwnOrder DEF Drop, At
<1>2. Still
  BY <1>1, CancelStill DEF Drop
<1>3. CASE pc.leg = "combo" /\ Go("submit", "near")
  <2>1. kind = "enter" /\ BackLegs = {}
    BY <1>1, <1>3, CallTyped DEF SideInv, PlaceLaw, Past, Awaited
  <2> QED BY <1>2, <1>3, <2>1, GoSide DEF Stages, Targets, Legs
<1>4. CASE pc' = [pc EXCEPT !.at = "returned"]
  BY <1>2, <1>4, EndSide
<1> QED BY <1>3, <1>4 DEF Drop, Return

\* From one request of _cancel_and_flatten to the next.
LEMMA FlattenOn ==
  ASSUME ExecInv, SideInv, Still, got' = got, pc.at \in {"cancel", "query"},
         Go("flatten", pc.leg) \/ Go("query", pc.leg)
  PROVE  SideInv'
<1>1. \A l \in BackLegs : kind = "close" /\ l = "near" /\ pc.leg = "far" /\ "near" \notin got
  BY BackWhileAwaited DEF Awaited
<1>2. /\ pc.leg \in Targets /\ pc.leg # "combo"
      /\ (kind # "enter" => \A l \in SentLegs : Sent(l))
      /\ (kind = "enter" /\ pc.leg = "far" => Whole("near"))
  BY CallTyped DEF SideInv, PlaceLaw
<1>3. kind # "enter" => \A l \in SentLegs : Sent(l)'
  BY <1>2 DEF Sent, Go, Still
<1>4. \A l \in BackLegs : Past(l)'
  BY <1>1 DEF Past, Go, Awaited, Still
<1> QED BY <1>2, <1>3, <1>4, GoSide DEF Stages

LEMMA CancelSide ==
  ASSUME ExecInv, SideInv, CancelOrder
  PROVE  SideInv'
<1>1. pc.at = "cancel" /\ id[pc.leg] \in DOMAIN orders
  BY OwnOrder DEF CancelOrder, At, Awaited
<1>2. orders' = orders \/ orders' = Cancelled(id[pc.leg])
  BY DEF CancelOrder
<1>3. Still
  BY <1>1, <1>2, CancelStill DEF CancelOrder
<1> QED BY <1>1, <1>3, FlattenOn DEF CancelOrder

\* Where a call goes on when an order has been cancelled, and reversed or not.
LEMMA AfterPlace ==
  ASSUME ExecInv, SideInv, pc.at \in {"query", "flatten"}, AfterFlatten(pc.leg),
         kind' = kind, got' = got, SentLegs' = SentLegs,
         BackLegs' = BackLegs \/ (pc.at = "flatten" /\ BackLegs' \subseteq BackLegs \cup {pc.leg}),
         \A leg \in Targets : Whole(leg) => Whole(leg)'
  PROVE  PlaceLaw'
<1>1. \A l \in BackLegs : kind = "close" /\ l = "near" /\ pc.leg = "far" /\ "near" \notin got
  BY BackWhileAwaited DEF Awaited
<1>2. \A l \in SentLegs : kind # "enter" => Sent(l)
  BY DEF SideInv, PlaceLaw
<1>3. \/ pc' = [pc EXCEPT !.at = "returned"]
      \/ kind = "enter" /\ pc.leg = "far" /\ Go("undo", "near") /\ Whole("near")
      \/ kind = "close" /\ pc.leg = "near" /\ Go("wait", "far") /\ "near" \notin got
      \/ kind = "close" /\ pc.leg = "far" /\ "near" \in got /\ Go("undo", "near") /\ Whole("near")
  <2>1. /\ kind = "enter" /\ pc.leg = "far" => Whole("near")
        /\ kind = "close" /\ "near" \in got => Whole("near")
        /\ kind = "close" /\ pc.leg = "near" => "near" \notin got
    BY FarNeedsNear DEF ExecInv, StageOK, Awaited
  <2> QED BY <2>1 DEF AfterFlatten, EnterAfterFlatten, CloseAfterFlatten, RollAfterFlatten, Return
<1>4. "near" \in Targets
  BY DEF Targets, Legs
<1>5. CASE pc' = [pc EXCEPT !.at = "returned"]
  BY <1>5, EndPlace DEF SideInv
<1>6. CASE kind = "enter" /\ pc.leg = "far" /\ Go("undo", "near") /\ Whole("near")
  BY <1>1, <1>4, <1>6 DEF PlaceLaw, Past, Go
<1>7. CASE kind = "close" /\ pc.leg = "near" /\ Go("wait", "far") /\ "near" \notin got
  BY <1>1, <1>2, <1>7 DEF PlaceLaw, Past, Sent, Go, Awaited
<1>8. CASE kind = "close" /\ pc.leg = "far" /\ "near" \in got /\ Go("undo", "near") /\ Whole("near")
  BY <1>1, <1>2, <1>4, <1>8 DEF PlaceLaw, Past, Sent, Go
<1> QED BY <1>3, <1>5, <1>6, <1>7, <1>8

LEMMA QuerySide ==
  ASSUME ExecInv, SideInv, QueryFilled
  PROVE  SideInv'
<1>1. pc.at = "query" /\ Still /\ got' = got
  BY SameOrdersStill DEF QueryFilled, At
<1>2. CASE Go("flatten", pc.leg)
  BY <1>1, <1>2, FlattenOn
<1>3. CASE AfterFlatten(pc.leg)
  <2>1. /\ OrdersLaw' /\ HeldLaw' /\ BackLegs' = BackLegs /\ SentLegs' = SentLegs
        /\ \A leg \in Targets : Whole(leg) => Whole(leg)'
    BY <1>1, StillSide
  <2>2. PlaceLaw'
    BY <1>1, <1>3, <2>1, AfterPlace DEF Still
  <2> QED BY <2>1, <2>2 DEF SideInv
<1> QED BY <1>2, <1>3 DEF QueryFilled

\* A reversing order is sent, or not.
LEMMA ReverseSide ==
  ASSUME ExecInv, SideInv, pc.leg # "combo", NEW amount \in Nat \ {0}, id[pc.leg] # 0,
         amount <= orders[id[pc.leg]].filled, pc.leg \notin BackLegs,
         NEW known \in Seq(OrderStates), Len(known) = Len(orders),
         BookReverse(pc.leg, amount, known) \/ SendFails(pc.leg, amount, known),
         id' = id, kind' = kind
  PROVE  /\ OrdersLaw' /\ HeldLaw'
         /\ BackLegs' \subseteq BackLegs \cup {pc.leg} /\ SentLegs' = SentLegs
         /\ \A l \in Targets : Whole(l) => Whole(l)'
<1> DEFINE leg == pc.leg
<1>1. /\ leg \in Legs /\ leg \in Targets /\ leg \in Involved /\ leg \notin BackLegs
      /\ id[leg] # 0 /\ amount <= orders[id[leg]].filled
      /\ BookReverse(leg, amount, known) \/ SendFails(leg, amount, known)
  BY CallTyped, InvolvedLeg DEF Targets, Legs
<1> HIDE DEF leg
<1>2. \A l \in Targets : Whole(l) => Whole(l)'
  BY <1>1, SentStep
<1>3. CASE BookReverse(leg, amount, known)
  <2>1. /\ OrdersLaw' /\ HeldLaw'
        /\ BackLegs' \subseteq BackLegs \cup {leg} /\ SentLegs' = SentLegs
    BY <1>1, <1>3, ReverseLaws DEF SideInv
  <2> QED BY <1>2, <2>1 DEF leg
<1>4. CASE orders' = orders /\ held' = held
  <2>1. Still
    BY <1>4, SameOrdersStill
  <2> QED BY <2>1, StillSide
<1> QED BY <1>1, <1>3, <1>4 DEF SendFails

LEMMA FlattenSide ==
  ASSUME ExecInv, SideInv, Flatten
  PROVE  SideInv'
<1> DEFINE known == [manager EXCEPT ![id[pc.leg]] = "cancelled_partial"]
<1>1. /\ pc.at = "flatten" /\ AfterFlatten(pc.leg) /\ id' = id /\ kind' = kind /\ got' = got
      /\ BookReverse(pc.leg, partial, known) \/ SendFails(pc.leg, partial, known)
  BY DEF Flatten, FlattenAmount, At
<1>2. known \in Seq(OrderStates) /\ Len(known) = Len(orders)
  <2>1. manager \in Seq(OrderStates) /\ Len(manager) = Len(orders) /\ "cancelled_partial" \in OrderStates
    BY DEF ExecInv, ManagerType, OrderStates
  <2>2. known \in Seq(OrderStates) /\ Len(known) = Len(manager)
    BY <2>1, StateSet
  <2> QED BY <2>1, <2>2
<1>3. partial \in Nat \ {0} /\ partial <= orders[id[pc.leg]].filled /\ id[pc.leg] # 0
  BY <1>1 DEF ExecInv, PartialOK, CallType, StageOK, Awaited
<1>4. pc.leg # "combo" /\ pc.leg \notin BackLegs
  BY <1>1, BackWhileAwaited DEF SideInv, PlaceLaw, Awaited
<1> HIDE DEF known
<1>5. /\ OrdersLaw' /\ HeldLaw'
      /\ BackLegs' \subseteq BackLegs \cup {pc.leg} /\ SentLegs' = SentLegs
      /\ \A l \in Targets : Whole(l) => Whole(l)'
  BY <1>1, <1>2, <1>3, <1>4, ReverseSide
<1>6. PlaceLaw'
  BY <1>1, <1>5, AfterPlace
<1> QED BY <1>5, <1>6 DEF SideInv

LEMMA UndoSide ==
  ASSUME ExecInv, SideInv, Undo
  PROVE  SideInv'
<1>1. /\ pc.at = "undo" /\ pc' = [pc EXCEPT !.at = "returned"]
      /\ BookReverse(pc.leg, Qty, manager) \/ SendFails(pc.leg, Qty, manager)
      /\ id' = id /\ kind' = kind
  BY DEF Undo, At, Return
<1>2. /\ Qty \in Nat \ {0} /\ manager \in Seq(OrderStates) /\ Len(manager) = Len(orders)
      /\ pc.leg # "combo" /\ pc.leg \notin BackLegs
      /\ id[pc.leg] # 0 /\ Qty <= orders[id[pc.leg]].filled
  <2>1. Whole(pc.leg) /\ pc.leg # "combo" /\ pc.leg \notin BackLegs
    BY <1>1 DEF SideInv, PlaceLaw, Past, Awaited
  <2> QED BY <2>1, ExecutorAssumption DEF Whole, ExecInv, ManagerType
<1>3. /\ OrdersLaw' /\ HeldLaw'
      /\ BackLegs' \subseteq BackLegs \cup {pc.leg} /\ SentLegs' = SentLegs
      /\ \A l \in Targets : Whole(l) => Whole(l)'
  BY <1>1, <1>2, ReverseSide
<1>4. PlaceLaw'
  BY <1>1, <1>3, EndPlace DEF SideInv
<1> QED BY <1>3, <1>4 DEF SideInv

-----------------------------------------------------------------------------
LEMMA SideStep == ExecInv /\ SideInv /\ [Next]_vars => SideInv'
<1> SUFFICES ASSUME ExecInv, SideInv, [Next]_vars PROVE SideInv'
  OBVIOUS
<1>1. CASE ConnectFails
  BY <1>1, SameOrdersStill, EndSide DEF ConnectFails, Return
<1>2. CASE SubmitRefused
  BY <1>2, SameOrdersStill, GiveUpSide DEF SubmitRefused, At
<1>3. CASE Executor
  BY <1>1, <1>2, <1>3, SubmitSide, SubmitLostSide, FilledSide, WaitSide, DropSide,
     CancelSide, QuerySide, FlattenSide, UndoSide DEF Executor
<1>4. CASE Exchange
  BY <1>4, ExchangeSide DEF Exchange
<1>5. CASE UNCHANGED vars
  BY <1>5, SameOrdersStill, StillPlace DEF vars
<1> QED BY <1>3, <1>4, <1>5 DEF Next

\* What a reversal can take back of a leg is what its order had filled.
LEMMA NetBounds ==
  ASSUME ExecInv, SideInv, NEW leg \in Legs, leg \in Involved
  PROVE  /\ Net(leg) \in Int /\ Qty \in Nat /\ Net(leg) >= 0
         /\ kind # "enter" => Net(leg) <= Qty
<1>1. /\ Net(leg) \in Int /\ Qty \in Nat /\ leg \in Targets /\ Known(leg) \in Nat
      /\ AtLeast(leg) /\ (kind # "enter" => AtMost(leg))
  BY BeforeType, NetType, KnownType DEF SideInv, HeldLaw, Targets
<1>2. \A i \in DOMAIN orders :
         /\ Lawful(i) /\ orders[i].filled \in Nat /\ orders[i].amount \in Nat
         /\ orders[i].filled <= orders[i].amount
  BY OrderTyped DEF SideInv, OrdersLaw, ExecInv, OrdersType
<1>3. ASSUME NEW i \in DOMAIN orders, Back(i, leg) PROVE Net(leg) >= 0
  <2>1. orders[i].filled <= Known(leg)
    BY <1>1, <1>2, <1>3 DEF Back, Lawful, Known
  <2> QED BY <1>1, <1>2, <1>3, <2>1 DEF AtLeast
<1>4. Net(leg) >= 0
  BY <1>1, <1>3 DEF AtLeast
<1>5. ASSUME kind # "enter", NEW i \in DOMAIN orders, Ahead(i, leg) PROVE Net(leg) <= Qty
  BY <1>1, <1>2, <1>5 DEF Ahead, Lawful, AtMost
<1>6. kind # "enter" => Net(leg) <= Qty
  BY <1>1, <1>5 DEF AtMost
<1> QED BY <1>1, <1>4, <1>6

LEMMA SideBounds ==
  ASSUME ExecInv, SideInv
  PROVE  StaysOnItsSide
<1>1. /\ Qty \in Nat /\ held["near"] \in Int /\ held["far"] \in Int /\ held["new"] \in Int
      /\ kind \in {"enter", "close", "roll"}
      /\ \A leg \in Legs : leg \notin Involved => held[leg] = Before(kind)[leg]
  BY BeforeType, CallTyped DEF SideInv, HeldLaw, Legs
<1>2. CASE kind = "enter"
  <2>1. Net("near") >= 0 /\ Net("far") >= 0
    BY <1>2, NetBounds DEF Involved, Legs
  <2>2. Net("near") = -held["near"] /\ Net("far") = held["far"] /\ held["new"] = 0
    BY <1>1, <1>2 DEF Net, Direction, Before, Flat, Involved, Legs
  <2> QED BY <1>1, <1>2, <2>1, <2>2 DEF StaysOnItsSide
<1>3. CASE kind = "close"
  <2>1. Net("near") \in 0..Qty /\ Net("far") \in 0..Qty
    BY <1>3, NetBounds DEF Involved, Legs
  <2>2. Net("near") = held["near"] + Qty /\ Net("far") = Qty - held["far"] /\ held["new"] = 0
    BY <1>1, <1>3 DEF Net, Direction, Before, Spread, Involved, Legs
  <2> QED BY <1>1, <1>3, <2>1, <2>2 DEF StaysOnItsSide
<1>4. CASE kind = "roll"
  <2>1. Net("near") \in 0..Qty /\ Net("new") \in 0..Qty
    BY <1>4, NetBounds DEF Involved, Legs
  <2>2. Net("near") = held["near"] + Qty /\ Net("new") = -held["new"] /\ held["far"] = Qty
    BY <1>1, <1>4 DEF Net, Direction, Before, Spread, Involved, Legs
  <2> QED BY <1>1, <1>4, <2>1, <2>2 DEF StaysOnItsSide
<1> QED BY <1>1, <1>2, <1>3, <1>4

\* Reversing never overshoots: the near leg is never held long nor the far leg short, and a
\* close or a roll never adds to a leg, for every quantity, retry limit and set of faults.
THEOREM SideHolds == Spec => []StaysOnItsSide
<1>1. Init => ExecInv /\ SideInv
  BY InvInit, SideInit
<1>2. ExecInv /\ SideInv /\ [Next]_vars => (ExecInv /\ SideInv)'
  BY InvStep, SideStep
<1>3. ExecInv /\ SideInv => StaysOnItsSide
  BY SideBounds
<1> QED BY <1>1, <1>2, <1>3, PTL DEF Spec

-----------------------------------------------------------------------------
(* The contract: an entry or a close in which nothing goes wrong.          *)

\* The orders that may still fill.
Live(leg) ==
    \/ pc.at \in {"wait", "cancel", "drop"} /\ pc.leg = leg
    \/ kind = "close" /\ leg = "near" /\ pc.at = "submit"
    \/ kind = "close" /\ leg = "far" /\ pc.leg = "near" /\ pc.at \in Awaited

LiveLaw ==
    \A i \in DOMAIN orders :
        orders[i].status = "open" => Live(orders[i].leg) /\ i = id[orders[i].leg]

Spreads == {"near", "far"}

\* A leg has traded what its order and the combo have filled, or is back where it was.
ExactLaw ==
    \A leg \in Spreads :
        Net(leg) = IF leg \in BackLegs THEN 0 ELSE Known(leg) + Known("combo")

\* The combo fills whole, and then the call ends.
ComboLaw ==
    /\ kind = "close" => id["combo"] = 0
    /\ Known("combo") # 0 =>
          /\ Known("combo") = Qty /\ id["near"] = 0 /\ id["far"] = 0
          /\ \/ pc.at = "wait" /\ pc.leg = "combo"
             \/ pc.at = "returned" /\ outcome = "filled"

\* What is not sent yet, and what has been traded where the call goes on.
TradedLaw ==
    /\ pc.at = "submit" => id[pc.leg] = 0
    /\ kind = "enter" /\ pc.leg # "far" /\ pc.at \notin {"undo", "returned"} => id["far"] = 0
    /\ kind = "close" /\ pc.at = "submit" => id["far"] = 0
    /\ pc.at = "drop" => pc.leg = "combo"
    /\ kind = "close" /\ pc.leg = "far" /\ pc.at \in Awaited /\ "near" \notin got => Net("near") = 0
    /\ pc.at = "flatten" => partial = Known(pc.leg)
    /\ pc.at = "undo" => \A leg \in Spreads \ {pc.leg} : Net(leg) = 0
    /\ outcome = "filled" => \A leg \in Spreads : Net(leg) = Qty
    /\ outcome \in {"failed", "legrisk"} => \A leg \in Spreads : Net(leg) = 0

CalmLaws == LiveLaw /\ ExactLaw /\ ComboLaw /\ TradedLaw
CalmInv == Relied => CalmLaws

LEMMA CalmInit == Init => CalmInv
<1> SUFFICES ASSUME Init, Relied PROVE CalmLaws
  BY DEF CalmInv
<1>1. /\ kind \in {"enter", "close"} /\ orders = <<>> /\ DOMAIN orders = {}
      /\ held = Before(kind) /\ outcome = "none"
      /\ id = [leg \in Targets |-> 0]
      /\ pc.at = "submit" /\ pc.leg = FirstLeg(kind)
  BY ExecutorAssumption DEF Init, Relied
<1>2. \A leg \in Targets : Known(leg) = 0 /\ id[leg] = 0
  BY <1>1 DEF Known
<1>3. BackLegs = {} /\ \A leg \in Spreads : Net(leg) = 0
  <2>1. \A leg \in Spreads : Before(kind)[leg] \in Int
    BY BeforeType DEF Spreads, Legs
  <2> QED BY <1>1, <2>1 DEF BackLegs, Net
<1>4. LiveLaw /\ ExactLaw /\ ComboLaw
  BY <1>1, <1>2, <1>3 DEF LiveLaw, ExactLaw, ComboLaw, Spreads, Targets, Legs
<1>5. TradedLaw
  BY <1>1, <1>2 DEF TradedLaw, Spreads, Targets, Legs, FirstLeg, Awaited
<1> QED BY <1>4, <1>5 DEF CalmLaws

LEMMA CalmFacts ==
  ASSUME ExecInv, SideInv, Relied
  PROVE  /\ faults = {} /\ kind \in {"enter", "close"} /\ pc.leg \in {"combo", "near", "far"}
         /\ kind = "close" => pc.leg # "combo"
         /\ Qty \in Nat \ {0} /\ Known("combo") \in Nat
         /\ \A leg \in Spreads : /\ leg \in Legs /\ leg \in Targets /\ leg \in Involved
                                 /\ Net(leg) \in Int /\ Known(leg) \in Nat
<1>1. faults = {} /\ kind \in {"enter", "close"}
  BY CallTyped DEF Relied
<1>2. pc.leg \in {"combo", "near", "far"} /\ (kind = "close" => pc.leg # "combo")
  BY <1>1, CallTyped
<1>3. ASSUME NEW leg \in Targets PROVE Known(leg) \in Nat
  BY KnownType DEF SideInv
<1>4. ASSUME NEW leg \in Legs PROVE Net(leg) \in Int
  BY NetType DEF SideInv, HeldLaw
<1> QED BY <1>1, <1>2, <1>3, <1>4, ExecutorAssumption DEF Spreads, Targets, Legs, Involved

\* A leg whose order has filled and was not traded back.
LEMMA WholeNet ==
  ASSUME ExecInv, SideInv, Relied, CalmLaws, NEW leg \in Spreads, Whole(leg), leg \notin BackLegs
  PROVE  Net(leg) = Qty
<1>1. Known(leg) = Qty /\ Known("combo") = 0
  BY DEF Whole, Known, CalmLaws, ComboLaw, Spreads
<1> QED BY <1>1, CalmFacts DEF CalmLaws, ExactLaw

\* A leg of which nothing was traded.
LEMMA NoNet ==
  ASSUME ExecInv, SideInv, Relied, CalmLaws, NEW leg \in Spreads,
         Known(leg) = 0, Known("combo") = 0
  PROVE  Net(leg) = 0
BY CalmFacts DEF CalmLaws, ExactLaw

\* A step that sends and fills nothing.
LEMMA StillNets ==
  ASSUME ExecInv, SideInv, Relied, CalmLaws, Still
  PROVE  /\ ExactLaw' /\ BackLegs' = BackLegs /\ Involved' = Involved
         /\ \A leg \in Targets : Known(leg)' = Known(leg)
         /\ \A leg \in Spreads : Net(leg)' = Net(leg)
<1>1. BackLegs' = BackLegs
  BY StillSide
<1>2. ASSUME NEW leg \in Targets PROVE Known(leg)' = Known(leg)
  BY <1>2, KnownType DEF Known, Still, SideInv
<1>3. ASSUME NEW leg \in Spreads PROVE Net(leg)' = Net(leg)
  BY <1>3 DEF Net, Before, Still
<1>4. ExactLaw'
  BY <1>1, <1>2, <1>3 DEF ExactLaw, CalmLaws, Spreads, Targets, Legs
<1> QED BY <1>1, <1>2, <1>3, <1>4 DEF Involved, Still

\* The call ends, with nothing that may still fill.
LEMMA EndCalm ==
  ASSUME ExecInv, SideInv, Relied, CalmLaws, Still, NEW o \in {"filled", "failed", "legrisk"},
         Return(o), \A i \in DOMAIN orders : orders'[i].status # "open",
         o = "filled" => \A leg \in Spreads : Net(leg) = Qty,
         o # "filled" => Known("combo") = 0 /\ \A leg \in Spreads : Net(leg) = 0
  PROVE  CalmInv'
<1>1. pc'.at = "returned" /\ outcome' = o
  BY CallTyped DEF Return
<1>2. /\ ExactLaw' /\ Known("combo")' = Known("combo") /\ \A leg \in Spreads : Net(leg)' = Net(leg)
  BY StillNets DEF Targets
<1>3. LiveLaw'
  BY DEF LiveLaw, Still, Alike
<1>4. ComboLaw'
  BY <1>1, <1>2 DEF ComboLaw, CalmLaws, Still
<1>5. TradedLaw'
  BY <1>1, <1>2 DEF TradedLaw, Awaited
<1> QED BY <1>2, <1>3, <1>4, <1>5 DEF CalmInv, CalmLaws

\* A call that is about to submit has traded nothing of the leg it submits.
LEMMA AtSubmit ==
  ASSUME ExecInv, SideInv, Relied, CalmLaws, pc.at = "submit", pc.leg \in {"combo", "near"}
  PROVE  /\ Known("combo") = 0 /\ (\A leg \in Spreads : id[leg] = 0 /\ Net(leg) = 0)
         /\ \A i \in DOMAIN orders : orders[i].status # "open"
<1>1. id["near"] = 0 /\ id["far"] = 0 /\ Known("combo") = 0
  BY CalmFacts DEF CalmLaws, TradedLaw, ComboLaw, ExecInv, StageOK
<1>2. ASSUME NEW leg \in Spreads PROVE id[leg] = 0 /\ Net(leg) = 0
  <2>1. id[leg] = 0 /\ Known(leg) = 0
    BY <1>1, <1>2 DEF Known, Spreads
  <2> QED BY <1>1, <2>1, NoNet
<1>3. ASSUME NEW i \in DOMAIN orders, orders[i].status = "open" PROVE FALSE
  <2>1. Live(orders[i].leg) /\ i = id[orders[i].leg]
    BY <1>3 DEF CalmLaws, LiveLaw
  <2>2. orders[i].leg = "near"
    BY <2>1 DEF Live, Awaited
  <2>3. i = 0
    BY <1>1, <2>1, <2>2
  <2> QED BY <1>3, <2>3 DEF ExecInv, OrdersType
<1> QED BY <1>1, <1>2, <1>3

LEMMA ConnectCalm ==
  ASSUME ExecInv, SideInv, Relied, CalmLaws, ConnectFails
  PROVE  CalmInv'
<1>1. pc.at = "submit" /\ pc.leg \in {"combo", "near"} /\ Return("failed") /\ orders' = orders
  BY DEF ConnectFails, At
<1>2. Still
  BY SameOrdersStill DEF ConnectFails
<1> QED BY <1>1, <1>2, AtSubmit, EndCalm

LEMMA RefusedCalm ==
  ASSUME ExecInv, SideInv, Relied, CalmLaws, SubmitRefused
  PROVE  CalmInv'
<1>1. /\ pc.at = "submit" /\ pc.leg \in {"combo", "near"} /\ orders' = orders /\ Still
      /\ GiveUpSubmit(pc.leg)
  BY CalmFacts, SameOrdersStill DEF SubmitRefused, At
<1>2. /\ Known("combo") = 0 /\ (\A leg \in Spreads : id[leg] = 0 /\ Net(leg) = 0)
      /\ \A i \in DOMAIN orders : orders[i].status # "open"
  BY <1>1, AtSubmit
<1>3. CASE Return("failed")
  BY <1>1, <1>2, <1>3, EndCalm
<1>4. CASE pc.leg = "combo" /\ Go("submit", "near")
  <2>1. pc'.at = "submit" /\ pc'.leg = "near" /\ outcome' = outcome /\ kind' = kind /\ kind = "enter"
    BY <1>4, CalmFacts DEF Go, SubmitRefused
  <2>2. outcome = "none"
    BY <1>1 DEF ExecInv, StageOK
  <2>3. ExactLaw' /\ Known("combo")' = 0 /\ \A leg \in Spreads : id'[leg] = 0
    BY <1>1, <1>2, StillNets DEF Still, Targets
  <2>4. LiveLaw'
    BY <1>1, <1>2 DEF LiveLaw
  <2>5. ComboLaw' /\ TradedLaw'
    BY <2>1, <2>2, <2>3 DEF ComboLaw, TradedLaw, Spreads, Awaited
  <2> QED BY <2>3, <2>4, <2>5 DEF CalmInv, CalmLaws
<1> QED BY <1>1, <1>3, <1>4 DEF GiveUpSubmit

\* An order is sent: it has filled nothing, and nothing else changes.
LEMMA SendNets ==
  ASSUME ExecInv, SideInv, Relied, CalmLaws, pc.at = "submit", Place(pc.leg)
  PROVE  /\ ExactLaw' /\ kind' = kind
         /\ \A leg \in Targets : Known(leg)' = Known(leg) /\ (leg # pc.leg => id'[leg] = id[leg])
         /\ \A i \in DOMAIN orders' : orders'[i].status = "open" =>
               \/ i = id'[pc.leg] /\ orders'[i].leg = pc.leg
               \/ /\ i = id'[orders'[i].leg] /\ kind = "close" /\ pc.leg = "far" /\ orders'[i].leg = "near"
<1> DEFINE o == Order(pc.leg, Direction(kind, pc.leg), Qty, 0)
<1>1. /\ o \in OrderType /\ o.filled = 0 /\ o.leg = pc.leg /\ o.undoes = 0
      /\ orders' = Append(orders, o) /\ held' = held /\ kind' = kind
      /\ id' = [id EXCEPT ![pc.leg] = Len(orders) + 1] /\ id[pc.leg] = 0
      /\ pc.leg \in Targets /\ id \in [Targets -> Nat]
  <2>1. o \in OrderType
    BY CallTyped, ExecutorAssumption, Directed DEF Order, OrderType
  <2>2. o.filled = 0 /\ o.leg = pc.leg /\ o.undoes = 0
    BY DEF Order
  <2> QED BY <2>1, <2>2, CallTyped DEF Place, Book, CalmLaws, TradedLaw, ExecInv, IdsOK
<1> HIDE DEF o
<1>2. PICK n : /\ n = Len(orders) + 1
               /\ DOMAIN orders' = DOMAIN orders \cup {n} /\ n \notin DOMAIN orders /\ n # 0
               /\ orders'[n] = o /\ \A i \in DOMAIN orders : orders'[i] = orders[i]
  BY <1>1, AppendLaws DEF SideInv
<1>3. ASSUME NEW leg \in Targets
      PROVE  Known(leg)' = Known(leg) /\ (leg # pc.leg => id'[leg] = id[leg])
             /\ (leg = pc.leg => id'[leg] = n)
  <2>1. id[leg] # 0 => id[leg] \in DOMAIN orders
    BY KnownType DEF SideInv
  <2> QED BY <1>1, <1>2, <2>1 DEF Known
<1>4. ASSUME NEW leg \in Spreads
      PROVE  Net(leg)' = Net(leg) /\ (leg \in BackLegs' <=> leg \in BackLegs)
  <2>1. Net(leg)' = Net(leg)
    BY <1>1 DEF Net, Before
  <2>2. leg \in BackLegs' <=> leg \in BackLegs
    BY <1>1, <1>2 DEF BackLegs, Back
  <2> QED BY <2>1, <2>2
<1>5. ExactLaw'
  BY <1>3, <1>4 DEF ExactLaw, CalmLaws, Spreads, Targets, Legs
<1>6. ASSUME NEW i \in DOMAIN orders', orders'[i].status = "open", i # n
      PROVE  i = id'[orders'[i].leg] /\ kind = "close" /\ pc.leg = "far" /\ orders'[i].leg = "near"
  <2>1. Live(orders[i].leg) /\ i = id[orders[i].leg] /\ orders'[i] = orders[i]
    BY <1>2, <1>6 DEF CalmLaws, LiveLaw
  <2>2. orders[i].leg = "near" /\ kind = "close"
    BY <2>1 DEF Live, Awaited
  <2>3. pc.leg \in {"near", "far"} /\ pc.leg # "near"
    BY <1>1, <1>2, <1>6, <2>1, <2>2, CalmFacts DEF ExecInv, OrdersType
  <2> QED BY <1>3, <2>1, <2>2, <2>3 DEF Targets, Legs
<1> QED BY <1>1, <1>2, <1>3, <1>5, <1>6

LEMMA SubmitCalm ==
  ASSUME ExecInv, SideInv, Relied, CalmLaws, EnterSubmit \/ CloseSubmit \/ RollSubmit
  PROVE  CalmInv'
<1>1. pc.at = "submit" /\ Place(pc.leg) /\ outcome = "none" /\ outcome' = outcome
  <2>1. PICK leg : Place(leg)
    BY DEF EnterSubmit, CloseSubmit, RollSubmit
  <2> QED BY <2>1 DEF Place, At, ExecInv, StageOK, EnterSubmit, CloseSubmit, RollSubmit, Go
<1>2. \/ kind = "close" /\ pc.leg = "near" /\ pc'.at = "submit" /\ pc'.leg = "far"
      \/ kind = "close" /\ pc.leg = "far" /\ pc'.at = "wait" /\ pc'.leg = "near"
      \/ kind = "enter" /\ pc'.at = "wait" /\ pc'.leg = pc.leg
  BY CalmFacts DEF EnterSubmit, CloseSubmit, RollSubmit, Place, Go
<1>3. /\ ExactLaw' /\ kind' = kind
      /\ \A leg \in Targets : Known(leg)' = Known(leg) /\ (leg # pc.leg => id'[leg] = id[leg])
  BY <1>1, SendNets
<1>4. LiveLaw'
  <2>1. \A i \in DOMAIN orders' : orders'[i].status = "open" =>
           \/ i = id'[pc.leg] /\ orders'[i].leg = pc.leg
           \/ /\ i = id'[orders'[i].leg] /\ kind = "close" /\ pc.leg = "far" /\ orders'[i].leg = "near"
    BY <1>1, SendNets
  <2> QED BY <1>2, <1>3, <2>1 DEF LiveLaw, Live, Awaited
<1>5. ComboLaw'
  BY <1>1, <1>2, <1>3, CalmFacts DEF ComboLaw, CalmLaws, Targets, Legs
<1>6. TradedLaw'
  <2>1. /\ kind = "enter" /\ pc.leg # "far" => id'["far"] = 0
        /\ kind = "close" /\ pc.leg = "near" => id'["far"] = 0
    BY <1>1, <1>3 DEF TradedLaw, CalmLaws, Targets, Legs
  <2>2. outcome' = "none" /\ (pc'.at = "submit" => kind = "close" /\ pc.leg = "near" /\ pc'.leg = "far")
    BY <1>1, <1>2
  <2> QED BY <1>2, <1>3, <2>1, <2>2 DEF TradedLaw, Awaited
<1> QED BY <1>3, <1>4, <1>5, <1>6 DEF CalmInv, CalmLaws

\* A leg that was traded back while the call goes on is the near leg of a close.
LEMMA BackFar ==
  ASSUME ExecInv, SideInv, Relied, pc.at = "wait", "near" \in got \/ pc.leg # "far" \/ kind = "enter"
  PROVE  BackLegs = {}
BY BackWhileAwaited DEF Awaited

\* Nothing but the order awaited may still fill, and the far leg of a close.
LEMMA OpenOrders ==
  ASSUME ExecInv, CalmLaws, NEW i \in DOMAIN orders, orders[i].status = "open",
         pc.at \in {"wait", "cancel"}
  PROVE  \/ i = id[pc.leg]
         \/ kind = "close" /\ pc.leg = "near" /\ orders[i].leg = "far" /\ i = id["far"]
BY DEF CalmLaws, LiveLaw, Live

LEMMA FilledCalm ==
  ASSUME ExecInv, SideInv, Relied, CalmLaws, EnterFilled \/ CloseFilled \/ RollFilled
  PROVE  CalmInv'
<1>1. /\ pc.at = "wait" /\ SeenFilled(id[pc.leg]) /\ id[pc.leg] # 0 /\ pc.leg \in Targets
      /\ Still /\ orders' = orders /\ outcome = "none" /\ id[pc.leg] \in DOMAIN orders
      /\ id' = id /\ kind' = kind
  <2>1. PICK leg : Fills(leg)
    BY DEF EnterFilled, CloseFilled, RollFilled
  <2>2. Still
    BY <2>1, SameOrdersStill DEF Fills
  <2>3. pc.at = "wait"
    BY <2>1 DEF Fills, At
  <2> QED BY <2>1, <2>2, <2>3, OwnOrder DEF Fills, At, ExecInv, StageOK, Awaited
<1>2. Whole(pc.leg) /\ orders[id[pc.leg]].status # "open"
  <2> DEFINE leg == pc.leg
  <2>1. leg \in Targets /\ id[leg] # 0 /\ SeenFilled(id[leg]) /\ id[leg] \in DOMAIN orders
    BY <1>1
  <2> HIDE DEF leg
  <2>2. Whole(leg)
    BY <2>1, SeenIsWhole
  <2>3. orders[id[leg]].status = "filled"
    BY <2>1 DEF SeenFilled, ExecInv, OrdersType
  <2> QED BY <2>2, <2>3 DEF leg
<1>3. /\ ExactLaw' /\ (\A leg \in Targets : Known(leg)' = Known(leg))
      /\ \A leg \in Spreads : Net(leg)' = Net(leg)
  BY <1>1, StillNets
<1>4. pc.leg = "near" \/ kind = "enter" => BackLegs = {}
  BY <1>1, BackFar
<1>5. ASSUME pc.leg # "near" \/ kind = "enter", NEW i \in DOMAIN orders
      PROVE  orders'[i].status # "open"
  BY <1>1, <1>2, <1>5, OpenOrders
<1>6. pc.leg = "near" => Known("combo") = 0
  BY <1>1 DEF CalmLaws, ComboLaw
<1>7. CASE Return("filled") /\ (pc.leg # "near" \/ kind = "enter")
           /\ \A leg \in Spreads : Net(leg) = Qty
  BY <1>1, <1>3, <1>5, <1>7, EndCalm
<1>8. CASE kind = "enter" /\ pc.leg = "combo" /\ Return("filled")
  <2>1. Known("combo") = Qty /\ BackLegs = {}
    BY <1>2, <1>4, <1>8 DEF Known, Whole
  <2>2. id["near"] = 0 /\ id["far"] = 0
    BY <2>1, CalmFacts DEF CalmLaws, ComboLaw
  <2>3. \A leg \in Spreads : Net(leg) = Qty
    BY <2>1, <2>2, CalmFacts DEF CalmLaws, ExactLaw, Known, Spreads
  <2> QED BY <1>7, <1>8, <2>3
<1>9. CASE kind = "enter" /\ pc.leg = "far" /\ Return("filled")
  <2>1. Whole("near") /\ Whole("far") /\ BackLegs = {}
    BY <1>2, <1>4, <1>9, FarNeedsNear
  <2>2. \A leg \in Spreads : Net(leg) = Qty
    BY <2>1, WholeNet DEF Spreads
  <2> QED BY <1>7, <1>9, <2>2
<1>10. CASE kind = "close" /\ pc.leg = "far" /\ "near" \in got /\ Return("filled")
  <2>1. Whole("near") /\ Whole("far") /\ BackLegs = {}
    BY <1>1, <1>2, <1>10, BackFar DEF ExecInv, StageOK
  <2>2. \A leg \in Spreads : Net(leg) = Qty
    BY <2>1, WholeNet DEF Spreads
  <2> QED BY <1>7, <1>10, <2>2
<1>11. CASE kind = "enter" /\ pc.leg = "near" /\ Go("submit", "far")
  <2>1. pc'.at = "submit" /\ pc'.leg = "far" /\ outcome' = "none" /\ id["far"] = 0
    BY <1>1, <1>11 DEF Go, CalmLaws, TradedLaw
  <2>2. LiveLaw'
    BY <1>1, <1>5, <1>11 DEF LiveLaw
  <2>3. ComboLaw' /\ TradedLaw'
    BY <1>1, <1>3, <1>6, <1>11, <2>1 DEF ComboLaw, TradedLaw, Awaited, Targets
  <2> QED BY <1>3, <2>2, <2>3 DEF CalmInv, CalmLaws
<1>12. CASE kind = "close" /\ pc.leg = "near" /\ Go("wait", "far") /\ got' = {"near"}
  <2>1. pc'.at = "wait" /\ pc'.leg = "far" /\ outcome' = "none"
    BY <1>1, <1>12 DEF Go
  <2>2. LiveLaw'
    BY <1>1, <1>2, <1>12, <2>1, OpenOrders DEF LiveLaw, Live
  <2>3. ComboLaw' /\ TradedLaw'
    BY <1>1, <1>3, <1>6, <1>12, <2>1 DEF ComboLaw, TradedLaw, CalmLaws, Targets
  <2> QED BY <1>3, <2>2, <2>3 DEF CalmInv, CalmLaws
<1>13. CASE kind = "close" /\ pc.leg = "far" /\ "near" \notin got /\ Go("undo", "far")
  <2>1. pc'.at = "undo" /\ pc'.leg = "far" /\ outcome' = "none" /\ Known("combo") = 0
    BY <1>1, <1>13 DEF Go, CalmLaws, ComboLaw
  <2>2. LiveLaw'
    BY <1>1, <1>5, <1>13 DEF LiveLaw
  <2>3. Net("near") = 0
    BY <1>1, <1>13 DEF CalmLaws, TradedLaw, Awaited
  <2>4. ComboLaw' /\ TradedLaw'
    BY <1>1, <1>3, <1>13, <2>1, <2>3 DEF ComboLaw, TradedLaw, CalmLaws, Targets, Spreads, Awaited
  <2> QED BY <1>3, <2>2, <2>4 DEF CalmInv, CalmLaws
<1> QED
  BY <1>8, <1>9, <1>10, <1>11, <1>12, <1>13, CalmFacts
     DEF EnterFilled, CloseFilled, RollFilled, Fills

\* The step goes on from the order awaited, and nothing has been told yet.
LEMMA OnTheWay ==
  ASSUME ExecInv, pc.at \in Awaited \cup {"drop"}
  PROVE  /\ outcome = "none" /\ id[pc.leg] # 0 /\ id[pc.leg] \in DOMAIN orders /\ pc.leg \in Targets
         /\ orders[id[pc.leg]].amount = Qty
BY OwnOrder DEF ExecInv, StageOK, IdsOK, Own, Awaited

LEMMA WaitCalm ==
  ASSUME ExecInv, SideInv, Relied, CalmLaws, WaitGivesUp
  PROVE  CalmInv'
<1>1. /\ pc.at = "wait" /\ Still /\ orders' = orders /\ got' = got /\ faults = {}
      /\ id' = id /\ kind' = kind
  BY SameOrdersStill, CalmFacts DEF WaitGivesUp, At
<1>2. /\ outcome = "none" /\ id[pc.leg] # 0 /\ id[pc.leg] \in DOMAIN orders /\ pc.leg \in Targets
      /\ orders[id[pc.leg]].amount = Qty
  BY <1>1, OnTheWay DEF Awaited
<1>3. /\ ExactLaw' /\ (\A leg \in Targets : Known(leg)' = Known(leg))
      /\ \A leg \in Spreads : Net(leg)' = Net(leg)
  BY <1>1, StillNets
<1>4. ~SeenFilled(id[pc.leg])
  BY <1>1 DEF WaitGivesUp, TimedOut
<1>5. CASE pc.leg # "combo" /\ Go("cancel", pc.leg)
  <2>1. pc'.at = "cancel" /\ pc'.leg = pc.leg /\ outcome' = "none"
    BY <1>2, <1>5 DEF Go
  <2>2. Known("combo") = 0
    BY <1>2, <1>5, CalmFacts DEF CalmLaws, ComboLaw
  <2>3. LiveLaw'
    BY <1>1, <2>1 DEF LiveLaw, CalmLaws, Live, Awaited
  <2>4. ComboLaw' /\ TradedLaw'
    BY <1>1, <1>3, <2>1, <2>2 DEF ComboLaw, TradedLaw, CalmLaws, Targets, Spreads, Awaited
  <2> QED BY <1>3, <2>3, <2>4 DEF CalmInv, CalmLaws
<1>6. CASE pc.leg = "combo"
  <2>1. /\ kind = "enter" /\ id["near"] = 0 /\ id["far"] = 0
        /\ (Go("drop", "combo") \/ (orders[id["combo"]].status = "cancelled" /\ Go("submit", "near")))
    BY <1>1, <1>6, CalmFacts DEF WaitGivesUp, ExecInv, StageOK, CalmLaws, TradedLaw
  <2>2. Known("combo") = 0
    <3>1. Known("combo") # Qty
      BY <1>2, <1>4, <1>6 DEF Known, SeenFilled
    <3> QED BY <3>1 DEF CalmLaws, ComboLaw
  <2>3. CASE Go("drop", "combo")
    <3>1. pc'.at = "drop" /\ pc'.leg = "combo" /\ outcome' = "none"
      BY <1>2, <2>3 DEF Go
    <3>2. LiveLaw'
      BY <1>1, <1>6, <2>1, <3>1 DEF LiveLaw, CalmLaws, Live
    <3>3. ComboLaw' /\ TradedLaw'
      BY <1>1, <1>3, <2>1, <2>2, <3>1 DEF ComboLaw, TradedLaw, CalmLaws, Targets, Awaited
    <3> QED BY <1>3, <3>2, <3>3 DEF CalmInv, CalmLaws
  <2>4. CASE orders[id["combo"]].status = "cancelled" /\ Go("submit", "near")
    <3>1. pc'.at = "submit" /\ pc'.leg = "near" /\ outcome' = "none"
      BY <1>2, <2>4 DEF Go
    <3>2. LiveLaw'
      BY <1>1, <1>6, <2>1, <2>4, OpenOrders DEF LiveLaw
    <3>3. ComboLaw' /\ TradedLaw'
      BY <1>1, <1>3, <2>1, <2>2, <3>1 DEF ComboLaw, TradedLaw, CalmLaws, Targets, Awaited
    <3> QED BY <1>3, <3>2, <3>3 DEF CalmInv, CalmLaws
  <2> QED BY <2>1, <2>3, <2>4
<1> QED BY <1>1, <1>5, <1>6 DEF WaitGivesUp

\* An order that was open is cancelled, and no other.
LEMMA CancelOne ==
  ASSUME ExecInv, NEW n \in DOMAIN orders, orders' = Cancelled(n)
  PROVE  /\ DOMAIN orders' = DOMAIN orders /\ orders'[n].status # "open"
         /\ \A i \in DOMAIN orders : /\ orders'[i].status = "open" => orders[i].status = "open" /\ i # n
                                    /\ orders'[i].leg = orders[i].leg
                                    /\ orders'[i].filled = orders[i].filled
<1>1. orders \in Seq(OrderType) /\ \A i \in DOMAIN orders : orders[i] \in OrderType
  BY OrderTyped DEF ExecInv, OrdersType
<1>2. CASE orders[n].status = "open"
  BY <1>1, <1>2 DEF Cancelled, OrderType
<1>3. CASE orders[n].status # "open"
  BY <1>3 DEF Cancelled
<1> QED BY <1>2, <1>3

LEMMA DropCalm ==
  ASSUME ExecInv, SideInv, Relied, CalmLaws, Drop
  PROVE  CalmInv'
<1>1. /\ pc.at = "drop" /\ pc.leg = "combo" /\ kind = "enter" /\ faults = {}
      /\ id["near"] = 0 /\ id["far"] = 0 /\ Known("combo") = 0
  BY CalmFacts DEF Drop, At, CalmLaws, TradedLaw, ComboLaw, ExecInv, StageOK
<1>2. /\ outcome = "none" /\ id["combo"] \in DOMAIN orders /\ orders' = Cancelled(id["combo"])
      /\ Go("submit", "near") /\ id' = id /\ kind' = kind /\ held' = held
  BY <1>1, OnTheWay DEF Drop
<1>3. Still
  BY <1>2, CancelStill
<1>4. ExactLaw' /\ (\A leg \in Targets : Known(leg)' = Known(leg))
  BY <1>3, StillNets
<1>5. LiveLaw'
  <2>1. /\ DOMAIN orders' = DOMAIN orders
        /\ \A i \in DOMAIN orders : orders'[i].status = "open" => orders[i].status = "open" /\ i # id["combo"]
    BY <1>2, CancelOne
  <2> QED BY <1>1, <2>1 DEF LiveLaw, CalmLaws, Live
<1>6. pc'.at = "submit" /\ pc'.leg = "near" /\ outcome' = "none"
  BY <1>2 DEF Go
<1>7. ComboLaw' /\ TradedLaw'
  BY <1>1, <1>2, <1>4, <1>6 DEF ComboLaw, TradedLaw, Targets, Awaited
<1> QED BY <1>4, <1>5, <1>7 DEF CalmInv, CalmLaws

\* What a call has traded of the leg it flattens.
LEMMA AtFlatten ==
  ASSUME ExecInv, SideInv, Relied, CalmLaws, pc.at \in {"cancel", "query", "flatten"}
  PROVE  /\ pc.leg \in Spreads /\ pc.leg \notin BackLegs /\ Known("combo") = 0
         /\ Net(pc.leg) = Known(pc.leg)
<1>1. pc.leg \in Spreads
  BY CalmFacts DEF SideInv, PlaceLaw, Spreads
<1>2. pc.leg \notin BackLegs
  BY BackWhileAwaited DEF Awaited, ExecInv, StageOK
<1>3. Known("combo") = 0
  BY DEF CalmLaws, ComboLaw
<1>4. Net(pc.leg) = Known(pc.leg)
  BY <1>1, <1>2, <1>3, CalmFacts DEF CalmLaws, ExactLaw
<1> QED BY <1>1, <1>2, <1>3, <1>4

LEMMA CancelCalm ==
  ASSUME ExecInv, SideInv, Relied, CalmLaws, CancelOrder
  PROVE  CalmInv'
<1>1. /\ pc.at = "cancel" /\ faults = {} /\ id' = id /\ kind' = kind /\ held' = held /\ got' = got
      /\ Known("combo") = 0 /\ partial = 0
  BY CalmFacts, AtFlatten DEF CancelOrder, At, ExecInv, PartialOK
<1>2. /\ outcome = "none" /\ id[pc.leg] # 0 /\ id[pc.leg] \in DOMAIN orders /\ pc.leg \in Targets
  BY <1>1, OnTheWay DEF Awaited
<1>3. /\ orders' = Cancelled(id[pc.leg])
      /\ partial' = 0 \/ partial' = Known(pc.leg)
  <2>1. CASE orders[id[pc.leg]].status = "open"
    BY <1>1, <1>2, <2>1 DEF CancelOrder, FilledAmount, Known
  <2>2. CASE orders[id[pc.leg]].status # "open"
    BY <1>1, <1>2, <2>2 DEF CancelOrder, Cancelled
  <2> QED BY <2>1, <2>2
<1>4. Still
  BY <1>1, <1>2, <1>3, CancelStill
<1>5. /\ ExactLaw' /\ (\A leg \in Targets : Known(leg)' = Known(leg))
      /\ \A leg \in Spreads : Net(leg)' = Net(leg)
  BY <1>4, StillNets
<1>6. pc'.at \in {"flatten", "query"} /\ pc'.leg = pc.leg /\ outcome' = "none"
      /\ (pc'.at = "flatten" => partial' > 0)
  BY <1>2 DEF CancelOrder, Go
<1>7. LiveLaw'
  <2>1. /\ DOMAIN orders' = DOMAIN orders
        /\ \A i \in DOMAIN orders : orders'[i].status = "open" =>
              orders[i].status = "open" /\ i # id[pc.leg] /\ orders'[i].leg = orders[i].leg
    BY <1>2, <1>3, CancelOne
  <2> QED BY <1>1, <1>6, <2>1, OpenOrders DEF LiveLaw, Live, Awaited
<1>8. ComboLaw' /\ TradedLaw'
  <2>1. pc'.at = "flatten" => partial' = Known(pc.leg)'
    BY <1>2, <1>3, <1>5, <1>6
  <2> QED BY <1>1, <1>5, <1>6, <2>1 DEF ComboLaw, TradedLaw, CalmLaws, Targets, Spreads, Awaited
<1> QED BY <1>5, <1>7, <1>8 DEF CalmInv, CalmLaws

\* Where a call goes on with the leg back where it was.
LEMMA AfterCalm ==
  ASSUME ExecInv, SideInv, Relied, CalmLaws, pc.at \in {"query", "flatten"}, AfterFlatten(pc.leg),
         kind' = kind, id' = id, got' = got, ExactLaw',
         \A leg \in Targets : Known(leg)' = Known(leg),
         \A leg \in Spreads : IF leg = pc.leg THEN Net(leg)' = 0 ELSE Net(leg)' = Net(leg),
         \A i \in DOMAIN orders' : orders'[i].status = "open" =>
             i \in DOMAIN orders /\ orders'[i] = orders[i]
  PROVE  CalmInv'
<1>1. /\ pc.leg \in Spreads /\ Known("combo") = 0 /\ Known("combo")' = 0
      /\ outcome = "none" /\ kind \in {"enter", "close"}
  BY AtFlatten, CalmFacts, OnTheWay DEF Awaited, Targets
<1>2. ASSUME NEW i \in DOMAIN orders', orders'[i].status = "open"
      PROVE  kind = "close" /\ pc.leg = "near" /\ orders'[i].leg = "far" /\ i = id["far"]
  BY <1>2 DEF CalmLaws, LiveLaw, Live
<1>3. CASE /\ Return("failed")
           /\ \/ kind = "enter" /\ pc.leg = "near"
              \/ kind = "close" /\ pc.leg = "far" /\ "near" \notin got
  <2>1. pc'.at = "returned" /\ outcome' = "failed"
    BY <1>3, CallTyped DEF Return
  <2>2. \A leg \in Spreads \ {pc.leg} : Net(leg) = 0
    <3>1. CASE kind = "enter" /\ pc.leg = "near"
      <4>1. Known("far") = 0
        BY <3>1 DEF CalmLaws, TradedLaw, Known
      <4> QED BY <1>1, <3>1, <4>1, NoNet DEF Spreads
    <3>2. CASE kind = "close" /\ pc.leg = "far" /\ "near" \notin got
      BY <3>2 DEF CalmLaws, TradedLaw, Spreads, Awaited
    <3> QED BY <1>3, <3>1, <3>2
  <2>3. \A leg \in Spreads : Net(leg)' = 0
    BY <2>2
  <2>4. LiveLaw'
    BY <1>2, <1>3 DEF LiveLaw
  <2>5. ComboLaw' /\ TradedLaw'
    BY <1>1, <2>1, <2>3 DEF ComboLaw, TradedLaw, CalmLaws, Awaited
  <2> QED BY <2>4, <2>5 DEF CalmInv, CalmLaws
<1>4. CASE pc.leg = "far" /\ Go("undo", "near")
  <2>1. pc'.at = "undo" /\ pc'.leg = "near" /\ outcome' = "none"
    BY <1>1, <1>4 DEF Go
  <2>2. LiveLaw'
    BY <1>2, <1>4 DEF LiveLaw
  <2>3. ComboLaw' /\ TradedLaw'
    BY <1>1, <1>4, <2>1 DEF ComboLaw, TradedLaw, CalmLaws, Awaited, Spreads
  <2> QED BY <2>2, <2>3 DEF CalmInv, CalmLaws
<1>5. CASE kind = "close" /\ pc.leg = "near" /\ Go("wait", "far")
  <2>1. pc'.at = "wait" /\ pc'.leg = "far" /\ outcome' = "none"
    BY <1>1, <1>5 DEF Go
  <2>2. LiveLaw'
    BY <1>2, <2>1 DEF LiveLaw, Live
  <2>3. ComboLaw' /\ TradedLaw'
    BY <1>1, <1>5, <2>1 DEF ComboLaw, TradedLaw, CalmLaws, Awaited
  <2> QED BY <2>2, <2>3 DEF CalmInv, CalmLaws
<1>6. \/ /\ Return("failed")
         /\ \/ kind = "enter" /\ pc.leg = "near"
            \/ kind = "close" /\ pc.leg = "far" /\ "near" \notin got
      \/ pc.leg = "far" /\ Go("undo", "near")
      \/ kind = "close" /\ pc.leg = "near" /\ Go("wait", "far")
  <2>1. kind # "roll"
    BY <1>1
  <2> QED BY <2>1 DEF AfterFlatten, EnterAfterFlatten, CloseAfterFlatten, RollAfterFlatten
<1> QED BY <1>3, <1>4, <1>5, <1>6

LEMMA QueryCalm ==
  ASSUME ExecInv, SideInv, Relied, CalmLaws, QueryFilled
  PROVE  CalmInv'
<1>1. /\ pc.at = "query" /\ faults = {} /\ id' = id /\ kind' = kind /\ got' = got /\ orders' = orders
      /\ Still
  BY CalmFacts, SameOrdersStill DEF QueryFilled, At
<1>2. /\ pc.leg \in Spreads /\ Known("combo") = 0 /\ Net(pc.leg) = Known(pc.leg)
      /\ outcome = "none" /\ id[pc.leg] # 0
  BY <1>1, AtFlatten, OnTheWay DEF Awaited
<1>3. partial' = Known(pc.leg)
  BY <1>1, <1>2 DEF QueryFilled, FilledAmount, Known
<1>4. /\ ExactLaw' /\ (\A leg \in Targets : Known(leg)' = Known(leg))
      /\ \A leg \in Spreads : Net(leg)' = Net(leg)
  BY <1>1, StillNets
<1>5. CASE Go("flatten", pc.leg)
  <2>1. pc'.at = "flatten" /\ pc'.leg = pc.leg /\ outcome' = "none" /\ pc.leg \in Targets
    BY <1>2, <1>5 DEF Go, Spreads, Targets, Legs
  <2>2. LiveLaw'
    BY <1>1, <2>1 DEF LiveLaw, CalmLaws, Live, Awaited
  <2>3. ComboLaw' /\ TradedLaw'
    BY <1>1, <1>2, <1>3, <1>4, <2>1 DEF ComboLaw, TradedLaw, CalmLaws, Targets, Spreads, Awaited
  <2> QED BY <1>4, <2>2, <2>3 DEF CalmInv, CalmLaws
<1>6. CASE partial' = 0 /\ AfterFlatten(pc.leg)
  <2>1. \A leg \in Spreads : IF leg = pc.leg THEN Net(leg)' = 0 ELSE Net(leg)' = Net(leg)
    BY <1>2, <1>3, <1>4, <1>6
  <2> QED BY <1>1, <1>4, <1>6, <2>1, AfterCalm
<1> QED BY <1>5, <1>6 DEF QueryFilled

\* What a leg has traded is traded back, at once.
LEMMA ReverseNets ==
  ASSUME ExecInv, SideInv, Relied, CalmLaws, pc.leg \in Spreads, pc.leg \notin BackLegs,
         NEW amount \in Nat \ {0}, Net(pc.leg) = amount, id[pc.leg] # 0,
         NEW known, BookReverse(pc.leg, amount, known) \/ SendFails(pc.leg, amount, known),
         id' = id, kind' = kind
  PROVE  /\ ExactLaw' /\ (\A leg \in Targets : Known(leg)' = Known(leg))
         /\ \A leg \in Spreads : IF leg = pc.leg THEN Net(leg)' = 0 ELSE Net(leg)' = Net(leg)
         /\ \A i \in DOMAIN orders' : orders'[i].status = "open" =>
               i \in DOMAIN orders /\ orders'[i] = orders[i]
<1> DEFINE l == pc.leg
           o == Order(l, -Direction(kind, l), amount, id[l])
           u == [o EXCEPT !.filled = amount, !.status = "filled"]
<1>1. /\ l \in Spreads /\ l \in Legs /\ l \in Targets /\ l # "combo" /\ l \notin BackLegs
      /\ Net(l) = amount /\ id[l] \in Nat \ {0}
  BY CalmFacts DEF Spreads, ExecInv, IdsOK
<1>2. orders' = Append(orders, u) /\ held' = Moved(held, o, amount)
  BY CalmFacts DEF BookReverse, SendFails
<1> HIDE DEF l
<1>3. /\ o \in OrderType /\ u \in OrderType /\ u.status = "filled" /\ u.leg = l /\ u.undoes # 0
      /\ o.leg = l /\ o.direction = -Direction(kind, l)
  BY <1>1, Directed DEF Order, OrderType
<1> HIDE DEF o, u
<1>4. PICK n : /\ DOMAIN orders' = DOMAIN orders \cup {n} /\ n \notin DOMAIN orders
               /\ orders'[n] = u /\ \A i \in DOMAIN orders : orders'[i] = orders[i]
  BY <1>2, <1>3, AppendLaws DEF SideInv
<1>5. ASSUME NEW leg \in Targets PROVE Known(leg)' = Known(leg)
  <2>1. id[leg] # 0 => id[leg] \in DOMAIN orders
    BY KnownType DEF SideInv
  <2> QED BY <1>4, <2>1 DEF Known
<1>6. ASSUME NEW leg \in Spreads
      PROVE  /\ leg # l => Net(leg)' = Net(leg)
             /\ leg = l => Net(leg)' = 0
  <2>1. \A k \in Legs : /\ o.leg # k => Net(k)' = Net(k)
                        /\ o.leg = k /\ o.direction = -Direction(kind, k) => Net(k)' = Net(k) - amount
    BY <1>1, <1>2, <1>3, MovedByLeg DEF SideInv, HeldLaw
  <2>2. leg \in Legs
    BY <1>6 DEF Spreads, Legs
  <2>3. leg # l => Net(leg)' = Net(leg)
    BY <1>3, <2>1, <2>2
  <2>4. leg = l => Net(leg)' = Net(leg) - amount
    BY <1>3, <2>1, <2>2
  <2> QED BY <1>1, <2>3, <2>4
<1>7. ASSUME NEW leg \in Spreads
      PROVE  leg \in BackLegs' <=> leg = l \/ leg \in BackLegs
  BY <1>1, <1>3, <1>4 DEF BackLegs, Back
<1>8. ExactLaw'
  BY <1>1, <1>5, <1>6, <1>7 DEF ExactLaw, CalmLaws, Spreads, Targets, Legs
<1>9. \A i \in DOMAIN orders' : orders'[i].status = "open" => i \in DOMAIN orders /\ orders'[i] = orders[i]
  BY <1>3, <1>4
<1>10. \A leg \in Spreads : IF leg = l THEN Net(leg)' = 0 ELSE Net(leg)' = Net(leg)
  BY <1>6
<1> QED BY <1>5, <1>8, <1>9, <1>10 DEF l

LEMMA FlattenCalm ==
  ASSUME ExecInv, SideInv, Relied, CalmLaws, Flatten
  PROVE  CalmInv'
<1> DEFINE known == [manager EXCEPT ![id[pc.leg]] = "cancelled_partial"]
<1>1. /\ pc.at = "flatten" /\ AfterFlatten(pc.leg) /\ id' = id /\ kind' = kind /\ got' = got
      /\ BookReverse(pc.leg, partial, known) \/ SendFails(pc.leg, partial, known)
  BY DEF Flatten, FlattenAmount, At
<1> HIDE DEF known
<1>2. /\ pc.leg \in Spreads /\ pc.leg \notin BackLegs /\ Net(pc.leg) = partial
      /\ partial \in Nat \ {0} /\ id[pc.leg] # 0
  BY <1>1, AtFlatten, OnTheWay DEF CalmLaws, TradedLaw, ExecInv, PartialOK, CallType, Awaited
<1>3. /\ ExactLaw' /\ (\A leg \in Targets : Known(leg)' = Known(leg))
      /\ \A leg \in Spreads : IF leg = pc.leg THEN Net(leg)' = 0 ELSE Net(leg)' = Net(leg)
      /\ \A i \in DOMAIN orders' : orders'[i].status = "open" =>
            i \in DOMAIN orders /\ orders'[i] = orders[i]
  BY <1>1, <1>2, ReverseNets
<1> QED BY <1>1, <1>3, AfterCalm

LEMMA UndoCalm ==
  ASSUME ExecInv, SideInv, Relied, CalmLaws, Undo
  PROVE  CalmInv'
<1>1. /\ pc.at = "undo" /\ id' = id /\ kind' = kind
      /\ BookReverse(pc.leg, Qty, manager) \/ SendFails(pc.leg, Qty, manager)
      /\ pc'.at = "returned" /\ outcome' \in {"legrisk", "failed"}
  BY CallTyped DEF Undo, At, Return
<1>2. /\ pc.leg \in Spreads /\ pc.leg \notin BackLegs /\ Whole(pc.leg) /\ id[pc.leg] # 0
      /\ Qty \in Nat \ {0}
  BY <1>1, CalmFacts DEF SideInv, PlaceLaw, Past, Awaited, Whole, Spreads
<1>3. Net(pc.leg) = Qty
  BY <1>2, WholeNet
<1>4. /\ ExactLaw' /\ (\A leg \in Targets : Known(leg)' = Known(leg))
      /\ \A leg \in Spreads : IF leg = pc.leg THEN Net(leg)' = 0 ELSE Net(leg)' = Net(leg)
      /\ \A i \in DOMAIN orders' : orders'[i].status = "open" =>
            i \in DOMAIN orders /\ orders'[i] = orders[i]
  BY <1>1, <1>2, <1>3, ReverseNets
<1>5. Known("combo")' = 0 /\ (kind = "close" => id["combo"] = 0)
  <2>1. Known("combo") = 0
    BY <1>1, <1>2 DEF CalmLaws, ComboLaw
  <2> QED BY <1>4, <2>1 DEF Targets, CalmLaws, ComboLaw
<1>6. \A leg \in Spreads : Net(leg)' = 0
  BY <1>1, <1>4 DEF CalmLaws, TradedLaw
<1>7. LiveLaw'
  BY <1>1, <1>4 DEF LiveLaw, CalmLaws, Live, Awaited
<1>8. ComboLaw' /\ TradedLaw'
  BY <1>1, <1>5, <1>6 DEF ComboLaw, TradedLaw, Awaited
<1> QED BY <1>4, <1>7, <1>8 DEF CalmInv, CalmLaws

LEMMA WithdrawCalm ==
  ASSUME ExecInv, SideInv, Relied, CalmLaws, NEW n \in DOMAIN orders, Withdraw(n)
  PROVE  CalmInv'
<1>1. /\ orders' = Cancelled(n) /\ id' = id /\ kind' = kind /\ held' = held /\ pc' = pc
      /\ got' = got /\ outcome' = outcome /\ partial' = partial
  BY DEF Withdraw, Cancelled, call
<1>2. Still
  BY <1>1, CancelStill
<1>3. /\ ExactLaw' /\ (\A leg \in Targets : Known(leg)' = Known(leg))
      /\ \A leg \in Spreads : Net(leg)' = Net(leg)
  BY <1>2, StillNets
<1>4. LiveLaw'
  <2>1. /\ DOMAIN orders' = DOMAIN orders
        /\ \A i \in DOMAIN orders : orders'[i].status = "open" =>
              orders[i].status = "open" /\ orders'[i].leg = orders[i].leg
    BY <1>1, CancelOne
  <2> QED BY <1>1, <2>1 DEF LiveLaw, CalmLaws, Live
<1>5. pc.leg \in Targets
  BY CallTyped
<1>6. ComboLaw' /\ TradedLaw'
  BY <1>1, <1>3, <1>5 DEF ComboLaw, TradedLaw, CalmLaws, Targets, Spreads
<1> QED BY <1>3, <1>4, <1>6 DEF CalmInv, CalmLaws

LEMMA FillCalm ==
  ASSUME ExecInv, SideInv, Relied, CalmLaws, NEW n \in DOMAIN orders, Fill(n)
  PROVE  CalmInv'
<1>1. /\ orders[n].status = "open" /\ id' = id /\ kind' = kind /\ pc' = pc
      /\ got' = got /\ outcome' = outcome /\ partial' = partial /\ faults = {}
  BY CalmFacts DEF Fill, call
<1>2. /\ Live(orders[n].leg) /\ n = id[orders[n].leg] /\ orders[n] \in OrderType
      /\ orders[n].filled \in Nat /\ orders[n].amount \in Nat
  BY <1>1, OrderTyped DEF CalmLaws, LiveLaw, ExecInv
<1>3. PICK q \in 1..(orders[n].amount - orders[n].filled) :
         /\ orders[n].leg = "combo" => q = orders[n].amount /\ pc.at = "wait"
         /\ orders' = [orders EXCEPT
              ![n].filled = @ + q,
              ![n].status = IF orders[n].filled + q = orders[n].amount
                            THEN "filled" ELSE "open"]
         /\ held' = Moved(held, orders[n], q)
  BY <1>1 DEF Fill
<1>4. /\ DOMAIN orders' = DOMAIN orders /\ q \in Nat /\ orders'[n].filled = orders[n].filled + q
      /\ \A i \in DOMAIN orders : /\ i # n => orders'[i] = orders[i]
                                 /\ orders'[i].leg = orders[i].leg
                                 /\ orders'[i].undoes = orders[i].undoes
  BY <1>2, <1>3 DEF OrderType
<1>5. BackLegs' = BackLegs
  BY <1>4 DEF BackLegs, Back
<1>6. ASSUME NEW leg \in Targets
      PROVE  Known(leg)' = IF id[leg] = n THEN Known(leg) + q ELSE Known(leg)
  <2>1. id[leg] # 0 => id[leg] \in DOMAIN orders
    BY KnownType DEF SideInv
  <2>2. n # 0
    BY DEF ExecInv, OrdersType
  <2> QED BY <1>1, <1>4, <2>1, <2>2 DEF Known
<1>7. LiveLaw'
  <2>1. \A i \in DOMAIN orders : orders'[i].status = "open" => orders[i].status = "open"
    BY <1>1, <1>4
  <2> QED BY <1>1, <1>4, <2>1 DEF LiveLaw, CalmLaws, Live
<1>8. ASSUME NEW leg \in Targets, leg # orders[n].leg PROVE id[leg] # n
  <2>1. n # 0
    BY DEF ExecInv, OrdersType
  <2>2. id[leg] # 0 => orders[id[leg]].leg = leg
    BY KnownType DEF SideInv, Ahead
  <2> QED BY <1>8, <2>1, <2>2
<1>9. held \in [Legs -> Int]
  BY DEF SideInv, HeldLaw
<1>10. CASE orders[n].leg = "combo"
  <2>1. /\ pc.at = "wait" /\ pc.leg = "combo" /\ kind = "enter" /\ id["combo"] = n
        /\ id["near"] = 0 /\ id["far"] = 0 /\ BackLegs = {} /\ outcome = "none"
    BY <1>2, <1>3, <1>10, CalmFacts, BackFar
       DEF Live, ExecInv, StageOK, CalmLaws, TradedLaw
  <2>2. q = Qty /\ orders[n].filled = 0
    <3>1. n # 0 /\ "combo" \in Targets
      BY DEF ExecInv, OrdersType, Targets
    <3>2. orders[n].amount = Qty
      BY <2>1, <3>1 DEF ExecInv, IdsOK, Own
    <3> QED BY <1>2, <1>3, <1>10, <3>2
  <2>3. /\ Net("near")' = Net("near") + q /\ Net("far")' = Net("far") + q
    BY <1>1, <1>3, <1>4, <1>9, <1>10, <2>1, MovedByCombo
  <2>4. /\ Known("combo") = 0 /\ Known("combo")' = Qty
        /\ \A leg \in Spreads : Known(leg) = 0 /\ Known(leg)' = 0 /\ Net(leg) = 0
    <3>1. Known("combo") = 0 /\ \A leg \in Spreads : Known(leg) = 0
      BY <1>1, <2>1, <2>2 DEF Known, Spreads
    <3>2. Known("combo")' = Qty /\ \A leg \in Spreads : Known(leg)' = 0
      BY <1>1, <1>6, <1>8, <1>10, <2>1, <2>2, <3>1, CalmFacts DEF Spreads, Targets, Legs
    <3> QED BY <3>1, <3>2, NoNet
  <2>5. ExactLaw'
    BY <1>5, <2>1, <2>2, <2>3, <2>4, CalmFacts DEF ExactLaw, Spreads
  <2>6. ComboLaw' /\ TradedLaw'
    BY <1>1, <2>1, <2>4 DEF ComboLaw, TradedLaw, Awaited
  <2> QED BY <1>7, <2>5, <2>6 DEF CalmInv, CalmLaws
<1>11. CASE orders[n].leg # "combo"
  <2> DEFINE l == orders[n].leg
  <2>1. l \in Spreads /\ l \in Targets /\ n # 0 /\ id[l] = n /\ Live(l)
    <3>1. l \in Spreads /\ l \in Targets
      BY <1>2, <1>11, CalmFacts DEF Live, Spreads, OrderType
    <3> QED BY <1>2, <3>1 DEF ExecInv, OrdersType
  <2>2. l \notin BackLegs
    BY <2>1 DEF SideInv, PlaceLaw, Past, Live, Awaited, Spreads
  <2>3. Own(l)
    BY <2>1 DEF ExecInv, IdsOK
  <2>4. orders[n].direction = Direction(kind, l)
    BY <2>1, <2>3 DEF Own
  <2>5. \A leg \in Legs :
           /\ orders[n].leg # leg => Net(leg)' = Net(leg)
           /\ orders[n].leg = leg /\ orders[n].direction = Direction(kind, leg) => Net(leg)' = Net(leg) + q
    BY <1>1, <1>2, <1>3, <1>4, <1>9, <1>11, MovedByLeg
  <2>6. \A leg \in Spreads : Net(leg)' = IF leg = l THEN Net(leg) + q ELSE Net(leg)
    BY <2>4, <2>5, CalmFacts
  <2>7. \A leg \in Targets : Known(leg)' = IF leg = l THEN Known(leg) + q ELSE Known(leg)
    BY <1>6, <1>8, <2>1
  <2> HIDE DEF l
  <2>8. ExactLaw'
    <3>1. \A leg \in Spreads : leg \in Targets /\ Known(leg) \in Nat /\ Known("combo") \in Nat
      BY CalmFacts
    <3>2. Known("combo")' = Known("combo")
      BY <2>1, <2>7 DEF Spreads, Targets
    <3> QED BY <1>4, <1>5, <2>1, <2>2, <2>6, <2>7, <3>1, <3>2 DEF ExactLaw, CalmLaws
  <2>9. ComboLaw'
    <3>1. Known("combo")' = Known("combo")
      BY <2>1, <2>7 DEF Spreads, Targets
    <3> QED BY <1>1, <3>1 DEF ComboLaw, CalmLaws
  <2>10. TradedLaw'
    <3>1. pc.at \notin {"undo", "returned"} /\ outcome = "none"
      BY <2>1 DEF Live, Awaited, ExecInv, StageOK
    <3>2. pc.at = "flatten" => l # pc.leg
      BY <2>1 DEF Live
    <3>3. kind = "close" /\ pc.leg = "far" /\ pc.at \in Awaited => l # "near"
      BY <2>1 DEF Live, Awaited
    <3>4. pc.leg \in Targets
      BY CallTyped
    <3> QED BY <1>1, <2>6, <2>7, <3>1, <3>2, <3>3, <3>4 DEF TradedLaw, CalmLaws, Spreads
  <2> QED BY <1>7, <2>8, <2>9, <2>10 DEF CalmInv, CalmLaws
<1> QED BY <1>10, <1>11

LEMMA CalmIdle ==
  ASSUME ExecInv, SideInv, Relied, CalmLaws, UNCHANGED vars
  PROVE  CalmInv'
<1>1. /\ orders' = orders /\ id' = id /\ kind' = kind /\ held' = held /\ pc' = pc
      /\ got' = got /\ outcome' = outcome /\ partial' = partial
  BY DEF vars
<1>2. /\ ExactLaw' /\ (\A leg \in Targets : Known(leg)' = Known(leg))
      /\ \A leg \in Spreads : Net(leg)' = Net(leg)
  BY <1>1, SameOrdersStill, StillNets
<1>3. LiveLaw'
  BY <1>1 DEF LiveLaw, CalmLaws, Live
<1>4. pc.leg \in Targets
  BY CallTyped
<1>5. ComboLaw' /\ TradedLaw'
  BY <1>1, <1>2, <1>4 DEF ComboLaw, TradedLaw, CalmLaws, Targets, Spreads
<1> QED BY <1>2, <1>3, <1>5 DEF CalmInv, CalmLaws

\* What may go wrong in a call, and which call it is, stays.
LEMMA SameCall == [Next]_vars => faults' = faults /\ kind' = kind
<1>1. Executor => faults' = faults /\ kind' = kind
  BY DEF Executor, ConnectFails, EnterSubmit, CloseSubmit, RollSubmit, Place, SubmitRefused,
         SubmitLost, EnterFilled, CloseFilled, RollFilled, Fills, WaitGivesUp, WaitLost, Drop,
         CancelOrder, QueryFilled, Flatten, Undo
<1>2. Exchange => faults' = faults /\ kind' = kind
  BY DEF Exchange, Fill, Withdraw, call
<1> QED BY <1>1, <1>2 DEF Next, vars

LEMMA CalmStep == ExecInv /\ SideInv /\ CalmInv /\ [Next]_vars => CalmInv'
<1> SUFFICES ASSUME ExecInv, SideInv, CalmInv, [Next]_vars, Relied' PROVE CalmInv'
  BY DEF CalmInv
<1>1. Relied /\ CalmLaws /\ faults = {}
  BY SameCall DEF Relied, CalmInv
<1>2. ~SubmitLost /\ ~WaitLost
  BY <1>1 DEF SubmitLost, WaitLost
<1>3. CASE Executor
  BY <1>1, <1>2, <1>3, ConnectCalm, SubmitCalm, RefusedCalm, FilledCalm, WaitCalm, DropCalm,
     CancelCalm, QueryCalm, FlattenCalm, UndoCalm DEF Executor
<1>4. CASE Exchange
  BY <1>1, <1>4, FillCalm, WithdrawCalm DEF Exchange
<1>5. CASE UNCHANGED vars
  BY <1>1, <1>5, CalmIdle
<1> QED BY <1>3, <1>4, <1>5 DEF Next

\* What the position is when the call returns.
LEMMA SettledHeld ==
  ASSUME ExecInv, SideInv, Relied, CalmLaws, outcome # "none"
  PROVE  /\ outcome \in {"filled", "failed", "legrisk"}
         /\ outcome = "filled" => held = After(kind) /\ held # Before(kind)
         /\ outcome # "filled" => held = Before(kind) /\ held # After(kind)
<1>1. /\ outcome \in {"filled", "failed", "legrisk"} /\ held \in [Legs -> Int]
      /\ Qty \in Nat \ {0} /\ kind \in {"enter", "close"}
      /\ held["near"] \in Int /\ held["far"] \in Int
  BY CalmFacts DEF ExecInv, CallType, SideInv, HeldLaw, Legs
<1>2. held["new"] = 0
  BY <1>1 DEF SideInv, HeldLaw, Involved, Legs, Before, Flat, Spread
<1>3. /\ outcome = "filled" => Net("near") = Qty /\ Net("far") = Qty
      /\ outcome # "filled" => Net("near") = 0 /\ Net("far") = 0
  BY <1>1 DEF CalmLaws, TradedLaw, Spreads
<1>4. held = [leg \in Legs |-> held[leg]]
  BY <1>1
<1>5. CASE kind = "enter"
  <2>1. Net("near") = -held["near"] /\ Net("far") = held["far"]
    BY <1>1, <1>5 DEF Net, Direction, Before, Flat, Legs
  <2>2. CASE outcome = "filled"
    <3>1. held["near"] = -Qty /\ held["far"] = Qty
      BY <1>1, <1>3, <2>1, <2>2
    <3>2. \A leg \in Legs : held[leg] = Spread[leg]
      BY <1>2, <3>1 DEF Legs, Spread
    <3>3. held = Spread
      BY <1>4, <3>2 DEF Spread, Legs
    <3>4. held # Flat
      BY <1>1, <3>1 DEF Flat, Legs
    <3> QED BY <1>1, <1>5, <2>2, <3>3, <3>4 DEF After, Before
  <2>3. CASE outcome # "filled"
    <3>1. held["near"] = 0 /\ held["far"] = 0
      BY <1>1, <1>3, <2>1, <2>3
    <3>2. \A leg \in Legs : held[leg] = 0
      BY <1>2, <3>1 DEF Legs
    <3>3. held = Flat
      BY <1>4, <3>2 DEF Flat
    <3>4. held # Spread
      BY <1>1, <3>1 DEF Spread, Legs
    <3> QED BY <1>1, <1>5, <2>3, <3>3, <3>4 DEF Before, After
  <2> QED BY <2>2, <2>3
<1>6. CASE kind = "close"
  <2>1. Net("near") = held["near"] + Qty /\ Net("far") = Qty - held["far"]
    BY <1>1, <1>6 DEF Net, Direction, Before, Spread, Legs
  <2>2. CASE outcome = "filled"
    <3>1. held["near"] = 0 /\ held["far"] = 0
      BY <1>1, <1>3, <2>1, <2>2
    <3>2. \A leg \in Legs : held[leg] = 0
      BY <1>2, <3>1 DEF Legs
    <3>3. held = Flat
      BY <1>4, <3>2 DEF Flat
    <3>4. held # Spread
      BY <1>1, <3>1 DEF Spread, Legs
    <3> QED BY <1>1, <1>6, <2>2, <3>3, <3>4 DEF After, Before
  <2>3. CASE outcome # "filled"
    <3>1. held["near"] = -Qty /\ held["far"] = Qty
      BY <1>1, <1>3, <2>1, <2>3
    <3>2. \A leg \in Legs : held[leg] = Spread[leg]
      BY <1>2, <3>1 DEF Legs, Spread
    <3>3. held = Spread
      BY <1>4, <3>2 DEF Spread, Legs
    <3>4. held # Flat
      BY <1>1, <3>1 DEF Flat, Legs
    <3> QED BY <1>1, <1>6, <2>3, <3>3, <3>4 DEF Before, After
  <2> QED BY <2>2, <2>3
<1> QED BY <1>1, <1>5, <1>6

\* A call that has returned takes no more steps of its own.
LEMMA ReturnedStays == ExecInv /\ outcome # "none" /\ [Next]_vars => outcome' = outcome
<1> SUFFICES ASSUME ExecInv, outcome # "none", [Next]_vars PROVE outcome' = outcome
  OBVIOUS
<1>1. pc.at = "returned"
  BY DEF ExecInv, StageOK
<1>2. ~Executor
  BY <1>1 DEF Executor, At, ConnectFails, EnterSubmit, CloseSubmit, RollSubmit, Place,
     SubmitRefused, SubmitLost, EnterFilled, CloseFilled, RollFilled, Fills, WaitGivesUp, WaitLost,
     Drop, CancelOrder, QueryFilled, Flatten, Undo
<1>3. Exchange => outcome' = outcome
  BY DEF Exchange, Fill, Withdraw, call
<1> QED BY <1>2, <1>3 DEF Next, vars

\* What the contract sees of a call.
Said == IF Relied THEN outcome ELSE "none"
Done == CASE ~Relied \/ outcome = "none" \/ held = Before(kind) -> "untouched"
          [] Relied /\ outcome # "none" /\ held = After(kind) -> "traded"
          [] OTHER -> "broken"

SeenLaw ==
    /\ ~Relied \/ outcome = "none" => Said = "none" /\ Done = "untouched"
    /\ Relied /\ outcome = "filled" => Said = "filled" /\ Done = "traded"
    /\ Relied /\ outcome \notin {"none", "filled"} =>
          Said \in {"failed", "legrisk"} /\ Done = "untouched"

LEMMA Seen == ExecInv /\ SideInv /\ CalmInv => SeenLaw
<1> SUFFICES ASSUME ExecInv, SideInv, CalmInv PROVE SeenLaw
  OBVIOUS
<1>1. CASE ~Relied \/ outcome = "none"
  BY <1>1 DEF SeenLaw, Said, Done
<1>2. CASE Relied /\ outcome # "none"
  <2>1. /\ outcome \in {"filled", "failed", "legrisk"}
        /\ outcome = "filled" => held = After(kind) /\ held # Before(kind)
        /\ outcome # "filled" => held = Before(kind) /\ held # After(kind)
    BY <1>2, SettledHeld DEF CalmInv
  <2>2. Said = outcome
    BY <1>2 DEF Said
  <2>3. ASSUME outcome # "filled" PROVE Done = "untouched"
    <3>1. (~Relied \/ outcome = "none" \/ held = Before(kind)) = TRUE
      BY <1>2, <2>1, <2>3
    <3>2. (Relied /\ outcome # "none" /\ held = After(kind)) = FALSE
      BY <1>2, <2>1, <2>3
    <3>3. Done = CASE TRUE -> "untouched" [] FALSE -> "traded" [] OTHER -> "broken"
      BY <3>1, <3>2, Zenon DEF Done
    <3> QED BY <3>3, Zenon
  <2>4. ASSUME outcome = "filled" PROVE Done = "traded"
    <3>1. (~Relied \/ outcome = "none" \/ held = Before(kind)) = FALSE
      BY <1>2, <2>1, <2>4
    <3>2. (Relied /\ outcome # "none" /\ held = After(kind)) = TRUE
      BY <1>2, <2>1, <2>4
    <3>3. Done = CASE FALSE -> "untouched" [] TRUE -> "traded" [] OTHER -> "broken"
      BY <3>1, <3>2, Zenon DEF Done
    <3> QED BY <3>3, Zenon
  <2> QED BY <1>2, <2>1, <2>2, <2>3, <2>4 DEF SeenLaw
<1> QED BY <1>1, <1>2

LEMMA ContractStep ==
  ExecInv /\ SeenLaw /\ SeenLaw' /\ [Next]_vars => [Contract!Next]_(Contract!vars)
<1> SUFFICES ASSUME ExecInv, SeenLaw, SeenLaw', [Next]_vars
             PROVE  [Contract!Next]_(Contract!vars)
  OBVIOUS
<1>1. Relied' <=> Relied
  BY SameCall DEF Relied
<1>2. outcome # "none" => outcome' = outcome
  BY ReturnedStays
<1>3. CASE ~Relied \/ (outcome = "none" /\ outcome' = "none")
  <2>1. Said' = Said /\ Done' = Done
    BY <1>1, <1>3 DEF SeenLaw
  <2> QED BY <2>1 DEF Said, Done, Contract!vars
<1>4. CASE Relied /\ outcome = "none" /\ outcome' = "filled"
  <2>1. Said = "none" /\ Said' = "filled" /\ Done' = "traded"
    BY <1>1, <1>4 DEF SeenLaw
  <2> QED BY <2>1 DEF Said, Done, Contract!Next, Contract!Fill
<1>5. CASE Relied /\ outcome = "none" /\ outcome' \notin {"none", "filled"}
  <2>1. Said = "none" /\ Said' \in {"failed", "legrisk"} /\ Done' = Done
    BY <1>1, <1>5 DEF SeenLaw
  <2> QED BY <2>1 DEF Said, Done, Contract!Next, Contract!Fail
<1>6. CASE Relied /\ outcome # "none"
  <2>1. Said' = Said /\ Done' = Done
    <3>1. Said' = Said
      BY <1>1, <1>2, <1>6 DEF Said
    <3>2. Done' = Done
      BY <1>1, <1>2, <1>6 DEF SeenLaw
    <3> QED BY <3>1, <3>2
  <2> QED BY <2>1 DEF Said, Done, Contract!vars
<1> QED BY <1>3, <1>4, <1>5, <1>6

\* ImplementsContract (ExecutorProtocol, decision.py 68-109): an entry or a close in which no
\* request fails, a combo fills at once and whole or not at all, and reversing orders fill at
\* once, trades the whole spread and says so, or leaves the position as it was, and nothing
\* moves afterwards, although the orders of its legs fill slowly, in part or while they are
\* being cancelled.
THEOREM ContractHolds == Spec => ImplementsContract
<1>1. Init => ExecInv /\ SideInv /\ CalmInv /\ Contract!Init
  BY InvInit, SideInit, CalmInit DEF Init, Contract!Init
<1>2. ExecInv /\ SideInv /\ CalmInv /\ [Next]_vars => (ExecInv /\ SideInv /\ CalmInv)'
  BY InvStep, SideStep, CalmStep
<1> QED
  BY <1>1, <1>2, Seen, ContractStep, PTL DEF Spec, ImplementsContract, Contract!Spec
=============================================================================
