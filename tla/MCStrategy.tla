---------------------------- MODULE MCStrategy ----------------------------
(* A small market for Strategy: three strikes, of which neighbours are       *)
(* correlated, four expiries and a few states of the quotes.  Prices are in  *)
(* hundredths of a per cent of the underlying.                               *)
EXTENDS Reports, TLC

OneAsset == {"BTC"}

Strikes == {10000, 10400, 10800}

McLimits == [a \in OneAsset |->
  [moneyness |-> 25, minOi |-> 1, contango |-> 0, minPop |-> 30,
   legSpread |-> 20, premium |-> 30, step |-> 1, minAmount |-> 1]]

McMinFee == [a \in OneAsset |-> 3]

McGrid == <<-1200, -800, -400, 0, 400, 800, 1200>>
McSamples == <<-800, -400, 0, 400, 800>>

(* Per cent of the distribution below an offset from spot. *)
McLnCdf(x) ==
  CASE x <= -1200 -> 0 [] x \in -1199 .. -800 -> 5 [] x \in -799 .. -400 -> 20
    [] x \in -399 .. 0 -> 50 [] x \in 1 .. 400 -> 80 [] x \in 401 .. 800 -> 95
    [] OTHER -> 100

Root(days) == CASE days = 0 -> 0 [] days = 1 -> 10 [] days = 2 -> 14 [] days = 3 -> 17
                [] days = 4 -> 20 [] days = 5 -> 22 [] OTHER -> 28

(* Falls off with the distance from the strike. *)
McTimeValue(iv, days, distance) == Greatest(0, iv * Root(days) - distance \div 3)

Ticker(mid, width, iv, size) ==
  [iv |-> iv, bid |-> mid - width, ask |-> mid + width, oi |-> 10,
   bidSize |-> size, askSize |-> size]

(* A spot, and quotes whose mid depends on the expiry only; @@ <<>> has TLC compute *)
(* the function once.                                                              *)
Frame(spot, mid, iv, size) ==
  [spots |-> [a \in OneAsset |-> spot],
   quotes |-> [i \in [asset : OneAsset, type : {"Call"}, strike : Strikes, expiry : DOMAIN mid] |->
                 Ticker(mid[i.expiry], 5, iv, size)] @@ <<>>]

Calm == Frame(10400, (3 :> 260) @@ (5 :> 300) @@ (8 :> 420), 20, 20)
(* Dear for its volatility: a spread bought now loses at every price. *)
Rich == Frame(10400, (3 :> 260) @@ (5 :> 300) @@ (8 :> 600), 10, 20)
Inverted == Frame(10400, (3 :> 500) @@ (5 :> 450) @@ (8 :> 300), 20, 20)
Thin == Frame(10400, (3 :> 260) @@ (8 :> 420), 20, 2)
Dark == [spots |-> [a \in OneAsset |-> 0], quotes |-> <<>>]

McFrames == {Calm, Rich, Inverted, Thin, Dark}

=============================================================================
