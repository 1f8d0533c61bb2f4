--------------------------- MODULE MCOrderPricing ---------------------------
(* Prices around the bands of three grids, one of them Deribit's for BTC     *)
(* (0.0001 below 0.005, 0.0005 from there on).                               *)
EXTENDS OrderPricing

McGrids == {[tick |-> 1, steps |-> <<[above |-> 50, tick |-> 5]>>],
            [tick |-> 1, steps |-> <<[above |-> 20, tick |-> 2], [above |-> 50, tick |-> 5]>>],
            [tick |-> 5, steps |-> <<>>]}

McLots == {[min |-> 1], [min |-> 10]}

McCandidates ==
  {c \in [nearBid : {31, 136, 340, 347, 364}, farAsk : {140, 347, 352, 771}, spot : {7}, qty : {2, 10}] :
     c.farAsk > c.nearBid}
  \cup {[nearBid |-> 48, farAsk |-> 52, spot |-> 1, qty |-> 10]}

(* Quotes lie on every grid: McQuotes are multiples of 10. *)
Sides == {[bid |-> 0, ask |-> 0], [bid |-> 0, ask |-> 10], [bid |-> 10, ask |-> 30],
          [bid |-> 50, ask |-> 50], [bid |-> 40, ask |-> 0]}

McQuotes == [near : Sides, far : Sides, qty : {10}]

=============================================================================
