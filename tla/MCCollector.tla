--------------------------- MODULE MCCollector ---------------------------
(* Two assets, of which the exchange lists one or two instruments. *)
EXTENDS Collector

TwoAssets == <<"BTC", "ETH">>

McChains == ("BTC" :> {<<>>, <<"b1", "b2">>}) @@ ("ETH" :> {<<>>, <<"e1">>})

==========================================================================
