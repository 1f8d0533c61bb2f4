-------------------------- MODULE MCDecisionEngine --------------------------
(* Small instances of DecisionEngine for TLC. *)
EXTENDS DecisionEngine, FiniteSetsExt, TLC

(* Trades are interchangeable where there is one asset. *)
TradeSymmetry == Permutations(Trade)

SoleAsset == [t \in Trade |-> CHOOSE a \in Asset : TRUE]

NoCommands == {}
AllCommands == {"stop_bot", "start_bot", "start_drain", "drain_and_new",
                "start_with_assets"}

Even == {0}
WinsOrLoses == {-1, 1}

=============================================================================
