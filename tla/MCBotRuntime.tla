---------------------------- MODULE MCBotRuntime ----------------------------
(* A small instance of BotRuntime for TLC. *)
EXTENDS BotRuntime

OneAsset == [l \in Leg |-> CHOOSE a \in Asset : TRUE]

=============================================================================
