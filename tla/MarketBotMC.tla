----------------------------- MODULE MarketBotMC -----------------------------
(* The market bot with a few of each event that is not its own.            *)
EXTENDS MarketBot, TLC

MCDurations == {1}
=============================================================================
