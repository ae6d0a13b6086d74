----------------------------- MODULE MCTradeHub -----------------------------
(* Instances of TradeHub for the model checker. *)
EXTENDS TradeHub, TLC

Symmetric == Permutations(Clients) \cup Permutations(Topics)
=============================================================================
