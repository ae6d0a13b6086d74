------------------------------ MODULE MCCache ------------------------------
(* Instances of Cache for the model checker. *)
EXTENDS Cache, TLC

CONSTANTS home, config

\* The home page, whose loader asks for the configuration.
MCNames  == {home, config}
MCPeriod  == home :> 1 @@ config :> 2
MCInner  == home :> config @@ config :> None
MCFails  == {home}

Symmetric == Permutations(Callers)
=============================================================================
