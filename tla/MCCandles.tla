----------------------------- MODULE MCCandles -----------------------------
(* Instances of Candles for the model checker. *)
EXTENDS Candles

\* A minute, and two intervals of it, each a multiple of the one before.
Chain == <<1, 2, 4>>
\* A day, as the unit, and the week.
Week == <<1, 7>>
=============================================================================
