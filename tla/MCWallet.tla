------------------------------ MODULE MCWallet ------------------------------
(* Instances of Wallet for the model checker. *)
EXTENDS Wallet, TLC

Symmetric == Permutations(Req)

\* No save fails: every transaction keeps what it has written.
SavesSucceed == \A r \in Req : open[r] /\ ~unsaved[r]
=============================================================================
