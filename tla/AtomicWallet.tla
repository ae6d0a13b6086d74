---------------------------- MODULE AtomicWallet ----------------------------
(***************************************************************************)
(* What the two wallets of a user promise to whoever uses them: an         *)
(* operation moves its amounts all at once or not at all, it never takes a *)
(* balance below zero on the way, and each amount becomes one ledger row   *)
(* that starts where the row before it ended.                              *)
(***************************************************************************)
EXTENDS Integers, Sequences

CONSTANTS Amounts, Extras, Asset0, Money0

VARIABLES asset, money, coinLog, manLog
vars == <<asset, money, coinLog, manLog>>

\* The ledger row of an amount, and the rows of one amount or of two, booked one
\* after the other on a balance; a second amount of zero books nothing.
Entry(n, balance) == [amount |-> n, before |-> balance, after |-> balance + n]
Single(n, balance) == <<Entry(n, balance)>>
Pair(n, m, balance) ==
  IF m = 0 THEN Single(n, balance) ELSE <<Entry(n, balance), Entry(m, balance + n)>>

Covered(rows) == \A i \in 1..Len(rows) : rows[i].after >= 0
BalanceAfter(rows, balance) == IF rows = <<>> THEN balance ELSE rows[Len(rows)].after

Init ==
  /\ asset = Asset0 /\ money = Money0
  /\ coinLog = <<>> /\ manLog = <<>>

\* One operation: coin amounts on one wallet, management amounts on the other.
Move(coinRows, manRows) ==
  /\ Covered(coinRows) /\ Covered(manRows)
  /\ asset' = BalanceAfter(coinRows, asset)
  /\ money' = BalanceAfter(manRows, money)
  /\ coinLog' = coinLog \o coinRows
  /\ manLog' = manLog \o manRows

Next ==
  \E a \in Amounts, x \in Extras :
    \/ Move(Single(-a, asset), Single(a, money))  \* into the management wallet
    \/ Move(Single(a, asset), Single(-a, money))  \* out of it
    \/ Move(Pair(-a, -x, asset), <<>>)            \* a withdrawal and its fee
    \/ Move(Pair(a, x, asset), <<>>)              \* a recharge and its gift
    \/ Move(Single(a, asset), <<>>)               \* a paid order
    \/ Move(<<>>, Pair(a, x, money))              \* the rebates of one or two orders

Spec == Init /\ [][Next]_vars
=============================================================================
