------------------------------- MODULE Limits -------------------------------
(***************************************************************************)
(* What there is only so much of: management products (BuyMan), miners     *)
(* (LeaseMiner), an open contract (BuyContract), withdrawals of a day      *)
(* (WithdrawApply), the gifts for an identity card (SaveIdCardInfo) and    *)
(* for an invited user's first recharge (userFirstRecharge), and the row   *)
(* of a coin's balance (UpdateCoinAssetsBalance).  Each handler looks at   *)
(* the limit and later writes what the limit is compared with: orders in a *)
(* transaction that debits the user, gifts and rows on their own.  A count *)
(* that fails is read as none, and its handler goes on.                    *)
(*                                                                         *)
(* One management product, one miner and one exchange code, which gives a  *)
(* discount.  The balance is that of Wallet: here a debit is made or       *)
(* refused.  A row is locked from its first write to the end of the        *)
(* transaction, so a transaction's writes are computed when it commits     *)
(* from what it saw and from rows nobody else can have written since.      *)
(***************************************************************************)
EXTENDS Integers, FiniteSets

CONSTANTS Users, Slots,    \* the goroutines that serve them
          MaxNum,          \* bound: quantity that may be asked for
          IssuesNum,       \* units issued of the management product
          MinersIssued,    \* units issued of the miner
          BuyLimit,        \* what a user may lease of it
          TotalNum,        \* units the exchange code is good for
          DayWithdrawNum,  \* withdrawals a day
          MaxPlaced,       \* bound: what is ever had
          Nobody

ASSUME LimitsAssumption ==
  /\ Users # {} /\ IsFiniteSet(Slots) /\ Slots # {} /\ MaxNum \in Nat \ {0}
  /\ {IssuesNum, MinersIssued, BuyLimit, TotalNum, DayWithdrawNum, MaxPlaced} \subseteq Nat
  /\ Nobody \notin Slots /\ Users \cap {"code", "BuyMan", "LeaseMiner"} = {}

Stocked  == {"BuyMan", "LeaseMiner"}
Gifts    == {"SaveIdCardInfo", "userFirstRecharge"}
\* What a user may have one of.
Single   == Gifts \cup {"BuyContract", "UpdateCoinAssetsBalance"}
Handlers == Stocked \cup Single \cup {"WithdrawApply"}
\* Those that do not look at what went wrong with a count.  BuyContract refuses
\* when it finds an order, and takes any error of the query for none.
Heedless == {"LeaseMiner", "WithdrawApply", "userFirstRecharge", "BuyContract"}
Rows     == {"code"} \cup Stocked \cup Users \* a user stands for his asset row

VARIABLES
  stock,   \* sold_num of the management product, sales_num of the miner
  used,    \* used_num of the exchange code
  orders,  \* the rows of each user that a limit is compared with (withdrawals: today's)
  blind,   \* those of them whose request missed the others, its count having failed
  units,   \* units ordered of each
  coded,   \* units leased with the code
  placed,  \* all there ever was
  owner,   \* the transaction that has locked a row
  pc, req, seen

tables == <<stock, used, orders, blind, units, coded, placed>>
vars   == <<tables, owner, pc, req, seen>>

Requests == [handler : Handlers, user : Users, num : 1..MaxNum, code : BOOLEAN]
NoRequest == [handler |-> "BuyMan", user |-> CHOOSE u \in Users : TRUE, num |-> 1, code |-> FALSE]
\* What a handler has read: a product's units sold, the user's orders (or that
\* they could not be read), the code's uses.
Sights == [stock : Nat, count : Nat, failed : BOOLEAN, used : Nat]
Unseen == [stock |-> 0, count |-> 0, failed |-> FALSE, used |-> 0]

Init ==
  /\ stock = [p \in Stocked |-> 0] /\ used = 0
  /\ orders = [u \in Users |-> [h \in Handlers |-> 0]] /\ blind = orders
  /\ units = [p \in Stocked |-> 0] /\ coded = 0 /\ placed = 0
  /\ owner = [r \in Rows |-> Nobody]
  /\ pc = [t \in Slots |-> "idle"]
  /\ req = [t \in Slots |-> NoRequest]
  /\ seen = [t \in Slots |-> Unseen]
-----------------------------------------------------------------------------
Count(t) == orders[req[t].user][req[t].handler]

Released(t) == [r \in Rows |-> IF owner[r] = t THEN Nobody ELSE owner[r]]

GoTo(t, place) == pc' = [pc EXCEPT ![t] = place]
Reads(t, value) == seen' = [seen EXCEPT ![t] = value]
Ends(t) == GoTo(t, "idle") /\ Reads(t, Unseen) /\ req' = [req EXCEPT ![t] = NoRequest]

\* Faulty variant: a refused debit returns without Rollback.
AbortNever(t) == Ends(t) /\ UNCHANGED <<tables, owner>>
\* The transaction, if there is one, is rolled back.
Abort(t) == Ends(t) /\ owner' = Released(t) /\ UNCHANGED tables

\* A request arrives.  The products are asked for in quantities, the rest one
\* by one.
Ask(t) ==
  /\ pc[t] = "idle"
  /\ placed + Cardinality({v \in Slots : pc[v] # "idle"}) < MaxPlaced
  /\ \E r \in Requests :
       /\ r.code => r.handler = "LeaseMiner"
       /\ r.handler \notin Stocked => r.num = 1
       /\ req' = [req EXCEPT ![t] = r]
       /\ GoTo(t, IF r.handler \in Stocked THEN "stock" ELSE "count")
  /\ UNCHANGED <<tables, owner, seen>>

\* utils.Orm.First reads the product, before the transaction.
ReadStock(t) ==
  /\ pc[t] = "stock"
  /\ LET sold == stock[req[t].handler] IN
       IF req[t].handler = "LeaseMiner" \/ req[t].num <= IssuesNum - sold
       THEN /\ Reads(t, [seen[t] EXCEPT !.stock = sold])
            /\ GoTo(t, IF req[t].handler = "LeaseMiner" THEN "count" ELSE "pay")
            /\ UNCHANGED <<tables, owner, req>>
       ELSE Abort(t)

\* Faulty variant: `>` for `>=` in the comparison of today's withdrawals.
AllowedOneMore(t, n) ==
  CASE req[t].handler = "LeaseMiner" ->
         n + req[t].num <= BuyLimit /\ req[t].num <= MinersIssued - seen[t].stock
    [] req[t].handler \in Single -> n = 0
    [] OTHER -> n <= DayWithdrawNum
\* What n orders of the user allow.  The miners' limit counts orders, and adds
\* the units asked for.
Allowed(t, n) ==
  CASE req[t].handler = "LeaseMiner" ->
         n + req[t].num <= BuyLimit /\ req[t].num <= MinersIssued - seen[t].stock
    [] req[t].handler \in Single -> n = 0
    [] OTHER -> n < DayWithdrawNum

\* What the user has is counted: before the transaction, or (BuyContract) with
\* its first plain reads.  The query may fail: then the heedless take it for
\* none (which matters when there are some), the others end, as in Crash.
CountOrders(t) ==
  /\ pc[t] = "count"
  /\ \E failed \in BOOLEAN :
       LET n == IF failed THEN 0 ELSE Count(t) IN
       /\ failed => req[t].handler \in Heedless /\ Count(t) > 0
       /\ IF Allowed(t, n)
          THEN /\ Reads(t, [seen[t] EXCEPT !.count = n, !.failed = failed])
               /\ GoTo(t, CASE req[t].code -> "code"
                              [] req[t].handler \in Gifts -> "give"
                              [] req[t].handler = "UpdateCoinAssetsBalance" -> "commit"
                              [] OTHER -> "pay")
               /\ UNCHANGED <<tables, owner, req>>
          ELSE Abort(t)

\* LeaseMiner reads the code through utils.Orm, after Begin.  A code that is
\* refused returns without Rollback: the transaction stays open.
ReadCode(t) ==
  /\ pc[t] = "code"
  /\ IF used < TotalNum /\ req[t].num <= TotalNum
     THEN Reads(t, [seen[t] EXCEPT !.used = used]) /\ GoTo(t, "spend") /\ UNCHANGED req
     ELSE Ends(t)
  /\ UNCHANGED <<tables, owner>>

\* A write waits for the row's lock.
Lock(t, row, next) ==
  /\ owner[row] \in {Nobody, t}
  /\ owner' = [owner EXCEPT ![row] = t]
  /\ GoTo(t, next)
  /\ UNCHANGED <<tables, req, seen>>

SpendCode(t) == pc[t] = "spend" /\ Lock(t, "code", "pay")

\* The order is created and the user debited, or his balance does not suffice.
Pay(t) ==
  /\ pc[t] = "pay"
  /\ Lock(t, req[t].user, IF req[t].handler \in Stocked THEN "book" ELSE "commit")
Refuse(t) == pc[t] = "pay" /\ Abort(t)

\* A gift is saved in the balance by a statement of its own, then in the ledger.
Give(t) ==
  /\ pc[t] = "give" /\ owner[req[t].user] = Nobody
  /\ GoTo(t, "commit") /\ UNCHANGED <<tables, owner, req, seen>>

BookStock(t) == pc[t] = "book" /\ Lock(t, req[t].handler, "commit")

\* Faulty variant: BuyMan writes back the number it read, plus its units.
StockAbsolute(t) ==
  seen[t].stock + IF req[t].handler = "BuyMan" THEN req[t].num ELSE 1
\* BuyMan adds to the row's value, LeaseMiner to the one it read, and only one.
NewStock(t) ==
  IF req[t].handler = "BuyMan" THEN stock["BuyMan"] + req[t].num ELSE seen[t].stock + 1

Commit(t) ==
  /\ pc[t] = "commit"
  /\ LET r == req[t] IN
       /\ stock' = IF r.handler \in Stocked THEN [stock EXCEPT ![r.handler] = NewStock(t)] ELSE stock
       /\ used' = IF r.code THEN seen[t].used + r.num ELSE used
       /\ orders' = [orders EXCEPT ![r.user][r.handler] = @ + 1]
       /\ blind' = IF seen[t].failed THEN [blind EXCEPT ![r.user][r.handler] = @ + 1] ELSE blind
       /\ units' = IF r.handler \in Stocked THEN [units EXCEPT ![r.handler] = @ + r.num] ELSE units
       /\ coded' = IF r.code THEN coded + r.num ELSE coded
       /\ placed' = placed + 1
  /\ owner' = Released(t)
  /\ Ends(t)

\* The connection or the process is lost.
Crash(t) == pc[t] # "idle" /\ Abort(t)

\* At midnight nobody has withdrawn today.
NewDay ==
  /\ \E u \in Users : orders[u]["WithdrawApply"] > 0
  /\ orders' = [u \in Users |-> [orders[u] EXCEPT !["WithdrawApply"] = 0]]
  /\ blind' = [u \in Users |-> [blind[u] EXCEPT !["WithdrawApply"] = 0]]
  /\ UNCHANGED <<stock, used, units, coded, placed, owner, pc, req, seen>>
-----------------------------------------------------------------------------
Step(t) ==
  \/ ReadStock(t) \/ CountOrders(t) \/ ReadCode(t)
  \/ SpendCode(t) \/ Pay(t) \/ Give(t) \/ BookStock(t) \/ Commit(t)

Next == NewDay \/ \E t \in Slots : Ask(t) \/ Step(t) \/ Refuse(t) \/ Crash(t)

Spec == Init /\ [][Next]_vars
\* The database answers, and grants the lock of a row in the order of requests.
FairSpec == Spec /\ \A t \in Slots : SF_vars(Step(t))
-----------------------------------------------------------------------------
Places == {"idle", "stock", "count", "code", "spend", "pay", "give", "book", "commit"}

TypeOK ==
  /\ stock \in [Stocked -> Nat] /\ units \in [Stocked -> Nat]
  /\ used \in Nat /\ coded \in Nat /\ placed \in 0..MaxPlaced
  /\ orders \in [Users -> [Handlers -> Nat]] /\ blind \in [Users -> [Handlers -> Nat]]
  /\ owner \in [Rows -> Slots \cup {Nobody}]
  /\ pc \in [Slots -> Places] /\ req \in [Slots -> Requests]
  /\ seen \in [Slots -> Sights]

\* However requests overlap, sold_num is what has been ordered of a management
\* product; sales_num and used_num, written back from earlier reads, may lose
\* orders but never show one that was not placed.
CountersAreOrdered ==
  /\ stock["BuyMan"] = units["BuyMan"]
  /\ stock["LeaseMiner"] <= units["LeaseMiner"]
  /\ used <= coded

\* The checks are made before, and outside of, the transactions they are for, so
\* requests that overlap pass limits together, and a request whose count failed
\* passes one alone.  Nothing else does: beyond a limit there is at most one
\* request for each of those served at the same time as the one that was
\* entitled, however long they take, and one for each count that failed.
LimitsBendAsCounted ==
  LET others == Cardinality(Slots) - 1 IN
  /\ units["BuyMan"] <= IssuesNum + others * MaxNum
  /\ \A u \in Users :
       /\ orders[u]["LeaseMiner"] <= BuyLimit + others + blind[u]["LeaseMiner"]
       /\ \A h \in Single : orders[u][h] <= 1 + others + blind[u][h]
       /\ orders[u]["WithdrawApply"] <= DayWithdrawNum + others + blind[u]["WithdrawApply"]

\* What t has read was so, and still is: the orders it has counted, or taken for
\* none.
Current(t) ==
  IF req[t].handler = "BuyMan" THEN seen[t].stock = stock["BuyMan"] ELSE seen[t].count = Count(t)
Within(u) ==
  /\ orders[u]["LeaseMiner"] <= BuyLimit
  /\ \A h \in Single : orders[u][h] <= 1
  /\ orders[u]["WithdrawApply"] <= DayWithdrawNum

\* A request leaves a limit that was respected respected when what it has read is
\* so at its commit: a limit is broken only by one that others have overtaken
\* since its check, or whose count failed with orders there to be counted.
KeptIfReadStillHolds ==
  [][\A t \in Slots :
       Commit(t) /\ Current(t) =>
         /\ req[t].handler = "BuyMan" => units'["BuyMan"] <= IssuesNum
         /\ \A u \in Users : Within(u) => Within(u)']_vars

\* Every request ends, those that wait for a row's lock too: no order of locks
\* makes two of them wait for each other.
EveryRequestEnds == \A t \in Slots : pc[t] # "idle" ~> pc[t] = "idle"
=============================================================================
