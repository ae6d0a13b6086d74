------------------------------- MODULE Orders -------------------------------
(***************************************************************************)
(* The orders of one user that end with a payment into his USDT balance:   *)
(* recharges (paid by Notify2Handler, timed out by RechargeOrderTimeout)   *)
(* and leased miners and bought management products (paid out by           *)
(* TimerMinerOrderIncome and TimerManagementOrderIncome when they expire). *)
(* Each payment and the new status of its order are one transaction, which *)
(* selects the orders by their status with a plain read.                   *)
(*                                                                         *)
(* A balance is the number of times each payment is in it.  How much a     *)
(* payment is, and what the handlers of Wallet do to the balance in the    *)
(* meantime, are left out; a purchase, whose debit may be refused, is in,  *)
(* without the stock, the exchange code and the commission it also writes. *)
(* The database is that of Wallet: a snapshot from the first plain read    *)
(* on, and row locks from the first write to the end of the transaction.   *)
(* Reading the balance, saving it and adding its ledger row are one step:  *)
(* the read is from the snapshot, and others see nothing before Commit.    *)
(*                                                                         *)
(* The jobs compare an integer column, which the handlers fill with Unix   *)
(* seconds, with a time.Time.  MySQL gets that as a text and compares the  *)
(* column with the number it starts with, a year: the jobs find no order   *)
(* that a handler has dated, only one whose time was left at zero.         *)
(***************************************************************************)
EXTENDS Integers

CONSTANTS Recharges, Miners, Management, \* the orders, numbered
          Slots,                         \* goroutines that serve them
          MaxCrashes,                    \* how many transactions are lost
          Year, Unix,                    \* now, as the jobs compare it and as handlers write it
          Nobody

Orders   == Recharges \cup Miners \cup Management
Products == Miners \cup Management

ASSUME OrdersAssumption ==
  /\ Orders \subseteq Nat \ {0}
  /\ Recharges \cap Products = {} /\ Miners \cap Management = {}
  /\ {MaxCrashes, Year, Unix} \subseteq Nat /\ Year < Unix
  /\ Nobody \notin Slots

Credits == {"amount", "income", "principal"}
Parts   == Credits \cup {"price"}

VARIABLES
  status,        \* the committed status of each order
  balance, rows, \* the payments in the balance, and those the ledger shows
  undated,       \* orders whose expire_time, or create_time, is zero
  crashes,
  pc,            \* the statement a goroutine is at: a part it books, or the order it saves
  purpose,       \* the handler it runs
  order, left,   \* the order it is at, and those it still has to pay out
  hasSnap, snap, \* the snapshot of the balance its transaction reads
  owner,         \* the transaction that has locked the asset row
  newBalance,    \* what it has written there
  saved,         \* the statuses a transaction has written, "none" for none
  booked         \* the ledger rows it has added

db      == <<status, balance, rows>>
control == <<pc, purpose, order, left>>
reads   == <<hasSnap, snap>>
writes  == <<owner, newBalance, saved, booked>>
vars    == <<db, undated, crashes, control, reads, writes>>

Zero == [o \in Orders |-> [p \in Parts |-> 0]]
With(b, o, p) == [b EXCEPT ![o][p] = @ + 1]
Unsaved == [o \in Orders |-> "none"]

\* The status a new order is created with: LeaseMiner sets it, BuyMan and
\* SubmitRecharge do not.
Created(o) == IF o \in Miners THEN "1" ELSE ""
\* The status by which an order is selected for payment ("status = 0" selects
\* the empty status, which is zero as a number).
Unpaid(o) == IF o \in Recharges THEN "" ELSE "1"
\* The time in an order's row.
Stamp(o) == IF o \in undated THEN 0 ELSE Unix
Settled(o, s) == IF o \in Recharges THEN s \in {"1", "2"} ELSE s = "2"

Init ==
  /\ status = [o \in Orders |-> "none"]
  /\ balance = Zero /\ rows = Zero
  /\ undated = {} /\ crashes = 0
  /\ pc = [t \in Slots |-> "idle"] /\ purpose = [t \in Slots |-> "none"]
  /\ order = [t \in Slots |-> 0] /\ left = [t \in Slots |-> {}]
  /\ hasSnap = [t \in Slots |-> FALSE] /\ snap = [t \in Slots |-> Zero]
  /\ owner = Nobody
  /\ newBalance = [t \in Slots |-> Zero]
  /\ saved = [t \in Slots |-> Unsaved]
  /\ booked = [t \in Slots |-> Zero]
-----------------------------------------------------------------------------
\* A transaction begins; its first statement is at `first`.
Begin(t, what, first, o, os) ==
  /\ pc[t] = "idle"
  /\ pc' = [pc EXCEPT ![t] = first]
  /\ purpose' = [purpose EXCEPT ![t] = what]
  /\ order' = [order EXCEPT ![t] = o]
  /\ left' = [left EXCEPT ![t] = os]
  /\ UNCHANGED <<db, undated, crashes, writes>>

\* A plain read gives the transaction its snapshot.
Snapshot(t) ==
  /\ hasSnap' = [hasSnap EXCEPT ![t] = TRUE]
  /\ snap' = [snap EXCEPT ![t] = balance]

GoOn(t, next) ==
  /\ pc' = [pc EXCEPT ![t] = next]
  /\ UNCHANGED <<db, undated, crashes, purpose>>

\* Faulty variant: an early return without a Rollback.
ReleasedNever(t) == owner
Released(t) == IF owner = t THEN Nobody ELSE owner

\* The transaction ends, and what it has not committed is dropped.
End(t) ==
  /\ pc' = [pc EXCEPT ![t] = "idle"] /\ purpose' = [purpose EXCEPT ![t] = "none"]
  /\ order' = [order EXCEPT ![t] = 0] /\ left' = [left EXCEPT ![t] = {}]
  /\ hasSnap' = [hasSnap EXCEPT ![t] = FALSE] /\ snap' = [snap EXCEPT ![t] = Zero]
  /\ owner' = Released(t)
  /\ newBalance' = [newBalance EXCEPT ![t] = Zero]
  /\ saved' = [saved EXCEPT ![t] = Unsaved]
  /\ booked' = [booked EXCEPT ![t] = Zero]
  /\ UNCHANGED undated
-----------------------------------------------------------------------------
\* SubmitRecharge creates an order that waits for its payment.
SubmitRecharge(o) ==
  /\ o \in Recharges /\ status[o] = "none"
  /\ status' = [status EXCEPT ![o] = Created(o)]
  /\ UNCHANGED <<balance, rows, undated, crashes, control, reads, writes>>

\* LeaseMiner and BuyMan: the order is created, its price debited.
Buy(t, o) ==
  /\ o \in Products /\ status[o] = "none"
  /\ \A u \in Slots : order[u] # o
  /\ Begin(t, "purchase", "create", o, {})
  /\ UNCHANGED reads

Create(t) ==
  /\ pc[t] = "create"
  /\ saved' = [saved EXCEPT ![t][order[t]] = Created(order[t])]
  /\ GoOn(t, "read")
  /\ UNCHANGED <<order, left, reads, owner, newBalance, booked>>

\* UpdateCoinAssetsBalance reads the balance, which may not cover the price.
ReadBalance(t) ==
  /\ pc[t] = "read"
  /\ \/ /\ GoOn(t, "price") /\ Snapshot(t)
        /\ UNCHANGED <<order, left, writes>>
     \/ End(t) /\ UNCHANGED <<db, crashes>>

\* Notify2Handler, called any number of times for an order, finds the order
\* while it waits.  The payment was made or has failed.
Notify(t, o) ==
  /\ o \in Recharges /\ status[o] = Unpaid(o)
  /\ \E outcome \in {"paid", "failed"} : Begin(t, outcome, "order", o, {})
  /\ Snapshot(t)

\* TimerMinerOrderIncome or TimerManagementOrderIncome selects orders by status
\* and expire_time; with nothing to pay it ends at once.
Selected(products) == {o \in products : status[o] = Unpaid(o) /\ Stamp(o) <= Year}
Payout(t, products) ==
  /\ Selected(products) # {}
  /\ Begin(t, "payout", "pick", 0, Selected(products))
  /\ Snapshot(t)

\* The job's loop, by the orders' ids.
PickOrder(t) ==
  /\ pc[t] = "pick"
  /\ \/ /\ left[t] = {}
        /\ GoOn(t, "commit")
        /\ UNCHANGED <<order, left>>
     \/ \E o \in left[t] :
          /\ \A q \in left[t] : o <= q
          /\ order' = [order EXCEPT ![t] = o]
          /\ left' = [left EXCEPT ![t] = @ \ {o}]
          /\ GoOn(t, "income")
  /\ UNCHANGED <<reads, writes>>

\* Faulty variant: the balance is read through utils.Orm instead of tx.
ViewCommitted(t) == balance
View(t) == IF owner = t THEN newBalance[t] ELSE IF hasSnap[t] THEN snap[t] ELSE balance

AfterBooking(p) ==
  CASE p = "income" -> "principal" [] p = "principal" -> "order" [] OTHER -> "commit"

\* UpdateCoinAssetsBalance: the balance is saved and its ledger row added.
Book(t) ==
  /\ pc[t] \in Parts
  /\ owner \in {Nobody, t}
  /\ owner' = t
  /\ newBalance' = [newBalance EXCEPT ![t] = With(View(t), order[t], pc[t])]
  /\ booked' = [booked EXCEPT ![t] = With(@, order[t], pc[t])]
  /\ GoOn(t, AfterBooking(pc[t]))
  /\ UNCHANGED <<order, left, reads, saved>>

Target(t) == IF purpose[t] = "paid" THEN "1" ELSE "2"
AfterOrder(t) ==
  CASE purpose[t] = "paid" -> "amount" [] purpose[t] = "failed" -> "commit" [] OTHER -> "pick"
\* No other transaction has written the order.
Unlocked(t, o) == \A u \in Slots \ {t} : saved[u][o] = "none"

\* Faulty variants: the new status is not set; it is saved through utils.Orm.
SaveOrderAsRead(t) ==
  /\ pc[t] = "order" /\ Unlocked(t, order[t])
  /\ saved' = [saved EXCEPT ![t][order[t]] = Unpaid(order[t])]
  /\ GoOn(t, AfterOrder(t))
  /\ UNCHANGED <<order, left, reads, owner, newBalance, booked>>
SaveOrderOutside(t) ==
  /\ pc[t] = "order" /\ Unlocked(t, order[t])
  /\ status' = [status EXCEPT ![order[t]] = Target(t)]
  /\ pc' = [pc EXCEPT ![t] = AfterOrder(t)]
  /\ UNCHANGED <<balance, rows, undated, crashes, purpose, order, left, reads, writes>>
SaveOrder(t) ==
  /\ pc[t] = "order" /\ Unlocked(t, order[t])
  /\ saved' = [saved EXCEPT ![t][order[t]] = Target(t)]
  /\ GoOn(t, AfterOrder(t))
  /\ UNCHANGED <<order, left, reads, owner, newBalance, booked>>

Commit(t) ==
  /\ pc[t] = "commit"
  /\ status' = [o \in Orders |-> IF saved[t][o] = "none" THEN status[o] ELSE saved[t][o]]
  /\ balance' = IF owner = t THEN newBalance[t] ELSE balance
  /\ rows' = [o \in Orders |-> [p \in Parts |-> rows[o][p] + booked[t][o][p]]]
  /\ End(t)
  /\ UNCHANGED crashes

\* RechargeOrderTimeout, one UPDATE that waits for the recharges others have
\* locked and then sees what is committed.  It writes the number 2 into an ENUM:
\* MySQL takes that for the second of '0', '1', '2', '3', which is "1", completed.
TimedOut(o) == o \in Recharges /\ status[o] = Unpaid(o) /\ Stamp(o) <= Year
RechargeOrderTimeout ==
  /\ \A o \in Recharges, t \in Slots : saved[t][o] = "none"
  /\ \E o \in Recharges : TimedOut(o)
  /\ status' = [o \in Orders |-> IF TimedOut(o) THEN "1" ELSE status[o]]
  /\ UNCHANGED <<balance, rows, undated, crashes, control, reads, writes>>

\* Somebody else who writes to the tables leaves the time of an order at zero.
Undate(o) ==
  /\ status[o] # "none" /\ ~Settled(o, status[o]) /\ o \notin undated
  /\ undated' = undated \cup {o}
  /\ UNCHANGED <<db, crashes, control, reads, writes>>

\* The process or its connection is lost, or a statement fails whose error ends
\* the handler: the database drops the transaction.
Crash(t) ==
  /\ pc[t] # "idle" /\ crashes < MaxCrashes
  /\ crashes' = crashes + 1
  /\ End(t)
  /\ UNCHANGED db
-----------------------------------------------------------------------------
Step(t) ==
  \/ Create(t) \/ ReadBalance(t) \/ PickOrder(t)
  \/ Book(t) \/ SaveOrder(t) \/ Commit(t)
Cron(products) == \E t \in Slots : Payout(t, products)

Next ==
  \/ \E o \in Orders : SubmitRecharge(o) \/ Undate(o)
  \/ \E t \in Slots, o \in Orders : Buy(t, o) \/ Notify(t, o)
  \/ \E products \in {Miners, Management} : Cron(products)
  \/ RechargeOrderTimeout
  \/ \E t \in Slots : Step(t) \/ Crash(t)

Spec == Init /\ [][Next]_vars

\* Goroutines run and the database answers; DeamonAll starts the payout jobs
\* every hour and the timeout every five minutes.  Nobody promises purchases,
\* recharges, or callbacks.
FairSpec ==
  /\ Spec
  /\ \A t \in Slots : WF_vars(Step(t))
  /\ WF_vars(Cron(Miners)) /\ WF_vars(Cron(Management))
  /\ WF_vars(RechargeOrderTimeout)
-----------------------------------------------------------------------------
Statuses == {"none", "", "1", "2"}
Places   == {"idle", "create", "read", "pick", "order", "commit"} \cup Parts
Counts   == [Orders -> [Parts -> Nat]]

TypeOK ==
  /\ status \in [Orders -> Statuses]
  /\ balance \in Counts /\ rows \in Counts
  /\ undated \subseteq Orders /\ crashes \in Nat
  /\ pc \in [Slots -> Places]
  /\ purpose \in [Slots -> {"none", "purchase", "paid", "failed", "payout"}]
  /\ order \in [Slots -> Orders \cup {0}] /\ left \in [Slots -> SUBSET Orders]
  /\ hasSnap \in [Slots -> BOOLEAN] /\ snap \in [Slots -> Counts]
  /\ owner \in Slots \cup {Nobody} /\ newBalance \in [Slots -> Counts]
  /\ saved \in [Slots -> [Orders -> Statuses]]
  /\ booked \in [Slots -> Counts]

\* No payment is in the balance twice, however often a callback is delivered
\* and however the runs of a payout job overlap: a transaction that selects an
\* order still unpaid computes from a balance without its payment.
PaidOnce == \A o \in Orders, p \in Credits : balance[o][p] <= 1

\* A payment that the ledger shows belongs to an order that nobody will select
\* again: the callback and the jobs never leave one without the other.
BookedIsSettled ==
  \A o \in Orders : (\E p \in Credits : rows[o][p] > 0) => Settled(o, status[o])

\* A finished product has paid back income and principal, and a completed
\* recharge its amount, in the ledger, whatever crashed on the way; but for a
\* recharge that the timeout may find, which completes it without a payment.
SettledIsBooked ==
  \A o \in Orders :
    /\ o \in Recharges /\ status[o] = "1" /\ Stamp(o) > Year => rows[o]["amount"] > 0
    /\ o \in Products /\ status[o] = "2" => rows[o]["income"] > 0 /\ rows[o]["principal"] > 0

\* Every order that a job can find is settled, despite crashes: paid out (a leased
\* miner, a bought product), or paid or timed out (a recharge).
EveryFoundOrderSettled ==
  \A o \in Orders :
    (status[o] = Unpaid(o) /\ Stamp(o) <= Year) ~> Settled(o, status[o])

\* Every bought product is paid out in the end: its time comes, and the job runs
\* every hour.
EveryProductSettled ==
  \A o \in Products : status[o] # "none" ~> Settled(o, status[o])
=============================================================================
