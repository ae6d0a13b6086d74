---------------------------- MODULE OrdersProofs ----------------------------
(***************************************************************************)
(* Proofs about Orders, for any orders, goroutines and number of crashes.  *)
(* The inductive invariant says of every transaction what it has read,     *)
(* written and still to do; a transaction that goes on does not disturb    *)
(* what it says of the others, because a settled order stays settled.      *)
(***************************************************************************)
EXTENDS Orders, TLAPS

\* Each handler goes through its own statements, and reads from a snapshot.
Phase(t) ==
  /\ purpose[t] = "none" <=> pc[t] = "idle"
  /\ purpose[t] = "purchase" => pc[t] \in {"create", "read", "price", "commit"}
  /\ purpose[t] = "paid" => pc[t] \in {"order", "amount", "commit"}
  /\ purpose[t] = "failed" => pc[t] \in {"order", "commit"}
  /\ purpose[t] = "payout" => pc[t] \in {"pick", "income", "principal", "order", "commit"}
  /\ purpose[t] \in {"paid", "failed", "payout"} => hasSnap[t]
  /\ purpose[t] = "none" => owner # t

\* A purchase is of an order that is not there yet; the others found theirs.
Known(t) ==
  /\ purpose[t] = "purchase" =>
       order[t] \in Products /\ status[order[t]] = "none" /\ left[t] = {}
  /\ purpose[t] \in {"paid", "failed"} =>
       order[t] \in Recharges /\ status[order[t]] # "none" /\ left[t] = {}
  /\ purpose[t] = "payout" =>
       /\ left[t] \subseteq Products /\ order[t] \notin left[t]
       /\ \A o \in left[t] : status[o] # "none"
       /\ pc[t] \in {"income", "principal", "order"} => order[t] # 0
       /\ order[t] # 0 => order[t] \in Products /\ status[order[t]] # "none"
  /\ purpose[t] = "none" => left[t] = {} /\ order[t] = 0 /\ saved[t] = Unsaved /\ booked[t] = Zero

\* What a transaction writes to an order settles it, or creates it.
SavedOK(t) ==
  \A o \in Orders : saved[t][o] # "none" =>
    \/ Settled(o, saved[t][o]) /\ status[o] # "none"
    \/ purpose[t] = "purchase" /\ o = order[t] /\ saved[t][o] = Created(o)

\* A payment that a snapshot shows has settled its order.
SnapOK(t) ==
  hasSnap[t] => \A o \in Orders, p \in Credits :
    snap[t][o][p] <= 1 /\ (snap[t][o][p] > 0 => Settled(o, status[o]))

\* A job has booked for an order and not yet saved it.
Paying(t, o) == order[t] = o /\ purpose[t] = "payout" /\ pc[t] \in {"principal", "order"}

\* A payment in the balance that a transaction has written belongs to an order
\* that is settled, now or when the transaction commits.
NewOK(t) ==
  owner = t => \A o \in Orders, p \in Credits :
    /\ newBalance[t][o][p] <= 1
    /\ newBalance[t][o][p] > 0 =>
         Settled(o, status[o]) \/ Settled(o, saved[t][o]) \/ Paying(t, o)

\* The balance a transaction computes from lacks the payments it still makes.
TodoOK(t) ==
  /\ \A o \in left[t], p \in Credits : View(t)[o][p] = 0
  /\ pc[t] \in {"income", "amount"} \/ (pc[t] = "order" /\ purpose[t] # "payout") =>
       \A p \in Credits : View(t)[order[t]][p] = 0
  /\ pc[t] = "principal" => View(t)[order[t]]["principal"] = 0
  /\ pc[t] = "amount" => Settled(order[t], saved[t][order[t]])

\* Ledger rows and statuses are written together.
BookedOK(t) ==
  /\ \A o \in Orders, p \in Credits :
       booked[t][o][p] > 0 => Settled(o, saved[t][o]) \/ Paying(t, o)
  /\ \A o \in Recharges : saved[t][o] = "1" =>
       booked[t][o]["amount"] > 0 \/ (pc[t] = "amount" /\ order[t] = o)
  /\ \A o \in Products : saved[t][o] = "2" =>
       booked[t][o]["income"] > 0 /\ booked[t][o]["principal"] > 0
  /\ purpose[t] = "payout" /\ pc[t] \in {"principal", "order"} =>
       booked[t][order[t]]["income"] > 0
  /\ purpose[t] = "payout" /\ pc[t] = "order" => booked[t][order[t]]["principal"] > 0

Local(t) ==
  /\ Phase(t) /\ Known(t) /\ SavedOK(t) /\ SnapOK(t)
  /\ NewOK(t) /\ TodoOK(t) /\ BookedOK(t)

\* Nobody else is at an order that is being bought.
Alone ==
  \A t, u \in Slots : purpose[t] = "purchase" /\ order[u] = order[t] => u = t

BalanceOK ==
  \A o \in Orders, p \in Credits :
    balance[o][p] <= 1 /\ (balance[o][p] > 0 => Settled(o, status[o]))

IInv ==
  /\ TypeOK
  /\ \A t \in Slots : Local(t)
  /\ Alone /\ BalanceOK
  /\ BookedIsSettled /\ SettledIsBooked
-----------------------------------------------------------------------------
\* Settled orders stay settled, and orders do not disappear.
Mono ==
  \A o \in Orders :
    /\ Settled(o, status[o]) => Settled(o, status'[o])
    /\ status[o] # "none" => status'[o] # "none"

\* A step leaves the transaction of u, and an order that it buys, alone.
Same(u) ==
  /\ pc'[u] = pc[u] /\ purpose'[u] = purpose[u]
  /\ order'[u] = order[u] /\ left'[u] = left[u]
  /\ hasSnap'[u] = hasSnap[u] /\ snap'[u] = snap[u]
  /\ (owner' = u <=> owner = u) /\ newBalance'[u] = newBalance[u]
  /\ saved'[u] = saved[u] /\ booked'[u] = booked[u]
Kept(u) == purpose[u] = "purchase" => status'[order[u]] = status[order[u]]

LEMMA LocalFrame ==
  ASSUME NEW u \in Slots, TypeOK, Local(u), Same(u), Kept(u), Mono
  PROVE  Local(u)'
<1>1. Phase(u)'
  BY DEF Local, Phase, Same
<1>2. Known(u)'
  <2>1. left[u] \subseteq Orders
    BY DEF TypeOK
  <2>2. Products \subseteq Orders /\ Recharges \subseteq Orders
    BY DEF Orders, Products
  <2>3. QED
    BY <2>1, <2>2 DEF Local, Known, Same, Kept, Mono
<1>3. SavedOK(u)'
  BY DEF Local, SavedOK, Same, Mono
<1>4. SnapOK(u)'
  BY DEF Local, SnapOK, Same, Mono
<1>5. NewOK(u)'
  BY DEF Local, NewOK, Same, Mono, Paying
<1>6. TodoOK(u)'
  <2>1. CASE owner = u \/ hasSnap[u]
    <3>1. View(u)' = View(u)
      BY <2>1 DEF View, Same
    <3>2. QED
      BY <3>1 DEF Local, TodoOK, Same
  <2>2. CASE owner # u /\ ~hasSnap[u]
    <3>1. purpose[u] \in {"none", "purchase"}
      BY <2>2 DEF Local, Phase, TypeOK
    <3>2. left[u] = {} /\ pc[u] \in {"idle", "create", "read", "price", "commit"}
      BY <3>1 DEF Local, Phase, Known
    <3>3. QED
      BY <3>2 DEF TodoOK, Same
  <2>3. QED
    BY <2>1, <2>2
<1>7. BookedOK(u)'
  BY DEF Local, BookedOK, Same, Paying
<1>8. QED
  BY <1>1, <1>2, <1>3, <1>4, <1>5, <1>6, <1>7 DEF Local

LEMMA WithLemma ==
  ASSUME NEW b \in Counts, NEW o \in Orders, NEW p \in Parts
  PROVE  /\ With(b, o, p) \in Counts
         /\ With(b, o, p)[o][p] = b[o][p] + 1
         /\ \A x \in Orders, y \in Parts :
              x # o \/ y # p => With(b, o, p)[x][y] = b[x][y]
  BY DEF With, Counts

LEMMA ZeroLemma == Zero \in Counts /\ \A o \in Orders, p \in Parts : Zero[o][p] = 0
  BY DEF Zero, Counts

LEMMA ViewType ==
  ASSUME NEW t \in Slots, TypeOK
  PROVE  View(t) \in Counts
  BY DEF View, TypeOK

LEMMA InitIInv == Init => IInv
<1> SUFFICES ASSUME Init PROVE IInv
  OBVIOUS
<1> USE ZeroLemma
<1>1. TypeOK
  BY DEF Init, TypeOK, Unsaved, Statuses, Places
<1>2. ASSUME NEW t \in Slots PROVE Local(t)
  <2>1. Phase(t) /\ Known(t)
    BY OrdersAssumption DEF Init, Phase, Known
  <2>2. SavedOK(t)
    BY DEF Init, SavedOK, Unsaved
  <2>3. SnapOK(t) /\ NewOK(t)
    BY OrdersAssumption DEF Init, SnapOK, NewOK
  <2>4. TodoOK(t)
    BY DEF Init, TodoOK
  <2>5. BookedOK(t)
    <3>1. \A o \in Orders, p \in Credits : booked[t][o][p] = 0
      BY DEF Init, Parts
    <3>2. \A o \in Orders : saved[t][o] = "none"
      BY DEF Init, Unsaved
    <3>3. Recharges \subseteq Orders /\ Products \subseteq Orders /\ pc[t] = "idle"
      BY DEF Orders, Products, Init
    <3>4. QED
      BY <3>1, <3>2, <3>3 DEF BookedOK
  <2>6. QED
    BY <2>1, <2>2, <2>3, <2>4, <2>5 DEF Local
<1>3. Alone
  BY DEF Init, Alone
<1>4. BalanceOK /\ BookedIsSettled
  BY DEF Init, BalanceOK, BookedIsSettled, Parts
<1>5. SettledIsBooked
  BY DEF Init, SettledIsBooked
<1>6. QED
  BY <1>1, <1>2, <1>3, <1>4, <1>5 DEF IInv
-----------------------------------------------------------------------------
\* The transactions that a step does not touch stay as they were.
LEMMA Others ==
  ASSUME NEW t, IInv, Mono, \A u \in Slots \ {t} : Same(u) /\ Kept(u)
  PROVE  \A u \in Slots \ {t} : Local(u)'
<1> SUFFICES ASSUME NEW u \in Slots \ {t} PROVE Local(u)'
  OBVIOUS
<1>1. u \in Slots /\ TypeOK /\ Local(u) /\ Same(u) /\ Kept(u) /\ Mono
  BY DEF IInv
<1>2. QED
  BY <1>1, LocalFrame

\* Steps that commit nothing keep what is said of the database.
LEMMA DbKept ==
  ASSUME IInv, UNCHANGED <<db, undated>>
  PROVE  /\ Mono /\ \A u \in Slots : Kept(u)
         /\ BalanceOK' /\ BookedIsSettled' /\ SettledIsBooked'
<1>1. status' = status /\ balance' = balance /\ rows' = rows
  BY DEF db
<1>2. Mono /\ \A u \in Slots : Kept(u)
  BY <1>1 DEF Mono, Kept
<1>3. BalanceOK' /\ BookedIsSettled' /\ SettledIsBooked'
  BY <1>1 DEF IInv, BalanceOK, BookedIsSettled, SettledIsBooked, Stamp
<1>4. QED
  BY <1>2, <1>3

\* The products and the recharges are orders.
LEMMA Kinds ==
  /\ Recharges \subseteq Orders /\ Products \subseteq Orders
  /\ Recharges \cap Products = {} /\ Orders = Recharges \cup Products
  /\ 0 \notin Orders
  BY OrdersAssumption DEF Orders, Products

\* The jobs' time lies between no time and the time of a dated order.
LEMMA UnixIsLater == ~(0 > Year) /\ Unix > Year /\ ~(Unix <= Year)
<1>1. Year \in Nat /\ Unix \in Nat /\ Year < Unix
  BY OrdersAssumption
<1>2. QED
  BY <1>1

\* A step of nobody's transaction: recharges are created or timed out.
LEMMA RechargesStep ==
  ASSUME IInv, UNCHANGED <<balance, rows, control, reads, writes>>, TypeOK', undated \subseteq undated',
         \A o \in Orders : status'[o] # status[o] =>
           /\ o \in Recharges /\ ~Settled(o, status[o])
           /\ status'[o] = "" \/ (status'[o] = "1" /\ Stamp(o) <= Year)
  PROVE  IInv'
<1>1. Mono
  BY DEF Mono, Settled
<1>2. \A u \in Slots : Same(u)
  BY DEF Same, control, reads, writes
<1>3. ASSUME NEW u \in Slots PROVE Kept(u)
  <2>1. purpose[u] = "purchase" => order[u] \in Products
    BY DEF IInv, Local, Known
  <2>2. QED
    BY <2>1, Kinds DEF Kept
<1>4. \A u \in Slots : Local(u)'
  BY <1>1, <1>2, <1>3, LocalFrame DEF IInv
<1>5. Alone'
  BY DEF IInv, Alone, control
<1>6. BalanceOK' /\ BookedIsSettled'
  BY <1>1 DEF IInv, BalanceOK, BookedIsSettled, Mono
<1>7. SettledIsBooked'
  <2>1. ASSUME NEW o \in Orders, Stamp(o)' > Year PROVE Stamp(o) > Year /\ ~(Stamp(o) <= Year)
    <3>1. Year \in Nat /\ Unix \in Nat /\ Year < Unix
      BY OrdersAssumption
    <3>2. ~(0 > Year) /\ Unix > Year /\ ~(Unix <= Year)
      BY UnixIsLater
    <3>3. Stamp(o)' = IF o \in undated' THEN 0 ELSE Unix
      BY DEF Stamp
    <3>4. o \notin undated
      BY <2>1, <3>2, <3>3
    <3>5. QED
      BY <3>2, <3>4 DEF Stamp
  <2>2. ASSUME NEW o \in Recharges, status'[o] = "1", Stamp(o)' > Year PROVE rows'[o]["amount"] > 0
    <3>1. Stamp(o) > Year /\ ~(Stamp(o) <= Year) /\ o \in Orders
      BY <2>1, <2>2, Kinds
    <3>2. status'[o] = status[o]
      BY <2>2, <3>1
    <3>3. QED
      BY <2>2, <3>1, <3>2 DEF IInv, SettledIsBooked
  <2>3. ASSUME NEW o \in Products, status'[o] = "2"
        PROVE  rows'[o]["income"] > 0 /\ rows'[o]["principal"] > 0
    BY <2>3, Kinds DEF IInv, SettledIsBooked
  <2>4. QED
    BY <2>2, <2>3 DEF SettledIsBooked
<1>8. QED
  BY <1>4, <1>5, <1>6, <1>7 DEF IInv

LEMMA SubmitRechargeStep ==
  ASSUME IInv, NEW o \in Orders, SubmitRecharge(o)
  PROVE  IInv'
<1>1. TypeOK'
  BY DEF IInv, TypeOK, SubmitRecharge, control, reads, writes, Created, Statuses
<1>2. \A q \in Orders : status'[q] # status[q] =>
        q \in Recharges /\ ~Settled(q, status[q]) /\ status'[q] = ""
  BY Kinds DEF IInv, TypeOK, SubmitRecharge, Settled, Created, Products
<1>3. QED
  BY <1>1, <1>2, RechargesStep DEF SubmitRecharge

LEMMA TimeoutStep ==
  ASSUME IInv, RechargeOrderTimeout
  PROVE  IInv'
<1>1. TypeOK'
  BY DEF IInv, TypeOK, RechargeOrderTimeout, TimedOut, control, reads, writes, Statuses
<1>2. \A q \in Orders : status'[q] # status[q] =>
        q \in Recharges /\ ~Settled(q, status[q]) /\ status'[q] = "1" /\ Stamp(q) <= Year
  BY DEF RechargeOrderTimeout, TimedOut, Settled, Unpaid
<1>3. QED
  BY <1>1, <1>2, RechargesStep DEF RechargeOrderTimeout

LEMMA UndateStep ==
  ASSUME IInv, NEW o \in Orders, Undate(o)
  PROVE  IInv'
<1>1. TypeOK'
  BY DEF IInv, TypeOK, Undate, db, control, reads, writes
<1>2. UNCHANGED db
  BY DEF Undate
<1>3. QED
  BY <1>1, <1>2, RechargesStep DEF Undate, db
-----------------------------------------------------------------------------
\* A transaction that has ended says nothing, and has touched no other.
LEMMA EndLemma ==
  ASSUME IInv, NEW t \in Slots, End(t)
  PROVE  Local(t)' /\ Alone' /\ \A u \in Slots \ {t} : Same(u)
<1> USE ZeroLemma
<1>0. TypeOK /\ Local(t)
  BY DEF IInv
<1>1. /\ pc'[t] = "idle" /\ purpose'[t] = "none" /\ order'[t] = 0 /\ left'[t] = {}
      /\ ~hasSnap'[t] /\ saved'[t] = Unsaved /\ booked'[t] = Zero /\ owner' # t
  BY <1>0, OrdersAssumption DEF End, Released, TypeOK
<1>2. \A u \in Slots \ {t} : Same(u)
  BY <1>0, OrdersAssumption DEF End, Released, TypeOK, Same
<1>3. Phase(t)' /\ Known(t)'
  BY <1>1 DEF Phase, Known
<1>4. SavedOK(t)' /\ SnapOK(t)' /\ NewOK(t)'
  BY <1>1 DEF SavedOK, SnapOK, NewOK, Unsaved
<1>5. TodoOK(t)'
  BY <1>1 DEF TodoOK
<1>6. BookedOK(t)'
  <2>1. \A o \in Orders, p \in Credits : booked'[t][o][p] = 0
    BY <1>1 DEF Parts
  <2>2. \A o \in Orders : saved'[t][o] = "none"
    BY <1>1 DEF Unsaved
  <2>3. QED
    BY <1>1, <2>1, <2>2, Kinds DEF BookedOK
<1>7. Alone'
  <2>1. SUFFICES ASSUME NEW v \in Slots, NEW u \in Slots,
                        purpose'[v] = "purchase", order'[u] = order'[v]
                 PROVE  u = v
    BY DEF Alone
  <2>2. v # t /\ Same(v) /\ order[v] \in Orders
    BY <1>1, <1>2, <2>1, Kinds DEF IInv, Local, Known, Same
  <2>3. CASE u = t
    BY <1>1, <2>1, <2>2, <2>3, Kinds DEF Same
  <2>4. CASE u # t
    BY <1>2, <2>1, <2>2, <2>4 DEF Same, IInv, Alone
  <2>5. QED
    BY <2>3, <2>4
<1>8. QED
  BY <1>2, <1>3, <1>4, <1>5, <1>6, <1>7 DEF Local

\* What End leaves has its types.
LEMMA EndTypes ==
  ASSUME IInv, NEW t \in Slots, End(t), status' \in [Orders -> Statuses],
         balance' \in Counts, rows' \in Counts, crashes' \in Nat
  PROVE  TypeOK'
<1>1. TypeOK
  BY DEF IInv
<1>2. Unsaved \in [Orders -> Statuses] /\ Zero \in Counts
  BY ZeroLemma DEF Unsaved, Statuses
<1>3. owner' \in Slots \cup {Nobody}
  BY <1>1 DEF End, Released, TypeOK
<1>4. /\ pc' \in [Slots -> Places] /\ order' \in [Slots -> Orders \cup {0}]
      /\ purpose' \in [Slots -> {"none", "purchase", "paid", "failed", "payout"}]
      /\ left' \in [Slots -> SUBSET Orders] /\ undated' \subseteq Orders
  BY <1>1 DEF End, TypeOK, Places
<1>5. /\ hasSnap' \in [Slots -> BOOLEAN] /\ snap' \in [Slots -> Counts]
      /\ newBalance' \in [Slots -> Counts] /\ booked' \in [Slots -> Counts]
      /\ saved' \in [Slots -> [Orders -> Statuses]]
  BY <1>1, <1>2 DEF End, TypeOK
<1>6. QED
  BY <1>3, <1>4, <1>5 DEF TypeOK

\* A step of t that keeps the database needs to be followed for t alone.
LEMMA OwnStep ==
  ASSUME IInv, NEW t \in Slots, UNCHANGED <<db, undated>>, TypeOK', Local(t)', Alone',
         \A u \in Slots \ {t} : Same(u)
  PROVE  IInv'
<1>1. \A u \in Slots \ {t} : Local(u)'
  BY DbKept, Others
<1>2. QED
  BY <1>1, DbKept DEF IInv

LEMMA CrashStep ==
  ASSUME IInv, NEW t \in Slots, Crash(t)
  PROVE  IInv'
<1>1. UNCHANGED db /\ End(t) /\ crashes' \in Nat /\ UNCHANGED undated
  BY DEF Crash, End, IInv, TypeOK
<1>2. TypeOK'
  BY <1>1, EndTypes DEF db, IInv, TypeOK
<1>3. QED
  BY <1>1, <1>2, EndLemma, OwnStep

\* As long as nobody begins or leaves an order, nobody is at a bought one.
LEMMA AloneKept ==
  ASSUME IInv, UNCHANGED <<purpose, order>>
  PROVE  Alone'
  BY DEF IInv, Alone

LEMMA ReadBalanceStep ==
  ASSUME IInv, NEW t \in Slots, ReadBalance(t)
  PROVE  IInv'
<1>0. TypeOK /\ Local(t) /\ pc[t] = "read"
  BY DEF IInv, ReadBalance
<1>1. CASE End(t) /\ UNCHANGED <<db, crashes>>
  <2>1. TypeOK'
    BY <1>0, <1>1, EndTypes DEF db, TypeOK
  <2>2. QED
    BY <1>1, <2>1, EndLemma, OwnStep DEF End
<1>2. CASE GoOn(t, "price") /\ Snapshot(t) /\ UNCHANGED <<order, left, writes>>
  <2>1. /\ UNCHANGED <<db, undated, crashes, purpose, order, left, owner, newBalance, saved, booked>>
        /\ pc' = [pc EXCEPT ![t] = "price"] /\ hasSnap' = [hasSnap EXCEPT ![t] = TRUE]
        /\ snap' = [snap EXCEPT ![t] = balance]
    BY <1>2 DEF GoOn, Snapshot, writes
  <2>2. TypeOK'
    BY <1>0, <2>1 DEF TypeOK, Places, Parts, db
  <2>3. \A u \in Slots \ {t} : Same(u)
    BY <1>0, <2>1 DEF TypeOK, Same
  <2>4. purpose[t] = "purchase" /\ left[t] = {}
    BY <1>0 DEF Local, Phase, Known, TypeOK
  <2>5. /\ pc'[t] = "price" /\ hasSnap'[t] /\ snap'[t] = balance /\ UNCHANGED <<purpose, order, left>>
        /\ UNCHANGED <<status, owner, newBalance, saved, booked>>
    BY <1>0, <2>1 DEF TypeOK, db
  <2>6. Phase(t)' /\ Known(t)'
    BY <1>0, <2>4, <2>5 DEF Local, Phase, Known
  <2>7. SavedOK(t)' /\ SnapOK(t)' /\ NewOK(t)'
    BY <1>0, <2>4, <2>5 DEF IInv, BalanceOK, Local, SavedOK, SnapOK, NewOK, Paying
  <2>8. TodoOK(t)'
    BY <2>4, <2>5 DEF TodoOK
  <2>9. BookedOK(t)'
    BY <1>0, <2>4, <2>5 DEF Local, BookedOK, Paying
  <2>10. QED
    BY <2>1, <2>2, <2>3, <2>6, <2>7, <2>8, <2>9, AloneKept, OwnStep DEF Local
<1>3. QED
  BY <1>1, <1>2 DEF ReadBalance
-----------------------------------------------------------------------------
LEMMA CreateStep ==
  ASSUME IInv, NEW t \in Slots, Create(t)
  PROVE  IInv'
<1>0. TypeOK /\ Local(t) /\ pc[t] = "create"
  BY DEF IInv, Create
<1>1. /\ UNCHANGED <<db, undated, crashes, purpose, order, left, hasSnap, snap, owner, newBalance, booked>>
      /\ pc' = [pc EXCEPT ![t] = "read"]
      /\ saved' = [saved EXCEPT ![t][order[t]] = Created(order[t])]
  BY DEF Create, GoOn, reads
<1>2. /\ purpose[t] = "purchase" /\ left[t] = {} /\ order[t] \in Orders
      /\ order[t] \in Products /\ order[t] \notin Recharges /\ status[order[t]] = "none"
  BY <1>0, Kinds DEF Local, Phase, Known, TypeOK
<1>3. Created(order[t]) \in {"", "1"} /\ ~Settled(order[t], Created(order[t]))
  BY <1>2 DEF Created, Settled
<1>4. TypeOK'
  BY <1>0, <1>1, <1>3 DEF TypeOK, Places, Statuses, db
<1>5. \A u \in Slots \ {t} : Same(u)
  BY <1>0, <1>1 DEF TypeOK, Same
<1>6. /\ pc'[t] = "read" /\ saved'[t][order[t]] = Created(order[t])
      /\ \A o \in Orders : o # order[t] => saved'[t][o] = saved[t][o]
      /\ UNCHANGED <<status, purpose, order, left, hasSnap, snap, owner, newBalance, booked>>
  BY <1>0, <1>1, <1>2 DEF TypeOK, db
<1>7. ~Settled(order[t], saved[t][order[t]])
  BY <1>0, <1>2, <1>3 DEF Local, SavedOK, Settled
<1>8. Phase(t)' /\ Known(t)'
  BY <1>0, <1>2, <1>6 DEF Local, Phase, Known
<1>9. SavedOK(t)' /\ SnapOK(t)'
  BY <1>0, <1>2, <1>6 DEF Local, SavedOK, SnapOK
<1>10. NewOK(t)'
  BY <1>0, <1>2, <1>6, <1>7 DEF Local, NewOK, Paying
<1>11. TodoOK(t)'
  BY <1>2, <1>6 DEF TodoOK
<1>12. BookedOK(t)'
  BY <1>0, <1>2, <1>3, <1>6, <1>7, Kinds DEF Local, BookedOK, Paying
<1>13. QED
  BY <1>1, <1>4, <1>5, <1>8, <1>9, <1>10, <1>11, <1>12, AloneKept, OwnStep DEF Local

\* What a handler finds when it begins: nothing of its own yet.
LEMMA BeginLemma ==
  ASSUME IInv, NEW t \in Slots, NEW what, NEW first, NEW o, NEW os,
         Begin(t, what, first, o, os), UNCHANGED reads \/ Snapshot(t),
         what \in {"purchase", "paid", "failed", "payout"}, first \in Places,
         o \in Orders \cup {0}, os \subseteq Orders
  PROVE  /\ TypeOK' /\ \A u \in Slots \ {t} : Same(u)
         /\ UNCHANGED <<db, undated, owner, newBalance, saved, booked>> /\ owner # t
         /\ pc'[t] = first /\ purpose'[t] = what /\ order'[t] = o /\ left'[t] = os
         /\ purpose[t] = "none" /\ saved[t] = Unsaved /\ booked[t] = Zero
         /\ SnapOK(t)' /\ NewOK(t)' /\ SavedOK(t)'
         /\ Snapshot(t) => hasSnap'[t] /\ View(t)' = balance
<1>0. TypeOK /\ Local(t)
  BY DEF IInv
<1>1. /\ pc' = [pc EXCEPT ![t] = first] /\ purpose' = [purpose EXCEPT ![t] = what]
      /\ order' = [order EXCEPT ![t] = o] /\ left' = [left EXCEPT ![t] = os]
      /\ UNCHANGED <<status, balance, rows, undated, crashes, owner, newBalance, saved, booked>>
      /\ pc[t] = "idle"
  BY DEF Begin, db, writes
<1>2. /\ hasSnap' \in [Slots -> BOOLEAN] /\ snap' \in [Slots -> Counts]
      /\ \A u \in Slots \ {t} : hasSnap'[u] = hasSnap[u] /\ snap'[u] = snap[u]
      /\ Snapshot(t) => hasSnap'[t] /\ snap'[t] = balance
      /\ ~Snapshot(t) => hasSnap'[t] = hasSnap[t] /\ snap'[t] = snap[t]
  <2>1. CASE Snapshot(t)
    <3>1. /\ hasSnap' = [hasSnap EXCEPT ![t] = TRUE]
          /\ snap' = [snap EXCEPT ![t] = balance]
      BY <2>1 DEF Snapshot
    <3>2. QED
      BY <1>0, <2>1, <3>1 DEF TypeOK
  <2>2. CASE ~Snapshot(t)
    <3>1. hasSnap' = hasSnap /\ snap' = snap
      BY <2>2 DEF reads
    <3>2. QED
      BY <1>0, <2>2, <3>1 DEF TypeOK
  <2>3. QED
    BY <2>1, <2>2
<1>3. TypeOK'
  BY <1>0, <1>1, <1>2 DEF TypeOK
<1>4. \A u \in Slots \ {t} : Same(u)
  BY <1>0, <1>1, <1>2 DEF TypeOK, Same
<1>5. /\ pc'[t] = first /\ purpose'[t] = what /\ order'[t] = o /\ left'[t] = os
  BY <1>0, <1>1 DEF TypeOK
<1>6. /\ purpose[t] = "none" /\ owner # t /\ saved[t] = Unsaved /\ booked[t] = Zero
  BY <1>0, <1>1 DEF Local, Phase, Known
<1>7. SnapOK(t)'
  BY <1>0, <1>1, <1>2 DEF IInv, BalanceOK, Local, SnapOK
<1>8. NewOK(t)' /\ SavedOK(t)'
  BY <1>1, <1>6 DEF NewOK, SavedOK, Unsaved
<1>9. Snapshot(t) => View(t)' = balance
  BY <1>1, <1>2, <1>6 DEF View
<1>10. QED
  BY <1>1, <1>2, <1>3, <1>4, <1>5, <1>6, <1>7, <1>8, <1>9 DEF db

\* Nothing is booked or saved yet, and the first statement is not a late one.
LEMMA BookedAtBegin ==
  ASSUME NEW t, saved'[t] = Unsaved, booked'[t] = Zero, pc'[t] \notin {"principal"},
         purpose'[t] = "payout" => pc'[t] # "order"
  PROVE  BookedOK(t)'
<1>1. \A o \in Orders, p \in Credits : booked'[t][o][p] = 0
  BY ZeroLemma DEF Parts
<1>2. \A o \in Orders : saved'[t][o] = "none"
  BY DEF Unsaved
<1>3. QED
  BY <1>1, <1>2, Kinds DEF BookedOK

LEMMA BuyStep ==
  ASSUME IInv, NEW t \in Slots, NEW o \in Orders, Buy(t, o)
  PROVE  IInv'
<1>1. /\ Begin(t, "purchase", "create", o, {}) /\ UNCHANGED reads
      /\ o \in Products /\ status[o] = "none" /\ \A u \in Slots : order[u] # o
  BY DEF Buy
<1>2. /\ TypeOK' /\ \A u \in Slots \ {t} : Same(u)
      /\ UNCHANGED <<db, undated, owner, newBalance, saved, booked>> /\ owner # t
      /\ pc'[t] = "create" /\ purpose'[t] = "purchase" /\ order'[t] = o /\ left'[t] = {}
      /\ saved[t] = Unsaved /\ booked[t] = Zero
      /\ SnapOK(t)' /\ NewOK(t)' /\ SavedOK(t)'
  BY <1>1, BeginLemma DEF Places
<1>3. UNCHANGED <<status, owner, saved, booked>>
  BY <1>2 DEF db
<1>4. Phase(t)' /\ Known(t)'
  BY <1>1, <1>2, <1>3 DEF Phase, Known
<1>5. TodoOK(t)'
  BY <1>2 DEF TodoOK
<1>6. BookedOK(t)'
  BY <1>2, <1>3, BookedAtBegin
<1>7. Alone'
  BY <1>1, <1>2 DEF IInv, Alone, Same
<1>8. QED
  BY <1>2, <1>4, <1>5, <1>6, <1>7, OwnStep DEF Local

\* The balance shows no payment of an order that is not settled.
LEMMA UnsettledBare ==
  ASSUME IInv, NEW o \in Orders, ~Settled(o, status[o])
  PROVE  \A p \in Credits : balance[o][p] = 0
<1> SUFFICES ASSUME NEW p \in Credits PROVE balance[o][p] = 0
  OBVIOUS
<1>1. balance[o][p] \in Nat
  BY DEF IInv, TypeOK, Counts, Parts
<1>2. ~(balance[o][p] > 0)
  BY DEF IInv, BalanceOK
<1>3. QED
  BY <1>1, <1>2

LEMMA NotifyStep ==
  ASSUME IInv, NEW t \in Slots, NEW o \in Orders, Notify(t, o)
  PROVE  IInv'
<1>1. PICK outcome \in {"paid", "failed"} : Begin(t, outcome, "order", o, {})
  BY DEF Notify
<1>2. o \in Recharges /\ status[o] = Unpaid(o) /\ Snapshot(t)
  BY DEF Notify
<1>3. /\ TypeOK' /\ \A u \in Slots \ {t} : Same(u)
      /\ UNCHANGED <<db, undated, owner, newBalance, saved, booked>> /\ owner # t
      /\ pc'[t] = "order" /\ purpose'[t] = outcome /\ order'[t] = o /\ left'[t] = {}
      /\ saved[t] = Unsaved /\ booked[t] = Zero
      /\ SnapOK(t)' /\ NewOK(t)' /\ SavedOK(t)'
      /\ hasSnap'[t] /\ View(t)' = balance
  BY <1>1, <1>2, BeginLemma DEF Places
<1>4. UNCHANGED <<status, balance, owner, saved, booked>>
  BY <1>3 DEF db
<1>5. Phase(t)' /\ Known(t)'
  BY <1>2, <1>3, <1>4 DEF Phase, Known, Unpaid
<1>6. \A p \in Credits : balance[o][p] = 0
  <2>1. o \in Orders /\ ~Settled(o, status[o])
    BY <1>2, Kinds DEF Settled, Unpaid
  <2>2. QED
    BY <2>1, UnsettledBare
<1>7. TodoOK(t)'
  BY <1>3, <1>6 DEF TodoOK
<1>8. BookedOK(t)'
  BY <1>1, <1>3, <1>4, BookedAtBegin
<1>9. Alone'
  <2>1. SUFFICES ASSUME NEW v \in Slots, NEW u \in Slots,
                        purpose'[v] = "purchase", order'[u] = order'[v]
                 PROVE  u = v
    BY DEF Alone
  <2>2. v # t /\ Same(v) /\ order[v] \in Products
    BY <1>1, <1>3, <2>1 DEF IInv, Local, Known, Same
  <2>3. u # t
    BY <1>2, <1>3, <2>1, <2>2, Kinds DEF Same
  <2>4. QED
    BY <1>3, <2>1, <2>2, <2>3 DEF Same, IInv, Alone
<1>10. QED
  BY <1>3, <1>5, <1>7, <1>8, <1>9, OwnStep DEF Local

LEMMA PayoutStep ==
  ASSUME IInv, NEW t \in Slots, NEW kind \in SUBSET Products, Payout(t, kind)
  PROVE  IInv'
<1>1. Begin(t, "payout", "pick", 0, Selected(kind)) /\ Snapshot(t)
  BY DEF Payout
<1>2. /\ Selected(kind) \subseteq Products /\ Selected(kind) \subseteq Orders
      /\ \A o \in Selected(kind) : status[o] = "1"
  BY Kinds DEF Selected, Unpaid
<1>3. /\ TypeOK' /\ \A u \in Slots \ {t} : Same(u)
      /\ UNCHANGED <<db, undated, owner, newBalance, saved, booked>> /\ owner # t
      /\ pc'[t] = "pick" /\ purpose'[t] = "payout" /\ order'[t] = 0 /\ left'[t] = Selected(kind)
      /\ saved[t] = Unsaved /\ booked[t] = Zero
      /\ SnapOK(t)' /\ NewOK(t)' /\ SavedOK(t)'
      /\ hasSnap'[t] /\ View(t)' = balance
  BY <1>1, <1>2, BeginLemma DEF Places
<1>4. UNCHANGED <<status, balance, owner, saved, booked>>
  BY <1>3 DEF db
<1>5. Phase(t)' /\ Known(t)'
  BY <1>2, <1>3, <1>4, Kinds DEF Phase, Known
<1>6. \A o \in Selected(kind), p \in Credits : balance[o][p] = 0
  <2>1. \A o \in Selected(kind) : o \in Orders /\ ~Settled(o, status[o])
    BY <1>2, Kinds DEF Settled
  <2>2. QED
    BY <2>1, UnsettledBare
<1>7. TodoOK(t)'
  BY <1>3, <1>6 DEF TodoOK
<1>8. BookedOK(t)'
  BY <1>3, <1>4, BookedAtBegin
<1>9. Alone'
  BY <1>3, Kinds DEF IInv, Alone, Same, Local, Known
<1>10. QED
  BY <1>3, <1>5, <1>7, <1>8, <1>9, OwnStep DEF Local
-----------------------------------------------------------------------------
LEMMA PickOrderStep ==
  ASSUME IInv, NEW t \in Slots, PickOrder(t)
  PROVE  IInv'
<1>0. TypeOK /\ Local(t) /\ pc[t] = "pick"
  BY DEF IInv, PickOrder
<1>1. purpose[t] = "payout" /\ hasSnap[t]
  BY <1>0 DEF Local, Phase, TypeOK
<1>2. UNCHANGED <<status, balance, rows, undated, crashes, purpose, hasSnap, snap, owner, newBalance, saved, booked>>
  BY DEF PickOrder, GoOn, reads, writes, db
<1>3. UNCHANGED <<db, undated>> /\ View(t)' = View(t)
  BY <1>2 DEF db, View
<1>4. CASE left[t] = {} /\ GoOn(t, "commit") /\ UNCHANGED <<order, left>>
  <2>1. pc' = [pc EXCEPT ![t] = "commit"]
    BY <1>4 DEF GoOn
  <2>2. TypeOK'
    BY <1>0, <1>2, <1>4, <2>1 DEF TypeOK, Places
  <2>3. \A u \in Slots \ {t} : Same(u)
    BY <1>0, <1>2, <1>4, <2>1 DEF TypeOK, Same
  <2>4. pc'[t] = "commit" /\ order'[t] = order[t] /\ left'[t] = {}
    BY <1>0, <1>4, <2>1 DEF TypeOK
  <2>5. Phase(t)' /\ Known(t)'
    BY <1>0, <1>1, <1>2, <1>4, <2>4 DEF Local, Phase, Known
  <2>6. SavedOK(t)' /\ SnapOK(t)' /\ NewOK(t)'
    BY <1>0, <1>2, <2>4 DEF Local, SavedOK, SnapOK, NewOK, Paying
  <2>7. TodoOK(t)' /\ BookedOK(t)'
    BY <1>0, <1>2, <2>4 DEF Local, TodoOK, BookedOK, Paying
  <2>8. QED
    BY <1>2, <1>3, <1>4, <2>2, <2>3, <2>5, <2>6, <2>7, AloneKept, OwnStep DEF Local
<1>5. ASSUME NEW o \in left[t], GoOn(t, "income"), order' = [order EXCEPT ![t] = o],
             left' = [left EXCEPT ![t] = @ \ {o}]
      PROVE  IInv'
  <2>1. pc' = [pc EXCEPT ![t] = "income"] /\ o \in Orders /\ left[t] \subseteq Orders
    BY <1>0, <1>5 DEF GoOn, TypeOK
  <2>2. TypeOK'
    BY <1>0, <1>2, <1>5, <2>1 DEF TypeOK, Places, Parts, Credits
  <2>3. \A u \in Slots \ {t} : Same(u)
    BY <1>0, <1>2, <1>5, <2>1 DEF TypeOK, Same
  <2>4. pc'[t] = "income" /\ order'[t] = o /\ left'[t] = left[t] \ {o}
    BY <1>0, <1>5, <2>1 DEF TypeOK
  <2>5. o \in Products /\ status[o] # "none" /\ o # 0
    BY <1>0, <1>1, <2>1, Kinds DEF Local, Known
  <2>6. Phase(t)' /\ Known(t)'
    BY <1>0, <1>1, <1>2, <2>4, <2>5 DEF Local, Phase, Known
  <2>7. SavedOK(t)' /\ SnapOK(t)' /\ NewOK(t)'
    BY <1>0, <1>1, <1>2, <2>4 DEF Local, SavedOK, SnapOK, NewOK, Paying
  <2>8. TodoOK(t)'
    BY <1>0, <1>1, <1>3, <2>4 DEF Local, TodoOK
  <2>9. BookedOK(t)'
    BY <1>0, <1>2, <2>4 DEF Local, BookedOK, Paying
  <2>10. Alone'
    <3>1. SUFFICES ASSUME NEW v \in Slots, NEW u \in Slots,
                          purpose'[v] = "purchase", order'[u] = order'[v]
                   PROVE  u = v
      BY DEF Alone
    <3>2. v # t /\ Same(v) /\ status[order[v]] = "none"
      BY <1>1, <1>2, <2>3, <3>1 DEF IInv, Local, Known
    <3>3. u # t
      BY <2>4, <2>5, <3>1, <3>2 DEF Same
    <3>4. QED
      BY <1>2, <2>3, <3>1, <3>2, <3>3 DEF Same, IInv, Alone
  <2>11. QED
    BY <1>3, <2>2, <2>3, <2>6, <2>7, <2>8, <2>9, <2>10, OwnStep DEF Local
<1>6. QED
  BY <1>4, <1>5 DEF PickOrder

\* What a transaction computes from shows payments of settled orders, of those
\* it has settled, and of the one it is at.
LEMMA ViewOK ==
  ASSUME IInv, NEW t \in Slots, NEW o \in Orders, NEW p \in Credits
  PROVE  /\ View(t)[o][p] <= 1
         /\ View(t)[o][p] > 0 =>
              Settled(o, status[o]) \/ Settled(o, saved[t][o]) \/ Paying(t, o)
<1>1. Local(t)
  BY DEF IInv
<1>2. CASE owner = t
  BY <1>1, <1>2 DEF View, Local, NewOK
<1>3. CASE owner # t /\ hasSnap[t]
  BY <1>1, <1>3 DEF View, Local, SnapOK
<1>4. CASE owner # t /\ ~hasSnap[t]
  BY <1>4 DEF View, IInv, BalanceOK
<1>5. QED
  BY <1>2, <1>3, <1>4

LEMMA SaveOrderStep ==
  ASSUME IInv, NEW t \in Slots, SaveOrder(t)
  PROVE  IInv'
<1>0. TypeOK /\ Local(t) /\ pc[t] = "order"
  BY DEF IInv, SaveOrder
<1>1. /\ UNCHANGED <<db, undated, crashes, purpose, order, left, hasSnap, snap, owner, newBalance, booked>>
      /\ pc' = [pc EXCEPT ![t] = AfterOrder(t)]
      /\ saved' = [saved EXCEPT ![t][order[t]] = Target(t)]
  BY DEF SaveOrder, GoOn, reads
<1>2. purpose[t] \in {"paid", "failed", "payout"}
  BY <1>0 DEF Local, Phase, TypeOK
<1>3. /\ purpose[t] = "payout" => order[t] \in Products
      /\ purpose[t] # "payout" => order[t] \in Recharges
      /\ status[order[t]] # "none" /\ order[t] \in Orders
  BY <1>0, <1>2, Kinds DEF Local, Known
<1>4. /\ Target(t) \in {"1", "2"} /\ Settled(order[t], Target(t))
      /\ Target(t) = "1" => purpose[t] = "paid"
  BY <1>2, <1>3, Kinds DEF Target, Settled
<1>5. /\ AfterOrder(t) \in {"amount", "commit", "pick"}
      /\ purpose[t] = "paid" => AfterOrder(t) = "amount"
      /\ purpose[t] = "failed" => AfterOrder(t) = "commit"
      /\ purpose[t] = "payout" => AfterOrder(t) = "pick"
  BY <1>2 DEF AfterOrder
<1>6. TypeOK'
  <2>1. saved' \in [Slots -> [Orders -> Statuses]]
    BY <1>0, <1>1, <1>3, <1>4 DEF TypeOK, Statuses
  <2>2. pc' \in [Slots -> Places]
    BY <1>0, <1>1, <1>5 DEF TypeOK, Places, Parts, Credits
  <2>3. QED
    BY <1>0, <1>1, <2>1, <2>2 DEF TypeOK, db
<1>7. \A u \in Slots \ {t} : Same(u)
  BY <1>0, <1>1 DEF TypeOK, Same
<1>8. /\ pc'[t] = AfterOrder(t) /\ saved'[t][order[t]] = Target(t)
      /\ \A o \in Orders : o # order[t] => saved'[t][o] = saved[t][o]
      /\ UNCHANGED <<status, purpose, order, left, hasSnap, snap, owner, newBalance, booked>>
      /\ View(t)' = View(t)
  BY <1>0, <1>1, <1>3 DEF TypeOK, db, View
<1>9. Phase(t)'
  BY <1>0, <1>2, <1>5, <1>8 DEF Local, Phase
<1>10. Known(t)'
  BY <1>0, <1>2, <1>5, <1>8 DEF Local, Known
<1>11. SavedOK(t)' /\ SnapOK(t)'
  BY <1>0, <1>3, <1>4, <1>8 DEF Local, SavedOK, SnapOK
<1>12. NewOK(t)'
  BY <1>0, <1>4, <1>8 DEF Local, NewOK, Paying
<1>13. TodoOK(t)'
  BY <1>0, <1>2, <1>4, <1>5, <1>8 DEF Local, TodoOK
<1>14. BookedOK(t)'
  <2>1. \A o \in Orders, p \in Credits :
          booked'[t][o][p] > 0 => Settled(o, saved'[t][o]) \/ Paying(t, o)'
    BY <1>0, <1>4, <1>8 DEF Local, BookedOK, Paying
  <2>2. \A o \in Recharges : saved'[t][o] = "1" =>
          booked'[t][o]["amount"] > 0 \/ (pc'[t] = "amount" /\ order'[t] = o)
    BY <1>0, <1>4, <1>5, <1>8, Kinds DEF Local, BookedOK
  <2>3. \A o \in Products : saved'[t][o] = "2" =>
          booked'[t][o]["income"] > 0 /\ booked'[t][o]["principal"] > 0
    <3> SUFFICES ASSUME NEW o \in Products, saved'[t][o] = "2"
                 PROVE  booked[t][o]["income"] > 0 /\ booked[t][o]["principal"] > 0
      BY <1>8
    <3>1. CASE o = order[t]
      BY <1>0, <1>2, <1>3, <3>1, Kinds DEF Local, BookedOK
    <3>2. CASE o # order[t]
      BY <1>0, <1>8, <3>2, Kinds DEF Local, BookedOK
    <3>3. QED
      BY <3>1, <3>2
  <2>4. purpose'[t] = "payout" => pc'[t] = "pick"
    BY <1>5, <1>8
  <2>5. QED
    BY <2>1, <2>2, <2>3, <2>4 DEF BookedOK
<1>15. QED
  BY <1>1, <1>6, <1>7, <1>9, <1>10, <1>11, <1>12, <1>13, <1>14, AloneKept, OwnStep DEF Local

\* A payment of the transaction's own order that is still to be booked.
LEMMA BookAt ==
  ASSUME IInv, NEW t \in Slots, pc[t] \in Parts
  PROVE  /\ order[t] \in Orders /\ purpose[t] \in {"purchase", "paid", "payout"}
         /\ purpose[t] = "purchase" <=> pc[t] = "price"
         /\ purpose[t] = "paid" <=> pc[t] = "amount"
         /\ purpose[t] = "payout" <=> pc[t] \in {"income", "principal"}
         /\ pc[t] \in Credits => View(t)[order[t]][pc[t]] = 0
         /\ order[t] \notin left[t]
<1>1. TypeOK /\ Local(t)
  BY DEF IInv
<1>2. /\ purpose[t] \in {"purchase", "paid", "payout"}
      /\ purpose[t] = "purchase" <=> pc[t] = "price"
      /\ purpose[t] = "paid" <=> pc[t] = "amount"
      /\ purpose[t] = "payout" <=> pc[t] \in {"income", "principal"}
  BY <1>1 DEF Local, Phase, TypeOK, Parts, Credits
<1>3. order[t] \in Orders /\ order[t] \notin left[t]
  BY <1>1, <1>2, Kinds DEF Local, Known
<1>4. pc[t] \in Credits => View(t)[order[t]][pc[t]] = 0
  BY <1>1 DEF Local, TodoOK, Credits
<1>5. QED
  BY <1>2, <1>3, <1>4

LEMMA BookStep ==
  ASSUME IInv, NEW t \in Slots, Book(t)
  PROVE  IInv'
<1> DEFINE o == order[t]
           p == pc[t]
<1>0. TypeOK /\ Local(t) /\ p \in Parts /\ Nobody \notin Slots
  BY OrdersAssumption DEF IInv, Book
<1>1. /\ UNCHANGED <<db, undated, crashes, purpose, order, left, hasSnap, snap, saved>>
      /\ owner \in {Nobody, t} /\ owner' = t
      /\ pc' = [pc EXCEPT ![t] = AfterBooking(p)]
      /\ newBalance' = [newBalance EXCEPT ![t] = With(View(t), o, p)]
      /\ booked' = [booked EXCEPT ![t] = With(booked[t], o, p)]
  BY <1>0 DEF Book, GoOn, reads, TypeOK
<1>2. /\ o \in Orders /\ purpose[t] \in {"purchase", "paid", "payout"}
      /\ purpose[t] = "purchase" <=> p = "price"
      /\ purpose[t] = "paid" <=> p = "amount"
      /\ purpose[t] = "payout" <=> p \in {"income", "principal"}
      /\ p \in Credits => View(t)[o][p] = 0
      /\ o \notin left[t]
  BY <1>0, BookAt
<1>3. View(t) \in Counts /\ booked[t] \in Counts
  BY <1>0, ViewType DEF TypeOK
<1>4. /\ AfterBooking(p) \in {"principal", "order", "commit"}
      /\ p = "income" <=> AfterBooking(p) = "principal"
      /\ p = "principal" <=> AfterBooking(p) = "order"
  BY DEF AfterBooking
<1>5. TypeOK'
  <2>1. newBalance' \in [Slots -> Counts] /\ booked' \in [Slots -> Counts]
    BY <1>0, <1>1, <1>2, <1>3, WithLemma DEF TypeOK
  <2>2. pc' \in [Slots -> Places]
    BY <1>0, <1>1, <1>4 DEF TypeOK, Places, Parts, Credits
  <2>3. QED
    BY <1>0, <1>1, <2>1, <2>2 DEF TypeOK, db
<1>6. \A u \in Slots \ {t} : Same(u)
  BY <1>0, <1>1 DEF TypeOK, Same
<1>7. /\ pc'[t] = AfterBooking(p) /\ owner' = t
      /\ UNCHANGED <<status, purpose, order, left, hasSnap, snap, saved>>
      /\ newBalance'[t] = With(View(t), o, p) /\ View(t)' = With(View(t), o, p)
      /\ booked'[t] = With(booked[t], o, p)
  BY <1>0, <1>1 DEF TypeOK, db, View
<1>8. /\ newBalance'[t][o][p] = View(t)[o][p] + 1 /\ booked'[t][o][p] = booked[t][o][p] + 1
      /\ \A x \in Orders, y \in Parts : x # o \/ y # p =>
           newBalance'[t][x][y] = View(t)[x][y] /\ booked'[t][x][y] = booked[t][x][y]
      /\ \A x \in Orders, y \in Parts : booked[t][x][y] \in Nat /\ View(t)[x][y] \in Nat
  <2>1. /\ With(View(t), o, p)[o][p] = View(t)[o][p] + 1
        /\ \A x \in Orders, y \in Parts :
             x # o \/ y # p => With(View(t), o, p)[x][y] = View(t)[x][y]
    BY <1>0, <1>2, <1>3, WithLemma
  <2>2. /\ With(booked[t], o, p)[o][p] = booked[t][o][p] + 1
        /\ \A x \in Orders, y \in Parts :
             x # o \/ y # p => With(booked[t], o, p)[x][y] = booked[t][x][y]
    BY <1>0, <1>2, <1>3, WithLemma
  <2>3. \A x \in Orders, y \in Parts : booked[t][x][y] \in Nat /\ View(t)[x][y] \in Nat
    BY <1>3 DEF Counts
  <2>4. QED
    BY <1>7, <2>1, <2>2, <2>3
<1>9. Phase(t)'
  BY <1>0, <1>2, <1>4, <1>7 DEF Local, Phase
<1>10. Known(t)'
  BY <1>0, <1>2, <1>4, <1>7 DEF Local, Known
<1>11. SavedOK(t)' /\ SnapOK(t)'
  BY <1>0, <1>7 DEF Local, SavedOK, SnapOK
\* The order that is booked for is settled, or a job is about to save it.
<1>12. p \in Credits => Settled(o, saved'[t][o]) \/ Paying(t, o)'
  BY <1>0, <1>2, <1>4, <1>7 DEF Local, TodoOK, Paying, Credits
<1>13. \A x \in Orders : Paying(t, x) => Paying(t, x)'
  BY <1>0, <1>4, <1>7 DEF Paying, Parts, Credits
<1>14. NewOK(t)'
  <2> SUFFICES ASSUME NEW x \in Orders, NEW y \in Credits
               PROVE  /\ newBalance'[t][x][y] <= 1
                      /\ newBalance'[t][x][y] > 0 =>
                           Settled(x, status'[x]) \/ Settled(x, saved'[t][x]) \/ Paying(t, x)'
    BY DEF NewOK
  <2>1. CASE x = o /\ y = p
    BY <1>2, <1>7, <1>8, <1>12, <2>1 DEF Paying
  <2>2. CASE x # o \/ y # p
    <3>1. newBalance'[t][x][y] = View(t)[x][y]
      BY <1>8, <2>2 DEF Parts
    <3>2. QED
      BY <1>7, <1>13, <3>1, ViewOK
  <2>3. QED
    BY <2>1, <2>2
<1>15. TodoOK(t)'
  <2>1. ASSUME NEW x \in left[t], NEW y \in Credits PROVE View(t)'[x][y] = 0
    <3>1. x \in Orders /\ x # o /\ View(t)[x][y] = 0
      BY <1>0, <1>2 DEF TypeOK, Local, TodoOK
    <3>2. QED
      BY <1>7, <1>8, <3>1 DEF Parts
  <2>2. p = "income" => View(t)'[o]["principal"] = 0
    BY <1>0, <1>2, <1>7, <1>8 DEF Local, TodoOK, Parts, Credits
  <2>3. purpose[t] # "payout" => pc'[t] = "commit"
    BY <1>2, <1>4, <1>7
  <2>4. QED
    BY <1>4, <1>7, <2>1, <2>2, <2>3 DEF TodoOK
<1>16. BookedOK(t)'
  <2>1. \A x \in Orders, y \in Credits :
          booked'[t][x][y] > 0 => Settled(x, saved'[t][x]) \/ Paying(t, x)'
    <3> SUFFICES ASSUME NEW x \in Orders, NEW y \in Credits, booked'[t][x][y] > 0
                 PROVE  Settled(x, saved'[t][x]) \/ Paying(t, x)'
      OBVIOUS
    <3>1. CASE x = o /\ y = p
      BY <1>7, <1>12, <3>1 DEF Paying
    <3>2. CASE x # o \/ y # p
      <4>1. booked[t][x][y] > 0
        BY <1>8, <3>2 DEF Parts
      <4>2. QED
        BY <1>0, <1>7, <1>13, <4>1 DEF Local, BookedOK
    <3>3. QED
      BY <3>1, <3>2
  <2>2. \A x \in Orders, y \in Parts : booked[t][x][y] > 0 => booked'[t][x][y] > 0
    BY <1>8
  <2>3. booked'[t][o][p] > 0
    BY <1>0, <1>2, <1>8
  <2>4. ASSUME NEW x \in Recharges, saved'[t][x] = "1" PROVE booked'[t][x]["amount"] > 0
    BY <1>0, <1>7, <2>2, <2>3, <2>4, Kinds DEF Local, BookedOK, Parts, Credits
  <2>5. ASSUME NEW x \in Products, saved'[t][x] = "2"
        PROVE  booked'[t][x]["income"] > 0 /\ booked'[t][x]["principal"] > 0
    BY <1>0, <1>7, <2>2, <2>5, Kinds DEF Local, BookedOK, Parts, Credits
  <2>6. purpose[t] = "payout" =>
          /\ booked'[t][o]["income"] > 0
          /\ pc'[t] = "order" => booked'[t][o]["principal"] > 0
    BY <1>0, <1>2, <1>4, <1>7, <2>2, <2>3 DEF Local, BookedOK, Parts, Credits
  <2>7. QED
    BY <1>7, <2>1, <2>4, <2>5, <2>6 DEF BookedOK
<1>17. UNCHANGED <<db, undated, purpose, order>>
  BY <1>1
<1>18. QED
  BY <1>5, <1>6, <1>9, <1>10, <1>11, <1>14, <1>15, <1>16, <1>17, AloneKept, OwnStep DEF Local

LEMMA CommitStep ==
  ASSUME IInv, NEW t \in Slots, Commit(t)
  PROVE  IInv'
<1>0. TypeOK /\ Local(t) /\ pc[t] = "commit" /\ End(t)
  BY DEF IInv, Commit
<1>1. \A o \in Orders :
        /\ saved[t][o] = "none" => status'[o] = status[o]
        /\ saved[t][o] # "none" => status'[o] = saved[t][o]
        /\ \A p \in Parts : rows'[o][p] = rows[o][p] + booked[t][o][p]
  BY DEF Commit
<1>2. /\ owner = t => balance' = newBalance[t]
      /\ owner # t => balance' = balance
  BY DEF Commit
<1>3. TypeOK'
  <2>1. status' \in [Orders -> Statuses]
    BY <1>0 DEF Commit, TypeOK
  <2>2. balance' \in Counts
    BY <1>0, <1>2 DEF TypeOK
  <2>3. rows' \in Counts
    BY <1>0 DEF Commit, TypeOK, Counts
  <2>4. crashes' \in Nat
    BY <1>0 DEF Commit, TypeOK
  <2>5. QED
    BY <1>0, <2>1, <2>2, <2>3, <2>4, EndTypes
<1>4. \A o \in Orders : Settled(o, saved[t][o]) => saved[t][o] # "none"
  BY DEF Settled
<1>5. \A o \in Orders : saved[t][o] # "none" =>
        \/ Settled(o, saved[t][o]) /\ status[o] # "none"
        \/ purpose[t] = "purchase" /\ o = order[t] /\ status[o] = "none"
  BY <1>0 DEF Local, SavedOK, Known
<1>6. Mono
  <2> SUFFICES ASSUME NEW o \in Orders
               PROVE  /\ Settled(o, status[o]) => Settled(o, status'[o])
                      /\ status[o] # "none" => status'[o] # "none"
    BY DEF Mono
  <2>1. CASE saved[t][o] = "none"
    BY <1>1, <2>1
  <2>2. CASE saved[t][o] # "none"
    <3>1. status'[o] = saved[t][o]
      BY <1>1, <2>2
    <3>2. status[o] = "none" => ~Settled(o, status[o])
      BY DEF Settled
    <3>3. QED
      BY <1>5, <2>2, <3>1, <3>2
  <2>3. QED
    BY <2>1, <2>2
<1>7. ASSUME NEW u \in Slots \ {t} PROVE Kept(u)
  <2> SUFFICES ASSUME purpose[u] = "purchase" PROVE status'[order[u]] = status[order[u]]
    BY DEF Kept
  <2>1. order[u] \in Orders /\ status[order[u]] = "none"
    BY Kinds DEF IInv, Local, Known
  <2>2. saved[t][order[u]] = "none"
    BY <1>5, <2>1 DEF IInv, Alone
  <2>3. QED
    BY <1>1, <2>1, <2>2
<1>8. Local(t)' /\ Alone' /\ \A u \in Slots \ {t} : Same(u)
  BY <1>0, EndLemma
<1>9. \A u \in Slots \ {t} : Local(u)'
  BY <1>6, <1>7, <1>8, Others
<1>10. \A o \in Orders : ~Paying(t, o)
  BY <1>0 DEF Paying
<1>11. \A o \in Orders : Settled(o, status[o]) \/ Settled(o, saved[t][o]) => Settled(o, status'[o])
  BY <1>1, <1>4, <1>6 DEF Mono
<1>12. BalanceOK'
  <2>1. CASE owner = t
    BY <1>0, <1>2, <1>10, <1>11, <2>1 DEF Local, NewOK, BalanceOK
  <2>2. CASE owner # t
    BY <1>2, <1>11, <2>2 DEF IInv, BalanceOK
  <2>3. QED
    BY <2>1, <2>2
<1>13. \A o \in Orders, p \in Parts : rows[o][p] \in Nat /\ booked[t][o][p] \in Nat
  BY <1>0 DEF TypeOK, Counts
<1>14. \A o \in Orders, p \in Parts : rows'[o][p] > 0 <=> rows[o][p] > 0 \/ booked[t][o][p] > 0
  BY <1>1, <1>13
<1>15. BookedIsSettled'
  <2> SUFFICES ASSUME NEW o \in Orders, NEW p \in Credits, rows'[o][p] > 0
               PROVE  Settled(o, status'[o])
    BY DEF BookedIsSettled
  <2>1. rows[o][p] > 0 \/ booked[t][o][p] > 0
    BY <1>14 DEF Parts
  <2>2. rows[o][p] > 0 => Settled(o, status[o])
    BY DEF IInv, BookedIsSettled
  <2>3. booked[t][o][p] > 0 => Settled(o, saved[t][o])
    BY <1>0, <1>10 DEF Local, BookedOK
  <2>4. QED
    BY <1>11, <2>1, <2>2, <2>3
<1>16. SettledIsBooked'
  <2>1. ASSUME NEW o \in Recharges, status'[o] = "1", Stamp(o)' > Year PROVE rows'[o]["amount"] > 0
    <3>4. Stamp(o)' = Stamp(o)
      BY <1>0 DEF End, Stamp
    <3>1. status[o] = "1" => rows[o]["amount"] > 0
      BY <2>1, <3>4, Kinds DEF IInv, SettledIsBooked
    <3>2. saved[t][o] = "1" => booked[t][o]["amount"] > 0
      BY <1>0 DEF Local, BookedOK
    <3>3. QED
      BY <1>1, <1>14, <2>1, <3>1, <3>2, Kinds DEF Parts, Credits
  <2>2. ASSUME NEW o \in Products, status'[o] = "2"
        PROVE  rows'[o]["income"] > 0 /\ rows'[o]["principal"] > 0
    <3>1. status[o] = "2" => rows[o]["income"] > 0 /\ rows[o]["principal"] > 0
      BY Kinds DEF IInv, SettledIsBooked
    <3>2. saved[t][o] = "2" => booked[t][o]["income"] > 0 /\ booked[t][o]["principal"] > 0
      BY <1>0 DEF Local, BookedOK
    <3>3. QED
      BY <1>1, <1>14, <2>2, <3>1, <3>2, Kinds DEF Parts, Credits
  <2>3. QED
    BY <2>1, <2>2 DEF SettledIsBooked
<1>17. QED
  BY <1>3, <1>8, <1>9, <1>12, <1>15, <1>16 DEF IInv
-----------------------------------------------------------------------------
LEMMA NextIInv == IInv /\ [Next]_vars => IInv'
<1> SUFFICES ASSUME IInv, [Next]_vars PROVE IInv'
  OBVIOUS
<1>1. CASE UNCHANGED vars
  <2>1. TypeOK' /\ UNCHANGED <<status, balance, rows, undated, control, reads, writes>>
    BY <1>1 DEF vars, db, control, reads, writes, IInv, TypeOK
  <2>2. QED
    BY <2>1, RechargesStep
<1>2. ASSUME NEW o \in Orders, SubmitRecharge(o) \/ Undate(o) PROVE IInv'
  BY <1>2, SubmitRechargeStep, UndateStep
<1>3. ASSUME NEW t \in Slots, NEW o \in Orders, Buy(t, o) \/ Notify(t, o) PROVE IInv'
  BY <1>3, BuyStep, NotifyStep
<1>4. ASSUME NEW products \in {Miners, Management}, Cron(products) PROVE IInv'
  BY <1>4, PayoutStep DEF Cron, Products
<1>5. ASSUME RechargeOrderTimeout PROVE IInv'
  BY <1>5, TimeoutStep
<1>6. ASSUME NEW t \in Slots, Step(t) \/ Crash(t) PROVE IInv'
  BY <1>6, CreateStep, ReadBalanceStep, PickOrderStep, BookStep, SaveOrderStep, CommitStep,
     CrashStep DEF Step
<1>7. QED
  BY <1>1, <1>2, <1>3, <1>4, <1>5, <1>6 DEF Next

LEMMA InvariantIInv == Spec => []IInv
<1>1. QED
  BY InitIInv, NextIInv, PTL DEF Spec

\* Statuses, payments and transactions keep their types, for any set of orders.
THEOREM OrdersTypeOK == Spec => []TypeOK
<1>1. IInv => TypeOK
  BY DEF IInv
<1>2. QED
  BY InvariantIInv, <1>1, PTL

\* No payment reaches the balance twice: Notify2Handler and the payout jobs may
\* run any number of times, interleave and crash.
THEOREM OrdersPaidOnce == Spec => []PaidOnce
<1>1. IInv => PaidOnce
  BY DEF IInv, BalanceOK, PaidOnce
<1>2. QED
  BY InvariantIInv, <1>1, PTL

\* Whatever the ledger shows as paid, nobody will select for payment again.
THEOREM OrdersBookedIsSettled == Spec => []BookedIsSettled
<1>1. IInv => BookedIsSettled
  BY DEF IInv
<1>2. QED
  BY InvariantIInv, <1>1, PTL

\* No order becomes completed without its payments in the ledger.
THEOREM OrdersSettledIsBooked == Spec => []SettledIsBooked
<1>1. IInv => SettledIsBooked
  BY DEF IInv
<1>2. QED
  BY InvariantIInv, <1>1, PTL
=============================================================================
