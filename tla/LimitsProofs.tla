---------------------------- MODULE LimitsProofs ----------------------------
(***************************************************************************)
(* The limits of Limits.tla, for any users, requests and limits: what the  *)
(* counters show, by how much requests that overlap and counts that fail   *)
(* bend a limit, and that a request whose reads hold does not break one.   *)
(*                                                                         *)
(* A request that has passed its check counts against the limit as what it *)
(* has read, until it ends: Taking and Pending are those requests, and the *)
(* units of theirs.  One whose count failed is in neither: its order goes  *)
(* to both sides of the bound.                                             *)
(***************************************************************************)
EXTENDS Limits, FiniteSetTheorems, TLAPS

Past    == {"code", "spend", "pay", "give", "book", "commit"}
PerUser == Single \cup {"LeaseMiner", "WithdrawApply"}

Busy == {t \in Slots : pc[t] # "idle"}
Taking(u, h) ==
  {t \in Slots :
     pc[t] \in Past /\ ~seen[t].failed /\ req[t].user = u /\ req[t].handler = h}
Pending ==
  {x \in Slots \X (1..MaxNum) :
     pc[x[1]] \in Past /\ req[x[1]].handler = "BuyMan" /\ x[2] <= req[x[1]].num}

\* What the check of t has found, of what t has read.
Entitled(t) ==
  /\ req[t].handler = "BuyMan" => seen[t].stock + req[t].num <= IssuesNum
  /\ req[t].handler = "LeaseMiner" => seen[t].count + req[t].num <= BuyLimit
  /\ req[t].handler \in Single => seen[t].count = 0
  /\ req[t].handler = "WithdrawApply" => seen[t].count < DayWithdrawNum

\* Where a request is tells what it is about and what it has found.
Knows(t) ==
  /\ pc[t] = "idle" => seen[t] = Unseen
  /\ req[t].code => req[t].handler = "LeaseMiner"
  /\ pc[t] = "stock" => req[t].handler \in Stocked
  /\ pc[t] \in {"count", "code", "spend", "give"} => req[t].handler # "BuyMan"
  /\ pc[t] \in Past => Entitled(t)
  /\ req[t].handler = "LeaseMiner" => seen[t].stock <= units["LeaseMiner"]
  /\ seen[t].used <= coded

\* The last order or unit that a check lets pass is the limit's own.
Bend(h) ==
  Cardinality(Slots) + CASE h = "LeaseMiner" -> BuyLimit - 1
                         [] h = "WithdrawApply" -> DayWithdrawNum - 1
                         [] OTHER -> 0
Others == (Cardinality(Slots) - 1) * MaxNum

Placed     == placed + Cardinality(Busy) <= MaxPlaced
OrdersBend ==
  \A u \in Users : \A h \in PerUser :
    orders[u][h] + Cardinality(Taking(u, h)) <= Bend(h) + blind[u][h]
UnitsBend  == units["BuyMan"] + Cardinality(Pending) <= IssuesNum + Others

Counted == Placed /\ OrdersBend /\ UnitsBend
Known   == CountersAreOrdered /\ \A t \in Slots : Knows(t)
LInv    == TypeOK /\ Known /\ Counted
-----------------------------------------------------------------------------
LEMMA Numbers ==
  /\ IsFiniteSet(Slots) /\ Cardinality(Slots) \in Nat \ {0}
  /\ MaxNum \in Nat \ {0} /\ Others \in Nat
  /\ {IssuesNum, MinersIssued, BuyLimit, TotalNum, DayWithdrawNum, MaxPlaced} \subseteq Nat
  /\ \A h \in PerUser : Bend(h) \in Nat
<1>1. IsFiniteSet(Slots) /\ Cardinality(Slots) \in Nat \ {0} /\ MaxNum \in Nat \ {0}
  <2>1. Cardinality(Slots) # 0
    BY LimitsAssumption, FS_EmptySet
  <2>2. QED
    BY <2>1, LimitsAssumption, FS_CardinalityType
<1>2. Others \in Nat
  <2>1. \A a, b \in Nat : a * b \in Nat
    OBVIOUS
  <2>2. QED
    BY <1>1, <2>1 DEF Others
<1>3. {IssuesNum, MinersIssued, BuyLimit, TotalNum, DayWithdrawNum, MaxPlaced} \subseteq Nat
  BY LimitsAssumption
<1>4. ASSUME NEW h \in PerUser PROVE Bend(h) \in Nat
  <2>1. BuyLimit \in Nat /\ DayWithdrawNum \in Nat
    BY <1>3
  <2>2. QED
    BY <1>1, <2>1 DEF Bend
<1>5. QED
  BY <1>1, <1>2, <1>3, <1>4

LEMMA Finite ==
  /\ \A S \in SUBSET Slots :
       IsFiniteSet(S) /\ Cardinality(S) \in Nat /\ Cardinality(S) <= Cardinality(Slots)
  /\ \A S \in SUBSET (Slots \X (1..MaxNum)) : IsFiniteSet(S) /\ Cardinality(S) \in Nat
<1>1. IsFiniteSet(Slots \X (1..MaxNum))
  <2>1. IsFiniteSet(1..MaxNum)
    BY Numbers, FS_Interval
  <2>2. QED
    BY <2>1, Numbers, FS_Product
<1>2. ASSUME NEW S \in SUBSET Slots
      PROVE  IsFiniteSet(S) /\ Cardinality(S) \in Nat /\ Cardinality(S) <= Cardinality(Slots)
  BY Numbers, FS_Subset, FS_CardinalityType
<1>3. ASSUME NEW S \in SUBSET (Slots \X (1..MaxNum))
      PROVE  IsFiniteSet(S) /\ Cardinality(S) \in Nat
  BY <1>1, FS_Subset, FS_CardinalityType
<1>4. QED
  BY <1>2, <1>3

LEMMA Interval == ASSUME NEW n \in Nat PROVE IsFiniteSet(1..n) /\ Cardinality(1..n) = n
<1>1. 1 \in Int /\ n \in Int /\ (IF 1 > n THEN 0 ELSE n - 1 + 1) = n
  OBVIOUS
<1>2. IsFiniteSet(1..n) /\ Cardinality(1..n) = IF 1 > n THEN 0 ELSE n - 1 + 1
  BY <1>1, FS_Interval, Zenon
<1>3. QED
  BY <1>1, <1>2

\* The units of one request.
LEMMA UnitsOf ==
  ASSUME NEW t, NEW n \in Nat
  PROVE  IsFiniteSet({t} \X (1..n)) /\ Cardinality({t} \X (1..n)) = n
<1> DEFINE S == {t}
           T == 1..n
<1>1. IsFiniteSet(S) /\ Cardinality(S) = 1 /\ IsFiniteSet(T) /\ Cardinality(T) = n
  BY Interval, FS_Singleton
<1> HIDE DEF S, T
<1>2. IsFiniteSet(S \X T) /\ Cardinality(S \X T) = Cardinality(S) * Cardinality(T)
  BY <1>1, FS_Product
<1>3. IsFiniteSet(S \X T) /\ Cardinality(S \X T) = n
  BY <1>1, <1>2
<1>4. QED
  BY <1>3 DEF S, T

\* The most that the others can ask for.
LEMMA UnitsOfOthers ==
  ASSUME NEW t \in Slots
  PROVE  /\ IsFiniteSet((Slots \ {t}) \X (1..MaxNum))
         /\ Cardinality((Slots \ {t}) \X (1..MaxNum)) = Others
<1> DEFINE S == Slots \ {t}
           T == 1..MaxNum
<1>1. IsFiniteSet(S) /\ Cardinality(S) = Cardinality(Slots) - 1
  BY Numbers, FS_RemoveElement
<1>2. IsFiniteSet(T) /\ Cardinality(T) = MaxNum
  BY Numbers, Interval
<1> HIDE DEF S, T
<1>3. IsFiniteSet(S \X T) /\ Cardinality(S \X T) = Cardinality(S) * Cardinality(T)
  BY <1>1, <1>2, FS_Product
<1>4. IsFiniteSet(S \X T) /\ Cardinality(S \X T) = Others
  BY <1>1, <1>2, <1>3 DEF Others
<1>5. QED
  BY <1>4 DEF S, T

LEMMA Disjoint ==
  ASSUME NEW S, NEW T, IsFiniteSet(S), IsFiniteSet(T), S \cap T = {}
  PROVE  /\ IsFiniteSet(S \cup T)
         /\ Cardinality(S \cup T) = Cardinality(S) + Cardinality(T)
<1>1. Cardinality(S) \in Nat /\ Cardinality(T) \in Nat
  BY FS_CardinalityType
<1>2. /\ IsFiniteSet(S \cup T)
      /\ Cardinality(S \cup T) = Cardinality(S) + Cardinality(T) - Cardinality(S \cap T)
  BY FS_Union, Zenon
<1>3. Cardinality(S \cap T) = 0
  BY FS_EmptySet, Zenon
<1>4. QED
  BY <1>1, <1>2, <1>3

LEMMA Sets ==
  /\ Busy \in SUBSET Slots /\ Busy' \in SUBSET Slots
  /\ Pending \in SUBSET (Slots \X (1..MaxNum)) /\ Pending' \in SUBSET (Slots \X (1..MaxNum))
  /\ \A u, h : Taking(u, h) \in SUBSET Slots /\ Taking(u, h)' \in SUBSET Slots
  BY DEF Busy, Pending, Taking

\* A step after which no request counts against a limit that did not before.
LEMMA NoMore ==
  ASSUME TypeOK, Counted, UNCHANGED <<placed, units, blind>>,
         Busy' \subseteq Busy, Pending' \subseteq Pending,
         \A u \in Users : \A h \in PerUser :
           /\ Taking(u, h)' \subseteq Taking(u, h)
           /\ orders'[u][h] \in Nat /\ orders'[u][h] <= orders[u][h]
  PROVE  Counted'
<1>1. \A S, T : IsFiniteSet(T) /\ S \subseteq T => Cardinality(S) <= Cardinality(T)
  BY FS_Subset
<1>2. Placed'
  <2>1. Cardinality(Busy') <= Cardinality(Busy)
    BY <1>1, Sets, Finite
  <2>2. Cardinality(Busy') \in Nat /\ Cardinality(Busy) \in Nat
    BY Sets, Finite
  <2>3. QED
    BY <2>1, <2>2, Numbers DEF Counted, Placed, TypeOK
<1>3. UnitsBend'
  <2>1. Cardinality(Pending') <= Cardinality(Pending)
    BY <1>1, Sets, Finite
  <2>2. Cardinality(Pending') \in Nat /\ Cardinality(Pending) \in Nat
    BY Sets, Finite
  <2>3. units["BuyMan"] \in Nat
    BY DEF TypeOK, Stocked
  <2>4. QED
    BY <2>1, <2>2, <2>3, Numbers DEF Counted, UnitsBend, Others
<1>4. OrdersBend'
  <2> SUFFICES ASSUME NEW u \in Users, NEW h \in PerUser
               PROVE  orders'[u][h] + Cardinality(Taking(u, h)') <= Bend(h) + blind'[u][h]
    BY DEF OrdersBend, Bend
  <2>1. Cardinality(Taking(u, h)') <= Cardinality(Taking(u, h))
    BY <1>1, Sets, Finite
  <2>2. Cardinality(Taking(u, h)') \in Nat /\ Cardinality(Taking(u, h)) \in Nat
    BY Sets, Finite
  <2>3. /\ orders[u][h] \in Nat /\ blind[u][h] \in Nat
        /\ orders[u][h] + Cardinality(Taking(u, h)) <= Bend(h) + blind[u][h]
    BY DEF TypeOK, Counted, OrdersBend, Handlers, PerUser, Stocked
  <2>4. QED
    BY <2>1, <2>2, <2>3, Numbers
<1>5. QED
  BY <1>2, <1>3, <1>4 DEF Counted
-----------------------------------------------------------------------------
LEMMA Requested == NoRequest \in Requests /\ Unseen \in Sights
<1>1. (CHOOSE u \in Users : TRUE) \in Users
  BY LimitsAssumption
<1>2. QED
  BY <1>1, Numbers DEF NoRequest, Requests, Handlers, Stocked, Unseen, Sights

\* A request that ends without an order.
LEMMA Ended ==
  ASSUME LInv, NEW t \in Slots, Ends(t), UNCHANGED tables,
         owner' \in [Rows -> Slots \cup {Nobody}]
  PROVE  LInv'
<1>1. /\ pc' = [pc EXCEPT ![t] = "idle"] /\ req' = [req EXCEPT ![t] = NoRequest]
      /\ seen' = [seen EXCEPT ![t] = Unseen]
      /\ UNCHANGED <<stock, used, orders, blind, units, coded, placed>>
  BY DEF Ends, GoTo, Reads, tables
<1>2. TypeOK'
  BY <1>1, Requested DEF LInv, TypeOK, Places
<1>3. CountersAreOrdered'
  BY <1>1 DEF LInv, Known, CountersAreOrdered
<1>4. ASSUME NEW v \in Slots PROVE Knows(v)'
  <2>1. CASE v = t
    <3>1. pc'[v] = "idle" /\ req'[v] = NoRequest /\ seen'[v] = Unseen
      BY <1>1, <2>1 DEF LInv, TypeOK
    <3>2. units["LeaseMiner"] \in Nat /\ coded \in Nat /\ coded' = coded
      BY <1>1 DEF LInv, TypeOK, Stocked
    <3>3. QED
      BY <3>1, <3>2 DEF Knows, NoRequest, Unseen, Past
  <2>2. CASE v # t
    <3>1. pc'[v] = pc[v] /\ req'[v] = req[v] /\ seen'[v] = seen[v] /\ Knows(v)
      BY <1>1, <2>2 DEF LInv, TypeOK, Known
    <3>2. QED
      BY <3>1, <1>1 DEF Knows, Entitled
  <2>3. QED
    BY <2>1, <2>2
<1>5. Counted'
  <2>1. /\ Busy' \subseteq Busy /\ Pending' \subseteq Pending
        /\ \A u, h : Taking(u, h)' \subseteq Taking(u, h)
    BY <1>1 DEF LInv, TypeOK, Busy, Pending, Taking, Past
  <2>2. \A u \in Users : \A h \in PerUser : orders'[u][h] \in Nat /\ orders'[u][h] <= orders[u][h]
    BY <1>1 DEF LInv, TypeOK, Handlers, PerUser, Stocked
  <2>3. QED
    BY <1>1, <2>1, <2>2, NoMore DEF LInv
<1>6. QED
  BY <1>2, <1>3, <1>4, <1>5 DEF LInv, Known

\* A request that has passed its check and goes on.
LEMMA Moved ==
  ASSUME LInv, NEW t \in Slots, NEW p \in Past, pc[t] \in Past, GoTo(t, p),
         UNCHANGED <<tables, req, seen>>, owner' \in [Rows -> Slots \cup {Nobody}],
         p \in {"code", "spend", "give"} => req[t].handler # "BuyMan"
  PROVE  LInv'
<1>1. /\ pc' = [pc EXCEPT ![t] = p]
      /\ UNCHANGED <<stock, used, orders, blind, units, coded, placed, req, seen>>
  BY DEF GoTo, tables
<1>2. TypeOK'
  BY <1>1 DEF LInv, TypeOK, Places, Past
<1>3. CountersAreOrdered'
  BY <1>1 DEF LInv, Known, CountersAreOrdered
<1>4. ASSUME NEW v \in Slots PROVE Knows(v)'
  <2>1. Knows(v) /\ pc'[v] = IF v = t THEN p ELSE pc[v]
    BY <1>1 DEF LInv, Known, TypeOK
  <2>2. Entitled(v)' <=> Entitled(v)
    BY <1>1 DEF Entitled
  <2>3. QED
    BY <1>1, <2>1, <2>2 DEF Knows, Past
<1>5. Counted'
  <2>1. /\ Busy' \subseteq Busy /\ Pending' \subseteq Pending
        /\ \A u, h : Taking(u, h)' \subseteq Taking(u, h)
    BY <1>1 DEF LInv, TypeOK, Busy, Pending, Taking, Past
  <2>2. \A u \in Users : \A h \in PerUser : orders'[u][h] \in Nat /\ orders'[u][h] <= orders[u][h]
    BY <1>1 DEF LInv, TypeOK, Handlers, PerUser, Stocked
  <2>3. QED
    BY <1>1, <2>1, <2>2, NoMore DEF LInv
<1>6. QED
  BY <1>2, <1>3, <1>4, <1>5 DEF LInv, Known
-----------------------------------------------------------------------------
\* What the steps of others leave a request to know.
LEMMA Bystander ==
  ASSUME TypeOK, NEW v \in Slots, Knows(v),
         pc'[v] = pc[v], req'[v] = req[v], seen'[v] = seen[v],
         units'["LeaseMiner"] \in Nat, units["LeaseMiner"] <= units'["LeaseMiner"],
         coded' \in Nat, coded <= coded'
  PROVE  Knows(v)'
<1>1. units["LeaseMiner"] \in Nat /\ coded \in Nat /\ seen[v].stock \in Nat /\ seen[v].used \in Nat
  BY DEF TypeOK, Stocked, Sights
<1>2. Entitled(v)' <=> Entitled(v)
  BY DEF Entitled
<1>3. QED
  BY <1>1, <1>2 DEF Knows

LEMMA AskLInv == ASSUME LInv, NEW t \in Slots, Ask(t) PROVE LInv'
<1>1. PICK r \in Requests :
        /\ r.code => r.handler = "LeaseMiner"
        /\ req' = [req EXCEPT ![t] = r]
        /\ pc' = [pc EXCEPT ![t] = IF r.handler \in Stocked THEN "stock" ELSE "count"]
  BY DEF Ask, GoTo
<1>2. /\ UNCHANGED <<stock, used, orders, blind, units, coded, placed, owner, seen>>
      /\ pc[t] = "idle" /\ placed + Cardinality(Busy) < MaxPlaced
  BY DEF Ask, tables, Busy
<1>3. TypeOK'
  BY <1>1, <1>2 DEF LInv, TypeOK, Places
<1>4. CountersAreOrdered'
  BY <1>2 DEF LInv, Known, CountersAreOrdered
<1>5. ASSUME NEW v \in Slots PROVE Knows(v)'
  <2>1. CASE v = t
    <3>1. seen'[t] = Unseen /\ req'[t] = r /\ pc'[t] = IF r.handler \in Stocked THEN "stock" ELSE "count"
      BY <1>1, <1>2 DEF LInv, TypeOK, Known, Knows
    <3>2. units["LeaseMiner"] \in Nat /\ coded \in Nat
      BY DEF LInv, TypeOK, Stocked
    <3>3. QED
      BY <1>1, <1>2, <2>1, <3>1, <3>2 DEF Knows, Unseen, Past, Stocked
  <2>2. CASE v # t
    <3>1. units["LeaseMiner"] \in Nat /\ coded \in Nat
      BY DEF LInv, TypeOK, Stocked
    <3>2. pc'[v] = pc[v] /\ req'[v] = req[v] /\ seen'[v] = seen[v]
      BY <1>1, <1>2, <2>2 DEF LInv, TypeOK
    <3>3. QED
      BY <1>2, <3>1, <3>2, Bystander DEF LInv, Known
  <2>3. QED
    BY <2>1, <2>2
<1>6. Counted'
  <2>1. Placed'
    <3>1. Busy' = Busy \cup {t} /\ t \notin Busy
      BY <1>1, <1>2 DEF LInv, TypeOK, Busy
    <3>2. Cardinality(Busy') = Cardinality(Busy) + 1
      BY <3>1, Sets, Finite, FS_AddElement
    <3>3. Cardinality(Busy) \in Nat
      BY Sets, Finite
    <3>4. QED
      BY <1>2, <3>2, <3>3, Numbers DEF LInv, TypeOK, Placed
  <2>2. Pending' = Pending /\ \A u, h : Taking(u, h)' = Taking(u, h)
    BY <1>1, <1>2 DEF LInv, TypeOK, Pending, Taking, Past
  <2>3. QED
    BY <1>2, <2>1, <2>2 DEF LInv, Counted, OrdersBend, UnitsBend, Bend, Others
<1>7. QED
  BY <1>3, <1>4, <1>5, <1>6 DEF LInv, Known

\* What every step that passes a check, or reads on, does.
LEMMA Read ==
  ASSUME LInv, NEW t \in Slots, NEW p \in Places, NEW s \in Sights,
         pc[t] # "idle", p # "idle", UNCHANGED <<tables, owner, req>>,
         GoTo(t, p), Reads(t, s), Knows(t)'
  PROVE  /\ TypeOK' /\ Known' /\ Placed'
         /\ pc' = [pc EXCEPT ![t] = p] /\ seen' = [seen EXCEPT ![t] = s]
         /\ UNCHANGED <<stock, used, orders, blind, units, coded, placed, req>>
<1>1. /\ pc' = [pc EXCEPT ![t] = p] /\ seen' = [seen EXCEPT ![t] = s]
      /\ UNCHANGED <<stock, used, orders, blind, units, coded, placed, owner, req>>
  BY DEF GoTo, Reads, tables
<1>2. TypeOK'
  BY <1>1 DEF LInv, TypeOK
<1>3. CountersAreOrdered'
  BY <1>1 DEF LInv, Known, CountersAreOrdered
<1>4. ASSUME NEW v \in Slots PROVE Knows(v)'
  <2>1. CASE v # t
    <3>1. units["LeaseMiner"] \in Nat /\ coded \in Nat
      BY DEF LInv, TypeOK, Stocked
    <3>2. pc'[v] = pc[v] /\ req'[v] = req[v] /\ seen'[v] = seen[v]
      BY <1>1, <2>1 DEF LInv, TypeOK
    <3>3. QED
      BY <1>1, <3>1, <3>2, Bystander DEF LInv, Known
  <2>2. QED
    BY <2>1
<1>5. Placed'
  <2>1. Busy' = Busy
    BY <1>1 DEF LInv, TypeOK, Busy
  <2>2. QED
    BY <1>1, <2>1 DEF LInv, Counted, Placed
<1>6. QED
  BY <1>1, <1>2, <1>3, <1>4, <1>5 DEF Known

\* The units of a management product that a request has found to be there.
LEMMA StockReadLInv ==
  ASSUME LInv, NEW t \in Slots, pc[t] = "stock", req[t].handler = "BuyMan",
         req[t].num <= IssuesNum - stock["BuyMan"],
         Reads(t, [seen[t] EXCEPT !.stock = stock["BuyMan"]]), GoTo(t, "pay"),
         UNCHANGED <<tables, owner, req>>
  PROVE  LInv'
<1> DEFINE n == req[t].num
           others == (Slots \ {t}) \X (1..MaxNum)
           mine == {t} \X (1..n)
<1>1. /\ n \in 1..MaxNum /\ stock["BuyMan"] \in Nat /\ stock["BuyMan"] = units["BuyMan"]
      /\ seen[t] \in Sights /\ IssuesNum \in Nat
  BY Numbers DEF LInv, TypeOK, Known, CountersAreOrdered, Stocked, Requests
<1>2. Knows(t)'
  <2>1. pc'[t] = "pay" /\ seen'[t] = [seen[t] EXCEPT !.stock = stock["BuyMan"]] /\ req'[t] = req[t]
    BY DEF GoTo, Reads, LInv, TypeOK
  <2>2. Knows(t) /\ coded' = coded
    BY DEF LInv, Known, tables
  <2>3. QED
    BY <1>1, <2>1, <2>2 DEF Knows, Entitled, Single, Gifts, Past
<1>3. /\ TypeOK' /\ Known' /\ Placed'
      /\ pc' = [pc EXCEPT ![t] = "pay"] /\ seen' = [seen EXCEPT ![t] = [seen[t] EXCEPT !.stock = stock["BuyMan"]]]
      /\ UNCHANGED <<stock, used, orders, blind, units, coded, placed, req>>
  <2>1. [seen[t] EXCEPT !.stock = stock["BuyMan"]] \in Sights
    BY <1>1 DEF Sights
  <2>2. QED
    BY <1>1, <1>2, <2>1, Read DEF Places
<1>4. OrdersBend'
  <2>1. \A u \in Users : \A h \in PerUser : Taking(u, h)' = Taking(u, h)
    BY <1>3 DEF LInv, TypeOK, Taking, Past, PerUser, Single, Gifts
  <2>2. QED
    BY <1>3, <2>1 DEF LInv, Counted, OrdersBend, Bend
<1>5. UnitsBend'
  <2>1. Pending' \subseteq mine \cup others
    BY <1>3 DEF Pending, LInv, TypeOK
  <2>2. IsFiniteSet(mine) /\ Cardinality(mine) = n
    <3>1. n \in Nat
      BY <1>1, Numbers
    <3>2. QED
      BY <3>1, UnitsOf, Zenon
  <2>3. IsFiniteSet(others) /\ Cardinality(others) = Others
    BY UnitsOfOthers
  <2>4. Cardinality(Pending') <= n + Others
    <3>1. mine \cap others = {}
      OBVIOUS
    <3>2. IsFiniteSet(mine \cup others) /\ Cardinality(mine \cup others) = n + Others
      BY <2>2, <2>3, <3>1, Disjoint, Zenon
    <3>3. QED
      BY <2>1, <3>2, FS_Subset
  <2>5. units'["BuyMan"] = units["BuyMan"] /\ n <= IssuesNum - units["BuyMan"] /\ units["BuyMan"] \in Nat
    BY <1>1, <1>3
  <2>6. Cardinality(Pending') \in Nat
    BY Sets, Finite
  <2>7. units["BuyMan"] + Cardinality(Pending') <= IssuesNum + Others
    BY <1>1, <2>4, <2>5, <2>6, Numbers
  <2>8. QED
    BY <2>5, <2>7 DEF UnitsBend, Others
<1>6. QED
  BY <1>3, <1>4, <1>5 DEF LInv, Counted

LEMMA ReadStockLInv == ASSUME LInv, NEW t \in Slots, ReadStock(t) PROVE LInv'
<1>1. /\ pc[t] = "stock" /\ req[t].handler \in Handlers /\ stock \in [Stocked -> Nat]
      /\ seen[t] \in Sights
  BY DEF ReadStock, LInv, TypeOK, Requests
<1>2. CASE Abort(t)
  BY <1>2, Ended DEF Abort, Released, LInv, TypeOK
<1>3. CASE /\ req[t].handler = "LeaseMiner" /\ UNCHANGED <<tables, owner, req>>
           /\ Reads(t, [seen[t] EXCEPT !.stock = stock["LeaseMiner"]]) /\ GoTo(t, "count")
  <2>1. stock["LeaseMiner"] \in Nat /\ stock["LeaseMiner"] <= units["LeaseMiner"]
    BY <1>1 DEF LInv, Known, CountersAreOrdered, Stocked
  <2>2. Knows(t)'
    <3>1. /\ pc'[t] = "count" /\ seen'[t] = [seen[t] EXCEPT !.stock = stock["LeaseMiner"]]
          /\ req'[t] = req[t]
      BY <1>3 DEF GoTo, Reads, LInv, TypeOK
    <3>2. Knows(t) /\ coded' = coded /\ units' = units
      BY <1>3 DEF LInv, Known, tables
    <3>3. QED
      BY <1>1, <1>3, <2>1, <3>1, <3>2 DEF Knows, Past
  <2>3. /\ TypeOK' /\ Known' /\ Placed'
        /\ pc' = [pc EXCEPT ![t] = "count"]
        /\ seen' = [seen EXCEPT ![t] = [seen[t] EXCEPT !.stock = stock["LeaseMiner"]]]
        /\ UNCHANGED <<stock, used, orders, blind, units, coded, placed, req>>
    <3>1. [seen[t] EXCEPT !.stock = stock["LeaseMiner"]] \in Sights
      BY <1>1, <2>1 DEF Sights
    <3>2. QED
      BY <1>1, <1>3, <2>2, <3>1, Read DEF Places
  <2>4. Pending' = Pending /\ \A u, h : Taking(u, h)' = Taking(u, h)
    BY <1>1, <2>3 DEF LInv, TypeOK, Pending, Taking, Past, Sights
  <2>5. QED
    BY <2>3, <2>4 DEF LInv, Counted, OrdersBend, UnitsBend, Bend, Others
<1>4. CASE /\ req[t].handler # "LeaseMiner" /\ UNCHANGED <<tables, owner, req>>
           /\ req[t].num <= IssuesNum - stock[req[t].handler]
           /\ Reads(t, [seen[t] EXCEPT !.stock = stock[req[t].handler]]) /\ GoTo(t, "pay")
  <2>1. req[t].handler = "BuyMan"
    BY <1>1, <1>4 DEF LInv, Known, Knows, Stocked
  <2>2. QED
    BY <1>1, <1>4, <2>1, StockReadLInv
<1>5. QED
  BY <1>2, <1>3, <1>4 DEF ReadStock

\* A request that the number of the user's orders lets pass, or that could not
\* read it.
LEMMA CountedLInv ==
  ASSUME LInv, NEW t \in Slots, pc[t] = "count", NEW n \in {0, Count(t)}, NEW f \in BOOLEAN,
         ~f => n = Count(t), Allowed(t, n), NEW p \in Past,
         Reads(t, [seen[t] EXCEPT !.count = n, !.failed = f]), GoTo(t, p),
         UNCHANGED <<tables, owner, req>>
  PROVE  LInv'
<1> DEFINE r == req[t]
<1>1. /\ r.handler \in Handlers /\ r.user \in Users /\ r.num \in 1..MaxNum
      /\ seen[t] \in Sights
  BY DEF LInv, TypeOK, Requests
<1>2. /\ n \in Nat /\ Count(t) = orders[r.user][r.handler]
      /\ r.handler # "BuyMan" /\ r.handler \in PerUser
  <2>1. n \in Nat /\ Count(t) = orders[r.user][r.handler]
    BY <1>1 DEF LInv, TypeOK, Count
  <2>2. r.handler # "BuyMan"
    BY DEF LInv, Known, Knows
  <2>3. QED
    BY <1>1, <2>1, <2>2 DEF Handlers, PerUser, Stocked
<1>3. /\ r.handler = "LeaseMiner" => n + r.num <= BuyLimit
      /\ r.handler \in Single => n = 0
      /\ r.handler = "WithdrawApply" => n < DayWithdrawNum
  BY <1>2 DEF Allowed, Single, Gifts
<1>4. Knows(t)'
  <2>1. pc'[t] = p /\ seen'[t] = [seen[t] EXCEPT !.count = n, !.failed = f] /\ req'[t] = r
    BY <1>2 DEF GoTo, Reads, LInv, TypeOK
  <2>2. Knows(t) /\ coded' = coded /\ units' = units
    BY DEF LInv, Known, tables
  <2>3. QED
    BY <1>1, <1>2, <1>3, <2>1, <2>2 DEF Knows, Entitled, Past
<1>5. /\ TypeOK' /\ Known' /\ Placed'
      /\ pc' = [pc EXCEPT ![t] = p] /\ UNCHANGED <<stock, used, orders, blind, units, coded, placed, req>>
  <2>1. p \in Places /\ p # "idle" /\ [seen[t] EXCEPT !.count = n, !.failed = f] \in Sights
    BY <1>1, <1>2 DEF Past, Places, Sights
  <2>2. QED
    BY <1>4, <2>1, Read
<1>6. UnitsBend'
  <2>1. Pending' = Pending
    BY <1>2, <1>5 DEF LInv, TypeOK, Pending, Past
  <2>2. QED
    BY <1>5, <2>1 DEF LInv, Counted, UnitsBend, Others
<1>7. OrdersBend'
  <2> SUFFICES ASSUME NEW u \in Users, NEW h \in PerUser
               PROVE  orders'[u][h] + Cardinality(Taking(u, h)') <= Bend(h) + blind'[u][h]
    BY DEF OrdersBend, Bend
  <2>1. CASE u = r.user /\ h = r.handler /\ ~f
    <3>1. n <= Bend(h) - Cardinality(Slots)
      BY <1>1, <1>2, <1>3, <2>1, Numbers DEF Bend, PerUser, Single, Gifts
    <3>2. Cardinality(Taking(u, h)') \in Nat /\ Cardinality(Taking(u, h)') <= Cardinality(Slots)
      BY Sets, Finite
    <3>3. orders'[u][h] = n /\ blind'[u][h] \in Nat
      <4>1. orders'[u][h] = n
        BY <1>2, <1>5, <2>1
      <4>2. QED
        BY <1>5, <4>1 DEF LInv, TypeOK, Handlers, PerUser, Stocked
    <3>4. QED
      BY <1>2, <3>1, <3>2, <3>3, Numbers
  <2>2. CASE ~(u = r.user /\ h = r.handler /\ ~f)
    <3>1. Taking(u, h)' = Taking(u, h)
      <4>1. \A v \in Slots : v # t => pc'[v] = pc[v] /\ seen'[v] = seen[v]
        BY <1>5 DEF LInv, TypeOK, Reads
      <4>2. seen'[t].failed = f /\ pc[t] \notin Past
        BY <1>1 DEF LInv, TypeOK, Reads, Past, Sights
      <4>3. req' = req
        BY <1>5
      <4>4. \A v \in Slots : v \in Taking(u, h)' <=> v \in Taking(u, h)
        BY <2>2, <4>1, <4>2, <4>3 DEF Taking
      <4>5. QED
        BY <4>4, Sets
    <3>2. QED
      BY <1>5, <3>1 DEF LInv, Counted, OrdersBend
  <2>3. QED
    BY <2>1, <2>2
<1>8. QED
  BY <1>5, <1>6, <1>7 DEF LInv, Counted

LEMMA CountOrdersLInv == ASSUME LInv, NEW t \in Slots, CountOrders(t) PROVE LInv'
<1>1. CASE Abort(t)
  BY <1>1, Ended DEF Abort, Released, LInv, TypeOK
<1>2. CASE ~Abort(t)
  <2>1. PICK f \in BOOLEAN :
          LET n == IF f THEN 0 ELSE Count(t) IN
          /\ pc[t] = "count" /\ Allowed(t, n)
          /\ Reads(t, [seen[t] EXCEPT !.count = n, !.failed = f])
          /\ \E p \in Past : GoTo(t, p)
          /\ UNCHANGED <<tables, owner, req>>
    BY <1>2 DEF CountOrders, Past
  <2> DEFINE n == IF f THEN 0 ELSE Count(t)
  <2>2. f \in BOOLEAN /\ n \in {0, Count(t)} /\ (~f => n = Count(t))
    OBVIOUS
  <2>3. /\ pc[t] = "count" /\ Allowed(t, n) /\ UNCHANGED <<tables, owner, req>>
        /\ Reads(t, [seen[t] EXCEPT !.count = n, !.failed = f])
    BY <2>1
  <2>4. PICK p \in Past : GoTo(t, p)
    BY <2>1
  <2> HIDE DEF n
  <2>5. QED
    BY <2>2, <2>3, <2>4, CountedLInv
<1>3. QED
  BY <1>1, <1>2

LEMMA ReadCodeLInv == ASSUME LInv, NEW t \in Slots, ReadCode(t) PROVE LInv'
<1>1. pc[t] = "code" /\ UNCHANGED <<tables, owner>>
  BY DEF ReadCode
<1>2. CASE Ends(t)
  BY <1>1, <1>2, Ended DEF LInv, TypeOK
<1>3. CASE Reads(t, [seen[t] EXCEPT !.used = used]) /\ GoTo(t, "spend") /\ UNCHANGED req
  <2>1. used \in Nat /\ used <= coded /\ seen[t] \in Sights
    BY DEF LInv, TypeOK, Known, CountersAreOrdered
  <2>2. Knows(t)'
    <3>1. pc'[t] = "spend" /\ seen'[t] = [seen[t] EXCEPT !.used = used] /\ req'[t] = req[t]
      BY <1>3 DEF GoTo, Reads, LInv, TypeOK
    <3>2. Knows(t) /\ coded' = coded /\ units' = units
      BY <1>1 DEF LInv, Known, tables
    <3>3. Entitled(t) => Entitled(t)'
      BY <2>1, <3>1 DEF Entitled
    <3>4. QED
      BY <1>1, <2>1, <3>1, <3>2, <3>3 DEF Knows, Past
  <2>3. /\ TypeOK' /\ Known' /\ Placed'
        /\ pc' = [pc EXCEPT ![t] = "spend"] /\ seen' = [seen EXCEPT ![t] = [seen[t] EXCEPT !.used = used]]
        /\ UNCHANGED <<stock, used, orders, blind, units, coded, placed, req>>
    <3>1. "spend" \in Places /\ [seen[t] EXCEPT !.used = used] \in Sights
      BY <2>1 DEF Places, Sights
    <3>2. QED
      BY <1>1, <1>3, <2>2, <3>1, Read
  <2>4. Pending' = Pending /\ \A u, h : Taking(u, h)' = Taking(u, h)
    BY <1>1, <2>3 DEF LInv, TypeOK, Pending, Taking, Past, Sights
  <2>5. QED
    BY <2>3, <2>4 DEF LInv, Counted, OrdersBend, UnitsBend, Bend, Others
<1>4. QED
  BY <1>2, <1>3 DEF ReadCode

LEMMA LockLInv ==
  ASSUME LInv, NEW t \in Slots, NEW row, NEW p \in {"pay", "book", "commit"},
         pc[t] \in Past, Lock(t, row, p)
  PROVE  LInv'
<1>1. owner' \in [Rows -> Slots \cup {Nobody}] /\ UNCHANGED <<tables, req, seen>> /\ GoTo(t, p)
  BY DEF Lock, LInv, TypeOK
<1>2. p \in Past /\ p \notin {"code", "spend", "give"}
  BY DEF Past
<1>3. QED
  BY <1>1, <1>2, Moved
-----------------------------------------------------------------------------
\* What a transaction that commits writes of the request, and of the tables.
LEMMA CommitEnds ==
  ASSUME LInv, NEW t \in Slots, Commit(t)
  PROVE  /\ pc[t] = "commit" /\ pc' = [pc EXCEPT ![t] = "idle"]
         /\ req' = [req EXCEPT ![t] = NoRequest]
         /\ seen' = [seen EXCEPT ![t] = Unseen] /\ owner' = Released(t)
         /\ req[t].handler \in Handlers /\ req[t].user \in Users
         /\ req[t].num \in Nat \ {0} /\ req[t].num <= MaxNum
         /\ seen[t].stock \in Nat /\ seen[t].count \in Nat /\ seen[t].used \in Nat
<1>1. /\ pc[t] = "commit" /\ pc' = [pc EXCEPT ![t] = "idle"]
      /\ req' = [req EXCEPT ![t] = NoRequest]
      /\ seen' = [seen EXCEPT ![t] = Unseen] /\ owner' = Released(t)
  BY DEF Commit, Ends, GoTo, Reads
<1>2. /\ req[t].handler \in Handlers /\ req[t].user \in Users
      /\ req[t].num \in Nat \ {0} /\ req[t].num <= MaxNum
      /\ seen[t].stock \in Nat /\ seen[t].count \in Nat /\ seen[t].used \in Nat
  BY Numbers DEF LInv, TypeOK, Requests, Sights
<1>3. QED
  BY <1>1, <1>2

LEMMA CommitWrites ==
  ASSUME LInv, NEW t \in Slots, Commit(t)
  PROVE  /\ orders' = [orders EXCEPT ![req[t].user][req[t].handler] = orders[req[t].user][req[t].handler] + 1]
         /\ placed' = placed + 1
         /\ blind' = IF seen[t].failed
                     THEN [blind EXCEPT ![req[t].user][req[t].handler] = blind[req[t].user][req[t].handler] + 1]
                     ELSE blind
         /\ req[t].code => coded' = coded + req[t].num /\ used' = seen[t].used + req[t].num
         /\ ~req[t].code => coded' = coded /\ used' = used
         /\ req[t].handler \in Stocked =>
              /\ stock' = [stock EXCEPT ![req[t].handler] = NewStock(t)]
              /\ units' = [units EXCEPT ![req[t].handler] = units[req[t].handler] + req[t].num]
         /\ req[t].handler \notin Stocked => stock' = stock /\ units' = units
  BY DEF Commit

LEMMA CommitUnits ==
  ASSUME LInv, NEW t \in Slots, Commit(t)
  PROVE  /\ units' \in [Stocked -> Nat] /\ stock' \in [Stocked -> Nat]
         /\ used' \in Nat /\ coded' \in Nat /\ coded <= coded'
         /\ units["LeaseMiner"] <= units'["LeaseMiner"]
         /\ units'["BuyMan"] = units["BuyMan"] + IF req[t].handler = "BuyMan" THEN req[t].num ELSE 0
         /\ CountersAreOrdered'
<1> DEFINE r == req[t]
<1>1. /\ r.num \in Nat \ {0} /\ r.handler \in Handlers
      /\ seen[t].stock \in Nat /\ seen[t].used \in Nat
  BY CommitEnds
<1>2. /\ stock \in [Stocked -> Nat] /\ units \in [Stocked -> Nat]
      /\ stock["BuyMan"] \in Nat /\ stock["LeaseMiner"] \in Nat
      /\ units["BuyMan"] \in Nat /\ units["LeaseMiner"] \in Nat
      /\ used \in Nat /\ coded \in Nat
      /\ stock["BuyMan"] = units["BuyMan"] /\ stock["LeaseMiner"] <= units["LeaseMiner"]
      /\ used <= coded /\ seen[t].used <= coded
      /\ r.handler = "LeaseMiner" => seen[t].stock <= units["LeaseMiner"]
  BY DEF LInv, TypeOK, Known, Knows, CountersAreOrdered, Stocked
<1>3. used' \in Nat /\ coded' \in Nat /\ coded <= coded' /\ used' <= coded'
  <2>1. CASE r.code
    <3>1. coded' = coded + r.num /\ used' = seen[t].used + r.num
      BY <2>1, CommitWrites
    <3>2. QED
      BY <1>1, <1>2, <3>1
  <2>2. CASE ~r.code
    <3>1. coded' = coded /\ used' = used
      BY <2>2, CommitWrites
    <3>2. QED
      BY <1>2, <3>1
  <2>3. QED
    BY <2>1, <2>2
<1>4. CASE r.handler = "BuyMan"
  <2>1. NewStock(t) = stock["BuyMan"] + r.num
    BY <1>4 DEF NewStock
  <2>2. /\ stock' = [stock EXCEPT !["BuyMan"] = stock["BuyMan"] + r.num]
        /\ units' = [units EXCEPT !["BuyMan"] = units["BuyMan"] + r.num]
    BY <1>4, <2>1, CommitWrites DEF Stocked
  <2>3. QED
    BY <1>1, <1>2, <1>3, <1>4, <2>2 DEF CountersAreOrdered, Stocked
<1>5. CASE r.handler = "LeaseMiner"
  <2>1. NewStock(t) = seen[t].stock + 1
    BY <1>5 DEF NewStock
  <2>2. /\ stock' = [stock EXCEPT !["LeaseMiner"] = seen[t].stock + 1]
        /\ units' = [units EXCEPT !["LeaseMiner"] = units["LeaseMiner"] + r.num]
    BY <1>5, <2>1, CommitWrites DEF Stocked
  <2>3. seen[t].stock + 1 <= units["LeaseMiner"] + r.num
    BY <1>1, <1>2, <1>5
  <2>4. QED
    BY <1>1, <1>2, <1>3, <1>5, <2>2, <2>3 DEF CountersAreOrdered, Stocked
<1>6. CASE r.handler \notin Stocked
  <2>1. stock' = stock /\ units' = units
    BY <1>6, CommitWrites
  <2>2. r.handler # "BuyMan"
    BY <1>6 DEF Stocked
  <2>3. QED
    BY <1>2, <1>3, <2>1, <2>2 DEF CountersAreOrdered
<1>7. QED
  BY <1>4, <1>5, <1>6 DEF Stocked

LEMMA CommitCounted == ASSUME LInv, NEW t \in Slots, Commit(t) PROVE Counted'
<1> DEFINE r == req[t]
<1>1. /\ r.user \in Users /\ r.handler \in Handlers /\ r.num \in Nat /\ r.num <= MaxNum
      /\ pc[t] = "commit" /\ pc' = [pc EXCEPT ![t] = "idle"] /\ req' = [req EXCEPT ![t] = NoRequest]
  BY CommitEnds
<1>0. /\ orders' = [orders EXCEPT ![r.user][r.handler] = orders[r.user][r.handler] + 1]
      /\ placed' = placed + 1
      /\ blind' = IF seen[t].failed THEN [blind EXCEPT ![r.user][r.handler] = blind[r.user][r.handler] + 1]
                  ELSE blind
  BY CommitWrites, Zenon
<1>2. Placed'
  <2>1. Busy' = Busy \ {t} /\ t \in Busy
    BY <1>1 DEF LInv, TypeOK, Busy
  <2>2. Cardinality(Busy') = Cardinality(Busy) - 1
    BY <2>1, Sets, Finite, FS_RemoveElement
  <2>3. Cardinality(Busy) \in Nat
    BY Sets, Finite
  <2>4. QED
    BY <1>0, <2>2, <2>3, Numbers DEF LInv, TypeOK, Counted, Placed
<1>3. OrdersBend'
  <2> SUFFICES ASSUME NEW u \in Users, NEW h \in PerUser
               PROVE  orders'[u][h] + Cardinality(Taking(u, h)') <= Bend(h) + blind'[u][h]
    BY DEF OrdersBend, Bend
  <2>1. /\ orders[u][h] \in Nat /\ Cardinality(Taking(u, h)) \in Nat /\ Bend(h) \in Nat
        /\ blind[u][h] \in Nat
        /\ orders[u][h] + Cardinality(Taking(u, h)) <= Bend(h) + blind[u][h]
    BY Numbers, Sets, Finite DEF LInv, TypeOK, Counted, OrdersBend, Handlers, PerUser, Stocked
  <2>0. \A v \in Slots : v # t => pc'[v] = pc[v] /\ seen'[v] = seen[v] /\ req'[v] = req[v]
    BY CommitEnds DEF LInv, TypeOK
  <2>2. CASE u = r.user /\ h = r.handler
    <3>1. orders'[u][h] = orders[u][h] + 1
      BY <1>0, <1>1, <2>2 DEF LInv, TypeOK
    <3>2. CASE seen[t].failed
      <4>1. Taking(u, h)' = Taking(u, h)
        BY <1>1, <2>0, <3>2 DEF LInv, TypeOK, Taking, Past
      <4>2. blind'[u][h] = blind[u][h] + 1
        BY <1>0, <1>1, <2>2, <3>2 DEF LInv, TypeOK
      <4>3. QED
        BY <2>1, <3>1, <4>1, <4>2
    <3>3. CASE ~seen[t].failed
      <4>1. Taking(u, h)' = Taking(u, h) \ {t} /\ t \in Taking(u, h)
        BY <1>1, <2>0, <2>2, <3>3 DEF LInv, TypeOK, Taking, Past
      <4>2. Cardinality(Taking(u, h)') = Cardinality(Taking(u, h)) - 1
        BY <4>1, Sets, Finite, FS_RemoveElement
      <4>3. blind' = blind
        BY <1>0, <3>3
      <4>4. QED
        BY <2>1, <3>1, <4>2, <4>3
    <3>4. QED
      BY <3>2, <3>3
  <2>3. CASE ~(u = r.user /\ h = r.handler)
    <3>1. Taking(u, h)' = Taking(u, h)
      BY <1>1, <2>0, <2>3 DEF LInv, TypeOK, Taking, Past
    <3>2. orders'[u][h] = orders[u][h] /\ blind'[u][h] = blind[u][h]
      BY <1>0, <1>1, <2>3 DEF LInv, TypeOK
    <3>3. QED
      BY <2>1, <3>1, <3>2
  <2>4. QED
    BY <2>2, <2>3
<1>4. UnitsBend'
  <2>1. /\ units["BuyMan"] \in Nat /\ Cardinality(Pending) \in Nat
        /\ units["BuyMan"] + Cardinality(Pending) <= IssuesNum + Others
        /\ IsFiniteSet(Pending) /\ IsFiniteSet(Pending') /\ Cardinality(Pending') \in Nat
    BY Sets, Finite DEF LInv, TypeOK, Counted, UnitsBend, Stocked
  <2>2. CASE r.handler = "BuyMan"
    <3>1. Pending = Pending' \cup ({t} \X (1..r.num)) /\ Pending' \cap ({t} \X (1..r.num)) = {}
      BY <1>1, <2>2, Numbers DEF LInv, TypeOK, Pending, Past
    <3>2. IsFiniteSet({t} \X (1..r.num)) /\ Cardinality({t} \X (1..r.num)) = r.num
      BY <1>1, UnitsOf, Zenon
    <3>3. Cardinality(Pending) = Cardinality(Pending') + r.num
      <4> DEFINE P == Pending'
                 M == {t} \X (1..r.num)
      <4>1. /\ IsFiniteSet(P) /\ IsFiniteSet(M) /\ P \cap M = {}
            /\ Cardinality(M) = r.num /\ Pending = P \cup M
        BY <2>1, <3>1, <3>2
      <4> HIDE DEF P, M
      <4>2. Cardinality(P \cup M) = Cardinality(P) + Cardinality(M)
        BY <4>1, Disjoint
      <4>3. Cardinality(Pending) = Cardinality(P) + r.num
        BY <4>1, <4>2
      <4>4. QED
        BY <4>3 DEF P
    <3>4. units'["BuyMan"] = units["BuyMan"] + r.num
      BY <2>2, CommitUnits
    <3>5. QED
      BY <1>1, <2>1, <3>3, <3>4, Numbers DEF UnitsBend, Others
  <2>3. CASE r.handler # "BuyMan"
    <3>1. Pending' = Pending
      BY <1>1, <2>3 DEF LInv, TypeOK, Pending, Past
    <3>2. units'["BuyMan"] = units["BuyMan"]
      BY <2>1, <2>3, CommitUnits
    <3>3. QED
      BY <2>1, <3>1, <3>2 DEF UnitsBend, Others
  <2>4. QED
    BY <2>2, <2>3
<1>5. QED
  BY <1>2, <1>3, <1>4 DEF Counted

LEMMA CommitLInv == ASSUME LInv, NEW t \in Slots, Commit(t) PROVE LInv'
<1>1. TypeOK'
  <2>1. /\ pc' \in [Slots -> Places] /\ req' \in [Slots -> Requests]
        /\ seen' \in [Slots -> Sights]
        /\ owner' \in [Rows -> Slots \cup {Nobody}]
    <3>1. /\ pc' = [pc EXCEPT ![t] = "idle"] /\ req' = [req EXCEPT ![t] = NoRequest]
          /\ seen' = [seen EXCEPT ![t] = Unseen] /\ owner' = Released(t)
      BY CommitEnds, Zenon
    <3>2. QED
      BY <3>1, Requested DEF LInv, TypeOK, Places, Released
  <2>2. orders' \in [Users -> [Handlers -> Nat]]
    <3>1. orders' = [orders EXCEPT ![req[t].user][req[t].handler] = orders[req[t].user][req[t].handler] + 1]
      BY CommitWrites, Zenon
    <3>2. orders[req[t].user][req[t].handler] + 1 \in Nat
      BY CommitEnds DEF LInv, TypeOK
    <3>3. QED
      BY <3>1, <3>2, CommitEnds DEF LInv, TypeOK
  <2>5. blind' \in [Users -> [Handlers -> Nat]]
    <3>1. blind' = IF seen[t].failed
                   THEN [blind EXCEPT ![req[t].user][req[t].handler] = blind[req[t].user][req[t].handler] + 1]
                   ELSE blind
      BY CommitWrites, Zenon
    <3>2. blind[req[t].user][req[t].handler] + 1 \in Nat
      BY CommitEnds DEF LInv, TypeOK
    <3>3. QED
      BY <3>1, <3>2, CommitEnds DEF LInv, TypeOK
  <2>3. placed' \in 0..MaxPlaced
    <3>1. placed' = placed + 1 /\ placed \in Nat
      <4>1. placed' = placed + 1
        BY CommitWrites, Zenon
      <4>2. QED
        BY <4>1, Numbers DEF LInv, TypeOK
    <3>2. Cardinality(Busy') \in Nat /\ placed' + Cardinality(Busy') <= MaxPlaced
      BY CommitCounted, Sets, Finite DEF Counted, Placed
    <3>3. QED
      BY <3>1, <3>2, Numbers
  <2>4. QED
    BY <2>1, <2>2, <2>3, <2>5, CommitUnits DEF TypeOK
<1>2. ASSUME NEW v \in Slots PROVE Knows(v)'
  <2>1. units'["LeaseMiner"] \in Nat /\ coded' \in Nat
    BY CommitUnits DEF Stocked
  <2>2. CASE v = t
    <3>1. pc'[v] = "idle" /\ req'[v] = NoRequest /\ seen'[v] = Unseen
      BY CommitEnds, <2>2 DEF LInv, TypeOK
    <3>2. QED
      BY <2>1, <3>1 DEF Knows, NoRequest, Unseen, Past
  <2>3. CASE v # t
    <3>1. pc'[v] = pc[v] /\ req'[v] = req[v] /\ seen'[v] = seen[v]
      BY CommitEnds, <2>3 DEF LInv, TypeOK
    <3>2. QED
      BY <2>1, <3>1, CommitUnits, Bystander DEF LInv, Known
  <2>4. QED
    BY <2>2, <2>3
<1>3. QED
  BY <1>1, <1>2, CommitUnits, CommitCounted DEF LInv, Known

LEMMA NewDayLInv == LInv /\ NewDay => LInv'
<1> SUFFICES ASSUME LInv, NewDay PROVE LInv'
  OBVIOUS
<1>1. /\ UNCHANGED <<stock, used, units, coded, placed, owner, pc, req, seen>>
      /\ orders' = [u \in Users |-> [orders[u] EXCEPT !["WithdrawApply"] = 0]]
      /\ blind' = [u \in Users |-> [blind[u] EXCEPT !["WithdrawApply"] = 0]]
  BY DEF NewDay
<1>2. \A u \in Users : \A h \in Handlers : orders'[u][h] \in Nat /\ orders'[u][h] <= orders[u][h]
  BY <1>1 DEF LInv, TypeOK
<1>3. TypeOK'
  BY <1>1 DEF LInv, TypeOK
<1>4. Known'
  BY <1>1 DEF LInv, Known, CountersAreOrdered, Knows, Entitled
<1>5. Counted'
  <2>1. Busy' = Busy /\ Pending' = Pending /\ \A u, h : Taking(u, h)' = Taking(u, h)
    BY <1>1 DEF Busy, Pending, Taking
  <2>2. ASSUME NEW u \in Users, NEW h \in PerUser
        PROVE  orders'[u][h] + Cardinality(Taking(u, h)') <= Bend(h) + blind'[u][h]
    <3>1. /\ orders[u][h] \in Nat /\ blind[u][h] \in Nat /\ Bend(h) \in Nat
          /\ Cardinality(Taking(u, h)) \in Nat /\ Cardinality(Taking(u, h)) <= Cardinality(Slots)
          /\ orders[u][h] + Cardinality(Taking(u, h)) <= Bend(h) + blind[u][h]
      BY Numbers, Sets, Finite DEF LInv, TypeOK, Counted, OrdersBend, Handlers, PerUser, Stocked
    <3>2. CASE h # "WithdrawApply"
      <4>1. orders'[u][h] = orders[u][h] /\ blind'[u][h] = blind[u][h]
        BY <1>1, <3>2 DEF LInv, TypeOK
      <4>2. QED
        BY <2>1, <3>1, <4>1
    <3>3. CASE h = "WithdrawApply"
      <4>1. orders'[u][h] = 0 /\ blind'[u][h] = 0
        BY <1>1, <3>3 DEF LInv, TypeOK, Handlers
      <4>2. CASE Taking(u, h) = {}
        <5>1. Cardinality(Taking(u, h)) = 0
          BY <4>2, FS_EmptySet, Zenon
        <5>2. QED
          BY <2>1, <3>1, <4>1, <5>1
      <4>3. CASE Taking(u, h) # {}
        <5>1. PICK t \in Slots : t \in Taking(u, h)
          BY <4>3 DEF Taking
        <5>2. seen[t].count \in Nat /\ seen[t].count < DayWithdrawNum
          BY <3>3, <5>1 DEF LInv, TypeOK, Known, Knows, Entitled, Taking, Sights
        <5>3. Bend(h) = Cardinality(Slots) + (DayWithdrawNum - 1)
          BY <3>3 DEF Bend
        <5>4. Bend(h) >= Cardinality(Slots)
          BY <5>2, <5>3, Numbers
        <5>5. QED
          BY <2>1, <3>1, <4>1, <5>4, Numbers
      <4>4. QED
        BY <4>2, <4>3
    <3>4. QED
      BY <3>2, <3>3
  <2>3. OrdersBend'
    BY <2>2 DEF OrdersBend, Bend
  <2>4. Placed' /\ UnitsBend'
    BY <1>1, <2>1 DEF LInv, Counted, Placed, UnitsBend, Others
  <2>5. QED
    BY <2>3, <2>4 DEF Counted
<1>6. QED
  BY <1>3, <1>4, <1>5 DEF LInv

LEMMA InitLInv == Init => LInv
<1> SUFFICES ASSUME Init PROVE LInv
  OBVIOUS
<1>1. TypeOK
  BY Requested, Numbers DEF Init, TypeOK, Places
<1>2. Known
  BY DEF Init, Known, CountersAreOrdered, Knows, Stocked, NoRequest, Unseen, Past
<1>3. Busy = {} /\ Pending = {} /\ \A u, h : Taking(u, h) = {}
  BY DEF Init, Busy, Pending, Taking, Past
<1>4. Cardinality({}) = 0
  BY FS_EmptySet
<1>5. Placed
  BY <1>3, <1>4, Numbers DEF Init, Placed
<1>6. UnitsBend
  BY <1>3, <1>4, Numbers DEF Init, UnitsBend, Stocked
<1>7. OrdersBend
  <2> SUFFICES ASSUME NEW u \in Users, NEW h \in PerUser
               PROVE  orders[u][h] + Cardinality(Taking(u, h)) <= Bend(h) + blind[u][h]
    BY DEF OrdersBend
  <2>1. orders[u][h] = 0 /\ blind[u][h] = 0
    BY DEF Init, PerUser, Handlers, Stocked
  <2>2. QED
    BY <1>3, <1>4, <2>1, Numbers
<1>8. QED
  BY <1>1, <1>2, <1>5, <1>6, <1>7 DEF LInv, Counted

LEMMA StepLInv == LInv /\ [Next]_vars => LInv'
<1> SUFFICES ASSUME LInv, [Next]_vars PROVE LInv'
  OBVIOUS
<1>1. ASSUME NEW t \in Slots, SpendCode(t) PROVE LInv'
  BY <1>1, LockLInv DEF SpendCode, Past
<1>2. ASSUME NEW t \in Slots, Pay(t) PROVE LInv'
  BY <1>2, LockLInv DEF Pay, Past
<1>3. ASSUME NEW t \in Slots, BookStock(t) PROVE LInv'
  BY <1>3, LockLInv DEF BookStock, Past
<1>4. ASSUME NEW t \in Slots, Give(t) PROVE LInv'
  <2>1. pc[t] \in Past /\ "commit" \in Past /\ owner' \in [Rows -> Slots \cup {Nobody}]
    BY <1>4 DEF Give, Past, LInv, TypeOK
  <2>2. QED
    BY <1>4, <2>1, Moved DEF Give
<1>5. ASSUME NEW t \in Slots, Refuse(t) \/ Crash(t) PROVE LInv'
  <2>1. owner' \in [Rows -> Slots \cup {Nobody}]
    BY <1>5 DEF Refuse, Crash, Abort, Released, LInv, TypeOK
  <2>2. QED
    BY <1>5, <2>1, Ended DEF Refuse, Crash, Abort
<1>6. CASE UNCHANGED vars
  <2>1. UNCHANGED <<stock, used, orders, blind, units, coded, placed, owner, pc, req, seen>>
    BY <1>6 DEF vars, tables
  <2>2. TypeOK' /\ Known'
    BY <2>1 DEF LInv, TypeOK, Known, CountersAreOrdered, Knows, Entitled
  <2>3. Busy' = Busy /\ Pending' = Pending /\ \A u, h : Taking(u, h)' = Taking(u, h)
    BY <2>1 DEF Busy, Pending, Taking
  <2>4. Counted'
    BY <2>1, <2>3 DEF LInv, Counted, Placed, OrdersBend, UnitsBend, Bend, Others
  <2>5. QED
    BY <2>2, <2>4 DEF LInv
<1>7. QED
  BY <1>1, <1>2, <1>3, <1>4, <1>5, <1>6, NewDayLInv, AskLInv, ReadStockLInv, CountOrdersLInv,
     ReadCodeLInv, CommitLInv DEF Next, Step
-----------------------------------------------------------------------------
\* Every counter, order, lock and request keeps its type, and no more is placed
\* than the bound lets.
THEOREM LimitsTypeOK == Spec => []TypeOK
<1>1. LInv => TypeOK
  BY DEF LInv
<1>2. QED
  BY InitLInv, StepLInv, <1>1, PTL DEF Spec

\* sold_num is what has been ordered of a management product, and sales_num and
\* used_num never show an order that was not placed, for any overlap.
THEOREM LimitsCountersAreOrdered == Spec => []CountersAreOrdered
<1>1. LInv => CountersAreOrdered
  BY DEF LInv, Known
<1>2. QED
  BY InitLInv, StepLInv, <1>1, PTL DEF Spec

\* A limit is passed by at most one request for each of the others served at the
\* time and one for each count that failed, for any number of them and any limits.
THEOREM LimitsBend == Spec => []LimitsBendAsCounted
<1>1. LInv => LimitsBendAsCounted
  <2> SUFFICES ASSUME LInv PROVE LimitsBendAsCounted
    OBVIOUS
  <2>1. units["BuyMan"] <= IssuesNum + Others
    <3>1. units["BuyMan"] \in Nat /\ Cardinality(Pending) \in Nat
      BY Sets, Finite DEF LInv, TypeOK, Stocked
    <3>2. QED
      BY <3>1, Numbers DEF LInv, Counted, UnitsBend
  <2>2. ASSUME NEW u \in Users, NEW h \in PerUser PROVE orders[u][h] <= Bend(h) + blind[u][h] /\ blind[u][h] \in Nat
    <3>1. orders[u][h] \in Nat /\ blind[u][h] \in Nat /\ Cardinality(Taking(u, h)) \in Nat
      BY Sets, Finite DEF LInv, TypeOK, Handlers, PerUser, Stocked
    <3>2. QED
      BY <3>1, Numbers DEF LInv, Counted, OrdersBend
  <2>3. ASSUME NEW u \in Users
        PROVE  /\ orders[u]["LeaseMiner"] <= BuyLimit + (Cardinality(Slots) - 1) + blind[u]["LeaseMiner"]
               /\ \A h \in Single : orders[u][h] <= 1 + (Cardinality(Slots) - 1) + blind[u][h]
               /\ orders[u]["WithdrawApply"]
                    <= DayWithdrawNum + (Cardinality(Slots) - 1) + blind[u]["WithdrawApply"]
    BY <2>2, Numbers DEF Bend, PerUser, Single, Gifts
  <2>4. QED
    BY <2>1, <2>3 DEF LimitsBendAsCounted, Others
<1>2. QED
  BY InitLInv, StepLInv, <1>1, PTL DEF Spec

\* Only a request that was overtaken between its check and its commit, or whose
\* count failed with orders there, breaks a limit.
THEOREM LimitsKept == Spec => KeptIfReadStillHolds
<1>1. ASSUME LInv, NEW t \in Slots, Commit(t), Current(t)
      PROVE  /\ req[t].handler = "BuyMan" => units'["BuyMan"] <= IssuesNum
             /\ \A u \in Users : Within(u) => Within(u)'
  <2> DEFINE r == req[t]
             n == orders[r.user][r.handler]
  <2>1. Entitled(t)
    <3>1. pc[t] = "commit"
      BY <1>1 DEF Commit
    <3>2. QED
      BY <1>1, <3>1 DEF LInv, Known, Knows, Past
  <2>2. CASE r.handler = "BuyMan"
    <3>1. /\ units'["BuyMan"] = units["BuyMan"] + r.num /\ stock["BuyMan"] = units["BuyMan"]
          /\ seen[t].stock + r.num <= IssuesNum /\ seen[t].stock = stock["BuyMan"]
      BY <1>1, <2>1, <2>2, CommitUnits DEF Entitled, Current, LInv, Known, CountersAreOrdered
    <3>2. orders' = [orders EXCEPT ![r.user][r.handler] = n + 1]
      BY <1>1, CommitWrites, Zenon
    <3>3. \A u \in Users : \A h \in PerUser : orders'[u][h] = orders[u][h]
      BY <2>2, <3>2, CommitEnds DEF LInv, TypeOK, PerUser, Single, Gifts
    <3>4. \A u \in Users : Within(u) => Within(u)'
      BY <3>3 DEF Within, PerUser
    <3>5. QED
      BY <3>1, <3>4
  <2>3. CASE r.handler # "BuyMan"
    <3>1. /\ r.handler = "LeaseMiner" => n + r.num <= BuyLimit
          /\ r.handler \in Single => n = 0
          /\ r.handler = "WithdrawApply" => n < DayWithdrawNum
      BY <1>1, <2>1, <2>3 DEF Entitled, Current, Count
    <3>2. orders' = [orders EXCEPT ![r.user][r.handler] = n + 1]
      BY <1>1, CommitWrites, Zenon
    <3>3. n \in Nat /\ r.num \in Nat \ {0} /\ r.user \in Users /\ r.handler \in Handlers
      BY <1>1, CommitEnds DEF LInv, TypeOK
    <3>4. ASSUME NEW u \in Users, Within(u), NEW h \in PerUser
          PROVE  /\ h = "LeaseMiner" => orders'[u][h] <= BuyLimit
                 /\ h \in Single => orders'[u][h] <= 1
                 /\ h = "WithdrawApply" => orders'[u][h] <= DayWithdrawNum
      <4>1. CASE u = r.user /\ h = r.handler
        <5>1. orders'[u][h] = n + 1
          <6>1. orders \in [Users -> [Handlers -> Nat]]
            BY <1>1 DEF LInv, TypeOK
          <6>2. QED
            BY <3>2, <3>3, <4>1, <6>1
        <5>2. QED
          BY <3>1, <3>3, <4>1, <5>1, Numbers
      <4>2. CASE ~(u = r.user /\ h = r.handler)
        <5>1. orders'[u][h] = orders[u][h]
          BY <3>2, <3>3, <4>2 DEF LInv, TypeOK
        <5>2. QED
          BY <3>4, <5>1 DEF Within
      <4>3. QED
        BY <4>1, <4>2
    <3>5. \A u \in Users : Within(u) => Within(u)'
      BY <3>4 DEF Within, PerUser
    <3>6. QED
      BY <2>3, <3>5
  <2>4. QED
    BY <2>2, <2>3
<1>2. LInv /\ [Next]_vars =>
        [\A t \in Slots :
           Commit(t) /\ Current(t) =>
             /\ req[t].handler = "BuyMan" => units'["BuyMan"] <= IssuesNum
             /\ \A u \in Users : Within(u) => Within(u)']_vars
  BY <1>1
<1>3. QED
  BY InitLInv, StepLInv, <1>2, PTL DEF Spec, KeptIfReadStillHolds
=============================================================================
