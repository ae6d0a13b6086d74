---------------------------- MODULE WalletProofs ----------------------------
(***************************************************************************)
(* What holds of the wallets of Wallet.tla for any number of requests, any *)
(* amounts and any mix of handlers: types and signs (IInv), the balances   *)
(* against their ledgers (AInv, MInv), rows against answers (DInv), and,   *)
(* for requests served one at a time (LoneInv), that rows chain (CInv) and *)
(* that the statements implement the wallet of AtomicWallet.tla (RInv).    *)
(***************************************************************************)
EXTENDS Wallet, TLAPS, FiniteSetTheorems, SequenceTheorems

\* Between the check of a balance and the ledger row, the copy covers the debit.
\* A request that has not arrived has a transaction to begin, and no row yet.
CopiesCover ==
  \A r \in Req :
    /\ stage[r] = "save" =>
         todo[r] # <<>> /\ Head(todo[r]).kind = "coin" /\ read[r] + Head(todo[r]).amount >= 0
    /\ stage[r] = "create" => todo[r] # <<>> /\ Head(todo[r]).kind = "coin"
    /\ stage[r] = "row" =>
         /\ todo[r] # <<>>
         /\ Head(todo[r]).kind = "coin" => read[r] + Head(todo[r]).amount >= 0
         /\ Head(todo[r]).kind = "man"  => user[r] + Head(todo[r]).amount >= 0
         /\ Head(todo[r]).kind \in {"coin", "man", "income"}
    /\ stage[r] \in {"precheck", "leg"} => todo[r] # <<>>
    /\ stage[r] = "idle" => ~Apart(r) /\ ~stray[r]

IInv == TypeOK /\ CopiesCover

LEMMA HeadInSet == ASSUME NEW S, NEW s \in Seq(S), s # <<>> PROVE Head(s) \in S
  OBVIOUS

\* What the actions build is of its type.
LEMMA RowType ==
  ASSUME NEW r \in Req, NEW n \in Int, NEW b \in Nat, b + n >= 0
  PROVE  Row(r, n, b) \in LedgerRow
  BY DEF Row, LedgerRow

LEMMA ProgramType ==
  ASSUME NEW op \in Handlers, NEW a \in Nat, NEW x \in Nat
  PROVE  /\ Program(op, a, x) \in Seq(LegSet)
         /\ op \notin SavesUser => Program(op, a, x) # <<>>
<1>1. Coin(-a) \in LegSet /\ Coin(a) \in LegSet /\ Coin(x) \in LegSet /\ Coin(-x) \in LegSet
  BY DEF Coin, Leg, LegSet
<1>2. Man(-a) \in LegSet /\ Man(a) \in LegSet /\ Man(x) \in LegSet
  BY DEF Man, Leg, LegSet
<1>3. Reread \in LegSet /\ Limit \in LegSet /\ Income \in LegSet
  BY DEF Reread, Limit, Income, Leg, LegSet
<1>4. CASE op = "CMTransferIn"
  BY <1>1, <1>2, <1>4 DEF Program
<1>5. CASE op = "CMTransferOut"
  BY <1>1, <1>2, <1>5 DEF Program
<1>6. CASE op = "WithdrawApply"
  BY <1>1, <1>6 DEF Program
<1>7. CASE op = "rechargeArrives"
  BY <1>1, <1>3, <1>7 DEF Program
<1>8. CASE op = "Notify2Handler"
  BY <1>1, <1>3, <1>8 DEF Program
<1>9. CASE op = "RebateIncome"
  BY <1>2, <1>3, <1>9 DEF Program
<1>10. CASE op \in SavesUser
  BY <1>10 DEF Program, SavesUser
<1>11. CASE op = "SaveIdCardInfo"
  BY <1>1, <1>11 DEF Program, SavesUser
<1>12. CASE op = "IncomeHours"
  BY <1>3, <1>12 DEF Program, SavesUser
<1>13. QED
  BY <1>4, <1>5, <1>6, <1>7, <1>8, <1>9, <1>10, <1>11, <1>12 DEF Handlers, SavesUser

\* The end of a handler keeps the invariant, whatever it has committed.
LEMMA EndIInv ==
  ASSUME IInv, NEW r \in Req, NEW answer \in Replies, End(r, answer),
         asset' \in AssetRow, money' \in Nat,
         coinLog' \in Seq(LedgerRow), manLog' \in Seq(LedgerRow)
  PROVE  IInv'
<1> USE DEF IInv
<1>1. holder' \in [Rows -> Req \cup {Nobody}]
  BY DEF End, Released, TypeOK
<1>2. /\ todo' \in [Req -> Seq(LegSet)]
      /\ coinRows' \in [Req -> Seq(LedgerRow)] /\ manRows' \in [Req -> Seq(LedgerRow)]
  <2>1. <<>> \in Seq(LegSet) /\ <<>> \in Seq(LedgerRow)
    OBVIOUS
  <2>2. QED
    BY <2>1 DEF End, TypeOK
<1>3. stage' \in [Req -> Stages] /\ reply' \in [Req -> Replies]
  BY DEF End, TypeOK, Stages
<1>4. /\ user' \in [Req -> Nat] /\ read' \in [Req -> Nat]
      /\ newAsset' \in [Req -> Nat] /\ newMoney' \in [Req -> Nat]
  BY DEF End, TypeOK
<1>5. /\ hasSnap' \in [Req -> BOOLEAN] /\ stray' \in [Req -> BOOLEAN]
      /\ unsaved' \in [Req -> BOOLEAN] /\ open' \in [Req -> BOOLEAN]
      /\ snap' \in [Req -> AssetRow]
  BY DEF End, TypeOK, AssetRow
<1>6. TypeOK'
  BY <1>1, <1>2, <1>3, <1>4, <1>5 DEF TypeOK
<1>7. ASSUME NEW q \in Req \ {r}
      PROVE  /\ stage'[q] = stage[q] /\ todo'[q] = todo[q] /\ user'[q] = user[q]
             /\ read'[q] = read[q] /\ open'[q] = open[q] /\ unsaved'[q] = unsaved[q]
             /\ stray'[q] = stray[q]
  BY <1>7 DEF End, TypeOK
<1>8. stage'[r] = "done"
  BY DEF End, TypeOK
<1>9. CopiesCover'
  BY <1>7, <1>8 DEF CopiesCover, Apart
<1>10. QED
  BY <1>6, <1>9

\* A step of one request that leaves the others as they are, and goes to a stage
\* where it has no copy to cover.
LEMMA OthersCovered ==
  ASSUME IInv, NEW r \in Req,
         \A q \in Req \ {r} :
           /\ stage'[q] = stage[q] /\ todo'[q] = todo[q] /\ user'[q] = user[q]
           /\ read'[q] = read[q] /\ open'[q] = open[q] /\ unsaved'[q] = unsaved[q]
           /\ stray'[q] = stray[q],
         stage'[r] \in {"precheck", "leg"} => todo'[r] # <<>>,
         stage'[r] = "create" => todo'[r] # <<>> /\ Head(todo'[r]).kind = "coin",
         stage'[r] \notin {"idle", "save", "row"}
  PROVE  CopiesCover'
  BY DEF IInv, CopiesCover, Apart

\* So does going to the next leg.
LEMMA NextLegIInv ==
  ASSUME IInv, NEW r \in Req, NextLeg(r), todo[r] # <<>>,
         UNCHANGED <<read, way>>,
         \A q \in Req \ {r} : user'[q] = user[q]
  PROVE  /\ stage' \in [Req -> Stages] /\ todo' \in [Req -> Seq(LegSet)]
         /\ CopiesCover'
<1> USE DEF IInv
<1>1. Tail(todo[r]) \in Seq(LegSet)
  BY DEF TypeOK
<1>2. stage' \in [Req -> Stages] /\ todo' \in [Req -> Seq(LegSet)]
  BY <1>1 DEF NextLeg, TypeOK, Stages
<1>3. ASSUME NEW q \in Req \ {r}
      PROVE  /\ stage'[q] = stage[q] /\ todo'[q] = todo[q] /\ user'[q] = user[q]
             /\ read'[q] = read[q] /\ open'[q] = open[q] /\ unsaved'[q] = unsaved[q]
             /\ stray'[q] = stray[q]
  BY <1>3 DEF NextLeg, TypeOK, way
<1>4. todo'[r] = Tail(todo[r]) /\ stage'[r] = IF Tail(todo[r]) = <<>> THEN "commit" ELSE "leg"
  BY DEF NextLeg, TypeOK
<1>5. CopiesCover'
  BY <1>3, <1>4, OthersCovered
<1>6. QED
  BY <1>2, <1>5

\* What a request reads is a row, or none.
LEMMA ViewType == ASSUME TypeOK, NEW r \in Req PROVE View(r) \in AssetRow
  BY DEF TypeOK, View, AssetRow

\* The decision on a leg: the next one, or a copy that covers it.
LEMMA DecideIInv ==
  ASSUME IInv, NEW r \in Req, NEW balance \in Nat, NEW astray \in BOOLEAN,
         Decide(r, balance, astray), todo[r] # <<>>, Head(todo[r]).kind = "coin",
         UNCHANGED user
  PROVE  /\ stage' \in [Req -> Stages] /\ todo' \in [Req -> Seq(LegSet)]
         /\ read' \in [Req -> Nat] /\ stray' \in [Req -> BOOLEAN]
         /\ UNCHANGED <<holder, open, unsaved, buffer, reply>> /\ CopiesCover'
<1> USE DEF IInv
<1> DEFINE amount == Head(todo[r]).amount
<1>1. amount \in Int
  <2>1. Head(todo[r]) \in LegSet
    BY HeadInSet DEF TypeOK
  <2>2. QED
    BY <2>1 DEF LegSet
<1>2. CASE /\ NextLeg(r)
           /\ UNCHANGED <<holder, read, way, buffer, reply>>
  <2>1. stage' \in [Req -> Stages] /\ todo' \in [Req -> Seq(LegSet)] /\ CopiesCover'
    BY <1>2, NextLegIInv
  <2>2. QED
    BY <1>2, <2>1 DEF TypeOK, way
<1>3. CASE /\ amount # 0 /\ ~Short(balance, amount)
           /\ read' = [read EXCEPT ![r] = balance]
           /\ stray' = [stray EXCEPT ![r] = astray]
           /\ stage' = [stage EXCEPT ![r] = "save"]
           /\ UNCHANGED <<holder, todo, open, unsaved, buffer, reply>>
  <2>1. balance + amount >= 0
    BY <1>1, <1>3 DEF Short
  <2>2. /\ stage' \in [Req -> Stages] /\ todo' \in [Req -> Seq(LegSet)]
        /\ read' \in [Req -> Nat] /\ stray' \in [Req -> BOOLEAN]
    BY <1>3 DEF TypeOK, Stages
  <2>3. CopiesCover'
    BY <1>3, <2>1 DEF TypeOK, CopiesCover, Apart, Stages
  <2>4. QED
    BY <1>3, <2>2, <2>3
<1>4. QED
  BY <1>2, <1>3 DEF Decide

\* A request that goes on after a failed save has a copy that covers the row.
LEMMA GoesOnCovered ==
  ASSUME IInv, NEW r \in Req, GoesOn(r), \E q \in Req : WaitsFor(r, q)
  PROVE  /\ todo[r] # <<>>
         /\ Head(todo[r]).kind = "coin" => read[r] + Head(todo[r]).amount >= 0
         /\ Head(todo[r]).kind = "man"  => user[r] + Head(todo[r]).amount >= 0
         /\ Head(todo[r]).kind \in {"coin", "man"}
<1> USE DEF IInv
<1>1. \/ stage[r] = "save"
      \/ /\ stage[r] = "leg" /\ Head(todo[r]).kind = "man"
         /\ ~Short(user[r], Head(todo[r]).amount)
  BY DEF GoesOn, WaitsFor
<1>2. todo[r] # <<>>
  BY <1>1 DEF CopiesCover
<1>3. todo[r] \in Seq(LegSet) /\ user[r] \in Nat /\ read[r] \in Nat
  BY DEF TypeOK
<1>4. Head(todo[r]) \in LegSet
  BY <1>2, <1>3, HeadInSet
<1>5. QED
  BY <1>1, <1>2, <1>3, <1>4 DEF CopiesCover, Short, LegSet

LEMMA ProductNat == \A m, n \in Nat : m * n \in Nat
  OBVIOUS

LEMMA IncomeType == \A m \in Nat : IncomeOf(m) \in Nat /\ m + IncomeOf(m) >= 0
<1>1. SUFFICES ASSUME NEW m \in Nat PROVE IncomeOf(m) \in Nat /\ m + IncomeOf(m) >= 0
  OBVIOUS
<1>2. IncomeOf(m) \in Nat
  BY WalletAssumption, ProductNat DEF IncomeOf
<1>3. QED
  BY <1>2

LEMMA StepIInv == IInv /\ [Next]_vars => IInv'
<1> SUFFICES ASSUME IInv, [Next]_vars PROVE IInv'
  OBVIOUS
<1> USE DEF IInv
<1>1. ASSUME NEW r \in Req, Arrive(r) PROVE IInv'
  <2>1. PICK op \in Ops, a \in Amounts, x \in Extras : Accept(r, op, a, x)
    BY <1>1 DEF Arrive
  <2>2. /\ Program(op, a, x) \in Seq(LegSet)
        /\ op \notin SavesUser => Program(op, a, x) # <<>>
    BY ProgramType, WalletAssumption
  <2>3. /\ user' = [user EXCEPT ![r] = money] /\ open' \in [Req -> BOOLEAN]
        /\ UNCHANGED <<db, holder, read, stray, unsaved, buffer, reply>>
    BY <2>1 DEF Accept, TypeOK
  <2>4. stage' \in [Req -> Stages] /\ todo' \in [Req -> Seq(LegSet)]
    BY <2>1, <2>2 DEF TypeOK, Stages, Accept, FirstStage
  <2>5. hasSnap' \in [Req -> BOOLEAN] /\ snap' \in [Req -> AssetRow] /\ user' \in [Req -> Nat]
    BY <2>1, <2>3 DEF TypeOK, Accept, ReadsInTransaction
  <2>6. TypeOK'
    BY <2>3, <2>4, <2>5 DEF TypeOK, db, buffer
  <2>7. stage'[r] \in {"precheck", "whole", "leg"} /\ (stage'[r] # "whole" => todo'[r] # <<>>)
    BY <2>1, <2>2 DEF TypeOK, Accept, FirstStage, SavesUser
  <2>8. ASSUME NEW q \in Req \ {r}
        PROVE  /\ stage'[q] = stage[q] /\ todo'[q] = todo[q] /\ user'[q] = user[q]
               /\ read'[q] = read[q] /\ open'[q] = open[q] /\ unsaved'[q] = unsaved[q]
               /\ stray'[q] = stray[q]
    BY <2>1, <2>3, <2>8 DEF TypeOK, Accept
  <2>9. CopiesCover'
    BY <2>7, <2>8, OthersCovered
  <2>10. QED
    BY <2>6, <2>9
<1>2. ASSUME NEW r \in Req, BalanceCheck(r) PROVE IInv'
  <2>1. UNCHANGED db
    BY <1>2 DEF BalanceCheck
  <2>2. CASE End(r, "error")
    BY <2>1, <2>2, EndIInv DEF TypeOK, db, Replies
  <2>3. CASE /\ stage' = [stage EXCEPT ![r] = "leg"]
             /\ UNCHANGED <<holder, todo, copies, way, buffer, reply>>
    <3>1. todo[r] # <<>>
      BY <1>2 DEF BalanceCheck, CopiesCover
    <3>2. TypeOK'
      BY <2>1, <2>3 DEF TypeOK, db, copies, way, buffer, Stages
    <3>3. CopiesCover'
      BY <2>3, <3>1, OthersCovered DEF TypeOK, copies, way
    <3>4. QED
      BY <3>2, <3>3
  <2>4. QED
    BY <1>2, <2>2, <2>3 DEF BalanceCheck
<1>3. ASSUME NEW r \in Req, ReadAsset(r) PROVE IInv'
  <2>1. /\ stage[r] = "leg" /\ todo[r] # <<>> /\ Head(todo[r]).kind = "coin" /\ UNCHANGED <<db, user>>
        /\ hasSnap' = [hasSnap EXCEPT ![r] = TRUE]
        /\ snap' = [snap EXCEPT ![r] = IF hasSnap[r] THEN @ ELSE asset]
    BY <1>3 DEF ReadAsset, CopiesCover
  <2>2. hasSnap' \in [Req -> BOOLEAN] /\ snap' \in [Req -> AssetRow]
    BY <2>1 DEF TypeOK
  <2>3. CASE /\ stage' = [stage EXCEPT ![r] = "create"]
             /\ UNCHANGED <<holder, todo, read, way, buffer, reply>>
    <3>1. TypeOK'
      BY <2>1, <2>2, <2>3 DEF TypeOK, db, way, buffer, Stages
    <3>2. CopiesCover'
      BY <2>1, <2>3, OthersCovered DEF TypeOK, way
    <3>3. QED
      BY <3>1, <3>2
  <2>4. CASE View(r) # NoRow /\ Decide(r, View(r), stray[r] /\ open[r])
    <3>1. View(r) \in Nat /\ (stray[r] /\ open[r]) \in BOOLEAN
      BY <2>4, ViewType DEF AssetRow
    <3>2. /\ stage' \in [Req -> Stages] /\ todo' \in [Req -> Seq(LegSet)]
          /\ read' \in [Req -> Nat] /\ stray' \in [Req -> BOOLEAN]
          /\ UNCHANGED <<holder, open, unsaved, buffer, reply>> /\ CopiesCover'
      BY <2>1, <2>4, <3>1, DecideIInv
    <3>3. TypeOK'
      BY <2>1, <2>2, <3>2 DEF TypeOK, db, buffer
    <3>4. QED
      BY <3>2, <3>3
  <2>5. QED
    BY <1>3, <2>3, <2>4 DEF ReadAsset
<1>4. ASSUME NEW r \in Req, CreateRow(r) PROVE IInv'
  <2>1. /\ stage[r] = "create" /\ todo[r] # <<>> /\ Head(todo[r]).kind = "coin"
        /\ UNCHANGED <<money, coinLog, manLog, user, hasSnap, snap>>
        /\ Decide(r, 0, asset # NoRow) /\ (asset # NoRow) \in BOOLEAN
    BY <1>4 DEF CreateRow, CopiesCover
  <2>2. asset' \in AssetRow
    BY <1>4 DEF CreateRow, TypeOK, AssetRow
  <2>3. /\ stage' \in [Req -> Stages] /\ todo' \in [Req -> Seq(LegSet)]
        /\ read' \in [Req -> Nat] /\ stray' \in [Req -> BOOLEAN]
        /\ UNCHANGED <<holder, open, unsaved, buffer, reply>> /\ CopiesCover'
    BY <2>1, DecideIInv
  <2>4. TypeOK'
    BY <2>1, <2>2, <2>3 DEF TypeOK, buffer
  <2>5. QED
    BY <2>3, <2>4
<1>5. ASSUME NEW r \in Req, RefuseAsset(r) PROVE IInv'
  <2>1. asset' \in AssetRow
    BY <1>5 DEF RefuseAsset, TypeOK, AssetRow
  <2>2. QED
    BY <1>5, <2>1, EndIInv DEF RefuseAsset, TypeOK, Replies
<1>6. ASSUME NEW r \in Req, SaveAsset(r) PROVE IInv'
  <2> DEFINE balance == read[r] + Head(todo[r]).amount
  <2>1. stage[r] = "save" /\ todo[r] # <<>> /\ Head(todo[r]).kind = "coin" /\ balance \in Nat
    <3>1. stage[r] = "save" /\ todo[r] # <<>> /\ Head(todo[r]).kind = "coin" /\ balance >= 0
      BY <1>6 DEF SaveAsset, CopiesCover
    <3>2. Head(todo[r]) \in LegSet /\ read[r] \in Nat
      BY <3>1 DEF TypeOK
    <3>3. QED
      BY <3>1, <3>2 DEF LegSet
  <2>2. /\ holder' \in [Rows -> Req \cup {Nobody}] /\ asset' \in AssetRow
        /\ newAsset' \in [Req -> Nat]
    <3>1. /\ newAsset' \in {newAsset, [newAsset EXCEPT ![r] = balance]}
          /\ asset' \in {asset, balance}
          /\ holder' \in {holder, [holder EXCEPT !["asset"] = r]}
      BY <1>6 DEF SaveAsset
    <3> HIDE DEF balance
    <3>2. balance \in AssetRow /\ asset' \in AssetRow
      BY <2>1, <3>1 DEF TypeOK, AssetRow
    <3>3. newAsset \in [Req -> Nat] /\ balance \in Nat
      BY <2>1 DEF TypeOK
    <3>4. newAsset' \in [Req -> Nat]
      BY <3>1, <3>3
    <3>5. holder' \in [Rows -> Req \cup {Nobody}]
      BY <3>1 DEF TypeOK
    <3>6. QED
      BY <3>2, <3>4, <3>5
  <2>3. /\ stage' = [stage EXCEPT ![r] = "row"]
        /\ UNCHANGED <<money, coinLog, manLog, todo, copies, way, newMoney,
                       coinRows, manRows, reply>>
    BY <1>6 DEF SaveAsset
  <2>4. TypeOK'
    BY <2>2, <2>3 DEF TypeOK, copies, way, Stages
  <2>5. CopiesCover'
    BY <2>1, <2>3 DEF TypeOK, CopiesCover, Apart, copies, way, Stages
  <2>6. QED
    BY <2>4, <2>5
<1>7. ASSUME NEW r \in Req, AddCoinRow(r) PROVE IInv'
  <2> DEFINE row == Row(r, Head(todo[r]).amount, read[r])
  <2>1. row \in LedgerRow /\ todo[r] # <<>>
    <3>1. todo[r] # <<>> /\ read[r] + Head(todo[r]).amount >= 0
      BY <1>7 DEF AddCoinRow, CopiesCover
    <3>2. Head(todo[r]) \in LegSet /\ read[r] \in Nat
      BY <3>1 DEF TypeOK
    <3>3. QED
      BY <3>1, <3>2, RowType DEF LegSet
  <2>2. coinLog' \in Seq(LedgerRow) /\ coinRows' \in [Req -> Seq(LedgerRow)]
    <3> HIDE DEF row
    <3>1. Append(coinLog, row) \in Seq(LedgerRow) /\ Append(coinRows[r], row) \in Seq(LedgerRow)
      BY <2>1 DEF TypeOK
    <3>2. \/ coinLog' = coinLog /\ coinRows' = [coinRows EXCEPT ![r] = Append(coinRows[r], row)]
          \/ coinLog' = Append(coinLog, row) /\ coinRows' = coinRows
      BY <1>7 DEF AddCoinRow, row
    <3>3. QED
      BY <3>1, <3>2 DEF TypeOK
  <2>3. UNCHANGED <<asset, money, manLog, holder, copies, way, newAsset, newMoney, manRows, reply>>
    BY <1>7 DEF AddCoinRow
  <2>4. stage' \in [Req -> Stages] /\ todo' \in [Req -> Seq(LegSet)] /\ CopiesCover'
    BY <1>7, <2>1, <2>3, NextLegIInv DEF AddCoinRow, TypeOK, copies
  <2>5. TypeOK'
    BY <2>2, <2>3, <2>4 DEF TypeOK, copies, way
  <2>6. QED
    BY <2>4, <2>5
<1>8. ASSUME NEW r \in Req, RefuseMoney(r) PROVE IInv'
  BY <1>8, EndIInv DEF RefuseMoney, TypeOK, db, Replies
<1>9. ASSUME NEW r \in Req, SaveMoney(r) PROVE IInv'
  <2> DEFINE sum == user[r] + Head(todo[r]).amount
  <2>1. stage[r] = "leg" /\ todo[r] # <<>> /\ Head(todo[r]).kind = "man" /\ sum \in Nat
    <3>1. stage[r] = "leg" /\ todo[r] # <<>> /\ Head(todo[r]).kind = "man"
      BY <1>9 DEF SaveMoney, CopiesCover
    <3>2. Head(todo[r]) \in LegSet /\ user[r] \in Nat
      BY <3>1 DEF TypeOK
    <3>3. QED
      BY <1>9, <3>1, <3>2 DEF SaveMoney, Short, LegSet
  <2>2. Written(r, sum) \in Nat
    BY <2>1 DEF Written, TypeOK
  <2>3. /\ holder' \in [Rows -> Req \cup {Nobody}] /\ money' \in Nat
        /\ newMoney' \in [Req -> Nat]
    BY <1>9, <2>2 DEF SaveMoney, TypeOK
  <2>4. /\ stage' = [stage EXCEPT ![r] = "row"]
        /\ UNCHANGED <<asset, coinLog, manLog, todo, copies, way, newAsset,
                       coinRows, manRows, reply>>
    BY <1>9 DEF SaveMoney
  <2>5. TypeOK'
    BY <2>3, <2>4 DEF TypeOK, copies, way, Stages
  <2>6. CopiesCover'
    BY <2>1, <2>4 DEF TypeOK, CopiesCover, Apart, copies, way, Stages
  <2>7. QED
    BY <2>5, <2>6
<1>10. ASSUME NEW r \in Req, AddManRow(r) PROVE IInv'
  <2> DEFINE row == Row(r, Head(todo[r]).amount, user[r])
  <2>1. row \in LedgerRow /\ todo[r] # <<>>
    <3>1. todo[r] # <<>> /\ user[r] + Head(todo[r]).amount >= 0
      BY <1>10 DEF AddManRow, CopiesCover
    <3>2. Head(todo[r]) \in LegSet /\ user[r] \in Nat
      BY <3>1 DEF TypeOK
    <3>3. QED
      BY <3>1, <3>2, RowType DEF LegSet
  <2>2. manLog' \in Seq(LedgerRow) /\ manRows' \in [Req -> Seq(LedgerRow)]
    <3> HIDE DEF row
    <3>1. Append(manLog, row) \in Seq(LedgerRow) /\ Append(manRows[r], row) \in Seq(LedgerRow)
      BY <2>1 DEF TypeOK
    <3>2. \/ manLog' = manLog /\ manRows' = [manRows EXCEPT ![r] = Append(manRows[r], row)]
          \/ manLog' = Append(manLog, row) /\ manRows' = manRows
      BY <1>10 DEF AddManRow, row
    <3>3. QED
      BY <3>1, <3>2 DEF TypeOK
  <2>3. UNCHANGED <<asset, money, coinLog, holder, copies, way, newAsset, newMoney, coinRows, reply>>
    BY <1>10 DEF AddManRow
  <2>4. stage' \in [Req -> Stages] /\ todo' \in [Req -> Seq(LegSet)] /\ CopiesCover'
    BY <1>10, <2>1, <2>3, NextLegIInv DEF AddManRow, TypeOK, copies
  <2>5. TypeOK'
    BY <2>2, <2>3, <2>4 DEF TypeOK, copies, way
  <2>6. QED
    BY <2>4, <2>5
<1>11. ASSUME NEW r \in Req, RereadUser(r) PROVE IInv'
  <2>1. user' \in [Req -> Nat] /\ \A q \in Req \ {r} : user'[q] = user[q]
    BY <1>11 DEF RereadUser, TypeOK
  <2>2. todo[r] # <<>> /\ UNCHANGED <<db, holder, read, hasSnap, snap, way, buffer, reply>>
    BY <1>11 DEF RereadUser, CopiesCover
  <2>3. stage' \in [Req -> Stages] /\ todo' \in [Req -> Seq(LegSet)] /\ CopiesCover'
    BY <1>11, <2>1, <2>2, NextLegIInv DEF RereadUser
  <2>4. TypeOK'
    BY <2>1, <2>2, <2>3 DEF TypeOK, db, way, buffer
  <2>5. QED
    BY <2>3, <2>4
<1>12. ASSUME NEW r \in Req, SetLimit(r) PROVE IInv'
  <2>1. Written(r, 0) \in Nat
    BY DEF Written, TypeOK
  <2>2. holder' \in [Rows -> Req \cup {Nobody}] /\ newMoney' \in [Req -> Nat]
    BY <1>12, <2>1 DEF SetLimit, TypeOK, Rows
  <2>3. todo[r] # <<>> /\ UNCHANGED <<db, copies, way, newAsset, coinRows, manRows, reply>>
    BY <1>12 DEF SetLimit, CopiesCover
  <2>4. stage' \in [Req -> Stages] /\ todo' \in [Req -> Seq(LegSet)] /\ CopiesCover'
    BY <1>12, <2>3, NextLegIInv DEF SetLimit, TypeOK, copies
  <2>5. TypeOK'
    BY <2>2, <2>3, <2>4 DEF TypeOK, db, copies, way
  <2>6. QED
    BY <2>4, <2>5
<1>13. ASSUME NEW r \in Req, SaveWholeUser(r) PROVE IInv'
  BY <1>13, EndIInv DEF SaveWholeUser, TypeOK, Replies
<1>14. ASSUME NEW r \in Req, Commit(r) PROVE IInv'
  <2>1. asset' \in AssetRow /\ money' \in Nat
    BY <1>14 DEF Commit, TypeOK, AssetRow
  <2>2. coinLog' \in Seq(LedgerRow) /\ manLog' \in Seq(LedgerRow)
    BY <1>14 DEF Commit, TypeOK
  <2>3. QED
    BY <1>14, <2>1, <2>2, EndIInv DEF Commit, Replies
<1>15. ASSUME NEW r \in Req, Deadlock(r) PROVE IInv'
  <2>1. UNCHANGED db
    BY <1>15 DEF Deadlock
  <2>2. CASE End(r, "error")
    BY <2>1, <2>2, EndIInv DEF TypeOK, db, Replies
  <2>3. CASE /\ GoesOn(r)
             /\ open' = [open EXCEPT ![r] = FALSE]
             /\ holder' = Released(r)
             /\ coinRows' = [coinRows EXCEPT ![r] = <<>>]
             /\ manRows' = [manRows EXCEPT ![r] = <<>>]
             /\ stage' = [stage EXCEPT ![r] = "row"]
             /\ UNCHANGED <<todo, copies, stray, unsaved, newAsset, newMoney, reply>>
    <3>1. \E q \in Req : WaitsFor(r, q)
      BY <1>15 DEF Deadlock
    <3>2. /\ todo[r] # <<>>
          /\ Head(todo[r]).kind = "coin" => read[r] + Head(todo[r]).amount >= 0
          /\ Head(todo[r]).kind = "man"  => user[r] + Head(todo[r]).amount >= 0
          /\ Head(todo[r]).kind \in {"coin", "man"}
      BY <2>3, <3>1, GoesOnCovered
    <3>3. holder' \in [Rows -> Req \cup {Nobody}] /\ open' \in [Req -> BOOLEAN]
      BY <2>3 DEF Released, TypeOK
    <3>4. coinRows' \in [Req -> Seq(LedgerRow)] /\ manRows' \in [Req -> Seq(LedgerRow)]
      <4>1. <<>> \in Seq(LedgerRow)
        OBVIOUS
      <4>2. QED
        BY <2>3, <4>1 DEF TypeOK
    <3>5. TypeOK'
      BY <2>1, <2>3, <3>3, <3>4 DEF TypeOK, db, copies, Stages
    <3>6. CopiesCover'
      BY <2>3, <3>2 DEF TypeOK, CopiesCover, Apart, copies, Stages
    <3>7. QED
      BY <3>5, <3>6
  <2>4. QED
    BY <1>15, <2>2, <2>3 DEF Deadlock
<1>16. ASSUME NEW r \in Req, LockWaitTimeout(r) PROVE IInv'
  <2>1. UNCHANGED db
    BY <1>16 DEF LockWaitTimeout
  <2>2. CASE ~GoesOn(r)
    BY <1>16, <2>1, <2>2, EndIInv DEF LockWaitTimeout, TypeOK, db, Replies
  <2>3. CASE GoesOn(r)
    <3>1. /\ todo[r] # <<>>
          /\ Head(todo[r]).kind = "coin" => read[r] + Head(todo[r]).amount >= 0
          /\ Head(todo[r]).kind = "man"  => user[r] + Head(todo[r]).amount >= 0
          /\ Head(todo[r]).kind \in {"coin", "man"}
      BY <1>16, <2>3, GoesOnCovered DEF LockWaitTimeout
    <3>2. /\ unsaved' = [unsaved EXCEPT ![r] = TRUE]
          /\ stage' = [stage EXCEPT ![r] = "row"]
          /\ UNCHANGED <<holder, todo, copies, open, stray, buffer, reply>>
      BY <1>16, <2>3 DEF LockWaitTimeout
    <3>3. TypeOK'
      BY <2>1, <3>2 DEF TypeOK, db, copies, buffer, Stages
    <3>4. CopiesCover'
      BY <3>1, <3>2 DEF TypeOK, CopiesCover, Apart, copies, Stages
    <3>5. QED
      BY <3>3, <3>4
  <2>4. QED
    BY <2>2, <2>3
<1>17. ASSUME NEW r \in Req, PayIncome(r) PROVE IInv'
  <2>1. /\ todo[r] # <<>> /\ Head(todo[r]).kind = "income"
        /\ stage' = [stage EXCEPT ![r] = "row"] /\ holder' = [holder EXCEPT !["user"] = r]
        /\ UNCHANGED <<db, todo, copies, way, newAsset, coinRows, manRows, reply>>
    BY <1>17 DEF PayIncome, CopiesCover
  <2>2. newMoney' \in [Req -> Nat]
    <3>1. PICK income \in {0, IncomeOf(money)} : newMoney' = [newMoney EXCEPT ![r] = money + income]
      BY <1>17 DEF PayIncome
    <3>2. money \in Nat /\ income \in Nat
      BY IncomeType DEF TypeOK
    <3>3. money + income \in Nat
      BY <3>2
    <3>4. QED
      BY <3>1, <3>3 DEF TypeOK
  <2>3. TypeOK'
    BY <2>1, <2>2 DEF TypeOK, db, copies, way, Stages, Rows
  <2>4. CopiesCover'
    BY <2>1 DEF TypeOK, CopiesCover, Apart, copies, way, Stages
  <2>5. QED
    BY <2>3, <2>4
<1>18. ASSUME NEW r \in Req, AddIncomeRow(r) PROVE IInv'
  <2> DEFINE row == Row(r, IncomeOf(newMoney[r]), newMoney[r])
  <2>1. row \in LedgerRow
    <3>1. newMoney[r] \in Nat
      BY DEF TypeOK
    <3>2. IncomeOf(newMoney[r]) \in Int /\ newMoney[r] + IncomeOf(newMoney[r]) >= 0
      BY <3>1, IncomeType
    <3>3. QED
      BY <3>1, <3>2, RowType
  <2>2. manRows' \in [Req -> Seq(LedgerRow)]
    <3> HIDE DEF row
    <3>1. Append(manRows[r], row) \in Seq(LedgerRow)
      BY <2>1 DEF TypeOK
    <3>2. manRows' = [manRows EXCEPT ![r] = Append(manRows[r], row)] \/ manRows' = manRows
      BY <1>18 DEF AddIncomeRow, row
    <3>3. QED
      BY <3>1, <3>2 DEF TypeOK
  <2>3. /\ stage' = [stage EXCEPT ![r] = "commit"]
        /\ UNCHANGED <<db, holder, todo, copies, way, newAsset, newMoney, coinRows, reply>>
    BY <1>18 DEF AddIncomeRow
  <2>4. TypeOK'
    BY <2>2, <2>3 DEF TypeOK, db, copies, way, Stages
  <2>5. CopiesCover'
    BY <2>3, OthersCovered DEF TypeOK, copies, way
  <2>6. QED
    BY <2>4, <2>5
<1>19. ASSUME NEW r \in Req, Crash(r) PROVE IInv'
  BY <1>19, EndIInv DEF Crash, TypeOK, db, Replies
<1>20. CASE UNCHANGED vars
  BY <1>20 DEF TypeOK, CopiesCover, Apart, vars, db, copies, way, buffer
<1>21. QED
  BY <1>1, <1>2, <1>3, <1>6, <1>7, <1>8, <1>9, <1>10, <1>11, <1>12, <1>13,
     <1>14, <1>15, <1>19, <1>20, <1>4, <1>5, <1>16, <1>17, <1>18 DEF Next, Step, AllServed

LEMMA InitIInv == Init => IInv
  BY WalletAssumption DEF Init, IInv, TypeOK, CopiesCover, Apart, Stages, Replies, Rows, AssetRow

\* The handlers keep the types, and no copy of a balance is ever saved negative.
THEOREM WalletTypeOK == Spec => []TypeOK
<1>1. IInv => TypeOK
  BY DEF IInv
<1>2. QED
  BY InitIInv, StepIInv, <1>1, PTL DEF Spec

\* For every mix of handlers, amounts and crashes, neither wallet goes into debt
\* and no ledger row says that it did: what UpdateCoinAssetsBalance and
\* UpdateCmBalance check is enough for that even when their copies are stale.
THEOREM WalletNeverOverdrawn == Spec => []NeverOverdrawn
<1>1. IInv => NeverOverdrawn
  <2> SUFFICES ASSUME IInv PROVE NeverOverdrawn
    OBVIOUS
  <2>1. \A i \in 1..Len(coinLog) : coinLog[i] \in LedgerRow
    BY DEF IInv, TypeOK
  <2>2. \A i \in 1..Len(manLog) : manLog[i] \in LedgerRow
    BY DEF IInv, TypeOK
  <2>3. \A row \in LedgerRow : row.after >= 0
    BY DEF LedgerRow
  <2>4. Balance(asset) >= 0 /\ money >= 0
    BY DEF IInv, TypeOK, Balance, AssetRow
  <2>5. QED
    BY <2>1, <2>2, <2>3, <2>4 DEF NeverOverdrawn
<1>2. QED
  BY InitIInv, StepIInv, <1>1, PTL DEF Spec
-----------------------------------------------------------------------------
\* The asset row and its ledger.  A request that holds the asset row has saved
\* a balance and either has inserted the ledger row that says so or is about to,
\* unless its statements commit apart or go to a second row.
AboutToBook(r) == stage[r] = "row" /\ Head(todo[r]).kind = "coin"

AssetBooked(r) ==
  /\ stage[r] \in {"idle", "done", "precheck", "whole"} => holder["asset"] # r
  /\ AboutToBook(r) => /\ holder["asset"] = r
                       /\ newAsset[r] = read[r] + Head(todo[r]).amount
  /\ holder["asset"] # r => coinRows[r] = <<>>
  /\ holder["asset"] = r /\ ~AboutToBook(r) =>
       coinRows[r] # <<>> /\ coinRows[r][Len(coinRows[r])].after = newAsset[r]

AInv ==
  \A r \in Req :
    /\ ~Apart(r) /\ ~stray[r] => AssetBooked(r)
    /\ stage[r] = "create" /\ stray[r] => Apart(r)

\* What a step of r leaves alone of another request.
Spared(q) ==
  /\ stage'[q] = stage[q] /\ todo'[q] = todo[q] /\ open'[q] = open[q]
  /\ stray'[q] = stray[q] /\ unsaved'[q] = unsaved[q]
  /\ read'[q] = read[q] /\ newAsset'[q] = newAsset[q] /\ coinRows'[q] = coinRows[q]
  /\ holder'["asset"] = q <=> holder["asset"] = q

LEMMA OthersBooked ==
  ASSUME AInv, NEW r \in Req, \A q \in Req \ {r} : Spared(q),
         ~Apart(r)' /\ ~stray'[r] => AssetBooked(r)',
         stage'[r] = "create" /\ stray'[r] => Apart(r)'
  PROVE  AInv'
<1>1. ASSUME NEW q \in Req \ {r}
      PROVE  /\ ~Apart(q)' /\ ~stray'[q] => AssetBooked(q)'
             /\ stage'[q] = "create" /\ stray'[q] => Apart(q)'
  BY DEF AInv, Spared, Apart, AssetBooked, AboutToBook
<1>2. QED
  BY <1>1 DEF AInv

\* A statement about something else leaves the asset row and its ledger alone.
LEMMA StillBooked ==
  ASSUME NEW r \in Req, AssetBooked(r), ~AboutToBook(r), ~AboutToBook(r)',
         newAsset'[r] = newAsset[r], coinRows'[r] = coinRows[r],
         holder'["asset"] = r <=> holder["asset"] = r,
         stage[r] \in {"idle", "precheck", "whole"} \/ stage'[r] \notin {"idle", "done", "precheck", "whole"}
  PROVE  AssetBooked(r)'
  BY DEF AssetBooked

\* The end of a handler leaves no row locked and nothing inserted.
LEMMA EndBooked ==
  ASSUME IInv, AInv, NEW r \in Req, NEW answer \in Replies, End(r, answer)
  PROVE  AInv'
<1>1. holder'["asset"] = IF holder["asset"] = r THEN Nobody ELSE holder["asset"]
  BY DEF End, Released, Rows
<1>2. stage'[r] = "done" /\ coinRows'[r] = <<>> /\ holder'["asset"] # r
  BY <1>1, WalletAssumption DEF End, IInv, TypeOK
<1>3. AssetBooked(r)'
  BY <1>2 DEF AssetBooked, AboutToBook
<1>4. ASSUME NEW q \in Req \ {r} PROVE Spared(q)
  <2>1. /\ stage'[q] = stage[q] /\ todo'[q] = todo[q] /\ coinRows'[q] = coinRows[q]
        /\ read'[q] = read[q] /\ newAsset'[q] = newAsset[q]
        /\ stray'[q] = stray[q] /\ unsaved'[q] = unsaved[q] /\ open'[q] = open[q]
    BY DEF End, IInv, TypeOK
  <2>2. holder'["asset"] = q <=> holder["asset"] = q
    BY <1>1, WalletAssumption
  <2>3. QED
    BY <2>1, <2>2 DEF Spared
<1>5. QED
  BY <1>2, <1>3, <1>4, OthersBooked

\* So does a statement elsewhere that does not change what the request is.
LEMMA ElsewhereBooked ==
  ASSUME IInv, AInv, NEW r \in Req,
         UNCHANGED <<read, newAsset, coinRows, way>>, holder'["asset"] = holder["asset"],
         \A q \in Req \ {r} : stage'[q] = stage[q] /\ todo'[q] = todo[q],
         ~AboutToBook(r), ~AboutToBook(r)', stage'[r] # "create",
         stage[r] \in {"idle", "precheck", "whole"} \/ stage'[r] \notin {"idle", "done", "precheck", "whole"}
  PROVE  AInv'
<1>1. \A q \in Req \ {r} : Spared(q)
  BY DEF Spared, way
<1>2. ~Apart(r)' /\ ~stray'[r] => AssetBooked(r)'
  <2>1. ~Apart(r)' /\ ~stray'[r] => AssetBooked(r)
    BY DEF AInv, Apart, way
  <2>2. QED
    BY <2>1, StillBooked
<1>3. QED
  BY <1>1, <1>2, OthersBooked

\* The decision on a leg: it books nothing yet, and its copy may be of another row.
LEMMA DecideBooked ==
  ASSUME IInv, AInv, NEW r \in Req, NEW balance, NEW astray \in BOOLEAN,
         stage[r] \in {"leg", "create"}, Decide(r, balance, astray),
         ~Apart(r) /\ ~astray => ~stray[r]
  PROVE  AInv'
<1>1. CASE NextLeg(r) /\ UNCHANGED <<holder, read, way, buffer, reply>>
  <2>1. /\ stage'[r] \in {"leg", "commit"}
        /\ \A q \in Req \ {r} : stage'[q] = stage[q] /\ todo'[q] = todo[q]
    BY <1>1 DEF NextLeg, IInv, TypeOK
  <2>2. QED
    BY <1>1, <2>1, ElsewhereBooked DEF AboutToBook, buffer
<1>2. CASE /\ read' = [read EXCEPT ![r] = balance]
           /\ stray' = [stray EXCEPT ![r] = astray]
           /\ stage' = [stage EXCEPT ![r] = "save"]
           /\ UNCHANGED <<holder, todo, open, unsaved, buffer, reply>>
  <2>1. \A q \in Req \ {r} : Spared(q)
    BY <1>2 DEF Spared, buffer, IInv, TypeOK
  <2>2. stage'[r] = "save" /\ stray'[r] = astray
    BY <1>2 DEF IInv, TypeOK
  <2>3. ~Apart(r)' /\ ~stray'[r] => AssetBooked(r)'
    <3>1. ~Apart(r)' /\ ~stray'[r] => AssetBooked(r)
      BY <1>2, <2>2 DEF AInv, Apart
    <3>2. QED
      BY <1>2, <2>2, <3>1, StillBooked DEF AboutToBook, buffer
  <2>4. QED
    BY <2>1, <2>2, <2>3, OthersBooked
<1>3. QED
  BY <1>1, <1>2 DEF Decide

LEMMA StepAInv == IInv /\ AInv /\ [Next]_vars => AInv'
<1> SUFFICES ASSUME IInv, AInv, [Next]_vars PROVE AInv'
  OBVIOUS
<1>1. ASSUME NEW r \in Req, Arrive(r) PROVE AInv'
  <2>1. PICK op \in Ops, a \in Amounts, x \in Extras : Accept(r, op, a, x)
    BY <1>1 DEF Arrive
  <2>2. UNCHANGED <<newAsset, coinRows, holder, read, stray, unsaved>>
    BY <2>1 DEF Accept, buffer
  <2>3. \A q \in Req \ {r} : stage'[q] = stage[q] /\ todo'[q] = todo[q] /\ open'[q] = open[q]
    BY <2>1 DEF Accept, IInv, TypeOK
  <2>4. stage[r] = "idle" /\ stage'[r] \in {"precheck", "whole", "leg"}
    BY <1>1, <2>1 DEF Arrive, Accept, FirstStage, IInv, TypeOK
  <2>5. AssetBooked(r)
    BY <2>4 DEF AInv, IInv, CopiesCover
  <2>6. AssetBooked(r)'
    BY <2>2, <2>4, <2>5, StillBooked DEF AboutToBook
  <2>7. \A q \in Req \ {r} : Spared(q)
    BY <2>2, <2>3 DEF Spared
  <2>8. QED
    BY <2>4, <2>6, <2>7, OthersBooked
<1>2. ASSUME NEW r \in Req, BalanceCheck(r) PROVE AInv'
  <2>1. CASE End(r, "error")
    BY <2>1, EndBooked DEF Replies
  <2>2. CASE /\ stage' = [stage EXCEPT ![r] = "leg"]
             /\ UNCHANGED <<holder, todo, copies, way, buffer, reply>>
    <3>1. stage[r] = "precheck" /\ UNCHANGED <<newAsset, coinRows, holder, read, todo, way>>
      BY <1>2, <2>2 DEF BalanceCheck, buffer, copies
    <3>2. stage'[r] = "leg" /\ \A q \in Req \ {r} : stage'[q] = stage[q]
      BY <2>2 DEF IInv, TypeOK
    <3>3. QED
      BY <3>1, <3>2, ElsewhereBooked DEF AboutToBook
  <2>3. QED
    BY <1>2, <2>1, <2>2 DEF BalanceCheck
<1>3. ASSUME NEW r \in Req, ReadAsset(r) PROVE AInv'
  <2>1. stage[r] = "leg" /\ stray[r] \in BOOLEAN /\ open[r] \in BOOLEAN
    BY <1>3 DEF ReadAsset, IInv, TypeOK
  <2>2. CASE /\ View(r) = NoRow
             /\ stage' = [stage EXCEPT ![r] = "create"]
             /\ UNCHANGED <<holder, todo, read, way, buffer, reply>>
    <3>1. \A q \in Req \ {r} : Spared(q)
      BY <2>2 DEF Spared, way, buffer, IInv, TypeOK
    <3>2. stage'[r] = "create"
      BY <2>2 DEF IInv, TypeOK
    <3>3. ~Apart(r)' /\ ~stray'[r] => AssetBooked(r)'
      <4>1. ~Apart(r)' /\ ~stray'[r] => AssetBooked(r)
        BY <2>2 DEF AInv, Apart, way
      <4>2. QED
        BY <2>1, <2>2, <3>2, <4>1, StillBooked DEF AboutToBook, buffer
    <3>4. stray'[r] => Apart(r)'
      <4>1. open[r] /\ stray[r] => View(r) \in Nat
        BY DEF View, IInv, TypeOK
      <4>2. NoRow \notin Nat
        BY DEF NoRow
      <4>3. QED
        BY <2>2, <4>1, <4>2 DEF Apart, way
    <3>5. QED
      BY <3>1, <3>3, <3>4, OthersBooked
  <2>3. CASE Decide(r, View(r), stray[r] /\ open[r])
    <3>1. ~Apart(r) /\ ~(stray[r] /\ open[r]) => ~stray[r]
      BY DEF Apart
    <3>2. (stray[r] /\ open[r]) \in BOOLEAN
      OBVIOUS
    <3>3. QED
      BY <2>1, <2>3, <3>1, <3>2, DecideBooked
  <2>4. QED
    BY <1>3, <2>2, <2>3 DEF ReadAsset
<1>4. ASSUME NEW r \in Req, CreateRow(r) PROVE AInv'
  <2>1. stage[r] = "create" /\ Decide(r, 0, asset # NoRow) /\ (asset # NoRow) \in BOOLEAN
    BY <1>4 DEF CreateRow
  <2>2. ~Apart(r) => ~stray[r]
    BY <2>1 DEF AInv
  <2>3. QED
    BY <2>1, <2>2, DecideBooked
<1>5. ASSUME NEW r \in Req, SaveAsset(r) PROVE AInv'
  <2> DEFINE balance == read[r] + Head(todo[r]).amount
  <2>1. /\ stage' = [stage EXCEPT ![r] = "row"]
        /\ UNCHANGED <<coinRows, todo, read, way>>
        /\ newAsset' \in {newAsset, [newAsset EXCEPT ![r] = balance]}
        /\ \/ UNCHANGED holder
           \/ holder' = [holder EXCEPT !["asset"] = r] /\ holder["asset"] \in {Nobody, r}
    BY <1>5 DEF SaveAsset, Free, copies
  <2>2. ASSUME NEW q \in Req \ {r} PROVE Spared(q)
    <3>1. holder'["asset"] = q <=> holder["asset"] = q
      BY <2>1, WalletAssumption DEF IInv, TypeOK, Rows
    <3>2. stage'[q] = stage[q] /\ newAsset'[q] = newAsset[q]
      BY <2>1 DEF IInv, TypeOK
    <3>3. QED
      BY <2>1, <3>1, <3>2 DEF Spared, way
  <2>3. stage'[r] = "row" /\ stage[r] = "save" /\ Head(todo[r]).kind = "coin"
    BY <1>5, <2>1 DEF SaveAsset, IInv, TypeOK, CopiesCover
  <2>4. ~Apart(r)' /\ ~stray'[r] => AssetBooked(r)'
    <3>1. SUFFICES ASSUME open[r], ~stray[r] PROVE AssetBooked(r)'
      BY <2>1 DEF Apart, way
    <3>2. /\ holder' = [holder EXCEPT !["asset"] = r]
          /\ newAsset' = [newAsset EXCEPT ![r] = balance]
      BY <1>5, <3>1 DEF SaveAsset
    <3>3. holder'["asset"] = r /\ newAsset'[r] = balance
      BY <3>2 DEF IInv, TypeOK, Rows
    <3>4. QED
      BY <2>1, <2>3, <3>3 DEF AssetBooked, AboutToBook
  <2>5. QED
    BY <2>2, <2>3, <2>4, OthersBooked
<1>6. ASSUME NEW r \in Req, AddCoinRow(r) PROVE AInv'
  <2> DEFINE row == Row(r, Head(todo[r]).amount, read[r])
  <2>1. /\ UNCHANGED <<holder, newAsset, read, way>> /\ NextLeg(r) /\ AboutToBook(r)
        /\ coinRows' \in {coinRows, [coinRows EXCEPT ![r] = Append(coinRows[r], row)]}
        /\ open[r] => coinRows' = [coinRows EXCEPT ![r] = Append(coinRows[r], row)]
    BY <1>6 DEF AddCoinRow, copies, AboutToBook
  <2>2. row.after = read[r] + Head(todo[r]).amount
    BY DEF Row
  <2> HIDE DEF row
  <2>3. /\ stage'[r] \in {"leg", "commit"}
        /\ \A q \in Req \ {r} : stage'[q] = stage[q] /\ todo'[q] = todo[q] /\ coinRows'[q] = coinRows[q]
    BY <2>1 DEF NextLeg, IInv, TypeOK
  <2>4. \A q \in Req \ {r} : Spared(q)
    BY <2>1, <2>3 DEF Spared, way
  <2>5. ~Apart(r)' /\ ~stray'[r] => AssetBooked(r)'
    <3>1. SUFFICES ASSUME ~Apart(r), ~stray[r] PROVE AssetBooked(r)'
      BY <2>1 DEF Apart, way
    <3>2. open[r] /\ AssetBooked(r)
      BY <3>1 DEF Apart, AInv
    <3>3. row.after = newAsset[r] /\ holder["asset"] = r
      BY <2>1, <2>2, <3>2 DEF AssetBooked
    <3>4. coinRows'[r] = Append(coinRows[r], row) /\ coinRows[r] \in Seq(LedgerRow)
      BY <2>1, <3>2 DEF IInv, TypeOK
    <3>5. coinRows'[r] # <<>> /\ coinRows'[r][Len(coinRows'[r])] = row
      BY <3>4
    <3>6. QED
      BY <2>1, <2>3, <3>3, <3>5 DEF AssetBooked, AboutToBook
  <2>6. QED
    BY <2>3, <2>4, <2>5, OthersBooked
<1>7. ASSUME NEW r \in Req, SaveMoney(r) \/ PayIncome(r) PROVE AInv'
  <2>1. UNCHANGED <<newAsset, coinRows, todo, read, way>> /\ stage[r] = "leg"
    BY <1>7 DEF SaveMoney, PayIncome, copies
  <2>2. holder'["asset"] = holder["asset"]
    BY <1>7 DEF SaveMoney, PayIncome, IInv, TypeOK, Rows
  <2>3. stage'[r] = "row" /\ \A q \in Req \ {r} : stage'[q] = stage[q]
    BY <1>7 DEF SaveMoney, PayIncome, IInv, TypeOK
  <2>4. Head(todo[r]).kind # "coin"
    BY <1>7 DEF SaveMoney, PayIncome
  <2>5. QED
    BY <2>1, <2>2, <2>3, <2>4, ElsewhereBooked DEF AboutToBook
<1>8. ASSUME NEW r \in Req, AddManRow(r) \/ RereadUser(r) \/ SetLimit(r) PROVE AInv'
  <2>1. UNCHANGED <<newAsset, coinRows, read, way>> /\ NextLeg(r)
    BY <1>8 DEF AddManRow, RereadUser, SetLimit, copies, buffer
  <2>2. holder'["asset"] = holder["asset"]
    BY <1>8 DEF AddManRow, RereadUser, SetLimit, IInv, TypeOK, Rows
  <2>3. ~AboutToBook(r) /\ stage[r] \in {"row", "leg"}
    BY <1>8 DEF AddManRow, RereadUser, SetLimit, AboutToBook
  <2>4. /\ stage'[r] \in {"leg", "commit"}
        /\ \A q \in Req \ {r} : stage'[q] = stage[q] /\ todo'[q] = todo[q]
    BY <2>1 DEF NextLeg, IInv, TypeOK
  <2>5. QED
    BY <2>1, <2>2, <2>3, <2>4, ElsewhereBooked DEF AboutToBook
<1>9. ASSUME NEW r \in Req, AddIncomeRow(r) PROVE AInv'
  <2>1. /\ UNCHANGED <<newAsset, coinRows, read, way, holder, todo>>
        /\ stage' = [stage EXCEPT ![r] = "commit"] /\ ~AboutToBook(r)
    BY <1>9 DEF AddIncomeRow, copies, AboutToBook
  <2>2. stage'[r] = "commit" /\ \A q \in Req \ {r} : stage'[q] = stage[q]
    BY <2>1 DEF IInv, TypeOK
  <2>3. QED
    BY <2>1, <2>2, ElsewhereBooked DEF AboutToBook
<1>10. ASSUME NEW r \in Req, Deadlock(r) PROVE AInv'
  <2>1. CASE End(r, "error")
    BY <2>1, EndBooked DEF Replies
  <2>2. CASE /\ open' = [open EXCEPT ![r] = FALSE]
             /\ holder' = Released(r)
             /\ coinRows' = [coinRows EXCEPT ![r] = <<>>]
             /\ stage' = [stage EXCEPT ![r] = "row"]
             /\ UNCHANGED <<todo, copies, stray, unsaved, newAsset, newMoney, reply>>
    <3>1. ASSUME NEW q \in Req \ {r} PROVE Spared(q)
      <4>1. holder'["asset"] = q <=> holder["asset"] = q
        BY <2>2, WalletAssumption DEF Released, Rows
      <4>2. stage'[q] = stage[q] /\ coinRows'[q] = coinRows[q] /\ open'[q] = open[q]
        BY <2>2 DEF IInv, TypeOK
      <4>3. QED
        BY <2>2, <4>1, <4>2 DEF Spared, copies
    <3>2. Apart(r)'
      BY <2>2 DEF Apart, IInv, TypeOK
    <3>3. QED
      BY <3>1, <3>2, OthersBooked
  <2>3. QED
    BY <1>10, <2>1, <2>2 DEF Deadlock
<1>11. ASSUME NEW r \in Req, LockWaitTimeout(r) PROVE AInv'
  <2>1. CASE \E answer \in Replies : End(r, answer)
    BY <2>1, EndBooked
  <2>2. CASE /\ unsaved' = [unsaved EXCEPT ![r] = TRUE]
             /\ stage' = [stage EXCEPT ![r] = "row"]
             /\ UNCHANGED <<holder, todo, copies, open, stray, buffer, reply>>
    <3>1. \A q \in Req \ {r} : Spared(q)
      BY <2>2 DEF Spared, copies, buffer, IInv, TypeOK
    <3>2. Apart(r)'
      BY <2>2 DEF Apart, IInv, TypeOK
    <3>3. QED
      BY <3>1, <3>2, OthersBooked
  <2>3. QED
    BY <1>11, <2>1, <2>2 DEF LockWaitTimeout, Replies
<1>12. ASSUME NEW r \in Req,
              RefuseAsset(r) \/ RefuseMoney(r) \/ SaveWholeUser(r) \/ Commit(r) \/ Crash(r)
       PROVE  AInv'
  BY <1>12, EndBooked DEF RefuseAsset, RefuseMoney, SaveWholeUser, Commit, Crash, Replies
<1>13. CASE UNCHANGED vars
  BY <1>13 DEF vars, copies, way, buffer, AInv, Apart, AssetBooked, AboutToBook
<1>14. QED
  BY <1>1, <1>2, <1>3, <1>4, <1>5, <1>6, <1>7, <1>8, <1>9, <1>10, <1>11, <1>12, <1>13
     DEF Next, Step, AllServed

\* A row that is created counts as the empty balance that a missing one stands for.
LEMMA CreateKeepsBalance ==
  ASSUME NEW r \in Req, CreateRow(r) \/ RefuseAsset(r)
  PROVE  Balance(asset)' = Balance(asset) /\ UNCHANGED <<money, coinLog, manLog>>
  BY DEF CreateRow, RefuseAsset, Balance, NoRow

LEMMA ConcatLast ==
  ASSUME NEW log \in Seq(LedgerRow), NEW rows \in Seq(LedgerRow), NEW start
  PROVE  LastAfter(log \o rows, start) = IF rows = <<>> THEN LastAfter(log, start)
                                         ELSE rows[Len(rows)].after
<1>1. CASE rows = <<>>
  BY <1>1
<1>2. CASE rows # <<>>
  <2>1. Len(rows) > 0 /\ Len(log \o rows) = Len(log) + Len(rows)
    BY <1>2
  <2>2. (log \o rows)[Len(log \o rows)] = rows[Len(rows)] /\ log \o rows # <<>>
    BY <2>1
  <2>3. QED
    BY <1>2, <2>2 DEF LastAfter
<1>3. QED
  BY <1>1, <1>2

LEMMA StepAssetFollows ==
  ASSUME IInv, AInv, [Next]_vars
  PROVE  [ \/ UNCHANGED <<Balance(asset), coinLog>>
           \/ Balance(asset') = LastAfter(coinLog', Balance(Asset0))
           \/ \E r \in Moved : Apart(r) \/ stray[r] ]_vars
<1> DEFINE Good == \/ UNCHANGED <<Balance(asset), coinLog>>
                   \/ Balance(asset') = LastAfter(coinLog', Balance(Asset0))
                   \/ \E r \in Moved : Apart(r) \/ stray[r]
<1> HIDE DEF Good
<1>1. ASSUME UNCHANGED <<asset, coinLog>> PROVE Good
  BY <1>1 DEF Good, Balance
<1>2. ASSUME NEW r \in Req, CreateRow(r) \/ RefuseAsset(r) PROVE Good
  BY <1>2, CreateKeepsBalance DEF Good
<1>3. ASSUME NEW r \in Req, SaveAsset(r) PROVE Good
  <2>1. CASE open[r] \/ stray[r]
    BY <1>1, <1>3, <2>1 DEF SaveAsset, Good, Moved, IInv, TypeOK
  <2>2. CASE ~open[r]
    <3>1. stage[r] = "save" /\ stage'[r] = "row"
      BY <1>3 DEF SaveAsset, IInv, TypeOK
    <3>2. QED
      BY <2>2, <3>1 DEF Good, Moved, Apart
  <2>3. QED
    BY <2>1, <2>2
<1>4. ASSUME NEW r \in Req, AddCoinRow(r) PROVE Good
  <2>1. CASE open[r]
    BY <1>1, <1>4, <2>1 DEF AddCoinRow
  <2>2. CASE ~open[r]
    <3>1. stage[r] = "row" /\ stage'[r] \in {"leg", "commit"}
      BY <1>4 DEF AddCoinRow, NextLeg, IInv, TypeOK
    <3>2. QED
      BY <2>2, <3>1 DEF Good, Moved, Apart
  <2>3. QED
    BY <2>1, <2>2
<1>5. ASSUME NEW r \in Req, Commit(r) PROVE Good
  <2>1. /\ stage[r] = "commit" /\ coinLog' = coinLog \o coinRows[r]
        /\ asset' = IF holder["asset"] = r THEN newAsset[r] ELSE asset
    BY <1>5 DEF Commit
  <2>2. stage'[r] = "done"
    BY <1>5 DEF Commit, End, IInv, TypeOK
  <2>3. CASE Apart(r) \/ stray[r]
    BY <2>1, <2>2, <2>3 DEF Good, Moved
  <2>4. CASE ~Apart(r) /\ ~stray[r]
    <3>1. AssetBooked(r) /\ ~AboutToBook(r) /\ newAsset[r] \in Nat
      BY <2>1, <2>4 DEF AInv, AboutToBook, IInv, TypeOK
    <3>2. coinLog \in Seq(LedgerRow) /\ coinRows[r] \in Seq(LedgerRow)
      BY DEF IInv, TypeOK
    <3>3. CASE holder["asset"] # r
      <4>1. coinRows[r] = <<>> /\ asset' = asset
        BY <2>1, <3>1, <3>3 DEF AssetBooked
      <4>2. coinLog' = coinLog
        BY <2>1, <3>2, <4>1
      <4>3. QED
        BY <1>1, <4>1, <4>2
    <3>4. CASE holder["asset"] = r
      <4>1. coinRows[r] # <<>> /\ coinRows[r][Len(coinRows[r])].after = newAsset[r]
        BY <3>1, <3>4 DEF AssetBooked
      <4>2. LastAfter(coinLog', Balance(Asset0)) = newAsset[r]
        BY <2>1, <3>2, <4>1, ConcatLast
      <4>3. Balance(asset') = newAsset[r]
        BY <2>1, <3>1, <3>4 DEF Balance, NoRow
      <4>4. QED
        BY <4>2, <4>3 DEF Good
    <3>5. QED
      BY <3>3, <3>4
  <2>5. QED
    BY <2>3, <2>4
<1>6. ASSUME UNCHANGED db PROVE Good
  BY <1>1, <1>6 DEF db
<1>7. ASSUME NEW r \in Req, Arrive(r) \/ BalanceCheck(r) \/ ReadAsset(r) \/ RefuseMoney(r)
                            \/ RereadUser(r) \/ SetLimit(r) \/ PayIncome(r) \/ AddIncomeRow(r)
      PROVE  UNCHANGED db
  BY <1>7 DEF Arrive, Accept, BalanceCheck, ReadAsset, RefuseMoney, RereadUser, SetLimit,
              PayIncome, AddIncomeRow
<1>8. ASSUME NEW r \in Req, Deadlock(r) \/ LockWaitTimeout(r) \/ Crash(r) PROVE UNCHANGED db
  BY <1>8 DEF Deadlock, LockWaitTimeout, Crash
<1>9. ASSUME NEW r \in Req, SaveMoney(r) \/ AddManRow(r) \/ SaveWholeUser(r) PROVE Good
  BY <1>1, <1>9 DEF SaveMoney, AddManRow, SaveWholeUser
<1>10. Good \/ UNCHANGED vars
  BY <1>2, <1>3, <1>4, <1>5, <1>6, <1>7, <1>8, <1>9 DEF Next, Step, AllServed
<1>11. QED
  BY <1>10 DEF Good

LEMMA InitAInv == Init => AInv
  BY WalletAssumption DEF Init, AInv, Apart, AssetBooked, AboutToBook, Rows

\* Whatever overlaps, is refused or crashes, a step that changes the USDT balance or
\* its ledger leaves the balance that the newest UserCoinChange row states, unless
\* the request that takes the step writes outside a transaction, went on after its
\* save had failed, or writes a second asset row.
THEOREM WalletAssetFollowsLedger == Spec => AssetFollowsLedger
<1>1. IInv /\ AInv /\ [Next]_vars =>
        [ \/ UNCHANGED <<Balance(asset), coinLog>>
          \/ Balance(asset') = LastAfter(coinLog', Balance(Asset0))
          \/ \E r \in Moved : Apart(r) \/ stray[r] ]_vars
  BY StepAssetFollows
<1>2. QED
  BY InitIInv, InitAInv, StepIInv, StepAInv, <1>1, PTL DEF Spec, AssetFollowsLedger
-----------------------------------------------------------------------------
\* Who has left what: a committed row is of a request that was told "ok" and is then
\* at its end, or of one without a transaction; a row that is not committed is of
\* the request whose transaction has inserted it.
Shown(q) == reply[q] = "ok" \/ ~open[q]
OnlyShown(log) == \A i \in 1..Len(log) : Shown(log[i].by)
OnlyOwn(rows, r) == \A i \in 1..Len(rows) : rows[i].by = r
RowsOf(r) ==
  /\ reply[r] = "ok" => stage[r] = "done"
  /\ OnlyOwn(coinRows[r], r) /\ OnlyOwn(manRows[r], r)

DInv == OnlyShown(coinLog) /\ OnlyShown(manLog) /\ \A r \in Req : RowsOf(r)

LEMMA AppendOwn ==
  ASSUME NEW r \in Req, NEW rows \in Seq(LedgerRow), NEW row \in LedgerRow,
         OnlyOwn(rows, r), row.by = r
  PROVE  OnlyOwn(Append(rows, row), r)
<1>1. /\ Len(Append(rows, row)) = Len(rows) + 1 /\ Len(rows) \in Nat
      /\ \A i \in 1..Len(rows) : Append(rows, row)[i] = rows[i]
      /\ Append(rows, row)[Len(rows) + 1] = row
  OBVIOUS
<1>2. \A i \in 1..(Len(rows) + 1) : i \in 1..Len(rows) \/ i = Len(rows) + 1
  BY <1>1
<1>3. QED
  BY <1>1, <1>2 DEF OnlyOwn

\* What is shown stays shown, and rows of a request that now is may follow.
LEMMA StaysShown ==
  ASSUME NEW log \in Seq(LedgerRow), OnlyShown(log),
         \A q \in Req : Shown(q) => reply'[q] = "ok" \/ ~open'[q]
  PROVE  \A i \in 1..Len(log) : reply'[log[i].by] = "ok" \/ ~open'[log[i].by]
<1>1. SUFFICES ASSUME NEW i \in 1..Len(log)
               PROVE  reply'[log[i].by] = "ok" \/ ~open'[log[i].by]
  OBVIOUS
<1>2. log[i] \in LedgerRow
  OBVIOUS
<1>3. log[i].by \in Req /\ Shown(log[i].by)
  BY <1>2 DEF OnlyShown, LedgerRow
<1>4. QED
  BY <1>3

LEMMA ConcatShown ==
  ASSUME NEW r \in Req, NEW log \in Seq(LedgerRow), NEW rows \in Seq(LedgerRow),
         reply'[r] = "ok" \/ ~open'[r], OnlyOwn(rows, r), OnlyShown(log),
         \A q \in Req : Shown(q) => reply'[q] = "ok" \/ ~open'[q]
  PROVE  \A i \in 1..Len(log \o rows) :
           reply'[(log \o rows)[i].by] = "ok" \/ ~open'[(log \o rows)[i].by]
<1>1. SUFFICES ASSUME NEW i \in 1..Len(log \o rows)
               PROVE  reply'[(log \o rows)[i].by] = "ok" \/ ~open'[(log \o rows)[i].by]
  OBVIOUS
<1>2. \/ i \in 1..Len(log) /\ (log \o rows)[i] = log[i]
      \/ i - Len(log) \in 1..Len(rows) /\ (log \o rows)[i] = rows[i - Len(log)]
  OBVIOUS
<1>3. CASE i \in 1..Len(log) /\ (log \o rows)[i] = log[i]
  BY <1>3, StaysShown
<1>4. CASE i - Len(log) \in 1..Len(rows) /\ (log \o rows)[i] = rows[i - Len(log)]
  BY <1>4 DEF OnlyOwn
<1>5. QED
  BY <1>2, <1>3, <1>4

LEMMA AppendShown ==
  ASSUME NEW log \in Seq(LedgerRow), NEW row \in LedgerRow, OnlyShown(log), Shown(row.by)
  PROVE  OnlyShown(Append(log, row))
<1>1. /\ Len(Append(log, row)) = Len(log) + 1 /\ Len(log) \in Nat
      /\ \A i \in 1..Len(log) : Append(log, row)[i] = log[i]
      /\ Append(log, row)[Len(log) + 1] = row
  OBVIOUS
<1>2. \A i \in 1..(Len(log) + 1) : i \in 1..Len(log) \/ i = Len(log) + 1
  BY <1>1
<1>3. QED
  BY <1>1, <1>2 DEF OnlyShown

LEMMA StepDInv == IInv /\ DInv /\ [Next]_vars => DInv'
<1> SUFFICES ASSUME IInv, DInv, [Next]_vars PROVE DInv'
  OBVIOUS
\* A step that commits nothing, and takes nothing back that is shown.
<1>1. ASSUME UNCHANGED <<coinLog, manLog>>,
             \A q \in Req : Shown(q) => reply'[q] = "ok" \/ ~open'[q],
             \A q \in Req : RowsOf(q)'
      PROVE  DInv'
  <2>1. coinLog \in Seq(LedgerRow) /\ manLog \in Seq(LedgerRow)
    BY DEF IInv, TypeOK
  <2>2. /\ \A i \in 1..Len(coinLog) : reply'[coinLog[i].by] = "ok" \/ ~open'[coinLog[i].by]
        /\ \A i \in 1..Len(manLog) : reply'[manLog[i].by] = "ok" \/ ~open'[manLog[i].by]
    BY <1>1, <2>1, StaysShown DEF DInv
  <2>3. QED
    BY <1>1, <2>2 DEF DInv, OnlyShown, Shown
\* A statement that neither commits nor ends the handler.
<1>2. ASSUME NEW r \in Req, stage[r] # "done", UNCHANGED <<coinLog, manLog, reply, open>>,
             \A q \in Req \ {r} : /\ stage'[q] = stage[q]
                                  /\ coinRows'[q] = coinRows[q] /\ manRows'[q] = manRows[q],
             OnlyOwn(coinRows'[r], r), OnlyOwn(manRows'[r], r)
      PROVE  DInv'
  <2>1. ASSUME NEW q \in Req PROVE RowsOf(q)'
    BY <1>2 DEF DInv, RowsOf, OnlyOwn
  <2>2. QED
    BY <1>1, <1>2, <2>1 DEF Shown
\* So does one that inserts no row.
<1>3. ASSUME NEW r \in Req, stage[r] # "done",
             UNCHANGED <<coinLog, manLog, reply, open, coinRows, manRows>>,
             \A q \in Req \ {r} : stage'[q] = stage[q]
      PROVE  DInv'
  <2>1. OnlyOwn(coinRows'[r], r) /\ OnlyOwn(manRows'[r], r)
    BY <1>3 DEF DInv, RowsOf
  <2>2. QED
    BY <1>2, <1>3, <2>1
\* The end of a handler that has not ended yet: the reply of nobody else changes.
<1>4. ASSUME NEW r \in Req, NEW answer \in Replies, End(r, answer), stage[r] # "done"
      PROVE  /\ \A q \in Req : Shown(q) => reply'[q] = "ok" \/ ~open'[q]
             /\ \A q \in Req : RowsOf(q)'
             /\ reply'[r] = answer
  <2>1. /\ stage' = [stage EXCEPT ![r] = "done"] /\ reply' = [reply EXCEPT ![r] = answer]
        /\ coinRows' = [coinRows EXCEPT ![r] = <<>>] /\ manRows' = [manRows EXCEPT ![r] = <<>>]
        /\ UNCHANGED open
    BY <1>4 DEF End
  <2>2. reply[r] # "ok"
    BY <1>4 DEF DInv, RowsOf
  <2>3. \A q \in Req : RowsOf(q)'
    BY <2>1 DEF DInv, RowsOf, OnlyOwn, IInv, TypeOK
  <2>4. QED
    BY <2>1, <2>2, <2>3 DEF Shown, IInv, TypeOK
<1>5. ASSUME NEW r \in Req, NEW answer \in Replies, End(r, answer), stage[r] # "done",
             UNCHANGED <<coinLog, manLog>>
      PROVE  DInv'
  BY <1>1, <1>4, <1>5
<1>6. ASSUME NEW r \in Req, Arrive(r) PROVE DInv'
  <2>1. PICK op \in Ops, a \in Amounts, x \in Extras : Accept(r, op, a, x)
    BY <1>6 DEF Arrive
  <2>2. /\ stage[r] = "idle" /\ UNCHANGED <<coinLog, manLog, reply, coinRows, manRows>>
        /\ \A q \in Req \ {r} : stage'[q] = stage[q] /\ open'[q] = open[q]
    BY <1>6, <2>1 DEF Arrive, Accept, db, buffer, IInv, TypeOK
  <2>3. ~Shown(r)
    BY <2>2 DEF DInv, RowsOf, Shown, IInv, CopiesCover, Apart
  <2>4. \A q \in Req : Shown(q) => reply'[q] = "ok" \/ ~open'[q]
    BY <2>2, <2>3 DEF Shown
  <2>5. ASSUME NEW q \in Req PROVE RowsOf(q)'
    BY <2>2, <2>3 DEF DInv, RowsOf, OnlyOwn, Shown
  <2>6. QED
    BY <1>1, <2>2, <2>4, <2>5
<1>7. ASSUME NEW r \in Req, BalanceCheck(r) PROVE DInv'
  <2>1. stage[r] = "precheck" /\ UNCHANGED <<coinLog, manLog>>
    BY <1>7 DEF BalanceCheck, db
  <2>2. CASE End(r, "error")
    BY <1>5, <2>1, <2>2 DEF Replies
  <2>3. CASE ~End(r, "error")
    <3>1. /\ UNCHANGED <<reply, open, coinRows, manRows>>
          /\ \A q \in Req \ {r} : stage'[q] = stage[q]
      BY <1>7, <2>3 DEF BalanceCheck, way, buffer, IInv, TypeOK
    <3>2. QED
      BY <1>3, <2>1, <3>1
  <2>4. QED
    BY <2>2, <2>3
<1>8. ASSUME NEW r \in Req, ReadAsset(r) \/ CreateRow(r) PROVE DInv'
  <2>1. stage[r] \in {"leg", "create"} /\ UNCHANGED <<coinLog, manLog>>
    BY <1>8 DEF ReadAsset, CreateRow, db
  <2>2. UNCHANGED <<reply, open, coinRows, manRows>>
    BY <1>8 DEF ReadAsset, CreateRow, Decide, way, buffer
  <2>3. \A q \in Req \ {r} : stage'[q] = stage[q]
    BY <1>8 DEF ReadAsset, CreateRow, Decide, NextLeg, IInv, TypeOK
  <2>4. QED
    BY <1>3, <2>1, <2>2, <2>3
<1>9. ASSUME NEW r \in Req, SaveAsset(r) \/ SaveMoney(r) PROVE DInv'
  <2>1. /\ stage[r] \in {"save", "leg"}
        /\ UNCHANGED <<coinLog, manLog, reply, open, coinRows, manRows>>
        /\ \A q \in Req \ {r} : stage'[q] = stage[q]
    BY <1>9 DEF SaveAsset, SaveMoney, way, IInv, TypeOK
  <2>2. QED
    BY <1>3, <2>1
<1>10. ASSUME NEW r \in Req, RereadUser(r) \/ SetLimit(r) PROVE DInv'
  <2>1. /\ stage[r] = "leg" /\ UNCHANGED <<coinLog, manLog, reply, open, coinRows, manRows>>
        /\ \A q \in Req \ {r} : stage'[q] = stage[q]
    BY <1>10 DEF RereadUser, SetLimit, NextLeg, db, way, buffer, IInv, TypeOK
  <2>2. QED
    BY <1>3, <2>1
<1>11. ASSUME NEW r \in Req, PayIncome(r) PROVE DInv'
  <2>1. /\ stage[r] = "leg" /\ UNCHANGED <<coinLog, manLog, reply, open, coinRows, manRows>>
        /\ \A q \in Req \ {r} : stage'[q] = stage[q]
    BY <1>11 DEF PayIncome, db, way, IInv, TypeOK
  <2>2. QED
    BY <1>3, <2>1
<1>12. ASSUME NEW r \in Req, AddIncomeRow(r) PROVE DInv'
  <2> DEFINE row == Row(r, IncomeOf(newMoney[r]), newMoney[r])
  <2>1. row \in LedgerRow /\ row.by = r
    <3>1. newMoney[r] \in Nat
      BY DEF IInv, TypeOK
    <3>2. IncomeOf(newMoney[r]) \in Int /\ newMoney[r] + IncomeOf(newMoney[r]) >= 0
      BY <3>1, IncomeType
    <3>3. QED
      BY <3>1, <3>2, RowType DEF Row
  <2>2. /\ stage[r] = "row" /\ UNCHANGED <<coinLog, manLog, reply, open, coinRows>>
        /\ manRows' \in {manRows, [manRows EXCEPT ![r] = Append(manRows[r], row)]}
        /\ stage' = [stage EXCEPT ![r] = "commit"]
    BY <1>12 DEF AddIncomeRow, db, way
  <2> HIDE DEF row
  <2>3. OnlyOwn(manRows'[r], r)
    <3>1. manRows[r] \in Seq(LedgerRow) /\ OnlyOwn(manRows[r], r)
      BY DEF IInv, TypeOK, DInv, RowsOf
    <3>2. manRows'[r] \in {manRows[r], Append(manRows[r], row)}
      BY <2>2 DEF IInv, TypeOK
    <3>3. QED
      BY <2>1, <3>1, <3>2, AppendOwn
  <2>4. /\ OnlyOwn(coinRows'[r], r)
        /\ \A q \in Req \ {r} : /\ stage'[q] = stage[q]
                                /\ coinRows'[q] = coinRows[q] /\ manRows'[q] = manRows[q]
    BY <2>2 DEF DInv, RowsOf, IInv, TypeOK
  <2>5. QED
    BY <1>2, <2>2, <2>3, <2>4
<1>13. ASSUME NEW r \in Req, AddCoinRow(r) PROVE DInv'
  <2> DEFINE row == Row(r, Head(todo[r]).amount, read[r])
  <2>1. row \in LedgerRow /\ row.by = r
    <3>1. todo[r] # <<>> /\ read[r] + Head(todo[r]).amount >= 0
      BY <1>13 DEF AddCoinRow, IInv, CopiesCover
    <3>2. Head(todo[r]) \in LegSet /\ read[r] \in Nat
      BY <3>1, HeadInSet DEF IInv, TypeOK
    <3>3. QED
      BY <3>1, <3>2, RowType DEF LegSet, Row
  <2>2. /\ stage[r] = "row" /\ UNCHANGED <<manLog, reply, open, manRows>> /\ NextLeg(r)
        /\ IF open[r]
           THEN coinRows' = [coinRows EXCEPT ![r] = Append(coinRows[r], row)] /\ UNCHANGED coinLog
           ELSE coinLog' = Append(coinLog, row) /\ UNCHANGED coinRows
    BY <1>13 DEF AddCoinRow, way
  <2> HIDE DEF row
  <2>3. /\ OnlyOwn(manRows'[r], r)
        /\ \A q \in Req \ {r} : /\ stage'[q] = stage[q]
                                /\ coinRows'[q] = coinRows[q] /\ manRows'[q] = manRows[q]
    BY <2>2 DEF DInv, RowsOf, NextLeg, IInv, TypeOK
  <2>4. CASE open[r]
    <3>1. coinRows[r] \in Seq(LedgerRow) /\ OnlyOwn(coinRows[r], r)
      BY DEF IInv, TypeOK, DInv, RowsOf
    <3>2. coinRows'[r] = Append(coinRows[r], row)
      BY <2>2, <2>4 DEF IInv, TypeOK
    <3>3. OnlyOwn(coinRows'[r], r)
      BY <2>1, <3>1, <3>2, AppendOwn
    <3>4. QED
      BY <1>2, <2>2, <2>3, <2>4, <3>3
  <2>5. CASE ~open[r]
    <3>1. ASSUME NEW q \in Req PROVE RowsOf(q)'
      BY <2>2, <2>3, <2>5 DEF DInv, RowsOf, OnlyOwn
    <3>2. coinLog \in Seq(LedgerRow) /\ OnlyShown(coinLog) /\ Shown(row.by)
      BY <2>1, <2>5 DEF IInv, TypeOK, DInv, Shown
    <3>3. OnlyShown(Append(coinLog, row))
      BY <2>1, <3>2, AppendShown
    <3>4. QED
      BY <2>2, <2>5, <3>1, <3>3 DEF DInv, OnlyShown, Shown
  <2>6. QED
    BY <2>4, <2>5
<1>14. ASSUME NEW r \in Req, AddManRow(r) PROVE DInv'
  <2> DEFINE row == Row(r, Head(todo[r]).amount, user[r])
  <2>1. row \in LedgerRow /\ row.by = r
    <3>1. todo[r] # <<>> /\ user[r] + Head(todo[r]).amount >= 0
      BY <1>14 DEF AddManRow, IInv, CopiesCover
    <3>2. Head(todo[r]) \in LegSet /\ user[r] \in Nat
      BY <3>1, HeadInSet DEF IInv, TypeOK
    <3>3. QED
      BY <3>1, <3>2, RowType DEF LegSet, Row
  <2>2. /\ stage[r] = "row" /\ UNCHANGED <<coinLog, reply, open, coinRows>> /\ NextLeg(r)
        /\ IF open[r]
           THEN manRows' = [manRows EXCEPT ![r] = Append(manRows[r], row)] /\ UNCHANGED manLog
           ELSE manLog' = Append(manLog, row) /\ UNCHANGED manRows
    BY <1>14 DEF AddManRow, way
  <2> HIDE DEF row
  <2>3. /\ OnlyOwn(coinRows'[r], r)
        /\ \A q \in Req \ {r} : /\ stage'[q] = stage[q]
                                /\ coinRows'[q] = coinRows[q] /\ manRows'[q] = manRows[q]
    BY <2>2 DEF DInv, RowsOf, NextLeg, IInv, TypeOK
  <2>4. CASE open[r]
    <3>1. manRows[r] \in Seq(LedgerRow) /\ OnlyOwn(manRows[r], r)
      BY DEF IInv, TypeOK, DInv, RowsOf
    <3>2. manRows'[r] = Append(manRows[r], row)
      BY <2>2, <2>4 DEF IInv, TypeOK
    <3>3. OnlyOwn(manRows'[r], r)
      BY <2>1, <3>1, <3>2, AppendOwn
    <3>4. QED
      BY <1>2, <2>2, <2>3, <2>4, <3>3
  <2>5. CASE ~open[r]
    <3>1. ASSUME NEW q \in Req PROVE RowsOf(q)'
      BY <2>2, <2>3, <2>5 DEF DInv, RowsOf, OnlyOwn
    <3>2. manLog \in Seq(LedgerRow) /\ OnlyShown(manLog) /\ Shown(row.by)
      BY <2>1, <2>5 DEF IInv, TypeOK, DInv, Shown
    <3>3. OnlyShown(Append(manLog, row))
      BY <2>1, <3>2, AppendShown
    <3>4. QED
      BY <2>2, <2>5, <3>1, <3>3 DEF DInv, OnlyShown, Shown
  <2>6. QED
    BY <2>4, <2>5
<1>15. ASSUME NEW r \in Req, Commit(r) PROVE DInv'
  <2>1. /\ stage[r] = "commit" /\ End(r, "ok")
        /\ coinLog' = coinLog \o coinRows[r] /\ manLog' = manLog \o manRows[r]
    BY <1>15 DEF Commit
  <2>2. /\ \A q \in Req : Shown(q) => reply'[q] = "ok" \/ ~open'[q]
        /\ \A q \in Req : RowsOf(q)'
        /\ reply'[r] = "ok"
    BY <1>4, <2>1 DEF Replies
  <2>3. /\ OnlyOwn(coinRows[r], r) /\ OnlyOwn(manRows[r], r)
        /\ OnlyShown(coinLog) /\ OnlyShown(manLog)
    BY DEF DInv, RowsOf
  <2>4. /\ coinLog \in Seq(LedgerRow) /\ coinRows[r] \in Seq(LedgerRow)
        /\ manLog \in Seq(LedgerRow) /\ manRows[r] \in Seq(LedgerRow)
    BY DEF IInv, TypeOK
  <2>5. /\ \A i \in 1..Len(coinLog \o coinRows[r]) :
             \/ reply'[(coinLog \o coinRows[r])[i].by] = "ok"
             \/ ~open'[(coinLog \o coinRows[r])[i].by]
        /\ \A i \in 1..Len(manLog \o manRows[r]) :
             \/ reply'[(manLog \o manRows[r])[i].by] = "ok"
             \/ ~open'[(manLog \o manRows[r])[i].by]
    BY <2>2, <2>3, <2>4, ConcatShown
  <2>6. OnlyShown(coinLog)' /\ OnlyShown(manLog)'
    BY <2>1, <2>5 DEF OnlyShown, Shown
  <2>7. QED
    BY <2>2, <2>6 DEF DInv
<1>16. ASSUME NEW r \in Req, Deadlock(r) \/ LockWaitTimeout(r) PROVE DInv'
  <2>1. stage[r] \in {"save", "leg", "whole"} /\ UNCHANGED <<coinLog, manLog>>
    BY <1>16 DEF Deadlock, LockWaitTimeout, WaitsFor, WantedRow, db
  <2>2. CASE \E answer \in Replies : End(r, answer)
    BY <1>5, <2>1, <2>2
  <2>3. CASE /\ \/ open' = [open EXCEPT ![r] = FALSE] /\ coinRows' = [coinRows EXCEPT ![r] = <<>>]
                   /\ manRows' = [manRows EXCEPT ![r] = <<>>]
                \/ UNCHANGED <<open, coinRows, manRows>>
             /\ stage' = [stage EXCEPT ![r] = "row"] /\ UNCHANGED reply
    <3>1. \A q \in Req : Shown(q) => reply'[q] = "ok" \/ ~open'[q]
      BY <2>3 DEF Shown, IInv, TypeOK
    <3>2. ASSUME NEW q \in Req PROVE RowsOf(q)'
      <4>1. /\ coinRows'[q] \in {<<>>, coinRows[q]} /\ manRows'[q] \in {<<>>, manRows[q]}
            /\ stage'[q] \in {"row", stage[q]} /\ (stage'[q] # stage[q] => q = r)
        BY <2>3 DEF IInv, TypeOK
      <4>2. RowsOf(q) /\ (q = r => reply[q] # "ok") /\ reply'[q] = reply[q]
        BY <2>1, <2>3 DEF DInv, RowsOf
      <4>3. OnlyOwn(coinRows'[q], q) /\ OnlyOwn(manRows'[q], q)
        BY <4>1, <4>2 DEF RowsOf, OnlyOwn
      <4>4. QED
        BY <4>1, <4>2, <4>3 DEF RowsOf
    <3>3. QED
      BY <1>1, <2>1, <3>1, <3>2
  <2>4. QED
    BY <1>16, <2>2, <2>3 DEF Deadlock, LockWaitTimeout, Replies, buffer
<1>17. ASSUME NEW r \in Req, RefuseAsset(r) \/ RefuseMoney(r) \/ SaveWholeUser(r) \/ Crash(r)
       PROVE  DInv'
  <2>1. stage[r] # "done" /\ UNCHANGED <<coinLog, manLog>>
    BY <1>17 DEF RefuseAsset, RefuseMoney, SaveWholeUser, Crash, Active, db
  <2>2. \E answer \in Replies : End(r, answer)
    BY <1>17 DEF RefuseAsset, RefuseMoney, SaveWholeUser, Crash, Replies
  <2>3. QED
    BY <1>5, <2>1, <2>2
<1>18. CASE UNCHANGED vars
  BY <1>18 DEF vars, db, way, buffer, DInv, OnlyShown, Shown, RowsOf, OnlyOwn
<1>19. QED
  BY <1>6, <1>7, <1>8, <1>9, <1>10, <1>11, <1>12, <1>13, <1>14, <1>15, <1>16, <1>17, <1>18
     DEF Next, Step, AllServed

\* A request that is refused, lost or not yet done has left no row in a ledger,
\* whatever it overlaps with, as long as it has its transaction: a deadlock's victim
\* that goes on, and a caller that passes utils.Orm, commit row by row.
THEOREM WalletNothingUntilDone == Spec => []NothingUntilDone
<1>1. Init => DInv
  BY DEF Init, DInv, OnlyShown, RowsOf, OnlyOwn
<1>2. IInv /\ DInv => NothingUntilDone
  <2> SUFFICES ASSUME IInv, DInv, NEW r \in Req, open[r], reply[r] # "ok"
               PROVE  RowsBy(coinLog, r) = 0 /\ RowsBy(manLog, r) = 0
    BY DEF NothingUntilDone
  <2>1. {i \in 1..Len(coinLog) : coinLog[i].by = r} = {} /\ {i \in 1..Len(manLog) : manLog[i].by = r} = {}
    BY DEF DInv, OnlyShown, Shown
  <2>2. Cardinality({}) = 0
    BY FS_EmptySet
  <2>3. QED
    BY <2>1, <2>2 DEF RowsBy
<1>3. QED
  BY InitIInv, StepIInv, StepDInv, <1>1, <1>2, PTL DEF Spec
-----------------------------------------------------------------------------
\* The user row and the ledger of the management money, where some things differ
\* from the asset row: a zero is not written, a recharge may hold the row only to
\* set its limit, with the money as it is, and the row of the hourly income states
\* another balance.
AboutToBookMoney(r) == stage[r] = "row" /\ Head(todo[r]).kind = "man"

MoneyBooked(r) ==
  /\ stage[r] \in {"idle", "done", "precheck", "whole"} => holder["user"] # r
  /\ AboutToBookMoney(r) =>
       /\ holder["user"] = r
       /\ user[r] + Head(todo[r]).amount \in {newMoney[r], 0}
  /\ stage[r] = "row" /\ Hourly(r) => holder["user"] = r
  /\ holder["user"] # r => manRows[r] = <<>>
  /\ holder["user"] = r /\ ~AboutToBookMoney(r) /\ ~Hourly(r) =>
       IF manRows[r] = <<>> THEN newMoney[r] = money
       ELSE manRows[r][Len(manRows[r])].after \in {newMoney[r], 0}

MInv == \A r \in Req : ~Apart(r) => MoneyBooked(r)

\* What a step of r leaves alone of another request; the money changes only while
\* that request does not hold the user row.
MoneySpared(q) ==
  /\ stage'[q] = stage[q] /\ todo'[q] = todo[q] /\ open'[q] = open[q]
  /\ unsaved'[q] = unsaved[q]
  /\ user'[q] = user[q] /\ newMoney'[q] = newMoney[q] /\ manRows'[q] = manRows[q]
  /\ holder'["user"] = q <=> holder["user"] = q
  /\ holder["user"] = q => money' = money

LEMMA OthersMoneyBooked ==
  ASSUME MInv, NEW r \in Req, \A q \in Req \ {r} : MoneySpared(q),
         ~Apart(r)' => MoneyBooked(r)'
  PROVE  MInv'
<1>1. ASSUME NEW q \in Req \ {r} PROVE ~Apart(q)' => MoneyBooked(q)'
  BY DEF MInv, MoneySpared, Apart, MoneyBooked, AboutToBookMoney, Hourly
<1>2. QED
  BY <1>1 DEF MInv

LEMMA EndMoneyBooked ==
  ASSUME IInv, MInv, NEW r \in Req, NEW answer \in Replies, End(r, answer),
         \A q \in Req \ {r} : holder["user"] = q => money' = money
  PROVE  MInv'
<1>1. holder'["user"] = IF holder["user"] = r THEN Nobody ELSE holder["user"]
  BY DEF End, Released, Rows
<1>2. /\ stage'[r] = "done" /\ manRows'[r] = <<>> /\ todo'[r] = <<>>
      /\ holder'["user"] # r
  BY <1>1, WalletAssumption DEF End, IInv, TypeOK
<1>3. MoneyBooked(r)'
  BY <1>2 DEF MoneyBooked, AboutToBookMoney, Hourly
<1>4. ASSUME NEW q \in Req \ {r} PROVE MoneySpared(q)
  <2>1. /\ stage'[q] = stage[q] /\ todo'[q] = todo[q] /\ manRows'[q] = manRows[q]
        /\ user'[q] = user[q] /\ newMoney'[q] = newMoney[q]
        /\ unsaved'[q] = unsaved[q] /\ open'[q] = open[q]
    BY DEF End, IInv, TypeOK
  <2>2. /\ holder'["user"] = q <=> holder["user"] = q
        /\ holder["user"] = q => money' = money
    BY <1>1, WalletAssumption
  <2>3. QED
    BY <2>1, <2>2 DEF MoneySpared
<1>5. QED
  BY <1>3, <1>4, OthersMoneyBooked

\* A statement about something else leaves the user row and its ledger alone.
LEMMA ElsewhereMoneyBooked ==
  ASSUME IInv, MInv, NEW r \in Req,
         UNCHANGED <<money, newMoney, manRows, unsaved>>, holder'["user"] = holder["user"],
         \A q \in Req \ {r} : /\ stage'[q] = stage[q] /\ todo'[q] = todo[q]
                              /\ user'[q] = user[q] /\ open'[q] = open[q],
         ~Apart(r)' => ~Apart(r),
         ~AboutToBookMoney(r), ~AboutToBookMoney(r)',
         holder["user"] = r => ~Hourly(r), stage'[r] = "row" => ~Hourly(r)',
         \/ stage[r] \in {"idle", "precheck"}
         \/ stage'[r] \notin {"idle", "done", "precheck", "whole"}
  PROVE  MInv'
<1>1. \A q \in Req \ {r} : MoneySpared(q)
  BY DEF MoneySpared
<1>2. ~Apart(r)' => MoneyBooked(r)'
  <2>1. ~Apart(r)' => MoneyBooked(r)
    BY DEF MInv
  <2>2. QED
    BY <2>1 DEF MoneyBooked
<1>3. QED
  BY <1>1, <1>2, OthersMoneyBooked

LEMMA StepMInv == IInv /\ MInv /\ [Next]_vars => MInv'
<1> SUFFICES ASSUME IInv, MInv, [Next]_vars PROVE MInv'
  OBVIOUS
<1>1. ASSUME NEW r \in Req, Arrive(r) PROVE MInv'
  <2>1. PICK op \in Ops, a \in Amounts, x \in Extras : Accept(r, op, a, x)
    BY <1>1 DEF Arrive
  <2>2. UNCHANGED <<money, newMoney, manRows, holder, unsaved>>
    BY <2>1 DEF Accept, db, buffer
  <2>3. \A q \in Req \ {r} : /\ stage'[q] = stage[q] /\ todo'[q] = todo[q]
                             /\ user'[q] = user[q] /\ open'[q] = open[q]
    BY <2>1 DEF Accept, IInv, TypeOK
  <2>4. /\ stage[r] = "idle" /\ stage'[r] \in {"precheck", "leg", "whole"}
        /\ ~Apart(r) /\ MoneyBooked(r)
    BY <1>1, <2>1 DEF Arrive, Accept, FirstStage, IInv, TypeOK, CopiesCover, MInv
  <2>5. holder["user"] # r
    BY <2>4 DEF MoneyBooked
  <2>6. QED
    BY <2>2, <2>3, <2>4, <2>5, ElsewhereMoneyBooked DEF AboutToBookMoney
<1>2. ASSUME NEW r \in Req, NEW answer \in Replies, End(r, answer), UNCHANGED money
      PROVE  MInv'
  BY <1>2, EndMoneyBooked
<1>3. ASSUME NEW r \in Req, BalanceCheck(r) PROVE MInv'
  <2>1. CASE End(r, "error")
    BY <1>2, <1>3, <2>1 DEF BalanceCheck, db, Replies
  <2>2. CASE /\ stage' = [stage EXCEPT ![r] = "leg"]
             /\ UNCHANGED <<holder, todo, copies, way, buffer, reply>>
    <3>1. /\ stage[r] = "precheck"
          /\ UNCHANGED <<money, newMoney, manRows, holder, user, todo, open, unsaved>>
      BY <1>3, <2>2 DEF BalanceCheck, db, way, buffer, copies
    <3>2. stage'[r] = "leg" /\ \A q \in Req \ {r} : stage'[q] = stage[q]
      BY <2>2 DEF IInv, TypeOK
    <3>3. \A q \in Req \ {r} : MoneySpared(q)
      BY <3>1, <3>2 DEF MoneySpared
    <3>4. ~Apart(r)' => MoneyBooked(r)'
      <4>1. ~Apart(r)' => MoneyBooked(r)
        BY <3>1 DEF MInv, Apart
      <4>2. QED
        BY <3>1, <3>2, <4>1 DEF MoneyBooked, AboutToBookMoney
    <3>5. QED
      BY <3>3, <3>4, OthersMoneyBooked
  <2>3. QED
    BY <1>3, <2>1, <2>2 DEF BalanceCheck
<1>4. ASSUME NEW r \in Req, ReadAsset(r) \/ CreateRow(r) PROVE MInv'
  <2>1. /\ stage[r] \in {"leg", "create"} /\ Head(todo[r]).kind = "coin"
        /\ UNCHANGED <<money, user>>
    BY <1>4 DEF ReadAsset, CreateRow, IInv, CopiesCover, db
  <2>2. UNCHANGED <<newMoney, manRows, holder, open, unsaved>>
    BY <1>4 DEF ReadAsset, CreateRow, Decide, way, buffer
  <2>3. /\ stage'[r] \in {"leg", "create", "save", "commit"}
        /\ \A q \in Req \ {r} : stage'[q] = stage[q] /\ todo'[q] = todo[q]
    BY <1>4 DEF ReadAsset, CreateRow, Decide, NextLeg, IInv, TypeOK
  <2>4. ~AboutToBookMoney(r) /\ ~AboutToBookMoney(r)' /\ ~Hourly(r)
    BY <2>1, <2>3 DEF AboutToBookMoney, Hourly
  <2>5. ~Apart(r)' => ~Apart(r)
    BY <2>2 DEF Apart
  <2>6. QED
    BY <2>1, <2>2, <2>3, <2>4, <2>5, ElsewhereMoneyBooked
<1>5. ASSUME NEW r \in Req, SaveAsset(r) PROVE MInv'
  <2>1. /\ UNCHANGED <<money, newMoney, manRows, user, todo, open, unsaved>>
        /\ stage[r] = "save" /\ Head(todo[r]).kind = "coin"
    BY <1>5 DEF SaveAsset, copies, way, IInv, CopiesCover
  <2>2. holder'["user"] = holder["user"]
    BY <1>5 DEF SaveAsset, IInv, TypeOK, Rows
  <2>3. stage'[r] = "row" /\ \A q \in Req \ {r} : stage'[q] = stage[q]
    BY <1>5 DEF SaveAsset, IInv, TypeOK
  <2>4. ~AboutToBookMoney(r) /\ ~AboutToBookMoney(r)' /\ ~Hourly(r) /\ ~Hourly(r)'
    BY <2>1 DEF AboutToBookMoney, Hourly
  <2>5. ~Apart(r)' => ~Apart(r)
    BY <2>1 DEF Apart
  <2>6. QED
    BY <2>1, <2>2, <2>3, <2>4, <2>5, ElsewhereMoneyBooked
<1>6. ASSUME NEW r \in Req, AddCoinRow(r) \/ RereadUser(r) PROVE MInv'
  <2>1. /\ UNCHANGED <<money, newMoney, manRows, holder, open, unsaved>> /\ NextLeg(r)
        /\ stage[r] \in {"row", "leg"} /\ Head(todo[r]).kind \in {"coin", "reread"}
    BY <1>6 DEF AddCoinRow, RereadUser, copies, db, way, buffer
  <2>2. /\ stage'[r] \in {"leg", "commit"}
        /\ \A q \in Req \ {r} : stage'[q] = stage[q] /\ todo'[q] = todo[q] /\ user'[q] = user[q]
    BY <1>6, <2>1 DEF AddCoinRow, RereadUser, copies, NextLeg, IInv, TypeOK
  <2>3. ~AboutToBookMoney(r) /\ ~AboutToBookMoney(r)' /\ ~Hourly(r)
    BY <2>1, <2>2 DEF AboutToBookMoney, Hourly
  <2>4. ~Apart(r)' => ~Apart(r)
    BY <2>1 DEF Apart
  <2>5. QED
    BY <2>1, <2>2, <2>3, <2>4, ElsewhereMoneyBooked
<1>7. ASSUME NEW r \in Req, SaveMoney(r) PROVE MInv'
  <2> DEFINE sum == user[r] + Head(todo[r]).amount
             value == Written(r, sum)
  <2>1. /\ stage' = [stage EXCEPT ![r] = "row"]
        /\ UNCHANGED <<manRows, todo, user, open, unsaved>>
        /\ holder["user"] \in {Nobody, r} /\ Head(todo[r]).kind = "man"
        /\ value = Written(r, sum)
        /\ \/ /\ holder' = [holder EXCEPT !["user"] = r]
              /\ newMoney' = [newMoney EXCEPT ![r] = value]
           \/ ~open[r] /\ UNCHANGED <<holder, newMoney>>
    BY <1>7 DEF SaveMoney, copies, way, Free
  <2>2. sum # 0 => value = sum
    BY DEF Written
  <2> HIDE DEF sum, value
  <2>3. stage'[r] = "row" /\ todo'[r] = todo[r] /\ user'[r] = user[r]
    BY <2>1 DEF IInv, TypeOK
  <2>4. ~Apart(r)' => MoneyBooked(r)'
    <3>1. SUFFICES ASSUME open[r] PROVE MoneyBooked(r)'
      BY <2>1 DEF Apart
    <3>2. holder'["user"] = r /\ newMoney'[r] = value
      BY <2>1, <3>1 DEF IInv, TypeOK, Rows
    <3>3. sum \in {newMoney'[r], 0} /\ sum = user'[r] + Head(todo'[r]).amount
      BY <2>2, <2>3, <3>2 DEF sum
    <3>4. QED
      BY <2>1, <2>3, <3>2, <3>3 DEF MoneyBooked, AboutToBookMoney, Hourly
  <2>5. ASSUME NEW q \in Req \ {r} PROVE MoneySpared(q)
    <3>1. holder["user"] # q /\ holder'["user"] # q
      BY <2>1, WalletAssumption DEF IInv, TypeOK, Rows
    <3>2. stage'[q] = stage[q] /\ newMoney'[q] = newMoney[q]
      BY <2>1 DEF IInv, TypeOK
    <3>3. QED
      BY <2>1, <3>1, <3>2 DEF MoneySpared
  <2>6. QED
    BY <2>4, <2>5, OthersMoneyBooked
<1>8. ASSUME NEW r \in Req, AddManRow(r) PROVE MInv'
  <2> DEFINE row == Row(r, Head(todo[r]).amount, user[r])
  <2>1. /\ UNCHANGED <<money, holder, newMoney, user, open, unsaved>>
        /\ NextLeg(r) /\ AboutToBookMoney(r)
        /\ manRows' \in {manRows, [manRows EXCEPT ![r] = Append(manRows[r], row)]}
        /\ open[r] => manRows' = [manRows EXCEPT ![r] = Append(manRows[r], row)]
    <3>1. AddManRow(r)
      BY <1>8
    <3>2. UNCHANGED <<holder, newMoney, user, open, unsaved>> /\ NextLeg(r) /\ AboutToBookMoney(r)
      BY <3>1 DEF AddManRow, copies, way, AboutToBookMoney
    <3>3. /\ money' = money
          /\ manRows' \in {manRows, [manRows EXCEPT ![r] = Append(manRows[r], row)]}
          /\ open[r] => manRows' = [manRows EXCEPT ![r] = Append(manRows[r], row)]
      BY <3>1 DEF AddManRow
    <3>4. QED
      BY <3>2, <3>3
  <2>2. row.after = user[r] + Head(todo[r]).amount
    BY DEF Row
  <2> HIDE DEF row
  <2>3. /\ stage'[r] \in {"leg", "commit"}
        /\ \A q \in Req \ {r} : stage'[q] = stage[q] /\ todo'[q] = todo[q] /\ manRows'[q] = manRows[q]
    BY <2>1 DEF NextLeg, IInv, TypeOK
  <2>4. \A q \in Req \ {r} : MoneySpared(q)
    BY <2>1, <2>3 DEF MoneySpared
  <2>5. ~Apart(r)' => MoneyBooked(r)'
    <3>1. SUFFICES ASSUME ~Apart(r) PROVE MoneyBooked(r)'
      BY <2>1 DEF Apart
    <3>2. open[r] /\ MoneyBooked(r)
      BY <3>1 DEF Apart, MInv
    <3>3. row.after \in {newMoney[r], 0} /\ holder["user"] = r
      BY <2>1, <2>2, <3>2 DEF MoneyBooked
    <3>4. manRows'[r] = Append(manRows[r], row) /\ manRows[r] \in Seq(LedgerRow)
      BY <2>1, <3>2 DEF IInv, TypeOK
    <3>5. manRows'[r] # <<>> /\ manRows'[r][Len(manRows'[r])] = row
      BY <3>4
    <3>6. QED
      BY <2>1, <2>3, <3>3, <3>5 DEF MoneyBooked, AboutToBookMoney, Hourly
  <2>6. QED
    BY <2>4, <2>5, OthersMoneyBooked
<1>9. ASSUME NEW r \in Req, SetLimit(r) PROVE MInv'
  <2>1. /\ holder' = [holder EXCEPT !["user"] = IF open[r] THEN r ELSE @]
        /\ newMoney' = [newMoney EXCEPT ![r] = Written(r, 0)]
        /\ UNCHANGED <<money, manRows, user, open, unsaved>>
        /\ NextLeg(r) /\ stage[r] = "leg" /\ Head(todo[r]).kind = "limit"
        /\ holder["user"] \in {Nobody, r}
    BY <1>9 DEF SetLimit, Free, db, copies, way
  <2>2. stage'[r] \in {"leg", "commit"}
    BY <2>1 DEF NextLeg, IInv, TypeOK
  <2>3. ~Apart(r)' => MoneyBooked(r)'
    <3>1. SUFFICES ASSUME ~Apart(r) PROVE MoneyBooked(r)'
      BY <2>1 DEF Apart
    <3>2. open[r] /\ MoneyBooked(r) /\ ~AboutToBookMoney(r) /\ ~Hourly(r)
      BY <2>1, <3>1 DEF Apart, MInv, AboutToBookMoney, Hourly
    <3>3. holder'["user"] = r
      BY <2>1, <3>2 DEF IInv, TypeOK, Rows
    <3>4. newMoney'[r] = IF holder["user"] = r THEN newMoney[r] ELSE money
      BY <2>1, <3>2 DEF Written, IInv, TypeOK
    <3>5. QED
      BY <2>1, <2>2, <3>2, <3>3, <3>4 DEF MoneyBooked, AboutToBookMoney
  <2>4. ASSUME NEW q \in Req \ {r} PROVE MoneySpared(q)
    <3>1. holder["user"] # q /\ holder'["user"] # q
      BY <2>1, WalletAssumption DEF IInv, TypeOK, Rows
    <3>2. stage'[q] = stage[q] /\ todo'[q] = todo[q] /\ newMoney'[q] = newMoney[q]
      BY <2>1 DEF NextLeg, IInv, TypeOK
    <3>3. QED
      BY <2>1, <3>1, <3>2 DEF MoneySpared
  <2>5. QED
    BY <2>3, <2>4, OthersMoneyBooked
<1>10. ASSUME NEW r \in Req, PayIncome(r) PROVE MInv'
  <2>1. /\ holder' = [holder EXCEPT !["user"] = r] /\ stage' = [stage EXCEPT ![r] = "row"]
        /\ UNCHANGED <<money, manRows, user, todo, open, unsaved>>
        /\ holder["user"] \in {Nobody, r}
        /\ Head(todo[r]).kind = "income" /\ todo[r] # <<>>
        /\ \E value : newMoney' = [newMoney EXCEPT ![r] = value]
    BY <1>10 DEF PayIncome, Free, db, copies, way, IInv, CopiesCover
  <2>2. holder'["user"] = r /\ stage'[r] = "row"
    BY <2>1 DEF IInv, TypeOK, Rows
  <2>3. MoneyBooked(r)'
    BY <2>1, <2>2 DEF MoneyBooked, AboutToBookMoney, Hourly
  <2>4. ASSUME NEW q \in Req \ {r} PROVE MoneySpared(q)
    <3>1. holder["user"] # q /\ holder'["user"] # q
      BY <2>1, <2>2, WalletAssumption
    <3>2. stage'[q] = stage[q] /\ newMoney'[q] = newMoney[q]
      BY <2>1 DEF IInv, TypeOK
    <3>3. QED
      BY <2>1, <3>1, <3>2 DEF MoneySpared
  <2>5. QED
    BY <2>3, <2>4, OthersMoneyBooked
<1>11. ASSUME NEW r \in Req, AddIncomeRow(r) PROVE MInv'
  <2>1. /\ stage' = [stage EXCEPT ![r] = "commit"]
        /\ UNCHANGED <<money, newMoney, holder, user, todo, open, unsaved>>
        /\ stage[r] = "row" /\ Hourly(r)
    BY <1>11 DEF AddIncomeRow, db, copies, way, Hourly, IInv, CopiesCover
  <2>2. /\ stage'[r] = "commit"
        /\ \A q \in Req \ {r} : stage'[q] = stage[q] /\ manRows'[q] = manRows[q]
    BY <1>11, <2>1 DEF AddIncomeRow, IInv, TypeOK
  <2>3. ~Apart(r)' => MoneyBooked(r)'
    <3>1. ~Apart(r)' => holder["user"] = r
      BY <2>1 DEF MInv, MoneyBooked, Apart
    <3>2. QED
      BY <2>1, <2>2, <3>1 DEF MoneyBooked, AboutToBookMoney, Hourly
  <2>4. \A q \in Req \ {r} : MoneySpared(q)
    BY <2>1, <2>2 DEF MoneySpared
  <2>5. QED
    BY <2>3, <2>4, OthersMoneyBooked
<1>12. ASSUME NEW r \in Req, Commit(r) PROVE MInv'
  <2>1. End(r, "ok") /\ money' = IF holder["user"] = r THEN newMoney[r] ELSE money
    BY <1>12 DEF Commit
  <2>2. QED
    BY <2>1, EndMoneyBooked DEF Replies
<1>13. ASSUME NEW r \in Req, SaveWholeUser(r) PROVE MInv'
  <2>1. End(r, "ok") /\ \A q \in Req \ {r} : holder["user"] # q
    BY <1>13, WalletAssumption DEF SaveWholeUser
  <2>2. QED
    BY <2>1, EndMoneyBooked DEF Replies
<1>14. ASSUME NEW r \in Req, Deadlock(r) PROVE MInv'
  <2>1. CASE End(r, "error")
    BY <1>2, <1>14, <2>1 DEF Deadlock, db, Replies
  <2>2. CASE /\ open' = [open EXCEPT ![r] = FALSE]
             /\ holder' = Released(r)
             /\ manRows' = [manRows EXCEPT ![r] = <<>>]
             /\ stage' = [stage EXCEPT ![r] = "row"]
             /\ UNCHANGED <<todo, copies, stray, unsaved, newAsset, newMoney, reply>>
    <3>1. ASSUME NEW q \in Req \ {r} PROVE MoneySpared(q)
      <4>1. holder'["user"] = q <=> holder["user"] = q
        BY <2>2, WalletAssumption DEF Released, Rows
      <4>2. stage'[q] = stage[q] /\ manRows'[q] = manRows[q] /\ open'[q] = open[q]
        BY <2>2 DEF IInv, TypeOK
      <4>3. money' = money
        BY <1>14 DEF Deadlock, db
      <4>4. QED
        BY <2>2, <4>1, <4>2, <4>3 DEF MoneySpared, copies
    <3>2. Apart(r)'
      BY <2>2 DEF Apart, IInv, TypeOK
    <3>3. QED
      BY <3>1, <3>2, OthersMoneyBooked
  <2>3. QED
    BY <1>14, <2>1, <2>2 DEF Deadlock
<1>15. ASSUME NEW r \in Req, LockWaitTimeout(r) PROVE MInv'
  <2>1. CASE \E answer \in Replies : End(r, answer)
    BY <1>2, <1>15, <2>1 DEF LockWaitTimeout, db
  <2>2. CASE /\ unsaved' = [unsaved EXCEPT ![r] = TRUE]
             /\ stage' = [stage EXCEPT ![r] = "row"]
             /\ UNCHANGED <<holder, todo, copies, open, stray, buffer, reply>>
    <3>1. \A q \in Req \ {r} : MoneySpared(q)
      BY <1>15, <2>2 DEF LockWaitTimeout, MoneySpared, copies, buffer, db, IInv, TypeOK
    <3>2. Apart(r)'
      BY <2>2 DEF Apart, IInv, TypeOK
    <3>3. QED
      BY <3>1, <3>2, OthersMoneyBooked
  <2>3. QED
    BY <1>15, <2>1, <2>2 DEF LockWaitTimeout, Replies
<1>16. ASSUME NEW r \in Req, RefuseAsset(r) \/ RefuseMoney(r) \/ Crash(r) PROVE MInv'
  BY <1>2, <1>16 DEF RefuseAsset, RefuseMoney, Crash, db, Replies
<1>17. CASE UNCHANGED vars
  BY <1>17 DEF vars, db, copies, way, buffer, MInv, Apart, MoneyBooked, AboutToBookMoney, Hourly
<1>18. QED
  BY <1>1, <1>3, <1>4, <1>5, <1>6, <1>7, <1>8, <1>9, <1>10, <1>11, <1>12, <1>13, <1>14,
     <1>15, <1>16, <1>17 DEF Next, Step, AllServed

LEMMA StepMoneyFollows ==
  ASSUME IInv, MInv, [Next]_vars
  PROVE  [ \/ UNCHANGED <<money, manLog>>
           \/ money' = LastAfter(manLog', Money0)
           \/ LastAfter(manLog', Money0) = 0
           \/ \E r \in Moved : Apart(r) \/ stage[r] = "whole" \/ Hourly(r) ]_vars
<1> DEFINE Good == \/ UNCHANGED <<money, manLog>>
                   \/ money' = LastAfter(manLog', Money0)
                   \/ LastAfter(manLog', Money0) = 0
                   \/ \E r \in Moved : Apart(r) \/ stage[r] = "whole" \/ Hourly(r)
<1> HIDE DEF Good
<1>1. ASSUME UNCHANGED <<money, manLog>> PROVE Good
  BY <1>1 DEF Good
<1>2. ASSUME NEW r \in Req, SaveMoney(r) \/ AddManRow(r) PROVE Good
  <2>1. CASE open[r]
    BY <1>1, <1>2, <2>1 DEF SaveMoney, AddManRow
  <2>2. CASE ~open[r]
    <3>1. r \in Moved
      BY <1>2 DEF SaveMoney, AddManRow, NextLeg, Moved, IInv, TypeOK
    <3>2. QED
      BY <2>2, <3>1 DEF Good, Apart
  <2>3. QED
    BY <2>1, <2>2
<1>3. ASSUME NEW r \in Req, SaveWholeUser(r) PROVE Good
  <2>1. stage[r] = "whole" /\ stage'[r] = "done"
    BY <1>3 DEF SaveWholeUser, End, IInv, TypeOK
  <2>2. QED
    BY <2>1 DEF Good, Moved
<1>4. ASSUME NEW r \in Req, Commit(r) PROVE Good
  <2>1. /\ stage[r] = "commit" /\ manLog' = manLog \o manRows[r]
        /\ money' = IF holder["user"] = r THEN newMoney[r] ELSE money
    BY <1>4 DEF Commit
  <2>2. stage'[r] = "done"
    BY <1>4 DEF Commit, End, IInv, TypeOK
  <2>3. CASE Apart(r) \/ Hourly(r)
    BY <2>1, <2>2, <2>3 DEF Good, Moved
  <2>4. CASE ~Apart(r) /\ ~Hourly(r)
    <3>1. MoneyBooked(r) /\ ~AboutToBookMoney(r)
      BY <2>1, <2>4 DEF MInv, AboutToBookMoney
    <3>2. manLog \in Seq(LedgerRow) /\ manRows[r] \in Seq(LedgerRow)
      BY DEF IInv, TypeOK
    <3>3. CASE manRows[r] = <<>>
      <4>1. money' = money
        BY <2>1, <2>4, <3>1, <3>3 DEF MoneyBooked
      <4>2. manLog' = manLog
        BY <2>1, <3>2, <3>3
      <4>3. QED
        BY <1>1, <4>1, <4>2
    <3>4. CASE manRows[r] # <<>>
      <4>1. manRows[r][Len(manRows[r])].after \in {money', 0}
        BY <2>1, <2>4, <3>1, <3>4 DEF MoneyBooked
      <4>2. LastAfter(manLog', Money0) \in {money', 0}
        BY <2>1, <3>2, <3>4, <4>1, ConcatLast
      <4>3. QED
        BY <4>2 DEF Good
    <3>5. QED
      BY <3>3, <3>4
  <2>5. QED
    BY <2>3, <2>4
<1>5. ASSUME UNCHANGED db PROVE Good
  BY <1>1, <1>5 DEF db
<1>6. ASSUME NEW r \in Req, Arrive(r) \/ BalanceCheck(r) \/ ReadAsset(r) \/ RefuseMoney(r)
                            \/ RereadUser(r) \/ SetLimit(r) \/ PayIncome(r) \/ AddIncomeRow(r)
      PROVE  UNCHANGED db
  BY <1>6 DEF Arrive, Accept, BalanceCheck, ReadAsset, RefuseMoney, RereadUser, SetLimit,
              PayIncome, AddIncomeRow
<1>7. ASSUME NEW r \in Req, Deadlock(r) \/ LockWaitTimeout(r) \/ Crash(r) PROVE UNCHANGED db
  BY <1>7 DEF Deadlock, LockWaitTimeout, Crash
<1>8. ASSUME NEW r \in Req, CreateRow(r) \/ RefuseAsset(r) \/ SaveAsset(r) \/ AddCoinRow(r)
      PROVE  Good
  BY <1>1, <1>8 DEF CreateRow, RefuseAsset, SaveAsset, AddCoinRow
<1>9. Good \/ UNCHANGED vars
  BY <1>2, <1>3, <1>4, <1>5, <1>6, <1>7, <1>8 DEF Next, Step, AllServed
<1>10. QED
  BY <1>9 DEF Good

LEMMA InitMInv == Init => MInv
  BY WalletAssumption DEF Init, MInv, Apart, MoneyBooked, AboutToBookMoney, Hourly, Rows

\* The same of the management money and its ledger, apart from the row of a movement
\* that says zero, which Updates does not write; the hourly income and a save of a
\* whole user row do not keep to it.
THEOREM WalletMoneyFollowsLedger == Spec => MoneyFollowsLedger
<1>1. IInv /\ MInv /\ [Next]_vars =>
        [ \/ UNCHANGED <<money, manLog>>
          \/ money' = LastAfter(manLog', Money0)
          \/ LastAfter(manLog', Money0) = 0
          \/ \E r \in Moved : Apart(r) \/ stage[r] = "whole" \/ Hourly(r) ]_vars
  BY StepMoneyFollows
<1>2. QED
  BY InitIInv, InitMInv, StepIInv, StepMInv, <1>1, PTL DEF Spec, MoneyFollowsLedger
-----------------------------------------------------------------------------
\* Served one at a time, and inside its transaction.  The request that is being
\* served sees nobody else's work: its copy of the user row and its snapshot are
\* what is committed, and a row that it has not found is still missing when it
\* creates it.  Only a second amount may be zero, and by then it holds the row.
Busy(r) == stage[r] \notin {"idle", "done"}

ZeroOnlySecond(legs) ==
  \A i \in 1..Len(legs) :
    legs[i].kind = "coin" /\ legs[i].amount = 0 =>
      i = 2 /\ legs[1].kind = "coin" /\ legs[1].amount # 0

Alone(r) ==
  /\ \A q \in Req : Busy(q) => q = r
  /\ user[r] = money
  /\ hasSnap[r] /\ stage[r] # "save" /\ holder["asset"] # r => snap[r] = asset
  /\ stage[r] = "create" => /\ asset = NoRow /\ holder["asset"] # r
                            /\ Head(todo[r]).amount # 0
  /\ holder["asset"] # r => ZeroOnlySecond(todo[r])

LoneInv == \A r \in Req : /\ ~Apart(r) /\ ~stray[r]
                          /\ Busy(r) => Alone(r)

LEMMA ProgramZeros ==
  ASSUME NEW op \in Handlers, NEW a \in Nat \ {0}, NEW x \in Nat
  PROVE  ZeroOnlySecond(Program(op, a, x))
<1>1. /\ \A n : Coin(n).kind = "coin" /\ Coin(n).amount = n
      /\ \A n : Man(n).kind # "coin"
      /\ Reread.kind # "coin" /\ Limit.kind # "coin" /\ Income.kind # "coin"
  BY DEF Coin, Man, Reread, Limit, Income, Leg
<1>2. /\ -a # 0 /\ a # 0
      /\ \A e : Len(<<e>>) = 1 /\ <<e>>[1] = e
      /\ \A e, f : Len(<<e, f>>) = 2 /\ <<e, f>>[1] = e /\ <<e, f>>[2] = f
      /\ \A e, f, g : /\ Len(<<e, f, g>>) = 3 /\ <<e, f, g>>[1] = e
                      /\ <<e, f, g>>[2] = f /\ <<e, f, g>>[3] = g
      /\ \A e, f, g, h : /\ Len(<<e, f, g, h>>) = 4 /\ <<e, f, g, h>>[1] = e
                         /\ <<e, f, g, h>>[2] = f /\ <<e, f, g, h>>[3] = g /\ <<e, f, g, h>>[4] = h
      /\ 1..1 = {1} /\ 1..2 = {1, 2} /\ 1..3 = {1, 2, 3} /\ 1..4 = {1, 2, 3, 4}
  OBVIOUS
<1>3. CASE op = "CMTransferIn"
  BY <1>1, <1>2, <1>3 DEF Program, ZeroOnlySecond
<1>4. CASE op = "CMTransferOut"
  BY <1>1, <1>2, <1>4 DEF Program, ZeroOnlySecond
<1>5. CASE op = "WithdrawApply"
  BY <1>1, <1>2, <1>5 DEF Program, ZeroOnlySecond
<1>6. CASE op = "rechargeArrives"
  BY <1>1, <1>2, <1>6 DEF Program, ZeroOnlySecond
<1>7. CASE op = "Notify2Handler"
  BY <1>1, <1>2, <1>7 DEF Program, ZeroOnlySecond
<1>8. CASE op = "RebateIncome"
  BY <1>1, <1>2, <1>8 DEF Program, ZeroOnlySecond
<1>9. CASE op = "SaveIdCardInfo"
  BY <1>1, <1>2, <1>9 DEF Program, ZeroOnlySecond, SavesUser
<1>10. CASE op = "IncomeHours"
  BY <1>1, <1>2, <1>10 DEF Program, ZeroOnlySecond, SavesUser
<1>11. CASE op \in SavesUser
  BY <1>11 DEF Program, ZeroOnlySecond, SavesUser
<1>12. QED
  BY <1>3, <1>4, <1>5, <1>6, <1>7, <1>8, <1>9, <1>10, <1>11 DEF Handlers, SavesUser

\* After a first leg that is not of the asset row, a zero can no longer come second.
LEMMA TailZeros ==
  ASSUME NEW legs \in Seq(LegSet), legs # <<>>, ZeroOnlySecond(legs), Head(legs).kind # "coin"
  PROVE  ZeroOnlySecond(Tail(legs))
<1>1. /\ Len(Tail(legs)) = Len(legs) - 1 /\ Len(legs) \in Nat /\ Head(legs) = legs[1]
      /\ \A i \in 1..Len(Tail(legs)) : i + 1 \in 1..Len(legs) /\ Tail(legs)[i] = legs[i + 1]
  OBVIOUS
<1>2. \A i \in 1..Len(legs) : ~(legs[i].kind = "coin" /\ legs[i].amount = 0)
  BY <1>1 DEF ZeroOnlySecond
<1>3. QED
  BY <1>1, <1>2 DEF ZeroOnlySecond

\* A step of the request that is served ends it, or keeps what it knows.
LEMMA LoneKept ==
  ASSUME LoneInv, NEW r \in Req, Busy(r), UNCHANGED open,
         \A q \in Req \ {r} : /\ stage'[q] = stage[q] /\ unsaved'[q] = unsaved[q]
                              /\ stray'[q] = stray[q],
         ~unsaved'[r], ~stray'[r],
         \/ stage'[r] = "done"
         \/ /\ UNCHANGED money /\ user'[r] = money
            /\ hasSnap'[r] /\ stage'[r] # "save" /\ holder'["asset"] # r => snap'[r] = asset'
            /\ stage'[r] = "create" => /\ asset' = NoRow /\ holder'["asset"] # r
                                       /\ Head(todo'[r]).amount # 0
            /\ holder'["asset"] # r => ZeroOnlySecond(todo'[r])
  PROVE  LoneInv'
<1>1. \A q \in Req \ {r} : ~Busy(q) /\ ~Busy(q)'
  BY DEF LoneInv, Alone, Busy
<1>2. \A q \in Req : ~Apart(q)' /\ ~stray'[q]
  BY DEF LoneInv, Apart
<1>3. CASE stage'[r] = "done"
  <2>1. \A q \in Req : ~Busy(q)'
    BY <1>1, <1>3 DEF Busy
  <2>2. QED
    BY <1>2, <2>1 DEF LoneInv
<1>4. CASE stage'[r] # "done"
  BY <1>1, <1>2, <1>4 DEF LoneInv, Alone, ZeroOnlySecond
<1>5. QED
  BY <1>3, <1>4

\* While a request is served, a limit of one keeps the next one out.
LEMMA NobodyIsServed ==
  ASSUME MaxActive = 1, LoneInv, Cardinality(Active) < MaxActive
  PROVE  \A q \in Req : ~Busy(q)
<1>1. SUFFICES ASSUME NEW q \in Req, Busy(q) PROVE FALSE
  OBVIOUS
<1>2. Active = {q}
  BY <1>1 DEF LoneInv, Alone, Active, Busy
<1>3. Cardinality(Active) = 1
  BY <1>2, FS_Singleton
<1>4. QED
  BY <1>3

\* Nor does it wait for a row that an idle or finished one holds.
LEMMA NobodyIsWaitedFor ==
  ASSUME IInv, AInv, MInv, LoneInv, NEW r \in Req, NEW q \in Req, WaitsFor(r, q)
  PROVE  FALSE
<1>1. r # q /\ Busy(r) /\ (holder["asset"] = q \/ holder["user"] = q)
  BY DEF WaitsFor, WantedRow, Busy
<1>2. ~Busy(q) /\ AssetBooked(q) /\ MoneyBooked(q)
  BY <1>1 DEF LoneInv, Alone, AInv, MInv
<1>3. QED
  BY <1>1, <1>2 DEF Busy, AssetBooked, MoneyBooked

LEMMA StepLoneInv ==
  ASSUME MaxActive = 1, "SaveIdCardInfo" \notin Ops, IInv, AInv, MInv, LoneInv, [Next]_vars
  PROVE  LoneInv'
<1> USE DEF IInv
<1>1. ASSUME NEW r \in Req, Arrive(r) PROVE LoneInv'
  <2>1. PICK op \in Ops, a \in Amounts, x \in Extras : Accept(r, op, a, x)
    BY <1>1 DEF Arrive
  <2>2. op # "SaveIdCardInfo" /\ op \in Handlers /\ a \in Nat \ {0} /\ x \in Nat
    BY WalletAssumption
  <2>3. \A q \in Req \ {r} : ~Busy(q)'
    <3>1. \A q \in Req : ~Busy(q)
      BY <1>1, NobodyIsServed DEF Arrive
    <3>2. QED
      BY <2>1, <3>1 DEF Accept, Busy, TypeOK
  <2>4. /\ UNCHANGED <<asset, money, stray, unsaved>> /\ user'[r] = money
        /\ hasSnap'[r] => snap'[r] = asset
        /\ stage'[r] # "create" /\ todo'[r] = Program(op, a, x)
    BY <2>1 DEF Accept, FirstStage, db, TypeOK
  <2>5. \A q \in Req : ~Apart(q)' /\ ~stray'[q]
    BY <2>1, <2>2, <2>4 DEF LoneInv, Apart, Accept, TypeOK
  <2>6. ZeroOnlySecond(todo'[r])
    BY <2>2, <2>4, ProgramZeros
  <2>7. Alone(r)'
    BY <2>3, <2>4, <2>6 DEF Alone, ZeroOnlySecond
  <2>8. QED
    BY <2>3, <2>5, <2>7 DEF LoneInv
<1>2. ASSUME NEW r \in Req, NEW answer \in Replies, End(r, answer), Busy(r) PROVE LoneInv'
  <2>1. /\ stage'[r] = "done" /\ UNCHANGED open /\ ~unsaved'[r] /\ ~stray'[r]
        /\ \A q \in Req \ {r} : /\ stage'[q] = stage[q] /\ unsaved'[q] = unsaved[q]
                                /\ stray'[q] = stray[q]
    BY <1>2 DEF End, TypeOK
  <2>2. QED
    BY <1>2, <2>1, LoneKept
<1>3. ASSUME NEW r \in Req, Busy(r) PROVE open[r] /\ ~unsaved[r] /\ ~stray[r] /\ Alone(r)
  BY <1>3 DEF LoneInv, Apart
<1>4. ASSUME NEW r \in Req, BalanceCheck(r) PROVE LoneInv'
  <2>1. Busy(r) /\ UNCHANGED <<asset, money>>
    BY <1>4 DEF BalanceCheck, db, Busy
  <2>2. CASE End(r, "error")
    BY <1>2, <2>1, <2>2 DEF Replies
  <2>3. CASE /\ stage' = [stage EXCEPT ![r] = "leg"]
             /\ UNCHANGED <<holder, todo, copies, way, buffer, reply>>
    <3>1. UNCHANGED <<holder, todo, user, hasSnap, snap, open, stray, unsaved>>
      BY <2>3 DEF copies, way
    <3>2. /\ stage[r] = "precheck" /\ stage'[r] = "leg"
          /\ \A q \in Req \ {r} : stage'[q] = stage[q]
      BY <1>4, <2>3 DEF BalanceCheck, TypeOK
    <3>3. QED
      BY <1>3, <2>1, <3>1, <3>2, LoneKept DEF Alone
  <2>4. QED
    BY <1>4, <2>2, <2>3 DEF BalanceCheck
\* A leg that is done: the next one finds the same.
<1>5. ASSUME NEW r \in Req, Busy(r), NextLeg(r), UNCHANGED <<asset, money, way>>,
             user'[r] = money, todo[r] # <<>>, holder'["asset"] = holder["asset"],
             hasSnap'[r] /\ holder["asset"] # r => snap'[r] = asset,
             holder["asset"] = r \/ Head(todo[r]).kind # "coin"
      PROVE  LoneInv'
  <2>1. /\ stage'[r] \in {"leg", "commit"} /\ todo'[r] = Tail(todo[r])
        /\ \A q \in Req \ {r} : stage'[q] = stage[q]
    BY <1>5 DEF NextLeg, TypeOK
  <2>2. UNCHANGED <<open, stray, unsaved>> /\ ~unsaved[r] /\ ~stray[r] /\ Alone(r)
    BY <1>3, <1>5 DEF way
  <2>3. holder["asset"] # r => ZeroOnlySecond(todo'[r])
    BY <1>5, <2>1, <2>2, TailZeros DEF Alone, TypeOK
  <2>4. QED
    BY <1>5, <2>1, <2>2, <2>3, LoneKept
<1>6. ASSUME NEW r \in Req, ReadAsset(r) PROVE LoneInv'
  <2>1. /\ Busy(r) /\ stage[r] = "leg" /\ todo[r] # <<>> /\ Head(todo[r]).kind = "coin"
        /\ UNCHANGED <<asset, money, user>>
    BY <1>6 DEF ReadAsset, db, Busy, CopiesCover
  <2>2. open[r] /\ ~unsaved[r] /\ ~stray[r] /\ Alone(r)
    BY <1>3, <2>1
  <2>3. hasSnap'[r] /\ snap'[r] = IF hasSnap[r] THEN snap[r] ELSE asset
    BY <1>6 DEF ReadAsset, TypeOK
  <2>4. holder["asset"] # r => snap'[r] = asset
    BY <2>1, <2>2, <2>3 DEF Alone
  <2>5. Head(todo[r]).amount = 0 => holder["asset"] = r
    <3>1. 1 \in 1..Len(todo[r]) /\ Head(todo[r]) = todo[r][1]
      BY <2>1 DEF TypeOK
    <3>2. QED
      BY <2>1, <2>2, <3>1 DEF Alone, ZeroOnlySecond
  <2>6. CASE /\ View(r) = NoRow
             /\ stage' = [stage EXCEPT ![r] = "create"]
             /\ UNCHANGED <<holder, todo, read, way, buffer, reply>>
    <3>1. holder["asset"] # r
      <4>1. newAsset[r] # NoRow
        BY DEF TypeOK, NoRow
      <4>2. QED
        BY <2>2, <2>6, <4>1 DEF View
    <3>2. asset = NoRow
      BY <2>1, <2>2, <2>6, <3>1 DEF View, Alone
    <3>3. /\ stage'[r] = "create" /\ UNCHANGED <<open, stray, unsaved, holder, todo>>
          /\ \A q \in Req \ {r} : stage'[q] = stage[q]
      BY <2>6 DEF way, TypeOK
    <3>4. user'[r] = money /\ ZeroOnlySecond(todo'[r])
      BY <2>1, <2>2, <3>1, <3>3 DEF Alone
    <3>5. QED
      BY <2>1, <2>2, <2>4, <2>5, <3>1, <3>2, <3>3, <3>4, LoneKept
  <2>7. CASE /\ Head(todo[r]).amount = 0
             /\ NextLeg(r)
             /\ UNCHANGED <<holder, read, way, buffer, reply>>
    BY <1>5, <2>1, <2>2, <2>4, <2>5, <2>7 DEF Alone
  <2>8. CASE /\ stray' = [stray EXCEPT ![r] = stray[r] /\ open[r]]
             /\ stage' = [stage EXCEPT ![r] = "save"]
             /\ UNCHANGED <<holder, todo, open, unsaved, buffer, reply>>
    <3>1. /\ stage'[r] = "save" /\ ~stray'[r]
          /\ \A q \in Req \ {r} : stage'[q] = stage[q] /\ stray'[q] = stray[q]
      BY <2>2, <2>8 DEF TypeOK
    <3>2. QED
      BY <2>1, <2>2, <2>8, <3>1, LoneKept DEF Alone
  <2>9. QED
    BY <1>6, <2>6, <2>7, <2>8 DEF ReadAsset, Decide
<1>7. ASSUME NEW r \in Req, CreateRow(r) PROVE LoneInv'
  <2>1. Busy(r) /\ stage[r] = "create" /\ UNCHANGED <<money, user>>
    BY <1>7 DEF CreateRow, Busy
  <2>2. open[r] /\ ~unsaved[r] /\ Alone(r) /\ asset = NoRow /\ Head(todo[r]).amount # 0
    BY <1>3, <2>1 DEF Alone
  <2>3. /\ stray' = [stray EXCEPT ![r] = FALSE]
        /\ stage' = [stage EXCEPT ![r] = "save"]
        /\ UNCHANGED <<holder, todo, open, unsaved, buffer, reply>>
    <3>1. Decide(r, 0, asset # NoRow)
      BY <1>7 DEF CreateRow
    <3>2. (asset # NoRow) = FALSE
      BY <2>2
    <3>3. QED
      BY <2>2, <3>1, <3>2 DEF Decide
  <2>4. /\ stage'[r] = "save" /\ ~stray'[r]
        /\ \A q \in Req \ {r} : stage'[q] = stage[q] /\ stray'[q] = stray[q]
    BY <2>3 DEF TypeOK
  <2>5. QED
    BY <2>1, <2>2, <2>3, <2>4, LoneKept DEF Alone
<1>8. ASSUME NEW r \in Req, SaveAsset(r) PROVE LoneInv'
  <2>1. Busy(r) /\ stage[r] = "save"
    BY <1>8 DEF SaveAsset, Busy
  <2>2. open[r] /\ ~unsaved[r] /\ ~stray[r] /\ Alone(r)
    BY <1>3, <2>1
  <2>3. holder' = [holder EXCEPT !["asset"] = r] /\ UNCHANGED asset
    BY <1>8, <2>2 DEF SaveAsset
  <2>4. /\ stage' = [stage EXCEPT ![r] = "row"]
        /\ UNCHANGED <<money, todo, user, hasSnap, snap, open, stray, unsaved>>
    BY <1>8 DEF SaveAsset, copies, way
  <2>5. /\ stage'[r] = "row" /\ \A q \in Req \ {r} : stage'[q] = stage[q]
        /\ holder'["asset"] = r
    BY <2>3, <2>4 DEF TypeOK, Rows
  <2>6. QED
    BY <2>1, <2>2, <2>4, <2>5, LoneKept DEF Alone
<1>9. ASSUME NEW r \in Req, AddCoinRow(r) PROVE LoneInv'
  <2>1. Busy(r) /\ AboutToBook(r) /\ todo[r] # <<>>
    BY <1>9 DEF AddCoinRow, Busy, AboutToBook, CopiesCover
  <2>2. Alone(r) /\ holder["asset"] = r
    BY <1>3, <2>1 DEF AInv, AssetBooked, LoneInv
  <2>3. NextLeg(r) /\ UNCHANGED <<asset, money, way, user, holder>>
    BY <1>9 DEF AddCoinRow, copies
  <2>4. QED
    BY <1>5, <2>1, <2>2, <2>3 DEF Alone
<1>10. ASSUME NEW r \in Req, AddManRow(r) \/ RereadUser(r) \/ SetLimit(r) PROVE LoneInv'
  <2>1. /\ Busy(r) /\ stage[r] \in {"leg", "row"} /\ todo[r] # <<>>
        /\ Head(todo[r]).kind # "coin"
    BY <1>10 DEF AddManRow, RereadUser, SetLimit, Busy, CopiesCover
  <2>2. Alone(r) /\ open[r]
    BY <1>3, <2>1
  <2>3. NextLeg(r) /\ UNCHANGED <<asset, money, way, hasSnap, snap>>
    BY <1>10, <2>2 DEF AddManRow, RereadUser, SetLimit, copies, db
  <2>4. holder'["asset"] = holder["asset"]
    BY <1>10 DEF AddManRow, RereadUser, SetLimit, TypeOK, Rows
  <2>5. user'[r] = money
    BY <1>10, <2>2 DEF AddManRow, RereadUser, SetLimit, copies, Alone, TypeOK
  <2>6. QED
    BY <1>5, <2>1, <2>2, <2>3, <2>4, <2>5 DEF Alone
<1>11. ASSUME NEW r \in Req, SaveMoney(r) \/ PayIncome(r) \/ AddIncomeRow(r) PROVE LoneInv'
  <2>1. Busy(r) /\ stage[r] \in {"leg", "row"}
    BY <1>11 DEF SaveMoney, PayIncome, AddIncomeRow, Busy
  <2>2. open[r] /\ ~unsaved[r] /\ ~stray[r] /\ Alone(r)
    BY <1>3, <2>1
  <2>3. UNCHANGED <<asset, money, todo, user, hasSnap, snap, open, stray, unsaved>>
    BY <1>11, <2>2 DEF SaveMoney, PayIncome, AddIncomeRow, copies, way, db
  <2>4. holder'["asset"] = holder["asset"]
    BY <1>11 DEF SaveMoney, PayIncome, AddIncomeRow, TypeOK, Rows
  <2>5. stage'[r] \in {"row", "commit"} /\ \A q \in Req \ {r} : stage'[q] = stage[q]
    BY <1>11 DEF SaveMoney, PayIncome, AddIncomeRow, TypeOK
  <2>6. QED
    BY <2>1, <2>2, <2>3, <2>4, <2>5, LoneKept DEF Alone
<1>12. ASSUME NEW r \in Req,
              RefuseAsset(r) \/ RefuseMoney(r) \/ SaveWholeUser(r) \/ Commit(r) \/ Crash(r)
       PROVE  LoneInv'
  <2>1. Busy(r)
    BY <1>12 DEF RefuseAsset, RefuseMoney, SaveWholeUser, Commit, Crash, Active, Busy
  <2>2. \E answer \in Replies : End(r, answer)
    BY <1>12 DEF RefuseAsset, RefuseMoney, SaveWholeUser, Commit, Crash, Replies
  <2>3. QED
    BY <1>2, <2>1, <2>2
<1>13. ASSUME NEW r \in Req, Deadlock(r) \/ LockWaitTimeout(r) PROVE FALSE
  BY <1>13, NobodyIsWaitedFor DEF Deadlock, LockWaitTimeout
<1>14. CASE UNCHANGED vars
  BY <1>14 DEF vars, db, copies, way, LoneInv, Apart, Alone, Busy, ZeroOnlySecond
<1>15. QED
  BY <1>1, <1>4, <1>6, <1>7, <1>8, <1>9, <1>10, <1>11, <1>12, <1>13, <1>14
     DEF Next, Step, AllServed

LEMMA InitLoneInv == Init => LoneInv
  BY DEF Init, LoneInv, Apart, Busy
-----------------------------------------------------------------------------
\* The chain of ledger rows, served one at a time.
LEMMA ChainedAppend ==
  ASSUME NEW rows \in Seq(LedgerRow), NEW row \in LedgerRow, NEW start,
         Chained(rows, start), row.before = LastAfter(rows, start)
  PROVE  Chained(Append(rows, row), start)
<1>1. /\ Len(Append(rows, row)) = Len(rows) + 1 /\ Len(rows) \in Nat
      /\ \A i \in 1..Len(rows) : Append(rows, row)[i] = rows[i]
      /\ Append(rows, row)[Len(rows) + 1] = row
      /\ rows = <<>> <=> Len(rows) = 0
  OBVIOUS
<1>2. SUFFICES ASSUME NEW i \in 1..(Len(rows) + 1)
               PROVE  Append(rows, row)[i].before =
                        IF i = 1 THEN start ELSE Append(rows, row)[i - 1].after
  BY <1>1 DEF Chained
<1>3. CASE i \in 1..Len(rows)
  <2>1. i # 1 => i - 1 \in 1..Len(rows)
    BY <1>3
  <2>2. QED
    BY <1>1, <1>3, <2>1 DEF Chained
<1>4. CASE i = Len(rows) + 1
  <2>1. i # 1 => i - 1 \in 1..Len(rows) /\ i - 1 = Len(rows)
    BY <1>1, <1>4
  <2>2. QED
    BY <1>1, <1>4, <2>1 DEF LastAfter
<1>5. QED
  BY <1>1, <1>3, <1>4

LEMMA ChainedConcat ==
  ASSUME NEW log \in Seq(LedgerRow), NEW rows \in Seq(LedgerRow), NEW start,
         Chained(log, start), Chained(rows, LastAfter(log, start))
  PROVE  Chained(log \o rows, start)
<1>1. /\ Len(log \o rows) = Len(log) + Len(rows) /\ Len(log) \in Nat /\ Len(rows) \in Nat
      /\ \A i \in 1..Len(log) : (log \o rows)[i] = log[i]
      /\ \A i \in 1..Len(rows) : (log \o rows)[Len(log) + i] = rows[i]
      /\ log = <<>> <=> Len(log) = 0
  OBVIOUS
<1>2. SUFFICES ASSUME NEW i \in 1..(Len(log) + Len(rows))
               PROVE  (log \o rows)[i].before =
                        IF i = 1 THEN start ELSE (log \o rows)[i - 1].after
  BY <1>1 DEF Chained
<1>3. CASE i \in 1..Len(log)
  <2>1. i # 1 => i - 1 \in 1..Len(log)
    BY <1>3
  <2>2. QED
    BY <1>1, <1>3, <2>1 DEF Chained
<1>4. CASE i \notin 1..Len(log)
  <2> DEFINE j == i - Len(log)
  <2>1. j \in 1..Len(rows) /\ i = Len(log) + j
    BY <1>1, <1>4
  <2>2. (log \o rows)[i] = rows[j]
    BY <1>1, <2>1
  <2>3. CASE j = 1
    <3>1. rows[j].before = LastAfter(log, start)
      BY <2>1, <2>3 DEF Chained
    <3>2. i # 1 => Len(log) \in 1..Len(log) /\ i - 1 = Len(log) /\ log # <<>>
      BY <1>1, <2>1, <2>3
    <3>3. i = 1 => log = <<>>
      BY <1>1, <2>1, <2>3
    <3>4. QED
      BY <1>1, <2>2, <3>1, <3>2, <3>3 DEF LastAfter
  <2>4. CASE j # 1
    <3>1. j - 1 \in 1..Len(rows) /\ i - 1 = Len(log) + (j - 1) /\ i # 1
      BY <1>1, <2>1, <2>4
    <3>2. rows[j].before = rows[j - 1].after
      BY <2>1, <2>4 DEF Chained
    <3>3. (log \o rows)[i - 1] = rows[j - 1]
      BY <1>1, <3>1
    <3>4. QED
      BY <2>2, <3>1, <3>2, <3>3
  <2>5. QED
    BY <2>3, <2>4
<1>5. QED
  BY <1>3, <1>4

\* The rows a transaction has inserted continue the committed ones, and the copy
\* that is about to be saved continues them.
RowsChained(r) ==
  /\ Chained(coinRows[r], Balance(asset))
  /\ stage[r] = "save" \/ AboutToBook(r) => read[r] = LastAfter(coinRows[r], Balance(asset))

\* With the ledger committed as one chain, that ends in the balance.
CInv ==
  /\ CoinRowsChained
  /\ Balance(asset) = LastAfter(coinLog, Balance(Asset0))
  /\ \A r \in Req : RowsChained(r)

\* Whoever is not served has inserted nothing.
LEMMA IdleRowsChained ==
  ASSUME AInv, LoneInv, NEW q \in Req, stage'[q] = stage[q], ~Busy(q), coinRows'[q] = coinRows[q]
  PROVE  RowsChained(q)'
<1>1. coinRows[q] = <<>>
  BY DEF LoneInv, AInv, AssetBooked, Busy
<1>2. QED
  BY <1>1 DEF RowsChained, Chained, AboutToBook, Busy

LEMMA StepCInv ==
  ASSUME IInv, AInv, MInv, LoneInv, CInv, [Next]_vars
  PROVE  CInv'
<1> USE DEF IInv
\* The balance goes with the ledger, as in StepAssetFollows: nobody is exempt.
<1>0. Balance(asset)' = LastAfter(coinLog', Balance(Asset0))
  <2>1. \A r \in Moved : ~Apart(r) /\ ~stray[r]
    BY DEF Moved, LoneInv
  <2>2. \/ UNCHANGED <<Balance(asset), coinLog>>
        \/ Balance(asset') = LastAfter(coinLog', Balance(Asset0))
        \/ UNCHANGED vars
    BY <2>1, StepAssetFollows
  <2>3. CASE UNCHANGED <<Balance(asset), coinLog>>
    BY <2>3 DEF CInv
  <2>4. CASE UNCHANGED vars
    BY <2>4 DEF CInv, vars, db, Balance
  <2>5. QED
    BY <2>2, <2>3, <2>4 DEF Balance
\* The request that is served is the one that takes the step.
<1>1. ASSUME NEW r \in Req, Busy(r), UNCHANGED coinLog,
             \A q \in Req \ {r} : stage'[q] = stage[q] /\ coinRows'[q] = coinRows[q],
             RowsChained(r)'
      PROVE  CInv'
  <2>1. \A q \in Req \ {r} : ~Busy(q)
    BY <1>1 DEF LoneInv, Alone
  <2>2. \A q \in Req \ {r} : RowsChained(q)'
    BY <1>1, <2>1, IdleRowsChained
  <2>3. QED
    BY <1>1, <1>0, <2>2 DEF CInv, CoinRowsChained
<1>2. ASSUME NEW r \in Req, NEW answer \in Replies, End(r, answer), Busy(r)
      PROVE  \A q \in Req : RowsChained(q)'
  <2>1. \A q \in Req \ {r} : RowsChained(q)'
    <3>1. \A q \in Req \ {r} : ~Busy(q) /\ stage'[q] = stage[q] /\ coinRows'[q] = coinRows[q]
      BY <1>2 DEF LoneInv, Alone, End, TypeOK
    <3>2. QED
      BY <3>1, IdleRowsChained
  <2>2. stage'[r] = "done" /\ coinRows'[r] = <<>>
    BY <1>2 DEF End, TypeOK
  <2>3. RowsChained(r)'
    BY <2>2 DEF RowsChained, Chained, AboutToBook
  <2>4. QED
    BY <2>1, <2>3
<1>3. ASSUME NEW r \in Req, Arrive(r) PROVE CInv'
  <2>1. PICK op \in Ops, a \in Amounts, x \in Extras : Accept(r, op, a, x)
    BY <1>3 DEF Arrive
  <2>2. UNCHANGED <<asset, coinLog, coinRows, read>>
    BY <2>1 DEF Accept, db, buffer
  <2>3. \A q \in Req \ {r} : stage'[q] = stage[q] /\ todo'[q] = todo[q]
    BY <2>1 DEF Accept, TypeOK
  <2>4. stage'[r] \notin {"save", "row"}
    BY <2>1 DEF Accept, FirstStage, TypeOK
  <2>5. QED
    BY <2>2, <2>3, <2>4 DEF CInv, CoinRowsChained, RowsChained, AboutToBook
<1>4. ASSUME NEW r \in Req, NEW answer \in Replies, End(r, answer), Busy(r), UNCHANGED coinLog
      PROVE  CInv'
  BY <1>2, <1>4, <1>0 DEF CInv, CoinRowsChained
<1>5. ASSUME NEW r \in Req, BalanceCheck(r) PROVE CInv'
  <2>1. CASE End(r, "error")
    BY <1>4, <1>5, <2>1 DEF BalanceCheck, db, Replies, Busy
  <2>2. CASE /\ stage' = [stage EXCEPT ![r] = "leg"]
             /\ UNCHANGED <<holder, todo, copies, way, buffer, reply>>
    <3>1. Busy(r) /\ UNCHANGED <<asset, coinLog, coinRows, read>>
      BY <1>5, <2>2 DEF BalanceCheck, db, copies, buffer, Busy
    <3>2. stage'[r] = "leg" /\ \A q \in Req \ {r} : stage'[q] = stage[q]
      BY <2>2 DEF TypeOK
    <3>3. QED
      BY <1>1, <3>1, <3>2 DEF CInv, RowsChained, AboutToBook
  <2>3. QED
    BY <1>5, <2>1, <2>2 DEF BalanceCheck
<1>6. ASSUME NEW r \in Req, ReadAsset(r) PROVE CInv'
  <2>1. Busy(r) /\ UNCHANGED <<asset, coinLog>> /\ stage[r] = "leg"
    BY <1>6 DEF ReadAsset, db, Busy
  <2>2. UNCHANGED coinRows /\ \A q \in Req \ {r} : stage'[q] = stage[q]
    BY <1>6 DEF ReadAsset, Decide, NextLeg, buffer, TypeOK
  <2>3. \/ stage'[r] \in {"create", "leg", "commit"}
        \/ stage'[r] = "save" /\ read'[r] = View(r) /\ View(r) # NoRow
    BY <1>6 DEF ReadAsset, Decide, NextLeg, TypeOK
  <2>4. View(r) # NoRow => View(r) = LastAfter(coinRows[r], Balance(asset))
    <3>1. AssetBooked(r) /\ Alone(r) /\ ~AboutToBook(r) /\ open[r] /\ ~stray[r]
      BY <2>1 DEF AInv, LoneInv, AboutToBook, Apart
    <3>2. CASE holder["asset"] = r
      BY <3>1, <3>2 DEF View, AssetBooked, LastAfter
    <3>3. CASE holder["asset"] # r
      BY <2>1, <3>1, <3>3 DEF View, AssetBooked, Alone, LastAfter, Balance
    <3>4. QED
      BY <3>2, <3>3
  <2>5. RowsChained(r)'
    BY <2>1, <2>2, <2>3, <2>4 DEF CInv, RowsChained, AboutToBook
  <2>6. QED
    BY <1>1, <2>1, <2>2, <2>5
<1>7. ASSUME NEW r \in Req, CreateRow(r) PROVE CInv'
  <2>1. Busy(r) /\ UNCHANGED coinLog /\ Balance(asset)' = Balance(asset)
    BY <1>7, CreateKeepsBalance DEF CreateRow, Busy
  <2>2. /\ asset = NoRow /\ holder["asset"] # r /\ Head(todo[r]).amount # 0
        /\ AssetBooked(r) /\ ~AboutToBook(r)
    BY <1>7, <2>1 DEF CreateRow, LoneInv, Alone, AInv, AboutToBook
  <2>3. coinRows[r] = <<>> /\ Balance(asset) = 0
    BY <2>2 DEF AssetBooked, Balance
  <2>4. /\ read' = [read EXCEPT ![r] = 0] /\ stage' = [stage EXCEPT ![r] = "save"]
        /\ UNCHANGED coinRows
    BY <1>7, <2>2 DEF CreateRow, Decide, buffer
  <2>5. /\ read'[r] = 0 /\ stage'[r] = "save" /\ coinRows'[r] = <<>>
        /\ \A q \in Req \ {r} : stage'[q] = stage[q]
    BY <2>3, <2>4 DEF TypeOK
  <2>6. RowsChained(r)'
    BY <2>1, <2>3, <2>5 DEF RowsChained, Chained, LastAfter
  <2>7. QED
    BY <1>1, <2>1, <2>4, <2>5, <2>6
<1>8. ASSUME NEW r \in Req, SaveAsset(r) PROVE CInv'
  <2>1. Busy(r) /\ open[r] /\ stage[r] = "save" /\ ~stray[r]
    BY <1>8 DEF SaveAsset, Busy, LoneInv, Apart
  <2>2. UNCHANGED <<asset, coinLog, coinRows, read, todo>> /\ stage' = [stage EXCEPT ![r] = "row"]
    BY <1>8, <2>1 DEF SaveAsset, copies
  <2>3. RowsChained(r)'
    BY <2>1, <2>2 DEF CInv, RowsChained
  <2>4. \A q \in Req \ {r} : stage'[q] = stage[q]
    BY <2>2 DEF TypeOK
  <2>5. QED
    BY <1>1, <2>1, <2>2, <2>3, <2>4
<1>9. ASSUME NEW r \in Req, AddCoinRow(r) PROVE CInv'
  <2> DEFINE row == Row(r, Head(todo[r]).amount, read[r])
  <2>1. /\ coinRows' = [coinRows EXCEPT ![r] = Append(coinRows[r], row)]
        /\ UNCHANGED <<asset, coinLog>>
        /\ NextLeg(r) /\ AboutToBook(r) /\ Busy(r)
    BY <1>9 DEF AddCoinRow, copies, AboutToBook, Busy, LoneInv, Apart
  <2>2. row \in LedgerRow
    <3>1. todo[r] # <<>> /\ read[r] + Head(todo[r]).amount >= 0
      BY <2>1 DEF AboutToBook, CopiesCover
    <3>2. Head(todo[r]) \in LegSet /\ read[r] \in Nat
      BY <3>1, HeadInSet DEF TypeOK
    <3>3. QED
      BY <3>1, <3>2, RowType DEF LegSet
  <2>3. row.before = LastAfter(coinRows[r], Balance(asset))
    BY <2>1 DEF CInv, RowsChained, Row
  <2> HIDE DEF row
  <2>4. coinRows[r] \in Seq(LedgerRow) /\ coinRows'[r] = Append(coinRows[r], row)
    BY <2>1 DEF TypeOK
  <2>5. Chained(coinRows'[r], Balance(asset))
    BY <2>2, <2>3, <2>4, ChainedAppend DEF CInv, RowsChained
  <2>6. /\ stage'[r] \in {"leg", "commit"}
        /\ \A q \in Req \ {r} : stage'[q] = stage[q] /\ coinRows'[q] = coinRows[q]
    BY <2>1 DEF NextLeg, TypeOK
  <2>7. RowsChained(r)'
    BY <2>1, <2>5, <2>6 DEF RowsChained, AboutToBook
  <2>8. QED
    BY <1>1, <2>1, <2>6, <2>7
<1>10. ASSUME NEW r \in Req, SaveMoney(r) \/ PayIncome(r) PROVE CInv'
  <2>1. Busy(r) /\ UNCHANGED <<asset, coinLog, coinRows, todo>>
    BY <1>10 DEF SaveMoney, PayIncome, Busy, db
  <2>2. /\ stage'[r] = "row" /\ Head(todo'[r]).kind # "coin"
        /\ \A q \in Req \ {r} : stage'[q] = stage[q]
    BY <1>10, <2>1 DEF SaveMoney, PayIncome, TypeOK
  <2>3. RowsChained(r)'
    BY <2>1, <2>2 DEF CInv, RowsChained, AboutToBook
  <2>4. QED
    BY <1>1, <2>1, <2>2, <2>3
<1>11. ASSUME NEW r \in Req, AddManRow(r) \/ RereadUser(r) \/ SetLimit(r) PROVE CInv'
  <2>1. Busy(r) /\ UNCHANGED <<asset, coinLog, coinRows>> /\ NextLeg(r)
    BY <1>11 DEF AddManRow, RereadUser, SetLimit, db, buffer, Busy
  <2>2. stage'[r] \in {"leg", "commit"} /\ \A q \in Req \ {r} : stage'[q] = stage[q]
    BY <2>1 DEF NextLeg, TypeOK
  <2>3. RowsChained(r)'
    BY <2>1, <2>2 DEF CInv, RowsChained, AboutToBook
  <2>4. QED
    BY <1>1, <2>1, <2>2, <2>3
<1>12. ASSUME NEW r \in Req, AddIncomeRow(r) PROVE CInv'
  <2>1. Busy(r) /\ UNCHANGED <<asset, coinLog, coinRows>>
    BY <1>12 DEF AddIncomeRow, db, Busy
  <2>2. stage'[r] = "commit" /\ \A q \in Req \ {r} : stage'[q] = stage[q]
    BY <1>12 DEF AddIncomeRow, TypeOK
  <2>3. RowsChained(r)'
    BY <2>1, <2>2 DEF CInv, RowsChained, AboutToBook
  <2>4. QED
    BY <1>1, <2>1, <2>2, <2>3
<1>13. ASSUME NEW r \in Req, Commit(r) PROVE CInv'
  <2>1. /\ Busy(r) /\ End(r, "ok") /\ coinLog' = coinLog \o coinRows[r]
    BY <1>13 DEF Commit, Busy
  <2>2. \A q \in Req : RowsChained(q)'
    BY <1>2, <2>1 DEF Replies
  <2>3. /\ Chained(coinLog, Balance(Asset0))
        /\ Chained(coinRows[r], LastAfter(coinLog, Balance(Asset0)))
    BY DEF CInv, CoinRowsChained, RowsChained
  <2>4. coinLog \in Seq(LedgerRow) /\ coinRows[r] \in Seq(LedgerRow)
    BY DEF TypeOK
  <2>5. Chained(coinLog', Balance(Asset0))
    BY <2>1, <2>3, <2>4, ChainedConcat
  <2>6. QED
    BY <1>0, <2>2, <2>5 DEF CInv, CoinRowsChained
<1>14. ASSUME NEW r \in Req,
              RefuseAsset(r) \/ RefuseMoney(r) \/ SaveWholeUser(r) \/ Crash(r)
       PROVE  CInv'
  <2>1. Busy(r) /\ UNCHANGED coinLog
    BY <1>14 DEF RefuseAsset, RefuseMoney, SaveWholeUser, Crash, Active, Busy, db
  <2>2. \E answer \in Replies : End(r, answer)
    BY <1>14 DEF RefuseAsset, RefuseMoney, SaveWholeUser, Crash, Replies
  <2>3. QED
    BY <1>4, <2>1, <2>2
<1>15. ASSUME NEW r \in Req, Deadlock(r) \/ LockWaitTimeout(r) PROVE FALSE
  BY <1>15, NobodyIsWaitedFor DEF Deadlock, LockWaitTimeout
<1>16. CASE UNCHANGED vars
  BY <1>16, <1>0 DEF vars, db, copies, buffer, CInv, CoinRowsChained, RowsChained, AboutToBook
<1>17. QED
  BY <1>3, <1>5, <1>6, <1>7, <1>8, <1>9, <1>10, <1>11, <1>12, <1>13, <1>14, <1>15, <1>16
     DEF Next, Step, AllServed

LEMMA InitCInv == Init => CInv
  BY DEF Init, CInv, CoinRowsChained, RowsChained, Chained, AboutToBook, LastAfter

\* Served one at a time, each UserCoinChange row starts from the balance the row
\* before it ended with, refusals, crashes and the creation of the asset row
\* included; with two at a time it is false, as the run wallet_lost_update shows.
\* The callers of UpdateCoinAssetsBalance without a transaction are left out: a
\* crash between their two statements breaks the chain.
THEOREM WalletCoinRowsChained ==
  ASSUME MaxActive = 1, "SaveIdCardInfo" \notin Ops
  PROVE  Spec => []CoinRowsChained
<1>1. LoneInv /\ AInv /\ MInv /\ IInv /\ [Next]_vars => LoneInv'
  BY StepLoneInv
<1>2. CInv /\ LoneInv /\ AInv /\ MInv /\ IInv /\ [Next]_vars => CInv'
  BY StepCInv
<1>3. CInv => CoinRowsChained
  BY DEF CInv
<1>4. QED
  BY InitIInv, InitAInv, InitMInv, InitLoneInv, InitCInv,
     StepIInv, StepAInv, StepMInv, <1>1, <1>2, <1>3, PTL DEF Spec
-----------------------------------------------------------------------------
\* The refinement, served one at a time.  A request goes through the stations of
\* its handler: the legs it still has to run, and the amounts of the rows it has
\* inserted.  The rebates are not among them: their second row starts where the
\* first one started, and no wallet that books one row after another does that; nor
\* is the hourly income, or a caller that books without a transaction.
At(legs, coins, mans) == [legs |-> legs, coins |-> coins, mans |-> mans]
OneOrTwo(n, m) == IF m = 0 THEN <<n>> ELSE <<n, m>>

Stations(op, a, x) ==
  CASE op = "CMTransferIn"    -> {At(<<Coin(-a), Man(a)>>, <<>>, <<>>),
                                  At(<<Man(a)>>, <<-a>>, <<>>),
                                  At(<<>>, <<-a>>, <<a>>)}
    [] op = "CMTransferOut"   -> {At(<<Man(-a), Coin(a)>>, <<>>, <<>>),
                                  At(<<Coin(a)>>, <<>>, <<-a>>),
                                  At(<<>>, <<a>>, <<-a>>)}
    [] op = "WithdrawApply"   -> {At(<<Coin(-a), Coin(-x)>>, <<>>, <<>>),
                                  At(<<Coin(-x)>>, <<-a>>, <<>>),
                                  At(<<>>, OneOrTwo(-a, -x), <<>>)}
    [] op = "rechargeArrives" -> {At(<<Coin(a), Coin(x), Limit>>, <<>>, <<>>),
                                  At(<<Coin(x), Limit>>, <<a>>, <<>>),
                                  At(<<Limit>>, OneOrTwo(a, x), <<>>),
                                  At(<<>>, OneOrTwo(a, x), <<>>)}
    [] op = "Notify2Handler"  -> {At(<<Coin(a), Limit>>, <<>>, <<>>),
                                  At(<<Limit>>, <<a>>, <<>>),
                                  At(<<>>, <<a>>, <<>>)}
    [] op \in SavesUser       -> {At(<<>>, <<>>, <<>>)}

Serial == Handlers \ {"RebateIncome", "SaveIdCardInfo", "IncomeHours"}

\* Where a request is once it has run its next leg.
Forth(st) ==
  LET leg == Head(st.legs) IN
  CASE leg.kind = "coin" /\ leg.amount # 0 -> At(Tail(st.legs), Append(st.coins, leg.amount), st.mans)
    [] leg.kind = "man" -> At(Tail(st.legs), st.coins, Append(st.mans, leg.amount))
    [] OTHER -> At(Tail(st.legs), st.coins, st.mans)

LEMMA StationsStart ==
  ASSUME NEW op \in Serial, NEW a, NEW x
  PROVE  At(Program(op, a, x), <<>>, <<>>) \in Stations(op, a, x)
<1>1. CASE op = "CMTransferIn"
  BY <1>1 DEF Stations, Program
<1>2. CASE op = "CMTransferOut"
  BY <1>2 DEF Stations, Program
<1>3. CASE op = "WithdrawApply"
  BY <1>3 DEF Stations, Program
<1>4. CASE op = "rechargeArrives"
  BY <1>4 DEF Stations, Program
<1>5. CASE op = "Notify2Handler"
  BY <1>5 DEF Stations, Program
<1>6. CASE op \in SavesUser
  BY <1>6 DEF Stations, Program, SavesUser
<1>7. QED
  BY <1>1, <1>2, <1>3, <1>4, <1>5, <1>6 DEF Serial, Handlers, SavesUser

\* Tuples of up to three elements.
LEMMA AppendTwo == ASSUME NEW e, NEW f PROVE Append(<<e>>, f) = <<e, f>>
<1> DEFINE s == Append(<<e>>, f)
           t == <<e, f>>
<1>1. <<e>> \in Seq({e, f}) /\ Len(<<e>>) = 1 /\ <<e>>[1] = e
  OBVIOUS
<1>2. s \in Seq({e, f}) /\ Len(s) = 2 /\ s[1] = e /\ s[2] = f
  BY <1>1, AppendProperties
<1>3. t \in Seq({e, f}) /\ Len(t) = 2 /\ t[1] = e /\ t[2] = f
  OBVIOUS
<1>4. \A i \in 1..2 : s[i] = t[i]
  BY <1>2, <1>3
<1>5. QED
  BY <1>2, <1>3, <1>4, SeqEqual

LEMMA Tuples ==
  /\ \A e : Head(<<e>>) = e /\ Tail(<<e>>) = <<>> /\ Append(<<>>, e) = <<e>>
  /\ \A e, f : Head(<<e, f>>) = e /\ Tail(<<e, f>>) = <<f>> /\ Append(<<e>>, f) = <<e, f>>
  /\ \A e, f, g : Head(<<e, f, g>>) = e /\ Tail(<<e, f, g>>) = <<f, g>>
<1>1. \A e : Head(<<e>>) = e /\ Tail(<<e>>) = <<>> /\ Append(<<>>, e) = <<e>>
  OBVIOUS
<1>2. ASSUME NEW e, NEW f
      PROVE  Head(<<e, f>>) = e /\ Tail(<<e, f>>) = <<f>> /\ Append(<<e>>, f) = <<e, f>>
  <2>1. Head(<<e, f>>) = e /\ Tail(<<e, f>>) = <<f>>
    OBVIOUS
  <2>2. Append(<<e>>, f) = <<e, f>>
    BY AppendTwo
  <2>3. QED
    BY <2>1, <2>2
<1>3. \A e, f, g : Head(<<e, f, g>>) = e /\ Tail(<<e, f, g>>) = <<f, g>>
  OBVIOUS
<1>4. QED
  BY <1>1, <1>2, <1>3

\* One leg, whatever follows it.
LEMMA ForthLeg ==
  ASSUME NEW st, NEW n
  PROVE  /\ Head(st.legs) = Coin(n) /\ n # 0 =>
              Forth(st) = At(Tail(st.legs), Append(st.coins, n), st.mans)
         /\ Head(st.legs) = Coin(n) /\ n = 0 => Forth(st) = At(Tail(st.legs), st.coins, st.mans)
         /\ Head(st.legs) = Man(n) => Forth(st) = At(Tail(st.legs), st.coins, Append(st.mans, n))
         /\ Head(st.legs) = Limit => Forth(st) = At(Tail(st.legs), st.coins, st.mans)
<1>1. /\ Coin(n).kind = "coin" /\ Coin(n).amount = n
      /\ Man(n).kind = "man" /\ Man(n).amount = n /\ Limit.kind = "limit"
  BY DEF Coin, Man, Limit, Leg
<1>2. CASE Head(st.legs) = Coin(n)
  BY <1>1, <1>2 DEF Forth
<1>3. CASE Head(st.legs) = Man(n)
  BY <1>1, <1>3 DEF Forth
<1>4. CASE Head(st.legs) = Limit
  BY <1>1, <1>4 DEF Forth
<1>5. QED
  BY <1>2, <1>3, <1>4

LEMMA StationsGoForth ==
  ASSUME NEW op \in Serial, NEW a \in Nat \ {0}, NEW x \in Nat,
         NEW st \in Stations(op, a, x), st.legs # <<>>
  PROVE  Forth(st) \in Stations(op, a, x) /\ Head(st.legs).kind \in {"coin", "man", "limit"}
<1>0. /\ \A legs, coins, mans : /\ At(legs, coins, mans).legs = legs
                                 /\ At(legs, coins, mans).coins = coins
                                 /\ At(legs, coins, mans).mans = mans
      /\ \A n : Coin(n).kind = "coin" /\ Man(n).kind = "man"
      /\ Limit.kind = "limit"
  BY DEF At, Coin, Man, Limit, Leg
<1>1. CASE op = "CMTransferIn"
  <2>1. CASE st = At(<<Coin(-a), Man(a)>>, <<>>, <<>>)
    <3>1. st.legs = <<Coin(-a), Man(a)>> /\ st.coins = <<>> /\ st.mans = <<>>
      BY <1>0, <2>1
    <3>2. Head(st.legs) = Coin(-a) /\ Tail(st.legs) = <<Man(a)>>
      BY <3>1, Tuples
    <3>3. Append(st.coins, -a) = <<-a>> /\ -a # 0
      BY <3>1, Tuples
    <3>4. Forth(st) = At(<<Man(a)>>, <<-a>>, <<>>)
      BY <3>1, <3>2, <3>3, ForthLeg
    <3>5. QED
      BY <1>0, <1>1, <3>2, <3>4 DEF Stations
  <2>2. CASE st = At(<<Man(a)>>, <<-a>>, <<>>)
    <3>1. st.legs = <<Man(a)>> /\ st.coins = <<-a>> /\ st.mans = <<>>
      BY <1>0, <2>2
    <3>2. Head(st.legs) = Man(a) /\ Tail(st.legs) = <<>>
      BY <3>1, Tuples
    <3>3. Append(st.mans, a) = <<a>>
      BY <3>1, Tuples
    <3>4. Forth(st) = At(<<>>, <<-a>>, <<a>>)
      BY <3>1, <3>2, <3>3, ForthLeg
    <3>5. QED
      BY <1>0, <1>1, <3>2, <3>4 DEF Stations
  <2>3. QED
    BY <1>0, <1>1, <2>1, <2>2 DEF Stations
<1>2. CASE op = "CMTransferOut"
  <2>1. CASE st = At(<<Man(-a), Coin(a)>>, <<>>, <<>>)
    <3>1. st.legs = <<Man(-a), Coin(a)>> /\ st.coins = <<>> /\ st.mans = <<>>
      BY <1>0, <2>1
    <3>2. Head(st.legs) = Man(-a) /\ Tail(st.legs) = <<Coin(a)>>
      BY <3>1, Tuples
    <3>3. Append(st.mans, -a) = <<-a>>
      BY <3>1, Tuples
    <3>4. Forth(st) = At(<<Coin(a)>>, <<>>, <<-a>>)
      BY <3>1, <3>2, <3>3, ForthLeg
    <3>5. QED
      BY <1>0, <1>2, <3>2, <3>4 DEF Stations
  <2>2. CASE st = At(<<Coin(a)>>, <<>>, <<-a>>)
    <3>1. st.legs = <<Coin(a)>> /\ st.coins = <<>> /\ st.mans = <<-a>>
      BY <1>0, <2>2
    <3>2. Head(st.legs) = Coin(a) /\ Tail(st.legs) = <<>>
      BY <3>1, Tuples
    <3>3. Append(st.coins, a) = <<a>> /\ a # 0
      BY <3>1, Tuples
    <3>4. Forth(st) = At(<<>>, <<a>>, <<-a>>)
      BY <3>1, <3>2, <3>3, ForthLeg
    <3>5. QED
      BY <1>0, <1>2, <3>2, <3>4 DEF Stations
  <2>3. QED
    BY <1>0, <1>2, <2>1, <2>2 DEF Stations
<1>3. CASE op = "WithdrawApply"
  <2>1. CASE st = At(<<Coin(-a), Coin(-x)>>, <<>>, <<>>)
    <3>1. st.legs = <<Coin(-a), Coin(-x)>> /\ st.coins = <<>> /\ st.mans = <<>>
      BY <1>0, <2>1
    <3>2. Head(st.legs) = Coin(-a) /\ Tail(st.legs) = <<Coin(-x)>>
      BY <3>1, Tuples
    <3>3. Append(st.coins, -a) = <<-a>> /\ -a # 0
      BY <3>1, Tuples
    <3>4. Forth(st) = At(<<Coin(-x)>>, <<-a>>, <<>>)
      BY <3>1, <3>2, <3>3, ForthLeg
    <3>5. QED
      BY <1>0, <1>3, <3>2, <3>4 DEF Stations
  <2>2. CASE st = At(<<Coin(-x)>>, <<-a>>, <<>>)
    <3>1. st.legs = <<Coin(-x)>> /\ st.coins = <<-a>> /\ st.mans = <<>>
      BY <1>0, <2>2
    <3>2. Head(st.legs) = Coin(-x) /\ Tail(st.legs) = <<>>
      BY <3>1, Tuples
    <3>3. IF -x = 0 THEN st.coins = OneOrTwo(-a, -x) ELSE Append(st.coins, -x) = OneOrTwo(-a, -x)
      BY <3>1, Tuples DEF OneOrTwo
    <3>4. Forth(st) = At(<<>>, OneOrTwo(-a, -x), <<>>)
      BY <3>1, <3>2, <3>3, ForthLeg
    <3>5. QED
      BY <1>0, <1>3, <3>2, <3>4 DEF Stations
  <2>3. QED
    BY <1>0, <1>3, <2>1, <2>2 DEF Stations
<1>4. CASE op = "rechargeArrives"
  <2>1. CASE st = At(<<Coin(a), Coin(x), Limit>>, <<>>, <<>>)
    <3>1. st.legs = <<Coin(a), Coin(x), Limit>> /\ st.coins = <<>> /\ st.mans = <<>>
      BY <1>0, <2>1
    <3>2. Head(st.legs) = Coin(a) /\ Tail(st.legs) = <<Coin(x), Limit>>
      BY <3>1, Tuples
    <3>3. Append(st.coins, a) = <<a>> /\ a # 0
      BY <3>1, Tuples
    <3>4. Forth(st) = At(<<Coin(x), Limit>>, <<a>>, <<>>)
      BY <3>1, <3>2, <3>3, ForthLeg
    <3>5. QED
      BY <1>0, <1>4, <3>2, <3>4 DEF Stations
  <2>2. CASE st = At(<<Coin(x), Limit>>, <<a>>, <<>>)
    <3>1. st.legs = <<Coin(x), Limit>> /\ st.coins = <<a>> /\ st.mans = <<>>
      BY <1>0, <2>2
    <3>2. Head(st.legs) = Coin(x) /\ Tail(st.legs) = <<Limit>>
      BY <3>1, Tuples
    <3>3. IF x = 0 THEN st.coins = OneOrTwo(a, x) ELSE Append(st.coins, x) = OneOrTwo(a, x)
      BY <3>1, Tuples DEF OneOrTwo
    <3>4. Forth(st) = At(<<Limit>>, OneOrTwo(a, x), <<>>)
      BY <3>1, <3>2, <3>3, ForthLeg
    <3>5. QED
      BY <1>0, <1>4, <3>2, <3>4 DEF Stations
  <2>3. CASE st = At(<<Limit>>, OneOrTwo(a, x), <<>>)
    <3>1. st.legs = <<Limit>> /\ st.coins = OneOrTwo(a, x) /\ st.mans = <<>>
      BY <1>0, <2>3
    <3>2. Head(st.legs) = Limit /\ Tail(st.legs) = <<>>
      BY <3>1, Tuples
    <3>3. Forth(st) = At(<<>>, OneOrTwo(a, x), <<>>)
      BY <3>1, <3>2, ForthLeg
    <3>4. QED
      BY <1>0, <1>4, <3>2, <3>3 DEF Stations
  <2>4. QED
    BY <1>0, <1>4, <2>1, <2>2, <2>3 DEF Stations
<1>5. CASE op = "Notify2Handler"
  <2>1. CASE st = At(<<Coin(a), Limit>>, <<>>, <<>>)
    <3>1. st.legs = <<Coin(a), Limit>> /\ st.coins = <<>> /\ st.mans = <<>>
      BY <1>0, <2>1
    <3>2. Head(st.legs) = Coin(a) /\ Tail(st.legs) = <<Limit>>
      BY <3>1, Tuples
    <3>3. Append(st.coins, a) = <<a>> /\ a # 0
      BY <3>1, Tuples
    <3>4. Forth(st) = At(<<Limit>>, <<a>>, <<>>)
      BY <3>1, <3>2, <3>3, ForthLeg
    <3>5. QED
      BY <1>0, <1>5, <3>2, <3>4 DEF Stations
  <2>2. CASE st = At(<<Limit>>, <<a>>, <<>>)
    <3>1. st.legs = <<Limit>> /\ st.coins = <<a>> /\ st.mans = <<>>
      BY <1>0, <2>2
    <3>2. Head(st.legs) = Limit /\ Tail(st.legs) = <<>>
      BY <3>1, Tuples
    <3>3. Forth(st) = At(<<>>, <<a>>, <<>>)
      BY <3>1, <3>2, ForthLeg
    <3>4. QED
      BY <1>0, <1>5, <3>2, <3>3 DEF Stations
  <2>3. QED
    BY <1>0, <1>5, <2>1, <2>2 DEF Stations
<1>6. CASE op \in SavesUser
  BY <1>0, <1>6 DEF Stations, SavesUser
<1>7. QED
  BY <1>1, <1>2, <1>3, <1>4, <1>5, <1>6 DEF Serial, Handlers, SavesUser

LEMMA StationsType ==
  ASSUME NEW op \in Serial, NEW a \in Nat \ {0}, NEW x \in Nat, NEW st \in Stations(op, a, x)
  PROVE  st.coins \in Seq(Int) /\ st.mans \in Seq(Int)
<1>0. /\ <<>> \in Seq(Int) /\ <<a>> \in Seq(Int) /\ <<-a>> \in Seq(Int)
      /\ OneOrTwo(a, x) \in Seq(Int) /\ OneOrTwo(-a, -x) \in Seq(Int)
  BY DEF OneOrTwo
<1>1. \A legs, coins, mans : At(legs, coins, mans).coins = coins /\ At(legs, coins, mans).mans = mans
  BY DEF At
<1>2. CASE op = "CMTransferIn"
  <2>1. st.coins \in {<<>>, <<-a>>} /\ st.mans \in {<<>>, <<a>>}
    BY <1>1, <1>2 DEF Stations
  <2>2. QED
    BY <1>0, <2>1
<1>3. CASE op = "CMTransferOut"
  <2>1. st.coins \in {<<>>, <<a>>} /\ st.mans \in {<<>>, <<-a>>}
    BY <1>1, <1>3 DEF Stations
  <2>2. QED
    BY <1>0, <2>1
<1>4. CASE op = "WithdrawApply"
  <2>1. st.coins \in {<<>>, <<-a>>, OneOrTwo(-a, -x)} /\ st.mans \in {<<>>}
    BY <1>1, <1>4 DEF Stations
  <2>2. QED
    BY <1>0, <2>1
<1>5. CASE op = "rechargeArrives"
  <2>1. st.coins \in {<<>>, <<a>>, OneOrTwo(a, x)} /\ st.mans \in {<<>>}
    BY <1>1, <1>5 DEF Stations
  <2>2. QED
    BY <1>0, <2>1
<1>6. CASE op = "Notify2Handler"
  <2>1. st.coins \in {<<>>, <<a>>} /\ st.mans \in {<<>>}
    BY <1>1, <1>6 DEF Stations
  <2>2. QED
    BY <1>0, <2>1
<1>7. CASE op \in SavesUser
  <2>1. st.coins \in {<<>>} /\ st.mans \in {<<>>}
    BY <1>1, <1>7 DEF Stations, SavesUser
  <2>2. QED
    BY <1>0, <2>1
<1>8. QED
  BY <1>2, <1>3, <1>4, <1>5, <1>6, <1>7 DEF Serial, Handlers, SavesUser

\* The rows that book some amounts.
Lists(rows, amounts) ==
  /\ Len(rows) = Len(amounts)
  /\ \A i \in 1..Len(rows) : rows[i].amount = amounts[i]
Exact(rows) == \A i \in 1..Len(rows) : rows[i].after = rows[i].before + rows[i].amount
StartFrom(rows, balance) == \A i \in 1..Len(rows) : rows[i].before = balance

LEMMA ListsAppend ==
  ASSUME NEW rows \in Seq(LedgerRow), NEW row \in LedgerRow, NEW amounts \in Seq(Int)
  PROVE  /\ Lists(rows, amounts) => Lists(Append(rows, row), Append(amounts, row.amount))
         /\ Exact(rows) /\ row.after = row.before + row.amount => Exact(Append(rows, row))
         /\ \A b : StartFrom(rows, b) /\ row.before = b => StartFrom(Append(rows, row), b)
<1>1. /\ Len(Append(rows, row)) = Len(rows) + 1 /\ Len(rows) \in Nat
      /\ \A i \in 1..Len(rows) : Append(rows, row)[i] = rows[i]
      /\ Append(rows, row)[Len(rows) + 1] = row
  OBVIOUS
<1>2. row.amount \in Int
  BY DEF LedgerRow
<1>3. /\ Len(Append(amounts, row.amount)) = Len(amounts) + 1
      /\ \A i \in 1..Len(amounts) : Append(amounts, row.amount)[i] = amounts[i]
      /\ Append(amounts, row.amount)[Len(amounts) + 1] = row.amount
  BY <1>2
<1>4. \A i \in 1..(Len(rows) + 1) : i \in 1..Len(rows) \/ i = Len(rows) + 1
  BY <1>1
<1>5. Lists(rows, amounts) => Lists(Append(rows, row), Append(amounts, row.amount))
  BY <1>1, <1>3, <1>4 DEF Lists
<1>6. Exact(rows) /\ row.after = row.before + row.amount => Exact(Append(rows, row))
  BY <1>1, <1>4 DEF Exact
<1>7. \A b : StartFrom(rows, b) /\ row.before = b => StartFrom(Append(rows, row), b)
  BY <1>1, <1>4 DEF StartFrom
<1>8. QED
  BY <1>5, <1>6, <1>7

Underway(r) ==
  \E op \in Ops, a \in Amounts, x \in Extras : \E st \in Stations(op, a, x) :
    st.legs = todo[r] /\ Lists(coinRows[r], st.coins) /\ Lists(manRows[r], st.mans)

InOrderSoFar(r) ==
  /\ Underway(r)
  /\ Exact(coinRows[r]) /\ Exact(manRows[r]) /\ StartFrom(manRows[r], money)
  /\ stage[r] = "save" \/ AboutToBook(r) => Head(todo[r]).amount # 0
  /\ stage[r] = "commit" => todo[r] = <<>>

RInv == \A r \in Req : Busy(r) => InOrderSoFar(r)

\* The next leg leads from a station to the next one.
LEMMA LegKinds ==
  ASSUME Ops \subseteq Serial, NEW r \in Req, Underway(r), todo[r] # <<>>
  PROVE  Head(todo[r]).kind \in {"coin", "man", "limit"}
<1>1. PICK op \in Ops, a \in Amounts, x \in Extras : \E st \in Stations(op, a, x) : st.legs = todo[r]
  BY DEF Underway
<1>2. op \in Serial /\ a \in Nat \ {0} /\ x \in Nat
  BY WalletAssumption DEF Serial
<1>3. QED
  BY <1>1, <1>2, StationsGoForth

LEMMA UnderwayForth ==
  ASSUME Ops \subseteq Serial, IInv, NEW r \in Req, Underway(r), todo[r] # <<>>,
         todo'[r] = Tail(todo[r]),
         \/ /\ Head(todo[r]).kind = "coin" /\ Head(todo[r]).amount # 0
            /\ \E row \in LedgerRow : /\ row.amount = Head(todo[r]).amount
                                      /\ coinRows'[r] = Append(coinRows[r], row)
            /\ manRows'[r] = manRows[r]
         \/ /\ Head(todo[r]).kind = "man"
            /\ \E row \in LedgerRow : /\ row.amount = Head(todo[r]).amount
                                      /\ manRows'[r] = Append(manRows[r], row)
            /\ coinRows'[r] = coinRows[r]
         \/ /\ \/ Head(todo[r]).kind = "coin" /\ Head(todo[r]).amount = 0
               \/ Head(todo[r]).kind = "limit"
            /\ coinRows'[r] = coinRows[r] /\ manRows'[r] = manRows[r]
  PROVE  Underway(r)'
<1>1. PICK op \in Ops, a \in Amounts, x \in Extras : \E st \in Stations(op, a, x) :
        st.legs = todo[r] /\ Lists(coinRows[r], st.coins) /\ Lists(manRows[r], st.mans)
  BY DEF Underway
<1>2. PICK st \in Stations(op, a, x) :
        st.legs = todo[r] /\ Lists(coinRows[r], st.coins) /\ Lists(manRows[r], st.mans)
  BY <1>1
<1>3. op \in Serial /\ a \in Nat \ {0} /\ x \in Nat
  BY WalletAssumption DEF Serial
<1>4. Forth(st) \in Stations(op, a, x)
  BY <1>2, <1>3, StationsGoForth
<1>5. st.coins \in Seq(Int) /\ st.mans \in Seq(Int)
  BY <1>3, StationsType
<1>6. coinRows[r] \in Seq(LedgerRow) /\ manRows[r] \in Seq(LedgerRow)
  BY DEF IInv, TypeOK
<1> DEFINE leg == Head(todo[r])
<1>7. ASSUME leg.kind = "coin", leg.amount # 0, NEW row \in LedgerRow,
             row.amount = leg.amount,
             coinRows'[r] = Append(coinRows[r], row), manRows'[r] = manRows[r]
      PROVE  Underway(r)'
  <2>1. Forth(st) = At(Tail(todo[r]), Append(st.coins, leg.amount), st.mans)
    BY <1>2, <1>7 DEF Forth
  <2>2. /\ Forth(st).legs = todo'[r] /\ Forth(st).coins = Append(st.coins, row.amount)
        /\ Forth(st).mans = st.mans
    BY <1>7, <2>1 DEF At
  <2>3. Lists(coinRows'[r], Forth(st).coins)
    BY <1>2, <1>5, <1>6, <1>7, <2>2, ListsAppend
  <2>4. QED
    BY <1>2, <1>4, <1>7, <2>2, <2>3 DEF Underway
<1>8. ASSUME leg.kind = "man", NEW row \in LedgerRow, row.amount = leg.amount,
             manRows'[r] = Append(manRows[r], row), coinRows'[r] = coinRows[r]
      PROVE  Underway(r)'
  <2>1. Forth(st) = At(Tail(todo[r]), st.coins, Append(st.mans, leg.amount))
    BY <1>2, <1>8 DEF Forth
  <2>2. /\ Forth(st).legs = todo'[r] /\ Forth(st).mans = Append(st.mans, row.amount)
        /\ Forth(st).coins = st.coins
    BY <1>8, <2>1 DEF At
  <2>3. Lists(manRows'[r], Forth(st).mans)
    BY <1>2, <1>5, <1>6, <1>8, <2>2, ListsAppend
  <2>4. QED
    BY <1>2, <1>4, <1>8, <2>2, <2>3 DEF Underway
<1>9. ASSUME (leg.kind = "coin" /\ leg.amount = 0) \/ leg.kind = "limit",
             coinRows'[r] = coinRows[r], manRows'[r] = manRows[r]
      PROVE  Underway(r)'
  <2>1. Forth(st) = At(Tail(todo[r]), st.coins, st.mans)
    BY <1>2, <1>9 DEF Forth
  <2>2. Forth(st).legs = todo'[r] /\ Forth(st).coins = st.coins /\ Forth(st).mans = st.mans
    BY <1>9, <2>1 DEF At
  <2>3. QED
    BY <1>2, <1>4, <1>9, <2>2 DEF Underway
<1>10. QED
  BY <1>7, <1>8, <1>9

LEMMA StepRInv ==
  ASSUME MaxActive = 1, Ops \subseteq Serial,
         IInv, AInv, MInv, LoneInv, CInv, RInv, [Next]_vars
  PROVE  RInv'
<1> USE DEF IInv
\* The request that is served is the one that takes the step.
<1>1. ASSUME NEW r \in Req, Busy(r), \A q \in Req \ {r} : stage'[q] = stage[q],
             stage'[r] = "done" \/ InOrderSoFar(r)'
      PROVE  RInv'
  <2>1. \A q \in Req \ {r} : ~Busy(q)'
    BY <1>1 DEF LoneInv, Alone, Busy
  <2>2. stage'[r] = "done" => ~Busy(r)'
    BY DEF Busy
  <2>3. QED
    BY <1>1, <2>1, <2>2 DEF RInv
<1>2. ASSUME NEW r \in Req, NEW answer \in Replies, End(r, answer), Busy(r) PROVE RInv'
  BY <1>1, <1>2 DEF End, TypeOK
<1>3. ASSUME NEW r \in Req, Arrive(r) PROVE RInv'
  <2>1. PICK op \in Ops, a \in Amounts, x \in Extras : Accept(r, op, a, x)
    BY <1>3 DEF Arrive
  <2>2. /\ stage[r] = "idle" /\ UNCHANGED <<coinRows, manRows, money>>
        /\ todo'[r] = Program(op, a, x) /\ stage'[r] \in {"precheck", "whole", "leg"}
        /\ \A q \in Req \ {r} : stage'[q] = stage[q] /\ todo'[q] = todo[q]
    BY <1>3, <2>1 DEF Arrive, Accept, FirstStage, buffer, db, TypeOK
  <2>3. coinRows[r] = <<>> /\ manRows[r] = <<>>
    <3>1. AssetBooked(r) /\ MoneyBooked(r)
      BY DEF LoneInv, AInv, MInv
    <3>2. QED
      BY <2>2, <3>1 DEF AssetBooked, MoneyBooked
  <2>4. Underway(r)'
    <3>1. op \in Serial
      BY WalletAssumption DEF Serial
    <3>2. At(Program(op, a, x), <<>>, <<>>) \in Stations(op, a, x)
      BY <3>1, StationsStart
    <3>3. Lists(<<>>, <<>>)
      BY DEF Lists
    <3>4. /\ At(Program(op, a, x), <<>>, <<>>).legs = todo'[r]
          /\ At(Program(op, a, x), <<>>, <<>>).coins = <<>>
          /\ At(Program(op, a, x), <<>>, <<>>).mans = <<>>
      BY <2>2 DEF At
    <3>5. coinRows'[r] = <<>> /\ manRows'[r] = <<>>
      BY <2>2, <2>3
    <3>6. QED
      BY <3>2, <3>3, <3>4, <3>5 DEF Underway
  <2>5. InOrderSoFar(r)'
    BY <2>2, <2>3, <2>4 DEF InOrderSoFar, Exact, StartFrom, AboutToBook
  <2>6. \A q \in Req \ {r} : ~Busy(q)'
    <3>1. \A q \in Req : ~Busy(q)
      BY <1>3, NobodyIsServed DEF Arrive
    <3>2. QED
      BY <2>2, <3>1 DEF Busy
  <2>7. QED
    BY <2>5, <2>6 DEF RInv
<1>4. ASSUME NEW r \in Req, BalanceCheck(r) PROVE RInv'
  <2>1. Busy(r)
    BY <1>4 DEF BalanceCheck, Busy
  <2>2. CASE End(r, "error")
    BY <1>2, <2>1, <2>2 DEF Replies
  <2>3. CASE /\ stage' = [stage EXCEPT ![r] = "leg"]
             /\ UNCHANGED <<holder, todo, copies, way, buffer, reply>>
    <3>1. /\ UNCHANGED <<money, todo, coinRows, manRows>> /\ stage'[r] = "leg"
          /\ \A q \in Req \ {r} : stage'[q] = stage[q]
      BY <1>4, <2>3 DEF BalanceCheck, db, buffer, TypeOK
    <3>2. InOrderSoFar(r)'
      BY <2>1, <3>1 DEF RInv, InOrderSoFar, Underway, AboutToBook
    <3>3. QED
      BY <1>1, <2>1, <3>1, <3>2
  <2>4. QED
    BY <1>4, <2>2, <2>3 DEF BalanceCheck
<1>5. ASSUME NEW r \in Req, NEW balance, NEW astray, Decide(r, balance, astray),
             Busy(r), UNCHANGED money, todo[r] # <<>>, Head(todo[r]).kind = "coin"
      PROVE  RInv'
  <2>1. InOrderSoFar(r)
    BY <1>5 DEF RInv
  <2>2. CASE /\ Head(todo[r]).amount = 0 /\ NextLeg(r)
             /\ UNCHANGED <<holder, read, way, buffer, reply>>
    <3>1. /\ todo'[r] = Tail(todo[r]) /\ UNCHANGED <<coinRows, manRows>>
          /\ stage'[r] = IF todo'[r] = <<>> THEN "commit" ELSE "leg"
          /\ \A q \in Req \ {r} : stage'[q] = stage[q]
      BY <2>2 DEF NextLeg, buffer, TypeOK
    <3>2. Underway(r)'
      BY <1>5, <2>1, <2>2, <3>1, UnderwayForth DEF InOrderSoFar
    <3>3. InOrderSoFar(r)'
      BY <1>5, <2>1, <3>1, <3>2 DEF InOrderSoFar, AboutToBook
    <3>4. QED
      BY <1>1, <1>5, <3>1, <3>3
  <2>3. CASE /\ Head(todo[r]).amount # 0
             /\ stage' = [stage EXCEPT ![r] = "save"]
             /\ UNCHANGED <<holder, todo, open, unsaved, buffer, reply>>
    <3>1. /\ UNCHANGED <<todo, coinRows, manRows>> /\ stage'[r] = "save"
          /\ \A q \in Req \ {r} : stage'[q] = stage[q]
      BY <2>3 DEF buffer, TypeOK
    <3>2. InOrderSoFar(r)'
      BY <1>5, <2>1, <2>3, <3>1 DEF InOrderSoFar, Underway, AboutToBook
    <3>3. QED
      BY <1>1, <1>5, <3>1, <3>2
  <2>4. QED
    BY <1>5, <2>2, <2>3 DEF Decide
<1>6. ASSUME NEW r \in Req, ReadAsset(r) PROVE RInv'
  <2>1. /\ Busy(r) /\ InOrderSoFar(r) /\ todo[r] # <<>> /\ Head(todo[r]).kind = "coin"
        /\ UNCHANGED money
    BY <1>6 DEF ReadAsset, Busy, RInv, CopiesCover, db
  <2>2. CASE /\ stage' = [stage EXCEPT ![r] = "create"]
             /\ UNCHANGED <<holder, todo, read, way, buffer, reply>>
    <3>1. /\ UNCHANGED <<todo, coinRows, manRows>> /\ stage'[r] = "create"
          /\ \A q \in Req \ {r} : stage'[q] = stage[q]
      BY <2>2 DEF buffer, TypeOK
    <3>2. InOrderSoFar(r)'
      BY <2>1, <3>1 DEF InOrderSoFar, Underway, AboutToBook
    <3>3. QED
      BY <1>1, <2>1, <3>1, <3>2
  <2>3. CASE Decide(r, View(r), stray[r] /\ open[r])
    BY <1>5, <2>1, <2>3
  <2>4. QED
    BY <1>6, <2>2, <2>3 DEF ReadAsset
<1>7. ASSUME NEW r \in Req, CreateRow(r) PROVE RInv'
  <2>1. /\ Busy(r) /\ UNCHANGED money /\ Decide(r, 0, asset # NoRow)
        /\ todo[r] # <<>> /\ Head(todo[r]).kind = "coin"
    BY <1>7 DEF CreateRow, Busy, CopiesCover
  <2>2. QED
    BY <1>5, <2>1
<1>8. ASSUME NEW r \in Req, SaveAsset(r) \/ SaveMoney(r) PROVE RInv'
  <2>1. Busy(r) /\ InOrderSoFar(r) /\ open[r]
    BY <1>8 DEF SaveAsset, SaveMoney, Busy, RInv, LoneInv, Apart
  <2>2. /\ UNCHANGED <<money, todo, coinRows, manRows>> /\ stage'[r] = "row"
        /\ \A q \in Req \ {r} : stage'[q] = stage[q]
    BY <1>8, <2>1 DEF SaveAsset, SaveMoney, TypeOK
  <2>3. stage[r] = "save" \/ Head(todo[r]).kind = "man"
    BY <1>8 DEF SaveAsset, SaveMoney
  <2>4. InOrderSoFar(r)'
    BY <2>1, <2>2, <2>3 DEF InOrderSoFar, Underway, AboutToBook
  <2>5. QED
    BY <1>1, <2>1, <2>2, <2>4
<1>9. ASSUME NEW r \in Req, AddCoinRow(r) PROVE RInv'
  <2> DEFINE row == Row(r, Head(todo[r]).amount, read[r])
  <2>1. /\ coinRows' = [coinRows EXCEPT ![r] = Append(coinRows[r], row)]
        /\ UNCHANGED <<money, manRows>>
        /\ NextLeg(r) /\ AboutToBook(r) /\ Busy(r) /\ InOrderSoFar(r)
    BY <1>9 DEF AddCoinRow, AboutToBook, Busy, LoneInv, Apart, RInv
  <2>2. row \in LedgerRow /\ todo[r] # <<>>
    <3>1. todo[r] # <<>> /\ read[r] + Head(todo[r]).amount >= 0
      BY <2>1 DEF AboutToBook, CopiesCover
    <3>2. Head(todo[r]) \in LegSet /\ read[r] \in Nat
      BY <3>1, HeadInSet DEF TypeOK
    <3>3. QED
      BY <3>1, <3>2, RowType DEF LegSet
  <2>3. row.amount = Head(todo[r]).amount /\ row.after = row.before + row.amount
    BY DEF Row
  <2> HIDE DEF row
  <2>4. /\ coinRows[r] \in Seq(LedgerRow) /\ coinRows'[r] = Append(coinRows[r], row)
        /\ todo'[r] = Tail(todo[r])
        /\ stage'[r] = IF todo'[r] = <<>> THEN "commit" ELSE "leg"
        /\ \A q \in Req \ {r} : stage'[q] = stage[q]
    BY <2>1 DEF TypeOK, NextLeg
  <2>5. Underway(r)'
    <3>1. Head(todo[r]).kind = "coin" /\ Head(todo[r]).amount # 0 /\ manRows'[r] = manRows[r]
      BY <2>1 DEF InOrderSoFar, AboutToBook
    <3>2. QED
      BY <2>1, <2>2, <2>3, <2>4, <3>1, UnderwayForth DEF InOrderSoFar
  <2>6. Exact(coinRows'[r])
    <3>1. <<>> \in Seq(Int)
      OBVIOUS
    <3>2. QED
      BY <2>1, <2>2, <2>3, <2>4, <3>1, ListsAppend DEF InOrderSoFar
  <2>7. InOrderSoFar(r)'
    BY <2>1, <2>4, <2>5, <2>6 DEF InOrderSoFar, AboutToBook
  <2>8. QED
    BY <1>1, <2>1, <2>4, <2>7
<1>10. ASSUME NEW r \in Req, AddManRow(r) PROVE RInv'
  <2> DEFINE row == Row(r, Head(todo[r]).amount, user[r])
  <2>1. /\ manRows' = [manRows EXCEPT ![r] = Append(manRows[r], row)]
        /\ UNCHANGED <<money, coinRows>>
        /\ NextLeg(r) /\ AboutToBookMoney(r) /\ Busy(r) /\ InOrderSoFar(r)
    BY <1>10 DEF AddManRow, AboutToBookMoney, Busy, LoneInv, Apart, RInv
  <2>2. row \in LedgerRow /\ todo[r] # <<>>
    <3>1. todo[r] # <<>> /\ user[r] + Head(todo[r]).amount >= 0
      BY <2>1 DEF AboutToBookMoney, CopiesCover
    <3>2. Head(todo[r]) \in LegSet /\ user[r] \in Nat
      BY <3>1, HeadInSet DEF TypeOK
    <3>3. QED
      BY <3>1, <3>2, RowType DEF LegSet
  <2>3. /\ row.amount = Head(todo[r]).amount /\ row.after = row.before + row.amount
        /\ row.before = money
    BY <2>1 DEF Row, LoneInv, Alone
  <2> HIDE DEF row
  <2>4. /\ manRows[r] \in Seq(LedgerRow) /\ manRows'[r] = Append(manRows[r], row)
        /\ todo'[r] = Tail(todo[r])
        /\ stage'[r] = IF todo'[r] = <<>> THEN "commit" ELSE "leg"
        /\ \A q \in Req \ {r} : stage'[q] = stage[q]
    BY <2>1 DEF TypeOK, NextLeg
  <2>5. Underway(r)'
    <3>1. Head(todo[r]).kind = "man" /\ coinRows'[r] = coinRows[r]
      BY <2>1 DEF AboutToBookMoney
    <3>2. QED
      BY <2>1, <2>2, <2>3, <2>4, <3>1, UnderwayForth DEF InOrderSoFar
  <2>6. Exact(manRows'[r]) /\ StartFrom(manRows'[r], money)
    <3>1. <<>> \in Seq(Int)
      OBVIOUS
    <3>2. QED
      BY <2>1, <2>2, <2>3, <2>4, <3>1, ListsAppend DEF InOrderSoFar
  <2>7. InOrderSoFar(r)'
    BY <2>1, <2>4, <2>5, <2>6 DEF InOrderSoFar, AboutToBook
  <2>8. QED
    BY <1>1, <2>1, <2>4, <2>7
<1>11. ASSUME NEW r \in Req, RereadUser(r) PROVE FALSE
  <2>1. todo[r] # <<>> /\ Underway(r) /\ Head(todo[r]).kind = "reread"
    BY <1>11 DEF RereadUser, CopiesCover, RInv, InOrderSoFar, Busy
  <2>2. QED
    BY <2>1, LegKinds
<1>12. ASSUME NEW r \in Req, PayIncome(r) \/ AddIncomeRow(r) PROVE FALSE
  <2>1. todo[r] # <<>> /\ Underway(r) /\ Head(todo[r]).kind = "income"
    BY <1>12 DEF PayIncome, AddIncomeRow, CopiesCover, RInv, InOrderSoFar, Busy
  <2>2. QED
    BY <2>1, LegKinds
<1>13. ASSUME NEW r \in Req, SetLimit(r) PROVE RInv'
  <2>1. /\ Busy(r) /\ InOrderSoFar(r) /\ todo[r] # <<>> /\ Head(todo[r]).kind = "limit"
        /\ UNCHANGED <<money, coinRows, manRows>> /\ NextLeg(r)
    BY <1>13 DEF SetLimit, Busy, RInv, CopiesCover, db
  <2>2. /\ todo'[r] = Tail(todo[r])
        /\ stage'[r] = IF todo'[r] = <<>> THEN "commit" ELSE "leg"
        /\ \A q \in Req \ {r} : stage'[q] = stage[q]
    BY <2>1 DEF NextLeg, TypeOK
  <2>3. Underway(r)'
    BY <2>1, <2>2, UnderwayForth DEF InOrderSoFar
  <2>4. InOrderSoFar(r)'
    BY <2>1, <2>2, <2>3 DEF InOrderSoFar, AboutToBook
  <2>5. QED
    BY <1>1, <2>1, <2>2, <2>4
<1>14. ASSUME NEW r \in Req,
              RefuseAsset(r) \/ RefuseMoney(r) \/ SaveWholeUser(r) \/ Commit(r) \/ Crash(r)
       PROVE  RInv'
  <2>1. Busy(r) /\ \E answer \in Replies : End(r, answer)
    BY <1>14 DEF RefuseAsset, RefuseMoney, SaveWholeUser, Commit, Crash, Active, Busy, Replies
  <2>2. QED
    BY <1>2, <2>1
<1>15. ASSUME NEW r \in Req, Deadlock(r) \/ LockWaitTimeout(r) PROVE FALSE
  BY <1>15, NobodyIsWaitedFor DEF Deadlock, LockWaitTimeout
<1>16. CASE UNCHANGED vars
  BY <1>16 DEF vars, db, buffer, RInv, InOrderSoFar, Underway, AboutToBook, Busy
<1>17. QED
  BY <1>3, <1>4, <1>8, <1>9, <1>10, <1>11, <1>13, <1>14, <1>15, <1>16, <1>6, <1>7, <1>12
     DEF Next, Step, AllServed

\* The rows of a transaction as the abstract wallet books them.
AbstractRow == [amount : Int, before : Nat, after : Nat]

LEMMA AbstractType ==
  ASSUME NEW log \in Seq(LedgerRow)
  PROVE  /\ Abstract(log) \in Seq(AbstractRow) /\ Len(Abstract(log)) = Len(log)
         /\ \A i \in 1..Len(log) :
              /\ Abstract(log)[i] = [amount |-> log[i].amount, before |-> log[i].before,
                                     after |-> log[i].after]
              /\ Abstract(log)[i].after = log[i].after
<1>1. \A i \in 1..Len(log) : log[i] \in LedgerRow
  OBVIOUS
<1>2. ASSUME NEW i \in 1..Len(log)
      PROVE  [amount |-> log[i].amount, before |-> log[i].before, after |-> log[i].after] \in AbstractRow
  BY <1>1 DEF LedgerRow, AbstractRow
<1>3. Abstract(log) \in [1..Len(log) -> AbstractRow]
  BY <1>2 DEF Abstract
<1>4. Len(log) \in Nat
  OBVIOUS
<1>5. Abstract(log) \in Seq(AbstractRow)
  BY <1>3, <1>4
<1>6. Len(Abstract(log)) = Len(log)
  BY <1>3, <1>4, <1>5
<1>7. QED
  BY <1>5, <1>6 DEF Abstract

LEMMA AbstractConcat ==
  ASSUME NEW log \in Seq(LedgerRow), NEW rows \in Seq(LedgerRow)
  PROVE  Abstract(log \o rows) = Abstract(log) \o Abstract(rows)
<1> DEFINE whole == Abstract(log \o rows)
           parts == Abstract(log) \o Abstract(rows)
<1>1. /\ log \o rows \in Seq(LedgerRow) /\ Len(log \o rows) = Len(log) + Len(rows)
      /\ \A i \in 1..(Len(log) + Len(rows)) :
           (log \o rows)[i] = IF i <= Len(log) THEN log[i] ELSE rows[i - Len(log)]
      /\ Len(log) \in Nat /\ Len(rows) \in Nat
  BY ConcatProperties
<1>2. whole \in Seq(AbstractRow) /\ Len(whole) = Len(log) + Len(rows)
  BY <1>1, AbstractType
<1>3. /\ parts \in Seq(AbstractRow) /\ Len(parts) = Len(log) + Len(rows)
      /\ \A i \in 1..(Len(log) + Len(rows)) :
           parts[i] = IF i <= Len(log) THEN Abstract(log)[i] ELSE Abstract(rows)[i - Len(log)]
  <2>1. /\ Abstract(log) \in Seq(AbstractRow) /\ Len(Abstract(log)) = Len(log)
        /\ Abstract(rows) \in Seq(AbstractRow) /\ Len(Abstract(rows)) = Len(rows)
    BY AbstractType
  <2>2. parts \in Seq(AbstractRow) /\ Len(parts) = Len(log) + Len(rows)
    BY <2>1
  <2>3. \A i \in 1..(Len(Abstract(log)) + Len(Abstract(rows))) :
          parts[i] = IF i <= Len(Abstract(log)) THEN Abstract(log)[i]
                     ELSE Abstract(rows)[i - Len(Abstract(log))]
    BY <2>1, ConcatProperties
  <2> HIDE DEF parts
  <2>4. QED
    BY <2>1, <2>2, <2>3
<1>4. ASSUME NEW i \in 1..(Len(log) + Len(rows)) PROVE whole[i] = parts[i]
  <2>1. whole[i] = [amount |-> (log \o rows)[i].amount, before |-> (log \o rows)[i].before,
                    after |-> (log \o rows)[i].after]
    BY <1>1, AbstractType
  <2>2. CASE i <= Len(log)
    <3>1. i \in 1..Len(log)
      BY <1>1, <2>2
    <3>2. QED
      BY <1>1, <1>3, <2>1, <2>2, <3>1, AbstractType
  <2>3. CASE ~(i <= Len(log))
    <3>1. i - Len(log) \in 1..Len(rows)
      BY <1>1, <2>3
    <3>2. QED
      BY <1>1, <1>3, <2>1, <2>3, <3>1, AbstractType
  <2>4. QED
    BY <2>2, <2>3
<1>5. QED
  BY <1>2, <1>3, <1>4, SeqEqual

LEMMA AbstractNone ==
  ASSUME NEW rows \in Seq(LedgerRow), Lists(rows, <<>>)
  PROVE  Abstract(rows) = <<>>
<1>1. Len(rows) = 0
  BY DEF Lists
<1>2. Abstract(rows) \in Seq(AbstractRow) /\ Len(Abstract(rows)) = 0
  BY <1>1, AbstractType
<1>3. QED
  BY <1>2

LEMMA AbstractSingle ==
  ASSUME NEW rows \in Seq(LedgerRow), NEW n \in Int, NEW balance,
         Lists(rows, <<n>>), Exact(rows), Chained(rows, balance)
  PROVE  Abstract(rows) = Promise!Single(n, balance)
<1>1. Len(rows) = 1 /\ rows[1].amount = n /\ rows[1].before = balance
  BY DEF Lists, Chained
<1>2. rows[1].after = balance + n
  BY <1>1 DEF Exact
<1>3. Abstract(rows)[1] = Promise!Entry(n, balance)
  BY <1>1, <1>2, AbstractType DEF Promise!Entry
<1>4. Abstract(rows) \in Seq(AbstractRow) /\ Len(Abstract(rows)) = 1
  BY <1>1, AbstractType
<1>5. Abstract(rows) = <<Abstract(rows)[1]>>
  BY <1>4
<1>6. QED
  BY <1>3, <1>5 DEF Promise!Single

LEMMA AbstractPair ==
  ASSUME NEW rows \in Seq(LedgerRow), NEW n \in Int, NEW m \in Int, NEW balance,
         Lists(rows, OneOrTwo(n, m)), Exact(rows), Chained(rows, balance)
  PROVE  Abstract(rows) = Promise!Pair(n, m, balance)
<1>1. CASE m = 0
  BY <1>1, AbstractSingle DEF OneOrTwo, Promise!Pair
<1>2. CASE m # 0
  <2>1. Len(rows) = 2 /\ rows[1].amount = n /\ rows[2].amount = m
    BY <1>2 DEF Lists, OneOrTwo
  <2>2. rows[1].before = balance /\ rows[2].before = rows[1].after
    BY <2>1 DEF Chained
  <2>3. rows[1].after = balance + n /\ rows[2].after = balance + n + m
    BY <2>1, <2>2 DEF Exact
  <2>4. Abstract(rows)[1] = Promise!Entry(n, balance)
    BY <2>1, <2>2, <2>3, AbstractType DEF Promise!Entry
  <2>5. Abstract(rows)[2] = Promise!Entry(m, balance + n)
    BY <2>1, <2>2, <2>3, AbstractType DEF Promise!Entry
  <2>6. Abstract(rows) \in Seq(AbstractRow) /\ Len(Abstract(rows)) = 2
    BY <2>1, AbstractType
  <2>7. Abstract(rows) = <<Abstract(rows)[1], Abstract(rows)[2]>>
    BY <2>6
  <2>8. QED
    BY <1>2, <2>4, <2>5, <2>7 DEF Promise!Pair
<1>3. QED
  BY <1>1, <1>2

\* No transfer has left the management wallet empty: Updates does not write a zero.
NeverEmptied == \A i \in 1..Len(manLog) : manLog[i].after # 0

\* A commit moves what its transaction has booked.
LEMMA CommitMoves ==
  ASSUME IInv, AInv, MInv, LoneInv, RInv, NEW r \in Req, Commit(r), NeverEmptied'
  PROVE  Promise!Move(Abstract(coinRows[r]), Abstract(manRows[r]))
<1> USE DEF IInv
<1>1. /\ stage[r] = "commit" /\ coinLog' = coinLog \o coinRows[r] /\ manLog' = manLog \o manRows[r]
      /\ asset' = IF holder["asset"] = r THEN newAsset[r] ELSE asset
      /\ money' = IF holder["user"] = r THEN newMoney[r] ELSE money
  BY DEF Commit
<1>2. /\ AssetBooked(r) /\ MoneyBooked(r) /\ ~AboutToBook(r) /\ ~AboutToBookMoney(r)
  BY <1>1 DEF AInv, MInv, LoneInv, AboutToBook, AboutToBookMoney
<1>3. ~Hourly(r)
  BY <1>1 DEF RInv, InOrderSoFar, Busy, Hourly
<1>4. /\ coinLog \in Seq(LedgerRow) /\ coinRows[r] \in Seq(LedgerRow)
      /\ manLog \in Seq(LedgerRow) /\ manRows[r] \in Seq(LedgerRow)
  BY DEF TypeOK
<1>5. Balance(asset') = LastAfter(coinRows[r], Balance(asset))
  <2>1. newAsset[r] # NoRow
    BY DEF TypeOK, NoRow
  <2>2. QED
    BY <1>1, <1>2, <2>1 DEF AssetBooked, LastAfter, Balance
<1>6. money' = LastAfter(manRows[r], money)
  <2>1. CASE manRows[r] = <<>>
    BY <1>1, <1>2, <1>3, <2>1 DEF MoneyBooked, LastAfter
  <2>2. CASE manRows[r] # <<>>
    <3> DEFINE last == manRows[r][Len(manRows[r])].after
    <3>1. holder["user"] = r /\ last \in {newMoney[r], 0}
      BY <1>2, <1>3, <2>2 DEF MoneyBooked
    <3>2. Len(manLog') \in 1..Len(manLog') /\ manLog'[Len(manLog')].after = last
      <4>1. Len(manRows[r]) > 0 /\ Len(manLog') = Len(manLog) + Len(manRows[r])
        BY <1>1, <1>4, <2>2
      <4>2. manLog'[Len(manLog')] = manRows[r][Len(manRows[r])] /\ Len(manLog') \in Nat
        BY <1>1, <1>4, <4>1
      <4>3. QED
        BY <1>4, <4>1, <4>2
    <3>3. last # 0
      BY <3>2 DEF NeverEmptied
    <3>4. QED
      BY <1>1, <2>2, <3>1, <3>3 DEF LastAfter
  <2>3. QED
    BY <2>1, <2>2
<1>7. ASSUME NEW rows \in Seq(LedgerRow), NEW balance
      PROVE  /\ Promise!Covered(Abstract(rows))
             /\ Promise!BalanceAfter(Abstract(rows), balance) = LastAfter(rows, balance)
  <2>1. \A i \in 1..Len(rows) : rows[i].after \in Nat
    <3>1. \A i \in 1..Len(rows) : rows[i] \in LedgerRow
      OBVIOUS
    <3>2. QED
      BY <3>1 DEF LedgerRow
  <2>2. Promise!Covered(Abstract(rows))
    <3>1. /\ Len(Abstract(rows)) = Len(rows)
          /\ \A i \in 1..Len(rows) : Abstract(rows)[i].after = rows[i].after
      BY AbstractType
    <3>2. \A i \in 1..Len(Abstract(rows)) : Abstract(rows)[i].after >= 0
      BY <2>1, <3>1
    <3>3. QED
      BY <3>2 DEF Promise!Covered
  <2>3. /\ Abstract(rows) = <<>> <=> rows = <<>>
        /\ rows # <<>> => Len(rows) \in 1..Len(rows)
    BY AbstractType
  <2>4. QED
    BY <2>2, <2>3, AbstractType DEF Promise!BalanceAfter, LastAfter
<1>8. /\ Abstract(coinLog)' = Abstract(coinLog) \o Abstract(coinRows[r])
      /\ Abstract(manLog)' = Abstract(manLog) \o Abstract(manRows[r])
  <2>1. /\ Abstract(coinLog \o coinRows[r]) = Abstract(coinLog) \o Abstract(coinRows[r])
        /\ Abstract(manLog \o manRows[r]) = Abstract(manLog) \o Abstract(manRows[r])
    BY <1>4, AbstractConcat
  <2>2. Abstract(coinLog)' = Abstract(coinLog') /\ Abstract(manLog)' = Abstract(manLog')
    BY DEF Abstract
  <2>3. QED
    BY <1>1, <2>1, <2>2
<1>9. QED
  BY <1>4, <1>5, <1>6, <1>7, <1>8 DEF Promise!Move, Balance

\* The rows of the management money: one at most, which starts from the balance.
LEMMA StartChained ==
  ASSUME NEW rows, NEW balance, StartFrom(rows, balance), Len(rows) \in {0, 1}
  PROVE  Chained(rows, balance)
  BY DEF StartFrom, Chained

\* The station where no legs are left: what the handler has booked.
LEMMA LastStation ==
  ASSUME NEW op \in Serial, NEW a, NEW x, NEW st \in Stations(op, a, x), st.legs = <<>>
  PROVE  /\ op = "CMTransferIn" => st.coins = <<-a>> /\ st.mans = <<a>>
         /\ op = "CMTransferOut" => st.coins = <<a>> /\ st.mans = <<-a>>
         /\ op = "WithdrawApply" => st.coins = OneOrTwo(-a, -x) /\ st.mans = <<>>
         /\ op = "rechargeArrives" => st.coins = OneOrTwo(a, x) /\ st.mans = <<>>
         /\ op = "Notify2Handler" => st.coins = <<a>> /\ st.mans = <<>>
         /\ op \in SavesUser => st.coins = <<>> /\ st.mans = <<>>
<1>1. \A legs, cs, ms : /\ At(legs, cs, ms).legs = legs
                        /\ At(legs, cs, ms).coins = cs
                        /\ At(legs, cs, ms).mans = ms
  BY DEF At
<1>2. ASSUME NEW legs, NEW cs, NEW ms, st = At(legs, cs, ms)
      PROVE  legs = <<>> /\ st.coins = cs /\ st.mans = ms
  BY <1>1, <1>2
<1>3. \A e, f, g : <<e>> # <<>> /\ <<e, f>> # <<>> /\ <<e, f, g>> # <<>>
  OBVIOUS
<1>4. /\ <<Coin(-a), Man(a)>> # <<>> /\ <<Man(a)>> # <<>>
      /\ <<Man(-a), Coin(a)>> # <<>> /\ <<Coin(a)>> # <<>>
      /\ <<Coin(-a), Coin(-x)>> # <<>> /\ <<Coin(-x)>> # <<>>
      /\ <<Coin(a), Coin(x), Limit>> # <<>> /\ <<Coin(x), Limit>> # <<>> /\ <<Limit>> # <<>>
      /\ <<Coin(a), Limit>> # <<>>
  BY <1>3
<1>5. ASSUME op = "CMTransferIn" PROVE st.coins = <<-a>> /\ st.mans = <<a>>
  <2>1. st \in {At(<<Coin(-a), Man(a)>>, <<>>, <<>>), At(<<Man(a)>>, <<-a>>, <<>>),
                At(<<>>, <<-a>>, <<a>>)}
    BY <1>5 DEF Stations, SavesUser
  <2>2. st = At(<<>>, <<-a>>, <<a>>)
    BY <1>2, <1>4, <2>1
  <2>3. QED
    BY <1>2, <2>2
<1>6. ASSUME op = "CMTransferOut" PROVE st.coins = <<a>> /\ st.mans = <<-a>>
  <2>1. st \in {At(<<Man(-a), Coin(a)>>, <<>>, <<>>), At(<<Coin(a)>>, <<>>, <<-a>>),
                At(<<>>, <<a>>, <<-a>>)}
    BY <1>6 DEF Stations, SavesUser
  <2>2. st = At(<<>>, <<a>>, <<-a>>)
    BY <1>2, <1>4, <2>1
  <2>3. QED
    BY <1>2, <2>2
<1>7. ASSUME op = "WithdrawApply" PROVE st.coins = OneOrTwo(-a, -x) /\ st.mans = <<>>
  <2>1. st \in {At(<<Coin(-a), Coin(-x)>>, <<>>, <<>>), At(<<Coin(-x)>>, <<-a>>, <<>>),
                At(<<>>, OneOrTwo(-a, -x), <<>>)}
    BY <1>7 DEF Stations, SavesUser
  <2>2. st = At(<<>>, OneOrTwo(-a, -x), <<>>)
    BY <1>2, <1>4, <2>1
  <2>3. QED
    BY <1>2, <2>2
<1>8. ASSUME op = "rechargeArrives" PROVE st.coins = OneOrTwo(a, x) /\ st.mans = <<>>
  <2>1. st \in {At(<<Coin(a), Coin(x), Limit>>, <<>>, <<>>), At(<<Coin(x), Limit>>, <<a>>, <<>>),
                At(<<Limit>>, OneOrTwo(a, x), <<>>), At(<<>>, OneOrTwo(a, x), <<>>)}
    BY <1>8 DEF Stations, SavesUser
  <2>2. st = At(<<>>, OneOrTwo(a, x), <<>>)
    BY <1>2, <1>4, <2>1
  <2>3. QED
    BY <1>2, <2>2
<1>9. ASSUME op = "Notify2Handler" PROVE st.coins = <<a>> /\ st.mans = <<>>
  <2>1. st \in {At(<<Coin(a), Limit>>, <<>>, <<>>), At(<<Limit>>, <<a>>, <<>>),
                At(<<>>, <<a>>, <<>>)}
    BY <1>9 DEF Stations, SavesUser
  <2>2. st = At(<<>>, <<a>>, <<>>)
    BY <1>2, <1>4, <2>1
  <2>3. QED
    BY <1>2, <2>2
<1>10. ASSUME op \in SavesUser PROVE st.coins = <<>> /\ st.mans = <<>>
  <2>1. st = At(<<>>, <<>>, <<>>)
    BY <1>10 DEF Stations, SavesUser
  <2>2. QED
    BY <1>2, <2>1
<1>11. QED
  BY <1>5, <1>6, <1>7, <1>8, <1>9, <1>10

\* What a transaction has booked when it commits is an operation of the abstract
\* wallet, or nothing at all.
LEMMA CommitIsAnOperation ==
  ASSUME Ops \subseteq Serial, IInv, LoneInv, CInv, RInv, NEW r \in Req,
         stage[r] = "commit",
         Promise!Move(Abstract(coinRows[r]), Abstract(manRows[r]))
  PROVE  [Promise!Next]_(Promise!vars)
<1> DEFINE coins == coinRows[r]
           mans  == manRows[r]
<1>1. /\ InOrderSoFar(r) /\ todo[r] = <<>> /\ Chained(coins, Balance(asset))
      /\ coins \in Seq(LedgerRow) /\ mans \in Seq(LedgerRow)
  BY DEF RInv, CInv, RowsChained, InOrderSoFar, Busy, IInv, TypeOK
<1>2. PICK op \in Ops, a \in Amounts, x \in Extras : \E st \in Stations(op, a, x) :
        st.legs = todo[r] /\ Lists(coinRows[r], st.coins) /\ Lists(manRows[r], st.mans)
  BY <1>1 DEF InOrderSoFar, Underway
<1>3. PICK st \in Stations(op, a, x) :
        st.legs = <<>> /\ Lists(coins, st.coins) /\ Lists(mans, st.mans)
  BY <1>1, <1>2
<1>4. op \in Serial /\ a \in Int /\ x \in Int /\ -a \in Int /\ -x \in Int
  BY WalletAssumption DEF Serial
<1>5. /\ Exact(coins) /\ Exact(mans) /\ StartFrom(mans, money)
      /\ Promise!Move(Abstract(coins), Abstract(mans))
  BY <1>1 DEF InOrderSoFar
<1> HIDE DEF coins, mans
<1>6. ASSUME NEW n \in Int, st.mans = <<n>> PROVE Abstract(mans) = Promise!Single(n, money)
  <2>1. Lists(mans, <<n>>) /\ Len(mans) = 1
    BY <1>3, <1>6 DEF Lists
  <2>2. Chained(mans, money)
    BY <1>5, <2>1, StartChained
  <2>3. QED
    BY <1>1, <1>5, <2>1, <2>2, AbstractSingle
<1>7. st.mans = <<>> => Abstract(mans) = <<>>
  BY <1>1, <1>3, AbstractNone
<1>8. ASSUME NEW n \in Int, st.coins = <<n>> PROVE Abstract(coins) = Promise!Single(n, Balance(asset))
  BY <1>1, <1>3, <1>5, <1>8, AbstractSingle
<1>9. ASSUME NEW n \in Int, NEW m \in Int, st.coins = OneOrTwo(n, m)
       PROVE  Abstract(coins) = Promise!Pair(n, m, Balance(asset))
  BY <1>1, <1>3, <1>5, <1>9, AbstractPair
<1>10. CASE op = "CMTransferIn"
  <2>1. st.coins = <<-a>> /\ st.mans = <<a>>
    BY <1>3, <1>4, <1>10, LastStation
  <2>2. Promise!Move(Promise!Single(-a, Balance(asset)), Promise!Single(a, money))
    BY <1>4, <1>5, <1>6, <1>8, <2>1
  <2>3. QED
    BY <1>2, <2>2 DEF Promise!Next
<1>11. CASE op = "CMTransferOut"
  <2>1. st.coins = <<a>> /\ st.mans = <<-a>>
    BY <1>3, <1>4, <1>11, LastStation
  <2>2. Promise!Move(Promise!Single(a, Balance(asset)), Promise!Single(-a, money))
    BY <1>4, <1>5, <1>6, <1>8, <2>1
  <2>3. QED
    BY <1>2, <2>2 DEF Promise!Next
<1>12. CASE op = "WithdrawApply"
  <2>1. st.coins = OneOrTwo(-a, -x) /\ st.mans = <<>>
    BY <1>3, <1>4, <1>12, LastStation
  <2>2. Promise!Move(Promise!Pair(-a, -x, Balance(asset)), <<>>)
    BY <1>4, <1>5, <1>7, <1>9, <2>1
  <2>3. QED
    BY <1>2, <2>2 DEF Promise!Next
<1>13. CASE op = "rechargeArrives"
  <2>1. st.coins = OneOrTwo(a, x) /\ st.mans = <<>>
    BY <1>3, <1>4, <1>13, LastStation
  <2>2. Promise!Move(Promise!Pair(a, x, Balance(asset)), <<>>)
    BY <1>4, <1>5, <1>7, <1>9, <2>1
  <2>3. QED
    BY <1>2, <2>2 DEF Promise!Next
<1>14. CASE op = "Notify2Handler"
  <2>1. st.coins = <<a>> /\ st.mans = <<>>
    BY <1>3, <1>4, <1>14, LastStation
  <2>2. Promise!Move(Promise!Single(a, Balance(asset)), <<>>)
    BY <1>4, <1>5, <1>7, <1>8, <2>1
  <2>3. QED
    BY <1>2, <2>2 DEF Promise!Next
<1>15. CASE op \in SavesUser
  <2>1. st.coins = <<>> /\ st.mans = <<>>
    BY <1>3, <1>4, <1>15, LastStation
  <2>2. Promise!Move(<<>>, <<>>)
    <3>1. Abstract(coins) = <<>>
      BY <1>1, <1>3, <2>1, AbstractNone
    <3>2. QED
      BY <1>5, <1>7, <2>1, <3>1
  <2>3. /\ Balance(asset)' = Balance(asset) /\ money' = money
        /\ Abstract(coinLog)' = Abstract(coinLog) \o <<>>
        /\ Abstract(manLog)' = Abstract(manLog) \o <<>>
    BY <2>2 DEF Promise!Move, Promise!BalanceAfter
  <2>4. /\ Abstract(coinLog) \in Seq(AbstractRow) /\ Abstract(manLog) \in Seq(AbstractRow)
    BY AbstractType DEF IInv, TypeOK
  <2>5. /\ Abstract(coinLog) \o <<>> = Abstract(coinLog)
        /\ Abstract(manLog) \o <<>> = Abstract(manLog)
    BY <2>4
  <2>6. QED
    BY <2>3, <2>5 DEF Promise!vars
<1>16. QED
  BY <1>4, <1>10, <1>11, <1>12, <1>13, <1>14, <1>15 DEF Serial, Handlers, SavesUser

LEMMA StepRefines ==
  ASSUME MaxActive = 1, Ops \subseteq Serial,
         IInv, AInv, MInv, LoneInv, CInv, RInv, [Next]_vars, NeverEmptied'
  PROVE  [Promise!Next]_(Promise!vars)
<1>1. ASSUME UNCHANGED db PROVE UNCHANGED Promise!vars
  <2>1. Abstract(coinLog)' = Abstract(coinLog) /\ Abstract(manLog)' = Abstract(manLog)
    BY <1>1 DEF db, Abstract
  <2>2. QED
    BY <1>1, <2>1 DEF db, Promise!vars, Balance
<1>2. ASSUME NEW r \in Req, Arrive(r) \/ Crash(r) PROVE UNCHANGED db
  BY <1>2 DEF Arrive, Accept, Crash
<1>3. ASSUME NEW r \in Req, BalanceCheck(r) \/ ReadAsset(r) \/ RefuseMoney(r)
                            \/ RereadUser(r) \/ SetLimit(r) \/ PayIncome(r)
                            \/ AddIncomeRow(r) \/ Deadlock(r) \/ LockWaitTimeout(r)
      PROVE  UNCHANGED db
  BY <1>3 DEF BalanceCheck, ReadAsset, RefuseMoney, RereadUser, SetLimit, PayIncome,
              AddIncomeRow, Deadlock, LockWaitTimeout
<1>4. ASSUME NEW r \in Req, SaveAsset(r) \/ AddCoinRow(r) \/ SaveMoney(r) \/ AddManRow(r)
      PROVE  UNCHANGED db
  <2>1. open[r] /\ ~stray[r]
    BY DEF LoneInv, Apart
  <2>2. QED
    BY <1>4, <2>1 DEF SaveAsset, AddCoinRow, SaveMoney, AddManRow, db
<1>5. ASSUME NEW r \in Req, SaveWholeUser(r) PROVE UNCHANGED db
  <2>1. user[r] = money
    BY <1>5 DEF SaveWholeUser, LoneInv, Alone, Busy
  <2>2. QED
    BY <1>5, <2>1 DEF SaveWholeUser, db
<1>6. ASSUME NEW r \in Req, Commit(r) PROVE [Promise!Next]_(Promise!vars)
  <2>1. Promise!Move(Abstract(coinRows[r]), Abstract(manRows[r]))
    BY <1>6, CommitMoves
  <2>2. stage[r] = "commit"
    BY <1>6 DEF Commit
  <2>3. QED
    BY <2>1, <2>2, CommitIsAnOperation
<1>7. ASSUME NEW r \in Req, CreateRow(r) \/ RefuseAsset(r) PROVE UNCHANGED Promise!vars
  <2>1. Balance(asset)' = Balance(asset) /\ UNCHANGED <<money, coinLog, manLog>>
    BY <1>7, CreateKeepsBalance
  <2>2. Abstract(coinLog)' = Abstract(coinLog) /\ Abstract(manLog)' = Abstract(manLog)
    BY <2>1 DEF Abstract
  <2>3. QED
    BY <2>1, <2>2 DEF Promise!vars
<1>8. CASE UNCHANGED vars
  BY <1>1, <1>8 DEF vars
<1>9. QED
  BY <1>1, <1>2, <1>3, <1>4, <1>5, <1>6, <1>7, <1>8 DEF Next, Step, AllServed

\* Served one at a time, the handlers implement the wallet that moves all the
\* amounts of an operation at once, as long as no transfer empties the management
\* wallet (Updates does not write the zero): transactions that begin, are refused,
\* rolled back by the deferred Rollback or lost half-way show nothing, and a
\* committed one is exactly one operation, its rows chained and never below zero.
\* The rebates, the hourly income and the callers without a transaction (Serial)
\* book in other ways.
THEOREM WalletImplementsAtomicWallet ==
  ASSUME MaxActive = 1, Ops \subseteq Serial
  PROVE  Spec /\ []NeverEmptied => ImplementsAtomicWallet
<1>1. Init => RInv
  BY DEF Init, RInv, Busy
<1>2. Init => Promise!Init
  BY DEF Init, Promise!Init, Abstract
<1>3. LoneInv /\ AInv /\ MInv /\ IInv /\ [Next]_vars => LoneInv'
  <2>1. "SaveIdCardInfo" \notin Ops
    BY DEF Serial
  <2>2. QED
    BY <2>1, StepLoneInv
<1>4. CInv /\ LoneInv /\ AInv /\ MInv /\ IInv /\ [Next]_vars => CInv'
  BY StepCInv
<1>5. IInv /\ AInv /\ MInv /\ LoneInv /\ CInv /\ RInv /\ [Next]_vars => RInv'
  BY StepRInv
<1>6. IInv /\ AInv /\ MInv /\ LoneInv /\ CInv /\ RInv /\ [Next]_vars /\ NeverEmptied'
        => [Promise!Next]_(Promise!vars)
  BY StepRefines
<1>7. QED
  BY InitIInv, InitAInv, InitMInv, InitLoneInv, InitCInv, StepIInv, StepAInv, StepMInv,
     <1>1, <1>2, <1>3, <1>4, <1>5, <1>6, PTL DEF Spec, ImplementsAtomicWallet, Promise!Spec
=============================================================================
