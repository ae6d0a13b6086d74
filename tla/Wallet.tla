------------------------------- MODULE Wallet -------------------------------
(***************************************************************************)
(* The two wallets of one user: the USDT balance (a row of ba_user_assets) *)
(* and the management money (a column of the user's row in ba_user), with  *)
(* the ledger each of them keeps.  Requests of the API server, the payment *)
(* callbacks and the rebate job change them through UpdateCoinAssetsBalance *)
(* and UpdateCmBalance (src/rserver/user_man.go), one SQL statement at a   *)
(* time, inside database transactions that interleave or, for some callers *)
(* of UpdateCoinAssetsBalance, outside any.  The hourly income changes the *)
(* money in SQL; a sign-in and a commission save the whole user row.       *)
(*                                                                         *)
(* A request is a list of legs, the calls its handler makes in order; a    *)
(* leg is a few statements, and every statement is one step.  The database *)
(* (external, MySQL at REPEATABLE READ) is modelled by what the code sees  *)
(* of it: the snapshot taken by a transaction's first plain read, row      *)
(* locks held from the first write of a row to the end of the transaction, *)
(* the rollback of one party of a deadlock, and the end of a long wait for *)
(* a lock, which fails the waiting statement alone.                        *)
(***************************************************************************)
EXTENDS Integers, Sequences, FiniteSets

CONSTANTS Req,           \* the requests of a behaviour, each served once
          Ops,           \* the handlers that may be called
          Amounts,       \* what a request moves
          Extras,        \* second amount: fee, gift, or a second rebate
          MinTransferIn, \* management_min_amount of the configuration
          Asset0, Money0,\* the balances at the start
          HourRate,      \* what an hour adds to the money, as a multiple of it
          MaxActive,     \* how many requests are served at the same time
          Nobody         \* holder of a row that is not locked

\* SaveIdCardInfo stands for every caller of UpdateCoinAssetsBalance that passes
\* utils.Orm for the transaction: SignUp and the gifts and rewards of others.
Handlers == {"CMTransferIn", "CMTransferOut", "WithdrawApply",
             "rechargeArrives", "Notify2Handler", "RebateIncome",
             "SignIn", "updateCommission", "SaveIdCardInfo", "IncomeHours"}

\* The asset row of a user is created when it is first asked for.
NoRow == -1
AssetRow == Nat \cup {NoRow}
Balance(row) == IF row = NoRow THEN 0 ELSE row

ASSUME WalletAssumption ==
  /\ Ops \subseteq Handlers
  /\ Amounts \subseteq Nat \ {0}
  /\ Extras \subseteq Nat
  /\ Asset0 \in AssetRow /\ Money0 \in Nat /\ HourRate \in Nat
  /\ Nobody \notin Req

Rows == {"asset", "user"}       \* the two rows that requests contend for

VARIABLES
  asset, money,      \* the committed asset row, or NoRow, and money
  coinLog, manLog,   \* the committed rows of UserCoinChange and of ManChange
  holder,            \* the request whose transaction has locked each row
  stage,             \* where a request is in its handler
  todo,              \* the legs a request still has to run
  user,              \* the money in the request's copy of the user row
  read,              \* the balance in the request's copy of the asset row
  hasSnap, snap,     \* the transaction's snapshot of the asset row
  open,              \* FALSE without a transaction: none was begun, or it was rolled back
  stray,             \* the request writes a second asset row, which nobody else reads
  unsaved,           \* a save of the request has failed by itself (history)
  newAsset, newMoney,\* what an open transaction has written to a row it holds
  coinRows, manRows, \* the ledger rows an open transaction has inserted
  reply              \* what the caller was told

db     == <<asset, money, coinLog, manLog>>
copies == <<user, read, hasSnap, snap>>
buffer == <<newAsset, newMoney, coinRows, manRows>>
way    == <<open, stray, unsaved>>
vars   == <<db, holder, stage, todo, copies, way, buffer, reply>>

Stages  == {"idle", "precheck", "whole", "leg", "create", "save", "row", "commit", "done"}
Replies == {"none", "ok", "error", "lost"}

Leg(kind, amount) == [kind |-> kind, amount |-> amount]
Coin(amount) == Leg("coin", amount)  \* UpdateCoinAssetsBalance of coin 1
Man(amount)  == Leg("man", amount)   \* UpdateCmBalance
Reread       == Leg("reread", 0)     \* the referee is read again, outside the transaction
Limit        == Leg("limit", 0)      \* limit_withdraw_time of the user row is set
Income       == Leg("income", 0)     \* the two statements of the hourly income

\* A sign-in and a commission save their whole copy of the user row.
SavesUser == {"SignIn", "updateCommission"}

\* The legs of each handler, in the order of its calls.
Program(op, a, x) ==
  CASE op = "CMTransferIn"    -> <<Coin(-a), Man(a)>>
    [] op = "CMTransferOut"   -> <<Man(-a), Coin(a)>>
    [] op = "WithdrawApply"   -> <<Coin(-a), Coin(-x)>>
    [] op = "rechargeArrives" -> <<Coin(a), Coin(x), Limit>>
    [] op = "Notify2Handler"  -> <<Coin(a), Limit>>
    [] op = "RebateIncome"    -> <<Reread, Man(a), Reread, Man(x)>>
    [] op = "SaveIdCardInfo"  -> <<Coin(a)>>
    [] op = "IncomeHours"     -> <<Income>>
    [] op \in SavesUser       -> <<>>

Active == {r \in Req : stage[r] \notin {"idle", "done"}}
Row(r, amount, before) ==
  [by |-> r, amount |-> amount, before |-> before, after |-> before + amount]

\* Faulty variants: the check is forgotten, or compares with the wrong sign.
ShortNever(balance, amount) == FALSE
ShortSigned(balance, amount) == amount < 0 /\ balance < amount
\* A debit larger than the balance it is taken from is refused.
Short(balance, amount) == amount < 0 /\ balance < -amount

Init ==
  /\ asset = Asset0 /\ money = Money0
  /\ coinLog = <<>> /\ manLog = <<>>
  /\ holder = [w \in Rows |-> Nobody]
  /\ stage = [r \in Req |-> "idle"]
  /\ todo = [r \in Req |-> <<>>]
  /\ user = [r \in Req |-> 0] /\ read = [r \in Req |-> 0]
  /\ hasSnap = [r \in Req |-> FALSE] /\ snap = [r \in Req |-> 0]
  /\ open = [r \in Req |-> TRUE]
  /\ stray = [r \in Req |-> FALSE] /\ unsaved = [r \in Req |-> FALSE]
  /\ newAsset = [r \in Req |-> 0] /\ newMoney = [r \in Req |-> 0]
  /\ coinRows = [r \in Req |-> <<>>] /\ manRows = [r \in Req |-> <<>>]
  /\ reply = [r \in Req |-> "none"]
-----------------------------------------------------------------------------
Free(w, r) == holder[w] \in {Nobody, r}
\* Faulty variant: an early return without a Rollback.
ReleasedNever(r) == [w \in Rows |-> holder[w]]
Released(r) == [w \in Rows |-> IF holder[w] = r THEN Nobody ELSE holder[w]]

\* The statement is done and the next leg, or the commit, follows.
NextLeg(r) ==
  /\ todo' = [todo EXCEPT ![r] = Tail(@)]
  /\ stage' = [stage EXCEPT ![r] = IF Tail(todo[r]) = <<>> THEN "commit" ELSE "leg"]

\* The handler ends with its variables; the deferred Rollback drops what is not
\* committed.
End(r, answer) ==
  /\ stage' = [stage EXCEPT ![r] = "done"]
  /\ reply' = [reply EXCEPT ![r] = answer]
  /\ todo' = [todo EXCEPT ![r] = <<>>]
  /\ holder' = Released(r)
  /\ user' = [user EXCEPT ![r] = 0] /\ read' = [read EXCEPT ![r] = 0]
  /\ hasSnap' = [hasSnap EXCEPT ![r] = FALSE] /\ snap' = [snap EXCEPT ![r] = 0]
  /\ newAsset' = [newAsset EXCEPT ![r] = 0] /\ newMoney' = [newMoney EXCEPT ![r] = 0]
  /\ coinRows' = [coinRows EXCEPT ![r] = <<>>]
  /\ manRows' = [manRows EXCEPT ![r] = <<>>]
  /\ stray' = [stray EXCEPT ![r] = FALSE] /\ unsaved' = [unsaved EXCEPT ![r] = FALSE]
  /\ UNCHANGED open

\* A request is accepted and makes its first read: the user row, outside any
\* transaction, or the row that opens the snapshot of its transaction.
ReadsInTransaction(op) == op \in {"rechargeArrives", "Notify2Handler", "RebateIncome"}
FirstStage(op) ==
  IF op = "WithdrawApply" THEN "precheck" ELSE IF op \in SavesUser THEN "whole" ELSE "leg"
Accept(r, op, a, x) ==
  /\ op = "CMTransferIn" => a >= MinTransferIn
  /\ op = "RebateIncome" => x > 0
  /\ op = "IncomeHours" => HourRate > 0
  /\ todo' = [todo EXCEPT ![r] = Program(op, a, x)]
  /\ stage' = [stage EXCEPT ![r] = FirstStage(op)]
  /\ user' = [user EXCEPT ![r] = money]
  /\ hasSnap' = [hasSnap EXCEPT ![r] = ReadsInTransaction(op)]
  /\ snap' = [snap EXCEPT ![r] = IF ReadsInTransaction(op) THEN asset ELSE @]
  /\ open' = [open EXCEPT ![r] = op # "SaveIdCardInfo"]
  /\ UNCHANGED <<db, holder, read, stray, unsaved, buffer, reply>>

Arrive(r) ==
  /\ stage[r] = "idle"
  /\ Cardinality(Active) < MaxActive
  /\ \E op \in Ops, a \in Amounts, x \in Extras : Accept(r, op, a, x)

\* balanceCheck of withdraw: a read outside the transaction.
BalanceCheck(r) ==
  /\ stage[r] = "precheck"
  /\ IF Balance(asset) >= -(todo[r][1].amount + todo[r][2].amount)
     THEN /\ stage' = [stage EXCEPT ![r] = "leg"]
          /\ UNCHANGED <<holder, todo, copies, way, buffer, reply>>
     ELSE End(r, "error")
  /\ UNCHANGED db
-----------------------------------------------------------------------------
\* Faulty variant: the balance is read through utils.Orm instead of tx.
ViewCommitted(r) == asset
\* What First returns for the asset row: the transaction's own write, else its
\* snapshot, else (no snapshot yet, or no transaction) what is committed.
View(r) ==
  IF open[r] /\ (holder["asset"] = r \/ stray[r]) THEN newAsset[r]
  ELSE IF open[r] /\ hasSnap[r] THEN snap[r]
  ELSE asset

\* The check of an amount against the balance that was read, and what follows.
Decide(r, balance, astray) ==
  LET amount == Head(todo[r]).amount
  IN  \/ /\ amount = 0
         /\ NextLeg(r)
         /\ UNCHANGED <<holder, read, way, buffer, reply>>
      \/ /\ amount # 0 /\ ~Short(balance, amount)
         /\ read' = [read EXCEPT ![r] = balance]
         /\ stray' = [stray EXCEPT ![r] = astray]
         /\ stage' = [stage EXCEPT ![r] = "save"]
         /\ UNCHANGED <<holder, todo, open, unsaved, buffer, reply>>

\* UpdateCoinAssetsBalance, the read and the check of the balance.  A failed
\* read ends the handler, as Crash does.
ReadAsset(r) ==
  /\ stage[r] = "leg" /\ Head(todo[r]).kind = "coin"
  /\ \/ /\ View(r) = NoRow
        /\ stage' = [stage EXCEPT ![r] = "create"]
        /\ UNCHANGED <<holder, todo, read, way, buffer, reply>>
     \/ View(r) # NoRow /\ Decide(r, View(r), stray[r] /\ open[r])
  /\ hasSnap' = [hasSnap EXCEPT ![r] = TRUE]
  /\ snap' = [snap EXCEPT ![r] = IF hasSnap[r] THEN @ ELSE asset]
  /\ UNCHANGED <<db, user>>

\* UpdateCoinAssetsBalance, utils.Orm.Create of the row that First has not found:
\* outside the transaction, and a second one when it was created meanwhile.
CreateRow(r) ==
  /\ stage[r] = "create"
  /\ asset' = IF asset = NoRow THEN 0 ELSE asset
  /\ Decide(r, 0, asset # NoRow)
  /\ UNCHANGED <<money, coinLog, manLog, user, hasSnap, snap>>

\* UpdateCoinAssetsBalance refuses a debit that the balance does not cover.
RefuseAsset(r) ==
  /\ \/ /\ stage[r] = "leg" /\ Head(todo[r]).kind = "coin"
        /\ View(r) # NoRow /\ Short(View(r), Head(todo[r]).amount)
        /\ UNCHANGED asset
     \/ /\ stage[r] = "create" /\ Short(0, Head(todo[r]).amount)
        /\ asset' = IF asset = NoRow THEN 0 ELSE asset
  /\ End(r, "error")
  /\ UNCHANGED <<money, coinLog, manLog>>

\* Faulty variant: the balance is saved through utils.Orm instead of tx.
SaveAssetOutside(r) ==
  /\ stage[r] = "save" /\ Free("asset", r)
  /\ asset' = read[r] + Head(todo[r]).amount
  /\ stage' = [stage EXCEPT ![r] = "row"]
  /\ UNCHANGED <<money, coinLog, manLog, holder, todo, copies, way, buffer, reply>>
\* UpdateCoinAssetsBalance, tx.Save of the asset row: an UPDATE by primary key
\* that writes the balance computed from the copy.  Its error is ignored (see
\* Deadlock and LockWaitTimeout).  Nobody waits for a second row.
SaveAsset(r) ==
  /\ stage[r] = "save"
  /\ LET balance == read[r] + Head(todo[r]).amount
     IN  \/ /\ stray[r]
            /\ newAsset' = [newAsset EXCEPT ![r] = balance]
            /\ UNCHANGED <<asset, holder>>
         \/ /\ ~stray[r] /\ open[r] /\ Free("asset", r)
            /\ holder' = [holder EXCEPT !["asset"] = r]
            /\ newAsset' = [newAsset EXCEPT ![r] = balance]
            /\ UNCHANGED asset
         \/ /\ ~stray[r] /\ ~open[r] /\ Free("asset", r)
            /\ asset' = balance
            /\ UNCHANGED <<holder, newAsset>>
  /\ stage' = [stage EXCEPT ![r] = "row"]
  /\ UNCHANGED <<money, coinLog, manLog, todo, copies, way, newMoney,
                 coinRows, manRows, reply>>

\* Faulty variant: the ledger row is created through utils.Orm instead of tx.
AddCoinRowOutside(r) ==
  /\ stage[r] = "row" /\ Head(todo[r]).kind = "coin"
  /\ coinLog' = Append(coinLog, Row(r, Head(todo[r]).amount, read[r]))
  /\ NextLeg(r)
  /\ UNCHANGED <<asset, money, manLog, holder, copies, way, buffer, reply>>
\* UpdateCoinAssetsBalance, tx.Create of the ledger row.
AddCoinRow(r) ==
  /\ stage[r] = "row" /\ Head(todo[r]).kind = "coin"
  /\ LET row == Row(r, Head(todo[r]).amount, read[r])
     IN  IF open[r]
         THEN /\ coinRows' = [coinRows EXCEPT ![r] = Append(@, row)]
              /\ UNCHANGED coinLog
         ELSE /\ coinLog' = Append(coinLog, row)
              /\ UNCHANGED coinRows
  /\ NextLeg(r)
  /\ UNCHANGED <<asset, money, manLog, holder, copies, way, newAsset,
                 newMoney, manRows, reply>>

\* UpdateCmBalance, the check against the caller's copy of the user.
RefuseMoney(r) ==
  /\ stage[r] = "leg" /\ Head(todo[r]).kind = "man"
  /\ Short(user[r], Head(todo[r]).amount)
  /\ End(r, "error")
  /\ UNCHANGED db

\* The money that the row holds after Updates of a struct with this Money: a
\* zero field is not written.
Written(r, value) ==
  IF value # 0 THEN value
  ELSE IF open[r] /\ holder["user"] = r THEN newMoney[r] ELSE money

\* UpdateCmBalance, tx.Updates of the user row.  Its error is ignored.
SaveMoney(r) ==
  /\ stage[r] = "leg" /\ Head(todo[r]).kind = "man"
  /\ ~Short(user[r], Head(todo[r]).amount)
  /\ Free("user", r)
  /\ LET value == Written(r, user[r] + Head(todo[r]).amount)
     IN  IF open[r]
         THEN /\ holder' = [holder EXCEPT !["user"] = r]
              /\ newMoney' = [newMoney EXCEPT ![r] = value]
              /\ UNCHANGED money
         ELSE /\ money' = value
              /\ UNCHANGED <<holder, newMoney>>
  /\ stage' = [stage EXCEPT ![r] = "row"]
  /\ UNCHANGED <<asset, coinLog, manLog, todo, copies, way, newAsset,
                 coinRows, manRows, reply>>

\* Faulty variant: the ledger row is created through utils.Orm instead of tx.
AddManRowOutside(r) ==
  /\ stage[r] = "row" /\ Head(todo[r]).kind = "man"
  /\ manLog' = Append(manLog, Row(r, Head(todo[r]).amount, user[r]))
  /\ NextLeg(r)
  /\ UNCHANGED <<asset, money, coinLog, holder, copies, way, buffer, reply>>
\* UpdateCmBalance, tx.Create of the ledger row.
AddManRow(r) ==
  /\ stage[r] = "row" /\ Head(todo[r]).kind = "man"
  /\ LET row == Row(r, Head(todo[r]).amount, user[r])
     IN  IF open[r]
         THEN /\ manRows' = [manRows EXCEPT ![r] = Append(@, row)]
              /\ UNCHANGED manLog
         ELSE /\ manLog' = Append(manLog, row)
              /\ UNCHANGED manRows
  /\ NextLeg(r)
  /\ UNCHANGED <<asset, money, coinLog, holder, copies, way, newAsset,
                 newMoney, coinRows, reply>>

\* ManagementOrderRebateIncomeDay reads the referee through utils.Orm, so it
\* sees what is committed and not what its own transaction has written.
RereadUser(r) ==
  /\ stage[r] = "leg" /\ Head(todo[r]).kind = "reread"
  /\ user' = [user EXCEPT ![r] = money]
  /\ NextLeg(r)
  /\ UNCHANGED <<db, holder, read, hasSnap, snap, way, buffer, reply>>

\* Faulty variant: the limit is set by saving a whole copy of the user.
SetLimitSavesUser(r) ==
  /\ stage[r] = "leg" /\ Head(todo[r]).kind = "limit"
  /\ Free("user", r)
  /\ holder' = [holder EXCEPT !["user"] = IF open[r] THEN r ELSE @]
  /\ newMoney' = [newMoney EXCEPT ![r] = user[r]]
  /\ NextLeg(r)
  /\ UNCHANGED <<db, copies, way, newAsset, coinRows, manRows, reply>>
\* A credited recharge sets limit_withdraw_time, which locks the user row and
\* leaves the money as it is.
SetLimit(r) ==
  /\ stage[r] = "leg" /\ Head(todo[r]).kind = "limit"
  /\ Free("user", r)
  /\ holder' = [holder EXCEPT !["user"] = IF open[r] THEN r ELSE @]
  /\ newMoney' = [newMoney EXCEPT ![r] = Written(r, 0)]
  /\ NextLeg(r)
  /\ UNCHANGED <<db, copies, way, newAsset, coinRows, manRows, reply>>

\* What an hour adds to the money of a user (the code multiplies by a ratio).
IncomeOf(m) == m * HourRate

\* TimerManagementWalletIncomeHours, the UPDATE: it scans the users and locks each
\* row, and pays unless the money is new to the wallet or the hour was paid.
PayIncome(r) ==
  /\ stage[r] = "leg" /\ Head(todo[r]).kind = "income"
  /\ Free("user", r)
  /\ holder' = [holder EXCEPT !["user"] = r]
  /\ \E income \in {0, IncomeOf(money)} :
       newMoney' = [newMoney EXCEPT ![r] = money + income]
  /\ stage' = [stage EXCEPT ![r] = "row"]
  /\ UNCHANGED <<db, todo, copies, way, newAsset, coinRows, manRows, reply>>

\* The INSERT that follows applies the same conditions a moment later, and takes
\* the money that the UPDATE has left for the money before it: the row states a
\* balance that the wallet never has.
AddIncomeRow(r) ==
  /\ stage[r] = "row" /\ Head(todo[r]).kind = "income"
  /\ LET row == Row(r, IncomeOf(newMoney[r]), newMoney[r])
     IN  \/ newMoney[r] > 0 /\ manRows' = [manRows EXCEPT ![r] = Append(@, row)]
         \/ newMoney[r] = money /\ UNCHANGED manRows
  /\ stage' = [stage EXCEPT ![r] = "commit"]
  /\ UNCHANGED <<db, holder, todo, copies, way, newAsset, newMoney, coinRows, reply>>

\* A successful SignIn saves its whole copy of the user row, money included;
\* updateCommission does so with the copy its caller took at the start.
SaveWholeUser(r) ==
  /\ stage[r] = "whole"
  /\ holder["user"] = Nobody
  /\ money' = user[r]
  /\ End(r, "ok")
  /\ UNCHANGED <<asset, coinLog, manLog>>

\* tx.Commit, and the success message.  Committing a transaction that the
\* database has already rolled back changes nothing, and its error is ignored.
Commit(r) ==
  /\ stage[r] = "commit"
  /\ asset' = IF holder["asset"] = r THEN newAsset[r] ELSE asset
  /\ money' = IF holder["user"] = r THEN newMoney[r] ELSE money
  /\ coinLog' = coinLog \o coinRows[r]
  /\ manLog' = manLog \o manRows[r]
  /\ End(r, "ok")

\* The row a request waits for when it is locked by another one.
WantedRow(r) ==
  CASE stage[r] = "save" /\ ~stray[r] -> "asset"
    [] stage[r] = "whole" -> "user"
    [] stage[r] = "leg" /\ Head(todo[r]).kind \in {"man", "limit", "income"} -> "user"
    [] OTHER -> "none"
WaitsFor(r, q) ==
  /\ r # q /\ WantedRow(r) # "none"
  /\ holder[WantedRow(r)] = q
  /\ ~(stage[r] = "leg" /\ Head(todo[r]).kind = "man" /\ Short(user[r], Head(todo[r]).amount))

\* Save and Updates of a balance ignore their error and the handler goes on with
\* the ledger row; setting the limit and paying the income return it.
GoesOn(r) == stage[r] = "save" \/ (stage[r] = "leg" /\ Head(todo[r]).kind = "man")

\* Two requests wait for each other: the database rolls one of them back and
\* fails its statement; what follows runs without a transaction.
Deadlock(r) ==
  /\ \E q \in Req : WaitsFor(r, q) /\ WaitsFor(q, r)
  /\ \/ ~GoesOn(r) /\ End(r, "error")
     \/ /\ GoesOn(r)
        /\ open' = [open EXCEPT ![r] = FALSE]
        /\ holder' = Released(r)
        /\ coinRows' = [coinRows EXCEPT ![r] = <<>>]
        /\ manRows' = [manRows EXCEPT ![r] = <<>>]
        /\ stage' = [stage EXCEPT ![r] = "row"]
        /\ UNCHANGED <<todo, copies, stray, unsaved, newAsset, newMoney, reply>>
  /\ UNCHANGED db

\* innodb_lock_wait_timeout: the statement that waits fails and is undone, alone;
\* the transaction and its locks stay.  A sign-in ignores that as well.
LockWaitTimeout(r) ==
  /\ \E q \in Req : WaitsFor(r, q)
  /\ \/ ~GoesOn(r) /\ End(r, IF stage[r] = "whole" THEN "ok" ELSE "error")
     \/ /\ GoesOn(r)
        /\ unsaved' = [unsaved EXCEPT ![r] = TRUE]
        /\ stage' = [stage EXCEPT ![r] = "row"]
        /\ UNCHANGED <<holder, todo, copies, open, stray, buffer, reply>>
  /\ UNCHANGED db

\* The process or its connection is lost: the database drops the transaction.
Crash(r) ==
  /\ r \in Active
  /\ End(r, "lost")
  /\ UNCHANGED db
-----------------------------------------------------------------------------
Step(r) ==
  \/ BalanceCheck(r)
  \/ ReadAsset(r) \/ CreateRow(r) \/ RefuseAsset(r) \/ SaveAsset(r) \/ AddCoinRow(r)
  \/ RefuseMoney(r) \/ SaveMoney(r) \/ AddManRow(r)
  \/ RereadUser(r) \/ SetLimit(r) \/ PayIncome(r) \/ AddIncomeRow(r) \/ SaveWholeUser(r)
  \/ Commit(r)

AllServed == (\A r \in Req : stage[r] = "done") /\ UNCHANGED vars

Next ==
  \/ \E r \in Req : Arrive(r) \/ Step(r) \/ Deadlock(r) \/ LockWaitTimeout(r) \/ Crash(r)
  \/ AllServed

Spec == Init /\ [][Next]_vars

\* The Go runtime runs every goroutine and the database answers every
\* statement or finds the deadlock; nobody promises that requests arrive, that
\* waits time out or that processes crash.
FairSpec == Spec /\ \A r \in Req : WF_vars(Step(r) \/ Deadlock(r))
-----------------------------------------------------------------------------
LedgerRow == [by : Req, amount : Int, before : Nat, after : Nat]
LegSet    == [kind : {"coin", "man", "reread", "limit", "income"}, amount : Int]

\* The types of the variables.  The copies and the unsaved balances are natural
\* numbers because UpdateCoinAssetsBalance and UpdateCmBalance refuse a debit
\* that the copy they compute from does not cover.
TypeOK ==
  /\ asset \in AssetRow /\ money \in Nat
  /\ coinLog \in Seq(LedgerRow) /\ manLog \in Seq(LedgerRow)
  /\ holder \in [Rows -> Req \cup {Nobody}]
  /\ stage \in [Req -> Stages]
  /\ todo \in [Req -> Seq(LegSet)]
  /\ user \in [Req -> Nat] /\ read \in [Req -> Nat]
  /\ hasSnap \in [Req -> BOOLEAN] /\ snap \in [Req -> AssetRow]
  /\ open \in [Req -> BOOLEAN] /\ stray \in [Req -> BOOLEAN] /\ unsaved \in [Req -> BOOLEAN]
  /\ newAsset \in [Req -> Nat] /\ newMoney \in [Req -> Nat]
  /\ coinRows \in [Req -> Seq(LedgerRow)] /\ manRows \in [Req -> Seq(LedgerRow)]
  /\ reply \in [Req -> Replies]

\* No interleaving, refusal, deadlock or crash leaves a wallet in debt, or writes
\* a ledger row that says so: each handler checks its own copy of the balance,
\* which may be stale, and saves the result of the same copy.
NeverOverdrawn ==
  /\ Balance(asset) >= 0 /\ money >= 0
  /\ \A i \in 1..Len(coinLog) : coinLog[i].after >= 0
  /\ \A i \in 1..Len(manLog) : manLog[i].after >= 0

LastAfter(log, start) == IF log = <<>> THEN start ELSE log[Len(log)].after

\* The request's statements may commit apart from each other: it has no transaction
\* (never, or not any more), or its save has failed and its ledger row has not.
Apart(r) == ~open[r] \/ unsaved[r]

\* The requests that take a step (all others stay at their stage).
Moved == {r \in Req : stage'[r] # stage[r]}

\* UpdateCoinAssetsBalance writes the balance and the ledger row of a movement in
\* one transaction: whatever interleaves, is refused or crashes, a step that
\* changes one of them leaves the balance that the newest row states.  The code
\* gives this up in three cases, all of the request that takes the step: it has
\* no transaction, the error of its save was ignored, or the asset row
\* it creates is a second one.
AssetFollowsLedger ==
  [][ \/ UNCHANGED <<Balance(asset), coinLog>>
      \/ Balance(asset') = LastAfter(coinLog', Balance(Asset0))
      \/ \E r \in Moved : Apart(r) \/ stray[r] ]_vars

\* The hourly income, whose row states a balance that is never in the wallet.
Hourly(r) == todo[r] # <<>> /\ Head(todo[r]).kind = "income"

\* The same of the management money and UpdateCmBalance, but for the row of a
\* transfer that empties the wallet, where Updates does not write the zero.  The
\* hourly income and the saves of a whole user row do not keep to it.
MoneyFollowsLedger ==
  [][ \/ UNCHANGED <<money, manLog>>
      \/ money' = LastAfter(manLog', Money0)
      \/ LastAfter(manLog', Money0) = 0
      \/ \E r \in Moved : Apart(r) \/ stage[r] = "whole" \/ Hourly(r) ]_vars

\* Each row starts from the balance that the row before it ended with.
Chained(log, start) ==
  \A i \in 1..Len(log) :
    log[i].before = IF i = 1 THEN start ELSE log[i - 1].after
CoinRowsChained == Chained(coinLog, Balance(Asset0))

\* How many rows of a ledger a request has left.
RowsBy(log, r) == Cardinality({i \in 1..Len(log) : log[i].by = r})

\* Both legs of a transfer, both debits of a withdrawal, a credit and its gift:
\* a request shows in the ledgers once it has been reported as done, and leaves
\* nothing there when it is refused or lost half-way, as long as it has its
\* transaction.
NothingUntilDone ==
  \A r \in Req :
    open[r] /\ reply[r] # "ok" => RowsBy(coinLog, r) = 0 /\ RowsBy(manLog, r) = 0

\* Every request that is served is answered, whatever it has to wait for: locks
\* are released by Commit and by the deferred Rollback, and a deadlock is broken.
EveryRequestAnswered == \A r \in Req : (stage[r] # "idle") ~> (stage[r] = "done")
-----------------------------------------------------------------------------
\* A ledger as the abstract wallet keeps it: without the requests.
Abstract(log) ==
  [i \in 1..Len(log) |-> [amount |-> log[i].amount, before |-> log[i].before, after |-> log[i].after]]

Promise == INSTANCE AtomicWallet WITH
  asset <- Balance(asset), Asset0 <- Balance(Asset0),
  coinLog <- Abstract(coinLog), manLog <- Abstract(manLog)

\* Served one at a time, the handlers are atomic: their transactions, with every
\* refusal and crash, implement the wallet that moves all amounts at once.
ImplementsAtomicWallet == Promise!Spec
=============================================================================
