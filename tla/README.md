# TLA+ models of muskex_backend_go

The repository is the backend of a crypto exchange app in Go: an API server (`src/main.go`,
`src/rserver`), a daemon of timer jobs (`src/cmds/job`), market-data collectors (`src/cmds/bndata`,
`src/rserver/depTrade.go`) and a gateway; two more parts, a wallet log-in (`src/mmlogin`) and a second
websocket hub (`src/cmds/ticker`), are in the repository and not in any program. They share one MySQL
database through gorm. Nothing in the process guards a user's money: what keeps balances, ledgers, orders,
stock, accounts and tokens consistent is the order of the SQL statements in each handler, the transaction
around them if there is one, and what the database does when requests overlap. That is what most of the
models here are about; the rest is about the goroutines of the processes themselves (cache, websocket
hub, timer daemon, candle collector).

`PROJECT.json` holds the machine-readable side: components, runs, mutants, the map from definitions to
source lines, findings, hazards and theorems.

## Inventory

| Component (source) | State | Operations | Hard behaviour | What makes it correct | Module |
|---|---|---|---|---|---|
| Wallets (`rserver/user_man.go` 46-103, handlers in the same file, `udun_api.go`, `job.go`) | asset rows, `user.money`, ledgers `UserCoinChange`, `ManChange` | `UpdateCoinAssetsBalance`, `UpdateCmBalance`; transfers, `WithdrawApply`, `rechargeArrives`, `Notify2Handler`, rebates, the hourly income, gifts without a transaction, whole-row saves of `SignIn` and `updateCommission` | plain reads and absolute writes in overlapping transactions; ignored errors of a save (deadlock, lock-wait timeout); callers without a transaction; an asset row created twice | nothing below zero; balance and newest ledger row agree but for the named exceptions; both legs or none; every request answered | `Wallet`, `AtomicWallet` |
| Orders (`user_man.go` 106-184, 327-423, 969-1075, 1283-1377; `timer_job.go` 102-208, 514-529) | status of a recharge, of a leased miner, of a bought product | submit, buy, callback, payout jobs, timeout | duplicated callbacks, overlapping job runs, crash between payment and status, timeout against callback | paid at most once, payment and status together, each order a job can find settled | `Orders` |
| Limits (`BuyMan`, `LeaseMiner`, `BuyContract`, `WithdrawApply`, `SaveIdCardInfo`, `userFirstRecharge`) | `sold_num`, `sales_num`, `used_num`, orders of a user | check, order or gift, increment | check outside the transaction, absolute increments, gifts without one, failed counts read as 0 | limits bend by overlap and failed counts only, counters never invent | `Limits` |
| Trade event hub (`rserver/ws`) | `topicClients`, three channels, each client's send channel and pumps | connect, join, leave, push, the cases of `run`, `readPump`, `writePump` | closed channels, full channels, slow clients, register and unregister overtaking each other | no send on a closed channel, no gap, no stuck producer | `TradeHub` |
| Cache (`utils/cache.go`) | LRU cache with dated keys, group of calls | `CacheFromLru`, `CacheFromLruWithFixKey`, `group.Do`, loaders | duplicate suppression, nested loads, panics, keys that change during a load | one loader per key, bounded age, requests end | `Cache` |
| Accounts (`user_auth_server.go`, `main.go` 183-231, `model/tools.go`, `utils/captcha.go`) | users, `TokenV2`, codes, cached user ids | send and verify a code, `SignUp`, `SignIn`, `GenToken`, `getAuthedUserId` | no transaction at all; ignored errors; stale cached tokens; restart | accounts and live tokens bounded by overlap and failures, a code is used once, a disabled token ends | `Accounts` |
| Timer daemon (`cmds/job/ops`, `utils/signal`) | `workingMap`, cron, the interceptor's channels | `DeamonAll`, its jobs, signals and shutdown requests | shutdown against a starting job, shared entries, two requests at once | no job cut short, quit closed once, the process ends | `Daemon` |
| Candles (`cmds/bndata/main.go`) | `ba_kline_data`, the batch, a channel | `dataHandler`, `batchWrite`, the chain of SQL statements, `tableClean` | lost batches, failed statements, late rows, restarts | a candle is what its interval was | `Candles` |
| Ticker prices (`rserver/depTrade.go`) | map of prices, `lastSyncCoinPriceTime` | `tradeEventHandler`, `SyncCoinPrice` | stale copies | the next ticker replaces them | events only, in `TradeHub` |
| Commission and levels (`job.go`, `reward.go`) | commission pool, levels | `updateCommission`, `CommissionCollect`, `UserActive` | whole-row saves of stale users | one gift per reason | `Wallet`, `Limits` in part |
| Wallet log-in (`mmlogin`), ticker hub (`cmds/ticker`) | | | not part of a program | | none |
| Public queries, gateway, generated code | none | | | | none |

Interaction: handlers and jobs meet only in the database. `LoadDbConfig`, used by handlers and jobs,
goes through the cache, as does the look-up of a token on every request; the market-data handler pushes
into the hub; `SignIn` and `updateCommission` save whole user rows and so touch the wallet; jobs and
callbacks settle orders that handlers create; the daemon decides when a job may be cut short.

## Modules

| Module | Models | Extended or used by |
|---|---|---|
| `Wallet` | both balances of one user, statement by statement | `MCWallet`, `WalletProofs` |
| `AtomicWallet` | what a user may rely on: an operation moves all its amounts or none | `Wallet` (`ImplementsAtomicWallet`) |
| `Orders` | orders that end with a payment, their callbacks, jobs and timeout | `OrdersProofs` |
| `Limits` | everything there is only so much of, and the handlers that look at the limit first | `LimitsProofs` |
| `TradeHub` | the websocket hub and its clients | `MCTradeHub`, `TradeHubProofs` |
| `Cache` | the read-through cache | `MCCache`, `CacheProofs` |
| `Accounts` | sign-up, sign-in, codes, tokens and the cached user ids | `AccountsProofs` |
| `Daemon` | the process of the timer jobs and its shutdown | `DaemonProofs` |
| `Candles` | candles of one symbol, from the stream to the longest interval | `MCCandles`, `CandlesProofs` |

`MCWallet`, `MCTradeHub`, `MCCache` and `MCCandles` give values to constants that a configuration cannot
write, and symmetry sets. The refinement mapping to `AtomicWallet` is at the end of `Wallet`: both
balances as they are, and the ledgers without the requests that wrote them.

### The database

MySQL is external and modelled by what the code can see of it at REPEATABLE READ: the first plain read
of a transaction takes a snapshot, later plain reads see it and the transaction's own writes; the first
write of a row locks it until the transaction ends; an UPDATE sees committed data; of two transactions
that wait for each other one is rolled back; a wait for a lock that takes too long fails the waiting
statement and nothing else (`innodb_rollback_on_timeout` is off unless set); a lost process or connection
rolls back. A statement through `utils.Orm` is a transaction of its own. The code has no
`SELECT ... FOR UPDATE` and no retries. A few statements are one conditional UPDATE (the recharge
timeout, `GenToken`, `withdrawPassed`, the increment of `sold_num`, the UPDATE of the hourly income): those
see committed data. Gap locks are not modelled.

### Wallet

A request is a list of legs (`Program`), the calls its handler makes in order, and each leg is a few
statements (`stage`): `ReadAsset`, `CreateRow`, `RefuseAsset`, `SaveAsset`, `AddCoinRow` are
`UpdateCoinAssetsBalance` (`Decide` is its check); `RefuseMoney`, `SaveMoney`, `AddManRow` are
`UpdateCmBalance`, where `Written` keeps gorm's rule that `Updates` skips a zero field. `copies` are the
rows a handler has in memory (the user row is read when the request arrives, outside any transaction),
`buffer` what its open transaction has written. `BalanceCheck` is `balanceCheck` of `withdraw`;
`RereadUser` the job's read through `utils.Orm`; `SetLimit` the update of `limit_withdraw_time`;
`PayIncome` and `AddIncomeRow` the two SQL statements of `TimerManagementWalletIncomeHours`, whose second
takes the money that the first has left for the money before it. `SaveWholeUser` is the whole-row save of
`SignIn` and of `updateCommission` after a purchase. What the code does when things go wrong:

- The gifts and rewards hand `utils.Orm` to `UpdateCoinAssetsBalance` (`user_man.go:1117`,
  `user_auth_server.go:88`, `reward.go` from line 68 on, `job.go:46`): each of its statements commits by
  itself. `SaveIdCardInfo` stands for them; `open` is FALSE from its start.
- The row of a balance that is asked for the first time is created through `utils.Orm`, outside the
  transaction (`user_man.go` 72-77). A row created meanwhile, or one that the transaction's snapshot does
  not show, is not found: a second row is created and the balance of this request goes there (`stray`),
  where no other request of the model looks.
- `Save` and `Updates` of a balance ignore their error (`GoesOn`). The victim of a `Deadlock` goes on
  without its transaction and answers that it is done; a `LockWaitTimeout` fails the one statement, and the
  transaction commits a ledger row without the balance (`unsaved`). Other statements return the error.
- `Crash` is a lost process or connection, or a statement that fails otherwise and whose error ends the handler.

`Commit` and the answer are one step: a crash between them, which leaves the caller without an answer to
what is done, is not told apart. Also left out: that the `Create` of a missing row fails (its error is not
looked at), and which of two asset rows later requests find. Amounts are natural numbers: rounding of
float64 is abstracted, and the income of an hour is a multiple of the money.

### Orders

One user's orders. `Buy`, `Create`, `ReadBalance`, `Book`, `Commit` are `LeaseMiner` and `BuyMan`;
`Notify` begins `Notify2Handler`; `Payout` and `PickOrder` are `TimerMinerOrderIncome` and
`TimerManagementOrderIncome`; `Book` is a payment (`UpdateCoinAssetsBalance`), `SaveOrder` the new
status. The balance is the number of times each payment is in it, which is what double payment is
about; sums are in `Wallet`. Abstractions:

- `status = 0` selects the empty string that `SubmitRecharge` leaves: in a column that is an ENUM, MySQL's
  non-strict mode stores a value that is no member as the empty string with number 0, and a
  comparison with a number compares the number of the member. `RechargeOrderTimeout` writes the number 2, which is
  the second member, "1": a recharge that it finds is completed, without a payment (`timer_job.go:523`,
  `model.proto:543`). Statuses that the code writes as texts are what they say.
- `expire_time` and `create_time` are integers in Unix seconds that the jobs compare with a `time.Time`
  (`timer_job.go` 111, 181, 523). The driver sends that as a text, and MySQL compares the integer with the
  number the text begins with, the year. So the jobs find no order that a handler has dated (`Stamp` is
  `Unix`, the jobs look up to `Year`), only one whose time is zero. What the handlers create is never
  found; so that the jobs' transactions are exercised all the same, `Undate` is somebody else who
  writes to the tables (the administration is not in this repository) and leaves a time at zero.
- Both coins of a product are taken to be the same asset row, which is the case with more contention.
- One user's asset row. A callback locks its order and then the asset row, a payout job the asset row
  and then its orders, which no callback locks: with one user there is no cycle, and the liveness run
  confirms it. Two jobs that pay several users may deadlock in the code, and a wait for a row may time out;
  the loser's `Save` fails, its error is ignored, and the job goes on, after a deadlock outside its
  transaction. That is modelled in `Wallet` and not here, so `PaidOnce` and `BookedIsSettled` speak of
  transactions none of whose saves fails unnoticed.
- The stock of the product and the exchange code are in `Limits`; the referee's commission and
  `limit_withdraw_time` are left out here. A failed callback that overlaps a successful one may save status 2 over status 1:
  the model has that behaviour, and `Settled` counts both.

### TradeHub

One process, one hub. The hub's goroutine takes one case of its `select` per step (`HubRegister`,
`HubUnregister`, `HubBroadcast`) and copies an event to the clients of its topic one by one
(`HubSend`); each client has `readPump` (`ReadFails`, `Leave`) and `writePump` (`WriterTake`,
`WriterCount`, `WriterDrain`, `WriterFlush`, ...). Channels are bounded sequences and may be closed.
An unregister may overtake the register of the same client (`hub.go:53`, two buffered channels): the
client is then added after it has gone, and stays until its send channel is full. The model has this
behaviour; the properties hold with it.

### Cache

`Ask` computes the dated key (`CacheFromLru`, `KeyAt`), then hit or miss, `Enter` is the first half of
`group.Do`, the loader runs (and may ask the cache itself: the home page asks for the configuration),
ends with a value, an error or a panic, and `Delete` and `Add` are the rest. The order of LRU entries
is abstracted: a full cache evicts any entry. Two facts of the code are used: the keys of the home page
and of the configuration have the same prefix `dbconfig`, but their padded periods (2119873 ms and
3959873 ms) keep the dated keys apart for centuries; and a loader that asks the cache asks for a name
whose loader does not (`CacheAssumption`). That reads are monotonic is not claimed: an answer may be
older than one given before.

### Limits

`BuyMan`, `LeaseMiner`, `BuyContract`, `WithdrawApply`, `SaveIdCardInfo`, `userFirstRecharge` and the
creation of a missing asset row have one shape: look at what there is (`ReadStock`, `CountOrders`,
`ReadCode`), then write what the next one will look at (`Pay`, `Give`, `SpendCode`, `BookStock`,
`Commit`). `seen` is what a request has read and compares with; `owner` the row locks, held to the end of
the transaction. Three facts of the code decide what comes out: `BuyMan` adds to `sold_num` in SQL, so
the counter is exact; `LeaseMiner` writes `sales_num` as the number it read plus one, and `used_num` as
the number it read plus the quantity, so overlapping leases lose some; and the checks are all made before
or outside the transaction. A query may fail: `LeaseMiner`, `WithdrawApply`, `userFirstRecharge` and
`BuyContract` (`Heedless`) do not look at the error and go on as if they had counted none (`seen.failed`);
the others return. `blind` counts the orders that come of it, so that the bound on a limit can say what
overlap alone can do. A row's writes are computed at `Commit`, when nobody else can have written
the locked rows since. `Crash` and `Refuse` (a balance that does not suffice) roll back. A refused
exchange code returns at `user_man.go` 1015-1021 without `Rollback`: its transaction has locked nothing
yet, so only a connection is lost, and connections are not counted. A day may end (`NewDay`).
Abstractions: one product, one miner, one code; a gift is counted by its ledger row, as the code does, so
that one whose row is lost in a crash may be had again; what a user pays is in `Wallet`; units leased are kept in
`units`, so that `sales_num` can be compared with them. The bound on units is stated for `BuyMan` only,
since `sales_num` counts one for an order of any size and units leased may exceed those issued.

### Accounts

`SendCode` and `Verify` are `GenCaptcha` and `VerifyCaptcha`: the store holds one code of a mobile, a new
one replaces it, and every attempt takes it out. `SignUp`, `Look`, `Insert`, `Address` are the handler of
that name, with a statement between each two of which anything may happen; `SignIn` takes the account
with the lowest number. `Disable` and `Create` are the two statements of `GenToken`. Any of them may fail:
`LookFails` is a query whose error `SignUp` takes for "no such mobile" (`user_auth_server.go` 35-39),
`DisableFails` the update whose error `GenToken` ignores (`model/tools.go:162`), and `Fail` a failure that is
looked at and ends the request. `overlooked` and `spared` count the failures that matter (a look that failed
although there was an account, a user's live tokens left alone since they were last disabled), so that the
bounds can say what overlap and failures can do together, and nothing else can. `Authenticate`,
`Load`, `Add`, `Answer` are `getAuthedUserId` through `CacheFromLruWithFixKey`: the key ends in a time
(`End`), a result of another request under the same key may be taken (`Known`, as `group.Do` does), and
the load looks at `disabled` and the age. `Restart` loses codes, cache and requests; rows stay.
Abstractions: of the user row only number and mobile; passwords are right or wrong; the cache evicts
nothing (an eviction only makes an answer fresher); codes do not expire except by a restart (expiry only
takes away sign-ups); the count of failed log-ins and a changed password are last write wins.

### Daemon

One `DeamonAll`: `Fire` is cron's `go f()`, `Store` and `Finish` a job's entry in `workingMap` and its
deferred `Delete` (one key per job, whatever the number of runs), `Panic` the panic of `LoadDbConfig`
that nothing recovers. `Look`, `Visit`, `Looked` are the loop after the shutdown channel is closed:
`Range` visits the keys one by one while jobs come and go, `sync.Map` promising nothing more; two
seconds' sleep is a step. `Signal`, `HandleSignal`, `HandleRequest`, `HandleQuit`, `RequestShutdown`,
`RequestSeesQuit` are `utils/signal` with its channels: `interruptChannel` of one place that drops, an
unbuffered `shutdownRequestChannel`, and two channels that are closed. Cron is not stopped at shutdown, so
jobs go on being started, which `WorkIsAwaited` allows for.

### Candles

A candle is the set of events it is made of and the minute whose opening price it shows: high, low, close
and volume are functions of that set. `dataHandler`, `Receive` and `Save` are the stream, the channel and
the batch saved every second (a failed `Save` drops it); `Compute` is one statement of the chain
(`sql2`, `sql2_week`), which computes the current bucket of the next interval and the one before from the
rows of the shorter one, and keeps an opening price once written; `Clean` is `tableClean`; `Crash` loses
what is in memory. `passed` is when the last whole pass began: the clock may run at most `MaxLag`
ahead of it, the assumption under which `ClosedIsComplete` is claimed. Interval lengths are constants;
`WeekLevel` and `Offset` say which interval, if any, is shifted by days as the week's is.
`ChainAssumption` is what the properties need of `params_sql2` and `tableClean`, and what is true of them: each
interval is a multiple of the one before, the shifted one is the last, and the rows kept of each
interval (500) span two lengths of the next; and whole passes, which come every second, are less than
the shortest longer interval (five minutes) apart.
Abstractions: one symbol; rows have no id of their own (the statements order by start time within a
bucket, which is the order of ids when minutes arrive in order, as `latest` says they do).

## Runs

| Run | Question | Expected |
|---|---|---|
| `wallet_concurrent` | any three requests, two at a time, with and without transactions, crash, deadlock, wait too long and find no asset row: `NeverOverdrawn`, `AssetFollowsLedger`, `MoneyFollowsLedger`, `NothingUntilDone`, `EveryRequestAnswered` | pass |
| `wallet_serial` | one at a time: ledger rows chain, and `Wallet` implements `AtomicWallet` | pass |
| `wallet_lost_update` | rows chain also when two debits overlap and no save fails | violated |
| `orders_settle` | `PaidOnce`, `BookedIsSettled`, `SettledIsBooked`, `EveryFoundOrderSettled` with duplicated callbacks, overlapping jobs, a timeout and a crash | pass |
| `orders_unpaid` | a bought management product is paid out in the end (`EveryProductSettled`) | violated |
| `limits` | `CountersAreOrdered`, `LimitsBendAsCounted`, `KeptIfReadStillHolds`, `EveryRequestEnds` when two requests overlap and counts may fail | pass |
| `hub` | `SendsOnOpenOnly`, `CountedAreThere`, `NoGaps`, `EventsAreCopied`, `DroppedClientsEnd` with channels of one place | pass |
| `cache` | `OneInFlight`, `NoCallLeft`, `NotTooOld`, `EveryRequestEnds` with failures and a panic | pass |
| `accounts` | `AccountsByOverlap`, `AccountsByCodes`, `LiveTokensByOverlap`, `AcceptedWasGood` with failed statements and restarts | pass |
| `daemon` | `WorkIsAwaited`, `ClosedOnce`, `ShutdownEnds`, `RequestsReturn` | pass |
| `candles` | `CoversItsInterval`, `ClosedIsComplete`, `OpensWithItsFirst`, `NeverLosesData` with failures and restarts | pass |
| `candles_week` | a week's candle is made of its week | violated |

Type invariants are checked in the runs of `Wallet`, `TradeHub`, `Cache` and `Candles`; those of `Orders`,
`Limits`, `Accounts` and `Daemon` are left to their proofs.

Why the bounds are enough.

- Wallet: every hazard of the code is between two requests, and a third comes after two that
  overlapped. Locks are of two rows, so a cycle of waiting requests is one of two. The asset row is
  missing at the start, amounts are 1 and the money is 1, so that debits are refused until a credit has
  come and a transfer empties the wallet. The legs of `rechargeArrives` are those of `WithdrawApply` and
  `Notify2Handler`, and `updateCommission` saves the user as `SignIn` does: both handlers are left to the
  proofs, which are of any number of requests at once. `wallet_serial` serves one request at a
  time; so `CoinRowsChained` and `ImplementsAtomicWallet` say nothing of overlap, which
  `wallet_lost_update` shows. There the money starts at 7, so that no transfer empties the wallet (see Findings), and
  amounts of 1 and 2 tell the amounts of a request apart.
- Orders: two goroutines are two runs of one job, two callbacks, or a job against a callback or a
  purchase; two miners make the job's loop pay one order and go on to the next, and one crash can hit
  any statement. Any `Year` below `Unix` does, they are only compared.
- Limits: two requests at a time of two users, limits of one to three, quantities of one or two, so that
  each limit is met by one request and passed by two; three orders in all let a third request come after
  two that overlapped. The bound `others` in the properties is a count of slots, and its proof is for any.
- Hub: two clients of one coin, channels of one place, two events: every full channel and every closed
  one happens as early as it can. Two topics, send channels of two places and four events, where a
  message holds more than one event, were checked once and take too long for a regular run.
- Cache: two callers, both of which may be inside loaders, two names one of whose loaders asks for the
  other, two entries, and a clock that passes the end of both periods.
- Accounts: two requests, one mobile, two user and two token rows, three codes: a row more than one
  request could make without overlap, a code more than rows, and one ignored failure of each kind; a
  token's life of one, a key's period of two, and a clock of three that passes the end of both.
- Daemon: two jobs of two runs each, so that runs of one job share an entry while another job works; one
  requester and any number of signals.
- Candles: intervals of 1, 2 and 4 minutes and a clock of 8, so that both longer intervals close and the
  longest has been the "bucket before"; five events against four rows kept, so that `tableClean` deletes.
  `candles_week` counts in days, with seven days and a shift of three.

`MaxPushed`, `MaxNow`, `MaxCrashes`, `MaxActive`, `MaxPlaced`, `MaxNum`, `MaxEvents`, `MaxLag`, `Runs`,
`Users`, `Tokens`, `Codes`, `Faults` and the number of requests bound the behaviours; nothing in the code corresponds to them. Where
a configuration turns the deadlock check off, the system may stop for good: every event is copied, every
request has ended or waits for a call that panicked, every order is settled, the process has ended, the
clock is at its bound or no whole pass of the candles comes any more.

Each property of a passing run has a faulty variant of a definition in the module (`...Never`,
`...Outside`, `...Over` and so on, marked "Faulty variant"), with which the run finds it violated.

## Fairness

- Wallet: the statements of a request, and the breaking of its deadlock (`WF(Step \/ Deadlock)`): the
  Go runtime runs goroutines and the database answers. Requests need not come, waits need not time out and
  nothing need crash.
- Orders: the statements of a transaction; the cron entries of `DeamonAll` (payout jobs every hour, the
  timeout every five minutes). Purchases, callbacks and `Undate` are not promised. Weak fairness of the jobs
  is enough because an order that a job can find stays so until it is settled.
- Limits: strong fairness of each request's `Step`: a statement that waits for a row's lock is enabled
  again and again while others hold and release it, and the database serves waiters in order. Requests,
  refusals, crashes and midnight are not promised.
- TradeHub: goroutines that can run do; Go's `select` chooses at random among ready cases and blocked
  senders are served in order, hence strong fairness of the three cases and of waiting senders. A read
  or write on a closed connection fails. Peers need neither come, read, nor break.
- Cache: a request that can go on does, and a loader ends in one of its ways.
- Daemon: weak fairness of `DeamonAll`, of each run of a job, of the handler's signal case and of a
  requester in its `select`; strong fairness of the handler's quit case, which competes with signals that
  never stop coming. Cron and signals are not promised. `ShutdownEnds` relies on the runs of jobs being
  finitely many (`Runs`): DeamonAll waits as long as it finds a job listed, so jobs without end could keep
  it up, which at hourly starts and a look every two seconds they do not.
- Accounts, Candles and `AtomicWallet`: none; nothing is claimed to happen.

## Proofs

Checked by TLAPS for every value of the constants that the named assumption of the module allows.

- `WalletProofs`, of any handlers and any number of requests at once: `WalletTypeOK`,
  `WalletNeverOverdrawn`, `WalletAssetFollowsLedger`, `WalletMoneyFollowsLedger`, `WalletNothingUntilDone`.
  `IInv` is the types and `CopiesCover`: from the check of a balance to the ledger row, the copy in memory
  covers the debit. This is why stale copies never overdraw: check and result come from the same copy.
  `AInv` and `MInv` relate, for each request and wallet, what an open transaction has written to the rows it
  has inserted, so that its commit leaves the balance that its last row states. They say nothing of
  requests that are `Apart` or `stray`, which is where `AssetFollowsLedger` and `MoneyFollowsLedger` say
  nothing either: each exception is of the request that takes the step, so that one request's
  failure excuses no other. `DInv` says that the rows in a ledger are of requests answered as done or without a
  transaction, that a transaction's own rows bear its request's name, and that the answer
  comes with the commit.
- `WalletProofs`, of requests served one at a time (`MaxActive = 1`): `WalletCoinRowsChained`, without
  `SaveIdCardInfo`, and `WalletImplementsAtomicWallet`. With two at a time the first is false, which is the finding of
  `wallet_lost_update`. `LoneInv` says that nobody is `Apart` or `stray`, that the copies of the request
  that is served are the committed values and that a row it has not found is still missing. `CInv` chains the rows a
  transaction has inserted to the committed balance, which is what the newest row states. For the refinement,
  `RInv` follows a request through its `Stations`, the pairs of what
  its handler has booked and what it still has to: the rows inserted so far are those of the amounts of
  the station, booked one after the other on the balance. A commit is then one `Move` of `AtomicWallet`
  with the rows of the last station, and every other step leaves the mapped state alone. The handlers are
  those of `Serial`, which leaves three out because they are not atomic even when they are alone: `RebateIncome`
  rereads the referee outside its transaction and so books its second row from the balance before its
  first; `SaveIdCardInfo` has no transaction, so that a crash may come between balance and row; the row of
  `IncomeHours` states another balance. The last hypothesis is
  `[]NeverEmptied`, that no ledger row of the management wallet ends at zero, because `Updates`
  does not write that zero and the balance is then not what the ledger says (see Findings).
- `OrdersProofs`: `OrdersTypeOK`, `OrdersPaidOnce`, `OrdersBookedIsSettled`, `OrdersSettledIsBooked`.
  The properties are not inductive: `PaidOnce` depends on what a transaction's snapshot showed when it
  selected its orders. `Local(t)` says for each transaction what it has read (`SnapOK`), written
  (`NewOK`, `SavedOK`, `BookedOK`) and still has to do (`TodoOK`: the balance it computes from lacks the
  payments it still makes), and that a settled order stays settled (`Mono`) makes every step of one
  transaction harmless to what is said of the others (`LocalFrame`). The argument: a transaction that
  still finds an order unpaid has a snapshot without its payment, and its commit writes that snapshot
  plus one payment, so a second payment overwrites the first instead of adding to it. The balance is
  right at the price of the ledger, which then shows the payment twice. `SettledIsBooked` excepts the recharges
  that the timeout may find, which it completes unpaid.
- `LimitsProofs`: `LimitsTypeOK`, `LimitsCountersAreOrdered`, `LimitsBend`, `LimitsKept`. The bound on
  orders is not inductive, for it does not see requests past their check. `LInv` counts them:
  `OrdersBend` bounds the orders of a user together with the requests that are about to add one
  (`Taking`), and `UnitsBend` the units bought together with those under way (`Pending`); a request
  passes its check only if what it read left room for it (`Entitled`), so all others together exceed the
  limit by at most one each; one whose count failed is not in `Taking`, and its order is on both sides of
  the bound. `Known` ties what a request has read to where it is. The numbers are
  cardinalities of sets of requests, for any finite `Slots`.
- `TradeHubProofs`: `TradeHubTypeOK`, `TradeHubSendsOnOpenOnly`, `TradeHubCountedAreThere`, `TradeHubNoGaps`.
  `HInv` adds where a client may be: until its register is handled it is in the queue once, is no member
  and its channel is open. `NoGaps` says nothing of the queue of events nor of a client the hub is copying to,
  so `GInv` adds them: the events wait in the order of their numbers (`Numbered`); what a client has been
  sent, through its channel, its pump and the message under way, ends before the event being
  copied if it is still to get that one, and a member has all of its topic up to there (`Sent`); who has
  not been a member yet has been sent nothing (`Awaiting`, `Untouched`).
- `CacheProofs`: `CacheTypeOK`, `CacheOneInFlight`, `CacheNoCallLeft`, `CacheNotTooOld`. The invariant
  relates the group's map to the requests that own its calls, and the age of every value in flight to the
  period its key names.
- `AccountsProofs`: `AccountsTypeOK`, `AccountsAreByOverlap`, `AccountsAreByCodes`,
  `LiveTokensAreByOverlap`, `AcceptedTokenWasGood`. `AInv` adds to the accounts of a mobile the sign-ups
  that have looked and not yet inserted, and the code still in the store (`Unused`); to the live tokens
  the sign-ins between the statements of `GenToken` (`TokensBounded`): one whose look or update failed
  adds one to both sides of its bound. For tokens, a loaded token was
  good when it was asked for (`SafeRequest`), and an entry of the cache ends less than a period after
  the token did (`SafeEntry`).
- `DaemonProofs`: `DaemonTypeOK`, `DaemonClosedOnce`, `DaemonWorkIsAwaited`. `DInv` says that a working run
  is listed or shares its entry with an ended run (`Listed`), that a look which has found nothing so far
  knows that the jobs it has visited are unlisted or were listed since it began (`Visited`), and that
  `quit` is closed exactly when the flag is set (`Flagged`).

- `CandlesProofs`: `CandlesTypeOK`, and `CandlesCoversItsInterval`, `CandlesOpensWithItsFirst`,
  `CandlesClosedIsComplete`, `CandlesNeverLosesData` for every interval but the week, hence for all
  intervals of a chain without one. Of the week `CoversItsInterval` is false (`candles_week`). All four come from one
  invariant, `KInv`, because a statement reads the rows that the statement before it wrote: what a bucket
  loses, the next one may never have had.
  - `Placed`: minutes are in the candle of their own bucket, since buckets nest when intervals are multiples.
  - `InOrder`: events that are on their way are of minutes not before any saved, nor before those the
    last pass is about. So what is saved later only concerns the window of the next pass.
  - `Inherit` and `FirstOnes`: in the window a statement reads from (`Since`), the longer interval has no
    minute that the shorter one lacks, and those it has are the first ones. This is why computing a
    bucket again adds to it, and why an opening price written once stays right.
  - `UpTo`: for the minutes that were over when a pass began, the intervals this pass or the last whole one
    has computed have the last state. A closed bucket ended before the last whole pass began, since
    that is at most `MaxLag` ago.

  `tableClean` may come between any two statements. `NewestRemain` says that a row with fewer than `Kept`
  newer ones stays, and `FewMultiples` that a window of two lengths of the next interval holds no more
  rows of the shorter than `Kept`: so the windows survive. The least and greatest members of sets of
  minutes come from the library's theorem that strict inclusion of finite sets is well-founded.

Only model-checked are the liveness properties (`EveryRequestAnswered`, `EveryFoundOrderSettled`, `EventsAreCopied`,
`DroppedClientsEnd`, `EveryRequestEnds` of `Limits` and of `Cache`, `ShutdownEnds`, `RequestsReturn`): the prover has no
reasoning about fairness and ENABLED. Every other property that a passing run checks is a theorem
here, under the hypotheses named; what the hypotheses leave out (the three handlers and the emptied wallet
under the refinement, the week) is where the code does otherwise, as Findings say.

## Findings

- Overlapping debits lose an update (`wallet_lost_update`, `user_man.go:71`).
- A bought management product is never paid out (`orders_unpaid`, `user_man.go:390`): it is created without
  a status while the job selects status 1, and the job compares its time in Unix seconds with a year.
- The week's candle labelled Monday is made of the Thursday after it and the six days that follow
  (`candles_week`, `bndata/main.go:338`). The same lines let the window of a closed week move, so that
  its last pass (`main.go:347`) sees only some of its days.

Behaviour of the code that no run singles out, because the models have it and the properties are stated
with it, or because it is one statement that cannot go otherwise:

- Money. A management balance that becomes exactly zero is not written (`user_man.go:55`, gorm's
  `Updates` skips a zero field), so a transfer of everything leaves the money there. The rebate job reads
  its referee outside its transaction, so a second rebate in one run overwrites the first
  (`timer_job.go:417`). A transfer whose transaction was the victim of a deadlock is reported as done, and
  one whose save waited too long commits a ledger row without the balance (`user_man.go:89`). Gifts and
  rewards without a transaction may be lost half-way: a balance without its row. Two first requests of a balance may create two
  asset rows and split it (`user_man.go` 72-77). These are the exceptions of
  `AssetFollowsLedger` and `MoneyFollowsLedger`. A `SignIn` that overlaps, or `updateCommission` after a purchase
  (`user_man.go:420`), saves the whole row it read before and puts an old money back. The row of the
  hourly income (`timer_job.go` 283-320) is computed from the money after the update, so it states a
  balance that was never in the wallet.
- Orders. No leased miner and no recharge that a handler has dated is ever paid out or timed out, since the
  jobs compare Unix seconds with a year (`timer_job.go` 111, 181, 523); and what the timeout finds it
  completes instead of cancelling it (`timer_job.go:523`). A callback that says failed may overwrite the status of a paid recharge (`user_man.go:1359`).
  `rechargeArrives` credits every notice, a repeated one too (`udun_api.go:266`).
- Limits. The units leased may exceed those issued, since `sales_num` counts one for each order
  (`user_man.go:1069`), and the limit per user counts orders. A count that fails lets a
  withdrawal, a lease, a contract or a gift pass (`user_man.go` 550, 757, 991, `reward.go:112`). A refused exchange code leaves a
  transaction open (`user_man.go` 1015-1021).
- Commission. `updateCommission` does nothing and reports no error unless there is a referee and an
  amount. `contractBuyForParent` panics for a level that does not exist and skips a parent without moving
  on. `collectGrades.load` (`user_man.go` 500-524) unmarshals into a slice instead of its address, so the
  list of grades is always empty: graded gifts are never given and `CommissionCollect` always refuses. The
  gift for an activated invitee is given only if it has been given before (`reward.go:67`).
  `CalcExpireActivation` (`timer_job.go` 488-491) updates without a key and with zero fields, so nobody
  is ever deactivated.
- Processes. A panic in the configuration's loader leaves its call in the cache's group, and later requests
  for it wait (`cache.go:129`); in a job it ends the daemon under the other jobs. An unregister may
  overtake its register. When the stream of minutes ends, nothing restarts it while the other stream
  goes on (`bndata/main.go:71`). `SyncCoinPrice` notes the time of a sync that failed (`depTrade.go:251`).
- Accounts. Sign-ups at once make several accounts of one mobile, of which only the first can sign in; so
  does a sign-up whose look for the mobile failed. A sign-in that could not disable the tokens leaves them
  live next to its own, until the next one disables them all. A
  sign-up whose address the payment provider does not answer panics and leaves an account without
  balances, whose mobile cannot sign up again (`user_auth_server.go:73`).

## Not modelled

- Report jobs (`timer_job.go` from 725 on) and `CalcUserLevel` are SQL statements that fill reporting tables
  or set a column from counts; no step in them can go otherwise.
- `BonusAward` (`timer_job.go:563`) looks for today's bonus of each user and pays it, for all users in one
  transaction: the look-then-pay of `Limits`, but with a lock on every user's asset row, which the
  one-row requests of `Limits` do not have. It runs once a day.
- Commissions, levels and teams (`reward.go`, `job.go`) beyond their gifts and rebates: sums over a
  user's referees, no step of which relies on an earlier check. Of `updateCommission`, what it does to the
  wallet is in `Wallet`.
- Balances of other coins than USDT: they are further rows, changed by the same function.
- The review of a withdrawal happens in a program that is not in this repository; of its later life only
  `withdrawPassed` is here, one conditional UPDATE.
- `SyncCoinPrice`, the REST calls and `AggCons` copy data from elsewhere.
- `mmlogin`: `InitMMLogin` has no caller, so its handlers cannot run. `cmds/ticker` has no main function.
  `chan_api_back.go` is commented out. `cmds/greet` is an example.
- Public queries (no state), the gateway (configuration), float rounding, and wording and layout of messages.

Of the 36,000 lines of Go about 26,000 are generated from the protocol buffers and the table of
`gen/mproto/dic.go`; they hold messages and stubs with no behaviour. Of the 10,000 written by hand,
the models translate the handlers, jobs and goroutines in which steps can go otherwise than written;
most of the rest is queries, conversions, configuration, command lines, the old PHP kept as comments in
`timer_job.go`, and the unused parts named above. The share of all lines that is mapped is small for
that reason.
