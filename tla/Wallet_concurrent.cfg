\* Three requests, two of them at a time, interleave under fairness, and the asset
\* row is missing at the start.  The legs of rechargeArrives are those of
\* WithdrawApply and Notify2Handler; updateCommission saves the user as SignIn does.
SPECIFICATION FairSpec
CONSTANTS
  Req = {r1, r2, r3}
  Ops = {"CMTransferIn", "CMTransferOut", "WithdrawApply", "Notify2Handler", "RebateIncome", "SignIn", "SaveIdCardInfo", "IncomeHours"}
  Amounts = {1}
  Extras = {1}
  MinTransferIn = 1
  Asset0 <- NoRow
  Money0 = 1
  HourRate = 1
  MaxActive = 2
  Nobody = Nobody
INVARIANTS
  TypeOK
  NeverOverdrawn
  NothingUntilDone
PROPERTIES
  
  
  EveryRequestAnswered
