\* Two debits of the same balance overlap, and no save of theirs fails.
SPECIFICATION Spec
CONSTANTS
  Req = {r1, r2}
  Ops = {"WithdrawApply", "CMTransferIn"}
  Amounts = {1, 2}
  Extras = {0}
  MinTransferIn = 1
  Asset0 = 2
  Money0 = 2
  HourRate = 0
  MaxActive = 2
  Nobody = Nobody
CONSTRAINT SavesSucceed
INVARIANTS
  CoinRowsChained
