\* Requests are served one at a time; transfers out never empty the wallet.
SPECIFICATION Spec
CONSTANTS
  Req = {r1, r2, r3}
  Ops = {"CMTransferIn", "CMTransferOut", "WithdrawApply", "rechargeArrives", "Notify2Handler", "SignIn"}
  Amounts = {1, 2, 10}
  Extras = {0, 1}
  MinTransferIn = 1
  Asset0 = 2
  Money0 = 7
  HourRate = 1
  MaxActive = 1
  Nobody = Nobody
SYMMETRY Symmetric
INVARIANTS
  CoinRowsChained
PROPERTIES
  ImplementsAtomicWallet
