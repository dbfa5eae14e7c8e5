SPECIFICATION MCSpec
CONSTANTS
  WalletIds = {w1, w2, w3}
  Owners = {o1}
  Txs = {t1}
  Procs = {p1, p2}
  WalletOps = {"create", "status", "rotate", "remove"}
  Targets = {"ACTIVE", "DISABLED"}
  Requests = {r1, r2}
  RecoveryOps = {"create", "update", "initiate", "cancel", "remove", "approve", "reject"}
  RecTargets = {"IN_REVIEW", "APPROVED"}
SYMMETRY Symmetry
INVARIANTS
  WalletsTypeOK
  RecoveryTypeOK
  SuccessorsPointBack
  RotationsAreFresh
  SendersExist
  EverySuccessorIsLinked
  OneCurrentWallet
  OneActiveRequest
  RequestsHaveWallets
CHECK_DEADLOCK FALSE
