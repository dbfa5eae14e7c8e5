SPECIFICATION WalletsSpec
CONSTANTS
  WalletIds = {w1}
  Owners = {o1}
  Txs = {}
  Procs = {p1, p2}
  WalletOps = {"create", "status"}
  Targets = {"ACTIVE", "COMPROMISED"}
SYMMETRY Symmetry
PROPERTIES
  NoReactivation
CHECK_DEADLOCK FALSE
