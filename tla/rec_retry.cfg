SPECIFICATION Spec
CONSTANTS
  WalletIds = {w1, w2}
  Owners = {o1}
  Txs = {}
  Procs = {p1}
  WalletOps = {"create"}
  Targets = {}
  Requests = {r1}
  RecoveryOps = {"create", "update", "initiate", "cancel", "remove", "approve", "reject"}
  RecTargets = {}
SYMMETRY Symmetry
INVARIANTS
  ApprovalCanBeRetried
CHECK_DEADLOCK FALSE
