SPECIFICATION MCSpec
CONSTANTS
  Pay = {y1, y2}
  Calls = {c1, c2}
  Keys = {k1}
  NoKey = NoKey
  Wallets = {w1}
  Caps = {0, 2}
  Admins = {a1}
  LimitOps = {"set", "update", "remove"}
  LimitFaults = {"error", "lost", "crash"}
  LimitTries = 2
  Amounts = {1, 2}
  PayTargets = {"CONFIRMED", "FAILED"}
  WalletIds = {w2, w3}
  Owners = {o1, o2}
  RequestKeys = {q1}
  Unkeyed = Unkeyed
  Creations = {r1, r2}
  OrchEvents = {"expire", "remove", "restart"}
  MaxReplies = 2
SYMMETRY Symmetry
INVARIANTS
  PaymentsTypeOK
  ReplayReturnsOriginal
  PostedOncePerKey
  LinkedWasAnswered
  ListenersKnowTheLimits
  OrchestratorTypeOK
  RecordedKeyReplays
  OneWalletPerOwner
  RecordsNameCommittedWallets
PROPERTIES
  CapsHold
CHECK_DEADLOCK FALSE
