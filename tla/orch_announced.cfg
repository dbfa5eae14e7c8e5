SPECIFICATION OrchestratorSpec
CONSTANTS
  WalletIds = {w1, w2}
  Owners = {o1}
  RequestKeys = {k1}
  Unkeyed = Unkeyed
  Creations = {c1, c2}
  OrchEvents = {}
  MaxReplies = 2
SYMMETRY Symmetry
INVARIANTS
  AnnouncedWasCommitted
CHECK_DEADLOCK FALSE
