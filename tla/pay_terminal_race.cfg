SPECIFICATION Spec
CONSTANTS
  Pay = {y1}
  Calls = {c1, c2}
  Keys = {}
  NoKey = NoKey
  Wallets = {w1}
  Caps = {}
  Admins = {}
  LimitOps = {}
  LimitFaults = {}
  LimitTries = 3
  Amounts = {1}
  PayTargets = {"FAILED"}
SYMMETRY Symmetry
PROPERTIES
  PaymentTerminalIsFinal
CHECK_DEADLOCK FALSE
