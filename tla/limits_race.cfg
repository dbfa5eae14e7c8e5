SPECIFICATION LimitsSpec
CONSTANTS
  Wallets = {w1}
  Caps = {0, 1, 2}
  Admins = {a1, a2}
  LimitOps = {"set"}
  LimitFaults = {}
  LimitTries = 3
SYMMETRY AdminSymmetry
PROPERTIES
  SetReplacesWhatItRead
