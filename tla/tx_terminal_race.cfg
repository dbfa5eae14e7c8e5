SPECIFICATION Spec
CONSTANTS
  Tx = {t1}
  Handlers = {p1, p2}
  Keys = {}
  NoKey = NoKey
  Ops = {"create", "submit", "pollTick"}
  ManualTargets = {}
  MaxAttempts = 1
  PollLimit = 1
  MaxFaults = 0
SYMMETRY Symmetry
PROPERTIES
  TerminalIsFinal
