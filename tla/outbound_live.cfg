SPECIFICATION MCFairSpec
CONSTANTS
  Clerks = {p1}
  Tx = {t1}
  Handlers = {p1, p2}
  Keys = {}
  NoKey = NoKey
  Ops = {"create", "submit", "pollTick", "find"}
  ManualTargets = {}
  MaxAttempts = 1
  PollLimit = 1
  MaxFaults = 1
  Events = {e1}
  Endpoints = {x1}
  Workers = {tick, h1}
  Tick = tick
  HandlerOps = {"dispatch", "process", "replay"}
  Statuses = {}
  EndpointOps = {"subscribe", "delete"}
  Outcomes = {"ok", "refused", "error"}
  MaxRetries = 2
  MaxConsecutive = 2
  BatchSize = 2
  MaxReplays = 0
  MaxHookFaults = 1
INVARIANTS
  PostsWithinBudget
PROPERTIES
  PollResolves
  TerminalIsAnnounced
  TerminalBecomesVisible
  QueueDrains
