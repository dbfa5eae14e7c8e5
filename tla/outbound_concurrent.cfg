SPECIFICATION MCSpec
CONSTANTS
  Clerks = {p1, p2}
  Tx = {t1}
  Handlers = {p1, p2}
  Keys = {k1}
  NoKey = NoKey
  Ops = {"create", "patch", "submit", "feeBump", "poll", "pollTick"}
  ManualTargets = {"SUBMITTED", "FAILED"}
  MaxAttempts = 2
  PollLimit = 1
  MaxFaults = 1
  Events = {e1, e2}
  Endpoints = {x1}
  Workers = {tick, h1}
  Tick = tick
  HandlerOps = {"dispatch", "replay"}
  Statuses = {"ACTIVE"}
  EndpointOps = {}
  Outcomes = {"ok", "error"}
  MaxRetries = 2
  MaxConsecutive = 2
  BatchSize = 2
  MaxReplays = 1
  MaxHookFaults = 0
SYMMETRY Symmetry
INVARIANTS
  TypeOK
  ConfirmedWasSubmitted
  ConfirmedIsApplied
  PollTickExclusive
  WebhooksTypeOK
  DeliveredWasAccepted
  GivenUpForCause
  PostsWithinBudget
PROPERTIES
  RefinesLifecycle
  DeliveredIsFinal
  DisabledAfterStreak
