SPECIFICATION WebhooksSpec
CONSTANTS
  Events = {e1}
  Endpoints = {x1, x2}
  Workers = {tick, h1}
  Tick = tick
  HandlerOps = {"dispatch"}
  Statuses = {}
  EndpointOps = {}
  Outcomes = {"ok"}
  MaxRetries = 2
  MaxConsecutive = 2
  BatchSize = 2
  MaxReplays = 0
  MaxHookFaults = 0
INVARIANTS
  EveryEndpointGetsARow
