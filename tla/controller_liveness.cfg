\* One call of the library that fails, no value dump() refuses; no symmetry, for
\* liveness.
CONSTANTS
  k1 = k1
  k2 = k2
  a1 = a1
  v1 = v1
  v2 = v2
  bad = bad
  rpc = rpc
  Topics <- MCTopics
  RpcFilter = rpc
  MaxRecorded = 3
  TelemetryKeys <- MCTelemetryKeys
  AttributeKeys <- MCAttributeKeys
  Values <- MCValues
  BadValues = {}
  NoValue = NoValue
  MaxUpdates = 3
  MaxSessions = 2
  MaxFaults = 1
SPECIFICATION FairSpec
PROPERTIES
  TelemetrySentTimely
  QueueDrains
  AttributesArrive
