\* Two keys, one of which may hold a value dump() refuses; no attribute, so
\* that nothing but send() can be at fault.
CONSTANTS
  k1 = k1
  k2 = k2
  a1 = a1
  v1 = v1
  v2 = v2
  bad = bad
  rpc = rpc
  Topics <- MCTopics
  RpcFilter = rpc
  MaxRecorded = 3
  TelemetryKeys <- MCTelemetryKeys
  AttributeKeys = {}
  Values <- MCValuesWithBad
  BadValues <- MCBadValues
  NoValue = NoValue
  MaxUpdates = 2
  MaxSessions = 2
  MaxFaults = 0
SPECIFICATION FairSpec
PROPERTY
  TelemetrySentTimely
