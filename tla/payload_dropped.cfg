\* One payload, published on a connection the library no longer has.
CONSTANTS
  k1 = k1
  k2 = k2
  a1 = a1
  v1 = v1
  v2 = v2
  bad = bad
  rpc = rpc
  Topics <- MCTopics
  RpcFilter = rpc
  MaxRecorded = 3
  TelemetryKeys <- MCTelemetryKeys
  AttributeKeys <- MCAttributeKeys
  Values <- MCValues
  BadValues = {}
  NoValue = NoValue
  MaxUpdates = 1
  MaxSessions = 2
  MaxFaults = 0
SPECIFICATION Spec
INVARIANT
  NoPayloadDropped
