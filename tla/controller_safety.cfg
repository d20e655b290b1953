\* Two telemetry keys batched or sent apart, one attribute, four changes, two
\* sessions that end, two faults.
CONSTANTS
  k1 = k1
  k2 = k2
  a1 = a1
  v1 = v1
  v2 = v2
  bad = bad
  rpc = rpc
  Topics <- MCTopics
  RpcFilter = rpc
  MaxRecorded = 3
  TelemetryKeys <- MCTelemetryKeys
  AttributeKeys <- MCAttributeKeys
  Values <- MCAllValues
  BadValues <- MCBadValues
  NoValue = NoValue
  MaxUpdates = 4
  MaxSessions = 2
  MaxFaults = 2
SYMMETRY MCSymmetry
SPECIFICATION Spec
INVARIANTS
  TypeOK
  DrainedWhenConnected
  TelemetryFresh
  PayloadsPaidFor
  AttributesFresh
  PayloadsInOrder
  PayloadsAccounted
PROPERTY
  ImplementsOutbox
