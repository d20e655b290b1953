\* Two topics, each listed up to twice: a topic recorded twice at one QoS, at
\* several QoS, beside another topic.
CONSTANTS
  t1 = t1
  t2 = t2
  Topics <- MCTopics
  MaxRecorded = 2
SYMMETRY MCSymmetry
SPECIFICATION ClientSpec
INVARIANTS
  ClientTypeOK
  SessionHoldsWanted
  SessionQosRecorded
  ActiveIsConnected
