\* One topic, four calls, lost or refused connections, fatal errors or other
\* events.
CONSTANTS
  t1 = t1
  Topics <- MCTopics
  MaxRecorded = 1
  MaxTrouble = 4
SPECIFICATION FairSpec
INVARIANTS
  TypeOK
  FlagAgrees
  HeldUnlessOverlapped
PROPERTIES
  ImplementsStream
  CallbacksCatchUp
