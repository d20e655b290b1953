\* Three threads that push and pop, two messages, four pushes.
CONSTANTS
  th1 = th1
  th2 = th2
  th3 = th3
  m1 = m1
  m2 = m2
  Threads <- MCThreads
  Msgs <- MCMsgs
  Nobody = Nobody
  MaxEvents = 4
SYMMETRY MCSymmetry
SPECIFICATION Spec
INVARIANTS
  TypeOK
  RemovesWhatItCopied
PROPERTY ImplementsStream
