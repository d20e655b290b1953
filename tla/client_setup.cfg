SPECIFICATION Spec
CONSTANTS
  c1 = c1
  c2 = c2
  Clients <- MCClients
  Configs <- MCConfigs
  Threaded = FALSE
  MaxInits = 4
  MaxStrays = 2
SYMMETRY MCSymmetry
INVARIANTS TypeOK LibraryUp HandleAsAsked
