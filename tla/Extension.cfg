CONSTANTS
  Jobs = {j1, j2}
  Outcomes = {"Ok"}
  Plugins = {p1, p2}
  Clients = {c1, c2}
  MaxProgress = 1
SPECIFICATION ExtensionSafety
SYMMETRY ExtensionSymmetry
INVARIANTS
  ExtensionTypeOK
  ForwardsBalanced
  RecordOutlivesCallback
  RecordsHaveOwners
  NoOrphanTransfer
  NoLostCompletion
  CleanUnload
PROPERTIES
  ImplementsRequests
