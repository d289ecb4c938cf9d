\* A request cancelled while its completion is on its way.
CONSTANTS
  Jobs = {j1}
  Outcomes = {"Ok"}
  Plugins = {p1}
  Clients = {c1}
  MaxProgress = 1
SPECIFICATION ExtensionSafety
INVARIANTS
  CancelHonoured
