\* Two requests, without symmetry: every record is resolved.
CONSTANTS
  Jobs = {j1, j2}
  Outcomes = {"Ok"}
  Plugins = {p1}
  Clients = {c1}
  MaxProgress = 1
SPECIFICATION ExtensionSpec
PROPERTIES
  RequestsResolved
