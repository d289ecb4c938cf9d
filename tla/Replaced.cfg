\* The object is replaced between a call and its resumption.
CONSTANTS
  Calls = {c1, c2}
  Sizes <- TwoVersions
  RangeSupport = {TRUE}
  Statuses = {"4xx", "5xx"}
  MaxRetries = 0
  Overlap = FALSE
  StaleParts = TRUE
  LossyClose = FALSE
SPECIFICATION DownloadSpec
SYMMETRY CallSymmetry
INVARIANTS
  PathIsWhole
