\* Calls one after the other, from servers that honour Range or not, of an object that is
\* replaced only while no part file of it is left; with what they report on the way.
CONSTANTS
  Calls = {c1, c2}
  Sizes <- TwoVersions
  RangeSupport = {TRUE, FALSE}
  Statuses = {"3xx", "4xx", "429", "5xx"}
  MaxRetries = 2
  Overlap = FALSE
  StaleParts = FALSE
  LossyClose = FALSE
  Bytes <- ByteCounts
  ErrorBytes = 5
  Announced = TRUE
  CellMax = 202
SPECIFICATION ProgressSpec
SYMMETRY CallSymmetry
INVARIANTS
  DownloadTypeOK
  PathIsWhole
  PartIsPrefix
  NoWriterBehindPath
  ProgressInCells
PROPERTIES
  OnlyStartingOverShrinks
  ProgressTruthful
  FinalProgressShown
