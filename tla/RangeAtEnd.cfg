\* A call resumes a part file that is already complete.
CONSTANTS
  Calls = {c1, c2}
  Sizes <- OneVersion
  RangeSupport = {TRUE}
  Statuses = {"4xx", "5xx"}
  MaxRetries = 0
  Overlap = FALSE
  StaleParts = FALSE
  LossyClose = FALSE
SPECIFICATION DownloadSpec
SYMMETRY CallSymmetry
INVARIANTS
  ResumeContinues
