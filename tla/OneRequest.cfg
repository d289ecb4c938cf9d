\* One request, its retries, cancellation and shutdown; the network may be dead.  The
\* operations that stream no file differ from Head in nothing the thread looks at.
CONSTANTS
  Jobs = {j1}
  Ops = {"Head", "Get", "Put"}
  Responses = {"2xx", "3xx", "4xx", "429", "5xx"}
  MaxRetries = 2
  MaxProgress = 1
SPECIFICATION ControlSpec
INVARIANTS
  ThreadTypeOK
  RetryBudget
  OutcomeJustified
  FilesFollowTransfers
  NoStrandedJob
  ReapsLiveJobs
PROPERTIES
  CancelTakesEffect
  StopReturns
  EveryJobEnds
  KeepsServiceFairness
