\* Two requests share the thread and the queue and are cancelled at any time; the service.
CONSTANTS
  Jobs = {j1, j2}
  Ops = {"Get"}
  Responses = {"2xx"}
  MaxRetries <- NoRetries
  MaxProgress = 1
SPECIFICATION ThreadSafetySpec
SYMMETRY JobSymmetry
INVARIANTS
  CompleteIsLast
  CancelFindsJob
  NoMissedWakeup
PROPERTIES
  ImplementsService
