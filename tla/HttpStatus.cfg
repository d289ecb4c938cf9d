\* A request cancelled while it receives its response.
CONSTANTS
  Jobs = {j1}
  Ops = {"Get"}
  Responses = {"2xx"}
  MaxRetries <- NoRetries
  MaxProgress = 0
SPECIFICATION ThreadSafetySpec
INVARIANTS
  ReportsHttpStatus
