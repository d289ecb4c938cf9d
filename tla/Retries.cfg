\* A tick is 250 ms: the base and the longest poll are four, and the cap is lowered from
\* 120 to 20 so that it is met after three attempts.
CONSTANTS
  patient = patient
  hasty = hasty
  Jobs = {patient, hasty}
  MaxRetries <- Retries
  BackoffBase = 4
  BackoffCap = 20
  MaxWait = 4
  PassTime = 2
SPECIFICATION RetrySpec
INVARIANTS
  RetryTypeOK
  RetriesOnTime
PROPERTIES
  BacksOff
