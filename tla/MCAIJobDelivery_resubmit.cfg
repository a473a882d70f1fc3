SPECIFICATION DeliverySpec
CONSTANTS
  j1 = j1  j2 = j2
  r1 = r1  r2 = r2
  fahes = fahes
  free = free
  Character = {fahes}
  Plan = {free}
  FreePlan = free
  NoLimit = NoLimit
  MaxRequests <- MCMaxRequests
  MaxCharacterUse <- MCMaxCharacterUse
  CanUse <- MCCanUse
  OperationKey = {r1, j1}
  MaxMonth = 0
  Job = {j1}
  Request = {r1}
  CharacterOf <- MCCharacterOf
  SourceBacked = {r1}
  ExternalId = {x1, x2}
  NoExternalId = NoExternalId
  Caller = {p1}
  ForceFlags = {FALSE}
  Worker = {w1, w2}
  ReportedProgress = {"processing"}
  MaxRetries = 1
  MaxFaults = 1
INVARIANTS OneRemotePerJob
CHECK_DEADLOCK FALSE
