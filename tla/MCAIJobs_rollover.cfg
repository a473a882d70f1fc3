SPECIFICATION Spec
CONSTANTS
  j1 = j1  j2 = j2  j3 = j3
  r1 = r1  r2 = r2
  fahes = fahes  kholasa = kholasa
  free = free  premium = premium
  Character = {fahes, kholasa}
  Plan = {free, premium}
  FreePlan = free
  NoLimit = NoLimit
  MaxRequests <- MCMaxRequests
  MaxCharacterUse <- MCMaxCharacterUse
  CanUse <- MCCanUse
  OperationKey = {r1, r2, j1, j2, j3}
  MaxMonth = 1
  Job = {j1, j2, j3}
  Request = {r1, r2}
  CharacterOf <- MCCharacterOf
  SourceBacked = {r1}
  ExternalId = {}
  NoExternalId = NoExternalId
  Caller = {p1}
  ForceFlags = {TRUE, FALSE}
PROPERTIES PlanHonoured
CHECK_DEADLOCK FALSE
