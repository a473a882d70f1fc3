SPECIFICATION PlatformSpec
CONSTANTS
  s1 = s1
  s2 = s2
  free = free
  paid = paid
  Source = {s1, s2}
  Size <- SizeOf
  Coll = {c1}
  Proj = {a1, a2}
  None = None
  Plan = {free, paid}
  FreePlan = free
  SourceLimit <- SourcesIn
  StorageLimit <- BytesIn
  FileLimit <- BytesInFile
  CollLimit <- CollectionsIn
  Request = {b1, b2}
  Quiz = {a1, a2}
  Question = {b1, b2}
  Author = {h1, h2}
  MaxCreated = 3
  Visitor = {b1, b2}
  MaxHash = 2
  MaxLogin = 1
SYMMETRY Interchangeable
INVARIANTS
  PlatformTypeOK
  FilesMatchRows LimitsHeld FiledInItsProject
  PublishedSound
  OneResetPerPassword
PROPERTIES PublishedOnlyArchived
CHECK_DEADLOCK FALSE
