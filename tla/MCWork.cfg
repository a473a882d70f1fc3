SPECIFICATION WorkSpec
CONSTANTS
  Worker = {w1, w2}
  Editor = {e1}
  MaxSends = 3
  Material = {1, 2, 3}
  Audio = {3}
  Folder = Folder
  NoMaterial = NoMaterial
  MaxIds = 1
  Forwarder = {f1, f2}
  MaxVersion = 2
  Retries = 1
  MaxDeaths = 1
  Call = {call1, call2}
  Skew = 1
  NonceTtl = 2
  MaxClock = 5
  Clerk = {k1, k2}
  MaxPosts = 4
  super = super
  clerkRole = clerkRole
  Account = {root, clerk}
  Founder = root
  Role = {super, clerkRole}
  SuperRole = super
  Perm <- AllPerms
  Grants <- SomePerms
  Seeded <- SeededPerms
  MaxRequests = 4
  Plan = {free, paid}
  FreePlan = free
  Officer = {o1, o2}
  MaxDay = 1
  MaxDecisions = 3
INVARIANTS
  WorkTypeOK ProcessingSound SentWithMaterial FeedbackKnown AdmittedApart DeskInStep
  SuperAdminsWereGranted AdminDeletionsSound PlanAsDecided
PROPERTIES EventuallyProcessed
CHECK_DEADLOCK FALSE
