SPECIFICATION Spec
CONSTANTS
  Task = {t1, t2}
  NoTask = NoTask
  Request = {p1, p2}
SYMMETRY BothSymmetries
INVARIANTS TypeOK PlanFollowsTasks
PROPERTY CancelledKept
