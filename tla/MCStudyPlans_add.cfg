SPECIFICATION Spec
CONSTANTS
  Task = {t1, t2}
  NoTask = NoTask
  Request = {p1}
SYMMETRY TaskSymmetry
INVARIANT CompletedMeansDone
