SPECIFICATION Spec
CONSTANTS
  q1 = q1 q2 = q2 t1 = t1 t2 = t2
  Prospects = {q1, q2}
  Stages <- ThreeStages
  None = None
  Threads = {t1, t2}
  MaxRequests = 3
INVARIANTS TypeOK ContactedHasCause
PROPERTY HandoffKept
CHECK_DEADLOCK FALSE
