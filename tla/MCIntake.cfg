SPECIFICATION Spec
CONSTANTS
  a = a b = b t1 = t1 t2 = t2
  Domains = {a, b}
  Invalid = Invalid
  Lists <- BothOrders
  None = None
  Threads = {t1, t2}
  MaxRequests = 3
INVARIANTS TypeOK ReportHolds
PROPERTY EveryIntakeAnswered
CHECK_DEADLOCK FALSE
