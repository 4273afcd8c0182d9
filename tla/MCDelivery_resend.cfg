SPECIFICATION Spec
CONSTANTS
  p1 = p1 p2 = p2 p3 = p3 q1 = q1 q2 = q2 alice = alice bob = bob
  Proposals = {p1}
  Prospects = {q1}
  ProspectOf <- OneProspect
  Emails = {alice, bob}
  Operator = operator
  None = None
  Senders = {s1, s2}
  Editors = {e1, e2}
  DailyLimit <- LimitOne
  MaxLimit = 1
  ExternalProvider = "resend"
  Deliveries <- ResendBodies
  Updates <- ContactUpdates
  MaxRequests = 3
  MaxDay = 2
INVARIANTS TypeOK DeliveredWasSent
PROPERTIES PriorOptOutHonoured OptOutTakesEffect OutreachKept
CHECK_DEADLOCK FALSE
