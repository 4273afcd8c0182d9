SPECIFICATION Spec
CONSTANTS
  p1 = p1 p2 = p2 p3 = p3 q1 = q1 q2 = q2 alice = alice bob = bob
  Proposals = {p1, p2, p3}
  Prospects = {q1}
  ProspectOf <- OneProspect
  Emails = {alice}
  Operator = operator
  None = None
  Senders = {s1, s2}
  Editors = {}
  DailyLimit <- LimitOne
  MaxLimit = 1
  ExternalProvider = "smtp_generic"
  Deliveries <- AllBodies
  Updates <- NoUpdates
  MaxRequests = 3
  MaxDay = 2
INVARIANT OvershootBounded
PROPERTIES SettledForGood EveryDeliveryAnswered
CHECK_DEADLOCK FALSE
