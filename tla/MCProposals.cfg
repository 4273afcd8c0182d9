SPECIFICATION Spec
CONSTANTS
  p1 = p1 p2 = p2 p3 = p3 q1 = q1 q2 = q2 ann = ann bo = bo k1 = k1 k2 = k2 k3 = k3 t1 = t1 t2 = t2 t3 = t3
  Ids = {p1, p2, p3}
  Contents = {"template", "edited"}
  Template = "template"
  Subjects = {ann, bo}
  Tokens = {k1, k2, k3}
  Lifetimes = {1}
  None = None
  Threads = {t1, t2}
  MaxAnalyses = 2
  MaxVersion = 2
  MaxNow = 2
  Prospects = {q1, q2}
  MaxRequests = 7
SYMMETRY Symmetric
INVARIANTS TypeOK VersionsContiguous RestsOnAnalysis ApprovalAudited LinkOpens
PROPERTY HistoryKept
CHECK_DEADLOCK FALSE
