SPECIFICATION Spec
CONSTANTS
  b1 = b1  r1 = r1  r2 = r2  w1 = w1
  Briefs <- OneBrief
  Requests <- TwoRequests
  Workers <- OneWorker
  None = None
  MaxFindings = 1
  MaxRequests = 4
  MaxMishaps = 1
SYMMETRY Interchangeable
INVARIANTS TypeOK PromotedPlanFindsBrief FindingsAreAboutPlan PublishedIsCatalogued
PROPERTIES VerdictStands StageFollowsTable
CHECK_DEADLOCK FALSE
