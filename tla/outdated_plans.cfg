SPECIFICATION Spec
CONSTANTS
  t1 = t1
  d1 = d1
  c1 = c1
  c2 = c2
  v1 = v1
  a1 = a1
  k1 = k1
  k2 = k2
  same = same
  other = other
  None = None
  Shared = t1
  Trip = {t1}
  Itinerary <- Days
  Plan <- Plans
  Kind <- KindOfPlan
  Candidate = {k1, k2}
  CandidateOf <- Candidates
  Content = {same, other}
  ContentOf <- Contents
  ItineraryOf <- Tasks
  Evidence = {e1, e2}
  Operations = {op1}
  MaxRevision = 2
INVARIANTS CanGenerateAgain
