SPECIFICATION Spec
CONSTANTS
  None = None
  Day = {1, 2}
  Child = {c1, c2}
  Budgets = {1, 2}
  ChildTrip <- OneDayEach
  Seat = {s1}
  RedeemKey = {k1}
  Account = {a1}
  Thread = {w1, w2}
  MaxMembers = 2
  MaxSync = 3
  MaxTime = 1
  Places = {1, 2}
  Plans <- SomePlans
  Trip = {t1}
  Bodies = {b1, b2}
  Care = {p1}
  Run = {r1, r2}
  Fetch = {f1}
  Place = {q1, q2, q3}
  MaxTerms = 2
  MinPlaces = 2
  MaxRevision = 2
  Items = {"item"}
  Participants = {"member"}
  Answers = {"answer"}
  Author <- ByMember
  Approvals = {"choice 1", "choice 2"}
  Owners = {1, 2}
  NoOwner = 0
  MaxDraftRevision = 3
  MaxVersion = 4
  DiningLabels = {"noodles", "dumplings"}
  RecommendationInputs <- SomeRecommendations
  PlanInputs <- SomePlanRequests
  SignedInputs <- SomeSignedPlaces
  ReviewInputs <- SomeReviews
  RevisionInputs <- SomeRevisions
  DraftInputs <- SomeDrafts
SYMMETRY Symmetry
CHECK_DEADLOCK FALSE
INVARIANTS TypeOK SameVersionSameView AnsweredFactsAreServable SignedFactsHaveAPlan HardLimitsHold RankingIsAHint AcceptedPlanSuitsEveryone ConfirmedReviewIsComplete RelaxationsSettle ResolvedIsAudited
PROPERTIES LinksAreFinal DriftComesFromARace SharingComesFromLinking OneFlowPerTrip
