SPECIFICATION Spec
CONSTANTS
  Trip = {t1}
  Plan = {p1, p2}
  TaskId = {"a", "b", "c", "d"}
  Key = {k1, k2, k3}
  Worker = {w1, w2}
  MaxReplans = 2
  Itinerary <- Days
  Sources = {"SUBMITTED", "FROM_EVENTS", "FROM_ADJUSTMENT"}
  None = None
SYMMETRY Symmetry
CHECK_DEADLOCK FALSE
INVARIANTS TypeOK PhaseMatchesPlans ReplanIsDecidable EndsOnce EventsOnAdoptedPlans CompletedIsDone UnfinishedUnlessShortened OneCurrent
PROPERTIES CurrentHandedOver ReportsArePlausible ImplementsContract
