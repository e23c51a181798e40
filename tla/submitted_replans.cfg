SPECIFICATION Spec
CONSTANTS
  Trip = {t1}
  Plan = {p1, p2}
  TaskId = {"a", "b", "c", "d"}
  Key = {k1, k2, k3}
  Worker = {w1}
  MaxReplans = 1
  Itinerary <- Days
  Sources = {"SUBMITTED"}
  None = None
SYMMETRY Symmetry
CHECK_DEADLOCK FALSE
INVARIANTS DoneIsCompleted
