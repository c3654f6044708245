\* b > bool on(x) group_right(y) a: the lhs is the low-card side, operands
\* swapped back for the comparison, results 0/1 with __name__ dropped.
CONSTANTS
  LabelNames = {"__name__", "x", "y"}
  LabelValues = {"a", "b", "c", "1", "2"}
  MetricName = "__name__"
  LhsSeries <- MCRhs
  RhsSeries <- MCLhs
  On = TRUE
  MatchingLabels = {"x"}
  Include = {"y"}
  Card = "CardOneToMany"
  OpType = "GTR"
  ReturnBool = TRUE
  FloatVals = {1, 2}
  HistVals = {}
  HistSides = {}
  Timestamps <- MCSteps
  StepsBatch = 1
SPECIFICATION Spec
PROPERTY JoinRefinement
CHECK_DEADLOCK FALSE
