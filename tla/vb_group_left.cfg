\* a * on(x) group_left(y) b: many lhs series per rhs series.
CONSTANTS
  LabelNames = {"__name__", "x", "y"}
  LabelValues = {"a", "b", "c", "1", "2"}
  MetricName = "__name__"
  LhsSeries <- MCLhs
  RhsSeries <- MCRhsY
  On = TRUE
  MatchingLabels = {"x"}
  Include = {"y"}
  Card = "CardManyToOne"
  OpType = "MUL"
  ReturnBool = FALSE
  FloatVals = {1, 2}
  HistVals = {}
  HistSides = {}
  Timestamps <- MCSteps
  StepsBatch = 1
SPECIFICATION Spec
INVARIANT TypeOK
PROPERTY JoinRefinement
CHECK_DEADLOCK FALSE
