\* a * on(x) b where a returns only a histogram at a step: the shortcut drops the step.
CONSTANTS
  LabelNames = {"__name__", "x", "y"}
  LabelValues = {"a", "b", "c", "1", "2"}
  MetricName = "__name__"
  LhsSeries <- MCOneL
  RhsSeries <- MCOneR
  On = TRUE
  MatchingLabels = {"x"}
  Include = {}
  Card = "CardOneToOne"
  OpType = "MUL"
  ReturnBool = FALSE
  FloatVals = {1}
  HistVals <- MCHist1
  HistSides = {"lhs"}
  Timestamps <- MCSteps
  StepsBatch = 1
SPECIFICATION Spec
PROPERTY JoinRefinement
CHECK_DEADLOCK FALSE
