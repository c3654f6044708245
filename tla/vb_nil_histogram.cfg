\* a + on(x) b where a series of a returns a histogram: histogram + float is rejected.
CONSTANTS
  LabelNames = {"__name__", "x", "y"}
  LabelValues = {"a", "b", "c", "1", "2"}
  MetricName = "__name__"
  LhsSeries <- MCSetLhs
  RhsSeries <- MCPairR
  On = TRUE
  MatchingLabels = {"x"}
  Include = {}
  Card = "CardOneToOne"
  OpType = "ADD"
  ReturnBool = FALSE
  FloatVals = {1}
  HistVals <- MCHist1
  HistSides = {"lhs"}
  Timestamps <- MCSteps
  StepsBatch = 1
SPECIFICATION Spec
INVARIANT NoNilHistogramOutput
CHECK_DEADLOCK FALSE
