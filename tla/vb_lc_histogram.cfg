\* a + on(x) b where both sides can return histograms: the low-card histogram loop leaves sid and val stale.
CONSTANTS
  LabelNames = {"__name__", "x", "y"}
  LabelValues = {"a", "b", "c", "1", "2"}
  MetricName = "__name__"
  LhsSeries <- MCSetLhs
  RhsSeries <- MCPairR
  On = TRUE
  MatchingLabels = {"x"}
  Include = {}
  Card = "CardOneToOne"
  OpType = "ADD"
  ReturnBool = FALSE
  FloatVals = {1}
  HistVals <- MCHist1
  HistSides = {"lhs", "rhs"}
  Timestamps <- MCSteps
  StepsBatch = 1
SPECIFICATION Spec
INVARIANT OutputSeriesLabelled
CHECK_DEADLOCK FALSE
