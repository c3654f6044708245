\* Five vector-scalar queries over three steps in batches of two; the
\* parent's Series and Next calls do not overlap.
CONSTANTS
  LabelNames = {"__name__", "job", "env"}
  MetricName = "__name__"
  Queries <- MCQueries
  VecSeries <- MCVecSeries
  AbsentArg <- MCAbsentArg
  Timestamps <- MCTimestamps
  StepsBatch = 2
  VecContents <- MCVecContents
  XContents <- MCXContents
  WContents <- MCWContents
  Concurrent = FALSE
  MaxNextCalls = 3
SPECIFICATION Spec
INVARIANT StepSemantics
INVARIANT ExecTimeIsSum
CHECK_DEADLOCK FALSE
