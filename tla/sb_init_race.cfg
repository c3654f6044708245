\* The parent's Series and Next goroutines overlap (spec section 5): a
\* loadSeries error must reach every caller.
CONSTANTS
  LabelNames = {"__name__", "job", "env"}
  MetricName = "__name__"
  Queries <- MCQueries
  VecSeries <- MCVecSeries
  AbsentArg <- MCAbsentArg
  Timestamps <- MCTimestamps
  StepsBatch = 2
  VecContents <- MCVecContents
  XContents <- MCXContents
  WContents <- MCWContents
  Concurrent = TRUE
  MaxNextCalls = 3
SPECIFICATION Spec
INVARIANT InitErrorVisible
CHECK_DEADLOCK FALSE
