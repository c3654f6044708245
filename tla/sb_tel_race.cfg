\* The parent's Series and Next goroutines overlap (spec section 5): the
\* deferred telemetry updates of the two calls must not lose each other.
CONSTANTS
  LabelNames = {"__name__", "job", "env"}
  MetricName = "__name__"
  Queries <- MCQueries
  VecSeries <- MCVecSeries
  AbsentArg <- MCAbsentArg
  Timestamps <- MCTimestamps
  StepsBatch = 2
  VecContents <- MCVecContents
  XContents <- MCXContents
  WContents <- MCWContents
  Concurrent = TRUE
  MaxNextCalls = 3
SPECIFICATION Spec
INVARIANT ExecTimeIsSum
CHECK_DEADLOCK FALSE
