------------------------------ MODULE Telemetry ------------------------------
(***************************************************************************)
(* Operator telemetry (execution/telemetry/telemetry.go).  A               *)
(* TrackedTelemetry is a record of its counters; each method is an         *)
(* operator from the record before the call to the record after it.       *)
(* Durations are naturals (time.Duration counts nanoseconds).  The         *)
(* per-step sample statistics (LoadedSamples) and the logical node are     *)
(* left out: no counter modelled here depends on them.                     *)
(***************************************************************************)
EXTENDS Integers

\* The counters of TrackedTelemetry.
TrackedTelemetry == [series : Int, exec : Nat, seriesTime : Nat, nextTime : Nat]

\* NewTrackedTelemetry: every counter starts at zero.
NewTrackedTelemetry == [series |-> 0, exec |-> 0, seriesTime |-> 0, nextTime |-> 0]

AddExecutionTimeTaken(tm, t) == [tm EXCEPT !.exec = @ + t]

AddSeriesExecutionTime(tm, t) == [tm EXCEPT !.seriesTime = @ + t, !.exec = @ + t]

\* Mutant: NextTime is added to but ExecutionTime is not.
AddNextExecutionTimeOnly(tm, t) == [tm EXCEPT !.nextTime = @ + t]

AddNextExecutionTime(tm, t) == [tm EXCEPT !.nextTime = @ + t, !.exec = @ + t]

SetMaxSeriesCount(tm, n) == [tm EXCEPT !.series = n]

\* StepTrackingInterval: the step in milliseconds, or 1 for an instant
\* query (step 0).  A step below one millisecond gives 0.
StepTrackingInterval(step) == IF step = 0 THEN 1 ELSE step \div 1000000

=============================================================================
