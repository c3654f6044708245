-------------------------------- MODULE Absent --------------------------------
(***************************************************************************)
(* The absent() function operator (execution/function/absent.go).  Its    *)
(* one output series is derived once, under sync.Once, from the matchers   *)
(* of its argument; its Next emits 1 at every step where the child has no  *)
(* sample.  Step vectors and batches are as in ScalarFunction.  A label   *)
(* set is a function from LabelNames to values, "" meaning absent: a       *)
(* labels.Builder Set with the empty value is a Del.                       *)
(***************************************************************************)
EXTENDS ScalarFunction

CONSTANTS
  LabelNames,   \* label names a series or matcher can carry
  MetricName    \* labels.MetricName ("__name__")

ASSUME AbsentAssumption == MetricName \in LabelNames

EmptyLabels == [n \in LabelNames |-> ""]

\* The loop of loadSeries over the matchers, as a fold: the builder's
\* labels and the names that an equality matcher has set (has).
AbsentFold(lm) ==
  LET step[i \in 0 .. Len(lm)] ==
        IF i = 0 THEN [lbl |-> EmptyLabels, has |-> {}]
        ELSE LET s == step[i - 1]
                 l == lm[i]
             IN  IF l.name = MetricName THEN s
                 ELSE IF l.type = "MatchEqual" /\ l.name \notin s.has
                      THEN [lbl |-> [s.lbl EXCEPT ![l.name] = l.value],
                            has |-> s.has \cup {l.name}]
                      ELSE [s EXCEPT !.lbl[l.name] = ""]
  IN  step[Len(lm)]

\* loadSeries: a vector or matrix selector argument gives the labels of
\* its label matchers followed by its filters; any other argument gives
\* the empty label set.  arg is [kind, matchers, filters].
AbsentSeries(arg) ==
  IF arg.kind \in {"VectorSelector", "MatrixSelector"}
    THEN <<AbsentFold(arg.matchers \o arg.filters).lbl>>
    ELSE <<EmptyLabels>>

\* Next after the context check, given the batch the child returned: an
\* empty batch ends the stream; otherwise each step gets sample (0, 1) when
\* the child's step has neither samples nor histograms, and nothing else.
AbsentNext(in) ==
  IF Len(in) = 0 THEN <<>>
  ELSE [p \in DOMAIN in |->
          [t |-> in[p].t,
           f |-> IF DOMAIN in[p].f = {} /\ DOMAIN in[p].h = {}
                   THEN [i \in {0} |-> 1] ELSE NoIds,
           h |-> NoIds]]

=============================================================================
