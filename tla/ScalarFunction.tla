---------------------------- MODULE ScalarFunction ----------------------------
(***************************************************************************)
(* The scalar() function operator (execution/function/scalar.go, the       *)
(* scalarOperator of package function).  A step vector is a record         *)
(* [t, f, h]: its timestamp, and functions from the ids of the series     *)
(* present to their float sample and to their histogram.  A float is an    *)
(* natural number, NaN, or an uninterpreted term.  NaN is the integer -1, *)
(* which no sample carries, so that it compares with the other floats.     *)
(* A batch is a sequence of step vectors; the nil batch is <<>>.           *)
(***************************************************************************)
EXTENDS Integers, Sequences, FiniteSets

NaN == -1
NoIds == [i \in {} |-> NaN]   \* a step vector with no samples

\* The output step of one input step: sample id 0 with the value of the
\* only float sample, or NaN when there are zero or several float samples.
\* Histograms are not counted and not passed on.
ScalarStep(sv) ==
  [t |-> sv.t,
   f |-> [i \in {0} |-> IF Cardinality(DOMAIN sv.f) = 1
                         THEN sv.f[CHOOSE j \in DOMAIN sv.f : TRUE]
                         ELSE NaN],
   h |-> NoIds]

\* Next after the context check, given the batch the child returned: an
\* empty batch ends the stream (nil, nil), any other is mapped step by step.
ScalarNext(in) ==
  IF Len(in) = 0 THEN <<>> ELSE [p \in DOMAIN in |-> ScalarStep(in[p])]

=============================================================================
