---------------------------- MODULE MCJoinQueries ----------------------------
(***************************************************************************)
(* Four queries of the binary operator in one model.  The operator is      *)
(* chosen in the initial state (opType) and never changes, so each         *)
(* behaviour is one query of VectorBinary:                                 *)
(*   "SUB":  a - on(x) b, one-to-one; a is a{x="1"}, a{x="1",y="2"}, b is  *)
(*           b{x="1"}, b{x="2"}, c{x="2",y="1"}: both a series collide on  *)
(*           x="1", so a step with both present is a many-to-one error;    *)
(*   "LAND", "LOR", "LUNLESS": a and|or|unless ignoring(y) b with a        *)
(*           a{x="1"}, a{x="2"} and b b{x="1"}, b{x="1",y="1"}, which share *)
(*           one signature once y is ignored; two steps per batch, so a    *)
(*           bucket marked at the first step is reused at the second.      *)
(***************************************************************************)
EXTENDS Integers, TLC

VARIABLES buckets, cursor, pc, inL, inR, k, outB, returned, err, warnings,
          opType   \* the parser.ItemType of this query's operator

\* A label set over {__name__, x, y}; "" leaves the label out.
SL(name, x, y) == [n \in {"__name__", "x", "y"} |->
                     IF n = "__name__" THEN name ELSE IF n = "x" THEN x ELSE y]

SetOps == {"LAND", "LOR", "LUNLESS"}
Ops == SetOps \cup {"SUB"}

LhsOf(op) ==
  IF op = "SUB" THEN (0 :> SL("a", "1", "")) @@ (1 :> SL("a", "1", "2"))
  ELSE (0 :> SL("a", "1", "")) @@ (1 :> SL("a", "2", ""))
RhsOf(op) ==
  IF op = "SUB"
    THEN (0 :> SL("b", "1", "")) @@ (1 :> SL("b", "2", "")) @@ (2 :> SL("c", "2", "1"))
    ELSE (0 :> SL("b", "1", "")) @@ (1 :> SL("b", "1", "1"))

VB(op) == INSTANCE VectorBinary WITH
        LabelNames <- {"__name__", "x", "y"},
        LabelValues <- {"a", "b", "c", "1", "2"},
        MetricName <- "__name__",
        LhsSeries <- LhsOf(op),
        RhsSeries <- RhsOf(op),
        On <- op = "SUB",
        MatchingLabels <- IF op = "SUB" THEN {"x"} ELSE {"y"},
        Include <- {},
        Card <- IF op = "SUB" THEN "CardOneToOne" ELSE "CardManyToMany",
        OpType <- op,
        ReturnBool <- FALSE,
        FloatVals <- IF op = "SUB" THEN {1, 2} ELSE {1},
        HistVals <- {},
        HistSides <- {},
        Timestamps <- <<0, 1>>,
        StepsBatch <- IF op = "SUB" THEN 1 ELSE 2

vars == <<buckets, cursor, pc, inL, inR, k, outB, returned, err, warnings, opType>>

Init == \E op \in Ops : opType = op /\ VB(op)!Init

Next == \E op \in Ops : opType = op /\ VB(op)!Next /\ UNCHANGED opType

Spec == Init /\ [][Next]_vars

\* For each query, every Next returns the PromQL join of the two children's
\* steps (BinaryJoin): the one-to-one subtraction, failing exactly on the
\* many-to-one collisions, and the intersection, union and difference of
\* the set operators, although the buckets and their ats/bts marks are
\* reused across steps and batches.  This is VectorBinary's
\* JoinRefinement for the operator of the behaviour.
JoinQueriesRefinement ==
  /\ \E op \in Ops : opType = op /\ VB(op)!Join!Init
  /\ [][\E op \in Ops : opType = op /\ [VB(op)!Join!Next]_(VB(op)!Join!vars)]_vars

=============================================================================
