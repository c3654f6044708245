--------------------------- MODULE BinaryJoinTables ---------------------------
(***************************************************************************)
(* The static part of the vector-vector binary operator                    *)
(* (execution/binary/vector.go): label sets and the label builder, the     *)
(* join signature, the output series table built once by initJoinTables,   *)
(* the cantor pairing used to look output series up, and the element      *)
(* kernel vectorElemBinop.                                                 *)
(*                                                                         *)
(* A label set is a function from label names to values, "" meaning the   *)
(* label is absent (labels.Get returns "" for a missing name).  Hashes are *)
(* taken to be perfect: xxhash and labels.Hash collisions are not         *)
(* modelled here.  Float arithmetic is left uninterpreted (a term          *)
(* <<op, l, r>>); comparisons are evaluated on the integer sample values.  *)
(* A histogram is a record [schema, val]: two histograms can be added or  *)
(* subtracted only when their schemas agree.                               *)
(***************************************************************************)
EXTENDS Integers, Sequences, FiniteSets

CONSTANTS
  LabelNames,      \* label names a series can carry
  LabelValues,     \* non-empty label values
  MetricName,      \* labels.MetricName ("__name__")
  LhsSeries,       \* lhs.Series(): a function 0..n-1 -> label set
  RhsSeries,       \* rhs.Series()
  On,              \* matching.On
  MatchingLabels,  \* matching.MatchingLabels
  Include,         \* matching.Include (group_left/group_right labels)
  Card,            \* matching.Card
  OpType,          \* the parser.ItemType of the operator
  ReturnBool,      \* the bool modifier
  FloatVals,       \* float sample values a child can produce
  HistVals,        \* native histograms a child can produce
  HistSides,       \* the children ("lhs", "rhs") that can return histograms
  Timestamps,      \* the query's evaluation timestamps (ms), ascending
  StepsBatch       \* the number of steps a child returns per Next

NoLabel == ""
LabelSet == [LabelNames -> LabelValues \cup {NoLabel}]

ArithOps == {"ADD", "SUB", "MUL", "DIV", "POW", "MOD", "ATAN2"}
CmpOps   == {"EQLC", "NEQ", "GTR", "LSS", "GTE", "LTE"}
SetOps   == {"LAND", "LOR", "LUNLESS"}
Cards    == {"CardOneToOne", "CardManyToOne", "CardOneToMany", "CardManyToMany"}

Schemas  == {"exponential", "custom"}
Hist     == [schema : Schemas, val : Int]
NilHist  == [schema |-> "nil", val |-> 0]   \* a nil *FloatHistogram

NoErr == "none"
Annotations == {"IncompatibleTypesInBinOp", "HistogramArithmetic"}

ASSUME LabelAssumption ==
  /\ MetricName \in LabelNames
  /\ NoLabel \notin LabelValues

\* Series ids index the children's series tables.
ASSUME SeriesAssumption ==
  /\ IsFiniteSet(DOMAIN LhsSeries) /\ DOMAIN LhsSeries \subseteq Nat
  /\ IsFiniteSet(DOMAIN RhsSeries) /\ DOMAIN RhsSeries \subseteq Nat
  /\ LhsSeries \in [DOMAIN LhsSeries -> LabelSet]
  /\ RhsSeries \in [DOMAIN RhsSeries -> LabelSet]

\* The parser gives set operators many-to-many matching and every other
\* operator one of the three other cardinalities; bool is only allowed on
\* comparisons.
ASSUME MatchingAssumption ==
  /\ On \in BOOLEAN
  /\ MatchingLabels \subseteq LabelNames
  /\ Include \subseteq LabelNames
  /\ Card \in Cards
  /\ OpType \in ArithOps \cup CmpOps \cup SetOps
  /\ (OpType \in SetOps) <=> (Card = "CardManyToMany")
  /\ ReturnBool \in BOOLEAN
  /\ ReturnBool => OpType \in CmpOps

ASSUME ValueAssumption ==
  /\ FloatVals \subseteq Int
  /\ HistVals \subseteq Hist
  /\ HistSides \subseteq {"lhs", "rhs"}

ASSUME StepAssumption ==
  /\ Timestamps \in Seq(Int)
  /\ \A p \in 1 .. Len(Timestamps) - 1 : Timestamps[p] < Timestamps[p + 1]
  /\ StepsBatch \in Nat \ {0}


(***************************************************************************)
(* A StepVector: the timestamp T, the float samples f (SampleIDs/Samples)  *)
(* and the histograms h (HistogramIDs/Histograms) as functions from series *)
(* id to value.  A series has a float or a histogram at a step, not both.  *)
(* A child's Next returns the next min(StepsBatch, remaining) steps.       *)
(***************************************************************************)
SampleSets(ids, vals) == UNION {[d -> vals] : d \in SUBSET ids}

SideHistVals(side) == IF side \in HistSides THEN HistVals ELSE {}

StepSamples(side, ids) ==
  {s \in [f : SampleSets(ids, FloatVals), h : SampleSets(ids, SideHistVals(side))] :
     DOMAIN s.f \cap DOMAIN s.h = {}}

BatchLen(cursor) ==
  IF Len(Timestamps) - cursor < StepsBatch THEN Len(Timestamps) - cursor ELSE StepsBatch

Batches(side, ids, cursor) ==
  {[p \in 1 .. BatchLen(cursor) |-> [T |-> Timestamps[cursor + p], f |-> s[p].f, h |-> s[p].h]] :
     s \in [1 .. BatchLen(cursor) -> StepSamples(side, ids)]}

(***************************************************************************)
(* labels.Builder operations.                                              *)
(***************************************************************************)
DelLabels(ls, names)  == [n \in LabelNames |-> IF n \in names THEN NoLabel ELSE ls[n]]
KeepLabels(ls, names) == [n \in LabelNames |-> IF n \in names THEN ls[n] ELSE NoLabel]

\* signatureFunc: on(...) hashes only the matching labels, ignoring(...)
\* hashes every label but __name__ and the matching labels.
SignatureFunc(ls) ==
  IF On THEN KeepLabels(ls, MatchingLabels)
        ELSE DelLabels(ls, {MetricName} \cup MatchingLabels)

\* shouldDropMetricName: every arithmetic or comparison result loses
\* __name__ except a comparison without bool.
ShouldDropMetricName(op, returnBool) ==
  op \in ArithOps \/ (op \in CmpOps /\ returnBool)

\* resultMetric: the label set of the output of a matched hc/lc pair.  The
\* include loop sets or deletes each label to the lc side's value, which
\* is the lc value itself in both branches ("" deletes).
ResultMetric(highCard, lowCard) ==
  LET b1 == IF ShouldDropMetricName(OpType, ReturnBool)
              THEN DelLabels(highCard, {MetricName}) ELSE highCard
      b2 == IF Card = "CardOneToOne"
              THEN IF On THEN KeepLabels(b1, MatchingLabels)
                         ELSE DelLabels(b1, MatchingLabels)
              ELSE b1
      b3 == [n \in LabelNames |-> IF n \in Include THEN lowCard[n] ELSE b2[n]]
  IN  IF ReturnBool THEN DelLabels(b3, {MetricName}) ELSE b3

(***************************************************************************)
(* init / initJoinTables: the high- and low-cardinality sides and the      *)
(* join bucket of every series.  Buckets are shared by signature, so a     *)
(* bucket is named by its signature.                                       *)
(***************************************************************************)
HighCardSide == IF Card = "CardOneToMany" THEN RhsSeries ELSE LhsSeries
LowCardSide  == IF Card = "CardOneToMany" THEN LhsSeries ELSE RhsSeries

HcIds == DOMAIN HighCardSide
LcIds == DOMAIN LowCardSide

HcSig(i) == SignatureFunc(HighCardSide[i])
LcSig(j) == SignatureFunc(LowCardSide[j])

SigSpace == {HcSig(i) : i \in HcIds} \cup {LcSig(j) : j \in LcIds}

\* cantorPairing(hc, lc); ids are offset by one so that 0 means "no partner".
CantorPairing(hc, lc) == ((hc + lc) * (hc + lc + 1)) \div 2 + lc

(***************************************************************************)
(* The pairs <<hc+1, lc+1>> initJoinTables stores in outputMap, with the   *)
(* label set it appends to the joinHelper for each.                        *)
(***************************************************************************)
OutputPairs ==
  CASE OpType = "LOR"     -> {<<i + 1, 0>> : i \in HcIds} \cup {<<0, j + 1>> : j \in LcIds}
    [] OpType = "LUNLESS" -> {<<i + 1, 0>> : i \in HcIds}
    [] OTHER              -> UNION {{<<i + 1, j + 1>> : j \in {j \in LcIds : LcSig(j) = HcSig(i)}} : i \in HcIds}

PairLabels(p) ==
  IF OpType \in SetOps
    THEN IF p[1] # 0 THEN HighCardSide[p[1] - 1] ELSE LowCardSide[p[2] - 1]
    ELSE ResultMetric(HighCardSide[p[1] - 1], LowCardSide[p[2] - 1])

\* The order in which initJoinTables visits the pairs: hc rows in order,
\* each with its lc partners in order, then the lc-only rows of "or".
VisitedBefore(p, q) ==
  IF p[1] = 0 \/ q[1] = 0
    THEN (p[1] # 0 /\ q[1] = 0) \/ (p[1] = 0 /\ q[1] = 0 /\ p[2] < q[2])
    ELSE p[1] < q[1] \/ (p[1] = q[1] /\ p[2] < q[2])

\* joinHelper.append: a label set seen before gets its earlier index, a new
\* one the number of distinct label sets appended before it.
FirstVisit(ls) ==
  CHOOSE p \in OutputPairs :
    /\ PairLabels(p) = ls
    /\ \A q \in OutputPairs : PairLabels(q) = ls => ~VisitedBefore(q, p)

JoinHelperAppend(ls) ==
  Cardinality({PairLabels(q) : q \in {q \in OutputPairs : VisitedBefore(q, FirstVisit(ls))}})

OutputMap ==
  [key \in {CantorPairing(p[1], p[2]) : p \in OutputPairs} |->
     JoinHelperAppend(PairLabels(CHOOSE p \in OutputPairs : CantorPairing(p[1], p[2]) = key))]

\* outputSeriesID: a missing key loads the map's zero value.
OutputSeriesID(hc, lc) ==
  IF CantorPairing(hc, lc) \in DOMAIN OutputMap THEN OutputMap[CantorPairing(hc, lc)] ELSE 0

\* o.series: the label set of an output series id (NoSeries if none has it).
NoSeries == [n \in LabelNames |-> "<no series>"]
SeriesLabels(id) ==
  IF \E p \in OutputPairs : JoinHelperAppend(PairLabels(p)) = id
    THEN PairLabels(CHOOSE p \in OutputPairs : JoinHelperAppend(PairLabels(p)) = id)
    ELSE NoSeries

(***************************************************************************)
(* vectorElemBinop and computeBinaryPairing.                               *)
(***************************************************************************)
BinopResult(f, h, keep, err) == [f |-> f, h |-> h, keep |-> keep, err |-> err]

Compare(op, l, r) ==
  CASE op = "EQLC" -> l = r
    [] op = "NEQ"  -> l # r
    [] op = "GTR"  -> l > r
    [] op = "LSS"  -> l < r
    [] op = "GTE"  -> l >= r
    [] op = "LTE"  -> l <= r

\* h.Copy().Mul(x) / Div(x), and Copy().Add/Sub(other) for compatible ones.
HistScale(op, h, x)    == [schema |-> h.schema, val |-> <<op, h.val, x>>]
HistCombine(op, a, b)  == [schema |-> a.schema, val |-> <<op, a.val, b.val>>]

Incompatible == BinopResult(0, NilHist, FALSE, "IncompatibleTypesInBinOp")

VectorElemBinop(op, lhs, rhs, hlhs, hrhs) ==
  CASE hlhs = NilHist /\ hrhs = NilHist ->
         IF op \in CmpOps THEN BinopResult(lhs, NilHist, Compare(op, lhs, rhs), NoErr)
                          ELSE BinopResult(<<op, lhs, rhs>>, NilHist, TRUE, NoErr)
    [] hlhs = NilHist /\ hrhs # NilHist ->
         IF op = "MUL" THEN BinopResult(0, HistScale(op, hrhs, lhs), TRUE, NoErr)
                       ELSE Incompatible
    [] hlhs # NilHist /\ hrhs = NilHist ->
         IF op \in {"MUL", "DIV"} THEN BinopResult(0, HistScale(op, hlhs, rhs), TRUE, NoErr)
                                  ELSE Incompatible
    [] OTHER ->
         CASE op \in {"ADD", "SUB"} ->
                IF hlhs.schema = hrhs.schema
                  THEN BinopResult(0, HistCombine(op, hlhs, hrhs), TRUE, NoErr)
                  ELSE BinopResult(0, NilHist, FALSE, "HistogramArithmetic")
           [] op = "EQLC" -> BinopResult(0, hlhs, hlhs = hrhs, NoErr)
           [] op = "NEQ"  -> BinopResult(0, hlhs, hlhs # hrhs, NoErr)
           [] OTHER       -> Incompatible

\* The operand order is swapped back for one-to-many matching, so that a
\* non-commutative operator sees lhs on its left.
ComputeBinaryPairing(hcVal, lcVal, hcHist, lcHist) ==
  IF Card = "CardOneToMany"
    THEN VectorElemBinop(OpType, lcVal, hcVal, lcHist, hcHist)
    ELSE VectorElemBinop(OpType, hcVal, lcVal, hcHist, lcHist)

=============================================================================
