----------------------------- MODULE ScalarBinary -----------------------------
(***************************************************************************)
(* The vector-scalar binary operator (execution/binary/scalar.go,          *)
(* scalarOperator of package binary) driven by its parent, with its two    *)
(* children composed in:                                                   *)
(*   - the vector child is a selector, absent(x) or scalar(x);            *)
(*   - the scalar child is scalar(w).                                      *)
(* q is the query: its operator, bool modifier, the side of the scalar     *)
(* ("Left", "Right", or "Both" when the vector child is a scalar too) and  *)
(* the kind of vector child.  x and w are leaf selectors: each Next of     *)
(* theirs returns the next steps of the query range with any contents     *)
(* from XContents and WContents (selector contents for the vector child    *)
(* come from VecContents).  All children cover the same range in batches   *)
(* of StepsBatch, so one cursor counts the steps pulled.                   *)
(*                                                                         *)
(* The parent is two goroutines: one calls Series once, the other calls    *)
(* Next until nil or an error.  When Concurrent is FALSE their calls do    *)
(* not overlap; when TRUE they interleave at the steps below, as spec      *)
(* section 5 allows ("safe against concurrent Series and Next callers").  *)
(* sync.Once is the variable once: "idle", "running" (the Series           *)
(* goroutine is inside loadSeries; others block), "ok" or "failed".  The   *)
(* deferred telemetry call of each method reads the counters and writes    *)
(* them back in a later step (Go's += on a struct field is not atomic).    *)
(***************************************************************************)
EXTENDS Absent, Telemetry

CONSTANTS
  Queries,       \* the queries a behaviour may run
  VecSeries,     \* the selector child's Series(): a sequence of label sets
  AbsentArg,     \* absent's argument: [kind, matchers, filters]
  Timestamps,    \* the evaluation timestamps of the query range
  StepsBatch,    \* steps per batch
  VecContents,   \* contents [f, h] of a selector step for the vector child
  XContents,     \* contents of a step of x (under absent or scalar)
  WContents,     \* contents of a step of w (under the scalar child)
  Concurrent,    \* may the Series and Next goroutines overlap
  MaxNextCalls   \* bound on Next calls (the stream needs fewer)

ArithOps == {"ADD", "SUB", "MUL", "DIV", "POW", "MOD", "ATAN2"}
CmpOps   == {"EQLC", "NEQ", "GTR", "LSS", "GTE", "LTE"}
NilHist  == <<>>   \* histOp returns nil; every histogram term is a non-empty tuple

ASSUME ScalarBinaryAssumption ==
  /\ \A qq \in Queries :
       /\ qq.op \in ArithOps \cup CmpOps
       /\ qq.bool \in BOOLEAN /\ (qq.bool => qq.op \in CmpOps)
       /\ qq.side \in {"Left", "Right", "Both"}
       /\ qq.vec \in {"selector", "absent", "scalar"}
       /\ (qq.side = "Both") <=> (qq.vec = "scalar")
       \* the parser rejects a comparison of two scalars without bool
       /\ (qq.side = "Both" /\ qq.op \in CmpOps) => qq.bool
  /\ Timestamps \in Seq(Int)
  /\ StepsBatch \in Nat \ {0}
  /\ Concurrent \in BOOLEAN
  /\ MaxNextCalls \in Nat

VARIABLES
  q,          \* the query
  once,       \* o.seriesOnce
  series,     \* o.series
  cursor,     \* steps of the range pulled so far
  rawV,       \* the batch of the vector child's leaf in the current Next
  returned,   \* the last batch Next returned
  rawOut,     \* the leaf steps returned was computed from: [t, x, w]
  sPc,        \* Series goroutine: "idle", "load", "tel", "store", "done"
  sRes,       \* what Series returned: [err, series]
  nPc,        \* Next goroutine: "idle", "once", "scalar", "tel", "store", "done"
  nRes,       \* what the last Next returned: "batch", "eos" or an error
  calls,      \* Next calls made
  tel,        \* the operator's TrackedTelemetry
  snap,       \* the counters each goroutine read for its deferred +=
  ended       \* the parent has stopped calling (nil or an error seen)

vars == <<q, once, series, cursor, rawV, returned, rawOut, sPc, sRes, nPc,
          nRes, calls, tel, snap, ended>>

(***************************************************************************)
(* The children.                                                           *)
(***************************************************************************)
\* The leaf batches a child can return after c steps: the next
\* min(StepsBatch, rest) timestamps with any contents.
LeafBatches(c, Contents) ==
  LET n == IF Len(Timestamps) - c < StepsBatch THEN Len(Timestamps) - c ELSE StepsBatch
  IN  {[p \in 1 .. n |-> [t |-> Timestamps[c + p], f |-> ct[p].f, h |-> ct[p].h]] :
         ct \in [1 .. n -> Contents]}

\* The vector child's Next, given its leaf's batch.
VectorChildNext(qq, b) ==
  CASE qq.vec = "selector" -> b
    [] qq.vec = "absent"   -> AbsentNext(b)
    [] qq.vec = "scalar"   -> ScalarNext(b)

\* The vector child's Series (absent and scalar() cannot fail).
VectorChildSeries(qq) ==
  CASE qq.vec = "selector" -> VecSeries
    [] qq.vec = "absent"   -> AbsentSeries(AbsentArg)
    [] qq.vec = "scalar"   -> <<>>

(***************************************************************************)
(* NewScalar, loadSeries, the operation tables and the loop of Next.       *)
(***************************************************************************)
\* shouldDropMetricName: arithmetic, and comparisons with bool.
DropsMetricName(op, returnBool) == op \in ArithOps \/ (op \in CmpOps /\ returnBool)

\* loadSeries: the vector child's series, with __name__ dropped from the
\* non-empty ones when the operation drops it.
LoadSeries(qq, vs) ==
  [i \in DOMAIN vs |->
     IF vs[i] # EmptyLabels /\ DropsMetricName(qq.op, qq.bool)
       THEN [vs[i] EXCEPT ![MetricName] = ""] ELSE vs[i]]

\* NewScalar: the scalar is the lhs operand for ScalarSideLeft, and the
\* value of a kept comparison is the other operand (operandValIdx).
GetOperands(qq, x, s) == IF qq.side = "Left" THEN <<s, x>> ELSE <<x, s>>
OperandValIdx(qq) == IF qq.side = "Left" THEN 2 ELSE 1
BothScalars(qq) == qq.side = "Both"

\* A comparison of two floats; NaN compares unequal to everything.
Compare(op, a, b) ==
  IF a = NaN \/ b = NaN THEN op = "NEQ"
  ELSE CASE op = "EQLC" -> a = b  [] op = "NEQ" -> a # b
         [] op = "GTR"  -> a > b  [] op = "LSS" -> a < b
         [] op = "GTE"  -> a >= b [] op = "LTE" -> a <= b

\* newOperation(op, vectorMatching): arithmetic gives the term and keeps
\* it; a comparison keeps the value operand when it holds, or, between two
\* scalars, gives 1 or 0 and keeps it.
FloatOp(qq, ops, idx) ==
  IF qq.op \in CmpOps
    THEN IF ~BothScalars(qq)
           THEN [val |-> ops[idx], keep |-> Compare(qq.op, ops[1], ops[2])]
           ELSE [val |-> IF Compare(qq.op, ops[1], ops[2]) THEN 1 ELSE 0, keep |-> TRUE]
    ELSE [val |-> <<qq.op, ops[1], ops[2]>>, keep |-> TRUE]

\* getHistogramFloatOperation: histogram * scalar and histogram / scalar
\* with the scalar on the right, scalar * histogram on the left; any other
\* pair gives nil.
HistOp(qq, h, s) ==
  CASE qq.side = "Right" /\ qq.op \in {"MUL", "DIV"} -> <<qq.op, h, s>>
    [] qq.side = "Left" /\ qq.op = "MUL"             -> <<"MUL", s, h>>
    [] OTHER                                         -> NilHist

\* Mutant: every step of the batch takes the scalar of the first step.
ScalarValFirst(scalarIn, v) ==
  IF Len(scalarIn) >= 1 /\ DOMAIN scalarIn[1].f # {}
    THEN scalarIn[1].f[CHOOSE i \in DOMAIN scalarIn[1].f :
                         \A j \in DOMAIN scalarIn[1].f : i <= j]
    ELSE NaN

\* The scalar for the v-th step of the batch: the first sample of the v-th
\* step of the scalar child's batch, or NaN.
ScalarVal(scalarIn, v) ==
  IF Len(scalarIn) >= v /\ DOMAIN scalarIn[v].f # {}
    THEN scalarIn[v].f[CHOOSE i \in DOMAIN scalarIn[v].f :
                         \A j \in DOMAIN scalarIn[v].f : i <= j]
    ELSE NaN

\* One iteration of the loop over the batch: the float samples through
\* floatOp with bool and keep, then the histograms through histOp.
OutStep(qq, vec, s) ==
  LET r(i) == FloatOp(qq, GetOperands(qq, vec.f[i], s), OperandValIdx(qq))
      val(i) == IF qq.bool /\ ~BothScalars(qq)
                  THEN IF r(i).keep THEN 1 ELSE 0 ELSE r(i).val
      kept == {i \in DOMAIN vec.f : qq.bool \/ r(i).keep}
      hk == {i \in DOMAIN vec.h : HistOp(qq, vec.h[i], s) # NilHist}
  IN  [t |-> vec.t,
       f |-> [i \in kept |-> val(i)],
       h |-> [i \in hk |-> HistOp(qq, vec.h[i], s)]]

ExecBatch(qq, in, scalarIn) ==
  [v \in DOMAIN in |-> OutStep(qq, in[v], ScalarVal(scalarIn, v))]

(***************************************************************************)
(* The parent's goroutines.                                                *)
(***************************************************************************)
Quiet(pcv) == pcv \in {"idle", "done"}

\* A call may start unless the other goroutine is inside a call and calls
\* do not overlap.
MayStart(other) == Concurrent \/ Quiet(other)

Init ==
  /\ q \in Queries
  /\ once = "idle"
  /\ series = <<>>
  /\ cursor = 0
  /\ rawV = <<>>
  /\ returned = <<>>
  /\ rawOut = <<>>
  /\ sPc = "idle"
  /\ sRes = [err |-> "none", series |-> <<>>]
  /\ nPc = "idle"
  /\ nRes = "none"
  /\ calls = 0
  /\ tel = NewTrackedTelemetry
  /\ snap = [g \in {"series", "next"} |-> NewTrackedTelemetry]
  /\ ended = FALSE

\* Series enters seriesOnce.Do.  The first caller runs loadSeries; a later
\* one gets err == nil and the current o.series (lines 186-192).
SeriesCall ==
  /\ sPc = "idle" /\ ~ended /\ MayStart(nPc)
  /\ once # "running"
  /\ IF once = "idle"
       THEN /\ once' = "running"
            /\ sPc' = "load"
            /\ UNCHANGED <<sRes, tel>>
       ELSE /\ sRes' = [err |-> "none", series |-> series]
            /\ tel' = SetMaxSeriesCount(tel, Len(series))
            /\ sPc' = "tel"
            /\ UNCHANGED once
  /\ UNCHANGED <<q, series, cursor, rawV, returned, rawOut, nPc, nRes, calls, snap, ended>>

\* loadSeries inside the Series goroutine's once.Do: next.Series succeeds
\* or (a selector only) fails.
SeriesLoad ==
  /\ sPc = "load"
  /\ \/ /\ series' = LoadSeries(q, VectorChildSeries(q))
        /\ once' = "ok"
        /\ sRes' = [err |-> "none", series |-> series']
        /\ tel' = SetMaxSeriesCount(tel, Len(series'))
     \/ /\ q.vec = "selector"
        /\ once' = "failed"
        /\ sRes' = [err |-> "SeriesError", series |-> <<>>]
        /\ UNCHANGED <<series, tel>>
  /\ sPc' = "tel"
  /\ UNCHANGED <<q, cursor, rawV, returned, rawOut, nPc, nRes, calls, snap, ended>>

\* The deferred AddSeriesExecutionTime, in two halves: the counters are
\* read, then SeriesTime and ExecutionTime are written from what was read.
SeriesTelLoad ==
  /\ sPc = "tel"
  /\ snap' = [snap EXCEPT !["series"] = tel]
  /\ sPc' = "store"
  /\ UNCHANGED <<q, once, series, cursor, rawV, returned, rawOut, sRes, nPc, nRes, calls, tel, ended>>

SeriesTelStore ==
  /\ sPc = "store"
  /\ LET new == AddSeriesExecutionTime(snap["series"], 1)
     IN  tel' = [tel EXCEPT !.seriesTime = new.seriesTime, !.exec = new.exec]
  /\ sPc' = "done"
  /\ ended' = (ended \/ sRes.err # "none")
  /\ UNCHANGED <<q, once, series, cursor, rawV, returned, rawOut, sRes, nPc, nRes, calls, snap>>

\* Next up to the vector child's answer (lines 203-215): the context is
\* done, the child fails, the child is exhausted (in == nil), or it returns
\* the next batch.
NextCall ==
  /\ nPc = "idle" /\ ~ended /\ MayStart(sPc)
  /\ calls < MaxNextCalls
  /\ calls' = calls + 1
  /\ \/ nRes' = "Canceled" /\ nPc' = "tel" /\ UNCHANGED <<cursor, rawV>>
     \/ nRes' = "ChildError" /\ nPc' = "tel" /\ UNCHANGED <<cursor, rawV>>
     \/ /\ cursor = Len(Timestamps)
        /\ nRes' = "eos" /\ nPc' = "tel"
        /\ UNCHANGED <<cursor, rawV>>
     \/ /\ cursor < Len(Timestamps)
        /\ \E b \in LeafBatches(cursor, IF q.vec = "selector" THEN VecContents ELSE XContents) :
             /\ rawV' = b
             /\ cursor' = cursor + Len(b)
        /\ nPc' = "once"
        /\ UNCHANGED nRes
  /\ UNCHANGED <<q, once, series, returned, rawOut, sPc, sRes, tel, snap, ended>>

\* seriesOnce.Do in Next (lines 216-219): it blocks while the Series
\* goroutine runs loadSeries; it runs loadSeries itself if nobody has; once
\* it has run, err stays nil.
NextOnce ==
  /\ nPc = "once"
  /\ once # "running"
  /\ \/ /\ once = "idle"
        /\ series' = LoadSeries(q, VectorChildSeries(q))
        /\ once' = "ok"
        /\ nPc' = "scalar"
        /\ UNCHANGED nRes
     \/ /\ once = "idle" /\ q.vec = "selector"
        /\ once' = "failed"
        /\ nRes' = "SeriesError" /\ nPc' = "tel"
        /\ UNCHANGED series
     \/ /\ once \in {"ok", "failed"}
        /\ nPc' = "scalar"
        /\ UNCHANGED <<once, series, nRes>>
  /\ UNCHANGED <<q, cursor, rawV, returned, rawOut, sPc, sRes, calls, tel, snap, ended>>

\* The scalar child's Next (scalar(w) pulls w for the same steps), then the
\* loop over the batch (lines 221-268).
NextScalar ==
  /\ nPc = "scalar"
  /\ \/ nRes' = "ChildError" /\ UNCHANGED <<returned, rawOut>>
     \/ \E wb \in LeafBatches(cursor - Len(rawV), WContents) :
          /\ returned' = ExecBatch(q, VectorChildNext(q, rawV), ScalarNext(wb))
          /\ rawOut' = [p \in DOMAIN rawV |-> [t |-> rawV[p].t, x |-> rawV[p], w |-> wb[p]]]
          /\ nRes' = "batch"
  /\ nPc' = "tel"
  /\ UNCHANGED <<q, once, series, cursor, rawV, sPc, sRes, calls, tel, snap, ended>>

\* The deferred AddNextExecutionTime, read then written back.
NextTelLoad ==
  /\ nPc = "tel"
  /\ snap' = [snap EXCEPT !["next"] = tel]
  /\ nPc' = "store"
  /\ UNCHANGED <<q, once, series, cursor, rawV, returned, rawOut, sPc, sRes, nRes, calls, tel, ended>>

NextTelStore ==
  /\ nPc = "store"
  /\ LET new == AddNextExecutionTime(snap["next"], 1)
     IN  tel' = [tel EXCEPT !.nextTime = new.nextTime, !.exec = new.exec]
  /\ nPc' = IF nRes = "batch" THEN "idle" ELSE "done"
  /\ ended' = (ended \/ nRes # "batch")
  /\ UNCHANGED <<q, once, series, cursor, rawV, returned, rawOut, sPc, sRes, nRes, calls, snap>>

Next ==
  \/ SeriesCall \/ SeriesLoad \/ SeriesTelLoad \/ SeriesTelStore
  \/ NextCall \/ NextOnce \/ NextScalar \/ NextTelLoad \/ NextTelStore

Spec == Init /\ [][Next]_vars

(***************************************************************************)
(* Properties.                                                             *)
(***************************************************************************)
\* What PromQL gives at one step, written from spec sections 4.3-4.5 and 8
\* by timestamp rather than by batch position: scalar(w) is the only float
\* of w or NaN; absent(x) is 1 when x has nothing; a comparison without
\* bool keeps the vector's sample where it holds; with bool it gives 1 or
\* 0; arithmetic combines the two in the query's order; a histogram is
\* kept only for h * s, h / s and s * h.
ScalarOfStep(w) ==
  IF Cardinality(DOMAIN w.f) = 1 THEN w.f[CHOOSE i \in DOMAIN w.f : TRUE] ELSE NaN

VectorOperand(qq, x) ==
  CASE qq.vec = "selector" -> [f |-> x.f, h |-> x.h]
    [] qq.vec = "absent" ->
         [f |-> IF DOMAIN x.f \cup DOMAIN x.h = {} THEN [i \in {0} |-> 1] ELSE NoIds,
          h |-> NoIds]
    [] qq.vec = "scalar" -> [f |-> [i \in {0} |-> ScalarOfStep(x)], h |-> NoIds]

SpecStep(qq, r) ==
  LET s == ScalarOfStep(r.w)
      vx == VectorOperand(qq, r.x)
      lhs(x) == IF qq.side = "Left" THEN s ELSE x
      rhs(x) == IF qq.side = "Left" THEN x ELSE s
      holds(x) == Compare(qq.op, lhs(x), rhs(x))
      keepF == {i \in DOMAIN vx.f : qq.op \in ArithOps \/ qq.bool \/ holds(vx.f[i])}
      keepH == {i \in DOMAIN vx.h :
                  qq.op = "MUL" \/ (qq.op = "DIV" /\ qq.side = "Right")}
  IN  [t |-> r.t,
       f |-> [i \in keepF |->
                IF qq.op \in ArithOps THEN <<qq.op, lhs(vx.f[i]), rhs(vx.f[i])>>
                ELSE IF qq.bool THEN (IF holds(vx.f[i]) THEN 1 ELSE 0)
                ELSE vx.f[i]],
       h |-> [i \in keepH |-> <<qq.op, lhs(vx.h[i]), rhs(vx.h[i])>>]]

\* Every step of every batch Next returns is the PromQL result at its
\* timestamp: the scalar it used is scalar(w) at that same timestamp (the
\* loop pairs the v-th vector step with the v-th scalar step and never
\* compares timestamps), absent and scalar() feed the right operand, and
\* bool, keep, operand order and the histogram table are applied.
StepSemantics ==
  \A p \in DOMAIN returned : returned[p] = SpecStep(q, rawOut[p])

\* Spec section 5: initialization is visible to every caller.  Once
\* loadSeries has failed, no call returns a series table or a batch
\* without an error: sync.Once hands the error only to the goroutine that
\* ran it.
InitErrorVisible ==
  once = "failed" =>
    /\ sPc \in {"tel", "store", "done"} => sRes.err # "none"
    /\ nRes # "batch"

\* Spec section 4.8: ExecutionTime is the sum of SeriesTime and NextTime.
\* Each deferred Add*ExecutionTime must add to both counters, and no
\* update may be lost between the Series and Next goroutines.
ExecTimeIsSum == tel.exec = tel.seriesTime + tel.nextTime

=============================================================================
