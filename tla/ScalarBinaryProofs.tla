------------------------- MODULE ScalarBinaryProofs -------------------------
(***************************************************************************)
(* Proofs about ScalarBinary for every value of the constants.             *)
(***************************************************************************)
EXTENDS ScalarBinary, TLAPS

(***************************************************************************)
(* Telemetry.  When the parent's Series and Next calls do not overlap,     *)
(* each deferred Add*ExecutionTime reads the counters and writes them back *)
(* with nothing in between, so ExecutionTime stays the sum of SeriesTime   *)
(* and NextTime.  ExecTimeIsSum alone is not inductive: a store step       *)
(* writes what its load step read, so the invariant also says that what a  *)
(* goroutine about to store has read is still the current counters, and    *)
(* that at most one goroutine is inside a call.                            *)
(***************************************************************************)
TelFields == {"series", "exec", "seriesTime", "nextTime"}

TelInv ==
  /\ DOMAIN tel = TelFields
  /\ tel.exec \in Nat /\ tel.seriesTime \in Nat /\ tel.nextTime \in Nat
  /\ DOMAIN snap = {"series", "next"}
  /\ sPc \in {"idle", "load", "tel", "store", "done"}
  /\ nPc \in {"idle", "once", "scalar", "tel", "store", "done"}
  /\ Quiet(sPc) \/ Quiet(nPc)
  /\ sPc = "store" => snap["series"] = tel
  /\ nPc = "store" => snap["next"] = tel
  /\ ExecTimeIsSum

\* Setting the series count leaves the timing counters alone.
LEMMA SetMaxKeepsTimes ==
  ASSUME NEW tm, DOMAIN tm = TelFields, NEW n
  PROVE  LET t2 == SetMaxSeriesCount(tm, n)
         IN  /\ DOMAIN t2 = TelFields
             /\ t2.exec = tm.exec /\ t2.seriesTime = tm.seriesTime
             /\ t2.nextTime = tm.nextTime
BY DEF SetMaxSeriesCount, TelFields

LEMMA TelInvInit == Init => TelInv
BY DEF Init, TelInv, NewTrackedTelemetry, TelFields, Quiet, ExecTimeIsSum

LEMMA TelInvStep ==
  ASSUME ~Concurrent
  PROVE  TelInv /\ [Next]_vars => TelInv'
<1>. SUFFICES ASSUME TelInv, [Next]_vars PROVE TelInv'
  OBVIOUS
<1>. USE DEF TelInv, ExecTimeIsSum, Quiet
<1>1. CASE SeriesCall
  <2>1. Quiet(nPc)
    BY <1>1 DEF SeriesCall, MayStart
  <2>2. CASE once = "idle"
    BY <1>1, <2>1, <2>2 DEF SeriesCall
  <2>3. CASE once # "idle"
    BY <1>1, <2>1, <2>3, SetMaxKeepsTimes DEF SeriesCall
  <2>. QED  BY <2>2, <2>3
<1>2. CASE SeriesLoad
  <2>1. Quiet(nPc)
    BY <1>2 DEF SeriesLoad
  <2>. QED  BY <1>2, <2>1, SetMaxKeepsTimes DEF SeriesLoad
<1>3. CASE SeriesTelLoad
  BY <1>3 DEF SeriesTelLoad
<1>4. CASE SeriesTelStore
  <2>1. Quiet(nPc) /\ snap["series"] = tel
    BY <1>4 DEF SeriesTelStore
  <2>. QED  BY <1>4, <2>1 DEF SeriesTelStore, AddSeriesExecutionTime, TelFields
<1>5. CASE NextCall
  <2>1. Quiet(sPc)
    BY <1>5 DEF NextCall, MayStart
  <2>. QED  BY <1>5, <2>1 DEF NextCall
<1>6. CASE NextOnce
  BY <1>6 DEF NextOnce
<1>7. CASE NextScalar
  BY <1>7 DEF NextScalar
<1>8. CASE NextTelLoad
  BY <1>8 DEF NextTelLoad
<1>9. CASE NextTelStore
  <2>1. Quiet(sPc) /\ snap["next"] = tel
    BY <1>9 DEF NextTelStore
  <2>. QED  BY <1>9, <2>1 DEF NextTelStore, AddNextExecutionTime, TelFields
<1>10. CASE UNCHANGED vars
  BY <1>10 DEF vars
<1>. QED  BY <1>1, <1>2, <1>3, <1>4, <1>5, <1>6, <1>7, <1>8, <1>9, <1>10 DEF Next

\* With Series and Next calls that do not overlap, every reachable state has
\* ExecutionTime = SeriesTime + NextTime (the telemetry of
\* scalarOperator.Series and Next, telemetry.go lines 126-138).
THEOREM ExecTimeSum ==
  ASSUME ~Concurrent
  PROVE  Spec => []ExecTimeIsSum
<1>1. Init => TelInv
  BY TelInvInit
<1>2. TelInv /\ [Next]_vars => TelInv'
  BY TelInvStep
<1>3. TelInv => ExecTimeIsSum
  BY DEF TelInv
<1>. QED  BY <1>1, <1>2, <1>3, PTL DEF Spec

(***************************************************************************)
(* Step semantics.  Each batch Next returns is computed from the leaf      *)
(* batches of the vector and scalar children in the same Next call, so     *)
(* StepSemantics is kept by NextScalar alone.  The argument is by step:    *)
(* the loop's OutStep at batch position p, fed the vector child's step p   *)
(* and the first sample of the scalar child's step p, equals SpecStep of   *)
(* the two leaf steps at p.  This needs the scalar child's batch to be as  *)
(* long as the vector child's (both children pull the same steps), which   *)
(* the invariant below keeps from the cursor.  The Series goroutine and    *)
(* the telemetry never touch these variables, so this holds whether or not *)
(* the parent's calls overlap.                                             *)
(***************************************************************************)
\* The number of steps a leaf returns after c steps of the range.
LeafLen(c) == IF Len(Timestamps) - c < StepsBatch THEN Len(Timestamps) - c ELSE StepsBatch

\* A leaf batch after c steps is a sequence of the next LeafLen(c) steps.
LEMMA LeafBatchShape ==
  ASSUME NEW c \in 0 .. Len(Timestamps), NEW C, NEW b \in LeafBatches(c, C)
  PROVE  /\ LeafLen(c) \in 0 .. Len(Timestamps) - c
         /\ Len(b) = LeafLen(c)
         /\ DOMAIN b = 1 .. Len(b)
<1>1. LeafLen(c) \in 0 .. Len(Timestamps) - c
  BY ScalarBinaryAssumption DEF LeafLen
<1>2. PICK ct \in [1 .. LeafLen(c) -> C] :
        b = [p \in 1 .. LeafLen(c) |-> [t |-> Timestamps[c + p], f |-> ct[p].f, h |-> ct[p].h]]
  BY DEF LeafBatches, LeafLen
<1>. QED  BY <1>1, <1>2

\* The vector child's step p, from its leaf's step p.
VecStep(qq, x) ==
  CASE qq.vec = "selector" -> x
    [] qq.vec = "absent" ->
         [t |-> x.t,
          f |-> IF DOMAIN x.f = {} /\ DOMAIN x.h = {} THEN [i \in {0} |-> 1] ELSE NoIds,
          h |-> NoIds]
    [] qq.vec = "scalar" -> ScalarStep(x)

\* The vector child maps its leaf's batch step by step.
LEMMA VectorChildSteps ==
  ASSUME NEW qq \in Queries, NEW b, Len(b) \in Nat, DOMAIN b = 1 .. Len(b)
  PROVE  /\ DOMAIN VectorChildNext(qq, b) = DOMAIN b
         /\ \A p \in DOMAIN b : VectorChildNext(qq, b)[p] = VecStep(qq, b[p])
<1>1. qq.vec \in {"selector", "absent", "scalar"}
  BY ScalarBinaryAssumption
<1>2. CASE Len(b) = 0
  <2>1. DOMAIN b = {}
    BY <1>2
  <2>. QED  BY <1>1, <1>2, <2>1 DEF VectorChildNext, AbsentNext, ScalarNext
<1>3. CASE Len(b) # 0
  BY <1>1, <1>3 DEF VectorChildNext, AbsentNext, ScalarNext, VecStep
<1>. QED  BY <1>2, <1>3

\* The scalar the loop uses at step v is scalar(w) of the v-th step of w.
LEMMA ScalarValOfStep ==
  ASSUME NEW wb, Len(wb) \in Nat, DOMAIN wb = 1 .. Len(wb), NEW v \in DOMAIN wb
  PROVE  ScalarVal(ScalarNext(wb), v) = ScalarOfStep(wb[v])
<1>1. ScalarNext(wb) = [p \in DOMAIN wb |-> ScalarStep(wb[p])]
  BY DEF ScalarNext
<1>2. Len(ScalarNext(wb)) >= v
  BY <1>1
<1>3. DOMAIN ScalarNext(wb)[v].f = {0}
  BY <1>1 DEF ScalarStep
<1>4. (CHOOSE i \in DOMAIN ScalarNext(wb)[v].f : \A j \in DOMAIN ScalarNext(wb)[v].f : i <= j) = 0
  <2>1. (CHOOSE i \in {0} : \A j \in {0} : i <= j) = 0
    OBVIOUS
  <2>. QED  BY <1>3, <2>1, Zenon
<1>5. ScalarVal(ScalarNext(wb), v) = ScalarNext(wb)[v].f[0]
  BY <1>2, <1>3, <1>4 DEF ScalarVal
<1>6. ScalarNext(wb)[v].f[0] = ScalarOfStep(wb[v])
  BY <1>1 DEF ScalarStep, ScalarOfStep
<1>. QED  BY <1>5, <1>6
\* One iteration of the loop gives what PromQL gives at that step.
LEMMA OutStepIsSpecStep ==
  ASSUME NEW qq \in Queries, NEW x, NEW w
  PROVE  OutStep(qq, VecStep(qq, x), ScalarOfStep(w)) = SpecStep(qq, [t |-> x.t, x |-> x, w |-> w])
<1> DEFINE s == ScalarOfStep(w)
           v == VecStep(qq, x)
           lhs(y) == IF qq.side = "Left" THEN s ELSE y
           rhs(y) == IF qq.side = "Left" THEN y ELSE s
           holds(y) == Compare(qq.op, lhs(y), rhs(y))
           keepF == {i \in DOMAIN v.f : qq.op \in ArithOps \/ qq.bool \/ holds(v.f[i])}
           keepH == {i \in DOMAIN v.h : qq.op = "MUL" \/ (qq.op = "DIV" /\ qq.side = "Right")}
           SF == [i \in keepF |->
                    IF qq.op \in ArithOps THEN <<qq.op, lhs(v.f[i]), rhs(v.f[i])>>
                    ELSE IF qq.bool THEN (IF holds(v.f[i]) THEN 1 ELSE 0)
                    ELSE v.f[i]]
           SH == [i \in keepH |-> <<qq.op, lhs(v.h[i]), rhs(v.h[i])>>]
<1>1. /\ qq.op \in ArithOps \cup CmpOps
      /\ qq.bool \in BOOLEAN /\ (qq.bool => qq.op \in CmpOps)
      /\ qq.side \in {"Left", "Right", "Both"}
      /\ qq.vec \in {"selector", "absent", "scalar"}
      /\ (qq.side = "Both") <=> (qq.vec = "scalar")
      /\ (qq.side = "Both" /\ qq.op \in CmpOps) => qq.bool
  BY ScalarBinaryAssumption
<1>2. /\ v.t = x.t
      /\ v.f = VectorOperand(qq, x).f
      /\ v.h = VectorOperand(qq, x).h
      /\ qq.side = "Both" => DOMAIN v.h = {}
  <2>1. CASE qq.vec = "selector"
    BY <2>1, <1>1 DEF VecStep, VectorOperand
  <2>2. CASE qq.vec = "absent"
    BY <2>2, <1>1 DEF VecStep, VectorOperand, NoIds
  <2>3. CASE qq.vec = "scalar"
    BY <2>3, <1>1 DEF VecStep, VectorOperand, ScalarStep, ScalarOfStep, NoIds
  <2>. QED  BY <1>1, <2>1, <2>2, <2>3
<1>3. SpecStep(qq, [t |-> x.t, x |-> x, w |-> w]) = [t |-> x.t, f |-> SF, h |-> SH]
  BY <1>2 DEF SpecStep
<1>4. OutStep(qq, v, s).f = SF
  <2>1. CASE qq.op \in ArithOps
    BY <1>1, <2>1 DEF OutStep, FloatOp, GetOperands, OperandValIdx, BothScalars, ArithOps, CmpOps
  <2>2. CASE qq.op \in CmpOps /\ qq.side # "Both"
    BY <1>1, <2>2 DEF OutStep, FloatOp, GetOperands, OperandValIdx, BothScalars, ArithOps, CmpOps
  <2>3. CASE qq.op \in CmpOps /\ qq.side = "Both"
    BY <1>1, <2>3 DEF OutStep, FloatOp, GetOperands, OperandValIdx, BothScalars, ArithOps, CmpOps
  <2>. QED  BY <1>1, <2>1, <2>2, <2>3
<1>5. OutStep(qq, v, s).h = SH
  <2>1. CASE qq.side = "Both"
    BY <1>2, <2>1 DEF OutStep
  <2>2. CASE qq.side # "Both"
    BY <1>1, <2>2 DEF OutStep, HistOp, NilHist
  <2>. QED  BY <2>1, <2>2
<1>6. OutStep(qq, v, s) = [t |-> x.t, f |-> OutStep(qq, v, s).f, h |-> OutStep(qq, v, s).h]
  BY <1>2 DEF OutStep
<1>. QED  BY <1>3, <1>4, <1>5, <1>6
StepInv ==
  /\ q \in Queries
  /\ cursor \in 0 .. Len(Timestamps)
  /\ nPc \in {"once", "scalar"} =>
       /\ Len(rawV) \in 0 .. cursor
       /\ DOMAIN rawV = 1 .. Len(rawV)
       /\ Len(rawV) = LeafLen(cursor - Len(rawV))
  /\ DOMAIN returned = DOMAIN rawOut
  /\ StepSemantics

LEMMA StepInvInit == Init => StepInv
BY ScalarBinaryAssumption DEF Init, StepInv, StepSemantics

\* NextScalar's batch is the PromQL result of the leaf steps it records.
LEMMA NextScalarStep ==
  ASSUME StepInv, nPc = "scalar", NEW wb \in LeafBatches(cursor - Len(rawV), WContents)
  PROVE  LET out == ExecBatch(q, VectorChildNext(q, rawV), ScalarNext(wb))
             raw == [p \in DOMAIN rawV |-> [t |-> rawV[p].t, x |-> rawV[p], w |-> wb[p]]]
         IN  /\ DOMAIN out = DOMAIN raw
             /\ \A p \in DOMAIN out : out[p] = SpecStep(q, raw[p])
<1>1. /\ q \in Queries
      /\ Len(rawV) \in Nat /\ DOMAIN rawV = 1 .. Len(rawV)
      /\ cursor - Len(rawV) \in 0 .. Len(Timestamps)
      /\ Len(rawV) = LeafLen(cursor - Len(rawV))
  BY DEF StepInv
<1>2. Len(wb) = Len(rawV) /\ DOMAIN wb = 1 .. Len(wb)
  BY <1>1, LeafBatchShape
<1>3. /\ DOMAIN VectorChildNext(q, rawV) = DOMAIN rawV
      /\ \A p \in DOMAIN rawV : VectorChildNext(q, rawV)[p] = VecStep(q, rawV[p])
  BY <1>1, VectorChildSteps
<1>4. \A p \in DOMAIN rawV : ScalarVal(ScalarNext(wb), p) = ScalarOfStep(wb[p])
  BY <1>1, <1>2, ScalarValOfStep
<1>5. \A p \in DOMAIN rawV :
        OutStep(q, VecStep(q, rawV[p]), ScalarOfStep(wb[p]))
          = SpecStep(q, [t |-> rawV[p].t, x |-> rawV[p], w |-> wb[p]])
  BY <1>1, OutStepIsSpecStep
<1>. QED  BY <1>3, <1>4, <1>5 DEF ExecBatch

LEMMA StepInvStep == StepInv /\ [Next]_vars => StepInv'
<1>. SUFFICES ASSUME StepInv, [Next]_vars PROVE StepInv'
  OBVIOUS
<1>1. CASE SeriesCall \/ SeriesLoad \/ SeriesTelLoad \/ SeriesTelStore \/ NextTelLoad \/ NextTelStore
  BY <1>1 DEF SeriesCall, SeriesLoad, SeriesTelLoad, SeriesTelStore, NextTelLoad, NextTelStore,
              StepInv, StepSemantics
<1>2. CASE NextCall
  <2>1. CASE cursor < Len(Timestamps) /\ nPc' = "once"
    <3>1. PICK b \in LeafBatches(cursor, IF q.vec = "selector" THEN VecContents ELSE XContents) :
            rawV' = b /\ cursor' = cursor + Len(b)
      BY <1>2, <2>1 DEF NextCall
    <3>2. Len(b) = LeafLen(cursor) /\ LeafLen(cursor) \in 0 .. Len(Timestamps) - cursor
          /\ DOMAIN b = 1 .. Len(b)
      BY <3>1, LeafBatchShape DEF StepInv
    <3>3. UNCHANGED <<q, returned, rawOut>>
      BY <1>2 DEF NextCall
    <3>. QED  BY <3>1, <3>2, <3>3, <2>1 DEF StepInv, StepSemantics
  <2>2. CASE ~(cursor < Len(Timestamps) /\ nPc' = "once")
    BY <1>2, <2>2 DEF NextCall, StepInv, StepSemantics
  <2>. QED  BY <2>1, <2>2
<1>3. CASE NextOnce
  BY <1>3 DEF NextOnce, StepInv, StepSemantics
<1>4. CASE NextScalar
  <2>1. CASE nRes' = "ChildError" /\ UNCHANGED <<returned, rawOut>>
    BY <1>4, <2>1 DEF NextScalar, StepInv, StepSemantics
  <2>2. CASE \E wb \in LeafBatches(cursor - Len(rawV), WContents) :
               /\ returned' = ExecBatch(q, VectorChildNext(q, rawV), ScalarNext(wb))
               /\ rawOut' = [p \in DOMAIN rawV |-> [t |-> rawV[p].t, x |-> rawV[p], w |-> wb[p]]]
    <3>1. PICK wb \in LeafBatches(cursor - Len(rawV), WContents) :
               /\ returned' = ExecBatch(q, VectorChildNext(q, rawV), ScalarNext(wb))
               /\ rawOut' = [p \in DOMAIN rawV |-> [t |-> rawV[p].t, x |-> rawV[p], w |-> wb[p]]]
      BY <2>2
    <3>2. /\ DOMAIN returned' = DOMAIN rawOut'
          /\ \A p \in DOMAIN returned' : returned'[p] = SpecStep(q, rawOut'[p])
      BY <1>4, <3>1, NextScalarStep DEF NextScalar
    <3>. QED  BY <1>4, <3>2 DEF NextScalar, StepInv, StepSemantics
  <2>. QED  BY <1>4, <2>1, <2>2 DEF NextScalar
<1>5. CASE UNCHANGED vars
  BY <1>5 DEF vars, StepInv, StepSemantics
<1>. QED  BY <1>1, <1>2, <1>3, <1>4, <1>5 DEF Next

\* Spec sections 4.3-4.5 and 8, for every query, series table, range, batch
\* size and contents, whether or not the parent's Series and Next calls
\* overlap: every step of every batch Next returns is the PromQL result at
\* its timestamp.  The loop of scalarOperator.Next (scalar.go:221-268)
\* pairs the v-th vector step with the v-th step of the scalar child, and
\* both children pull the same steps of the range.
THEOREM StepSemanticsHolds == Spec => []StepSemantics
<1>1. Init => StepInv
  BY StepInvInit
<1>2. StepInv /\ [Next]_vars => StepInv'
  BY StepInvStep
<1>3. StepInv => StepSemantics
  BY DEF StepInv
<1>. QED  BY <1>1, <1>2, <1>3, PTL DEF Spec
====
