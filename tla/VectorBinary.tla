----------------------------- MODULE VectorBinary -----------------------------
(***************************************************************************)
(* The vector-vector binary operator (execution/binary/vector.go) as it    *)
(* executes: Next pulls a batch from both children, then runs              *)
(* execBinaryOperation on each pair of steps in turn against the shared   *)
(* join buckets, then returns the batch.  The buckets live as long as the  *)
(* query: a bucket's ats/bts remember the timestamp that last marked it,   *)
(* and sid/hid/val/hval the low-card sample that last filled it.           *)
(*                                                                         *)
(* pc is the place in Next: "Idle" between calls, "Exec" inside the loop  *)
(* over the batch (k is the step the loop is at), "Done" once Next has     *)
(* returned end of stream or an error.                                     *)
(***************************************************************************)
EXTENDS BinaryJoinTables

VARIABLES
  buckets,   \* joinBucket per signature
  cursor,    \* number of evaluation steps already returned
  pc,        \* "Idle", "Exec" or "Done"
  inL,       \* the batch lhs.Next returned in this call
  inR,       \* the batch rhs.Next returned in this call
  k,         \* loop index over the batch
  outB,      \* the output batch built so far
  returned,  \* the batch the last Next returned
  err,       \* the error Next returned, or NoErr
  warnings   \* annotations added to the query's warnings

vars == <<buckets, cursor, pc, inL, inR, k, outB, returned, err, warnings>>

LhsIds == DOMAIN LhsSeries
RhsIds == DOMAIN RhsSeries

Bucket == [ats : Int, bts : Int, sid : Nat, hid : Nat,
           val : FloatVals \cup {0}, hval : HistVals \cup {NilHist}]

\* A variant that leaves ats and bts at their zero value.
NewBucketZero == [ats |-> 0, bts |-> 0, sid |-> 0, hid |-> 0, val |-> 0, hval |-> NilHist]

\* joinBucket{ats: -1, bts: -1}; the other fields hold their zero values.
NewBucket == [ats |-> -1, bts |-> -1, sid |-> 0, hid |-> 0, val |-> 0, hval |-> NilHist]

StepResult(bk, ts, f, h, e, w) ==
  [buckets |-> bk, step |-> [T |-> ts, f |-> f, h |-> h], err |-> e, warns |-> w]

Out(src, id, v) == [src |-> src, id |-> id, v |-> v]

\* A variant that keeps an lhs sample whose bucket was ever marked.
ExecBinaryAndAnyMark(l, r) ==
  LET ts == l.T
      bk == [g \in SigSpace |->
               LET js == {j \in DOMAIN r.f : LcSig(j) = g}
               IN  IF js = {} THEN buckets[g]
                   ELSE [buckets[g] EXCEPT !.sid = CHOOSE j \in js : TRUE, !.ats = ts]]
  IN  StepResult(bk, ts,
        {Out(<<"hc", i>>, OutputSeriesID(i + 1, bk[HcSig(i)].sid + 1), l.f[i]) :
           i \in {i \in DOMAIN l.f : bk[HcSig(i)].ats # -1}},
        {}, NoErr, {})

(***************************************************************************)
(* execBinaryAnd: mark the bucket of every rhs sample, then keep the lhs   *)
(* samples whose bucket was marked at this timestamp.                      *)
(***************************************************************************)
ExecBinaryAnd(l, r) ==
  LET ts == l.T
      bk == [g \in SigSpace |->
               LET js == {j \in DOMAIN r.f : LcSig(j) = g}
               IN  IF js = {} THEN buckets[g]
                   ELSE [buckets[g] EXCEPT !.sid = CHOOSE j \in js : TRUE, !.ats = ts]]
  IN  StepResult(bk, ts,
        {Out(<<"hc", i>>, OutputSeriesID(i + 1, bk[HcSig(i)].sid + 1), l.f[i]) :
           i \in {i \in DOMAIN l.f : bk[HcSig(i)].ats = ts}},
        {}, NoErr, {})

\* A variant that looks the rhs buckets up before the lhs marks them.
ExecBinaryOrEarlyLookup(l, r) ==
  LET ts == l.T
      marked == {HcSig(i) : i \in DOMAIN l.f}
      bk == [g \in SigSpace |->
               IF g \in marked THEN [buckets[g] EXCEPT !.ats = ts] ELSE buckets[g]]
  IN  StepResult(bk, ts,
        {Out(<<"hc", i>>, OutputSeriesID(i + 1, 0), l.f[i]) : i \in DOMAIN l.f}
        \cup {Out(<<"lc", j>>, OutputSeriesID(0, j + 1), r.f[j]) :
                j \in {j \in DOMAIN r.f : buckets[LcSig(j)].ats # ts}},
        {}, NoErr, {})

(***************************************************************************)
(* execBinaryOr: emit and mark every lhs sample, then emit the rhs samples *)
(* whose bucket no lhs sample marked at this timestamp.                    *)
(***************************************************************************)
ExecBinaryOr(l, r) ==
  LET ts == l.T
      marked == {HcSig(i) : i \in DOMAIN l.f}
      bk == [g \in SigSpace |->
               IF g \in marked THEN [buckets[g] EXCEPT !.ats = ts] ELSE buckets[g]]
  IN  StepResult(bk, ts,
        {Out(<<"hc", i>>, OutputSeriesID(i + 1, 0), l.f[i]) : i \in DOMAIN l.f}
        \cup {Out(<<"lc", j>>, OutputSeriesID(0, j + 1), r.f[j]) :
                j \in {j \in DOMAIN r.f : bk[LcSig(j)].ats # ts}},
        {}, NoErr, {})

\* A variant that checks the lhs against the buckets before the rhs marks them.
ExecBinaryUnlessEarlyLookup(l, r) ==
  LET ts == l.T
      marked == {LcSig(j) : j \in DOMAIN r.f}
      bk == [g \in SigSpace |->
               IF g \in marked THEN [buckets[g] EXCEPT !.ats = ts] ELSE buckets[g]]
  IN  StepResult(bk, ts,
        {Out(<<"hc", i>>, OutputSeriesID(i + 1, 0), l.f[i]) :
           i \in {i \in DOMAIN l.f : buckets[HcSig(i)].ats # ts}},
        {}, NoErr, {})

(***************************************************************************)
(* execBinaryUnless: mark the bucket of every rhs sample, then keep the    *)
(* lhs samples whose bucket was not marked at this timestamp.              *)
(***************************************************************************)
ExecBinaryUnless(l, r) ==
  LET ts == l.T
      marked == {LcSig(j) : j \in DOMAIN r.f}
      bk == [g \in SigSpace |->
               IF g \in marked THEN [buckets[g] EXCEPT !.ats = ts] ELSE buckets[g]]
  IN  StepResult(bk, ts,
        {Out(<<"hc", i>>, OutputSeriesID(i + 1, 0), l.f[i]) :
           i \in {i \in DOMAIN l.f : bk[HcSig(i)].ats # ts}},
        {}, NoErr, {})

\* A variant that drops results whose comparison is false even under bool.
EmittedNoBool(res) == res.keep

\* The bool modifier keeps every pair, with value 1 or 0; otherwise a pair
\* is kept when vectorElemBinop says so.
Emitted(res) == ReturnBool \/ res.keep

EmitValue(res) == IF ReturnBool THEN IF res.keep THEN 1 ELSE 0 ELSE res.f

(***************************************************************************)
(* execBinaryArithmetic.  The shortcut returns an empty step when the high *)
(* card side has no float samples.  The low-card loops fill the buckets    *)
(* (floats into sid/val, histograms into hid/hval) and fail when a bucket  *)
(* is already at ts; the high-card loops read the bucket, fail on a second *)
(* one-to-one match (bts), and emit at outputSeriesID(id+1, bucket.sid+1). *)
(* A failing step's partial bucket writes are not kept: the query ends.   *)
(***************************************************************************)
HcStep(l, r) == IF Card = "CardOneToMany" THEN r ELSE l
LcStep(l, r) == IF Card = "CardOneToMany" THEN l ELSE r

Present(sv) == DOMAIN sv.f \cup DOMAIN sv.h

\* A low-card bucket already at ts, or two low-card samples in one bucket.
LowCardCollision(lcs, ts) ==
  \E j \in Present(lcs) :
    \/ buckets[LcSig(j)].ats = ts
    \/ \E j2 \in Present(lcs) \ {j} : LcSig(j2) = LcSig(j)

\* The two low-card loops: a float fills sid/val, a histogram hid/hval.
FillLowCard(lcs, ts) ==
  [g \in SigSpace |->
     LET js == {j \in Present(lcs) : LcSig(j) = g}
         j  == CHOOSE j \in js : TRUE
     IN  IF js = {} THEN buckets[g]
         ELSE IF j \in DOMAIN lcs.f
           THEN [buckets[g] EXCEPT !.sid = j, !.val = lcs.f[j], !.ats = ts]
           ELSE [buckets[g] EXCEPT !.hid = j, !.hval = lcs.h[j], !.ats = ts]]

\* The high-card samples whose bucket a low-card sample filled at ts.
Matched(hcs, bk, ts) == {i \in Present(hcs) : bk[HcSig(i)].ats = ts}

\* One-to-one matching, and a second high-card sample reaches a bucket.
HighCardCollision(hcs, bk, ts) ==
  /\ Card = "CardOneToOne"
  /\ \E i \in Matched(hcs, bk, ts) :
       \/ bk[HcSig(i)].bts = ts
       \/ \E i2 \in Matched(hcs, bk, ts) \ {i} : HcSig(i2) = HcSig(i)

\* The high-card loops set bts on every bucket they match.
MarkHighCard(hcs, bk, ts) ==
  [g \in SigSpace |->
     IF \E i \in Matched(hcs, bk, ts) : HcSig(i) = g
       THEN [bk[g] EXCEPT !.bts = ts] ELSE bk[g]]

ExecBinaryArithmetic(l, r) ==
  LET ts  == l.T
      hcs == HcStep(l, r)
      bk1 == FillLowCard(LcStep(l, r), ts)
      FRes(i) == ComputeBinaryPairing(hcs.f[i], bk1[HcSig(i)].val, NilHist, NilHist)
      HRes(i) == ComputeBinaryPairing(0, 0, hcs.h[i], bk1[HcSig(i)].hval)
      fMatched == Matched(hcs, bk1, ts) \cap DOMAIN hcs.f
      hMatched == Matched(hcs, bk1, ts) \cap DOMAIN hcs.h
  IN  CASE DOMAIN hcs.f = {}                 -> StepResult(buckets, ts, {}, {}, NoErr, {})
        [] LowCardCollision(LcStep(l, r), ts) -> StepResult(buckets, ts, {}, {}, "ManyToMany", {})
        [] HighCardCollision(hcs, bk1, ts)    -> StepResult(buckets, ts, {}, {}, "ImplicitManyToOne", {})
        [] OTHER ->
             StepResult(MarkHighCard(hcs, bk1, ts), ts,
               {Out(<<"hc", i>>, OutputSeriesID(i + 1, bk1[HcSig(i)].sid + 1), EmitValue(FRes(i))) :
                  i \in {i \in fMatched : Emitted(FRes(i))}},
               {Out(<<"hc", i>>, OutputSeriesID(i + 1, bk1[HcSig(i)].sid + 1), HRes(i).h) :
                  i \in hMatched},
               NoErr,
               ({FRes(i).err : i \in fMatched} \cup {HRes(i).err : i \in hMatched}) \ {NoErr})

ExecBinaryOperation(l, r) ==
  CASE OpType = "LAND"    -> ExecBinaryAnd(l, r)
    [] OpType = "LOR"     -> ExecBinaryOr(l, r)
    [] OpType = "LUNLESS" -> ExecBinaryUnless(l, r)
    [] OTHER              -> ExecBinaryArithmetic(l, r)

(***************************************************************************)
(* The actions of Next.                                                    *)
(***************************************************************************)
Init ==
  /\ buckets = [g \in SigSpace |-> NewBucket]
  /\ cursor = 0
  /\ pc = "Idle"
  /\ inL = <<>>
  /\ inR = <<>>
  /\ k = 1
  /\ outB = <<>>
  /\ returned = <<>>
  /\ err = NoErr
  /\ warnings = {}

\* Variants of PullBatch that do not reset the output batch, or the loop.
PullBatchKeepOut ==
  /\ pc = "Idle"
  /\ cursor < Len(Timestamps)
  /\ \E bl \in Batches("lhs", LhsIds, cursor), br \in Batches("rhs", RhsIds, cursor) :
       /\ inL' = bl
       /\ inR' = br
  /\ pc' = "Exec"
  /\ k' = 1
  /\ UNCHANGED <<buckets, cursor, outB, returned, err, warnings>>

PullBatchKeepK ==
  /\ pc = "Idle"
  /\ cursor < Len(Timestamps)
  /\ \E bl \in Batches("lhs", LhsIds, cursor), br \in Batches("rhs", RhsIds, cursor) :
       /\ inL' = bl
       /\ inR' = br
  /\ pc' = "Exec"
  /\ outB' = <<>>
  /\ UNCHANGED <<buckets, cursor, k, returned, err, warnings>>

\* lhs.Next runs in a goroutine while rhs.Next runs inline; both answer
\* with the next batch of the query range.
PullBatch ==
  /\ pc = "Idle"
  /\ cursor < Len(Timestamps)
  /\ \E bl \in Batches("lhs", LhsIds, cursor), br \in Batches("rhs", RhsIds, cursor) :
       /\ inL' = bl
       /\ inR' = br
  /\ pc' = "Exec"
  /\ k' = 1
  /\ outB' = <<>>
  /\ UNCHANGED <<buckets, cursor, returned, err, warnings>>

\* The context is cancelled at entry, initOnce fails (a child's Series
\* call), or a child's Next fails; the rhs error is returned when both fail.
ChildFails ==
  /\ pc = "Idle"
  /\ \/ err' = "Canceled"
     \/ err' = "SeriesError"
     \/ \E lfail, rfail \in BOOLEAN :
          /\ lfail \/ rfail
          /\ err' = IF rfail THEN "RhsError" ELSE "LhsError"
  /\ pc' = "Done"
  /\ UNCHANGED <<buckets, cursor, inL, inR, k, outB, returned, warnings>>

\* Both children are exhausted: Next returns nil.
EndOfStream ==
  /\ pc = "Idle"
  /\ cursor = Len(Timestamps)
  /\ pc' = "Done"
  /\ UNCHANGED <<buckets, cursor, inL, inR, k, outB, returned, err, warnings>>

\* A variant that appends the step whatever error execBinaryOperation returns.
ExecStepIgnoringErr ==
  /\ pc = "Exec"
  /\ k <= Len(inL)
  /\ LET res == ExecBinaryOperation(inL[k], inR[k])
     IN  /\ buckets' = res.buckets
         /\ outB' = Append(outB, res.step)
         /\ warnings' = warnings \cup res.warns
  /\ k' = k + 1
  /\ UNCHANGED <<cursor, pc, inL, inR, returned, err>>

ExecStep ==
  /\ pc = "Exec"
  /\ k <= Len(inL)
  /\ LET res == ExecBinaryOperation(inL[k], inR[k])
     IN  /\ res.err = NoErr
         /\ buckets' = res.buckets
         /\ outB' = Append(outB, res.step)
         /\ warnings' = warnings \cup res.warns
  /\ k' = k + 1
  /\ UNCHANGED <<cursor, pc, inL, inR, returned, err>>

ExecStepFails ==
  /\ pc = "Exec"
  /\ k <= Len(inL)
  /\ ExecBinaryOperation(inL[k], inR[k]).err # NoErr
  /\ err' = ExecBinaryOperation(inL[k], inR[k]).err
  /\ pc' = "Done"
  /\ UNCHANGED <<buckets, cursor, inL, inR, k, outB, returned, warnings>>

ReturnBatch ==
  /\ pc = "Exec"
  /\ k > Len(inL)
  /\ returned' = outB
  /\ cursor' = cursor + Len(inL)
  /\ pc' = "Idle"
  /\ UNCHANGED <<buckets, inL, inR, k, outB, err, warnings>>

Next ==
  \/ PullBatch
  \/ ChildFails
  \/ EndOfStream
  \/ ExecStep
  \/ ExecStepFails
  \/ ReturnBatch

Spec == Init /\ [][Next]_vars

(***************************************************************************)
(* Properties.                                                             *)
(***************************************************************************)
\* An output sample names the input sample it came from and its output
\* series id; its value is left untyped (float results are terms).
OutSampleOK(o) == o.src \in {"hc", "lc"} \X Nat /\ o.id \in Nat

\* A batch of at most StepsBatch output steps.
OutBatchOK(b) ==
  /\ \E n \in 0 .. StepsBatch : b = [p \in 1 .. n |-> b[p]]
  /\ \A p \in DOMAIN b : /\ b[p].T \in Int
                          /\ \A o \in b[p].f \cup b[p].h : OutSampleOK(o)

\* The type invariant of the operator's state.
TypeOK ==
  /\ buckets \in [SigSpace -> Bucket]
  /\ cursor \in 0 .. Len(Timestamps)
  /\ pc \in {"Idle", "Exec", "Done"}
  /\ inL \in Seq([T : Int, f : SampleSets(LhsIds, FloatVals), h : SampleSets(LhsIds, HistVals)])
  /\ inR \in Seq([T : Int, f : SampleSets(RhsIds, FloatVals), h : SampleSets(RhsIds, HistVals)])
  /\ Len(inL) = Len(inR)
  /\ k \in 1 .. Len(inL) + 1
  /\ OutBatchOK(outB)
  /\ OutBatchOK(returned)
  /\ err \in {NoErr, "Canceled", "SeriesError", "LhsError", "RhsError", "ManyToMany", "ImplicitManyToOne"}
  /\ warnings \subseteq Annotations

\* Section 7 of the spec: a pair vectorElemBinop rejects (histogram with an
\* incompatible operand) is dropped with a warning, so no step the
\* arithmetic loop of execBinaryArithmetic returns holds a nil histogram.
NoNilHistogramOutput ==
  \A p \in DOMAIN returned : \A o \in returned[p].h : o.v # NilHist

\* Every sample an arithmetic or comparison operator returns belongs to the
\* output series of its high-card sample and the low-card sample it was
\* matched with at that step: the id outputSeriesID computes from the join
\* bucket names the label set resultMetric gives that pair.
OutputSeriesLabelled ==
  OpType \notin SetOps =>
    \A p \in DOMAIN returned : \A o \in returned[p].f \cup returned[p].h :
      LET i   == o.src[2]
          lcs == IF Card = "CardOneToMany" THEN inL[p] ELSE inR[p]
      IN  \E j \in DOMAIN lcs.f \cup DOMAIN lcs.h :
            /\ LcSig(j) = HcSig(i)
            /\ SeriesLabels(o.id) = ResultMetric(HighCardSide[i], LowCardSide[j])

(***************************************************************************)
(* Refinement: the operator implements the join of BinaryJoin.  A sample's *)
(* output id is replaced by the label set of that output series, so the    *)
(* mapping checks the whole path from buckets through cantorPairing and    *)
(* outputMap to o.series.  The loop steps inside Next are stutters.        *)
(***************************************************************************)
Labelled(step) ==
  [T |-> step.T,
   f |-> {[src |-> o.src, ls |-> SeriesLabels(o.id), v |-> o.v] : o \in step.f},
   h |-> {[src |-> o.src, ls |-> SeriesLabels(o.id), v |-> o.v] : o \in step.h}]

Join == INSTANCE BinaryJoin WITH
          phase <- IF pc = "Exec" THEN "Pulled" ELSE pc,
          input <- <<inL, inR>>,
          returned <- [p \in DOMAIN returned |-> Labelled(returned[p])]

\* Every batch Next returns is the PromQL join of the children's batches
\* (and/or/unless as set operations on signatures, arithmetic and
\* comparisons on the unique low-card partner, with output series by label
\* set), and Next fails exactly on the first step with a many-to-many or
\* implicit many-to-one match.
JoinRefinement == Join!Spec

=============================================================================
