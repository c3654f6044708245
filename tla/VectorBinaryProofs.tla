-------------------------- MODULE VectorBinaryProofs --------------------------
(***************************************************************************)
(* Proofs about VectorBinary for every value of the constants.             *)
(***************************************************************************)
EXTENDS VectorBinary, FiniteSetTheorems, SequenceTheorems, TLAPS

(***************************************************************************)
(* Output series ids.  initJoinTables visits finitely many pairs, so every *)
(* index joinHelper.append hands out, and every id outputSeriesID loads,   *)
(* is a natural number.                                                     *)
(***************************************************************************)
HcNums == {0} \cup {i + 1 : i \in HcIds}
LcNums == {0} \cup {j + 1 : j \in LcIds}

\* The high- and low-card sides have finitely many series, all numbered.
LEMMA SidesFinite ==
  /\ IsFiniteSet(HcIds) /\ HcIds \subseteq Nat
  /\ IsFiniteSet(LcIds) /\ LcIds \subseteq Nat
BY SeriesAssumption DEF HcIds, LcIds, HighCardSide, LowCardSide

\* The image of a finite set under a function is finite.
LEMMA ImageFinite ==
  ASSUME NEW S, IsFiniteSet(S), NEW T, NEW f \in [S -> T], \A t \in T : \E x \in S : f[x] = t
  PROVE  IsFiniteSet(T)
<1>1. f \in Surjection(S, T)
  BY DEF Surjection
<1>. QED  BY <1>1, FS_Surjection

\* The pairs initJoinTables stores are pairs of offset series numbers.
LEMMA OutputPairsFinite == IsFiniteSet(OutputPairs)
<1>1. IsFiniteSet(HcNums) /\ IsFiniteSet(LcNums)
  <2>1. IsFiniteSet({i + 1 : i \in HcIds})
    <3>. DEFINE f == [i \in HcIds |-> i + 1]
    <3>1. f \in [HcIds -> {i + 1 : i \in HcIds}]
      OBVIOUS
    <3>2. \A t \in {i + 1 : i \in HcIds} : \E x \in HcIds : f[x] = t
      OBVIOUS
    <3>. QED  BY <3>1, <3>2, SidesFinite, ImageFinite
  <2>3. IsFiniteSet({j + 1 : j \in LcIds})
    <3>. DEFINE f == [j \in LcIds |-> j + 1]
    <3>1. f \in [LcIds -> {j + 1 : j \in LcIds}]
      OBVIOUS
    <3>2. \A t \in {j + 1 : j \in LcIds} : \E x \in LcIds : f[x] = t
      OBVIOUS
    <3>. QED  BY <3>1, <3>2, SidesFinite, ImageFinite
  <2>2. IsFiniteSet({0})
    BY FS_Singleton
  <2>. QED  BY <2>1, <2>2, <2>3, FS_Union DEF HcNums, LcNums
<1>2. IsFiniteSet(HcNums \X LcNums)
  BY <1>1, FS_Product
<1>3. OutputPairs \subseteq HcNums \X LcNums
  BY DEF OutputPairs, HcNums, LcNums
<1>. QED  BY <1>2, <1>3, FS_Subset

\* outputSeriesID returns a natural number for any arguments.
LEMMA OutputSeriesIDNat ==
  ASSUME NEW hc, NEW lc
  PROVE  OutputSeriesID(hc, lc) \in Nat
<1>1. ASSUME NEW ls
      PROVE  JoinHelperAppend(ls) \in Nat
  <2>. DEFINE Before == {q \in OutputPairs : VisitedBefore(q, FirstVisit(ls))}
  <2>1. IsFiniteSet(Before)
    BY OutputPairsFinite, FS_Subset
  <2>2. IsFiniteSet({PairLabels(q) : q \in Before})
    <3>. DEFINE f == [q \in Before |-> PairLabels(q)]
    <3>1. f \in [Before -> {PairLabels(q) : q \in Before}]
      OBVIOUS
    <3>2. \A t \in {PairLabels(q) : q \in Before} : \E x \in Before : f[x] = t
      OBVIOUS
    <3>. QED  BY <2>1, <3>1, <3>2, ImageFinite
  <2>. QED  BY <2>2, FS_CardinalityType DEF JoinHelperAppend
<1>. QED  BY <1>1 DEF OutputSeriesID, OutputMap

(***************************************************************************)
(* Typing of one step of execBinaryOperation.                              *)
(***************************************************************************)
\* An output sample built from a numbered input sample and any pairing.
LEMMA OutOK ==
  ASSUME NEW src \in {"hc", "lc"}, NEW i \in Nat, NEW hc, NEW lc, NEW v
  PROVE  OutSampleOK(Out(<<src, i>>, OutputSeriesID(hc, lc), v))
BY OutputSeriesIDNat DEF OutSampleOK, Out

StepT(ids) == [T : Int, f : SampleSets(ids, FloatVals), h : SampleSets(ids, HistVals)]

OutStepOK(st) == st.T \in Int /\ \A o \in st.f \cup st.h : OutSampleOK(o)

\* What execBinaryOperation may return about a step.
ResultOK(res) ==
  /\ res.buckets \in [SigSpace -> Bucket]
  /\ OutStepOK(res.step)
  /\ res.warns \subseteq Annotations
  /\ res.err \in {NoErr, "ManyToMany", "ImplicitManyToOne"}

\* A SampleIDs/Samples pair is a function from some series to values.
LEMMA SampleSetsType ==
  ASSUME NEW ids, NEW vals, NEW g \in SampleSets(ids, vals)
  PROVE  /\ DOMAIN g \subseteq ids
         /\ \A x \in DOMAIN g : g[x] \in vals
BY DEF SampleSets

LEMMA IdsNat == LhsIds \subseteq Nat /\ RhsIds \subseteq Nat
BY SeriesAssumption DEF LhsIds, RhsIds

\* vectorElemBinop only ever reports one of the two annotations.
LEMMA BinopErr ==
  ASSUME NEW op, NEW a, NEW b, NEW ha, NEW hb
  PROVE  VectorElemBinop(op, a, b, ha, hb).err \in {NoErr} \cup Annotations
BY DEF VectorElemBinop, BinopResult, Incompatible, Annotations

LEMMA PairingErr ==
  ASSUME NEW a, NEW b, NEW ha, NEW hb
  PROVE  ComputeBinaryPairing(a, b, ha, hb).err \in {NoErr} \cup Annotations
BY BinopErr DEF ComputeBinaryPairing

LEMMA AndType ==
  ASSUME NEW l \in StepT(Nat), NEW r \in StepT(Nat), buckets \in [SigSpace -> Bucket]
  PROVE  ResultOK(ExecBinaryAnd(l, r))
<1>1. DOMAIN l.f \subseteq Nat /\ DOMAIN r.f \subseteq Nat /\ l.T \in Int
  BY SampleSetsType DEF StepT
<1>2. ExecBinaryAnd(l, r).buckets \in [SigSpace -> Bucket]
  BY <1>1 DEF ExecBinaryAnd, StepResult, Bucket
<1>3. OutStepOK(ExecBinaryAnd(l, r).step)
  <2>1. ExecBinaryAnd(l, r).step.h = {} /\ ExecBinaryAnd(l, r).step.T \in Int
    BY <1>1 DEF ExecBinaryAnd, StepResult
  <2>2. ASSUME NEW o \in ExecBinaryAnd(l, r).step.f
        PROVE  OutSampleOK(o)
    <3>1. \E i \in DOMAIN l.f : \E sid : o = Out(<<"hc", i>>, OutputSeriesID(i + 1, sid + 1), l.f[i])
      BY <2>2 DEF ExecBinaryAnd, StepResult
    <3>. QED  BY <3>1, <1>1, OutOK
  <2>. QED  BY <2>1, <2>2 DEF OutStepOK
<1>4. ExecBinaryAnd(l, r).warns = {} /\ ExecBinaryAnd(l, r).err = NoErr
  BY DEF ExecBinaryAnd, StepResult
<1>. QED  BY <1>2, <1>3, <1>4 DEF ResultOK

LEMMA OrType ==
  ASSUME NEW l \in StepT(Nat), NEW r \in StepT(Nat), buckets \in [SigSpace -> Bucket]
  PROVE  ResultOK(ExecBinaryOr(l, r))
<1>1. DOMAIN l.f \subseteq Nat /\ DOMAIN r.f \subseteq Nat /\ l.T \in Int
  BY SampleSetsType DEF StepT
<1>2. ExecBinaryOr(l, r).buckets \in [SigSpace -> Bucket]
  BY <1>1 DEF ExecBinaryOr, StepResult, Bucket
<1>3. OutStepOK(ExecBinaryOr(l, r).step)
  <2>1. ExecBinaryOr(l, r).step.h = {} /\ ExecBinaryOr(l, r).step.T \in Int
    BY <1>1 DEF ExecBinaryOr, StepResult
  <2>2. ASSUME NEW o \in ExecBinaryOr(l, r).step.f
        PROVE  OutSampleOK(o)
    <3>1. \/ \E i \in DOMAIN l.f : o = Out(<<"hc", i>>, OutputSeriesID(i + 1, 0), l.f[i])
          \/ \E j \in DOMAIN r.f : o = Out(<<"lc", j>>, OutputSeriesID(0, j + 1), r.f[j])
      BY <2>2 DEF ExecBinaryOr, StepResult
    <3>. QED  BY <3>1, <1>1, OutOK
  <2>. QED  BY <2>1, <2>2 DEF OutStepOK
<1>4. ExecBinaryOr(l, r).warns = {} /\ ExecBinaryOr(l, r).err = NoErr
  BY DEF ExecBinaryOr, StepResult
<1>. QED  BY <1>2, <1>3, <1>4 DEF ResultOK

LEMMA UnlessType ==
  ASSUME NEW l \in StepT(Nat), NEW r \in StepT(Nat), buckets \in [SigSpace -> Bucket]
  PROVE  ResultOK(ExecBinaryUnless(l, r))
<1>1. DOMAIN l.f \subseteq Nat /\ l.T \in Int
  BY SampleSetsType DEF StepT
<1>2. ExecBinaryUnless(l, r).buckets \in [SigSpace -> Bucket]
  BY <1>1 DEF ExecBinaryUnless, StepResult, Bucket
<1>3. OutStepOK(ExecBinaryUnless(l, r).step)
  <2>1. ExecBinaryUnless(l, r).step.h = {} /\ ExecBinaryUnless(l, r).step.T \in Int
    BY <1>1 DEF ExecBinaryUnless, StepResult
  <2>2. ASSUME NEW o \in ExecBinaryUnless(l, r).step.f
        PROVE  OutSampleOK(o)
    <3>1. \E i \in DOMAIN l.f : o = Out(<<"hc", i>>, OutputSeriesID(i + 1, 0), l.f[i])
      BY <2>2 DEF ExecBinaryUnless, StepResult
    <3>. QED  BY <3>1, <1>1, OutOK
  <2>. QED  BY <2>1, <2>2 DEF OutStepOK
<1>4. ExecBinaryUnless(l, r).warns = {} /\ ExecBinaryUnless(l, r).err = NoErr
  BY DEF ExecBinaryUnless, StepResult
<1>. QED  BY <1>2, <1>3, <1>4 DEF ResultOK

\* The low-card loops keep every bucket well typed.
LEMMA FillType ==
  ASSUME NEW lcs \in StepT(Nat), NEW ts \in Int, buckets \in [SigSpace -> Bucket]
  PROVE  FillLowCard(lcs, ts) \in [SigSpace -> Bucket]
<1>1. /\ DOMAIN lcs.f \subseteq Nat /\ \A x \in DOMAIN lcs.f : lcs.f[x] \in FloatVals
      /\ DOMAIN lcs.h \subseteq Nat /\ \A x \in DOMAIN lcs.h : lcs.h[x] \in HistVals
  BY SampleSetsType DEF StepT
<1>2. ASSUME NEW g \in SigSpace, NEW j \in Present(lcs)
      PROVE  /\ j \in DOMAIN lcs.f => [buckets[g] EXCEPT !.sid = j, !.val = lcs.f[j], !.ats = ts] \in Bucket
             /\ j \notin DOMAIN lcs.f => [buckets[g] EXCEPT !.hid = j, !.hval = lcs.h[j], !.ats = ts] \in Bucket
  BY <1>1 DEF Present, Bucket
<1>. QED  BY <1>2 DEF FillLowCard

\* The high-card loops keep every bucket well typed.
LEMMA MarkType ==
  ASSUME NEW hcs, NEW bk \in [SigSpace -> Bucket], NEW ts \in Int
  PROVE  MarkHighCard(hcs, bk, ts) \in [SigSpace -> Bucket]
BY DEF MarkHighCard, Bucket

LEMMA ArithType ==
  ASSUME NEW l \in StepT(Nat), NEW r \in StepT(Nat), buckets \in [SigSpace -> Bucket]
  PROVE  ResultOK(ExecBinaryArithmetic(l, r))
<1>. DEFINE ts  == l.T
            hcs == HcStep(l, r)
            bk1 == FillLowCard(LcStep(l, r), ts)
            FRes(i) == ComputeBinaryPairing(hcs.f[i], bk1[HcSig(i)].val, NilHist, NilHist)
            HRes(i) == ComputeBinaryPairing(0, 0, hcs.h[i], bk1[HcSig(i)].hval)
            fMatched == Matched(hcs, bk1, ts) \cap DOMAIN hcs.f
            hMatched == Matched(hcs, bk1, ts) \cap DOMAIN hcs.h
            res == ExecBinaryArithmetic(l, r)
<1>1. ts \in Int /\ hcs \in StepT(Nat) /\ LcStep(l, r) \in StepT(Nat)
  BY DEF StepT, HcStep, LcStep
<1>2. DOMAIN hcs.f \subseteq Nat /\ DOMAIN hcs.h \subseteq Nat
  BY <1>1, SampleSetsType DEF StepT
<1>3. bk1 \in [SigSpace -> Bucket]
  BY <1>1, FillType
<1>4. CASE DOMAIN hcs.f = {} \/ LowCardCollision(LcStep(l, r), ts) \/ HighCardCollision(hcs, bk1, ts)
  <2>1. /\ res.buckets = buckets /\ res.step.f = {} /\ res.step.h = {} /\ res.step.T = ts
        /\ res.warns = {} /\ res.err \in {NoErr, "ManyToMany", "ImplicitManyToOne"}
    BY <1>4 DEF ExecBinaryArithmetic, StepResult
  <2>. QED  BY <1>1, <2>1 DEF ResultOK, OutStepOK, res
<1>5. CASE ~(DOMAIN hcs.f = {} \/ LowCardCollision(LcStep(l, r), ts) \/ HighCardCollision(hcs, bk1, ts))
  <2>. DEFINE FOut == {Out(<<"hc", i>>, OutputSeriesID(i + 1, bk1[HcSig(i)].sid + 1), EmitValue(FRes(i))) :
                         i \in {i \in fMatched : Emitted(FRes(i))}}
              HOut == {Out(<<"hc", i>>, OutputSeriesID(i + 1, bk1[HcSig(i)].sid + 1), HRes(i).h) :
                         i \in hMatched}
  <2>1. res = StepResult(MarkHighCard(hcs, bk1, ts), ts, FOut, HOut, NoErr,
               ({FRes(i).err : i \in fMatched} \cup {HRes(i).err : i \in hMatched}) \ {NoErr})
    BY <1>5 DEF ExecBinaryArithmetic, FOut, HOut
  <2>9. res.step.f = FOut /\ res.step.h = HOut
    BY <1>5, Zenon DEF ExecBinaryArithmetic, StepResult, FOut, HOut
  <2>2. res.buckets \in [SigSpace -> Bucket]
    <3>1. MarkHighCard(hcs, bk1, ts) \in [SigSpace -> Bucket]
      BY <1>1, <1>3, MarkType
    <3>. QED  BY <2>1, <3>1 DEF StepResult
  <2>3. ASSUME NEW o \in res.step.f \cup res.step.h
        PROVE  OutSampleOK(o)
    <3>1. CASE o \in res.step.f
      <4>1. PICK i \in fMatched : o = Out(<<"hc", i>>, OutputSeriesID(i + 1, bk1[HcSig(i)].sid + 1), EmitValue(FRes(i)))
        BY <2>9, <3>1 DEF FOut
      <4>. QED  BY <4>1, <1>2, OutOK DEF fMatched
    <3>2. CASE o \in res.step.h
      <4>1. PICK i \in hMatched : o = Out(<<"hc", i>>, OutputSeriesID(i + 1, bk1[HcSig(i)].sid + 1), HRes(i).h)
        BY <2>9, <3>2 DEF HOut
      <4>. QED  BY <4>1, <1>2, OutOK DEF hMatched
    <3>. QED  BY <3>1, <3>2
  <2>4. res.warns \subseteq Annotations
    <3>1. ASSUME NEW i
          PROVE  FRes(i).err \in {NoErr} \cup Annotations /\ HRes(i).err \in {NoErr} \cup Annotations
      BY PairingErr DEF FRes, HRes
    <3>. QED  BY <2>1, <3>1 DEF StepResult
  <2>5. res.err = NoErr /\ res.step.T \in Int
    BY <1>1, <2>1 DEF StepResult
  <2>6. ResultOK(res)
    BY <2>2, <2>3, <2>4, <2>5 DEF ResultOK, OutStepOK
  <2>. QED  BY <2>6 DEF res
<1>. QED  BY <1>4, <1>5

\* execBinaryOperation returns well-typed buckets, samples and warnings.
LEMMA ExecType ==
  ASSUME NEW l \in StepT(Nat), NEW r \in StepT(Nat), buckets \in [SigSpace -> Bucket]
  PROVE  ResultOK(ExecBinaryOperation(l, r))
BY AndType, OrType, UnlessType, ArithType DEF ExecBinaryOperation

(***************************************************************************)
(* Batches.                                                                 *)
(***************************************************************************)
\* A function on 1..n is a sequence of length n, and Append extends it.
LEMMA AppendBatch ==
  ASSUME NEW b, NEW n \in Nat, b = [p \in 1 .. n |-> b[p]], NEW e
  PROVE  /\ Len(b) = n
         /\ DOMAIN Append(b, e) = 1 .. n + 1
         /\ \A p \in 1 .. n : Append(b, e)[p] = b[p]
         /\ Append(b, e)[n + 1] = e
         /\ Append(b, e) = [p \in 1 .. n + 1 |-> Append(b, e)[p]]
<1>. DEFINE S == {b[p] : p \in 1 .. n} \cup {e}
<1>1. b \in Seq(S)
  <2>1. b \in [1 .. n -> S]
    BY Zenon
  <2>. QED  BY <2>1, SeqDef
<1>2. Len(b) = n
  BY <1>1, LenProperties
<1>3. Append(b, e) \in Seq(S) /\ Len(Append(b, e)) = n + 1
  BY <1>1, <1>2, AppendProperties
<1>4. Append(b, e) \in [1 .. n + 1 -> S]
  BY <1>3, LenProperties
<1>. QED  BY <1>1, <1>2, <1>3, <1>4, AppendProperties, LenProperties

LEMMA SampleSetsMono ==
  ASSUME NEW ids, NEW ids2, ids \subseteq ids2, NEW vals, NEW vals2, vals \subseteq vals2
  PROVE  SampleSets(ids, vals) \subseteq SampleSets(ids2, vals2)
BY DEF SampleSets

\* A batch a child returns: BatchLen(c) steps of the range from c on.
LEMMA BatchesType ==
  ASSUME NEW side, NEW ids, NEW c \in Nat, c < Len(Timestamps),
         NEW b \in Batches(side, ids, c)
  PROVE  /\ b \in Seq(StepT(ids))
         /\ Len(b) = BatchLen(c)
         /\ Len(b) <= StepsBatch
         /\ c + Len(b) <= Len(Timestamps)
<1>. DEFINE n == BatchLen(c)
<1>1. n \in 1 .. StepsBatch /\ c + n <= Len(Timestamps)
  BY StepAssumption DEF BatchLen
<1>2. PICK s \in [1 .. n -> StepSamples(side, ids)] :
        b = [p \in 1 .. n |-> [T |-> Timestamps[c + p], f |-> s[p].f, h |-> s[p].h]]
  BY DEF Batches
<1>3. SampleSets(ids, SideHistVals(side)) \subseteq SampleSets(ids, HistVals)
  BY SampleSetsMono DEF SideHistVals
<1>4. b \in [1 .. n -> StepT(ids)]
  <2>1. ASSUME NEW p \in 1 .. n
        PROVE  Timestamps[c + p] \in Int
    BY <1>1, StepAssumption, ElementOfSeq
  <2>. QED  BY <1>2, <1>3, <2>1 DEF StepSamples, StepT
<1>5. b \in Seq(StepT(ids))
  BY <1>1, <1>4, SeqDef
<1>. QED  BY <1>1, <1>4, <1>5, LenProperties

(***************************************************************************)
(* Type correctness.  TypeOK alone is not inductive: Append in ExecStep    *)
(* keeps outB within StepsBatch steps only because outB holds one step per *)
(* step already executed (Len(outB) = k - 1) and the batch itself has at   *)
(* most StepsBatch steps; ReturnBatch keeps cursor within the range only   *)
(* because the batch pulled at cursor fits in what is left of it.          *)
(***************************************************************************)
IInv ==
  /\ TypeOK
  /\ Len(inL) <= StepsBatch
  /\ pc = "Exec" => /\ Len(outB) = k - 1
                    /\ cursor + Len(inL) <= Len(Timestamps)

LEMMA EmptyBatchOK == OutBatchOK(<<>>)
<1>1. <<>> = [p \in 1 .. 0 |-> <<>>[p]] /\ DOMAIN <<>> = {}
  OBVIOUS
<1>2. 0 \in 0 .. StepsBatch
  BY StepAssumption
<1>. QED  BY <1>1, <1>2 DEF OutBatchOK

LEMMA InitIInv == Init => IInv
<1>. SUFFICES ASSUME Init PROVE IInv
  OBVIOUS
<1>1. OutBatchOK(<<>>)
  BY EmptyBatchOK
<1>2. [g \in SigSpace |-> NewBucket] \in [SigSpace -> Bucket]
  BY DEF NewBucket, Bucket, NilHist
<1>3. <<>> \in Seq(StepT(LhsIds)) /\ <<>> \in Seq(StepT(RhsIds))
  BY EmptySeq
<1>. QED  BY <1>1, <1>2, <1>3, StepAssumption, EmptySeq
          DEF Init, IInv, TypeOK, StepT

LEMMA NextIInv == IInv /\ [Next]_vars => IInv'
<1>. SUFFICES ASSUME IInv, [Next]_vars PROVE IInv'
  OBVIOUS
<1>0. /\ Len(Timestamps) \in Nat /\ cursor \in Nat /\ Len(inL) \in Nat
      /\ StepT(LhsIds) \subseteq StepT(Nat) /\ StepT(RhsIds) \subseteq StepT(Nat)
  <2>1. Len(Timestamps) \in Nat /\ Len(inL) \in Nat
    BY StepAssumption, LenProperties DEF IInv, TypeOK
  <2>2. cursor \in Nat
    BY <2>1 DEF IInv, TypeOK
  <2>3. /\ SampleSets(LhsIds, FloatVals) \subseteq SampleSets(Nat, FloatVals)
        /\ SampleSets(LhsIds, HistVals) \subseteq SampleSets(Nat, HistVals)
        /\ SampleSets(RhsIds, FloatVals) \subseteq SampleSets(Nat, FloatVals)
        /\ SampleSets(RhsIds, HistVals) \subseteq SampleSets(Nat, HistVals)
    BY IdsNat, SampleSetsMono
  <2>. QED  BY <2>1, <2>2, <2>3 DEF StepT
<1>1. CASE PullBatch
  <2>1. PICK bl \in Batches("lhs", LhsIds, cursor), br \in Batches("rhs", RhsIds, cursor) :
          inL' = bl /\ inR' = br
    BY <1>1 DEF PullBatch
  <2>2. cursor < Len(Timestamps)
    BY <1>1 DEF PullBatch
  <2>3. /\ bl \in Seq(StepT(LhsIds)) /\ Len(bl) = BatchLen(cursor) /\ Len(bl) <= StepsBatch
        /\ cursor + Len(bl) <= Len(Timestamps)
        /\ br \in Seq(StepT(RhsIds)) /\ Len(br) = BatchLen(cursor)
    BY <1>0, <2>2, BatchesType
  <2>4. Len(bl) \in Nat
    BY <2>3, LenProperties
  <2>. QED  BY <1>1, <2>1, <2>3, <2>4, EmptyBatchOK, EmptySeq DEF PullBatch, IInv, TypeOK, StepT
<1>2. CASE ChildFails
  BY <1>2 DEF ChildFails, IInv, TypeOK
<1>3. CASE EndOfStream
  BY <1>3 DEF EndOfStream, IInv, TypeOK
<1>4. CASE ExecStep
  <2>. DEFINE res == ExecBinaryOperation(inL[k], inR[k])
  <2>1. k \in 1 .. Len(inL) /\ pc = "Exec"
    BY <1>4 DEF ExecStep, IInv, TypeOK
  <2>2. inL[k] \in StepT(Nat) /\ inR[k] \in StepT(Nat)
    BY <1>0, <2>1, ElementOfSeq DEF IInv, TypeOK, StepT
  <2>3. ResultOK(res)
    BY <2>2, ExecType DEF IInv, TypeOK
  <2>4. /\ buckets' = res.buckets /\ outB' = Append(outB, res.step)
        /\ warnings' = warnings \cup res.warns /\ k' = k + 1
        /\ UNCHANGED <<cursor, pc, inL, inR, returned, err>>
    BY <1>4 DEF ExecStep
  <2>5. PICK n \in 0 .. StepsBatch : outB = [p \in 1 .. n |-> outB[p]]
    BY DEF IInv, TypeOK, OutBatchOK
  <2>6. /\ Len(outB) = n
        /\ DOMAIN outB' = 1 .. n + 1
        /\ \A p \in 1 .. n : outB'[p] = outB[p]
        /\ outB'[n + 1] = res.step
        /\ outB' = [p \in 1 .. n + 1 |-> outB'[p]]
    BY <2>4, <2>5, AppendBatch
  <2>7. n + 1 = k /\ n + 1 \in 0 .. StepsBatch
    <3>1. Len(outB) = k - 1
      BY <2>1 DEF IInv
    <3>2. k <= Len(inL) /\ Len(inL) <= StepsBatch
      BY <2>1 DEF IInv
    <3>3. n \in Nat /\ StepsBatch \in Nat
      BY <2>5, StepAssumption
    <3>. QED  BY <3>1, <3>2, <3>3, <2>1, <2>6, <1>0
  <2>8. OutBatchOK(outB')
    <3>1. \A p \in DOMAIN outB' : /\ outB'[p].T \in Int
                                 /\ \A o \in outB'[p].f \cup outB'[p].h : OutSampleOK(o)
      BY <2>3, <2>5, <2>6 DEF IInv, TypeOK, OutBatchOK, ResultOK, OutStepOK
    <3>. QED  BY <2>6, <2>7, <3>1 DEF OutBatchOK
  <2>9. TypeOK'
    <3>1. buckets' \in [SigSpace -> Bucket] /\ warnings' \subseteq Annotations
      BY <2>1, <2>3, <2>4 DEF IInv, TypeOK, ResultOK
    <3>2. /\ cursor' \in 0 .. Len(Timestamps)
          /\ pc' \in {"Idle", "Exec", "Done"}
          /\ inL' = inL /\ inR' = inR /\ err' = err /\ returned' = returned
      BY <2>1, <2>4 DEF IInv, TypeOK
    <3>3. k' \in 1 .. Len(inL') + 1
      BY <2>1, <2>4 DEF IInv, TypeOK
    <3>. QED  BY <2>1, <2>8, <3>1, <3>2, <3>3 DEF IInv, TypeOK
  <2>. QED  BY <2>1, <2>4, <2>6, <2>7, <2>9 DEF IInv
<1>5. CASE ExecStepFails
  <2>1. k \in 1 .. Len(inL)
    BY <1>5 DEF ExecStepFails, IInv, TypeOK
  <2>2. inL[k] \in StepT(Nat) /\ inR[k] \in StepT(Nat)
    BY <1>0, <2>1, ElementOfSeq DEF IInv, TypeOK, StepT
  <2>3. ResultOK(ExecBinaryOperation(inL[k], inR[k]))
    BY <2>2, ExecType DEF IInv, TypeOK
  <2>. QED  BY <1>5, <2>3 DEF ExecStepFails, IInv, TypeOK, ResultOK
<1>6. CASE ReturnBatch
  BY <1>6 DEF ReturnBatch, IInv, TypeOK
<1>7. CASE UNCHANGED vars
  BY <1>7 DEF vars, IInv, TypeOK, OutBatchOK
<1>. QED  BY <1>1, <1>2, <1>3, <1>4, <1>5, <1>6, <1>7 DEF Next

\* Every state of the operator is well typed: the join buckets hold
\* timestamps, series ids and child values, the output batch Next builds and
\* the batch it returns have at most StepsBatch steps whose samples carry
\* numbered sources and the natural-number ids outputSeriesID loads, the
\* cursor stays within the query range, and only the two annotations of
\* vectorElemBinop are ever added to the warnings.
THEOREM TypeCorrect == Spec => []TypeOK
<1>1. Init => IInv
  BY InitIInv
<1>2. IInv /\ [Next]_vars => IInv'
  BY NextIInv
<1>3. IInv => TypeOK
  BY DEF IInv
<1>. QED  BY <1>1, <1>2, <1>3, PTL DEF Spec

=============================================================================
