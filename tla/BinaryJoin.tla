------------------------------ MODULE BinaryJoin ------------------------------
(***************************************************************************)
(* What the vector-vector binary operator promises (spec sections 4.6 and  *)
(* 8), stated without join buckets: each Next pulls a batch from both      *)
(* children and returns, step by step, the PromQL join of the two step     *)
(* vectors, or fails with the matching error of the first step that has    *)
(* one.  Output samples carry the label set of their output series.        *)
(***************************************************************************)
EXTENDS BinaryJoinTables

VARIABLES
  cursor,    \* number of evaluation steps already returned
  phase,     \* "Idle", "Pulled" (children answered) or "Done"
  input,     \* <<lhs batch, rhs batch>> of the current Next
  returned,  \* the batch the last Next returned, samples labelled
  err        \* the error the operator returned, or NoErr

vars == <<cursor, phase, input, returned, err>>

LhsIds == DOMAIN LhsSeries
RhsIds == DOMAIN RhsSeries

Present(sv) == DOMAIN sv.f \cup DOMAIN sv.h
FloatOf(sv, i) == IF i \in DOMAIN sv.f THEN sv.f[i] ELSE 0
HistOf(sv, i)  == IF i \in DOMAIN sv.h THEN sv.h[i] ELSE NilHist

BoolResult(res) == IF ReturnBool THEN IF res.keep THEN 1 ELSE 0 ELSE res.f

\* The join of one lhs step with the rhs step of the same timestamp.
JoinStep(l, r) ==
  LET hcs == IF Card = "CardOneToMany" THEN r ELSE l
      lcs == IF Card = "CardOneToMany" THEN l ELSE r
      Partners(i) == {j \in Present(lcs) : LcSig(j) = HcSig(i)}
      FloatPartners(i) == {j \in DOMAIN r.f : LcSig(j) = HcSig(i)}
      matched == {i \in Present(hcs) : Partners(i) # {}}
      Partner(i) == CHOOSE j \in Partners(i) : TRUE
      Res(i) == ComputeBinaryPairing(FloatOf(hcs, i), FloatOf(lcs, Partner(i)),
                                     HistOf(hcs, i), HistOf(lcs, Partner(i)))
      FloatPair(i) == i \in DOMAIN hcs.f /\ Partner(i) \in DOMAIN lcs.f
      Out(i, ls, v) == [src |-> i, ls |-> ls, v |-> v]
      ManyToMany == \E j1, j2 \in Present(lcs) : j1 # j2 /\ LcSig(j1) = LcSig(j2)
      ImplicitManyToOne ==
        /\ Card = "CardOneToOne"
        /\ \E i1, i2 \in matched : i1 # i2 /\ HcSig(i1) = HcSig(i2)
  IN
  CASE OpType = "LAND" ->
         [err |-> NoErr, h |-> {},
          f |-> {Out(<<"hc", i>>, HighCardSide[i], l.f[i]) :
                   i \in {i \in DOMAIN l.f : FloatPartners(i) # {}}}]
    [] OpType = "LUNLESS" ->
         [err |-> NoErr, h |-> {},
          f |-> {Out(<<"hc", i>>, HighCardSide[i], l.f[i]) :
                   i \in {i \in DOMAIN l.f : FloatPartners(i) = {}}}]
    [] OpType = "LOR" ->
         [err |-> NoErr, h |-> {},
          f |-> {Out(<<"hc", i>>, HighCardSide[i], l.f[i]) : i \in DOMAIN l.f}
                \cup {Out(<<"lc", j>>, LowCardSide[j], r.f[j]) :
                        j \in {j \in DOMAIN r.f : \A i \in DOMAIN l.f : HcSig(i) # LcSig(j)}}]
    [] Present(hcs) = {} -> [err |-> NoErr, f |-> {}, h |-> {}]
    [] ManyToMany        -> [err |-> "ManyToMany", f |-> {}, h |-> {}]
    [] ImplicitManyToOne -> [err |-> "ImplicitManyToOne", f |-> {}, h |-> {}]
    [] OTHER ->
         [err |-> NoErr,
          f |-> {Out(<<"hc", i>>, ResultMetric(HighCardSide[i], LowCardSide[Partner(i)]), BoolResult(Res(i))) :
                   i \in {i \in matched : FloatPair(i) /\ (ReturnBool \/ Res(i).keep)}},
          h |-> {Out(<<"hc", i>>, ResultMetric(HighCardSide[i], LowCardSide[Partner(i)]), Res(i).h) :
                   i \in {i \in matched : ~FloatPair(i) /\ Res(i).keep}}]

FirstFailure(bl, br) ==
  CHOOSE p \in DOMAIN bl :
    /\ JoinStep(bl[p], br[p]).err # NoErr
    /\ \A q \in 1 .. p - 1 : JoinStep(bl[q], br[q]).err = NoErr

Init ==
  /\ cursor = 0
  /\ phase = "Idle"
  /\ input = <<<<>>, <<>>>>
  /\ returned = <<>>
  /\ err = NoErr

\* Both children answer Next with the batch of the next steps.
Pull ==
  /\ phase = "Idle"
  /\ cursor < Len(Timestamps)
  /\ \E bl \in Batches("lhs", LhsIds, cursor), br \in Batches("rhs", RhsIds, cursor) :
       input' = <<bl, br>>
  /\ phase' = "Pulled"
  /\ UNCHANGED <<cursor, returned, err>>

Return ==
  /\ phase = "Pulled"
  /\ \A p \in DOMAIN input[1] : JoinStep(input[1][p], input[2][p]).err = NoErr
  /\ returned' = [p \in DOMAIN input[1] |->
                    [T |-> input[1][p].T,
                     f |-> JoinStep(input[1][p], input[2][p]).f,
                     h |-> JoinStep(input[1][p], input[2][p]).h]]
  /\ cursor' = cursor + Len(input[1])
  /\ phase' = "Idle"
  /\ UNCHANGED <<input, err>>

FailMatching ==
  /\ phase = "Pulled"
  /\ \E p \in DOMAIN input[1] : JoinStep(input[1][p], input[2][p]).err # NoErr
  /\ err' = JoinStep(input[1][FirstFailure(input[1], input[2])],
                     input[2][FirstFailure(input[1], input[2])]).err
  /\ phase' = "Done"
  /\ UNCHANGED <<cursor, input, returned>>

\* A cancelled context, a failing Series call or a failing child ends the
\* query.
Fail ==
  /\ phase = "Idle"
  /\ err' \in {"Canceled", "SeriesError", "LhsError", "RhsError"}
  /\ phase' = "Done"
  /\ UNCHANGED <<cursor, input, returned>>

EndOfStream ==
  /\ phase = "Idle"
  /\ cursor = Len(Timestamps)
  /\ phase' = "Done"
  /\ UNCHANGED <<cursor, input, returned, err>>

Next == Pull \/ Return \/ FailMatching \/ Fail \/ EndOfStream

Spec == Init /\ [][Next]_vars

=============================================================================
