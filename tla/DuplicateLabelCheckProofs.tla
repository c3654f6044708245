----------------------- MODULE DuplicateLabelCheckProofs -----------------------
(***************************************************************************)
(* Proofs about DuplicateLabelCheck for every series table, hash function, *)
(* word width, batch length and positions satisfying its assumptions.      *)
(***************************************************************************)
EXTENDS DuplicateLabelCheck, WellFoundedInduction, TLAPS

\* init's map m keeps the first index of each hash: the index FirstOwner
\* chooses exists, is a series of the same hash, and is the least one.
LEMMA FirstOwnerSpec ==
  ASSUME NEW i \in Ids
  PROVE  /\ FirstOwner(i) \in Ids
         /\ SameHash(i, FirstOwner(i))
         /\ \A j \in Ids : SameHash(i, j) => FirstOwner(i) <= j
<1>. DEFINE T == {j \in Ids : SameHash(i, j)}
<1>1. T \subseteq Nat /\ T # {}
  BY SeriesAssumption DEF SameHash
<1>2. PICK x \in T : \A y \in T : ~(<<y, x>> \in OpToRel(<, Nat))
  BY <1>1, NatLessThanWellFounded, WFMin
<1>3. \A y \in T : x <= y
  <2>. SUFFICES ASSUME NEW y \in T PROVE x <= y
    OBVIOUS
  <2>1. y \in Nat /\ x \in Nat
    BY <1>1
  <2>2. y < x => <<y, x>> \in OpToRel(<, Nat)
    BY <2>1 DEF OpToRel
  <2>3. ~(<<y, x>> \in OpToRel(<, Nat))
    BY <1>2
  <2>4. ~(y < x)
    BY <2>2, <2>3
  <2>. QED  BY <2>1, <2>4
<1>4. x \in Ids /\ SameHash(i, x) /\ \A j \in Ids : SameHash(i, j) => x <= j
  BY <1>3
<1>. QED  BY <1>4 DEF FirstOwner

\* Every pair init records is two distinct series of one hash.
LEMMA InitPairsSameHash ==
  ASSUME NEW q \in InitPairs
  PROVE  /\ q[1] \in Ids /\ q[2] \in Ids
         /\ q[1] # q[2] /\ SameHash(q[1], q[2])
BY FirstOwnerSpec DEF InitPairs

\* 2 << i: two positions that give a common bit are the same position.
LEMMA ShiftBitInjective ==
  ASSUME NEW p1 \in Nat, NEW p2 \in Nat, NEW b \in ShiftBit(p1), b \in ShiftBit(p2)
  PROVE  p1 = p2
BY DEF ShiftBit

(***************************************************************************)
(* No false alarm.  NoFalseAlarm is inductive once the pair table is known *)
(* to hold only pairs init can record: after Next fails the operator is    *)
(* Done and lastIn no longer changes, and at the step that fails, the      *)
(* masks of a pair's two series were cleared before the batch's bits were  *)
(* set, so their common bit comes from one batch position both are at.     *)
(***************************************************************************)
AlarmInv ==
  /\ pairs \subseteq InitPairs
  /\ err = "DuplicateLabelSet" => pc = "Done"
  /\ NoFalseAlarm

\* The bits a batch sets in the mask of series i.
BatchBits(i, batch) == UNION {ShiftBit(p) : p \in {p \in Pos : i \in batch[p]}}

\* The masks of a paired series after a batch hold only that batch's bits.
LEMMA MaskOfMember ==
  ASSUME NEW m, NEW ps \in SUBSET InitPairs, NEW batch, NEW q \in ps
  PROVE  /\ MaskAfter(m, ps, batch)[q[1]] = BatchBits(q[1], batch)
         /\ MaskAfter(m, ps, batch)[q[2]] = BatchBits(q[2], batch)
<1>1. q[1] \in Ids /\ q[2] \in Ids
  BY InitPairsSameHash
<1>2. q[1] \in {r[1] : r \in ps} \cup {r[2] : r \in ps}
  OBVIOUS
<1>3. q[2] \in {r[1] : r \in ps} \cup {r[2] : r \in ps}
  OBVIOUS
<1>. QED  BY <1>1, <1>2, <1>3 DEF MaskAfter, BatchBits

\* A collision after a batch is a step where two series of one hash are
\* both present.
LEMMA CollisionIsDuplicate ==
  ASSUME NEW m, NEW ps \in SUBSET InitPairs, NEW batch,
         Collides(MaskAfter(m, ps, batch), ps)
  PROVE  \E p \in Pos : \E i, j \in batch[p] : i # j /\ SameHash(i, j)
<1>1. PICK q \in ps : MaskAfter(m, ps, batch)[q[1]] \cap MaskAfter(m, ps, batch)[q[2]] # {}
  BY DEF Collides
<1>2. PICK b : b \in MaskAfter(m, ps, batch)[q[1]] /\ b \in MaskAfter(m, ps, batch)[q[2]]
  BY <1>1
<1>3. PICK p1 \in Pos : q[1] \in batch[p1] /\ b \in ShiftBit(p1)
  <2>1. b \in BatchBits(q[1], batch)
    BY <1>2, MaskOfMember
  <2>. QED  BY <2>1 DEF BatchBits
<1>4. PICK p2 \in Pos : q[2] \in batch[p2] /\ b \in ShiftBit(p2)
  <2>1. b \in BatchBits(q[2], batch)
    BY <1>2, MaskOfMember
  <2>. QED  BY <2>1 DEF BatchBits
<1>5. p1 = p2
  BY <1>3, <1>4, ShiftBitInjective, BatchAssumption
<1>6. q[1] # q[2] /\ SameHash(q[1], q[2])
  BY InitPairsSameHash
<1>. QED  BY <1>3, <1>4, <1>5, <1>6

LEMMA AlarmInvInit == Init => AlarmInv
BY DEF Init, AlarmInv, NoFalseAlarm

LEMMA AlarmInvStep == AlarmInv /\ [Next]_vars => AlarmInv'
<1>. SUFFICES ASSUME AlarmInv, [Next]_vars PROVE AlarmInv'
  OBVIOUS
<1>1. PairsNow \subseteq InitPairs
  BY DEF AlarmInv, PairsNow
<1>2. CASE Cancel \/ SeriesFails \/ ChildFails \/ EndOfStream \/ SeriesCall
  BY <1>1, <1>2 DEF AlarmInv, NoFalseAlarm, Cancel, SeriesFails, ChildFails, EndOfStream, SeriesCall
<1>3. CASE NextBatch
  <2>1. PICK batch \in [Pos -> SUBSET Ids] :
          LET ps == PairsNow
              m  == IF ps # {} THEN MaskAfter(MasksNow, ps, batch) ELSE MasksNow
          IN  /\ inited' = TRUE
              /\ pairs' = ps
              /\ c' = m
              /\ lastIn' = batch
              /\ pulled' = pulled + 1
              /\ IF ps # {} /\ Collides(m, ps)
                   THEN /\ pc' = "Done"
                        /\ err' = "DuplicateLabelSet"
                        /\ UNCHANGED forwarded
                   ELSE /\ forwarded' = forwarded + 1
                        /\ UNCHANGED <<pc, err>>
    BY <1>3 DEF NextBatch
  <2>2. pairs' \subseteq InitPairs
    BY <1>1, <2>1
  <2>3. CASE PairsNow # {} /\ Collides(MaskAfter(MasksNow, PairsNow, batch), PairsNow)
    <3>1. \E p \in Pos : \E i, j \in batch[p] : i # j /\ SameHash(i, j)
      BY <2>3, <1>1, CollisionIsDuplicate
    <3>. QED  BY <2>1, <2>2, <3>1 DEF AlarmInv, NoFalseAlarm
  <2>4. CASE ~(PairsNow # {} /\ Collides(MaskAfter(MasksNow, PairsNow, batch), PairsNow))
    <3>1. err' = err /\ pc' = pc /\ err # "DuplicateLabelSet"
      BY <2>1, <2>4, <1>3 DEF NextBatch, AlarmInv
    <3>. QED  BY <2>2, <3>1 DEF AlarmInv, NoFalseAlarm
  <2>. QED  BY <2>3, <2>4
<1>4. CASE UNCHANGED vars
  BY <1>4 DEF vars, AlarmInv, NoFalseAlarm
<1>. QED  BY <1>2, <1>3, <1>4 DEF Next
\* Spec section 8, for every set of series, hashes and batch shape: Next
\* returns DuplicateLabelSet only when the batch it pulled holds two distinct
\* series of one hash at one step.  This rests on init's pair table holding
\* only same-hash pairs (part_001:113-134) and on Next resetting the masks of
\* the paired series before it sets the bits of a batch (part_001:66-80).
THEOREM NoFalseAlarmHolds == Spec => []NoFalseAlarm
<1>1. Init => AlarmInv
  BY AlarmInvInit
<1>2. AlarmInv /\ [Next]_vars => AlarmInv'
  BY AlarmInvStep
<1>3. AlarmInv => NoFalseAlarm
  BY DEF AlarmInv
<1>. QED  BY <1>1, <1>2, <1>3, PTL DEF Spec
(***************************************************************************)
(* No duplicate in a step.  dlc_triple and dlc_wide_batch show that init's *)
(* pair table and the 2 << i mask miss duplicates when a hash has three    *)
(* series (the third is paired with the first only) or when a batch        *)
(* position shifts out of the word.  Without those two cases every         *)
(* duplicate is caught: the two conditions below are exactly what the      *)
(* proof needs, and dlc_pass is an instance of them.                       *)
(***************************************************************************)
\* No label-set hash is shared by more than two series.
AtMostTwoPerHash ==
  \A i, j, k \in Ids :
    SameHash(i, j) /\ SameHash(j, k) /\ SameHash(i, k) => i = j \/ j = k \/ i = k

\* Every batch position has its 2 << p bit inside the 64-bit word.
PositionsFitWord == \A p \in Pos : p + 1 < Width

\* With at most two series of a hash, init pairs the two of them.
LEMMA TwinsArePaired ==
  ASSUME AtMostTwoPerHash, NEW i \in Ids, NEW j \in Ids, i # j, SameHash(i, j)
  PROVE  <<i, j>> \in InitPairs \/ <<j, i>> \in InitPairs
<1>1. FirstOwner(i) = i \/ FirstOwner(i) = j
  <2>1. FirstOwner(i) \in Ids /\ SameHash(i, FirstOwner(i))
    BY FirstOwnerSpec
  <2>. QED  BY <2>1 DEF AtMostTwoPerHash, SameHash
<1>2. FirstOwner(j) = i \/ FirstOwner(j) = j
  <2>1. FirstOwner(j) \in Ids /\ SameHash(j, FirstOwner(j))
    BY FirstOwnerSpec
  <2>. QED  BY <2>1 DEF AtMostTwoPerHash, SameHash
<1>3. ~(FirstOwner(i) = i /\ FirstOwner(j) = j)
  <2>1. FirstOwner(i) <= j /\ FirstOwner(j) <= i
    BY FirstOwnerSpec DEF SameHash
  <2>2. i \in Nat /\ j \in Nat
    BY SeriesAssumption
  <2>. QED  BY <2>1, <2>2
<1>4. CASE FirstOwner(i) = j
  BY <1>4 DEF InitPairs
<1>5. CASE FirstOwner(j) = i
  BY <1>5 DEF InitPairs
<1>. QED  BY <1>1, <1>2, <1>3, <1>4, <1>5

\* Two series of one hash at one position collide after the batch.
LEMMA DuplicateCollides ==
  ASSUME AtMostTwoPerHash, PositionsFitWord, NEW m, NEW batch,
         NEW p \in Pos, NEW i \in batch[p], NEW j \in batch[p],
         i \in Ids, j \in Ids, i # j, SameHash(i, j)
  PROVE  Collides(MaskAfter(m, InitPairs, batch), InitPairs)
<1>1. PICK q \in InitPairs : {q[1], q[2]} = {i, j}
  BY TwinsArePaired
<1>2. p + 1 \in BatchBits(q[1], batch) /\ p + 1 \in BatchBits(q[2], batch)
  <2>1. q[1] \in batch[p] /\ q[2] \in batch[p]
    BY <1>1
  <2>2. ShiftBit(p) = {p + 1}
    BY DEF PositionsFitWord, ShiftBit
  <2>. QED  BY <2>1, <2>2 DEF BatchBits
<1>3. p + 1 \in MaskAfter(m, InitPairs, batch)[q[1]]
      /\ p + 1 \in MaskAfter(m, InitPairs, batch)[q[2]]
  BY <1>2, MaskOfMember
<1>. QED  BY <1>3 DEF Collides

DupInv ==
  /\ lastIn \in [Pos -> SUBSET Ids]
  /\ (inited /\ pc = "Idle") => pairs = InitPairs
  /\ err = "DuplicateLabelSet" => pc = "Done"
  /\ NoDuplicateInStep

LEMMA DupInvInit == Init => DupInv
BY DEF Init, DupInv, NoDuplicateInStep

LEMMA DupInvStep ==
  ASSUME AtMostTwoPerHash, PositionsFitWord
  PROVE  DupInv /\ [Next]_vars => DupInv'
<1>. SUFFICES ASSUME DupInv, [Next]_vars PROVE DupInv'
  OBVIOUS
<1>1. pc = "Idle" => PairsNow = InitPairs
  BY DEF DupInv, PairsNow
<1>2. CASE Cancel \/ SeriesFails \/ ChildFails \/ EndOfStream \/ SeriesCall
  BY <1>1, <1>2 DEF DupInv, NoDuplicateInStep, Cancel, SeriesFails, ChildFails, EndOfStream, SeriesCall
<1>3. CASE NextBatch
  <2>1. PICK batch \in [Pos -> SUBSET Ids] :
          LET ps == PairsNow
              m  == IF ps # {} THEN MaskAfter(MasksNow, ps, batch) ELSE MasksNow
          IN  /\ inited' = TRUE
              /\ pairs' = ps
              /\ c' = m
              /\ lastIn' = batch
              /\ pulled' = pulled + 1
              /\ IF ps # {} /\ Collides(m, ps)
                   THEN /\ pc' = "Done"
                        /\ err' = "DuplicateLabelSet"
                        /\ UNCHANGED forwarded
                   ELSE /\ forwarded' = forwarded + 1
                        /\ UNCHANGED <<pc, err>>
    BY <1>3 DEF NextBatch
  <2>2. PairsNow = InitPairs /\ pairs' = InitPairs
    BY <1>1, <1>3, <2>1 DEF NextBatch
  <2>3. CASE InitPairs # {} /\ Collides(MaskAfter(MasksNow, InitPairs, batch), InitPairs)
    BY <2>1, <2>2, <2>3 DEF DupInv, NoDuplicateInStep
  <2>4. CASE ~(InitPairs # {} /\ Collides(MaskAfter(MasksNow, InitPairs, batch), InitPairs))
    <3>1. pc' = "Idle" /\ err' = err /\ err # "DuplicateLabelSet" /\ lastIn' = batch
      BY <2>1, <2>2, <2>4, <1>3 DEF NextBatch, DupInv
    <3>2. NoDuplicateInStep'
      <4>. SUFFICES ASSUME NEW p \in Pos, NEW i \in batch[p], NEW j \in batch[p],
                           i # j, SameHash(i, j)
                    PROVE  FALSE
        BY <3>1 DEF NoDuplicateInStep
      <4>1. Collides(MaskAfter(MasksNow, InitPairs, batch), InitPairs)
        BY DuplicateCollides
      <4>2. InitPairs # {}
        BY TwinsArePaired
      <4>. QED  BY <2>4, <4>1, <4>2
    <3>. QED  BY <2>1, <2>2, <3>1, <3>2 DEF DupInv
  <2>. QED  BY <2>3, <2>4
<1>4. CASE UNCHANGED vars
  BY <1>4 DEF vars, DupInv, NoDuplicateInStep
<1>. QED  BY <1>2, <1>3, <1>4 DEF Next

\* Spec section 8 and scenario 2, for every series table, hash function and
\* batch shape in which no hash has three series and no batch position
\* shifts out of the mask word: Next never forwards a batch with two series
\* of one hash at one step.  Init's pair table (part_001:113-134) then pairs
\* every duplicate, and Next's 2 << i bits (part_001:66-80) make both
\* members of the pair share the bit of that step.
THEOREM NoDuplicateWhenPaired ==
  ASSUME AtMostTwoPerHash, PositionsFitWord
  PROVE  Spec => []NoDuplicateInStep
<1>1. Init => DupInv
  BY DupInvInit
<1>2. DupInv /\ [Next]_vars => DupInv'
  BY DupInvStep
<1>3. DupInv => NoDuplicateInStep
  BY DEF DupInv
<1>. QED  BY <1>1, <1>2, <1>3, PTL DEF Spec
====
