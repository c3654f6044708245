-------------------------- MODULE DuplicateLabelCheck --------------------------
(***************************************************************************)
(* The duplicate-label check (execution/exchange/duplicate_label_check.go): *)
(* a wrapper that forwards its child's batches and fails with              *)
(* DuplicateLabelSet when two series with the same label-set hash have a   *)
(* sample in the same step.  On the first call init pairs every series     *)
(* whose hash was seen before with the first series of that hash; each     *)
(* Next clears the masks of the paired series, ORs 2 << i into the mask of *)
(* every series present at batch position i, and fails if the two masks of *)
(* a pair intersect.                                                       *)
(*                                                                         *)
(* A uint64 mask is the set of its one bits, a subset of 0 .. Width - 1:   *)
(* OR is union, AND > 0 is a non-empty intersection, and 2 << i is bit     *)
(* i + 1, or no bit at all once i + 1 reaches the word width.  A batch is  *)
(* BatchLen step vectors; the child only fills the positions in Pos, the   *)
(* others are empty, so long batches stay small to enumerate.            *)
(***************************************************************************)
EXTENDS Integers, FiniteSets

CONSTANTS
  Series,      \* next.Series(): series id -> label set
  Hash,        \* labels.Hash: label set -> hash
  Width,       \* bits in a mask word (uint64)
  BatchLen,    \* step vectors per batch
  Pos,         \* the batch positions the child may fill
  MaxBatches   \* batches the child returns before it is exhausted

Ids == DOMAIN Series

ASSUME SeriesAssumption ==
  /\ IsFiniteSet(Ids) /\ Ids \subseteq Nat
  /\ Hash \in [{Series[i] : i \in Ids} -> Nat]

ASSUME BatchAssumption ==
  /\ Width \in Nat \ {0}
  /\ BatchLen \in Nat \ {0}
  /\ Pos \subseteq 0 .. BatchLen - 1
  /\ MaxBatches \in Nat

VARIABLES
  pairs,      \* d.p: the colliding pairs init recorded, or {} before init
  c,          \* d.c: series id -> mask (set of one bits)
  inited,     \* whether once.Do has run
  pulled,     \* batches the child has returned
  lastIn,     \* the last batch the child returned: position -> series ids
  forwarded,  \* batches Next returned
  pc,         \* "Idle" or "Done"
  err         \* the error Next returned, or "none"

vars == <<pairs, c, inited, pulled, lastIn, forwarded, pc, err>>

SameHash(i, j) == Hash[Series[i]] = Hash[Series[j]]

\* init: m maps a hash to the first series index that has it; every later
\* series with that hash is paired with it.
FirstOwner(i) == CHOOSE j \in Ids : SameHash(i, j) /\ \A j2 \in Ids : SameHash(i, j2) => j <= j2

InitPairs == {<<i, FirstOwner(i)>> : i \in {i \in Ids : FirstOwner(i) # i}}

\* 2 << i as a uint64: bit i + 1, shifted out of the word at the top.
ShiftBit(i) == IF i + 1 < Width THEN {i + 1} ELSE {}

\* Variants of MaskAfter: one never clears the masks between batches, one
\* clears the paired masks after setting the bits instead of before.
MaskAfterNoReset(m, ps, batch) ==
  [i \in Ids |-> m[i] \cup UNION {ShiftBit(p) : p \in {p \in Pos : i \in batch[p]}}]

MaskAfterResetLast(m, ps, batch) ==
  LET members == {q[1] : q \in ps} \cup {q[2] : q \in ps}
  IN  [i \in Ids |-> IF i \in members THEN {}
                     ELSE m[i] \cup UNION {ShiftBit(p) : p \in {p \in Pos : i \in batch[p]}}]

\* The masks after one batch: paired series are cleared first, then every
\* series ORs in the bit of each position it is present at.
MaskAfter(m, ps, batch) ==
  LET members == {q[1] : q \in ps} \cup {q[2] : q \in ps}
  IN  [i \in Ids |-> (IF i \in members THEN {} ELSE m[i])
                     \cup UNION {ShiftBit(p) : p \in {p \in Pos : i \in batch[p]}}]

Collides(m, ps) == \E q \in ps : m[q[1]] \cap m[q[2]] # {}

Init ==
  /\ pairs = {}
  /\ c = [i \in Ids |-> {}]
  /\ inited = FALSE
  /\ pulled = 0
  /\ lastIn = [p \in Pos |-> {}]
  /\ forwarded = 0
  /\ pc = "Idle"
  /\ err = "none"

\* The context is done at entry.
Cancel ==
  /\ pc = "Idle"
  /\ pc' = "Done"
  /\ err' = "Canceled"
  /\ UNCHANGED <<pairs, c, inited, pulled, lastIn, forwarded>>

\* init runs (once) and next.Series fails.
SeriesFails ==
  /\ pc = "Idle"
  /\ ~inited
  /\ inited' = TRUE
  /\ pc' = "Done"
  /\ err' = "SeriesError"
  /\ UNCHANGED <<pairs, c, pulled, lastIn, forwarded>>

\* The pairs and masks after init, if it has not run yet.
PairsNow == IF inited THEN pairs ELSE InitPairs
MasksNow == IF inited THEN c ELSE [i \in Ids |-> {}]

\* Series(): init succeeds or has run, and the child's series are returned.
SeriesCall ==
  /\ pc = "Idle"
  /\ inited' = TRUE
  /\ pairs' = PairsNow
  /\ c' = MasksNow
  /\ UNCHANGED <<pulled, lastIn, forwarded, pc, err>>

\* init succeeds or has run, then next.Next fails.
ChildFails ==
  /\ pc = "Idle"
  /\ inited' = TRUE
  /\ pairs' = PairsNow
  /\ c' = MasksNow
  /\ pc' = "Done"
  /\ err' = "ChildError"
  /\ UNCHANGED <<pulled, lastIn, forwarded>>

\* init succeeds or has run, and the child is exhausted (in == nil).
EndOfStream ==
  /\ pc = "Idle"
  /\ pulled = MaxBatches
  /\ inited' = TRUE
  /\ pairs' = PairsNow
  /\ c' = MasksNow
  /\ pc' = "Done"
  /\ UNCHANGED <<pulled, lastIn, forwarded, err>>

\* init succeeds or has run, the child returns a batch, the masks are
\* updated when there are pairs, and the batch is forwarded unless a pair
\* collides.
NextBatch ==
  /\ pc = "Idle"
  /\ pulled < MaxBatches
  /\ \E batch \in [Pos -> SUBSET Ids] :
       LET ps == PairsNow
           m  == IF ps # {} THEN MaskAfter(MasksNow, ps, batch) ELSE MasksNow
       IN  /\ inited' = TRUE
           /\ pairs' = ps
           /\ c' = m
           /\ lastIn' = batch
           /\ pulled' = pulled + 1
           /\ IF ps # {} /\ Collides(m, ps)
                THEN /\ pc' = "Done"
                     /\ err' = "DuplicateLabelSet"
                     /\ UNCHANGED forwarded
                ELSE /\ forwarded' = forwarded + 1
                     /\ UNCHANGED <<pc, err>>

Next ==
  \/ Cancel
  \/ SeriesFails
  \/ SeriesCall
  \/ ChildFails
  \/ EndOfStream
  \/ NextBatch

Spec == Init /\ [][Next]_vars

(***************************************************************************)
(* Properties.                                                             *)
(***************************************************************************)
\* The type invariant of the operator's state.
TypeOK ==
  /\ pairs \subseteq Ids \X Ids
  /\ c \in [Ids -> SUBSET (0 .. Width - 1)]
  /\ inited \in BOOLEAN
  /\ pulled \in 0 .. MaxBatches
  /\ lastIn \in [Pos -> SUBSET Ids]
  /\ forwarded \in 0 .. pulled
  /\ pc \in {"Idle", "Done"}
  /\ err \in {"none", "Canceled", "SeriesError", "ChildError", "DuplicateLabelSet"}

\* Spec section 8 and scenario 2: no two series with the same label-set hash
\* are both forwarded at one step vector of a batch; the pair table and the
\* per-position mask bits of Next must catch every such step.
NoDuplicateInStep ==
  \A p \in Pos : \A i, j \in lastIn[p] :
    (i # j /\ SameHash(i, j)) => err = "DuplicateLabelSet"

\* Spec section 8: Next fails with DuplicateLabelSet only when two series of
\* one hash are present at the same step of the batch it pulled; masks left
\* over from earlier batches must not raise it.
NoFalseAlarm ==
  err = "DuplicateLabelSet" =>
    \E p \in Pos : \E i, j \in lastIn[p] : i # j /\ SameHash(i, j)

=============================================================================
