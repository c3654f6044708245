# TLA+ models of the promql-engine execution core

This directory holds TLA+ models of operators of the engine's execution
core, the TLC configurations that check them, and TLAPS proofs. The
operators are:
- the vector-vector binary operator (`execution/binary/vector.go`, `src/unnamed/part_002`);
- the duplicate-label check (`execution/exchange/duplicate_label_check.go`,
  the first 136 lines of `src/unnamed/part_001`);
- the vector-scalar binary operator and the `scalar()` function
  (`src/execution/function/scalar.go`, which holds both files);
- `absent()` (`src/execution/function/absent.go`);
- the operator telemetry counters (`src/execution/telemetry/telemetry.go`).

## 1. The system and its parts

Every operator is a pull iterator. `Series()` returns the operator's output
label sets, and each `Next()` returns a batch of up to `StepsBatch` step
vectors. A step vector is one evaluation timestamp with the series ids and
values present at it. Operators are composed into a tree, and each parent
drives the `Next` of its children.

| Part | Source | Status |
|---|---|---|
| Binary vector-vector operator: init and join tables, `Next`, and/or/unless, arithmetic and comparisons, `vectorElemBinop`, `resultMetric`, output-series ids | `src/unnamed/part_002` (1-622) | modelled |
| Duplicate-label check: init pair table, `Series`, `Next` with masks | `src/unnamed/part_001` (1-136) | modelled |
| Instant-vector functions (`functions.go`) | `src/unnamed/part_001` (137-514) | not modelled yet |
| Scalar-vector operator and `scalar()` | `src/execution/function/scalar.go` | modelled |
| `absent` | `src/execution/function/absent.go` | modelled |
| Telemetry counters | `src/execution/telemetry/telemetry.go` | partly: the counters and their updates; not the per-step sample statistics |
| CI workflow | `src/unnamed/part_000` | not modelled: YAML, not program logic |

How the parts interact:
- The binary operator pulls both children in parallel. `lhs.Next` runs in a
  goroutine while `rhs.Next` runs inline.
- The duplicate check wraps any operator and forwards its batches.
- The vector-scalar operator pulls its vector child, then its scalar child
  (a `scalar()` over some selector), and pairs their batches step by
  step. Its vector child may itself be `absent(...)` or `scalar(...)`.
- A parent calls `Series` once and `Next` until nil or an error. Spec §5
  lets these calls overlap, and both may trigger the one-shot
  initialization.
- Pools are a side channel that changes no returned value. Each method's
  deferred telemetry call adds its duration to shared counters.

## 2. Modules

| Module | Role |
|---|---|
| `BinaryJoinTables` | The binary operator's constants, with named assumptions. The pure parts of the code: `signatureFunc`, `resultMetric`, the sides chosen by `init`, `initJoinTables` (the pairs stored in `outputMap`, `joinHelper.append` numbering, `cantorPairing`, `outputSeriesID`), `vectorElemBinop` and `computeBinaryPairing`. |
| `BinaryJoin` | Abstract specification of what the binary operator promises (spec §4.6 and §8). It has no buckets. Each Next returns, step by step, the PromQL join of the two children's step vectors, with output samples labelled by their output label set, or it fails with the matching error of the first failing step. |
| `VectorBinary` | The operator as it executes (details below). |
| `VectorBinaryProofs` | TLAPS proofs about `VectorBinary`. |
| `MCVectorBinary` | Series tables, timestamps and histogram values for TLC. |
| `MCJoinQueries` | Four queries of `VectorBinary` in one model (one-to-one subtraction and the three set operations), the query chosen at Init. |
| `DuplicateLabelCheck` | The duplicate-label check (details below). |
| `MCDuplicateLabelCheck` | Series tables and hash functions for TLC. |
| `DuplicateLabelCheckProofs` | TLAPS proofs that the check raises no false alarm, and that it catches every duplicate exactly when no hash has three series and every position's bit fits the word. |
| `ScalarFunction` | `scalar()`: `ScalarStep` and `ScalarNext` (scalar.go:52-84). |
| `Absent` | `absent()`: the label set `loadSeries` derives from the matchers (a recursive function over the matcher list) and `Next`. |
| `Telemetry` | `TrackedTelemetry`'s counters, with one operator per method that changes them. |
| `ScalarBinary` | The vector-scalar operator composed with its children and a parent of two goroutines (details below). |
| `MCScalarBinary` | Queries, series, matchers and step contents for TLC. |
| `ScalarBinaryProofs` | TLAPS proofs of `StepSemantics` and of the telemetry sum. |

### VectorBinary

The join buckets are shared by signature, so a bucket is named by its
signature. Buckets live for the whole query, as `o.lcJoinBuckets` and
`o.hcJoinBuckets` do. `Next` (part_002:111-169) is three kinds of step, with
`pc` giving the place in the function:
- `PullBatch`: both children answer.
- `ExecStep` or `ExecStepFails`: one iteration of the loop over the batch,
  i.e. one whole call of `execBinaryOperation`, including its early
  error returns.
- `ReturnBatch`: the batch is returned.
- `ChildFails` covers three error exits:
  - cancellation;
  - `initOnce` failing;
  - a child's Next failing, with the rhs error winning when both fail.
- `EndOfStream` is the nil return.

Each `ExecBinary*` operator reads the buckets and returns their new value,
the output step, an error and the warnings.

Data abstraction:
- Float values are uninterpreted terms. `<<"SUB", 1, 2>>` stands for `1 - 2`,
  and comparisons use integers.
- A histogram is a record of schema and value. `NilHist` is a nil `*FloatHistogram`.
- Label-set hashes are perfect: a signature *is* the label set it hashes.
- An output sample records the input sample it came from (`src`) and its
  output id.

The refinement mapping sends:
- `pc = "Exec"` to `phase = "Pulled"`;
- each returned sample to the label set `o.series[id]`.

So `JoinRefinement` checks the whole path from buckets, through
`cantorPairing` and `outputMap`, to the output label set.

### DuplicateLabelCheck

- `init` (part_001:113-136) is folded into the first `Series` or `Next`,
  as `sync.Once` does.
- A uint64 mask is the set of its one bits. `2 << i` is bit `i+1`, or no bit
  once `i+1` reaches `Width` (64).
- `NextBatch` is the whole of `Next`, from the call of the child to the
  forward or the `DuplicateLabelSet` error:
  - it resets the masks of paired series;
  - it sets the bits;
  - it tests the pairs.
- The child's batch is a function from the positions in `Pos` to sets of
  series ids.
- Each batch has its own timestamps, so a timestamp split across two
  batches (the TODO at part_001:62-65) is outside the model.

### ScalarBinary

The state is the operator's own (`once` for `seriesOnce`, `series`,
`tel`), the children's progress (`cursor`, `rawV`), and the parent's two
goroutines:
- `sPc` and `nPc` are the places in `Series` and `Next`;
- `sRes` and `nRes` are what the calls returned;
- `ended` records that the parent has seen nil or an error.

`sync.Once` is `"idle"`, `"running"` (the others block), `"ok"` or
`"failed"`. The actions follow the code in order:
- `SeriesCall` then `SeriesLoad` model `Series` (182-193).
- `NextCall` covers the context check, the vector child's Next, and its
  nil and error exits (199-215).
- `NextOnce` is `seriesOnce.Do` (216-219). It loads, fails, blocks, or
  finds the function already run, in which case `err` stays nil.
- `NextScalar` is the scalar child's Next and the loop (221-268).

Each deferred `Add*ExecutionTime` is two steps:
- a read of the counters (`*TelLoad`);
- a write of the two fields computed from the read (`*TelStore`).

Go's `+=` on a struct field is not atomic, which is why it is split.

`Concurrent` chooses whether the parent's two calls may overlap. With
`FALSE`, a call starts only when the other goroutine is between calls.

Data abstraction:
- A float is a natural number, NaN (the integer -1, which no sample
  carries), or a term `<<op, a, b>>`.
- A step vector is `[t, f, h]`, with `f` and `h` functions from series
  ids. Children are leaves that return the next steps of the range with
  any contents from a small set.
- `newOperation` and `getHistogramFloatOperation` are not in the
  repository. They are modelled from spec §4.5 and §4.7 (`FloatOp`,
  `HistOp`). `HistOp`'s nil is the empty tuple `<<>>`, which no histogram
  term `<<op, a, b>>` equals.

## 3. Runs

| Run | Expect | What it shows |
|---|---|---|
| `vb_join_queries` | pass | Four queries, chosen at Init (`JoinQueriesRefinement`):<br>- `a - on(x) b`, one-to-one, over 2 batches. The operator implements `BinaryJoin`, including the many-to-many error (rhs `b{x=2}`, `c{x=2,y=1}` share a signature) and the implicit many-to-one error (two lhs series on `x=1`).<br>- `and`, `or` and `unless` over a 2-step batch with `ignoring(y)`, where two rhs series share one signature. The `ats` marks implement intersection, union and difference per step, although buckets are reused across steps. |
| `vb_group_left` | pass | `a * on(x) group_left(y) b`. `TypeOK` holds. Many-to-one matching. The result takes `y` from its rhs partner `b{x="1",y="c"}` in place of the lhs series' own `y`, so both lhs series give the one output series `{x="1",y="c"}`, deduplicated by label set. |
| `vb_group_right` | pass | `b > bool on(x) group_right(y) a`. The sides swap, the operands are swapped back for the non-commutative comparison, and every pair is kept with 1 or 0 with `__name__` dropped. |
| `vb_hist_only_hc` | violation | F1 (§6). |
| `vb_nil_histogram` | violation | F2 (§6). |
| `vb_lc_histogram` | violation | F3 (§6). |
| `dlc_pass` | pass | Four series, with `a` twice and `b`/`c` hash-colliding, over 2 batches of 2 steps. A step with both series of a pair present fails (`NoDuplicateInStep`), and nothing else fails (`NoFalseAlarm`). |
| `dlc_triple` | violation | F4 (§6). |
| `dlc_wide_batch` | violation | F5 (§6). |
| `sb_pass` | pass | Five vector-scalar queries over 3 steps in batches of 2, with a parent whose calls do not overlap:<br>- `a * scalar(w)`<br>- `scalar(w) / a`<br>- `a > scalar(w)`<br>- `scalar(w) < bool absent(up{job="a",job!="b"})`<br>- `scalar(x) >= bool scalar(w)`<br>`StepSemantics`: every returned step equals the PromQL result at its timestamp, computed from the raw leaf contents. `ExecTimeIsSum`: the timing counters add up. |
| `sb_init_race` | violation | F6 (§6). |
| `sb_tel_race` | violation | F7 (§6). |

Bounds:
- Two or three series a side, and two evaluation timestamps.
- Batches of one step (two for the set operations).
- Two float values, and up to two histograms of different schemas.

These bounds are enough because every control path of the code needs at
most:
- two series that share a signature (many-to-many and implicit many-to-one);
- a second step that reuses a bucket marked at the first (stale marks);
- a second batch (state carried across `Next` calls).

All of these are reached; each mutant (PROJECT.json) shows that a run sees
the corresponding bug. For the duplicate check:
- four series give two collision pairs, one of them a true hash collision
  of distinct label sets;
- two batches of two steps let masks carry across batches.

For the vector-scalar runs:
- Three steps in batches of two give a full and a partial batch, so the
  scalar of the second batch's first step differs by position and by
  timestamp.
- The w contents give 0, 1 or 2 float samples, or a histogram only, per
  step. These are all the cases of `scalar()`.
- The vector contents give absent, 1, 2 and histogram samples, which
  cover the histogram table and both comparison outcomes.
- The absent matchers repeat `job` with `!=` and add a pushed-down filter.
  This exercises `Set`, `Del` and the skipped `__name__`.
- `MaxNextCalls = 3` is exactly the two batches and the nil.

Liveness:
- The vector-vector and duplicate-check runs check safety only. They are
  iterators driven by their caller, with no internal scheduling.
- The vector-scalar runs check safety only as well. With the parent's
  calls kept apart (`sb_pass`), the end of the query is the `in == nil`
  return of `Next` over the model's own leaf, so a liveness property there
  would restate that return. `scalar()`'s and `absent()`'s own empty-batch
  ends are not reached inside the composition, because the leaf decides
  the end of the stream.
- For the same reason `sb_pass` does not check `InitErrorVisible`. Without
  overlapping calls only the goroutine that ran the failing `loadSeries`
  ever sees it, and the property would restate the two `err != nil`
  returns. The property is checked where it can fail, in `sb_init_race`.
- `CHECK_DEADLOCK FALSE` is used because the query's end is terminal.

## 4. Proofs

`VectorBinaryProofs` proves `THEOREM TypeCorrect == Spec => []TypeOK` for
every value of the constants satisfying the assumptions of `BinaryJoinTables`:
- `MetricName` is a label name;
- series ids are finite sets of naturals;
- `FloatVals` are integers;
- `HistSides` is a subset of `{"lhs","rhs"}`;
- `Timestamps` is a sequence of integers;
- `StepsBatch` is a positive natural.

`TypeOK` alone is not inductive. It says that `outB` is a batch of at most
`StepsBatch` steps, but nothing stops an `ExecStep` from appending past that.
The inductive invariant `IInv` adds three facts (checked with TLC first):
- `Len(inL) <= StepsBatch`;
- in the loop, `Len(outB) = k - 1`;
- in the loop, the batch fits in the remaining timestamps.

The argument has one step per action. The type of each `ExecBinary*` result
is a lemma (`AndType`, `OrType`, `UnlessType`, `ArithType`), built on lemmas
about the output ids (`OutputSeriesIDNat`, via finiteness of
`OutputPairs`) and about `vectorElemBinop`'s error results.

`ScalarBinaryProofs` proves `THEOREM ExecTimeSum`: under `~Concurrent`,
`Spec => []ExecTimeIsSum`, for every query set, series table, range and
batch size. `ExecTimeIsSum` alone is not inductive, because a store step
writes fields computed from an earlier read. The inductive invariant
`TelInv` adds:
- at most one goroutine is inside a call (the parent's calls do not
  overlap);
- a goroutine about to store has read exactly the current counters;
- the counters are naturals.

Each action preserves `TelInv`. `SetMaxSeriesCount` leaves the timings
alone (lemma `SetMaxKeepsTimes`). Only the store steps change the timings,
and they add the same duration to `ExecutionTime` and to one of the
others. With `Concurrent` TRUE the theorem is false, as `sb_tel_race`
shows.
The sum is a property of the vector-scalar operator's telemetry only. The
vector-vector operator (part_002:103, 113) records its time with
`AddExecutionTimeTaken`, which adds to `ExecutionTime` alone, so there
`ExecutionTime` is not the sum of the other two.

`ScalarBinaryProofs` also proves
`THEOREM StepSemanticsHolds == Spec => []StepSemantics`, for every value
of the constants and with or without overlapping calls. Only the `Next`
goroutine writes the cursor, the leaf batch and the result, so the
concurrency is irrelevant. The inductive invariant `StepInv` adds that the
cursor stays in the range and that, between `NextCall` and `NextScalar`,
the vector leaf's batch is the `LeafLen(cursor - Len(rawV))` steps just
pulled. The scalar child's batch from the same position then has the same
length (`LeafBatchShape`). The heart of the proof is the lemma
`OutStepIsSpecStep`: one iteration of the loop equals `SpecStep`. The
lemma is split by operator class: arithmetic, comparison against a vector,
and comparison of two scalars. Further lemmas cover the vector child's
step for a selector, `absent()` and `scalar()` (`VectorChildSteps`), and
`ScalarVal` being `scalar(w)` of the same position (`ScalarValOfStep`).
The assumption `Timestamps \in Seq(Int)` was added for this proof.
`DuplicateLabelCheckProofs` proves, for every series table, hash function,
word width and batch shape satisfying the assumptions of
`DuplicateLabelCheck`:

- `THEOREM NoFalseAlarmHolds == Spec => []NoFalseAlarm`. The inductive
  invariant `AlarmInv` adds that the pair table holds only pairs `init` can
  record, and that after `DuplicateLabelSet` the operator is done.
  - `FirstOwnerSpec`: the `CHOOSE` in `FirstOwner` is well defined. It picks
    the least index of the hash, by well-foundedness of `<` on the
    naturals (`WFMin`).
  - `MaskOfMember`: a paired series' mask after a batch is exactly that
    batch's bits, because `Next` clears it first.
  - `ShiftBitInjective`: distinct positions set distinct bits.
  - Together, a collision comes from one position holding both series of a
    pair (`CollisionIsDuplicate`).
- `THEOREM NoDuplicateWhenPaired`: under `AtMostTwoPerHash` (no hash is
  shared by three series) and `PositionsFitWord` (`p + 1 < Width` for every
  batch position), `Spec => []NoDuplicateInStep`.
  - `TwinsArePaired`: two series of one hash are then a pair of `init`'s
    table.
  - `DuplicateCollides`: they share the bit `p + 1` after the batch, so
    `Next` fails.
  - The invariant `DupInv` adds that, while the operator runs, the pair
    table is `init`'s.

  The two hypotheses are exactly what the code needs. `dlc_pass`
  satisfies both. `dlc_triple` breaks the first and `dlc_wide_batch` the
  second, and each violates `NoDuplicateInStep` (F4, F5).

Every invariant above was model-checked with TLC on the runs' instances
before it was proved.

What stays with TLC:
- the refinement `JoinRefinement` and `JoinQueriesRefinement`;
- `NoDuplicateInStep` outside the two hypotheses above, where it is false;
- all violation findings.

The refinement needs reasoning about `CHOOSE` over the `joinHelper` order
and the cardinality-based numbering, which the provers cannot do for
arbitrary series tables. `Absent`'s matcher fold is a recursive function
whose value for every matcher list would need induction over data. Nothing
proved here depends on it: `StepSemantics` treats the loaded series table
as opaque.

## 5. Hazards

PROJECT.json lists the hazards, each at its source line. The main ones:
- the `ats = -1` sentinel;
- stale `sid`/`val` in buckets;
- the order of the marking loops;
- `bts` one-to-one checking;
- partial bucket writes before an error;
- the `sync.Once` error swallowing;
- the pair table built only against first owners;
- `2 << 63` overflow;
- the per-batch mask reset;
- for the vector-scalar operator: `sync.Once` error swallowing under
  overlapping calls, position-based pairing of the scalar with the vector
  step, the operand tables fixed at construction, and the non-atomic
  telemetry updates.

## 6. Findings

1. **F1** (part_002:301). The arithmetic shortcut tests only float samples,
   so a step where the high-card side has only histograms is dropped. This
   diverges from spec §4.6.1.
2. **F2** (part_002:365). The histogram loop ignores `keep` and appends nil
   histograms for incompatible pairs.
3. **F3** (part_002:316-325 with 365). The low-card histogram loop does not
   set `jp.sid`, so histogram results are emitted under another pair's
   output series.
4. **F4** (part_001:127). Three series with one label set: the 2nd and 3rd
   are never compared with each other.
5. **F5** (part_001:73). `2 << 63` is 0, so duplicates at the 64th step of a
   batch go undetected.

6. **F6** (scalar.go:187, 216). `Series` and `Next` share `seriesOnce`,
   and the `loadSeries` error reaches only the caller that ran it. When
   `Next` fails to load, an overlapping `Series` returns no error and a nil
   series table. This diverges from spec §5 ("visible initialization
   across threads"). The same pattern exists in the vector-vector
   operator's `initOnce` and the duplicate check's `init`; it is modelled
   only here.
7. **F7** (telemetry.go:127-128, 136-137). `AddSeriesExecutionTime` and
   `AddNextExecutionTime` update shared counters with unsynchronized `+=`.
   Overlapping `Series` and `Next` lose an update, and `ExecutionTime`
   falls below `SeriesTime + NextTime`, and can even decrease
   (TLC finds it going from 2 back to 1: a `Series` store
   from a read taken before two `Next` calls). This diverges from spec §5
   ("telemetry are concurrency-safe") and §4.8.

Two hazards are recorded without a run:
- `and` at timestamp -1 keeps unmatched lhs samples, because `-1` is the
  bucket's "never marked" sentinel (part_002:235, 410). `JoinRefinement`
  fails on it when `Timestamps` contains -1. The runs use non-negative
  timestamps.
- The split-timestamp TODO in the duplicate check.

## 7. Not modelled

- The instant functions (`functions.go`) remain for later work.
- Pools are not modelled: only allocation depends on them.
- Telemetry's per-step sample statistics (`LoadedSamples`,
  `IncrementSamplesAtTimestamp`) and `NoopTelemetry` are not modelled: no
  property depends on them.
- `absent`'s own `sync.Once` is not a separate step: its `loadSeries`
  cannot fail and always computes the same series.
- Wording of errors and warnings is abstracted to their names.
