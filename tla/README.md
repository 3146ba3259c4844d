# TLA+ models of the chain-RPC probers

This directory holds TLA+ models of the probers in `src/prober/`. It also
holds TLC configurations that model-check them, and TLAPS proofs of their main
safety properties. The models follow the Go source. `spec.md` is used only to
say what the code is meant to do.

## 1. The system

A Prometheus blackbox-exporter shell serves one HTTP scrape by calling one
prober function. It passes the scrape's context (which carries the deadline),
the target, the query parameters (`url.Values`, multi-valued) and a fresh
registry. The prober returns a boolean, which the shell turns into
`probe_success`. It also renders whatever gauges the prober set.

| Part | Source | State / operations | Interacts with |
|---|---|---|---|
| JSON-RPC prober, current revision | `src/prober/jsonrpc.go` 242-388 | program counter, loop index, results received, gauge series, round trips; dial, column checks, module switch, sequential call loop, batch build/call/walk, return | endpoint (RPC client), registry, the helpers below |
| Decimal normaliser | `jsonrpc.go` 74-85 | pure: `big.Int.SetString`, `math.Pow10`, `big.Float.Quo` | called once per descriptor |
| Result extractor | `jsonrpc.go` 296-315, 354-374 | pure: unmarshal, JMESPath search, `%v` | called once per descriptor |
| `parseJSONRPCParams` | not in `src/` (spec 4.1) | pure: brace-structured argument parser | called per descriptor before its call |
| Parameter coercion `stringsToSlice` | `jsonrpc.go` 40-72 | pure: split, trim, int/bool/string | old revision only, per call |
| JSON-RPC prober, old revision | `jsonrpc.go` 87-209 | same shape as the current one, plus the parameters sent | endpoint, registry, `stringsToSlice` |
| Ethereum-RPC prober | tests only (`ethrpc_test.go`) | source absent | |
| ABI model | `src/unnamed/part_002` | types only | |
| Bitcoin-RPC prober | `src/prober/btcrpc.go` | does not compile | |
| Unit tests | `src/unnamed/part_000`, `part_001` | | state intended behaviour |

### What makes the current prober hard

- **Two modes that must agree.** `disableBatch=true` sends one call per
  descriptor. Otherwise one batch is sent and its answers are walked by index.
  Spec section 8 says both give the same series.
- **Order of checks and I/O.** The column checks come before any call. The
  argument parse, however, sits inside the sequential loop.
- **Many error paths, one outcome.** Each path returns false after earlier
  series were set. A batch element's own error is never read.
- **Numeric edges.** The decimal is user-supplied. Its parse error is dropped.
  `Pow10` is 0 below -323 and +Inf above 308, and 0/0 panics.
- **Environment.** The endpoint may fail, answer `null`, answer an error, or
  never answer. The scrape deadline may pass, but the calls never read `ctx`.

## 2. Modules

| Module | Models |
|---|---|
| `JsonRpcProbe` | One invocation of the current `ProbeJSONRPC`, with its helpers as operators. |
| `MC_JsonRpcProbe` | Small value sets for it: argument and path texts, decimals, endpoint answers; symmetry on tags. |
| `JsonRpcBatchEquiv` | Two instances of `JsonRpcProbe` over the same descriptors and the same endpoint answers: one sequential, one batched. |
| `MC_JsonRpcBatchEquiv` | Value sets for the composition. |
| `JsonRpcBatchEquivProofs` | The TLAPS proof that the batched invocation reports what the sequential one reports. |
| `ProbeContract` | The abstract promise of one invocation: series set one descriptor at a time, in order; true only after the last; false or a panic at any point. |
| `JsonRpcProbeContract` | The refinement mapping from `JsonRpcProbe` to `ProbeContract` (`reported <- i - 1`), and the property `ImplementsContract`. |
| `JsonRpcProbeProofs` | TLAPS proofs about `JsonRpcProbe`. |
| `JsonRpcContractProofs` | The TLAPS proof that `JsonRpcProbe` implements `ProbeContract`. |
| `JsonRpcProbeV1` | The old `ProbeJSONRPC` (lines 87-209) and `stringsToSlice` (40-72). It EXTENDS `JsonRpcProbe`. |
| `MC_JsonRpcProbeV1` | Value sets for it: arguments that exercise the coercion, blank paths. |
| `JsonRpcProbeV1Proofs` | TLAPS proofs about `JsonRpcProbeV1`, and lemmas about `stringsToSlice`'s helpers. |

### How `JsonRpcProbe` corresponds to the code

State:

| Variable | Code |
|---|---|
| `params` | the five columns, `module` and `disableBatch` |
| `pc` | which statement runs next |
| `i` | the loop index |
| `results` | the raw answers received, index-aligned |
| `gauge` | the `probe_jsonrpc` series: label triple to value |
| `registered` | `MustRegister` has run |
| `trips` | round trips sent |
| `outcome`, `reason` | the return value, or `"panic"`, and which branch returned |
| `expired` | the scrape deadline has passed |

The label triple is (method, `TrimSpace(arg)`, tag). The target is fixed
within one invocation, so it is left out of the label.

Actions, one per step of the code:

| Action | Lines | Step |
|---|---|---|
| `Dial` | 243-250 | dial the target |
| `CheckColumns` | 252-266 | check the columns |
| `Dispatch` | 268-280 | the module switch and registration |
| `CallSend` | 281-288 | parse the arguments, then send |
| `CallReturn(r)` | 288-327 | the call's answer r, then extract, normalise and set the series |
| `BuildBatch` | 331-345 | build the batch |
| `BatchReturn(rs)` | 347-351 | the batch answers rs |
| `WalkElem` | 352-383 | one element of the walk |
| `LoopDone` | | the end of a loop |
| `Return` | 387 | return true |
| `Deadline` | | the environment's deadline passes |
| `Returned` | | the final stutter |

`Record(k, r, next)` is the shared tail of both loops: extract, normalise,
then either set the series or fail or panic.

Data is abstracted to what the properties tell apart:

- **Texts.** A text is a well-formed hex or decimal integer of value v, or a
  malformed one whose scanned prefix has value v.
- **Answers.** An answer is an error, `null`, a JSON string, or an object with
  or without the field `f`.
- **JMESPath.** A path is empty, blank, the identifier `f`, or not valid
  JMESPath.
- **Decimals.** A decimal text is abstracted to what `strconv.ParseInt`
  returns: whether the error is nil, and the value. The value is 0 after a
  syntax error and ±(2^63 - 1) after a range error. TLC's integers cannot
  hold 2^63, so the runs take only in-range decimals and a malformed one.
- **Argument texts.** These are character sequences, so that `TrimSpace`
  (and the distinct labels of `a` and ` a`) and the brace check of
  `parseJSONRPCParams` work on real text.
- **Gauge values.** These are exact (n, e) pairs for n·10^-e, or `+Inf`. The
  panic of `Quo(0, 0)` is a separate outcome. Float rounding is not modelled.

`parseJSONRPCParams` is not in the repository, so it is modelled from spec 4.1.
It fails exactly on unbalanced braces.

### How `JsonRpcProbeV1` corresponds to the code

Lines 88-123 of the old revision are the same code as lines 243-278 of the
current one. So are BatchCall's return (178-182) and the end of the loops.
`SharedStep` reuses those actions of `JsonRpcProbe` and leaves the new
variable `calls` unchanged. `calls` holds the parameters sent, one list per
call.

| Action / operator | Lines | Step |
|---|---|---|
| `stringsToSlice` | 40-72 | `""` gives no parameters. Otherwise each comma-separated part is trimmed, then classified: `ParseInt` first, then `ParseBool` (all twelve texts it accepts), else a string. |
| `CallSendV1` | 125-128 | coerce the arguments and send; no parse can fail |
| `CallReturnV1(r)` | 128-164 | any call error returns false, else `RecordV1` |
| `SeqExtract` | 135-151 | the untrimmed `!= ""` test; Search on the decoded value, or `json.Marshal` of it |
| `BuildBatchV1` | 166-176 | one element per descriptor, then BatchCall |
| `BatchExtract` | 185-192 | Search on the `*string`: a field lookup panics in go-jmespath's `fieldFromStruct` (`FieldByName` on a string); a path that does not compile fails; an empty path reads the Go string (`""` for an error, `null` or object) |
| `WalkElemV1` | 183-204 | one element; `e.Error` is never read |
| `LabelV1` | 158-163, 197-202 | (method, untrimmed arg, tag) |

The string helpers are written without recursion and without a choice of a
minimum, so that the provers can reason about them:

- `TrimSpace` counts the leading and the trailing blanks and slices between them;
- `SplitComma` cuts part j after the positions with fewer than j - 1 commas
  ahead of them and up to comma j;
- `DecimalValue` is the number below 10^Len(d) whose base-10 digits are d.

TLC checked each against the obvious definition (minimum and maximum of the
non-blank positions, the sorted cut positions, a recursive digit fold) on
every text of up to five characters over blank, comma and a letter, and on
every digit string of up to three digits. They agree.

A marshalled result is JSON text. A string is quoted, so `SetString` stops at
the quote and the text counts as 0 (`MarshalledText`). `IsInt` has no int64
range check, because the argument texts are a few characters long.

### The contract and its refinement

`ProbeContract` EXTENDS `JsonRpcProbe` only for its data operators. Its
state is what a caller observes: `params`, `gauge`, `outcome`, plus
`reported`, the number of descriptors whose series are set. It has three
actions:

- **`Report`.** Sets descriptor `reported + 1`'s series from some answer that
  is not an error, extracts, and is not the panic.
- **`Finish`.** Returns true. For module `jsonrpc` this needs every
  descriptor reported. For any other module it needs none reported.
- **`Abort`.** Returns false, or panics, keeping the series.

The loop index, the results, round trips and the two modes are the
implementation's business. In both modes the descriptors `1..i-1` have been
reported, so the mapping is `reported <- i - 1`. A batch's answers arriving,
or a call being sent, is a stutter of the contract.

### The composition

In `JsonRpcBatchEquiv`, `endpoint` fixes the answer to each descriptor. The
sequential instance runs to completion first, then the batched one runs. Both
read the same `endpoint`. This is sound because a probe has no state that
outlives it (spec section 5). Running the instances one after the other keeps
the state space small.

Each instance is `INSTANCE JsonRpcProbeProofs`, which is `JsonRpcProbe` with
its proofs, so the proofs about the composition can cite the lemmas about
each invocation. An instantiated lemma carries the assumptions of the module
it comes from, so `JsonRpcBatchEquiv` restates `MaxCallsAssumption` and
`DataAssumption` for the shared constants.

## 3. Runs

| Run | cfg | Checks | Result |
|---|---|---|---|
| `one_call` | `MC_JsonRpcProbe.cfg` | TypeOK, ColumnMismatchFailsBeforeIO, JsonRpcSuccessReportsEveryCall, SeriesMatchCompletedCalls; ImplementsContract | pass, 30 416 states |
| `two_calls` | `MC_JsonRpcProbe_two.cfg` | same, and RegistryNeverRollsBack | pass, 28 320 states |
| `batch_equiv` | `MC_JsonRpcBatchEquiv.cfg` | BatchMatchesSequential | pass, 479 728 states |
| `module_gate` | `MC_JsonRpcProbe_gate.cfg` | SuccessReportsEveryCall | violation |
| `nan_panic` | `MC_JsonRpcProbe_panic.cfg` | NeverPanics | violation |
| `silent_zero` | `MC_JsonRpcProbe_measured.cfg` | SuccessMeansMeasured | violation |
| `late_arg_parse` | `MC_JsonRpcProbe_args.cfg` | MalformedArgsFailBeforeIO | violation |
| `deadline_ignored` | `MC_JsonRpcProbe_deadline.cfg` | DeadlineEndsProbe | violation |
| `v1_calls` | `MC_JsonRpcProbeV1.cfg` | TypeOKV1, SeriesMatchCompletedCallsV1; RegistryNeverRollsBackV1 | pass, 143 336 states |
| `v1_bool_coercion` | `MC_JsonRpcProbeV1_args.cfg` | ArgsSentAsSpecified | violation |
| `v1_marshal_zero` | `MC_JsonRpcProbeV1_hex.cfg` | HexResultReported | violation |
| `v1_batch_search_panic` | `MC_JsonRpcProbeV1_search.cfg` | NeverPanics | violation |

What the properties say:

- **`ColumnMismatchFailsBeforeIO`.** With empty or misaligned columns, no round
  trip is sent and the probe never succeeds.
- **`SuccessReportsEveryCall`** (checked as `JsonRpcSuccessReportsEveryCall`,
  for module `jsonrpc`; the `module_gate` run shows it fails otherwise). A successful probe made one call per
  descriptor. Its series are exactly the descriptors' labels. Each series holds
  the value computed from the result of the last descriptor that carries its
  label. This covers the loop bounds, the batch index alignment and
  last-writer-wins on shared labels.
- **`SeriesMatchCompletedCalls`** (and `SeriesMatchCompletedCallsV1` for the
  old revision). At every point, the series are exactly those of the
  descriptors handled so far. Each holds the value extracted and normalised
  from its own result, in the extraction of the mode in force. This holds
  after every early return too: earlier series stay (no rollback, line 289),
  and the failing or a later descriptor never has a series.
- **`RegistryNeverRollsBack`** (and `RegistryNeverRollsBackV1`). This is an
  action property. No step removes a series. Only the step that records one
  more descriptor of a running probe changes the registry. Once the probe
  has returned, its outcome and the registry never change. It is checked on
  two descriptors, the smallest case with a series in place when a later
  descriptor fails.
- **`ImplementsContract`.** Every behaviour, in either mode, is a behaviour
  of `ProbeContract` under `reported <- i - 1`. It is checked as a temporal
  PROPERTY.
- **`BatchMatchesSequential`.** If every argument parses and no transport
  error occurs, both modes give the same outcome. On success they give the same
  series. This is spec section 8's batching property.

What the violation runs show (see `findings` in `PROJECT.json`):

- **`module_gate`.** Any `module` other than `jsonrpc` returns true without
  probing.
- **`nan_panic`.** A decimal below -323 with a zero result panics inside the
  prober.
- **`silent_zero`.** A null result, a missing path field, a malformed number
  or a malformed decimal is reported as a value and the probe succeeds. Spec
  section 8 says an absent field fails the probe.
- **`late_arg_parse`.** In sequential mode, a malformed later argument is found
  after earlier calls were sent. Spec section 7 says before any I/O.
- **`deadline_ignored`.** After the deadline the probe can stay blocked on an
  unanswered call, because `ctx` is never read.
- **`v1_bool_coercion`.** `stringsToSlice` sends the argument `t` as the
  boolean true. Spec 4.1 takes only `true` and `false` as booleans. The unit
  tests in `part_001` also expect `""` to give `[""]`, which contradicts
  both the code and the spec.
- **`v1_marshal_zero`.** Without batching and with an empty path, the old
  revision parses `json.Marshal(result)`. A string result keeps its quotes,
  so `"0x1"` reads as 0. The batched walk reads the Go string and reports 1.
- **`v1_batch_search_panic`.** In the old revision's batch walk,
  `jmespath.Search` runs on the `*string` that `BatchCall` filled (line 187).
  go-jmespath evaluates a field of a non-map with `fieldFromStruct`, which
  dereferences the pointer and calls `FieldByName` on a string: a panic.
  So every batched descriptor with a field path panics the probe. The run
  holds the decimals at 0, so this is not the `nan_panic` case. The current
  revision unmarshals the raw message before searching (lines 354-370).

The old revision also labels its series with the untrimmed argument (lines
161 and 200), where spec section 4.4 and the current revision (line 325)
trim it. `LabelV1` keeps this, but no run checks it.

### Bounds

- **One descriptor.** This run enumerates every answer kind × path × decimal ×
  argument shape. That covers every branch of the extractor and the
  normaliser.
- **Two descriptors.** This is the smallest case where these can happen:
  - a fail-fast return after a series was set;
  - a misaligned batch walk;
  - a later malformed argument;
  - two descriptors sharing a label.
- **Columns.** Column lengths also include one column of length 0 or 2 beside
  length-1 columns. That exercises both checks.
- **Symmetry.** The two tags are interchangeable (symmetry), and a single
  method suffices because methods are only labels.
- **Old revision.** The argument texts are `""`, `t` and ` 1,a`. These give no
  parameters, a ParseBool-only boolean, and an integer beside a string with
  a blank that the label keeps. The paths are `""`, blank ` ` and `f`. The
  decimals are 0 and -400. The answers are an error, `null`, an object with
  `f`, and the hex strings 1 and 0. The pass run takes up to two
  descriptors and both module values. The violation runs take one.
  `v1_batch_search_panic` takes only the decimal 0, so the only panic left
  is the one in the batch search.

Each property's mutant was checked to break it under its run's cfg:

| Mutant | Breaks |
|---|---|
| `RecordNaN` | TypeOK; ImplementsContract (two calls) |
| `CheckColumnsNoTagLength` | ColumnMismatchFailsBeforeIO |
| `LoopDoneEarly` | JsonRpcSuccessReportsEveryCall; ImplementsContract (one call) |
| `WalkElemIgnoresError` | BatchMatchesSequential |
| `RecordNoScale` | SeriesMatchCompletedCalls |
| `RecordV1NaN` | TypeOKV1 |
| `WalkElemV1Marshals` | SeriesMatchCompletedCallsV1 |
| `RecordRollback` | RegistryNeverRollsBack |
| `RecordV1Rollback` | RegistryNeverRollsBackV1 |

### Fairness

The probe's own steps are weakly fair, because its goroutine runs them without
waiting on anything. The endpoint's answers (`CallReturn`, `BatchReturn`) are
not fair. The HTTP client has no timeout and the call ignores `ctx`, so nothing
in the code forces an answer. `DeadlineEndsProbe` is checked under exactly this
fairness, and it fails for that reason.

## 4. Proofs

`JsonRpcContractProofs` proves **`Refinement`**: `Spec => ImplementsContract`.
This holds for the same constants as below.

`JsonRpcProbeProofs` proves six theorems with TLAPS, for every `MaxCalls`
and every value set allowed by `MaxCallsAssumption` and `DataAssumption`:

- **`TypeCorrect`**: `Spec => []TypeOK`.
- **`ColumnMismatchSafe`**: `Spec => []ColumnMismatchFailsBeforeIO`.
- **`SeriesMatchCompletedCallsHolds`**: `Spec => []SeriesMatchCompletedCalls`.
- **`SuccessReportsEveryCallHolds`**: `Spec => []JsonRpcSuccessReportsEveryCall`,
  that is, `SuccessReportsEveryCall` whenever `params.module = "jsonrpc"`. The
  hypothesis is needed, because the `module_gate` run shows the property
  fails for any other module.
- **`RegistryNeverRollsBackHolds`**: `Spec => RegistryNeverRollsBack`, the
  action property.
- **`IInvHolds`**: `Spec => []IInv`. The others rest on it.

`IInv` is `TypeOK /\ Control /\ SeriesMatchCompletedCalls`.

`TypeOK` is not inductive on its own. `Record` indexes the arg, tag, decimal
and path columns at the loop index, and is well typed only if those columns are
as long as `method`. `Control` relates the program counter to the rest of the
state:

- `outcome = "running"` exactly while `pc # "done"`;
- no round trip before the column check;
- every state after the column check (except `done`) has aligned non-empty
  columns;
- a finished probe with bad columns failed with no round trip;
- `i <= N` while awaiting an answer;
- `Len(results) = N` during the batch walk;
- `i - 1 <= Len(results)`. This holds with equality in the sequential loop.
  Before the loops, `i = 1` and there are no results;
- the loops run only for module `jsonrpc`;
- `return`, or success, under module `jsonrpc`, means `i = N + 1` and
  `Len(results) = N`;
- a `return` under any other module has `i = 1`, which `Finish` needs.

`SeriesOf(j)` says the gauge's domain is the labels of descriptors 1..j, and
each label not reused later holds the value reported for its descriptor's
result. It is inductive with `j = i - 1`:

- **`SeriesFrame`.** A step that leaves `i`, `gauge` and `params` alone, and
  does not change `results` below `i`, keeps it. Appending a result, or the
  batch answers arriving, is such a step.
- **`SeriesAdvance`.** A `Record` step that sets `Label(i)` and increments `i`
  extends it to `i`.

`SuccessReportsEveryCall` follows from `SeriesOf(i - 1)` and the last
`Control` conjunct.

TLC checked `IInv` as an invariant of the pass runs before it was proved.

The argument has three steps:

1. **`InitIInv`.** Every query set is typed (lemma `QueryParamsTyped`).
2. **`NextIInv`.**
   - `NextTypeControl` has one step per action. The two loop actions use
     lemma `RecordStep`. That lemma rests on `LabelTyped`, `ReportedTyped`,
     `ExtractTyped`, `NormaliserTyped` and `FunIsSeq`.
   - `NextSeries` applies `SeriesFrame` or `SeriesAdvance` to each action.
3. **The temporal theorems.** These follow by PTL.

The refinement proof follows the standard pattern. Initial states map to
`ContractInit`. `IInv /\ [Next]_vars` implies `[ContractNext]_cvars`,
with one step per action:

- **Lemma `QuietStep`.** A step keeping `params`, `i` and `gauge` is a
  stutter or an `Abort`. `Control` gives `outcome = "running"` before `done`.
- **Lemma `RecordRefines`.** A `Record` step is a `Report`, by lemma
  `ReportStep`. It is a `Report` because `RecordStep` now also says the
  extraction succeeded and the value is not the panic. Otherwise it is a
  `QuietStep`.
- **`Return`.** This is `Finish`, by the last two `Control` conjuncts.

The action property has a step lemma, `NextRegistryStep`:
`IInv /\ [Next]_vars => [RegistryStep]_vars`. Its argument:

- the steps other than the two loop actions leave `gauge` alone;
- by `Control`, a finished probe (`outcome # "running"`) is at `done`, where
  only `Returned` and stuttering steps are possible;
- a `Record` step either leaves the gauge alone or sets one label of a
  running probe, advancing `i` (`RecordStep`);
- `SetGauge` only adds to the domain (`SetGaugeGrows`).

The theorem follows from `IInvHolds` and this lemma by PTL.

Lemma `ContractHelpers` shows that `Contract!N`, `Contract!Reported` and the
other helpers are the implementation's own. The mapping substitutes only for
`reported`.

### The old revision

`JsonRpcProbeV1Proofs` proves the following, for the same constants:

- **`TypeCorrectV1`**: `SpecV1 => []TypeOKV1`. This includes that every
  parameter `stringsToSlice` puts in a call is an int64, a bool or a string
  of the argument's characters.
- **`SeriesMatchCompletedCallsV1Holds`**:
  `SpecV1 => []SeriesMatchCompletedCallsV1`.
- **`RegistryNeverRollsBackV1Holds`**: `SpecV1 => RegistryNeverRollsBackV1`.
- **`IInvV1Holds`**: `SpecV1 => []IInvV1`.

`IInvV1` is `TypeOKV1 /\ Control /\ CallsSent /\ SeriesMatchCompletedCallsV1`.
The series are those of the old revision's own extraction. In a batch, a
field path makes `RecordV1` end the probe with the panic of line 187 and
leaves the registry alone, so no batched field path ever has a series.
`Control` is the current revision's, unchanged. The two revisions share the
code up to the loops and the loop structure.

`CallsSent` says how many calls were sent. Before the loops there are none.
In the sequential loop there is one per descriptor reached (`i - 1` at the
loop head, `i` while awaiting). In a batch there are `N`. Always there are
at most `N`. A sent call is appended after those already sent, so typing
the calls needs this count. TLC checked `IInvV1` on the `v1_calls` instance
before it was proved.

The lemmas about the helpers:

- `PositionsBound`: a set of positions has at most `Len(s)` elements.
- `TrimSpaceTyped` and `SplitCommaTyped`: both slice inside the text
  (`SliceTyped`, from `SubSeqProperties`).
- `CoerceTyped` and `StringsToSliceTyped`: each part becomes an int, a bool
  or a string of its characters.

The step lemmas have one per action. The shared steps are handled in
`SharedStepIInvV1`. Then come `CallSendV1IInv` (with `AppendDomain`),
`BuildBatchV1IInv`, `CallReturnV1IInv` and `WalkElemV1IInv`, all using
`RecordV1Step`. The registry part (`NextV1Series`) uses `SeriesFrameV1` and
`SeriesAdvanceV1`, as for the current revision.

### Batching changes nothing

`JsonRpcBatchEquivProofs` proves **`BatchMatchesSequentialHolds`**:
`EquivSpec => []BatchMatchesSequential`, for every `MaxCalls` and every value
set allowed by the assumptions. When both invocations have finished, every
argument parses and neither failed on the transport, they end with the same
outcome and the same registry. The batch walk (`WalkElem`, lines 354-374)
and the sequential loop (lines 296-315) therefore agree on every descriptor.

The per-invocation fact it rests on is `StopsAtBadAnswer`, in
`JsonRpcProbeProofs`. It says an invocation stops at its first bad answer:

- every descriptor before `i` had a good answer (`GoodAt`): not a JSON-RPC
  error, extracted, and not the panic value;
- a finished invocation that failed after the column check, for a reason
  other than dial, transport or parse, stopped at `i` on a bad answer, and
  it panicked exactly when that answer is the panic value (`PanicAt`);
- success under a module other than `jsonrpc` keeps `i = 1` and no results.

`StopsAtBadAnswer` is inductive together with `IInv` (`InitStops`,
`NextStops`). The loop step is lemma `RecordStops`: a `Record` step either
advances past a good answer or stops on a bad one. TLC checked it on
`one_call` and `two_calls` before it was proved.

The composition's invariant is `EquivInv`. It holds `IInv` and
`StopsAtBadAnswer` of both instances, and two more conjuncts:

- `SameQuery`: the two queries differ only in `disableBatch`;
- `AnswersFromEndpoint`: every result either instance holds is the
  endpoint's answer for that descriptor.

TLC checked `EquivInv` on `batch_equiv` before it was proved. The argument:

1. **`InitEquiv`** and **`NextEquiv`** (`StepSEquiv`, `StepBEquiv`). A step
   of one instance is a step of its own `Next`, and the other instance
   stutters (`Stutters`).
2. **`SameHelpers`**, **`SameColumns`** and **`SameVerdict`**. The two
   instances' helpers are the same operators, so equal answers get equal
   verdicts.
3. **`EquivSafe`**: `EquivInv => BatchMatchesSequential`.
   - If the sequential invocation succeeded, every answer was good, so the
     batched one succeeded too.
   - Otherwise both stopped at the first bad answer, which is the same index
     in both, with the same reason and the same panic verdict.
   - In both cases the registries hold the series of the same descriptors
     with the same values. For each label, the value is that of the last
     descriptor carrying it. This index exists by well-founded induction on
     `Nat`: `LeastNat` uses `WFMin`, and `LastIndex` builds on it.

### Left to TLC

- **Liveness.** `DeadlineEndsProbe` is a liveness property, and fairness and
  `ENABLED` are out of the prover's reach.
- **The values `stringsToSlice` computes.** The proofs show what type each
  parameter has, not which value. That `DecimalValue` finds the value its
  digits spell needs the existence of a decimal representation, which is
  an induction over data. The installed provers cannot instantiate the
  library's induction theorems. The coercion itself is judged by
  `ArgsSentAsSpecified`, which fails on the code (`v1_bool_coercion`).

## 5. Not modelled

- **The Ethereum-RPC prober.** Its source is not in `src/`.
- **The Bitcoin prober.** It does not compile.
- **The ABI types.** No behaviour.
- **`prometheus.yml`.** Configuration only.
- **Logging, URL scheme defaulting and float rounding.** No property tells
  them apart.

## 6. Plan for the next steps

1. Compose `JsonRpcProbeV1` with `JsonRpcBatchEquiv`. The batch equivalence
   is expected to fail there, as `v1_marshal_zero` already shows.
2. Refine `JsonRpcProbeV1` to `ProbeContract` too, with a contract whose
   `Report` takes the old revision's extraction.
3. Add a string-level decimal normaliser checked against the unit tests,
   including the `"3b9aca00"` test that expects 1000.
