# TLA+ models of federated-compute's aggregation core and client protocol

This directory holds TLA+ specifications of the C++ code under `src/`. They are
checked with TLC. Each module is translated from the source, and `PROJECT.json`
maps every definition to the lines it models. The same file lists the runs, the
mutants that show each property can fail, the findings and the hazards.

## The system

The source files fall into three groups.

* **Aggregation core** (`src/fcp/aggregation/core`). This group contains:
  * `Tensor`: a dtype, a shape and a dense buffer. A moved-from tensor carries `DT_INVALID`.
  * `OneDimGroupingAggregator`: a data vector indexed by ordinal, and a count of inputs.
    `AggregateTensors` and `MergeTensors` take a pair (ordinals, values). They grow the
    vector to one past the largest ordinal and add the values in.
  * `GroupByAggregator`: the interacting part. It owns a `CompositeKeyCombiner`, which
    maps composite keys to ordinals, and one nested `OneDimGroupingAggregator` per inner
    intrinsic.
    * `Accumulate` validates the key and value tensors, interns the keys, and passes the
      ordinals to every nested aggregator.
    * `MergeWith(other)` consumes `other` with `TakeOutputsInternal`. It then merges the
      peer's key columns and values as if they were inputs.
    * `Report` emits the key columns whose output name is not empty, followed by the value
      columns. It consumes the instance.

  The combiner, the federated sum that is nested, and the `TensorAggregator` base class
  are not part of this repository. They are modelled from `spec.md`, and `PROJECT.json`
  marks those definitions `spec_modelled`.
* **Checkpoint parsing** (`src/fcp/aggregation/protocol`). This group contains:
  * The federated-compute checkpoint parser. It reads a header, then a sequence of
    (name, tensor) records, and hands out each tensor by moving it.
  * A pybind shim.
* **Client** (`src/fcp/client`, `src/fcp/secagg`).
  * `HttpFederatedProtocol`: the object-state machine of a client's check-in with the
    server, covering eligibility eval, check-in, report, retry windows and permanent
    errors.
  * Interfaces with no state: the event publisher, the opstats logger and the
    eligibility decider.
  * A SecAgg state header that only holds declarations.

## Modules

| module | models | state ↔ code |
|---|---|---|
| `Tensor` | `tensor.h` | record `[dtype, shape, data]`. `NumElements`, `IsDense` (always TRUE in this code) and `MovedFrom` |
| `OneDimGroupingAggregator` | `one_dim_grouping_aggregator.h` | record `[data, numInputs, valid]` = `data_vector_`, `num_inputs_`, `data_vector_ != nullptr`. Each method is an operator returning `[status, agg]` |
| `CompositeKeyCombiner` | spec §4.2 | the sequence of distinct keys in first-seen order. `keys[o+1]` is the key of ordinal `o` |
| `GroupByAggregator` | `group_by_aggregator.cc` | `agg[a]` = `[consumed, numInputs, keys, nested]` for each instance `a` (`output_consumed_`, `num_inputs_`, the combiner, `aggregators_`). `output[a]` holds the last report. `status` is the Status of the last call. `fatal` records an `FCP_CHECK` crash |
| `AggregatorSpec` | spec §3, §4.4, §8 | the abstract promise: per instance, a map from composite key to a vector of sums, a count, and consumed/report |
| `MCGroupByAggregator` | — | schemas, instances and key values for TLC |
| `GroupByFactory` | `group_by_aggregator.cc` (`GroupByFactory`) | `intrinsic` (the record `[uri, inputs, outputs, params, nested]` handed to `Create`), `result` (what `Create` returned, `FATAL` if a constructor `FCP_CHECK` failed) |
| `MCGroupByFactory` | — | the bounded set of intrinsics, nested up to two deep |
| `CheckpointParser` | `federated_compute_checkpoint_parser.cc` | `input` (the bytes handed to `Create`), `created` (its Status), `tensors` (`tensors_`), `result` (last `GetTensor`), `handedOut` (names whose valid tensor was returned); `entries` is the list the checkpoint was emitted from |
| `DPGroupingFederatedSum` | spec §4.3, §6, §8, `dp_grouping_federated_sum_test.cc`, and `one_dim_grouping_aggregator.h:134-150` for `AggregateTensors` | `agg[a]` is the `OneDimGroupingAggregator` record of each DP-sum instance. `bounds` is the intrinsic's `[linf, l1, l2]` |
| `MCDPGroupingFederatedSum` | — | client batches of ≤2 rows over ordinals {0,1} and values {-2,3}, plus malformed batches, and six bound choices |
| `MCCheckpointParser` | — | headers, names, proto bytes and entry lists for TLC |
| `RetryPolicy` | the error-handling note, `http_federated_protocol.cc:69-103` | abstract: the server's retry times once known, whether a permanent error was seen, and the window a query returns |
| `HttpFederatedProtocol` | `http_federated_protocol.cc` | `objectState` (`object_state_`), `retryTimes` (`retry_times_`), `baseUri`, `sessionId`, `caller` (where the contract caller is), `window` (last `GetLatestRetryWindow`), `crashed` (an `FCP_CHECK` failed), `permanentSeen` (a call returned a code of the permanent-error flag) |

### How the actions correspond to the code

`GroupByAggregator` has one action per public call, and each is the whole call.

* `Accumulate(a, t)` covers `TensorAggregator::Accumulate`, `CheckValid`, `AggregateTensors`,
  `AggregateTensorsInternal` and `num_inputs_++`.
* `MergeWith(a, b)` covers `a.MergeWith(std::move(b))`. It runs both `CheckValid`s, then
  `IsCompatible`, then `TakeOutputsInternal` on `b`, then `MergeTensorsInternal`, then
  `num_inputs_ +=`.
* `Report(a)` covers `CanReport` and `TakeOutputs`.

Input tensors are drawn from two sets:

* every well-formed batch of at most `MaxRows` rows, both 1-D and scalar;
* one malformed batch per check the code makes: a missing tensor, a 2-D key, a wrong value
  dtype, a value shape that differs from the key shape, and a wrong key dtype.

A failure inside a nested aggregator, after the combiner has changed, is the `FCP_CHECK`
crash at lines 252/306. It sets `fatal`, which stops the system.

### Refinement

`GroupByAggregator` instantiates `AggregatorSpec` through this mapping:

* **`sums[a]`**: key → the nested aggregators' data at that key's ordinal. It is empty once
  `a` is consumed.
* **`count[a]`**: `numInputs`.
* **`report[a]`**: the reported tensors read back as a bag of rows.

A rejected call is a stuttering step. The abstract spec is checked as the property
`AggregatorSpecRefined`.

## Runs

All runs are safety-only. Every call is synchronous and each instance has a single
owner, so an interleaving is a sequence of whole calls, and no fairness is assumed.

| run | instances / schema | bounds | properties | result |
|---|---|---|---|---|
| `GroupByKeyed` | 2, one named string key, sum int32→int64 | Vals {1,2}, ≤2 rows, ≤2 inputs | TypeOK, NoFatalAfterMutation, NestedStateAligned, FailedCallsDoNotMutate, AggregatorSpecRefined | pass (~60k states) |
| `GroupByMixed` | 3: two with key (anonymous string, named int64), one with no key | Vals {1}, ≤2 rows, ≤1 input | NoFatalAfterMutation, NestedStateAligned, FailedCallsDoNotMutate, AggregatorSpecRefined | pass (31372 states) |
| `GroupByNoKeyMismatch` | 2, no key, one vs two intrinsics | Vals {1}, ≤1 row, ≤1 input | FailedCallsDoNotMutate | **violation** |
| `GroupBySumVsDpSum` | 2, same key, a sum vs a DP sum | Vals {1}, ≤1 row, ≤1 input | MergeOnlySameIntrinsics | **violation** |

The bounds are large enough for each of these cases to happen:

* Two keys and two rows give a batch with a repeated key and a batch with two keys.
* Two instances that see the keys in different orders give different ordinals, so merge
  re-keying matters.
* Merges happen in both directions, after reports, and of consumed instances.

`GroupByMixed` puts a key-less instance next to two composite-key instances, so the
key-less and keyed paths of every check, and the rejection of merges between them, are
in one run. A third value only multiplies the states. It adds no new control path.

Each intrinsic of a schema carries its URI (a string standing for the registered
name). `IsCompatible` does not read it; the action property `MergeOnlySameIntrinsics`
states what spec §4.4 asks of it.

### Properties

Each property is stated in its module with a comment. In brief:

* **`FailedCallsDoNotMutate`** (action property): a call that returns a non-OK status
  leaves every instance as it was (spec §7).
* **`NoFatalAfterMutation`**: no input, well-formed or not, gets past the pre-checks and
  then fails in a nested aggregator, which would crash at the `FCP_CHECK`.
* **`NestedStateAligned`**: every nested aggregator has the group's input count, and its
  data vector has exactly one slot per interned key (one slot when there are no keys).
* **`AggregatorSpecRefined`**: the instances implement `AggregatorSpec`. This covers
  sums per key after any accumulates and merges, counts, and reports that drop anonymous
  key columns.
* **`MergeOnlySameIntrinsics`** (action property, violation run only): a merge that
  succeeds changes only an instance whose nested intrinsics have the peer's URIs.

Each property has a mutant in `PROJECT.json`, which is a plausible bug in the code that
TLC finds:

* `num_inputs_ -= num_inputs`
* a dtype check left out
* `o.value + 2`
* counting failed calls
* reusing the peer's ordinals on merge
* a per-row ordinal without keys
* not comparing the presence of a combiner

The factory's mutants leave out the `{-1}` shape check of `CheckIntrinsic` and the
`kFedSqlPrefix` check of `Create`; the HTTP refinement's mutant computes the
retry window without the server's times.

### Checkpoint parser

`CheckpointParser` models `FederatedComputeCheckpointParserFactory::Create` at
the level of bytes. All bytes are below 128, so every varint is one byte, and a
serialized `TensorProto` is abstracted to bytes that are complete fields
(`FieldBytes`) or not. `ParseRecords` is a recursive operator with one CASE arm
per early return of the loop, in the code's order; `Parse` adds the header
check. `Create` is one action applying `Parse` to the input; `GetTensor(n)`
returns `NOT_FOUND` or moves the tensor out (`MovedFrom`).

`Init` enumerates every list of at most two entries over two names and four
protos (empty, two valid, one malformed), emits it with the right or a wrong
header (spec §6), and hands `Create` every prefix of that byte string. The
properties:

* **`EmitParseRoundTrip`**: an emitted checkpoint of distinct, valid entries
  parses to exactly the emitted map, and the tensors not yet taken are intact.
### DP grouping federated sum

`GoogleSQL:dp_sum` is a `OneDimGroupingAggregator<int32, int64>` with its own
`AggregateVectorByOrdinals`, which bounds each client's contribution:

1. It builds the local histogram, the batch's values summed per ordinal.
2. It clamps each histogram entry to `[-linf, linf]`.
3. It rescales by `min(1, l1/L1, l2/L2)`, where L1 and L2 are the norms of the
   clamped histogram, and truncates toward zero.

Step 1 of spec §4.3 says "for each element". The test's Bob (-12 and 2 at ordinal 1,
clamped to 9, contributes -9) and §8 scenario 2 say per histogram entry, so the model
clamps the histogram. The other reading is the mutant `BoundedContributionClampsElements`.

The bounds are integers; the code's L1 and L2 are doubles. A negative bound is not
enforced. The truncation is computed exactly, as the largest `q ≤ |v|` with
`q·L1 ≤ |v|·l1` and `q²·L2² ≤ v²·l2²`. The model reproduces the test's expected outputs.

`MergeWith` takes the peer's outputs and adds them with identity ordinals, without
bounding them. This is an assumption from spec §4.3, not translated code:
`MergeVectorByOrdinals` is pure virtual in this repository (`one_dim_grouping_aggregator.h:189`),
and no property depends on it alone. Each `Accumulate` is one client (spec §5).

* **`ContributionBounded`**: an instance that absorbed `n` contributions holds sums
  within `n` times each enforced bound. The L-infinity bound applies per ordinal; the
  L1 and L2 bounds apply over the vector. Merges are included.

### GroupByFactory

`GroupByFactory` models `GroupByFactory::Create` as the operator `GroupByCreate`,
with `CheckIntrinsic`, `CreateAggregators` and the constructor's `FCP_CHECK`s
(`GroupByConstructor`) as operators in the code's order. `CreateAggregators` is a
fold over the nested intrinsics; it calls the factory registered under each URI,
which for a nested group-by is `GroupByCreate` again (the two are mutually
recursive), and pushes the result of the `dynamic_cast` unchecked (`"null"` when
the aggregator is not a `OneDimBaseGroupingAggregator`). The registry and the sum
factories are not in this repository and are modelled from spec §4.3/§4.5.
The harness is one action, `Create`, on any intrinsic of `MCGroupByFactory`:
outer URI group-by or sum, at most one input and output spec over two dtypes and
two shapes, 0 or 1 parameters, and up to two nested intrinsics out of seven
(valid sum, bad dtype pair, DP sum with and without its three bounds, an
unregistered URI, a URI without the prefix, and a nested group-by).

* **`FactoryNeverCrashesConstructor`**: whatever the intrinsic, `Create` returns a
  Status; the constructor's `FCP_CHECK`s never fire.
* **`NestedAggregatorsGrouping`**: a created group-by has only grouping
  aggregators nested, so the unchecked cast is never null.

### HTTP federated protocol

`HttpFederatedProtocol` has one action per call of a caller that follows the
`FederatedProtocol` contract: `EligibilityEvalCheckin` (the request, the
response handling, `FetchTaskResources` and the permanent-error update),
`Checkin` when the result was a task or "disabled", and `GetLatestRetryWindow`
at any time. Responses are a transport error with a code, an unparsable body,
or a parsed response choosing rejection, target URI, result and the two retry
windows; `PickRetryTimeFromRange` is a choice in `[min, max]` with
`MaxDelay = 2`. The constructor's flag is the constant `PermanentCodes`.

* **`NoCrashForContractCaller`**: no `FCP_CHECK` fails for a contract caller.
* **`RetryPolicyRefined`**: the protocol implements `RetryPolicy`, the
  abstract promise of the error-handling note at lines 69-103: before any
  server answer the window is the transient one; once the server sent retry
  times they never change and every window is one of them; after a
  permanent error every window is the permanent one. The mapping sends
  `retryTimes` to the set of its two times and `permanentSeen` to
  `permanent`.
* **`PermanentErrorWindow`** (violation run only): after a call returned a
  permanent-error code, the window is the permanent-error one (the comment at
  lines 454-466).

| run | bounds | properties | result |
|---|---|---|---|
| `CheckpointParser` | ≤2 entries, all prefixes, 2 headers, 3 query names | TypeOK, EmitParseRoundTrip | pass (4212 states) |
| `CheckpointReaderFailures` | same | ReaderFailuresPerSpec | **violation** |
| `DPSum` | 2 instances, batches of ≤2 rows, 6 bound choices, ≤2 accumulates per instance | ContributionBounded | pass (280485 states) |
| `HttpProtocol` | PermanentCodes {3,5}, transport/fetch codes {5,14}, MaxDelay 2 | NoCrashForContractCaller, RetryPolicyRefined | pass (132 states) |
| `HttpUnimplementedPermanent` | PermanentCodes {3,5,12} | PermanentErrorWindow | **violation** |
| `HttpOkListedPermanent` | PermanentCodes {0,5} | NoCrashForContractCaller | **violation** |
| `GroupByFactory` | 5700 intrinsics, nesting ≤2 deep, prefixed URIs {sum, dp_sum, unknown} | FactoryNeverCrashesConstructor, NestedAggregatorsGrouping | pass (11400 states) |

The parser, HTTP and factory runs set `CHECK_DEADLOCK FALSE`: after `Create` fails no
call is possible on a parser, and a contract caller stops after `Checkin`.
`GroupByFactory::Create` is called once and returns.

In the factory run the group-by URI does not carry `kFedSqlPrefix`. The code names it
`fedsql_group_by` (`group_by_aggregator.cc:461`), and the prefix check at `:471-477` then
rejects a nested group-by before the unchecked cast at `:448`. The URIs listed in
spec §6 all start with `GoogleSQL:`; the code does not follow that, so no run assumes it.

The HTTP model makes no liveness claim. Each call of the contract caller happens at
most once and `GetLatestRetryWindow` is always enabled. Under the caller's fairness,
"the session ends with a window" would therefore hold exactly when
`NoCrashForContractCaller` does.

## Findings

* **Key-less merge that fails after consuming its peer** (`GroupByNoKeyMismatch`).
  `IsCompatible` returns OK for two aggregators without keys without comparing their
  intrinsics (`group_by_aggregator.cc:365-367`). `MergeWith` then consumes the peer
  (`:139`), and only afterwards fails the tensor-count check in `MergeTensorsInternal`
  (`:261`) with `INVALID_ARGUMENT`. Spec §7 says a failed validation does not mutate
  observable state. Here the peer's data is lost, and the peer answers every later call
  with `FAILED_PRECONDITION`.
* **Truncated checkpoints are accepted** (`CheckpointReaderFailures`). The loop stops
  when the stream ends (`federated_compute_checkpoint_parser.cc:74`), so a stream
  without the `name_len 0` terminator, even the bare header, parses `OK`. Spec
  §4.6 says truncation fails `INTERNAL`. `ReaderFailuresPerSpec` conjoins this case
  with the next one. TLC reports the shorter trace, the truncated one: input
  `<<70,67,67,0>>` is created `OK`.
* **Malformed tensor is `INTERNAL`** (`CheckpointReaderFailures`). A proto that
  does not parse returns `InternalError` (`:102-105`). Spec §4.6 says
  `INVALID_ARGUMENT`.
* **`Checkin`'s `UNIMPLEMENTED` is never a permanent error**
  (`HttpUnimplementedPermanent`). `Checkin` returns `UNIMPLEMENTED` without calling
  `UpdateObjectStateIfPermanentError` (`http_federated_protocol.cc:392`). With that
  code in the flag, the retry window is the server's, against the comment at
  `:461-466`.
* **OK in the permanent-error flag crashes the client** (`HttpOkListedPermanent`).
  The permanent-error update runs on successes too (`:481-483`), and the flag is not
  validated. If it lists 0, a successful eligibility check-in moves to a
  permanent-error state and the contract caller's `Checkin` fails its `FCP_CHECK`
  (`:379`).

* **A sum merges with a DP sum** (`GroupBySumVsDpSum`). `IsCompatible` compares the
  key specs and each intrinsic's input and output specs, not its URI (`:382`). Spec §4.4
  requires the same URIs, so two instances with a sum and a DP sum over the same
  specs merge.

## Not modelled, and why

* The SecAgg state, event publisher, opstats logger, eligibility decider, the pybind
  shim and the TensorFlow checkpoint reader/writer are declarations or I/O wrappers.
  None of them holds state in this repository.
* The DP grouping sum's implementation is not in this repository; only its test is.
  `DPGroupingFederatedSum` models it from spec §4.3 and the test, on the
  `OneDimGroupingAggregator` operators the code does have. It is not nested inside
  `GroupByAggregator` in a run. That would multiply the group-by state spaces, which
  already take minutes, by the bound choices. The per-ordinal bounding does not depend
  on the keys; the group-by only supplies the ordinals.
* `IsCompatible` ignores intrinsic parameters (`group_by_aggregator.cc:382`), so two DP
  sums with different bounds merge. The spec does not say which bounds the result must
  respect, so this is a hazard without a property. The DP run gives all instances the
  bounds of one intrinsic.
* Negative ordinals: `ValidateTensorInputs` does not range-check ordinals, and a
  negative one would be written before the data vector. In this repository the
  ordinals always come from the combiner, which emits them in `[0, K)`. The spec states
  no precondition, so this is a hazard without a property.
* Self-merge (`a.MergeWith(std::move(a))`) is undefined behaviour, listed as a hazard.
* Duplicate tensor names in a checkpoint: the parser's `emplace` keeps the first, and the
  spec says nothing about them, so there is no property to state yet.
* A second `GetTensor` of one name returns `OK` with the moved-from, `DT_INVALID`
  tensor (parser line 45). The spec does not say what it should return, so no
  property states it.
* `ReportCompleted`/`ReportNotCompleted` need `kCheckinAccepted`, which no call sets;
  HTTP headers, URI building and byte counters do not affect the object state.

## Plan

1. GroupBy core, checkpoint parser, HTTP protocol: done, as above.
2. `GroupByFactory`: done, as above.
3. `RetryPolicy`, the abstract spec of the HTTP retry windows, refined by
   `HttpFederatedProtocol`: done.
4. Compose the factory with the aggregator: instances created by `GroupByCreate` from
   the bounded intrinsics, instead of the hand-written schemas.
5. Duplicate names in a checkpoint: state what the parser keeps once the spec says.
6. DP grouping sum: done (`DPSum`). Next, nest it in a small group-by instance.
