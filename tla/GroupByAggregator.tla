--------------------------- MODULE GroupByAggregator ---------------------------
(***************************************************************************)
(* GroupByAggregator of fcp/aggregation/core/group_by_aggregator.cc,       *)
(* composed with its CompositeKeyCombiner and its nested                   *)
(* OneDimGroupingAggregator (federated sum) instances.                     *)
(*                                                                         *)
(* Several instances exist side by side (CONSTANT Aggs), each created by   *)
(* GroupByFactory::Create from the intrinsic Schema[a]:                    *)
(*   keyTypes    the dtypes of the grouping keys (input = output specs),   *)
(*   keyNames    the output key names ("" = not emitted),                  *)
(*   intrinsics  per nested intrinsic, its URI and its input and output   *)
(*               value dtype.                                              *)
(* One owner drives them (spec section 5): every call runs to completion, *)
(* so each call is one atomic step; the interleaving that matters is the   *)
(* order of Accumulate, MergeWith and Report calls over the instances.     *)
(***************************************************************************)
EXTENDS Integers, Sequences, SequencesExt, Functions, FiniteSets, Tensor

LOCAL OD == INSTANCE OneDimGroupingAggregator
LOCAL KC == INSTANCE CompositeKeyCombiner

CONSTANTS
    Aggs,       \* the GroupByAggregator instances
    Schema,     \* Schema[a]: [keyTypes, keyNames, intrinsics] of instance a
    KeyVals,    \* the values a key column may hold
    Vals,       \* the values a value column may hold
    MaxRows,    \* the most rows in one contribution
    MaxInputs   \* the most contributions accumulated into one instance

ASSUME \A a \in Aggs : Len(Schema[a].keyTypes) = Len(Schema[a].keyNames)
\* GroupByAggregator constructor: FCP_CHECK(num_tensors_per_input_ > 0).
ASSUME \A a \in Aggs : Len(Schema[a].keyTypes) + Len(Schema[a].intrinsics) > 0

VARIABLES
    agg,        \* agg[a]: [consumed, numInputs, keys, nested] of instance a
    output,     \* output[a]: [done, tensors], what Report returned
    status,     \* the Status returned by the last call
    fatal       \* an FCP_CHECK failed: the process aborted

vars == <<agg, output, status, fatal>>

Statuses == {"OK", "INVALID_ARGUMENT", "FAILED_PRECONDITION"}

NumKeys(a) == Len(Schema[a].keyTypes)
NumValueInputs(a) == Len(Schema[a].intrinsics)

(***************************************************************************)
(* Contributions.  A well-formed contribution is built from rows, one key  *)
(* tuple and one value per nested intrinsic each, as a list of 1-D        *)
(* tensors (or scalars for a single row).  The malformed ones break one    *)
(* check each: the tensor count, the dimensions, a value dtype, a value    *)
(* shape, a key dtype.                                                     *)
(***************************************************************************)
RowSet(a) == [key : [1..NumKeys(a) -> KeyVals], vals : [1..NumValueInputs(a) -> Vals]]

ToTensors(a, rows, shape) ==
    [c \in 1..(NumKeys(a) + NumValueInputs(a)) |->
        IF c <= NumKeys(a)
        THEN MakeTensor(Schema[a].keyTypes[c], shape,
                        [r \in DOMAIN rows |-> rows[r].key[c]])
        ELSE MakeTensor(Schema[a].intrinsics[c - NumKeys(a)].in, shape,
                        [r \in DOMAIN rows |-> rows[r].vals[c - NumKeys(a)]])]

AccRows(a) == BoundedSeq(RowSet(a), MaxRows)

WellFormedInputs(a) ==
    {ToTensors(a, rows, <<Len(rows)>>) : rows \in AccRows(a)}
    \cup {ToTensors(a, <<r>>, <<>>) : r \in RowSet(a)}

MalformedInputs(a) ==
    LET base == ToTensors(a, <<CHOOSE r \in RowSet(a) : TRUE>>, <<1>>)
        v    == NumKeys(a) + 1
    IN  {Front(base),
         [base EXCEPT ![1].shape = <<1, 1>>]}
        \cup (IF NumValueInputs(a) > 0
              THEN {[base EXCEPT ![v].dtype = "DT_FLOAT"],
                    [base EXCEPT ![v].shape = <<>>]}
              ELSE {})
        \cup (IF NumKeys(a) > 0 THEN {[base EXCEPT ![1].dtype = "DT_FLOAT"]}
                                ELSE {})

(***************************************************************************)
(* The operations, translated from group_by_aggregator.cc.                 *)
(***************************************************************************)
NewGroupBy(a) ==
    [consumed |-> FALSE, numInputs |-> 0, keys |-> <<>>,
     nested |-> [i \in 1..NumValueInputs(a) |-> OD!NewOneDimAggregator]]

\* CheckValid: FAILED_PRECONDITION once the output has been consumed.
CheckValid(a) == IF agg[a].consumed THEN "FAILED_PRECONDITION" ELSE "OK"

\* A bug for the checks to catch: the dtype comparison is left out.
ValidateInputTensorIgnoresDType(t, dtype, keyShape) ==
    IF t.shape # keyShape \/ ~IsDense(t) THEN "INVALID_ARGUMENT" ELSE "OK"

\* ValidateInputTensor: dtype, shape equal to the first key's, dense.
ValidateInputTensor(t, dtype, keyShape) ==
    IF t.dtype # dtype \/ t.shape # keyShape \/ ~IsDense(t)
    THEN "INVALID_ARGUMENT" ELSE "OK"

\* The checks that AggregateTensorsInternal and MergeTensorsInternal make
\* before touching any state; field is "in" for Accumulate, "out" for Merge.
PreChecks(a, tensors, field) ==
    CASE Len(tensors) # NumKeys(a) + NumValueInputs(a) -> "INVALID_ARGUMENT"
      [] Len(tensors[1].shape) > 1                     -> "INVALID_ARGUMENT"
      [] \E i \in 1..NumValueInputs(a) :
            ValidateInputTensor(tensors[NumKeys(a) + i],
                                Schema[a].intrinsics[i][field],
                                tensors[1].shape) # "OK" -> "INVALID_ARGUMENT"
      [] OTHER -> "OK"

\* A bug for the checks to catch: without keys, each row its own ordinal.
CreateOrdinalsPerRow(a, tensors) ==
    IF NumKeys(a) > 0
    THEN KC!CombinerAccumulate(Schema[a].keyTypes, agg[a].keys,
                               SubSeq(tensors, 1, NumKeys(a)))
    ELSE [status |-> "OK", keys |-> agg[a].keys,
          ordinals |-> MakeTensor("DT_INT64", tensors[1].shape,
                                  [r \in 1..NumElements(tensors[1]) |-> r - 1])]

\* CreateOrdinalsByGroupingKeys (and ...ForMerge, which is the same): the
\* combiner's ordinals, or all zeros when there are no keys.
CreateOrdinalsByGroupingKeys(a, tensors) ==
    IF NumKeys(a) > 0
    THEN KC!CombinerAccumulate(Schema[a].keyTypes, agg[a].keys,
                               SubSeq(tensors, 1, NumKeys(a)))
    ELSE [status |-> "OK", keys |-> agg[a].keys,
          ordinals |-> MakeTensor("DT_INT64", tensors[1].shape,
                                  [r \in 1..NumElements(tensors[1]) |-> 0])]

\* A bug for the checks to catch: on merge, the peer's positions reused
\* instead of re-interning its keys.
CreateOrdinalsFromPeerPositions(a, tensors) ==
    [status |-> "OK", keys |-> agg[a].keys,
     ordinals |-> MakeTensor("DT_INT64", tensors[1].shape,
                             [r \in 1..NumElements(tensors[1]) |-> r - 1])]

CreateOrdinalsByGroupingKeysForMerge(a, tensors) ==
    CreateOrdinalsByGroupingKeys(a, tensors)

\* The nested step of AggregateTensorsInternal / MergeTensorsInternal for
\* nested aggregator i, given the ordinals.
NestedAccumulate(a, i, ords, tensors, n) ==
    OD!Accumulate(agg[a].nested[i], <<ords, tensors[NumKeys(a) + i]>>,
                  Schema[a].intrinsics[i].in)

NestedMerge(a, i, ords, tensors, n) ==
    OD!MergeTensors(agg[a].nested[i], <<ords, tensors[NumKeys(a) + i]>>, n,
                    Schema[a].intrinsics[i].out)

\* AggregateTensorsInternal / MergeTensorsInternal: the pre-checks, the
\* ordinals (which mutate the combiner), then every nested aggregator; a
\* nested failure after that point is an FCP_CHECK crash ("FATAL").
\* Returns [status, g] with g the new state of instance a.
ProcessTensors(a, tensors, field, n) ==
    LET pre == PreChecks(a, tensors, field)
        ord == IF field = "in" THEN CreateOrdinalsByGroupingKeys(a, tensors)
                               ELSE CreateOrdinalsByGroupingKeysForMerge(a, tensors)
        res == [i \in 1..NumValueInputs(a) |->
                  IF field = "in" THEN NestedAccumulate(a, i, ord.ordinals, tensors, n)
                                  ELSE NestedMerge(a, i, ord.ordinals, tensors, n)]
    IN
    CASE pre # "OK"        -> [status |-> pre, g |-> agg[a]]
      [] ord.status # "OK" -> [status |-> ord.status, g |-> agg[a]]
      [] \E i \in DOMAIN res : res[i].status # "OK" -> [status |-> "FATAL", g |-> agg[a]]
      [] OTHER -> [status |-> "OK",
                   g |-> [agg[a] EXCEPT !.keys = ord.keys,
                                        !.nested = [i \in DOMAIN res |-> res[i].agg]]]

AggregateTensorsInternal(a, tensors) ==
    ProcessTensors(a, tensors, "in", 0)

MergeTensorsInternal(a, tensors, n) ==
    ProcessTensors(a, tensors, "out", n)

\* TakeOutputsInternal: mark consumed, the combiner's key columns (moved
\* out), then each nested aggregator's report; the nested aggregators are
\* moved out of aggregators_.
TakeOutputsInternal(a) ==
    [g |-> [agg[a] EXCEPT !.consumed = TRUE, !.keys = <<>>,
                          !.nested = [i \in DOMAIN @ |-> OD!NullAggregator]],
     outputs |-> (IF NumKeys(a) > 0
                  THEN KC!GetOutputKeys(Schema[a].keyTypes, agg[a].keys)
                  ELSE <<>>)
                 \o FlattenSeq([i \in 1..NumValueInputs(a) |->
                       OD!TakeOutputs(agg[a].nested[i], Schema[a].intrinsics[i].out)])]

\* TakeOutputs: the internal outputs without the key columns whose output
\* name is empty.
TakeOutputs(a) ==
    LET internal == TakeOutputsInternal(a).outputs
        keep     == SelectSeq([c \in DOMAIN internal |-> c],
                              LAMBDA c : c > NumKeys(a) \/ Schema[a].keyNames[c] # "")
    IN  [j \in DOMAIN keep |-> internal[keep[j]]]

\* A bug for the checks to catch: the key-combiner presence is not compared.
IsCompatibleIgnoresCombiner(other, this) ==
    LET so == Schema[other]
        st == Schema[this]
    IN
    CASE Len(so.keyTypes) = 0 \/ Len(st.keyTypes) = 0           -> "OK"
      [] so.keyTypes # st.keyTypes \/ so.keyNames # st.keyNames -> "INVALID_ARGUMENT"
      [] OTHER -> "OK"

\* IsCompatible, called as other.IsCompatible(*this): the presence of a
\* key combiner must agree; without one nothing else is compared.
IsCompatible(other, this) ==
    LET so == Schema[other]
        st == Schema[this]
    IN
    CASE (Len(so.keyTypes) = 0) # (Len(st.keyTypes) = 0) -> "INVALID_ARGUMENT"
      [] Len(so.keyTypes) = 0                             -> "OK"
      [] so.keyTypes # st.keyTypes \/ so.keyNames # st.keyNames -> "INVALID_ARGUMENT"
      [] Len(so.intrinsics) # Len(st.intrinsics)          -> "INVALID_ARGUMENT"
      [] \E i \in DOMAIN so.intrinsics :
            so.intrinsics[i].in # st.intrinsics[i].in
            \/ so.intrinsics[i].out # st.intrinsics[i].out -> "INVALID_ARGUMENT"
      [] OTHER -> "OK"

(***************************************************************************)
(* Actions: one per public call.                                           *)
(***************************************************************************)
Init ==
    /\ agg = [a \in Aggs |-> NewGroupBy(a)]
    /\ output = [a \in Aggs |-> [done |-> FALSE, tensors |-> <<>>]]
    /\ status = "OK"
    /\ fatal = FALSE

\* A bug for the checks to catch: num_inputs_++ before the status check.
AccumulateCountsFailures(a, tensors) ==
    /\ ~fatal
    /\ agg[a].numInputs < MaxInputs
    /\ IF CheckValid(a) # "OK"
       THEN /\ status' = CheckValid(a)
            /\ UNCHANGED <<agg, fatal>>
       ELSE LET r == AggregateTensorsInternal(a, tensors) IN
            IF r.status = "FATAL"
            THEN /\ fatal' = TRUE
                 /\ UNCHANGED <<agg, status>>
            ELSE /\ status' = r.status
                 /\ agg' = [agg EXCEPT ![a] = [r.g EXCEPT !.numInputs = @ + 1]]
                 /\ UNCHANGED fatal
    /\ UNCHANGED output

\* TensorAggregator::Accumulate -> CheckValid, AggregateTensors, which
\* increments num_inputs_ after AggregateTensorsInternal succeeds.
Accumulate(a, tensors) ==
    /\ ~fatal
    /\ agg[a].numInputs < MaxInputs
    /\ IF CheckValid(a) # "OK"
       THEN /\ status' = CheckValid(a)
            /\ UNCHANGED <<agg, fatal>>
       ELSE LET r == AggregateTensorsInternal(a, tensors) IN
            IF r.status = "FATAL"
            THEN /\ fatal' = TRUE
                 /\ UNCHANGED <<agg, status>>
            ELSE /\ status' = r.status
                 /\ agg' = IF r.status = "OK"
                           THEN [agg EXCEPT ![a] = [r.g EXCEPT !.numInputs = @ + 1]]
                           ELSE agg
                 /\ UNCHANGED fatal
    /\ UNCHANGED output

\* MergeWith(other): both valid and compatible; the peer is consumed by
\* TakeOutputsInternal before its outputs are merged; num_inputs_ grows by
\* the peer's count.  Merging an instance into itself is not modelled.
MergeWith(a, b) ==
    /\ ~fatal
    /\ a # b
    /\ UNCHANGED output
    /\ CASE CheckValid(a) # "OK" ->
              status' = CheckValid(a) /\ UNCHANGED <<agg, fatal>>
         [] CheckValid(b) # "OK" ->
              status' = CheckValid(b) /\ UNCHANGED <<agg, fatal>>
         [] IsCompatible(b, a) # "OK" ->
              status' = IsCompatible(b, a) /\ UNCHANGED <<agg, fatal>>
         [] OTHER ->
              LET n    == agg[b].numInputs
                  take == TakeOutputsInternal(b)
                  r    == MergeTensorsInternal(a, take.outputs, n)
              IN  CASE r.status = "FATAL" ->
                         fatal' = TRUE /\ UNCHANGED <<agg, status>>
                    [] r.status # "OK" ->
                         /\ status' = r.status
                         /\ agg' = [agg EXCEPT ![b] = take.g]
                         /\ UNCHANGED fatal
                    [] OTHER ->
                         /\ status' = "OK"
                         /\ agg' = [agg EXCEPT ![b] = take.g,
                                               ![a] = [r.g EXCEPT !.numInputs = @ + n]]
                         /\ UNCHANGED fatal

\* TensorAggregator::Report -> CanReport, then TakeOutputs.
Report(a) ==
    /\ ~fatal
    /\ IF CheckValid(a) # "OK"
       THEN status' = CheckValid(a) /\ UNCHANGED <<agg, output>>
       ELSE /\ status' = "OK"
            /\ output' = [output EXCEPT ![a] = [done |-> TRUE, tensors |-> TakeOutputs(a)]]
            /\ agg' = [agg EXCEPT ![a] = TakeOutputsInternal(a).g]
    /\ UNCHANGED fatal

Next ==
    \/ \E a \in Aggs : \E t \in WellFormedInputs(a) \cup MalformedInputs(a) : Accumulate(a, t)
    \/ \E a, b \in Aggs : MergeWith(a, b)
    \/ \E a \in Aggs : Report(a)

Spec == Init /\ [][Next]_vars

(***************************************************************************)
(* Refinement: the state of an instance, read through its combiner's       *)
(* ordinals, is the key -> sums map of AggregatorSpec.                     *)
(***************************************************************************)
\* The sums of a live instance: the value of key k for nested aggregator i
\* is data[ordinal(k) + 1]; without keys the single implicit group <<>>
\* exists once a row has been accumulated.
AbsSums(a) ==
    LET g == agg[a] IN
    CASE g.consumed -> [k \in {} |-> <<>>]
      [] NumKeys(a) > 0 ->
           [k \in Range(g.keys) |->
              [i \in 1..NumValueInputs(a) |-> g.nested[i].data[KC!Ordinal(g.keys, k) + 1]]]
      [] NumValueInputs(a) > 0 /\ Len(g.nested[1].data) > 0 ->
           [k \in {<<>>} |-> [i \in 1..NumValueInputs(a) |-> g.nested[i].data[1]]]
      [] OTHER -> [k \in {} |-> <<>>]

\* The rows of a report, as a bag: row r is the r-th element of every
\* output column.
OutputBag(a) ==
    LET ts     == output[a].tensors
        Row(r) == [c \in DOMAIN ts |-> ts[c].data[r]]
        rows   == IF ts = <<>> THEN {} ELSE 1..Len(ts[1].data)
    IN  [x \in {Row(r) : r \in rows} |-> Cardinality({r \in rows : Row(r) = x})]

Abs == INSTANCE AggregatorSpec WITH
    KeyNames  <- [a \in Aggs |-> Schema[a].keyNames],
    NumValues <- [a \in Aggs |-> NumValueInputs(a)],
    AccInputs <- [a \in Aggs |-> AccRows(a)],
    sums      <- [a \in Aggs |-> AbsSums(a)],
    count     <- [a \in Aggs |-> agg[a].numInputs],
    consumed  <- [a \in Aggs |-> agg[a].consumed],
    report    <- [a \in Aggs |-> [done |-> output[a].done, rows |-> OutputBag(a)]]

(***************************************************************************)
(* Properties.                                                             *)
(***************************************************************************)
TypeOK ==
    /\ agg \in [Aggs -> [consumed : BOOLEAN, numInputs : Nat,
                         keys : Seq(UNION {[1..NumKeys(a) -> KeyVals] : a \in Aggs}),
                         nested : Seq([data : Seq(Int), numInputs : Nat,
                                       valid : BOOLEAN])]]
    /\ \A a \in Aggs :
          /\ output[a].done \in BOOLEAN
          /\ \A c \in DOMAIN output[a].tensors :
                LET t == output[a].tensors[c] IN
                /\ t.dtype \in DTypes /\ t.shape \in Seq(Nat)
                /\ \A r \in DOMAIN t.data : t.data[r] \in KeyVals \/ t.data[r] \in Int
    /\ status \in Statuses
    /\ fatal \in BOOLEAN

\* Every call that returns an error status leaves every aggregator as it
\* was (spec section 7: validation failures are returned "without mutating
\* observable state"); this covers the peer of a failed MergeWith.
FailedCallsDoNotMutate == [][status' # "OK" => UNCHANGED agg]_vars

\* A nested aggregator never fails after the key combiner has been mutated
\* (the FCP_CHECKs of AggregateTensorsInternal / MergeTensorsInternal):
\* the GroupBy pre-checks subsume every check the nested aggregators make.
NoFatalAfterMutation == ~fatal

\* The combiner and the nested aggregators of a live instance stay in step:
\* each nested aggregator has counted exactly the instance's inputs and
\* holds one accumulator per interned key (at most one without keys).
NestedStateAligned ==
    \A a \in Aggs : ~agg[a].consumed =>
        \A i \in 1..NumValueInputs(a) :
            /\ agg[a].nested[i].numInputs = agg[a].numInputs
            /\ IF NumKeys(a) > 0
               THEN Len(agg[a].nested[i].data) = Len(agg[a].keys)
               ELSE Len(agg[a].nested[i].data) <= 1

\* The GroupBy aggregator, read through its ordinals, implements the
\* abstract aggregator: accumulated values end up under their own key,
\* a merge re-interns the peer's keys into this instance's ordinal space,
\* counts add up, and the report emits each key's sums exactly once.
AggregatorSpecRefined == Abs!Spec

\* Spec section 4.4: MergeWith accepts a peer only with "the same nested
\* intrinsic list (same URIs, same input and output specs)".  Whenever a
\* step consumes an instance without reporting it (MergeWith's
\* TakeOutputsInternal) and changes another, the two use the same nested
\* intrinsic URIs.
MergeOnlySameIntrinsics ==
    [][\A b \in Aggs :
          (~agg[b].consumed /\ agg'[b].consumed /\ UNCHANGED output)
          => \A a \in Aggs \ {b} :
                agg'[a] # agg[a] =>
                   [i \in 1..NumValueInputs(a) |-> Schema[a].intrinsics[i].uri]
                   = [i \in 1..NumValueInputs(b) |-> Schema[b].intrinsics[i].uri]]_vars
=============================================================================
