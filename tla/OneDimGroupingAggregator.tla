----------------------- MODULE OneDimGroupingAggregator -----------------------
(***************************************************************************)
(* OneDimGroupingAggregator<InputT, OutputT> of                            *)
(* fcp/aggregation/core/one_dim_grouping_aggregator.h, specialised to the  *)
(* grouping federated sum (the subclass the GroupBy tests nest).           *)
(*                                                                         *)
(* An instance is a record                                                 *)
(*   [data : Seq(Int), numInputs : Nat, valid : BOOLEAN]                   *)
(* where data is data_vector_ (data[o+1] is the accumulator of ordinal o)  *)
(* and valid is FALSE once TakeOutputs has moved data_vector_ out.  Every  *)
(* operation is an operator from the instance and its arguments to a       *)
(* record [status, agg] giving the returned Status and the new instance,   *)
(* so that the GroupBy module can apply them to each nested aggregator.   *)
(***************************************************************************)
EXTENDS Integers, Sequences, SequencesExt, Functions, Tensor

\* The constructor: an empty data vector and no inputs.
NewOneDimAggregator == [data |-> <<>>, numInputs |-> 0, valid |-> TRUE]

\* The null aggregator that std::move(aggregators_[i]) leaves behind.
NullAggregator == [data |-> <<>>, numInputs |-> 0, valid |-> FALSE]

Result(status, agg) == [status |-> status, agg |-> agg]

\* GetDefaultValue of the federated sum: OutputT{0}.
GetDefaultValue == 0

\* ValidateTensorInputs: the ordinals tensor is DT_INT64, both tensors have
\* the same shape of at most one dimension and are dense.  The FCP_CHECK on
\* the list size is a crash, returned here as "FATAL".
ValidateTensorInputs(tensors) ==
    CASE Len(tensors) # 2                        -> "FATAL"
      [] tensors[1].dtype # "DT_INT64"           -> "INVALID_ARGUMENT"
      [] tensors[1].shape # tensors[2].shape     -> "INVALID_ARGUMENT"
      [] Len(tensors[2].shape) > 1               -> "INVALID_ARGUMENT"
      [] ~IsDense(tensors[1]) \/ ~IsDense(tensors[2]) -> "INVALID_ARGUMENT"
      [] OTHER                                   -> "OK"

\* A bug for the checks to catch: final_size = o.value + 2.
ResizeDataVectorOverAllocates(data, ordinals) ==
    LET finalSize == FoldSeq(LAMBDA o, m : IF o + 2 > m THEN o + 2 ELSE m,
                             Len(data), ordinals)
    IN  [i \in 1..finalSize |-> IF i <= Len(data) THEN data[i]
                                                  ELSE GetDefaultValue]

\* ResizeDataVector: grow data to one past the largest ordinal, padding
\* with the default value; never shrink.
ResizeDataVector(data, ordinals) ==
    LET finalSize == FoldSeq(LAMBDA o, m : IF o + 1 > m THEN o + 1 ELSE m,
                             Len(data), ordinals)
    IN  [i \in 1..finalSize |-> IF i <= Len(data) THEN data[i]
                                                  ELSE GetDefaultValue]

\* AggregateVectorByOrdinals / MergeVectorByOrdinals of the federated sum:
\* data[o] += v for every (o, v) pair of the batch.
AddByOrdinals(data, ordinals, values) ==
    [i \in DOMAIN data |->
        data[i] + SumFunctionOnSet(values,
                                   {j \in DOMAIN ordinals : ordinals[j] = i - 1})]

\* AggregateTensors(tensors): validation, the input dtype check, then
\* num_inputs_++, resize and the reduction.
AggregateTensors(agg, tensors, inputDType) ==
    LET v == ValidateTensorInputs(tensors) IN
    CASE v # "OK"                       -> Result(v, agg)
      [] tensors[2].dtype # inputDType  -> Result("INVALID_ARGUMENT", agg)
      [] OTHER ->
           Result("OK",
             [agg EXCEPT
                !.numInputs = @ + 1,
                !.data = AddByOrdinals(ResizeDataVector(@, tensors[1].data),
                                       tensors[1].data, tensors[2].data)])

\* A bug for the checks to catch: num_inputs_ -= num_inputs.
MergeTensorsSubtractsCount(agg, tensors, numInputs, outputDType) ==
    LET v == ValidateTensorInputs(tensors) IN
    CASE v # "OK"                        -> Result(v, agg)
      [] tensors[2].dtype # outputDType  -> Result("INVALID_ARGUMENT", agg)
      [] OTHER ->
           Result("OK",
             [agg EXCEPT
                !.numInputs = @ - numInputs,
                !.data = AddByOrdinals(ResizeDataVector(@, tensors[1].data),
                                       tensors[1].data, tensors[2].data)])

\* MergeTensors(tensors, num_inputs): as AggregateTensors, but the values
\* have the output dtype and num_inputs_ grows by the peer's count.
MergeTensors(agg, tensors, numInputs, outputDType) ==
    LET v == ValidateTensorInputs(tensors) IN
    CASE v # "OK"                        -> Result(v, agg)
      [] tensors[2].dtype # outputDType  -> Result("INVALID_ARGUMENT", agg)
      [] OTHER ->
           Result("OK",
             [agg EXCEPT
                !.numInputs = @ + numInputs,
                !.data = AddByOrdinals(ResizeDataVector(@, tensors[1].data),
                                       tensors[1].data, tensors[2].data)])

\* CheckValid: FAILED_PRECONDITION once data_vector_ has been moved out.
CheckValid(agg) == IF agg.valid THEN "OK" ELSE "FAILED_PRECONDITION"

\* TensorAggregator::Accumulate: CheckValid, then AggregateTensors.
Accumulate(agg, tensors, inputDType) ==
    IF CheckValid(agg) # "OK" THEN Result(CheckValid(agg), agg)
    ELSE AggregateTensors(agg, tensors, inputDType)

\* TakeOutputs: one tensor of dtype OutputT and shape {size} holding the
\* data vector, which is moved out.
TakeOutputs(agg, outputDType) ==
    <<MakeTensor(outputDType, <<Len(agg.data)>>, agg.data)>>

\* TensorAggregator::Report: FAILED_PRECONDITION unless CanReport, then
\* TakeOutputs; the instance is left consumed.
Report(agg, outputDType) ==
    IF CheckValid(agg) # "OK"
    THEN [status |-> CheckValid(agg), agg |-> agg, outputs |-> <<>>]
    ELSE [status |-> "OK", agg |-> [agg EXCEPT !.valid = FALSE, !.data = <<>>],
          outputs |-> TakeOutputs(agg, outputDType)]
=============================================================================
