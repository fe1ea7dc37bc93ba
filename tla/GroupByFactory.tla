---------------------------- MODULE GroupByFactory ----------------------------
(***************************************************************************)
(* GroupByFactory::Create, CheckIntrinsic and CreateAggregators of         *)
(* fcp/aggregation/core/group_by_aggregator.cc, together with the backup   *)
(* FCP_CHECKs of the GroupByAggregator constructor they end in.            *)
(*                                                                         *)
(* An intrinsic is a record [uri, inputs, outputs, params, nested]: the    *)
(* TensorSpecs (each [dtype, shape]) of its inputs and outputs, the number *)
(* of its parameter tensors and the list of its nested intrinsics.  URIs  *)
(* are model values; FedSqlPrefixed is the set of them that start with     *)
(* kFedSqlPrefix.  The registry and the nested sum factories are not in    *)
(* this repository and are modelled from spec sections 4.3 and 4.5.        *)
(***************************************************************************)
EXTENDS Integers, Sequences, SequencesExt

CONSTANTS
    GroupByUri,      \* kGroupByUri, under which GroupByFactory is registered
    SumUri,          \* the grouping federated sum
    DpSumUri,        \* the DP grouping federated sum
    FedSqlPrefixed,  \* the URIs that start with kFedSqlPrefix
    Intrinsics       \* the intrinsics Create may be handed

VARIABLES
    intrinsic,       \* the intrinsic handed to Create
    result           \* what Create returned, "FATAL" if an FCP_CHECK failed

vars == <<intrinsic, result>>

UnknownShape == <<-1>>

(***************************************************************************)
(* The registry and the nested factories (spec sections 4.3 and 4.5).      *)
(***************************************************************************)
\* GetAggregatorFactory: the kind of factory registered under a URI.
RegisteredKind(uri) ==
    CASE uri = GroupByUri -> "group_by"
      [] uri = SumUri     -> "sum"
      [] uri = DpSumUri   -> "dp_sum"
      [] OTHER            -> "none"

SupportedPairs == {<<"DT_INT32", "DT_INT64">>, <<"DT_INT64", "DT_INT64">>}

\* The sum factories: one input and one output of shape {-1} forming a
\* supported (input, output) dtype pair, and the expected parameter count
\* (none for the sum, three bounds for the DP sum).  They build a
\* OneDimGroupingAggregator.
SumFactoryCreate(intr, numParams) ==
    IF /\ Len(intr.inputs) = 1 /\ Len(intr.outputs) = 1
       /\ <<intr.inputs[1].dtype, intr.outputs[1].dtype>> \in SupportedPairs
       /\ intr.inputs[1].shape = UnknownShape
       /\ intr.outputs[1].shape = UnknownShape
       /\ intr.params = numParams
    THEN [status |-> "OK", kind |-> "one_dim"]
    ELSE [status |-> "INVALID_ARGUMENT"]

(***************************************************************************)
(* The code.                                                               *)
(***************************************************************************)
\* A bug for the checks to catch: the {-1} shape check is left out.
CheckIntrinsicIgnoresShape(intr, uri) ==
    CASE intr.uri # uri                         -> "INVALID_ARGUMENT"
      [] Len(intr.inputs) # Len(intr.outputs)   -> "INVALID_ARGUMENT"
      [] \E i \in DOMAIN intr.inputs :
            intr.inputs[i] # intr.outputs[i]     -> "INVALID_ARGUMENT"
      [] OTHER                                  -> "OK"

\* CheckIntrinsic: the URI, as many outputs as inputs, each output spec
\* equal to its input spec, and every shape {-1}.
CheckIntrinsic(intr, uri) ==
    CASE intr.uri # uri                         -> "INVALID_ARGUMENT"
      [] Len(intr.inputs) # Len(intr.outputs)   -> "INVALID_ARGUMENT"
      [] \E i \in DOMAIN intr.inputs :
            \/ intr.inputs[i] # intr.outputs[i]
            \/ intr.inputs[i].shape # UnknownShape -> "INVALID_ARGUMENT"
      [] OTHER                                  -> "OK"

\* The GroupByAggregator constructor and CreateKeyTypes: FCP_CHECKs that
\* there is an aggregator per nested intrinsic, a tensor per input, as
\* many output as input key specs, and that each key's specs agree and
\* have shape {-1}.
GroupByConstructor(intr, aggregators) ==
    IF /\ Len(aggregators) = Len(intr.nested)
       /\ Len(intr.inputs)
            + FoldLeft(LAMBDA n, x : n + Len(x.inputs), 0, intr.nested) > 0
       /\ Len(intr.inputs) = Len(intr.outputs)
       /\ \A i \in DOMAIN intr.inputs :
            /\ intr.inputs[i].dtype = intr.outputs[i].dtype
            /\ intr.inputs[i].shape = UnknownShape
            /\ intr.outputs[i].shape = UnknownShape
    THEN "OK" ELSE "FATAL"

RECURSIVE CreateAggregator(_)

\* CreateAggregators: per nested intrinsic in order, its factory (or
\* NOT_FOUND), its Create, and the dynamic_cast to
\* OneDimBaseGroupingAggregator pushed unchecked ("null" when the created
\* aggregator is not one); then at least one input tensor overall.
CreateAggregators(intr) ==
    LET step(acc, n) ==
            CASE acc.status # "OK"              -> acc
              [] RegisteredKind(n.uri) = "none" -> [acc EXCEPT !.status = "NOT_FOUND"]
              [] CreateAggregator(n).status # "OK" ->
                    [acc EXCEPT !.status = CreateAggregator(n).status]
              [] OTHER ->
                    [acc EXCEPT !.aggregators =
                                  Append(@, IF CreateAggregator(n).kind = "one_dim"
                                            THEN "one_dim" ELSE "null"),
                                !.numValueInputs = @ + Len(n.inputs)]
        res == FoldLeft(step, [status |-> "OK", aggregators |-> <<>>,
                               numValueInputs |-> 0], intr.nested)
    IN  IF res.status = "OK" /\ res.numValueInputs + Len(intr.inputs) = 0
        THEN [res EXCEPT !.status = "INVALID_ARGUMENT"]
        ELSE res

\* A bug for the checks to catch: the kFedSqlPrefix check is left out.
GroupByCreateWithoutPrefixCheck(intr) ==
    LET created == CreateAggregators(intr) IN
    CASE CheckIntrinsic(intr, GroupByUri) # "OK" -> [status |-> "INVALID_ARGUMENT"]
      [] intr.params # 0                         -> [status |-> "INVALID_ARGUMENT"]
      [] created.status # "OK"                   -> [status |-> created.status]
      [] GroupByConstructor(intr, created.aggregators) # "OK" -> [status |-> "FATAL"]
      [] OTHER -> [status |-> "OK", kind |-> "group_by",
                   aggregators |-> created.aggregators]

\* GroupByFactory::Create: CheckIntrinsic, no parameters, every nested
\* URI with kFedSqlPrefix, CreateAggregators, then the constructor.
GroupByCreate(intr) ==
    LET created == CreateAggregators(intr) IN
    CASE CheckIntrinsic(intr, GroupByUri) # "OK" -> [status |-> "INVALID_ARGUMENT"]
      [] intr.params # 0                         -> [status |-> "INVALID_ARGUMENT"]
      [] \E j \in DOMAIN intr.nested :
            intr.nested[j].uri \notin FedSqlPrefixed -> [status |-> "INVALID_ARGUMENT"]
      [] created.status # "OK"                   -> [status |-> created.status]
      [] GroupByConstructor(intr, created.aggregators) # "OK" -> [status |-> "FATAL"]
      [] OTHER -> [status |-> "OK", kind |-> "group_by",
                   aggregators |-> created.aggregators]

\* factory->Create(intrinsic) for the factory registered under its URI.
CreateAggregator(intr) ==
    CASE RegisteredKind(intr.uri) = "group_by" -> GroupByCreate(intr)
      [] RegisteredKind(intr.uri) = "sum"      -> SumFactoryCreate(intr, 0)
      [] RegisteredKind(intr.uri) = "dp_sum"   -> SumFactoryCreate(intr, 3)
      [] OTHER                                 -> [status |-> "NOT_FOUND"]

(***************************************************************************)
(* The harness: any intrinsic is handed to GroupByFactory::Create once.    *)
(***************************************************************************)
Init ==
    /\ intrinsic \in Intrinsics
    /\ result = [status |-> "none"]

Create ==
    /\ result.status = "none"
    /\ result' = GroupByCreate(intrinsic)
    /\ UNCHANGED intrinsic

Next == Create

Spec == Init /\ [][Next]_vars

(***************************************************************************)
(* Properties.                                                             *)
(***************************************************************************)
\* The constructor's FCP_CHECKs are backups of the factory's validation:
\* whatever intrinsic Create is handed, at any nesting depth, it returns
\* a Status and never reaches a constructor that aborts the process.
FactoryNeverCrashesConstructor == result.status # "FATAL"

\* Every nested aggregator of a created GroupByAggregator is a
\* OneDimBaseGroupingAggregator: CreateAggregators pushes the result of
\* dynamic_cast unchecked, and the first Accumulate, MergeWith or Report
\* dereferences it.  The kFedSqlPrefix check is what keeps other
\* aggregators out (spec section 4.5).
NestedAggregatorsGrouping ==
    result.status = "OK" => \A j \in DOMAIN result.aggregators :
                                 result.aggregators[j] = "one_dim"
====
