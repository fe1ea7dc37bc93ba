------------------------ MODULE DPGroupingFederatedSum ------------------------
(***************************************************************************)
(* The DP grouping federated sum registered as "GoogleSQL:dp_sum": a       *)
(* OneDimGroupingAggregator<int32, int64> whose AggregateVectorByOrdinals  *)
(* bounds each client's contribution before adding it, and whose merge     *)
(* adds partial sums unbounded.  Its implementation is not part of this    *)
(* repository: the bounding is modelled from spec section 4.3 and from     *)
(* dp_grouping_federated_sum_test.cc, and MergeWith from the               *)
(* OneDimBaseGroupingAggregator declaration and spec section 6.            *)
(*                                                                         *)
(* The three bound parameters are integers here (the L1 and L2 bounds are  *)
(* doubles in the code); a negative bound is not enforced.  The rescaled   *)
(* value is truncated toward zero, computed exactly instead of in double   *)
(* arithmetic.  Bounds are one parameter choice per behaviour, as every    *)
(* instance created from one intrinsic shares them.                        *)
(***************************************************************************)
EXTENDS Integers, Sequences, SequencesExt, FiniteSetsExt, Functions

OD == INSTANCE OneDimGroupingAggregator

CONSTANTS
    Aggs,           \* the aggregator instances
    Batches,        \* the (ordinals, values) tensor pairs a client may send
    BoundChoices,   \* records [linf, l1, l2] of the intrinsic's parameters
    MaxInputs       \* bound on the accumulates into one instance

InputDType  == "DT_INT32"
OutputDType == "DT_INT64"

VARIABLES
    agg,            \* agg[a]: the OneDimGroupingAggregator record of instance a
    bounds          \* the linfinity, l1 and l2 parameters of the intrinsic

vars == <<agg, bounds>>

AbsVal(v) == IF v < 0 THEN -v ELSE v

(***************************************************************************)
(* Contribution bounding (spec section 4.3).                               *)
(***************************************************************************)
\* The client's local histogram: the values of a batch summed per ordinal.
LocalHistogram(ords, vals) ==
    [o \in Range(ords) |-> SumFunctionOnSet(vals, {j \in DOMAIN ords : ords[j] = o})]

\* The L-infinity clamp to [-linf, linf].
Clamp(v, b) ==
    IF b.linf < 0 THEN v ELSE Max({-b.linf, Min({b.linf, v})})

\* The rescale of a clamped histogram h: each value multiplied by
\* s = min(1, l1/L1, l2/L2) over the norms of h (a norm of zero is
\* skipped) and truncated toward zero.  The truncation of |v| * s is the
\* largest q <= |v| with q * L1 <= |v| * l1 and q^2 * L2^2 <= v^2 * l2^2.
Rescaled(h, b) ==
    LET l1   == MapThenSumSet(LAMBDA o : AbsVal(h[o]), DOMAIN h)
        l2sq == MapThenSumSet(LAMBDA o : h[o] * h[o], DOMAIN h)
        fits(q, v) ==
            /\ b.l1 < 0 \/ l1 = 0 \/ q * l1 <= AbsVal(v) * b.l1
            /\ b.l2 < 0 \/ l2sq = 0 \/ q * q * l2sq <= v * v * b.l2 * b.l2
        scaled(v) == LET q == Max({q \in 0..AbsVal(v) : fits(q, v)})
                     IN  IF v < 0 THEN -q ELSE q
    IN  [o \in DOMAIN h |-> scaled(h[o])]

\* A bug for the checks to catch: the clamp applied to each element before
\* the histogram is built, as a literal reading of spec step 1 has it.
BoundedContributionClampsElements(ords, vals, b) ==
    Rescaled(LocalHistogram(ords, [j \in DOMAIN vals |-> Clamp(vals[j], b)]), b)

\* The bounded contribution of a batch: its local histogram, clamped per
\* ordinal (the test's Bob sends -12 and 2 for ordinal 1 and, clamped to
\* 9, contributes -9), then rescaled.
BoundedContribution(ords, vals, b) ==
    LET h == LocalHistogram(ords, vals) IN
    Rescaled([o \in DOMAIN h |-> Clamp(h[o], b)], b)

\* AggregateVectorByOrdinals: the bounded contribution added into data.
DPAggregateVectorByOrdinals(data, ords, vals, b) ==
    LET c == BoundedContribution(ords, vals, b) IN
    [i \in DOMAIN data |-> data[i] + (IF i - 1 \in DOMAIN c THEN c[i - 1] ELSE 0)]

\* TensorAggregator::Accumulate on the DP sum: CheckValid, then
\* OneDimGroupingAggregator::AggregateTensors with the DP reducer.
DPAccumulate(a, tensors, b) ==
    LET v == OD!ValidateTensorInputs(tensors) IN
    CASE OD!CheckValid(a) # "OK"         -> OD!Result(OD!CheckValid(a), a)
      [] v # "OK"                        -> OD!Result(v, a)
      [] tensors[2].dtype # InputDType   -> OD!Result("INVALID_ARGUMENT", a)
      [] OTHER ->
           OD!Result("OK",
             [a EXCEPT
                !.numInputs = @ + 1,
                !.data = DPAggregateVectorByOrdinals(
                            OD!ResizeDataVector(@, tensors[1].data),
                            tensors[1].data, tensors[2].data, b)])

\* The ordinals tensor 0, 1, ..., n-1 that indexes a reported data vector.
MakeOrdinals(n) == OD!MakeTensor("DT_INT64", <<n>>, [i \in 1..n |-> i - 1])

\* OneDimBaseGroupingAggregator::MergeWith(other): CheckValid of both, then
\* other's TakeOutputs (a single tensor indexed by ordinal), merged with the
\* identity ordinals through MergeTensors, which adds without bounding.
MergeWith(self, other, b) ==
    CASE OD!CheckValid(self) # "OK"  -> [status |-> OD!CheckValid(self), agg |-> self, other |-> other]
      [] OD!CheckValid(other) # "OK" -> [status |-> OD!CheckValid(other), agg |-> self, other |-> other]
      [] OTHER ->
           LET out  == OD!TakeOutputs(other, OutputDType)[1]
               ords == MakeOrdinals(Len(out.data))
               m    == OD!MergeTensors(self, <<ords, out>>, other.numInputs, OutputDType)
           IN  [status |-> m.status, agg |-> m.agg,
                other |-> OD!Report(other, OutputDType).agg]

(***************************************************************************)
(* The harness: instances created from one dp_sum intrinsic; each client  *)
(* batch is one Accumulate call (spec section 5: a client's contribution  *)
(* is a single accumulate).                                                *)
(***************************************************************************)
Init ==
    /\ agg = [a \in Aggs |-> OD!NewOneDimAggregator]
    /\ bounds \in BoundChoices

\* aggregator->Accumulate({&ordinals, &values}) for one client.
Accumulate(a, t) ==
    /\ agg[a].numInputs < MaxInputs
    /\ agg' = [agg EXCEPT ![a] = DPAccumulate(@, t, bounds).agg]
    /\ UNCHANGED bounds

\* a->MergeWith(std::move(*b)).
Merge(a, b) ==
    /\ a # b
    /\ LET r == MergeWith(agg[a], agg[b], bounds) IN
       agg' = [agg EXCEPT ![a] = r.agg, ![b] = r.other]
    /\ UNCHANGED bounds

\* std::move(*a).Report().
Report(a) ==
    /\ agg' = [agg EXCEPT ![a] = OD!Report(@, OutputDType).agg]
    /\ UNCHANGED bounds

Next ==
    \/ \E a \in Aggs, t \in Batches : Accumulate(a, t)
    \/ \E a, b \in Aggs : Merge(a, b)
    \/ \E a \in Aggs : Report(a)

Spec == Init /\ [][Next]_vars

(***************************************************************************)
(* Properties.                                                             *)
(***************************************************************************)
\* The DP guarantee the bounding exists for: after any accumulates and
\* merges, an instance that absorbed n client contributions holds sums
\* within n times each enforced bound, per ordinal for L-infinity and over
\* the vector for L1 and L2 (by the triangle inequality).
ContributionBounded ==
    \A a \in Aggs :
        LET d == agg[a].data
            n == agg[a].numInputs
        IN  /\ bounds.linf >= 0 => \A i \in DOMAIN d : AbsVal(d[i]) <= n * bounds.linf
            /\ bounds.l1 >= 0 =>
                  MapThenSumSet(LAMBDA i : AbsVal(d[i]), DOMAIN d) <= n * bounds.l1
            /\ bounds.l2 >= 0 =>
                  MapThenSumSet(LAMBDA i : d[i] * d[i], DOMAIN d) <= n * n * bounds.l2 * bounds.l2
====
