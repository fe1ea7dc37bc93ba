------------------------- MODULE MCGroupByAggregator -------------------------
(***************************************************************************)
(* Instances of GroupByAggregator for TLC.                                 *)
(***************************************************************************)
EXTENDS GroupByAggregator

\* One string key column, named, with one Int32 -> Int64 sum.
KeyedSumSchema ==
    [keyTypes |-> <<"DT_STRING">>, keyNames |-> <<"key">>,
     intrinsics |-> <<[uri |-> "sum", in |-> "DT_INT32", out |-> "DT_INT64"]>>]

\* No key columns: a single implicit group.
NoKeySchema == [KeyedSumSchema EXCEPT !.keyTypes = <<>>, !.keyNames = <<>>]

\* Two key columns, the first anonymous.
CompositeKeySchema ==
    [KeyedSumSchema EXCEPT !.keyTypes = <<"DT_STRING", "DT_INT64">>,
                           !.keyNames = <<"", "key">>]

\* No key columns and two nested sums.
NoKeyTwoSumSchema ==
    [NoKeySchema EXCEPT !.intrinsics = <<[uri |-> "sum", in |-> "DT_INT32", out |-> "DT_INT64"],
                                         [uri |-> "sum", in |-> "DT_INT32", out |-> "DT_INT64"]>>]

\* The keyed schema with a DP grouping sum of the same specs.
KeyedDpSumSchema == [KeyedSumSchema EXCEPT !.intrinsics[1].uri = "dp_sum"]

CONSTANTS a1, a2, a3, kx, ky

MCAggs == {a1, a2, a3}
\* Two instances with a composite key (the first component anonymous)
\* and one without keys, which IsCompatible rejects with either.
MCSchemaMixed == [a \in MCAggs |-> IF a = a3 THEN NoKeySchema ELSE CompositeKeySchema]
MCAggs2 == {a1, a2}
MCSchemaKeyed == [a \in MCAggs2 |-> KeyedSumSchema]
MCSchemaSumVsDpSum == [a \in MCAggs2 |-> IF a = a1 THEN KeyedSumSchema ELSE KeyedDpSumSchema]
MCSchemaNoKeyDiffer == [a \in MCAggs2 |-> IF a = a1 THEN NoKeySchema ELSE NoKeyTwoSumSchema]
====
