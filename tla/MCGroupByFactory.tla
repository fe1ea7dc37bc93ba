--------------------------- MODULE MCGroupByFactory ---------------------------
(***************************************************************************)
(* Intrinsics for GroupByFactory::Create: key specs of at most one column, *)
(* no or one parameter, and at most two nested intrinsics drawn from a set *)
(* with one of each way a nested intrinsic can be right or wrong.          *)
(***************************************************************************)
EXTENDS GroupByFactory

CONSTANTS gbUri, sumUri, dpSumUri, otherUri, unknownUri

MCSpecs == [dtype : {"DT_INT32", "DT_INT64"}, shape : {<<-1>>, <<>>}]

Leaf(uri, in, out, params) ==
    [uri |-> uri, inputs |-> in, outputs |-> out, params |-> params, nested |-> <<>>]

SumOK        == Leaf(sumUri, <<[dtype |-> "DT_INT32", shape |-> <<-1>>]>>,
                             <<[dtype |-> "DT_INT64", shape |-> <<-1>>]>>, 0)
SumBadPair   == Leaf(sumUri, <<[dtype |-> "DT_INT64", shape |-> <<-1>>]>>,
                             <<[dtype |-> "DT_INT32", shape |-> <<-1>>]>>, 0)
DpSumOK      == Leaf(dpSumUri, <<[dtype |-> "DT_INT64", shape |-> <<-1>>]>>,
                               <<[dtype |-> "DT_INT64", shape |-> <<-1>>]>>, 3)
DpSumNoBounds == [DpSumOK EXCEPT !.params = 0]
Unregistered == [SumOK EXCEPT !.uri = unknownUri]
Unprefixed   == [SumOK EXCEPT !.uri = otherUri]
\* A group-by over no keys and one sum, nested in another group-by.
NestedGroupBy == [Leaf(gbUri, <<>>, <<>>, 0) EXCEPT !.nested = <<SumOK>>]

MCNested == {SumOK, SumBadPair, DpSumOK, DpSumNoBounds, Unregistered,
             Unprefixed, NestedGroupBy}

MCIntrinsics ==
    [uri : {gbUri, sumUri}, inputs : BoundedSeq(MCSpecs, 1),
     outputs : BoundedSeq(MCSpecs, 1), params : {0, 1},
     nested : BoundedSeq(MCNested, 2)]
====
