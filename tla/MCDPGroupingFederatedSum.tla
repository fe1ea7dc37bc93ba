----------------------- MODULE MCDPGroupingFederatedSum -----------------------
(***************************************************************************)
(* Instances for TLC: client batches of at most two rows over ordinals     *)
(* {0, 1} and values {-2, 3}, so that repeated ordinals, mixed signs,      *)
(* truncation and every bound fire; a scalar batch; and the two malformed  *)
(* batches AggregateTensors rejects.                                       *)
(***************************************************************************)
EXTENDS DPGroupingFederatedSum

CONSTANTS d1, d2

MCAggs == {d1, d2}

Ords == {0, 1}
Vals == {-2, 3}

Batch(ords, vals, dtype, shape) ==
    <<OD!MakeTensor("DT_INT64", shape, ords), OD!MakeTensor(dtype, shape, vals)>>

MCBatches ==
    UNION {{Batch(o, v, "DT_INT32", <<n>>) : o \in [1..n -> Ords], v \in [1..n -> Vals]}
           : n \in {1, 2}}
    \cup {Batch(<<0>>, <<v>>, "DT_INT32", <<>>) : v \in Vals}
    \cup {Batch(<<0>>, <<3>>, "DT_INT64", <<1>>),                     \* value dtype
          <<OD!MakeTensor("DT_INT64", <<2>>, <<0, 1>>),
            OD!MakeTensor("DT_INT32", <<1>>, <<3>>)>>}               \* shape mismatch

\* No bound; each bound alone; all three tight; all three zero.
MCBoundChoices ==
    {[linf |-> -1, l1 |-> -1, l2 |-> -1],
     [linf |-> 2,  l1 |-> -1, l2 |-> -1],
     [linf |-> -1, l1 |-> 3,  l2 |-> -1],
     [linf |-> -1, l1 |-> -1, l2 |-> 2],
     [linf |-> 3,  l1 |-> 4,  l2 |-> 3],
     [linf |-> 0,  l1 |-> 0,  l2 |-> 0]}
====
