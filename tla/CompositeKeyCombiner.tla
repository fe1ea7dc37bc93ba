------------------------- MODULE CompositeKeyCombiner -------------------------
(***************************************************************************)
(* CompositeKeyCombiner (spec section 4.2; its source is not among the     *)
(* files of this repository, so it is modelled from the specification).   *)
(*                                                                         *)
(* The state is the sequence of distinct composite keys in the order they  *)
(* were first seen: keys[o+1] is the key of ordinal o.  This one sequence  *)
(* stands for both the intern table (key -> position) and the per-column   *)
(* storage (columns[c][o] = keys[o+1][c]), so the two can never disagree.  *)
(***************************************************************************)
EXTENDS Integers, Sequences, SequencesExt, Functions, Tensor

\* The composite key of row r: the tuple of the key tensors' values at r.
RowKey(keyTensors, r) == [c \in DOMAIN keyTensors |-> keyTensors[c].data[r]]

\* The ordinal of key k in state keys.
Ordinal(keys, k) == CHOOSE o \in 0..(Len(keys) - 1) : keys[o + 1] = k

\* Interning the rows in order: a key not yet present is appended.
Intern(keys, rowKeys) ==
    FoldLeft(LAMBDA s, k : IF k \in Range(s) THEN s ELSE Append(s, k),
             keys, rowKeys)

\* Accumulate(keys): the pre-mutation checks (number of tensors, dtypes,
\* identical shapes of at most one dimension) and then the interning of
\* every row.  Returns [status, keys, ordinals] where ordinals is the Int64
\* tensor of the input key shape.
CombinerAccumulate(keyTypes, keys, keyTensors) ==
    LET n        == NumElements(keyTensors[1])
        rowKeys  == [r \in 1..n |-> RowKey(keyTensors, r)]
        newKeys  == Intern(keys, rowKeys)
        ordinals == MakeTensor("DT_INT64", keyTensors[1].shape,
                               [r \in 1..n |-> Ordinal(newKeys, rowKeys[r])])
    IN
    IF \/ Len(keyTensors) # Len(keyTypes)
       \/ \E c \in DOMAIN keyTensors : keyTensors[c].dtype # keyTypes[c]
       \/ \E c \in DOMAIN keyTensors : keyTensors[c].shape # keyTensors[1].shape
       \/ Len(keyTensors[1].shape) > 1
    THEN [status |-> "INVALID_ARGUMENT", keys |-> keys, ordinals |-> <<>>]
    ELSE [status |-> "OK", keys |-> newKeys, ordinals |-> ordinals]

\* GetOutputKeys: one dense tensor of length K per key column.
GetOutputKeys(keyTypes, keys) ==
    [c \in DOMAIN keyTypes |->
        MakeTensor(keyTypes[c], <<Len(keys)>>, [o \in DOMAIN keys |-> keys[o][c]])]
=============================================================================
