------------------------------- MODULE Tensor -------------------------------
(***************************************************************************)
(* The Tensor value of fcp/aggregation/core/tensor.h: a dtype, a shape and *)
(* a dense, row-major data buffer.  Only the metadata the aggregators      *)
(* check (dtype, number of dimensions, dimension sizes) and the flat data  *)
(* are kept; the byte layout is abstracted to a TLA+ sequence of elements. *)
(***************************************************************************)
EXTENDS Integers, Sequences, SequencesExt

\* The dtypes the aggregation core dispatches on (datatype.h).  DT_INVALID
\* is what a moved-from Tensor carries (tensor.h move constructor).
DTypes == {"DT_INVALID", "DT_INT32", "DT_INT64", "DT_FLOAT", "DT_STRING"}

\* Tensor::Create without its validation: the triple kept by the class.
MakeTensor(dtype, shape, data) ==
    [dtype |-> dtype, shape |-> shape, data |-> data]

\* TensorShape::NumElements: the product of the dimension sizes; a scalar
\* (empty shape) has one element.
NumElements(t) == FoldSeq(LAMBDA x, y : x * y, 1, t.shape)

\* Tensor::is_dense is constant TRUE in this version of the code, so the
\* density checks of the aggregators can never fail.
IsDense(t) == TRUE

\* Tensor(Tensor&& other): the moved-from tensor is left with DT_INVALID,
\* the empty shape of a moved-from vector, and no data.
MovedFrom(t) == [t EXCEPT !.dtype = "DT_INVALID", !.shape = <<>>, !.data = <<>>]
=============================================================================
