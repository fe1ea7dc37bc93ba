--------------------------- MODULE CheckpointParser ---------------------------
(***************************************************************************)
(* FederatedComputeCheckpointParserFactory::Create and the parser's        *)
(* GetTensor (fcp/aggregation/protocol/federated_compute_checkpoint_       *)
(* parser.cc), at the level of bytes.                                      *)
(*                                                                         *)
(* A checkpoint is a sequence of bytes.  All bytes used are below 128, so  *)
(* every varint is one byte long.  A serialized TensorProto is abstracted  *)
(* to bytes of two kinds: FieldBytes, each a complete field, and any other *)
(* byte, which does not parse.  Like a protobuf message, a run of complete *)
(* fields (possibly empty) parses and the result is determined by the     *)
(* bytes; the empty message has no dtype and Tensor::FromProto rejects it. *)
(*                                                                         *)
(* The harness: the checkpoint is emitted from a list of entries (spec     *)
(* section 6), possibly cut short and possibly with a wrong header; Create *)
(* parses it once; then GetTensor is called any number of times.          *)
(***************************************************************************)
EXTENDS Integers, Sequences, SequencesExt, Functions, Tensor

CONSTANTS
    Magic,        \* kFederatedComputeCheckpointHeader: 4 bytes
    BadMagic,     \* another 4-byte header
    FieldBytes,   \* the bytes that are complete TensorProto fields
    EntryLists,   \* the lists of [name, proto] entries the writer is given
    QueryNames    \* the names GetTensor is called with

VARIABLES
    entries,      \* the entries the checkpoint was emitted from
    input,        \* the serialized checkpoint handed to Create
    created,      \* "none" before Create, then the Status it returned
    tensors,      \* the parser's tensors_ map (name -> Tensor)
    result,       \* the last GetTensor result
    handedOut     \* names whose valid tensor GetTensor has returned

vars == <<entries, input, created, tensors, result, handedOut>>

(***************************************************************************)
(* The writer, as spec section 6 fixes the format: the header, then per    *)
(* entry its name length, name, proto length and proto, then name_len 0.   *)
(***************************************************************************)
Emit(es, header) ==
    header
    \o FlattenSeq([j \in DOMAIN es |->
                     <<Len(es[j].name)>> \o es[j].name
                     \o <<Len(es[j].proto)>> \o es[j].proto])
    \o <<0>>

\* The tensor a proto denotes, and the map a list of distinct entries denotes.
ProtoTensor(p) == MakeTensor("DT_INT32", <<Len(p)>>, p)

EntryMap(es) == [n \in {es[j].name : j \in DOMAIN es} |->
                    ProtoTensor(es[CHOOSE j \in DOMAIN es : es[j].name = n].proto)]

(***************************************************************************)
(* CodedInputStream primitives, at 1-based position i of stream s.         *)
(***************************************************************************)
\* ExpectAtEnd: no bytes left.
ExpectAtEnd(s, i) == i > Len(s)

\* ReadVarint32: fails at the end of the stream.
ReadVarint32(s, i) ==
    IF i > Len(s) THEN [ok |-> FALSE]
    ELSE [ok |-> TRUE, value |-> s[i], next |-> i + 1]

\* ReadString(n): fails unless n bytes are left.
ReadString(s, i, n) ==
    IF i + n - 1 > Len(s) THEN [ok |-> FALSE]
    ELSE [ok |-> TRUE, value |-> SubSeq(s, i, i + n - 1), next |-> i + n]

\* A bug for the checks to catch: no PushLimit, the parse runs to the end.
ParseProtoIgnoresLimit(s, i, size) ==
    LET body == SubSeq(s, i, Len(s))
    IN  [ok |-> \A k \in DOMAIN body : body[k] \in FieldBytes,
         value |-> body, next |-> i + Len(body)]

\* PushLimit(size) then ParseFromCodedStream: the message is the bytes up to
\* the limit or the end of the stream, whichever comes first; it parses if
\* every byte is a complete field.
ParseProto(s, i, size) ==
    LET body == SubSeq(s, i, IF i + size - 1 < Len(s) THEN i + size - 1 ELSE Len(s))
    IN  [ok |-> \A k \in DOMAIN body : body[k] \in FieldBytes,
         value |-> body, next |-> i + Len(body)]

\* A bug for the checks to catch: a message without a dtype is accepted.
FromProtoAcceptsEmpty(p) ==
    [status |-> "OK", tensor |-> MakeTensor("DT_INVALID", <<Len(p)>>, p)]

\* Tensor::FromProto: a message without a dtype is INVALID_ARGUMENT.
FromProto(p) ==
    IF p = <<>> THEN [status |-> "INVALID_ARGUMENT"]
    ELSE [status |-> "OK", tensor |-> ProtoTensor(p)]

Err(code) == [status |-> code, tensors |-> <<>>]

(***************************************************************************)
(* The loop of Create from position i with the map m built so far.         *)
(* tensors.emplace keeps the first tensor of a name that occurs twice.     *)
(***************************************************************************)
RECURSIVE ParseRecords(_, _, _)
ParseRecords(s, i, m) ==
    LET nameSize == ReadVarint32(s, i)
        name     == ReadString(s, nameSize.next, nameSize.value)
        size     == ReadVarint32(s, name.next)
        proto    == ParseProto(s, size.next, size.value)
        t        == FromProto(proto.value)
    IN
    CASE ExpectAtEnd(s, i)          -> [status |-> "OK", tensors |-> m]
      [] nameSize.value = 0         -> [status |-> "OK", tensors |-> m]
      [] ~name.ok                   -> Err("INTERNAL")
      [] ~size.ok                   -> Err("INTERNAL")
      [] ~proto.ok                  -> Err("INTERNAL")
      [] t.status # "OK"            -> Err(t.status)
      [] OTHER ->
           ParseRecords(s, proto.next,
                        IF name.value \in DOMAIN m THEN m
                        ELSE m @@ (name.value :> t.tensor))

\* Create: the 4-byte header, then the records.
Parse(s) ==
    LET header == ReadString(s, 1, 4) IN
    CASE ~header.ok             -> Err("INTERNAL")
      [] header.value # Magic   -> Err("INVALID_ARGUMENT")
      [] OTHER                  -> ParseRecords(s, header.next, <<>>)

(***************************************************************************)
(* Actions.                                                                *)
(***************************************************************************)
\* Any byte string can be handed to Create: an emitted checkpoint, any
\* prefix of it, or one with another header.
Init ==
    /\ entries \in EntryLists
    /\ \E header \in {Magic, BadMagic} :
         \E cut \in 0..Len(Emit(entries, header)) :
            input = SubSeq(Emit(entries, header), 1, cut)
    /\ created = "none"
    /\ tensors = <<>>
    /\ result = [status |-> "none"]
    /\ handedOut = {}

Create ==
    /\ created = "none"
    /\ LET r == Parse(input) IN
         /\ created' = r.status
         /\ tensors' = r.tensors
    /\ UNCHANGED <<entries, input, result, handedOut>>

\* GetTensor(name): NOT_FOUND, or the tensor moved out of tensors_, which
\* leaves a DT_INVALID tensor under the name.
GetTensor(n) ==
    /\ created = "OK"
    /\ IF n \notin DOMAIN tensors
       THEN /\ result' = [status |-> "NOT_FOUND"]
            /\ UNCHANGED <<tensors, handedOut>>
       ELSE /\ result' = [status |-> "OK", tensor |-> tensors[n]]
            /\ tensors' = [tensors EXCEPT ![n] = MovedFrom(@)]
            /\ handedOut' = IF tensors[n].dtype # "DT_INVALID"
                            THEN handedOut \cup {n} ELSE handedOut
    /\ UNCHANGED <<entries, input, created>>

Next ==
    \/ Create
    \/ \E n \in QueryNames : GetTensor(n)

Spec == Init /\ [][Next]_vars

(***************************************************************************)
(* Properties.                                                             *)
(***************************************************************************)
\* The values tensors_ can hold: a tensor built by FromProto, or the
\* moved-from tensor GetTensor leaves behind.
TensorValue(t) ==
    \/ t.dtype = "DT_INT32" /\ t.shape = <<Len(t.data)>> /\ t.data # <<>>
    \/ t = MakeTensor("DT_INVALID", <<>>, <<>>)

TypeOK ==
    /\ created \in {"none", "OK", "INTERNAL", "INVALID_ARGUMENT"}
    /\ \A n \in DOMAIN tensors : TensorValue(tensors[n])
    /\ result.status \in {"none", "OK", "NOT_FOUND"}
    /\ result.status = "OK" => TensorValue(result.tensor)
    /\ handedOut \subseteq DOMAIN tensors

\* An entry list the spec's round trip is about: distinct names, each
\* proto a non-empty run of complete fields.
ValidEntries(es) ==
    /\ \A j, k \in DOMAIN es : j # k => es[j].name # es[k].name
    /\ \A j \in DOMAIN es : es[j].proto # <<>> /\ Range(es[j].proto) \subseteq FieldBytes

\* Round trip (spec section 8): Create on an emitted checkpoint of valid
\* entries succeeds with exactly the emitted map, and every tensor not yet
\* taken by GetTensor is still the emitted one.
EmitParseRoundTrip ==
    (created # "none" /\ input = Emit(entries, Magic) /\ ValidEntries(entries))
    => /\ created = "OK"
       /\ DOMAIN tensors = DOMAIN EntryMap(entries)
       /\ \A n \in DOMAIN tensors :
             tensors[n] = IF n \in handedOut THEN MovedFrom(EntryMap(entries)[n])
                                            ELSE EntryMap(entries)[n]

\* Spec section 4.6: a reader fails INTERNAL on a truncated checkpoint.
\* Create is given every proper prefix of an emitted checkpoint.
TruncationRejected ==
    (created # "none" /\ input # Emit(entries, Magic)
     /\ input = SubSeq(Emit(entries, Magic), 1, Len(input)))
    => created = "INTERNAL"

\* Spec section 4.6: a reader fails INVALID_ARGUMENT on a malformed tensor
\* sub-message.  Here the first entry that is not valid has a proto with
\* a byte that is not a complete field.
FirstBadEntryMalformed(es) ==
    \E j \in DOMAIN es :
        /\ ValidEntries(SubSeq(es, 1, j - 1))
        /\ ~(Range(es[j].proto) \subseteq FieldBytes)

MalformedTensorInvalidArgument ==
    (created # "none" /\ input = Emit(entries, Magic)
     /\ FirstBadEntryMalformed(entries))
    => created = "INVALID_ARGUMENT"
\* Spec section 4.6 on the reader's failures, both cases at once: a
\* truncated checkpoint fails INTERNAL and a malformed tensor sub-message
\* fails INVALID_ARGUMENT.
ReaderFailuresPerSpec == TruncationRejected /\ MalformedTensorInvalidArgument
====
