------------------------- MODULE MCCheckpointParser -------------------------
(***************************************************************************)
(* Model values for CheckpointParser: header "FCC\0" and "FCC\1" as byte   *)
(* codes, two names of different lengths, protos of zero, one and two      *)
(* complete fields and one that does not parse, at most two entries.      *)
(***************************************************************************)
EXTENDS CheckpointParser

MCMagic == <<70, 67, 67, 0>>
MCBadMagic == <<70, 67, 67, 1>>
MCFieldBytes == {5, 6}
MCNames == {<<65>>, <<66, 67>>}
MCProtos == {<<>>, <<5>>, <<5, 6>>, <<7>>}
MCEntryLists == BoundedSeq([name : MCNames, proto : MCProtos], 2)
MCQueryNames == MCNames \cup {<<66>>}
====
