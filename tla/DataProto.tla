-------------------------------- MODULE DataProto --------------------------------
(***************************************************************************)
(* The batch that the trainer and its workers exchange                     *)
(* (verl/protocol.py): a sequence of rows, each a record of its columns.   *)
(* Tensors and arrays of objects are columns alike, as every operation     *)
(* here treats them alike; meta_info is left out.                          *)
(***************************************************************************)
EXTENDS Integers, Sequences, SequencesExt

\* chunk asserts that the parts are equal.
CanChunk(rows, k) == Len(rows) % k = 0

\* chunk(chunks=k)[i]
Chunk(rows, k, i) ==
    LET m == Len(rows) \div k IN SubSeq(rows, i * m + 1, (i + 1) * m)

\* concat, of a list counted from 1
Concat(parts) == FlattenSeq(parts)

\* all_gather_data_proto: every rank of a group has the parts of all, in their order.
AllGather(parts) == Concat(parts)

\* repeat(repeat_times=k, interleave=True)
Repeat(rows, k) == [i \in 1 .. Len(rows) * k |-> rows[((i - 1) \div k) + 1]]

\* reorder
Reorder(rows, indices) == [i \in DOMAIN indices |-> rows[indices[i]]]

\* union_tensor_dict asserts that both have as many rows.
CanUnion(rows, others) == Len(rows) = Len(others)

\* union: the columns of both.  (The columns the driver joins never overlap, but that a
\* row of OAPLStep has all of them from the start.)
Joined(row, other) ==
    [c \in DOMAIN row \cup DOMAIN other |-> IF c \in DOMAIN other THEN other[c] ELSE row[c]]

Union(rows, others) == [i \in DOMAIN rows |-> Joined(rows[i], others[i])]

PadSize(rows, k) == (-Len(rows)) % k

\* Mutant: nothing is padded.
Padded_Never(rows, k) == rows

\* pad_dataproto_to_divisor: the first rows once more, as often as it takes.
Padded(rows, k) ==
    [i \in 1 .. Len(rows) + PadSize(rows, k) |-> rows[((i - 1) % Len(rows)) + 1]]

\* unpad_dataproto: without the last rows.
Unpad(rows, size) == SubSeq(rows, 1, Len(rows) - size)

==================================================================================
