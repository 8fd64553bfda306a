------------------------------ MODULE BlockBody ------------------------------
(***************************************************************************)
(* Decoding the body of a block (src/beam_p2p/deserializers/block.py and   *)
(* tx.py).  A body is two buffers.  The eternal one has the kernels.  The  *)
(* perishable one has the inputs and outputs in one of three formats, and  *)
(* nothing says in which: the decoder tries them in turn and takes the     *)
(* first that does not fail.  So this buffer is modelled byte by byte, in  *)
(* its real sizes.  What the bytes of points, scalars and proofs are is    *)
(* left open; the eternal buffer is a sequence of fields, as in            *)
(* TreasuryBlob.                                                           *)
(***************************************************************************)
EXTENDS TreasuryBlob

\* The flags of an output.
Coinbase == 2
Confidential == 4
Public == 8
Incubation == 16
AssetProof == 32
ExtraFlags == 128

\* What proofs are made of, in bytes: full ones, and those of a recovery block.
InnerProductCycles == 6
ConfidentialProof == <<7 * 32, 2 * InnerProductCycles * 32, 2 * 32, 2>>
PublicProof       == <<Compact, 33, 32, 8 + 4 + 4, 32>>
SigmaProof(n, M, extraBits) ==
    <<4 * 32, 3 * 32, M * 32, M * (n - 1) * 32, (4 + M + extraBits + 7) \div 8>>
FullAssetProof    == <<Compact, 32>> \o SigmaProof(4, 3, 1)
RecoveryConfidentialProof == <<5 * 32, 1>>
RecoveryPublicProof       == <<Compact, 8 + 4 + 4, 32>>
RecoveryAssetProof        == <<33>>

\* The proofs before the incubation and the one after it, for an output of a
\* full block or a recovered one; the latter has asset proofs from fork 3 on.
ProofsOf(flags, recovered) ==
    (IF Bit(flags, Confidential)
     THEN IF recovered THEN RecoveryConfidentialProof ELSE ConfidentialProof ELSE <<>>)
    \o (IF Bit(flags, Public)
        THEN IF recovered THEN RecoveryPublicProof ELSE PublicProof ELSE <<>>)

\* Defective variant: a recovered output has its asset proof before fork 3 too.
AssetProofOfAny(flags, recovered, fork3) ==
    IF ~Bit(flags, AssetProof) THEN <<>>
    ELSE IF recovered THEN RecoveryAssetProof ELSE FullAssetProof

AssetProofOf(flags, recovered, fork3) ==
    IF ~Bit(flags, AssetProof) \/ (recovered /\ ~fork3) THEN <<>>
    ELSE IF recovered THEN RecoveryAssetProof ELSE FullAssetProof

-----------------------------------------------------------------------------
\* The reader.

\* deserialize_input, and one behind the pointer of the sparse format.
ReadInput(buf, pos) ==
    LET flags == ReadBigUint(buf, pos, 1)
        point == ReadBytes(buf, flags.pos, 32)
    IN  [pos |-> point.pos, value |-> [x |-> point.value, y |-> Bit(flags.value, 1)]]

ReadPointer(buf, pos) ==
    LET present == ReadBigUint(buf, pos, 1)
    IN  ReadInput(buf, IF present.value = 0 THEN Failed ELSE present.pos)

\* What follows the flags of an output.
ReadOutputParts(buf, flags, recovered, fork3) ==
    LET point  == ReadBytes(buf, flags.pos, 32)
        proofs == SkipAll(buf, point.pos, ProofsOf(flags.value, recovered))
        incubation == IF Bit(flags.value, Incubation) THEN DecodeUint(buf, proofs)
                      ELSE [pos |-> proofs, value |-> None]
        asset  == AssetProofOf(flags.value, recovered, fork3)
        end    == SkipAll(buf, incubation.pos, asset)
        extra  == IF Bit(flags.value, ExtraFlags) THEN ReadBigUint(buf, end, 1)
                  ELSE [pos |-> end, value |-> None]
    IN  [pos |-> extra.pos,
         value |-> [x |-> point.value, y |-> Bit(flags.value, 1),
                    coinbase |-> Bit(flags.value, Coinbase), recovered |-> recovered,
                    confidential |-> Bit(flags.value, Confidential),
                    public |-> Bit(flags.value, Public),
                    incubation |-> incubation.value, asset |-> asset # <<>>,
                    extra |-> extra.value]]

\* deserialize_output and deserialize_block_output.
ReadOutput(buf, pos, recovered, fork3) ==
    ReadOutputParts(buf, ReadBigUint(buf, pos, 1), recovered, fork3)

\* Kinds of items: inputs, inputs behind a pointer, outputs of full blocks, and
\* recovered outputs from before fork 3 ("early") and after.
ReadItem(kind, buf, pos) ==
    CASE kind = "input"   -> ReadInput(buf, pos)
      [] kind = "pointer" -> ReadPointer(buf, pos)
      [] OTHER            -> ReadOutput(buf, pos, kind # "output", kind # "early")

\* The items read so far and one more.
AppendItem(read, next) == [pos |-> next.pos, value |-> Append(read.value, next.value)]

\* `count' more items; the first that fails ends the list.
RECURSIVE ReadItems(_, _, _, _)
ReadItems(kind, buf, read, count) ==
    IF count = 0 \/ read.pos = Failed THEN read
    ELSE ReadItems(kind, buf, AppendItem(read, ReadItem(kind, buf, read.pos)), count - 1)

\* A list behind its count.
ReadList(kind, buf, count) ==
    ReadItems(kind, buf, [pos |-> count.pos, value |-> <<>>], count.value)

Refused == [ok |-> FALSE]

Perishable(inputs, outputs, offset) ==
    IF outputs.pos = Failed THEN Refused
    ELSE [ok |-> TRUE, inputs |-> inputs.value, outputs |-> outputs.value, offset |-> offset]

\* The outputs of a full block, behind its inputs and up to the end.
ReadFullOutputs(buf, inputs, offset) ==
    LET outputs == ReadList("output", buf, ReadBigUint(buf, inputs.pos, 4))
    IN  IF outputs.pos = Len(buf) + 1 THEN Perishable(inputs, outputs, offset.value) ELSE Refused

\* The lists of a full block, behind its offset.
ReadFullLists(buf, offset) ==
    ReadFullOutputs(buf, ReadList("input", buf, ReadBigUint(buf, offset.pos, 4)), offset)

\* _deserialize_full_perishable.
ReadFull(buf) == ReadFullLists(buf, ReadBytes(buf, 1, 32))

\* The end of a recovery block.  The block offset, and the lists of the full
\* block behind it, may be missing; if they are there, they are what is returned.
ReadRecoveryEnd(buf, inputs, outputs) ==
    LET rest   == Len(buf) + 1 - outputs.pos
        offset == ReadBytes(buf, outputs.pos, 32)
    IN  IF outputs.pos = Failed \/ rest \in 1..31 THEN Refused
        ELSE IF rest = 0 THEN Perishable(inputs, outputs, <<>>)
        ELSE IF rest = 32 THEN Perishable(inputs, outputs, offset.value)
        ELSE ReadFullLists(buf, offset)

ReadRecoveryOutputs(buf, inputs, fork3) ==
    ReadRecoveryEnd(buf, inputs,
        ReadList(IF fork3 THEN "late" ELSE "early", buf, DecodeUint(buf, inputs.pos)))

\* _deserialize_recovery_perishable_fixed and _sparse.
ReadRecovery(buf, sparse, fork3) ==
    ReadRecoveryOutputs(buf,
        ReadList(IF sparse THEN "pointer" ELSE "input", buf,
                 IF sparse THEN DecodeUint(buf, 1) ELSE ReadBigUint(buf, 1, 4)),
        fork3)

\* _deserialize_perishable: the first format that can be read.
OrElse(first, second) == IF first.ok THEN first ELSE second

ReadPerishable(buf, fork3) ==
    OrElse(ReadFull(buf), OrElse(ReadRecovery(buf, FALSE, fork3), ReadRecovery(buf, TRUE, fork3)))

\* The kernels: the high bit of their count says that they are of mixed
\* subtypes, and nothing follows them.
ReadEternal(fields) ==
    LET list == Value(fields, 1, "kernels", [count |-> 0, mixed |-> FALSE])
        read == DeserializeKernels(
                    fields, [pos |-> ReadFields(fields, 1, <<"kernels">>), kernels |-> <<>>],
                    list.count, ~list.mixed)
    IN  [ok |-> read.pos = Len(fields) + 1, kernels |-> read.kernels, mixed |-> list.mixed]

DecodedBlock(perishable, eternal) ==
    IF perishable.ok /\ eternal.ok
    THEN [ok |-> TRUE, inputs |-> perishable.inputs, outputs |-> perishable.outputs,
          offset |-> perishable.offset, kernels |-> eternal.kernels, mixed |-> eternal.mixed]
    ELSE Refused

\* _deserialize_body_buffers.
ReadBody(body, fork3) ==
    DecodedBlock(ReadPerishable(body.perishable, fork3), ReadEternal(body.eternal))

-----------------------------------------------------------------------------
\* The writer: not part of src/; the formats as the node sends them.  A block
\* says in which format it is written and how much follows the recovery lists.

WriteBigUint(value, size) == Bytes(0, size - 1) \o <<value>>

\* Bytes nobody interprets; a compact integer among them has its short form.
WriteOpaque(sizes, byte) ==
    FlattenSeq([i \in DOMAIN sizes |-> IF sizes[i] = Compact THEN <<128>> ELSE Bytes(byte, sizes[i])])

WriteInput(input, fill) == <<input.flags>> \o Bytes(fill, 32)

WriteOutput(o, recovered, fork3, fill) ==
    <<o.flags>> \o Bytes(fill, 32) \o WriteOpaque(ProofsOf(o.flags, recovered), fill)
    \o (IF Bit(o.flags, Incubation) THEN EncodeUint(o.incubation) ELSE <<>>)
    \o (IF Bit(o.flags, AssetProof) /\ (recovered => fork3)
        THEN WriteOpaque(IF recovered THEN RecoveryAssetProof ELSE FullAssetProof, fill)
        ELSE <<>>)
    \o (IF Bit(o.flags, ExtraFlags) THEN <<fill>> ELSE <<>>)

WriteFullLists(block) ==
    WriteBigUint(Len(block.inputs), 4)
    \o FlattenSeq([i \in DOMAIN block.inputs |-> WriteInput(block.inputs[i], block.fill)])
    \o WriteBigUint(Len(block.outputs), 4)
    \o FlattenSeq([i \in DOMAIN block.outputs |->
                      WriteOutput(block.outputs[i], FALSE, TRUE, block.fill)])

WriteRecoveryLists(block, fork3) ==
    LET sparse == block.format = "sparse"
    IN  (IF sparse THEN EncodeUint(Len(block.inputs)) ELSE WriteBigUint(Len(block.inputs), 4))
        \o FlattenSeq([i \in DOMAIN block.inputs |->
               (IF sparse THEN <<1>> ELSE <<>>) \o WriteInput(block.inputs[i], block.fill)])
        \o EncodeUint(Len(block.outputs))
        \o FlattenSeq([i \in DOMAIN block.outputs |->
               WriteOutput(block.outputs[i], TRUE, fork3, block.fill)])

\* The last `cut' bytes may be missing.
WritePerishable(block, fork3) ==
    LET whole == (IF block.format = "full" THEN <<>> ELSE WriteRecoveryLists(block, fork3))
                 \o (IF block.rest = "none" THEN <<>> ELSE Bytes(block.scalar, 32))
                 \o (IF block.rest = "full" THEN WriteFullLists(block) ELSE <<>>)
    IN  SubSeq(whole, 1, Len(whole) - block.cut)

WriteBody(block, fork3) ==
    [perishable |-> WritePerishable(block, fork3),
     eternal    |-> <<Field("kernels", [count |-> Len(block.kernels), mixed |-> Mixed(block.kernels)])>>
                    \o WriteKernels(block.kernels, Mixed(block.kernels))]

\* What a decoder should make of it.
Written(block, fork3) ==
    LET recovered == block.rest # "full"
        x == Bytes(block.fill, 32)
    IN  [ok |-> TRUE,
         inputs  |-> [i \in DOMAIN block.inputs |-> [x |-> x, y |-> Bit(block.inputs[i].flags, 1)]],
         outputs |-> [i \in DOMAIN block.outputs |->
             LET o == block.outputs[i]
             IN  [x |-> x, y |-> Bit(o.flags, 1), coinbase |-> Bit(o.flags, Coinbase),
                  recovered |-> recovered, confidential |-> Bit(o.flags, Confidential),
                  public |-> Bit(o.flags, Public),
                  incubation |-> IF Bit(o.flags, Incubation) THEN o.incubation ELSE None,
                  asset |-> Bit(o.flags, AssetProof) /\ (recovered => fork3),
                  extra |-> IF Bit(o.flags, ExtraFlags) THEN block.fill ELSE None]],
         offset  |-> IF block.rest = "none" THEN <<>> ELSE Bytes(block.scalar, 32),
         kernels |-> block.kernels, mixed |-> Mixed(block.kernels)]
=============================================================================
