---------------------------- MODULE TreasuryBlob ----------------------------
(***************************************************************************)
(* The treasury blob (src/beam_p2p/treasury.py) and the kernels in it.     *)
(* Kernels nest; what follows a nested list can only be found by reading   *)
(* the list.  There are two readers: deserialize_kernel, for blocks, reads *)
(* kernels of every subtype; _skip_kernel, for the treasury, only finds    *)
(* the end of standard ones.                                               *)
(*                                                                         *)
(* A payload is a sequence of fields, each of a kind that fixes how many   *)
(* bytes it takes.  Only values that decide what follows are kept.  Flags  *)
(* are the set of the bits that are on.  A reader that meets another kind  *)
(* than it expects, or the end, fails.                                     *)
(***************************************************************************)
EXTENDS Wire, FiniteSetsExt

AssetControl    == {"ASSET_EMIT", "ASSET_CREATE", "ASSET_DESTROY"}
ContractControl == {"CONTRACT_CREATE", "CONTRACT_INVOKE", "EVM_INVOKE"}

\* KernelSubtype.
Subtypes ==
    {"STD", "SHIELDED_OUTPUT", "SHIELDED_INPUT"} \cup AssetControl \cup ContractControl

\* The bits of the flags that more than one subtype has.
Fee == 2
MinHeight == 4
MaxHeight == 8
Nested == 64

\* Those of standard kernels, and of their second byte of flags.
HashLock == 32
Flags2 == 128
RelativeLock == 2

-----------------------------------------------------------------------------
\* BufferReader, at the level of fields.

\* The position behind fields of these kinds, read from pos on.
ReadFields(buf, pos, kinds) ==
    IF /\ pos # Failed
       /\ pos + Len(kinds) - 1 <= Len(buf)
       /\ \A i \in DOMAIN kinds : buf[pos + i - 1].kind = kinds[i]
    THEN pos + Len(kinds) ELSE Failed

\* The value of the field at pos; default if it is of another kind.
Value(buf, pos, kind, default) ==
    IF pos \in DOMAIN buf /\ buf[pos].kind = kind THEN buf[pos].value ELSE default

\* The fields a flag makes optional.
Optional(bit, flags, kinds) == IF bit \in flags THEN kinds ELSE <<>>

-----------------------------------------------------------------------------
\* deserialize_kernel.

FeeHeight(flags) ==
    Optional(Fee, flags, <<"var">>) \o Optional(MinHeight, flags, <<"var">>)
        \o Optional(MaxHeight, flags, <<"var">>)

\* The fields from the flags to the nested kernels: commitment and signature
\* (two points and a scalar, 32 bytes each), or a shielded output or input.
BeforeNested(subtype, flags) ==
    IF subtype = "STD"
    THEN <<"u8", "32", "32", "32">> \o FeeHeight(flags) \o Optional(HashLock, flags, <<"32">>)
    ELSE <<"var">> \o (IF subtype \in AssetControl    THEN <<"32", "32", "32", "32">>
                       ELSE IF subtype \in ContractControl THEN <<"32", "32", "32", "buf">>
                       ELSE IF subtype = "SHIELDED_OUTPUT" THEN <<"txo">>
                       ELSE <<"var", "lelantus">>) \o FeeHeight(flags)

\* The fields after them.
AfterNested(flags, flags2) ==
    [STD             |-> Optional(Flags2, flags,
                            <<"u8">> \o Optional(RelativeLock, flags2, <<"32", "var">>)),
     ASSET_EMIT      |-> <<"var", "int">>,
     ASSET_CREATE    |-> <<"buf">>,
     ASSET_DESTROY   |-> <<"var", "var">>,
     CONTRACT_CREATE |-> <<"buf">>,
     CONTRACT_INVOKE |-> <<"32", "var">>,
     EVM_INVOKE      |-> <<"20", "20", "var", "32", "int">>,
     SHIELDED_OUTPUT |-> <<>>,
     SHIELDED_INPUT  |-> Optional(1, flags, <<"asset_proof">>)]

FlagsKind(subtype) == IF subtype = "STD" THEN "u8" ELSE "var"

RECURSIVE DeserializeKernel(_, _, _), DeserializeKernels(_, _, _, _)

\* `count' more kernels: the position behind them, and all kernels so far.
DeserializeKernels(buf, read, count, std) ==
    LET next == DeserializeKernel(buf, read.pos, std)
    IN  IF count = 0 THEN read
        ELSE DeserializeKernels(
                buf, [pos |-> next.pos, kernels |-> Append(read.kernels, next.kernel)],
                count - 1, std)

\* The count is preceded by a zero if the kernels are of mixed subtypes.
DeserializeNested(buf, pos, flags) ==
    LET mixed == Value(buf, pos, "var", 0) = 0
        count == Value(buf, IF mixed THEN pos + 1 ELSE pos, "var", 0)
        first == ReadFields(buf, pos, IF mixed THEN <<"var", "var">> ELSE <<"var">>)
    IN  IF Nested \notin flags THEN [pos |-> pos, kernels |-> <<>>]
        ELSE DeserializeKernels(buf, [pos |-> first, kernels |-> <<>>], count, ~mixed)

DeserializeKernel(buf, pos, std) ==
    LET subtype == IF std THEN "STD" ELSE Value(buf, pos, "u8", "none")
        start   == IF std THEN pos ELSE ReadFields(buf, pos, <<"u8">>)
        flags   == Value(buf, start, FlagsKind(subtype), {})
        nested  == DeserializeNested(
                       buf, ReadFields(buf, start, BeforeNested(subtype, flags)), flags)
        flags2  == IF subtype = "STD" /\ Flags2 \in flags
                   THEN Value(buf, nested.pos, "u8", {}) ELSE {}
    IN  IF start = Failed \/ subtype \notin Subtypes
        THEN [pos |-> Failed, kernel |-> "none"]
        ELSE [pos    |-> ReadFields(buf, nested.pos, AfterNested(flags, flags2)[subtype]),
              kernel |-> [subtype |-> subtype, flags |-> flags, flags2 |-> flags2,
                          nested |-> nested.kernels]]

-----------------------------------------------------------------------------
\* _skip_kernel.

RECURSIVE SkipKernel(_, _, _), SkipKernels(_, _, _, _)

SkipKernels(buf, pos, count, std) ==
    IF count = 0 THEN pos ELSE SkipKernels(buf, SkipKernel(buf, pos, std), count - 1, std)

SkipNestedKernels(buf, pos) ==
    LET mixed == Value(buf, pos, "var", 0) = 0
        count == Value(buf, IF mixed THEN pos + 1 ELSE pos, "var", 0)
    IN  SkipKernels(buf, ReadFields(buf, pos, IF mixed THEN <<"var", "var">> ELSE <<"var">>),
                    count, ~mixed)

\* Defective variant: the second byte of flags is expected before the nested
\* kernels.
SkipStdKernelFlags2First(buf, pos) ==
    LET flags  == Value(buf, pos, "u8", {})
        more   == ReadFields(buf, pos, <<"u8", "32", "32", "32">> \o FeeHeight(flags)
                                 \o Optional(HashLock, flags, <<"32">>))
        flags2 == Value(buf, more, "u8", {})
        nested == ReadFields(buf, more, Optional(Flags2, flags, <<"u8">>
                                 \o Optional(RelativeLock, flags2, <<"32", "var">>)))
    IN  IF Nested \in flags THEN SkipNestedKernels(buf, nested) ELSE nested

SkipStdKernel(buf, pos) ==
    LET flags  == Value(buf, pos, "u8", {})
        nested == ReadFields(buf, pos, <<"u8", "32", "32", "32">>
                      \o Optional(Fee, flags, <<"var">>) \o Optional(MinHeight, flags, <<"var">>)
                      \o Optional(MaxHeight, flags, <<"var">>) \o Optional(HashLock, flags, <<"32">>))
        more   == IF Nested \in flags THEN SkipNestedKernels(buf, nested) ELSE nested
        flags2 == Value(buf, more, "u8", {})
    IN  ReadFields(buf, more, Optional(Flags2, flags,
                      <<"u8">> \o Optional(RelativeLock, flags2, <<"32", "var">>)))

SkipKernel(buf, pos, std) ==
    IF std THEN SkipStdKernel(buf, pos)
    ELSE IF Value(buf, pos, "u8", "none") = "STD" THEN SkipStdKernel(buf, pos + 1)
    ELSE Failed

-----------------------------------------------------------------------------
\* The blob: a message, and groups of a transaction and a value each.

None == -1
Marker == -1

\* _treasury_group_release_height: the earliest incubation of an output.
ReleaseHeight(outputs) ==
    LET incubations == {outputs[i] : i \in DOMAIN outputs} \ {None}
    IN  IF incubations = {} THEN 0 ELSE Min(incubations)

\* Defective variant: the marker is taken for the amount.
GroupValueUnmarked(buf, pos) ==
    [pos |-> ReadFields(buf, pos, <<"16">>), value |-> Value(buf, pos, "16", 0), asset |-> 0]

\* _read_treasury_group_value: a marker announces the amount of an asset.
GroupValue(buf, pos) ==
    IF Value(buf, pos, "16", 0) = Marker
    THEN [pos   |-> ReadFields(buf, pos, <<"16", "16", "4">>),
          value |-> Value(buf, pos + 1, "16", 0), asset |-> Value(buf, pos + 2, "4", 0)]
    ELSE [pos   |-> ReadFields(buf, pos, <<"16">>), value |-> Value(buf, pos, "16", 0),
          asset |-> 0]

Repeat(kind, count) == [i \in 1..count |-> kind]

\* _deserialize_treasury_group, from the counts of its lists on.
DeserializeGroup(buf, pos) ==
    LET inputs  == Value(buf, pos, "u32", 0)
        out     == ReadFields(buf, pos, <<"u32">> \o Repeat("input", inputs))
        outputs == Value(buf, out, "u32", 0)
        ker     == ReadFields(buf, out, <<"u32">> \o Repeat("output", outputs))
        list    == Value(buf, ker, "kernels", [count |-> 0, mixed |-> FALSE])
        offset  == SkipKernels(buf, ReadFields(buf, ker, <<"kernels">>), list.count, ~list.mixed)
        value   == GroupValue(buf, ReadFields(buf, offset, <<"32">>))
    IN  [pos   |-> value.pos,
         group |-> [value |-> value.value, asset |-> value.asset,
                    release |-> ReleaseHeight([i \in 1..outputs |-> Value(buf, out + i, "output", None)])]]

RECURSIVE DeserializeGroups(_, _, _)
DeserializeGroups(buf, read, count) ==
    LET next == DeserializeGroup(buf, read.pos)
    IN  IF count = 0 THEN read
        ELSE DeserializeGroups(
                buf, [pos |-> next.pos, groups |-> Append(read.groups, next.group)], count - 1)

\* deserialize_treasury_data: the groups, if the blob ends with the last one.
DeserializeTreasuryData(buf) ==
    LET start == [pos |-> ReadFields(buf, 1, <<"buf", "var">>), groups |-> <<>>]
        read  == DeserializeGroups(buf, start, Value(buf, 2, "var", 0))
    IN  [ok |-> read.pos = Len(buf) + 1, groups |-> read.groups]

\* treasury_amount_at_height, for the native asset.
TreasuryAmountAtHeight(groups, h) ==
    LET Due(group) == group.asset = 0 /\ group.release <= h
    IN  IF h < 0 THEN 0
        ELSE FoldLeft(LAMBDA sum, group : sum + group.value, 0, SelectSeq(groups, Due))

-----------------------------------------------------------------------------
\* The writer: not part of src/; the format as deserialize_kernel reads it.

Field(kind, value) == [kind |-> kind, value |-> value]
Fields(kinds) == [i \in DOMAIN kinds |-> Field(kinds[i], 0)]

Mixed(kernels) == \E i \in DOMAIN kernels : kernels[i].subtype # "STD"

RECURSIVE WriteKernel(_, _)

WriteKernels(kernels, mixed) ==
    FlattenSeq([i \in DOMAIN kernels |-> WriteKernel(kernels[i], mixed)])

WriteNested(k) ==
    IF Nested \notin k.flags THEN <<>>
    ELSE (IF Mixed(k.nested) \/ k.nested = <<>> THEN <<Field("var", 0)>> ELSE <<>>)
         \o <<Field("var", Len(k.nested))>> \o WriteKernels(k.nested, Mixed(k.nested))

WriteKernel(k, mixed) ==
    LET before == Fields(BeforeNested(k.subtype, k.flags))
        after  == Fields(AfterNested(k.flags, k.flags2)[k.subtype])
    IN  (IF mixed THEN <<Field("u8", k.subtype)>> ELSE <<>>)
        \o [before EXCEPT ![1].value = k.flags]
        \o WriteNested(k)
        \o (IF k.subtype = "STD" /\ Flags2 \in k.flags
            THEN [after EXCEPT ![1].value = k.flags2] ELSE after)

WriteGroup(g) ==
    <<Field("u32", g.inputs)>> \o Fields(Repeat("input", g.inputs))
    \o <<Field("u32", Len(g.outputs))>> \o [i \in DOMAIN g.outputs |-> Field("output", g.outputs[i])]
    \o <<Field("kernels", [count |-> Len(g.kernels), mixed |-> Mixed(g.kernels)])>>
    \o WriteKernels(g.kernels, Mixed(g.kernels))
    \o <<Field("32", 0)>>
    \o (IF g.asset = 0 THEN <<Field("16", g.value)>>
        ELSE <<Field("16", Marker), Field("16", g.value), Field("4", g.asset)>>)

WriteBlob(groups) ==
    <<Field("buf", 0), Field("var", Len(groups))>>
    \o FlattenSeq([i \in DOMAIN groups |-> WriteGroup(groups[i])])
=============================================================================
