------------------------------- MODULE Replies -------------------------------
(***************************************************************************)
(* Decoding the replies in which a later part depends on an earlier one    *)
(* (src/beam_p2p/deserializers/query.py and tx.py): the assets of a page,  *)
(* of which an impossible lock height announces more fields; the logs and  *)
(* variables of contracts, packed into one buffer, the logs with positions *)
(* relative to the one before; a kernel that may be absent; a transaction. *)
(* Also the keys of contract variables (src/beam_p2p/utils.py).            *)
(* Assets, kernels and transactions are sequences of fields, as in         *)
(* TreasuryBlob; variables, logs and keys are sequences of bytes.          *)
(***************************************************************************)
EXTENDS TreasuryBlob

-----------------------------------------------------------------------------
\* _read_asset_full and _read_asset_info.

\* MAX_HEIGHT, as the value of a field.
Forever == 1000000

DepositFlag == 1
ContractFlag == 2

\* Flags, the real lock height, and a deposit if it is not the default follow
\* an asset that is locked for ever.
ReadAsset(buf, pos) ==
    LET base    == ReadFields(buf, pos, <<"var", "32", "16", "var", "buf">>)
        lock    == Value(buf, pos + 3, "var", 0)
        more    == ReadFields(buf, base, <<"var", "var">>)
        flags   == Value(buf, base, "var", 0)
        asset   == [id |-> Value(buf, pos, "var", 0), lock |-> lock, deposit |-> None,
                    contract |-> FALSE]
    IN  IF lock # Forever THEN [pos |-> base, value |-> asset]
        ELSE [pos |-> ReadFields(buf, more, IF Bit(flags, DepositFlag) THEN <<"var">> ELSE <<>>),
              value |-> [asset EXCEPT
                  !.lock     = Value(buf, base + 1, "var", 0),
                  !.deposit  = IF Bit(flags, DepositFlag) THEN Value(buf, more, "var", 0) ELSE None,
                  !.contract = Bit(flags, ContractFlag)]]

RECURSIVE ReadAssets(_, _, _)
ReadAssets(buf, read, count) ==
    LET next == ReadAsset(buf, read.pos)
    IN  IF count = 0 THEN read
        ELSE ReadAssets(buf, [pos |-> next.pos, value |-> Append(read.value, next.value)], count - 1)

\* deserialize_assets_list_at_payload.
ReadAssetsPage(buf) ==
    LET start == [pos |-> ReadFields(buf, 1, <<"var">>), value |-> <<>>]
        read  == ReadAssets(buf, start, Value(buf, 1, "var", 0))
    IN  [ok |-> ReadFields(buf, read.pos, <<"bool">>) = Len(buf) + 1,
         value |-> read.value, more |-> Value(buf, read.pos, "bool", FALSE)]

\* The writer: an asset that has more to say has its lock height moved.
WriteAsset(a) ==
    LET flags == (IF a.deposit # None THEN DepositFlag ELSE 0) + (IF a.contract THEN ContractFlag ELSE 0)
        moved == flags # 0 \/ a.lock = Forever
    IN  <<Field("var", a.id), Field("32", 0), Field("16", 0),
          Field("var", IF moved THEN Forever ELSE a.lock), Field("buf", 0)>>
        \o (IF moved THEN <<Field("var", flags), Field("var", a.lock)>> ELSE <<>>)
        \o (IF a.deposit # None THEN <<Field("var", a.deposit)>> ELSE <<>>)

WriteAssetsPage(assets, more) ==
    <<Field("var", Len(assets))>> \o FlattenSeq([i \in DOMAIN assets |-> WriteAsset(assets[i])])
    \o <<Field("bool", more)>>

-----------------------------------------------------------------------------
\* _parse_contract_var_entries and _parse_contract_log_entries: entries up to
\* the end of the buffer.

\* The key and value of an entry, behind their two sizes.
ReadSized(buf, pos) ==
    LET keySize   == DecodeUint(buf, pos)
        valueSize == DecodeUint(buf, keySize.pos)
        key       == ReadBytes(buf, valueSize.pos, keySize.value)
        value     == ReadBytes(buf, key.pos, valueSize.value)
    IN  [pos |-> value.pos, key |-> key.value, value |-> value.value]

RECURSIVE ReadVars(_, _, _)
ReadVars(buf, pos, entries) ==
    LET next == ReadSized(buf, pos)
    IN  IF pos = Len(buf) + 1 THEN [ok |-> TRUE, entries |-> entries]
        ELSE IF next.pos = Failed THEN [ok |-> FALSE, entries |-> <<>>]
        ELSE ReadVars(buf, next.pos, Append(entries, [key |-> next.key, value |-> next.value]))

\* Defective variant: the position within the block goes on across blocks.
PositionRunning(current, delta) ==
    [height |-> current.height + delta.height, pos |-> current.pos + delta.pos]

\* The position of a log: relative to the one before, except that the first
\* one of a block counts from the beginning of the block.
Position(current, delta) ==
    [height |-> current.height + delta.height,
     pos    |-> (IF delta.height # 0 THEN 0 ELSE current.pos) + delta.pos]

RECURSIVE ReadLogs(_, _, _, _)
ReadLogs(buf, pos, current, entries) ==
    LET height == DecodeUint(buf, pos)
        index  == DecodeUint(buf, height.pos)
        next   == ReadSized(buf, index.pos)
        at     == Position(current, [height |-> height.value, pos |-> index.value])
    IN  IF pos = Len(buf) + 1 THEN [ok |-> TRUE, entries |-> entries]
        ELSE IF next.pos = Failed THEN [ok |-> FALSE, entries |-> <<>>]
        ELSE ReadLogs(buf, next.pos, at, Append(entries, [at |-> at, key |-> next.key, value |-> next.value]))

ReadLogsPage(buf) == ReadLogs(buf, 1, [height |-> 0, pos |-> 0], <<>>)

WriteSized(e) == EncodeUint(Len(e.key)) \o EncodeUint(Len(e.value)) \o e.key \o e.value

WriteVars(entries) == FlattenSeq([i \in DOMAIN entries |-> WriteSized(entries[i])])

\* The writer: a block's first log has its index, any other the distance.
WriteLogs(entries) ==
    LET Before(i) == IF i = 1 THEN [height |-> 0, pos |-> 0] ELSE entries[i - 1].at
        Same(i)   == entries[i].at.height = Before(i).height
    IN  FlattenSeq([i \in DOMAIN entries |->
            EncodeUint(entries[i].at.height - Before(i).height)
            \o EncodeUint(IF Same(i) THEN entries[i].at.pos - Before(i).pos ELSE entries[i].at.pos)
            \o WriteSized(entries[i])])

-----------------------------------------------------------------------------
\* deserialize_proof_kernel2_payload: no kernel, or one of any subtype.

ReadProofKernel2(buf) ==
    LET start  == ReadFields(buf, 1, <<"proof", "var">>)
        absent == Value(buf, start, "u8", "end") = "null"
        read   == IF absent THEN [pos |-> ReadFields(buf, start, <<"u8">>), kernel |-> "null"]
                  ELSE DeserializeKernel(buf, start, FALSE)
    IN  [ok |-> read.pos = Len(buf) + 1, kernel |-> read.kernel]

WriteProofKernel2(kernel) ==
    <<Field("proof", 0), Field("var", 0)>>
    \o (IF kernel = <<>> THEN <<Field("u8", "null")>> ELSE WriteKernel(kernel[1], TRUE))

\* deserialize_new_transaction_payload and deserialize_transaction: a
\* transaction and a context may each be absent.
ReadTransaction(buf, pos) ==
    LET inputs  == Value(buf, pos, "u32", 0)
        out     == ReadFields(buf, pos, <<"u32">> \o Repeat("input", inputs))
        outputs == Value(buf, out, "u32", 0)
        ker     == ReadFields(buf, out, <<"u32">> \o Repeat("output", outputs))
        list    == Value(buf, ker, "kernels", [count |-> 0, mixed |-> FALSE])
        read    == DeserializeKernels(buf, [pos |-> ReadFields(buf, ker, <<"kernels">>), kernels |-> <<>>],
                                      list.count, ~list.mixed)
    IN  [pos   |-> ReadFields(buf, read.pos, <<"32">>),
         value |-> <<[inputs |-> inputs, outputs |-> outputs, kernels |-> read.kernels]>>]

ReadNewTransaction(buf) ==
    LET start   == ReadFields(buf, 1, <<"bool">>)
        read    == IF Value(buf, 1, "bool", FALSE) THEN ReadTransaction(buf, start)
                   ELSE [pos |-> start, value |-> <<>>]
        present == Value(buf, read.pos, "bool", FALSE)
        fluff   == ReadFields(buf, read.pos, <<"bool">> \o (IF present THEN <<"32">> ELSE <<>>))
    IN  [ok |-> ReadFields(buf, fluff, <<"bool">>) = Len(buf) + 1, transaction |-> read.value,
         context |-> present, fluff |-> Value(buf, fluff, "bool", FALSE)]

WriteNewTransaction(t) ==
    LET Write(tx) ==
            <<Field("u32", tx.inputs)>> \o Fields(Repeat("input", tx.inputs))
            \o <<Field("u32", tx.outputs)>> \o Fields(Repeat("output", tx.outputs))
            \o <<Field("kernels", [count |-> Len(tx.kernels), mixed |-> Mixed(tx.kernels)])>>
            \o WriteKernels(tx.kernels, Mixed(tx.kernels)) \o <<Field("32", 0)>>
    IN  <<Field("bool", t.transaction # <<>>)>>
        \o FlattenSeq([i \in DOMAIN t.transaction |-> Write(t.transaction[i])])
        \o <<Field("bool", t.context)>> \o (IF t.context THEN <<Field("32", 0)>> ELSE <<>>)
        \o <<Field("bool", t.fluff)>>
=============================================================================
