------------------------------ MODULE MCFormats ------------------------------
(***************************************************************************)
(* Small instances of Decoding, CompactIntegers and ContractScan in one    *)
(* run.  Headers: four forks, packs that cross two of them, a chainwork of *)
(* five bits and difficulties with one bit of mantissa, from the smallest  *)
(* to the infinite.  Replies come after one header before fork 3, one      *)
(* after it, or one on each side.  Integers: values on both sides of every *)
(* boundary of their forms.  Contracts are neighbours: the last byte       *)
(* decides, or a carry; tags lie on both sides of those with a meaning,    *)
(* and keys and numbers at both ends of what there can be.                 *)
(***************************************************************************)
EXTENDS Decoding, CompactIntegers, ContractScan

FourForks == <<0, 2, 3, 5>>

Headers(elements, height) == [elements |-> elements, height |-> height, chainwork |-> 1, known |-> 2]
ThreeHeadings == {Headers(<<1>>, 4), Headers(<<1>>, 5), Headers(<<1, 0>>, 4)}

-----------------------------------------------------------------------------
\* Kernels of both counts, nested in one another.

Kernel(subtype, flags, nested) ==
    [subtype |-> subtype, flags |-> flags, flags2 |-> {}, nested |-> nested]

Plain     == Kernel("STD", {Fee}, <<>>)
Relative  == [Kernel("STD", {Nested, Flags2}, <<Plain>>) EXCEPT !.flags2 = {RelativeLock}]
Invoke    == Kernel("CONTRACT_INVOKE", {Fee, Nested}, <<Plain, Kernel("ASSET_EMIT", {}, <<>>)>>)
KernelLists == {<<>>, <<Plain, Relative>>, <<Invoke, Plain>>}

-----------------------------------------------------------------------------
\* Blocks: every format, up to two inputs and outputs, each kind of proof and
\* optional field.  The bytes of points and proofs are not all zero: a
\* payload of zeros, which no node writes, may be read in two formats.

Out(flags, incubation) == [flags |-> flags, incubation |-> incubation]

OutputLists ==
    {<<>>,
     <<Out(Confidential + Coinbase + Incubation, 200)>>,
     <<Out(Public + AssetProof + ExtraFlags, None), Out(1, None)>>,
     <<Out(Confidential + AssetProof + Incubation, 60), Out(Public + AssetProof, None)>>}

InputLists == {<<>>, <<[flags |-> 1]>>, <<[flags |-> 0], [flags |-> 1]>>}

Formats == {<<"full", "full">>, <<"fixed", "none">>, <<"fixed", "offset">>, <<"fixed", "full">>,
            <<"sparse", "none">>, <<"sparse", "offset">>, <<"sparse", "full">>}

Block(format, inputs, outputs, kernels, fill, scalar) ==
    [format |-> format[1], rest |-> format[2], inputs |-> inputs, outputs |-> outputs,
     kernels |-> kernels, fill |-> fill, scalar |-> scalar, cut |-> 0]

WholeBodies ==
    {Block(f, i, o, <<Invoke, Plain>>, fill[1], fill[2]) :
        f \in Formats, i \in InputLists, o \in OutputLists, fill \in {<<1, 0>>, <<200, 255>>}}
    \cup {Block(<<"full", "full">>, <<>>, <<>>, k, 1, 1) : k \in KernelLists}

AllBodies == WholeBodies \cup {[b EXCEPT !.cut = 1] : b \in {c \in WholeBodies : c.fill = 1}}

Asset(f) == Block(f, <<[flags |-> 1]>>, <<Out(Confidential + AssetProof, None)>>, <<Plain, Relative>>, 3, 9)
Assorted == {Asset(f) : f \in Formats} \cup {[Asset(<<"sparse", "none">>) EXCEPT !.cut = 1]}
Packs == UNION {[1..n -> Assorted] : n \in 0..3}

-----------------------------------------------------------------------------
\* Other replies, with values on both sides of every boundary.

Assets ==
    [id : {1, 300}, lock : {0, Forever - 1, Forever}, deposit : {None, 0, 5}, contract : BOOLEAN]

AssetReplies ==
    {[kind |-> "assets", assets |-> a, more |-> m] :
        a \in UNION {[1..n -> Assets] : n \in 0..2}, m \in BOOLEAN}

Entry(key, value) == [key |-> key, value |-> value]
Entries == {Entry(<<>>, <<>>), Entry(<<128>>, <<0, 5>>), Entry(Bytes(1, 130), <<255>>)}

VarReplies ==
    {[kind |-> "vars", entries |-> e] : e \in UNION {[1..n -> Entries] : n \in 0..2}}

\* Logs of one block, of several blocks, and with positions that go back.
At(height, position) == [at |-> [height |-> height, pos |-> position], key |-> <<height % 256>>, value |-> <<1, 2>>]
Places == {At(h, p) : h \in {0, 7, 200}, p \in {0, 1, 128, 300}}
Later(a, b) == a.at.height < b.at.height \/ (a.at.height = b.at.height /\ a.at.pos < b.at.pos)

LogReplies ==
    {[kind |-> "logs", entries |-> e] :
        e \in {s \in UNION {[1..n -> Places] : n \in 0..3} :
                  \A i \in 1..(Len(s) - 1) : Later(s[i], s[i + 1])}}

KernelReplies ==
    {[kind |-> "kernel", kernel |-> k] : k \in {<<>>, <<Plain>>, <<Relative>>, <<Invoke>>}}

TransactionReplies ==
    {[kind |-> "transaction", payload |-> [transaction |-> t, context |-> c, fluff |-> f]] :
        t \in {<<>>} \cup {<<[inputs |-> i, outputs |-> o, kernels |-> k]>> :
                              i \in 0..2, o \in 0..2, k \in KernelLists},
        c \in BOOLEAN, f \in BOOLEAN}

AllOtherReplies ==
    AssetReplies \cup VarReplies \cup LogReplies \cup KernelReplies \cup TransactionReplies

-----------------------------------------------------------------------------
\* Integers.

SmallSigned == {0, 63, 64, 256, -1, -63, -64, -255}

-----------------------------------------------------------------------------
\* Contracts.

Some == Bytes(1, 31) \o <<255>>
Carried == Bytes(1, 30) \o <<2, 0>>
SomeContracts == {ZeroContract, Some}
Neighbours == {ZeroContract, Bytes(0, 31) \o <<1>>, Some, Carried}

Shader(c)     == [kind |-> "shader", contract |-> c]
Other(c, t, k) == [kind |-> "other", contract |-> c, tag |-> t, key |-> k]
Funds(c, a, n) == [kind |-> "funds", contract |-> c, asset |-> a, amount |-> n]
Deployed(s, c) == [kind |-> "deployed", shader |-> s, contract |-> c, height |-> 70000]

\* Every kind, of neighbouring contracts.
Full ==
    {Shader(c) : c \in Neighbours}
    \cup {Other(c, 0, <<>>) : c \in Neighbours} \cup {Other(Some, 255, Bytes(255, 256))}
    \cup {Other(c, 2, <<0>>) : c \in {ZeroContract, Some}} \cup {Other(Some, 16, <<5>>)}
    \cup {Funds(c, a, 5) : c \in {Some, Carried}, a \in {0, 300}} \cup {Funds(Some, Huge, Huge)}
    \cup {Deployed(Bytes(0, 32), ZeroContract), Deployed(Bytes(255, 32), Some),
          Deployed(Bytes(255, 32), Bytes(255, 32))}

\* What a block may change: an amount, a contract's shader, what is stored.
Moved == (Full \ {Funds(Some, 300, 5), Deployed(Bytes(255, 32), Some)})
         \cup {Funds(Some, 300, 6), Deployed(Bytes(3, 32), Some)}
Sparse == {Shader(Some), Other(Some, 17, <<>>), Funds(Some, 0, 0), Funds(Carried, 1, 256)}

SomeStores == {Full, Moved, Sparse, {}}

-----------------------------------------------------------------------------
\* The three share no variable, so that each reaches alone what it reaches
\* beside the others: a behaviour is one of one of them, while the other two
\* stay in their first state.

VARIABLE machine

DecodingRests == DecodingInit /\ chain = <<>> /\ known = 0 /\ lowest.height = 0 /\ lowest.chainwork = 1
IntegersRest  == IntegersInit
ScanRests     == ScanInit /\ stored = {} /\ asked = [kind |-> "storage", contract |-> ZeroContract]

FormatsInit ==
    \/ machine = "decoding" /\ DecodingInit /\ IntegersRest /\ ScanRests
    \/ machine = "integers" /\ IntegersInit /\ DecodingRests /\ ScanRests
    \/ machine = "scan" /\ ScanInit /\ DecodingRests /\ IntegersRest

FormatsNext ==
    \/ machine = "decoding" /\ DecodingNext /\ UNCHANGED <<machine, integersVars, scanVars>>
    \/ machine = "integers" /\ IntegersNext /\ UNCHANGED <<machine, allVars, scanVars>>
    \/ machine = "scan" /\ ScanNext /\ UNCHANGED <<machine, allVars, integersVars>>

FormatsSpec == FormatsInit /\ [][FormatsNext]_<<machine, allVars, integersVars, scanVars>>
=============================================================================
