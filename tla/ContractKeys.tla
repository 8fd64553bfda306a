----------------------------- MODULE ContractKeys -----------------------------
(***************************************************************************)
(* The keys of contract variables (src/beam_p2p/utils.py): which entries   *)
(* of a node's store the key ranges select, and what the entries of the    *)
(* two indexed kinds say.  The node keeps the shader of a contract under   *)
(* the contract's identifier, and anything else under identifier, tag and  *)
(* a key; an enumeration gives the entries of a range, both ends included, *)
(* in the order of their bytes.  Identifiers have their real sizes.        *)
(***************************************************************************)
EXTENDS Wire

ContractIdSize == 32
ShaderIdSize == 32
SuffixMaxSize == 1 + 256
SidCidTag == 16
LockedAmountTag == 1
AssetIdSize == 4
ComponentSize == 8
HeightSize == 8

ZeroContract == Bytes(0, ContractIdSize)

-----------------------------------------------------------------------------
\* The ranges.

\* Defective variant: the range begins with the shader's own key.
StorageRangeWithShader(cid) == [min |-> cid, max |-> cid \o Bytes(255, SuffixMaxSize)]

StorageRange(cid) == [min |-> cid \o <<0>>, max |-> cid \o Bytes(255, SuffixMaxSize)]

LockedFundsRange(cid) ==
    LET prefix == cid \o <<LockedAmountTag>>
    IN  [min |-> prefix \o Bytes(0, AssetIdSize), max |-> prefix \o Bytes(255, AssetIdSize)]

SidCidRange ==
    LET prefix == ZeroContract \o <<SidCidTag>>
        size   == ShaderIdSize + ContractIdSize
    IN  [min |-> prefix \o Bytes(0, size), max |-> prefix \o Bytes(255, size)]

-----------------------------------------------------------------------------
\* What the entries say.

Invalid == [ok |-> FALSE]

Part(bytes, from, size) == SubSeq(bytes, from + 1, from + size)

\* Defective variant: the high half of an amount is ignored.
ParseLockedFundsLow(e) ==
    LET low == BigEndian(Part(e.value, ComponentSize, ComponentSize))
    IN  IF \/ Len(e.key) # ContractIdSize + 1 + AssetIdSize
           \/ e.key[ContractIdSize + 1] # LockedAmountTag
           \/ Len(e.value) # 2 * ComponentSize
        THEN Invalid
        ELSE [ok |-> TRUE, contract |-> Part(e.key, 0, ContractIdSize),
              asset  |-> BigEndian(Part(e.key, ContractIdSize + 1, AssetIdSize)),
              amount |-> low]

\* parse_contract_locked_funds_entry.
ParseLockedFunds(e) ==
    LET high == BigEndian(Part(e.value, 0, ComponentSize))
        low  == BigEndian(Part(e.value, ComponentSize, ComponentSize))
    IN  IF \/ Len(e.key) # ContractIdSize + 1 + AssetIdSize
           \/ e.key[ContractIdSize + 1] # LockedAmountTag
           \/ Len(e.value) # 2 * ComponentSize
        THEN Invalid
        ELSE [ok |-> TRUE, contract |-> Part(e.key, 0, ContractIdSize),
              asset  |-> BigEndian(Part(e.key, ContractIdSize + 1, AssetIdSize)),
              amount |-> IF high > 0 THEN Huge ELSE low]

\* parse_contract_sid_cid_entry.
ParseSidCid(e) ==
    IF \/ Len(e.key) # ContractIdSize + 1 + ShaderIdSize + ContractIdSize
       \/ Part(e.key, 0, ContractIdSize) # ZeroContract
       \/ e.key[ContractIdSize + 1] # SidCidTag
       \/ Len(e.value) # HeightSize
    THEN Invalid
    ELSE [ok |-> TRUE,
          shader   |-> Part(e.key, ContractIdSize + 1, ShaderIdSize),
          contract |-> Part(e.key, ContractIdSize + 1 + ShaderIdSize, ContractIdSize),
          height   |-> BigEndian(e.value)]

-----------------------------------------------------------------------------
\* The node's store: not part of src/.

Padded(n, size) ==
    IF n = Huge THEN Bytes(255, size) ELSE [i \in 1..size |-> HighBytes(n, size - i) % 256]

ShaderEntry(cid) == [key |-> cid, value |-> <<7>>]

OtherEntry(cid, tag, key) == [key |-> cid \o <<tag>> \o key, value |-> <<7>>]

LockedFundsEntry(f) ==
    [key   |-> f.contract \o <<LockedAmountTag>> \o Padded(f.asset, AssetIdSize),
     value |-> Padded(IF f.amount = Huge THEN 1 ELSE 0, ComponentSize)
               \o Padded(IF f.amount = Huge THEN 0 ELSE f.amount, ComponentSize)]

SidCidEntry(d) ==
    [key   |-> ZeroContract \o <<SidCidTag>> \o d.shader \o d.contract,
     value |-> Padded(d.height, HeightSize)]

\* The order of bytes.
Agree(a, b, n) == \A i \in 1..n : a[i] = b[i]

AtMost(a, b) ==
    \/ Len(a) <= Len(b) /\ Agree(a, b, Len(a))
    \/ \E i \in DOMAIN a \cap DOMAIN b : a[i] < b[i] /\ Agree(a, b, i - 1)

Enumerated(entries, range) ==
    {e \in entries : AtMost(range.min, e.key) /\ AtMost(e.key, range.max)}
=============================================================================
