-------------------------------- MODULE Wire --------------------------------
(***************************************************************************)
(* Integers and fields at the level of bytes: the compact integers of      *)
(* src/beam_p2p/codec.py and the BufferReader of deserializers/core.py.    *)
(* A buffer is a sequence of bytes.  A read gives the value and the        *)
(* position behind it; a read beyond the end fails, and so does every read *)
(* after it.                                                               *)
(***************************************************************************)
EXTENDS Integers, Sequences, SequencesExt

\* Integers have no width in the code; those from here on are not told apart.
CONSTANT Huge

\* The position after a failed read.
Failed == 0

Saturated(n) == IF n >= Huge THEN Huge ELSE n

BigEndian(bytes) ==
    LET n[k \in 0..Len(bytes)] == IF k = 0 THEN 0 ELSE Saturated(256 * n[k - 1] + bytes[k])
    IN  n[Len(bytes)]

LittleEndian(bytes) == BigEndian(Reverse(bytes))

Byte == 0..255

Bit(flags, weight) == (flags \div weight) % 2 = 1

Bytes(byte, count) == [i \in 1..count |-> byte]

\* Bytes are told apart, and what is fits the eight bytes that Beam's integers
\* have.
ASSUME HugeAssumption == Huge \in Nat /\ Huge > 255 /\ BigEndian(Bytes(255, 8)) = Huge

-----------------------------------------------------------------------------
\* Compact integers.

\* value >> (8 * n)
HighBytes(value, n) ==
    LET high[k \in Nat] == IF k = 0 THEN value ELSE high[k - 1] \div 256
    IN  high[n]

ByteCount(value) ==
    CHOOSE size \in 1..(value + 1) :
        HighBytes(value, size) = 0 /\ (size > 1 => HighBytes(value, size - 1) # 0)

ToBytes(value) == [i \in 1..ByteCount(value) |-> HighBytes(value, i - 1) % 256]

\* Defective variant: 128 is taken to fit the seven bits of the short form.
EncodeUintInclusive(value) ==
    IF value <= 128 THEN <<128 + (value % 128)>> ELSE <<ByteCount(value)>> \o ToBytes(value)

EncodeUint(value) ==
    IF value < 128 THEN <<128 + value>> ELSE <<ByteCount(value)>> \o ToBytes(value)

\* A byte with the high bit set is the value; another one is the number of
\* bytes that follow, lowest first.  They need not be as few as possible.
DecodeUint(buf, pos) ==
    IF pos \notin DOMAIN buf THEN [pos |-> Failed, value |-> 0]
    ELSE IF buf[pos] >= 128 THEN [pos |-> pos + 1, value |-> buf[pos] - 128]
    ELSE IF pos + buf[pos] > Len(buf) THEN [pos |-> Failed, value |-> 0]
    ELSE [pos |-> pos + 1 + buf[pos], value |-> LittleEndian(SubSeq(buf, pos + 1, pos + buf[pos]))]

\* read_var_int: sign, short form, and six bits for the value or its length.
ReadVarInt(buf, pos) ==
    LET head  == buf[pos]
        sign  == IF Bit(head, 128) THEN -1 ELSE 1
        short == head % 64
    IN  IF pos \notin DOMAIN buf THEN [pos |-> Failed, value |-> 0]
        ELSE IF Bit(head, 64) THEN [pos |-> pos + 1, value |-> sign * short]
        ELSE IF pos + short > Len(buf) THEN [pos |-> Failed, value |-> 0]
        ELSE [pos   |-> pos + 1 + short,
              value |-> sign * LittleEndian(SubSeq(buf, pos + 1, pos + short))]

\* The writer of signed integers: not part of src/.
WriteVarInt(value) ==
    LET size == IF value < 0 THEN -value ELSE value
        sign == IF value < 0 THEN 128 ELSE 0
    IN  IF size < 64 THEN <<sign + 64 + size>> ELSE <<sign + ByteCount(size)>> \o ToBytes(size)

-----------------------------------------------------------------------------
\* BufferReader.

\* The position behind `count' bytes.
Skip(buf, pos, count) ==
    IF pos # Failed /\ pos + count - 1 <= Len(buf) THEN pos + count ELSE Failed

ReadBytes(buf, pos, count) ==
    LET end == Skip(buf, pos, count)
    IN  [pos |-> end, value |-> IF end = Failed THEN <<>> ELSE SubSeq(buf, pos, end - 1)]

ReadBigUint(buf, pos, size) ==
    LET read == ReadBytes(buf, pos, size)
    IN  [pos |-> read.pos, value |-> BigEndian(read.value)]

\* Fields in a row: numbers of bytes, or compact integers.
Compact == -1

SkipAll(buf, pos, sizes) ==
    FoldLeft(LAMBDA at, size : IF size = Compact THEN DecodeUint(buf, at).pos
                               ELSE Skip(buf, at, size), pos, sizes)
=============================================================================
