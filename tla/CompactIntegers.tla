--------------------------- MODULE CompactIntegers ---------------------------
(***************************************************************************)
(* Compact integers in a row, as the fields of most messages are: written  *)
(* by encode_uint (src/beam_p2p/codec.py), or by the node, and read one    *)
(* after the other by decode_uint and read_var_int (deserializers/         *)
(* core.py).  Nothing separates them: where one ends, the next begins.     *)
(***************************************************************************)
EXTENDS Wire

CONSTANTS
    Unsigned, Signed, \* integers that are written
    MaxWidth,         \* bound: bytes of a form that is longer than it needs
    MaxFields         \* bound: integers in a message

ASSUME IntegersAssumption ==
    /\ Unsigned \subseteq 0..(Huge - 1) /\ Signed \subseteq (1 - Huge)..(Huge - 1)
    /\ MaxWidth \in 0..127 /\ MaxFields \in Nat

VARIABLES
    buf,     \* the message
    sent,    \* the integers in it, in order, with their bytes and where these begin
    cut,     \* how many bytes are missing at its end
    pos,     \* the reader's position, or Failed
    values,  \* the integers read so far
    stage    \* "write", "read"; "done", "raised"

integersVars == <<buf, sent, cut, pos, values, stage>>

IntegersInit ==
    /\ buf = <<>> /\ sent = <<>> /\ cut = 0
    /\ pos = 1 /\ values = <<>> /\ stage = "write"

Write(signed, value, bytes) ==
    /\ stage = "write" /\ Len(sent) < MaxFields
    /\ buf' = buf \o bytes
    /\ sent' = Append(sent, [signed |-> signed, value |-> value, bytes |-> bytes, from |-> Len(buf)])
    /\ UNCHANGED <<cut, pos, values, stage>>

WriteUint(value) == Write(FALSE, value, EncodeUint(value))

\* The node may use more bytes than it needs.
LongForm(value, width) == <<width>> \o [i \in 1..width |-> HighBytes(value, i - 1) % 256]

WriteLong(value, width) == HighBytes(value, width) = 0 /\ Write(FALSE, value, LongForm(value, width))

WriteInt(value) == Write(TRUE, value, WriteVarInt(value))

\* The message arrives, or a beginning of it.
Deliver(missing) ==
    /\ stage = "write"
    /\ buf' = SubSeq(buf, 1, Len(buf) - missing) /\ cut' = missing
    /\ stage' = "read"
    /\ UNCHANGED <<sent, pos, values>>

ReadInteger(signed, from) == IF signed THEN ReadVarInt(buf, from) ELSE DecodeUint(buf, from)

\* The reader knows how many fields there are, and which are signed.
Read ==
    /\ stage = "read" /\ Len(values) < Len(sent)
    /\ LET read == ReadInteger(sent[Len(values) + 1].signed, pos)
       IN  /\ pos' = read.pos
           /\ IF read.pos = Failed
              THEN stage' = "raised" /\ UNCHANGED values
              ELSE stage' = stage /\ values' = Append(values, read.value)
    /\ UNCHANGED <<buf, sent, cut>>

Finish ==
    /\ stage = "read" /\ Len(values) = Len(sent)
    /\ stage' = "done"
    /\ UNCHANGED <<buf, sent, cut, pos, values>>

IntegersNext ==
    \/ \E value \in Unsigned :
          WriteUint(value) \/ \E width \in 0..MaxWidth : WriteLong(value, width)
    \/ \E value \in Signed : WriteInt(value)
    \/ \E missing \in 0..Len(buf) : Deliver(missing)
    \/ Read \/ Finish

IntegersSpec == IntegersInit /\ [][IntegersNext]_integersVars

-----------------------------------------------------------------------------
(* Properties. *)

\* Integers are read back as they were written, signed or not, in the shortest
\* form or a longer one, and exactly to the end of the message.  Of a message
\* that is cut off no integer is misread: reading fails, and only then.
IntegersReadBack ==
    /\ \A k \in DOMAIN values : k \in DOMAIN sent /\ values[k] = sent[k].value
    /\ stage = "done" => cut = 0 /\ Len(values) = Len(sent) /\ pos = Len(buf) + 1
    /\ stage = "raised" => cut > 0

-----------------------------------------------------------------------------
(* The inductive invariant behind it. *)

Integer == [signed: BOOLEAN, value: Int, bytes: Seq(Byte), from: Nat]

IntegersTypeOK ==
    /\ buf \in Seq(Byte) /\ sent \in Seq(Integer) /\ cut \in Nat
    /\ pos \in Nat /\ values \in Seq(Int)
    /\ stage \in {"write", "read", "done", "raised"}

\* Each has one of its forms,
IsForm(n) ==
    IF n.signed
    THEN n.value \in (1 - Huge)..(Huge - 1) /\ n.bytes = WriteVarInt(n.value)
    ELSE /\ n.value \in 0..(Huge - 1)
         /\ \/ n.bytes = EncodeUint(n.value)
            \/ \E width \in 0..127 :
                  HighBytes(n.value, width) = 0 /\ n.bytes = LongForm(n.value, width)

\* begins where the one before it ends, and has its bytes there, as far as the
\* message goes.
EndOf(k) == IF k = 0 THEN 0 ELSE sent[k].from + Len(sent[k].bytes)

InPlace(n) == \A i \in DOMAIN n.bytes : n.from + i <= Len(buf) => buf[n.from + i] = n.bytes[i]

LayoutInv ==
    /\ \A k \in DOMAIN sent :
          /\ IsForm(sent[k]) /\ InPlace(sent[k])
          /\ sent[k].from = EndOf(k - 1) /\ EndOf(k) <= Len(buf) + cut
    /\ Len(buf) + cut = EndOf(Len(sent))

\* The reader stands where the next one begins.
ReaderInv ==
    /\ Len(values) <= Len(sent)
    /\ stage # "raised" => pos = EndOf(Len(values)) + 1
    /\ stage = "write" => cut = 0 /\ values = <<>>
    /\ stage \in {"write", "read", "done"} => EndOf(Len(values)) <= Len(buf)

IntegersInv == IntegersTypeOK /\ LayoutInv /\ ReaderInv /\ IntegersReadBack
=============================================================================
