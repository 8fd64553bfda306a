------------------------------ MODULE Decoding ------------------------------
(***************************************************************************)
(* What a client decodes on one connection: headers first (HeaderPack),    *)
(* then the bodies of the blocks under these headers (BlockBody), or       *)
(* another reply (Replies).  How a body is read depends on the height that *)
(* was reconstructed for its header: this is where the two meet.           *)
(***************************************************************************)
EXTENDS HeaderPack, BlockBody, Replies

CONSTANTS
    Bodies,        \* blocks the node sends in a Body
    BodyPacks,     \* sequences of blocks it sends in a BodyPack
    OtherReplies,  \* other replies
    Headings       \* bound: the header packs after which there are replies

ASSUME Fork3Assumption == Len(ForkHeights) >= 4

VARIABLES
    message,   \* what the node has sent
    decoded,   \* the blocks decoded so far, or the reply
    phase      \* "headers", "bodies", "reply"; "decoded", "refused"

allVars == <<chain, lowest, known, cursor, headers, pc, message, decoded, phase>>

NoMessage == [kind |-> "none"]

DecodingInit ==
    /\ Init
    /\ message = NoMessage /\ decoded = <<>> /\ phase = "headers"

-----------------------------------------------------------------------------
\* The node: not part of src/.

Heading == [elements |-> chain, height |-> lowest.height, chainwork |-> lowest.chainwork,
            known |-> known]

Answering == phase = "headers" /\ pc = "done" /\ headers # <<>> /\ Heading \in Headings

Send(m, next) ==
    /\ message' = m /\ phase' = next
    /\ UNCHANGED <<chain, lowest, known, cursor, headers, pc, decoded>>

SendBody(block)      == Send([kind |-> "Body", blocks |-> <<block>>], "bodies")
SendBodyPack(blocks) == Send([kind |-> "BodyPack", blocks |-> blocks], "bodies")
SendReply(reply)     == Send(reply, "reply")

\* MAINNET_FORK3_HEIGHT.
Fork3(height) == height >= ForkHeights[4]

Sent(k) == WriteBody(message.blocks[k], Fork3(lowest.height + k - 1))

-----------------------------------------------------------------------------
\* The client.

DecodeHeaders ==
    /\ phase = "headers"
    /\ Next
    /\ UNCHANGED <<message, decoded, phase>>

\* split_body_pack_payload and the check of deserialize_body_pack_payloads.
Misfit == message.kind = "BodyPack" /\ Len(message.blocks) \notin 1..Len(headers)

RefusePack ==
    /\ phase = "bodies" /\ Misfit
    /\ phase' = "refused"
    /\ UNCHANGED <<chain, lowest, known, cursor, headers, pc, message, decoded>>

\* The next body, under its own header; if it is refused, so is the message.
DecodeBody ==
    /\ phase = "bodies" /\ ~Misfit
    /\ LET k == Len(decoded) + 1
       IN  \E block \in {ReadBody(Sent(k), Fork3(headers[k].at.height))} :
              \/ /\ ~block.ok
                 /\ phase' = "refused" /\ decoded' = <<>>
              \/ /\ block.ok
                 /\ decoded' = Append(decoded, block)
                 /\ phase' = IF k = Len(message.blocks) THEN "decoded" ELSE "bodies"
    /\ UNCHANGED <<chain, lowest, known, cursor, headers, pc, message>>

ReadReply(m) ==
    CASE m.kind = "assets"      -> ReadAssetsPage(WriteAssetsPage(m.assets, m.more))
      [] m.kind = "vars"        -> ReadVars(WriteVars(m.entries), 1, <<>>)
      [] m.kind = "logs"        -> ReadLogsPage(WriteLogs(m.entries))
      [] m.kind = "kernel"      -> ReadProofKernel2(WriteProofKernel2(m.kernel))
      [] m.kind = "transaction" -> ReadNewTransaction(WriteNewTransaction(m.payload))

DecodeReply ==
    /\ phase = "reply"
    /\ decoded' = <<ReadReply(message)>>
    /\ phase' = "decoded"
    /\ UNCHANGED <<chain, lowest, known, cursor, headers, pc, message>>

-----------------------------------------------------------------------------
DecodingNext ==
    \/ DecodeHeaders
    \/ /\ Answering
       /\ \/ \E block \in Bodies : SendBody(block)
          \/ \E blocks \in BodyPacks : SendBodyPack(blocks)
          \/ \E reply \in OtherReplies : SendReply(reply)
    \/ RefusePack \/ DecodeBody \/ DecodeReply

DecodingSpec == DecodingInit /\ [][DecodingNext]_allVars

-----------------------------------------------------------------------------
(* Properties. *)

\* Whatever the format of a body, and although nothing in it says which it is,
\* the block decoded has the inputs, outputs, kernels and offset the node
\* wrote, also if fork 3 begins within the range.  A message is refused, as a
\* whole, if and only if one of its bodies is cut off or it is a pack that is
\* empty or has more bodies than there are headers.
BlocksAsWritten ==
    message.kind \in {"Body", "BodyPack"} =>
        LET blocks == message.blocks
            cut    == {k \in DOMAIN blocks : blocks[k].cut > 0}
            misfit == message.kind = "BodyPack" /\ Len(blocks) \notin 1..Len(chain)
        IN  /\ \A k \in DOMAIN decoded :
                  decoded[k] = Written(blocks[k], Fork3(lowest.height + k - 1))
            /\ phase = "refused" => misfit \/ cut # {}
            /\ phase = "decoded" => ~misfit /\ cut = {} /\ Len(decoded) = Len(blocks)

SentReply(m) ==
    CASE m.kind = "assets" -> [ok |-> TRUE, value |-> m.assets, more |-> m.more]
      [] m.kind \in {"vars", "logs"} -> [ok |-> TRUE, entries |-> m.entries]
      [] m.kind = "kernel" -> [ok |-> TRUE, kernel |-> IF m.kernel = <<>> THEN "null" ELSE m.kernel[1]]
      [] m.kind = "transaction" -> [ok |-> TRUE, transaction |-> m.payload.transaction,
                                    context |-> m.payload.context, fluff |-> m.payload.fluff]

\* A reply with parts that announce or displace others is decoded to what the
\* node sent: assets with moved lock heights, logs with relative positions,
\* kernels and transactions with nested kernels before other fields.
ReplyAsSent ==
    phase = "decoded" /\ message.kind \notin {"Body", "BodyPack"} =>
        decoded = <<SentReply(message)>>
=============================================================================
