----------------------------- MODULE HeaderPack -----------------------------
(***************************************************************************)
(* Decoding an HdrPack (src/beam_p2p/deserializers/block.py): the pack has *)
(* the height, previous hash and chainwork of the lowest header and then   *)
(* the elements of all headers, highest first.  Heights, previous hashes   *)
(* and chainwork of the others are reconstructed.  A block hash covers the *)
(* rules hash of the fork the height belongs to, which is taken from the   *)
(* node's Login or, if that does not reach back so far, from a table.      *)
(*                                                                         *)
(* An element is its packed difficulty; a hash is the record of what it    *)
(* covers.                                                                 *)
(***************************************************************************)
EXTENDS Integers, Sequences, SequencesExt

CONSTANTS
    ForkHeights,    \* MAINNET_FORK_HEIGHTS: first height of each fork, ascending
    MantissaBits,   \* DIFFICULTY_MANTISSA_BITS
    ChainworkBits,  \* CHAINWORK_BITS
    Difficulties,   \* packed difficulties of the node's blocks
    Chainworks,     \* chainwork of the lowest header
    Heights,        \* height of the lowest header
    MaxHeaders      \* bound: headers in a pack

ASSUME ForkAssumption ==
    /\ ForkHeights \in Seq(Nat) /\ Len(ForkHeights) >= 2 /\ ForkHeights[1] = 0
    /\ \A i, j \in DOMAIN ForkHeights : i < j => ForkHeights[i] < ForkHeights[j]

ASSUME WidthAssumption ==
    /\ MantissaBits \in Nat /\ ChainworkBits \in Nat /\ MantissaBits < ChainworkBits
    /\ Difficulties \subseteq Nat /\ Chainworks \subseteq 0..(2^ChainworkBits - 1)
    /\ Heights \subseteq Nat /\ MaxHeaders \in Nat

VARIABLES
    chain,      \* the node's headers, lowest first
    lowest,     \* height and chainwork of the first of them
    known,      \* how many fork hashes the node's Login had
    cursor,     \* height, previous hash and chainwork of the next header
    headers,    \* headers decoded so far
    pc          \* "build", "advance"; "done", "raised"

vars == <<chain, lowest, known, cursor, headers, pc>>

Forks == Len(ForkHeights)

\* A rules hash: the table's own, or the one the node reported for a fork.
TableHash(fork) == [from |-> "table", fork |-> fork]
NodeHash(fork)  == [from |-> "node", fork |-> fork]
NoHash          == [from |-> "none", fork |-> 0]
BadHash         == [from |-> "error", fork |-> 0]

-----------------------------------------------------------------------------
\* The node: not part of src/.  It reports the hashes of its latest forks; a
\* node newer than the table may report more than the table has.

FirstReported == Forks - known

\* The fork hashes in the node's Login, as parsed.
PeerForkHashes == [i \in 1..known |-> NodeHash(FirstReported + i - 1)]

\* The elements as they are in the pack.
Elements == Reverse(chain)

-----------------------------------------------------------------------------
\* The choice of the rules hash.  Forks are numbered from 0.

\* The last fork whose height has been reached.
ForkIndex(height) ==
    CHOOSE i \in 0..(Forks - 1) :
        /\ \A j \in 0..i : height >= ForkHeights[j + 1]
        /\ i + 1 < Forks => height < ForkHeights[i + 2]

\* Defective variant: the hashes reported are taken to be those of the first
\* forks.
RulesHashFromFirst(height, hashes) ==
    LET fork == ForkIndex(height)
    IN  IF fork < 2 THEN NoHash
        ELSE IF Len(hashes) > Forks THEN BadHash
        ELSE IF fork < Len(hashes) THEN hashes[fork + 1] ELSE TableHash(fork)

\* The hashes reported are those of the last forks in the table.
RulesHash(height, hashes) ==
    LET fork  == ForkIndex(height)
        start == Forks - Len(hashes)
    IN  IF fork < 2 THEN NoHash
        ELSE IF hashes = <<>> THEN TableHash(fork)
        ELSE IF Len(hashes) > Forks THEN BadHash
        ELSE IF fork < start THEN TableHash(fork)
        ELSE hashes[fork - start + 1]

-----------------------------------------------------------------------------
\* Difficulty and chainwork.

Infinite == (ChainworkBits - MantissaBits) * 2^MantissaBits

Work(packed) ==
    IF packed >= Infinite
    THEN 2^ChainworkBits - 1
    ELSE (2^MantissaBits + (packed % 2^MantissaBits)) * 2^(packed \div 2^MantissaBits)

\* Defective variant: the limit is off by one.
OverflowsStrict(chainwork) == chainwork >= 2^ChainworkBits - 1

\* A chainwork that does not fit its width.
Overflows(chainwork) == chainwork >= 2^ChainworkBits

-----------------------------------------------------------------------------
\* The decoding loop.

BlockHash(at, element, rules) ==
    [height |-> at.height, previous |-> at.previous, chainwork |-> at.chainwork,
     element |-> element, rules |-> rules]

Init ==
    /\ chain \in UNION {[1..n -> Difficulties] : n \in 0..MaxHeaders}
    /\ \E h \in Heights, w \in Chainworks :
          lowest = [height |-> h, previous |-> "first", chainwork |-> w]
    /\ known \in 0..(Forks + 1)
    /\ cursor = lowest
    /\ headers = <<>>
    /\ pc = IF chain = <<>> THEN "done" ELSE "build"

Ascending == Reverse(Elements)

\* _build_block_header for the next element.
Build ==
    /\ pc = "build"
    /\ LET element == Ascending[Len(headers) + 1]
           rules   == RulesHash(cursor.height, PeerForkHashes)
       IN  IF rules = BadHash
           THEN pc' = "raised" /\ UNCHANGED headers
           ELSE /\ headers' = Append(headers, [at |-> cursor, element |-> element,
                                               rules |-> rules,
                                               hash |-> BlockHash(cursor, element, rules)])
                /\ pc' = IF Len(headers') = Len(Ascending) THEN "done" ELSE "advance"
    /\ UNCHANGED <<chain, lowest, known, cursor>>

\* Defective variant: the difficulty added is that of the header just built.
AdvanceByOwn ==
    /\ pc = "advance"
    /\ LET last == headers[Len(headers)]
           work == cursor.chainwork + Work(last.element)
       IN  IF Overflows(work)
           THEN pc' = "raised" /\ UNCHANGED cursor
           ELSE /\ cursor' = [height |-> cursor.height + 1, previous |-> last.hash,
                              chainwork |-> work]
                /\ pc' = "build"
    /\ UNCHANGED <<chain, lowest, known, headers>>

\* On to the next header: its chainwork includes its own difficulty.
Advance ==
    /\ pc = "advance"
    /\ LET last == headers[Len(headers)]
           work == cursor.chainwork + Work(Ascending[Len(headers) + 1])
       IN  IF Overflows(work)
           THEN pc' = "raised" /\ UNCHANGED cursor
           ELSE /\ cursor' = [height |-> cursor.height + 1, previous |-> last.hash,
                              chainwork |-> work]
                /\ pc' = "build"
    /\ UNCHANGED <<chain, lowest, known, headers>>

Next == Build \/ Advance

Spec == Init /\ [][Next]_vars

-----------------------------------------------------------------------------
(* Properties.  What the node would say of its own chain: *)

\* The chainwork up to each of its headers.
TotalWork[k \in DOMAIN chain] ==
    IF k = 1 THEN lowest.chainwork ELSE TotalWork[k - 1] + Work(chain[k])

\* The rules in force at a height: those of the highest fork not above it,
\* as the node reported them if it did.
TrueRules(height) ==
    LET begun == {i \in 1..Forks : ForkHeights[i] <= height}
        fork  == CHOOSE i \in begun : \A j \in begun : j <= i
    IN  IF fork <= 2 THEN NoHash
        ELSE IF fork - 1 >= FirstReported THEN NodeHash(fork - 1) ELSE TableHash(fork - 1)

\* The headers decoded are those of the node's chain: heights, elements and
\* chainwork, each linked to the hash of the one below.
DecodedIsChain ==
    \A k \in DOMAIN headers :
        /\ headers[k].element = chain[k]
        /\ headers[k].at.height = lowest.height + k - 1
        /\ headers[k].at.chainwork = TotalWork[k]
        /\ headers[k].at.previous = IF k = 1 THEN lowest.previous ELSE headers[k - 1].hash

\* Every block hash is computed under the rules in force at its height, even
\* if a fork begins inside the pack.
HashedUnderTrueRules == \A k \in DOMAIN headers :
    headers[k].rules = TrueRules(headers[k].at.height)

\* The chainwork up to header k does not fit its width.
TooMuch(k) == TotalWork[k] >= 2^ChainworkBits

\* A pack is refused if and only if its chainwork really does not fit its
\* width, or the node knows forks that the table does not.
RefusedForReason ==
    /\ pc = "raised" => TooMuch(Len(headers) + 1) \/ known > Forks
    /\ \A k \in DOMAIN headers :
          ~TooMuch(k) /\ (ForkIndex(headers[k].at.height) >= 2 => known <= Forks)

-----------------------------------------------------------------------------
(* The inductive invariant behind these properties. *)

TypeOK ==
    /\ chain \in Seq(Difficulties) /\ Len(chain) <= MaxHeaders
    /\ lowest \in [height: Heights, previous: {"first"}, chainwork: Chainworks]
    /\ known \in 0..(Forks + 1)
    /\ cursor.height \in Nat
    /\ headers \in Seq(ToSet(headers)) /\ Len(headers) <= Len(chain)
    /\ pc \in {"build", "advance", "done", "raised"}

\* The cursor is that of the header decoded last, or of the next one; no
\* header is left out at the end.
CursorInv ==
    /\ pc = "build" =>
          /\ Len(headers) < Len(chain)
          /\ cursor.height = lowest.height + Len(headers)
          /\ cursor.chainwork = TotalWork[Len(headers) + 1] /\ ~TooMuch(Len(headers) + 1)
          /\ cursor.previous = IF headers = <<>> THEN lowest.previous
                               ELSE headers[Len(headers)].hash
    /\ pc = "advance" =>
          /\ headers # <<>> /\ Len(headers) < Len(chain)
          /\ cursor = headers[Len(headers)].at
    /\ pc = "done" => Len(headers) = Len(chain)

IInv == TypeOK /\ CursorInv /\ DecodedIsChain /\ HashedUnderTrueRules /\ RefusedForReason
=============================================================================
