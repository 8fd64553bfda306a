# beam-p2p: a TLA+ model

`beam_p2p` is a Python client for the peer-to-peer protocol of Beam nodes. It opens a TCP connection, sets up an
encrypted channel, logs in, asks a node for headers, blocks, proofs, assets and contract data, and decodes what
comes back. This directory models its control logic in TLA+, checks it with TLC and proves the safety properties of
the connection, the request client, the exchanges of several messages, the decoding of headers and of compact integers,
the emission and the listing of contract keys with TLAPS. Paths below are relative to `src/src/beam_p2p/` unless they
begin with `src/`.

## 1. Inventory of the system

The client is synchronous and single-threaded; its environment is not. The node writes when it likes, TCP delivers
bytes in chunks of any length, timeouts strike between any two bytes, and the chain changes between two requests.
These, not threads, make the code hard to test.

| Component | State | Operations | Interacts with |
|---|---|---|---|
| Connection (`connection.py`) | `sock`, its timeout, `_buf`, `_pending`, `peer_fork_hashes`, `peer_login_flags` | `connect`, `_recv`, `recv`, `send`, `recv_message`, `handshake`, `collect_peers`, `close` | secure channel, codec; the node |
| Secure channel (`secure_channel.py`) | nonce, keys, two AES-CTR positions, `in_on`, `out_on` | `generate_nonce`, `derive_keys`, `mac`, `encrypt`, `decrypt` | driven by the connection |
| Request client (`query_client.py`) | the connection, `request_timeout`, `dependent_contexts`, `dependent_prefix_depth` | `recv_until`, `wait_for_tip`, `_request` and some twenty methods over it, `set_dependent_context`, `request_headers`, `request_body_range_payload`, `fetch_blocks`, `get_treasury_payload`, `get_assets_list_at` | connection; decoders |
| Header and body decoding (`deserializers/block.py`, `proofs.py`) | none; loops carry height, previous hash, chainwork | `deserialize_header_pack_payloads`, `deserialize_new_tip_payload`, `deserialize_body_pack_payloads`, perishable formats | fork hashes from Login; heights from the headers; kernel and tx decoders |
| Circulation (`circulation.py`) | none; loops carry height and sum | `emission_for_range`, `total_emission`, `treasury_bursts`, `treasury_released`, `circulation_at_height` | request client for the live figure |
| Codec, constants (`codec.py`, `protocol.py`, `deserializers/core.py`) | a reader's offset | framing, compact integers, request payloads, `BufferReader` | everything |
| Contract keys (`utils.py`) | none | key ranges, parsers of indexed entries, addresses | request client; the examples |
| Treasury blob (`treasury.py`) | none | decode groups, skip kernels, release heights | kernel and tx decoders |
| Kernels, transactions, query replies (`deserializers/`) | loops carry a position | parsing of replies, in some of which a later part depends on an earlier one | request client |
| Data models, package exports | none | - | - |
| Examples (`src/example/`) | loops carry cursor, entries, limit | command-line programs; five of them collect lists page by page | the library |

What is hard, and what must hold:

- **Connection.** Bytes read ahead across the switch to encryption; a timeout inside a header (harmless) or between
  a header and its body (the stream is out of step from then on, and may fall back into step by chance); messages
  that arrive before Login and must be kept. It must never return a frame twice, out of order or made up, must not
  lose one without reporting a fault, and must stay in step with the key stream.
- **Request client.** Replies carry no request number: a reply is recognised by its type alone. Keep-alives, tips
  and context changes arrive in between. Which calls can get somebody else's answer, and which cannot?
- **Blocks.** Two requests on a chain that may be reorganised in between; bodies carry no identity.
- **Lists.** Several requests on a list that may change in between, a limit of the application's own, and pages that
  may be empty: nothing lost, nothing twice, and a true answer to whether there is more.
- **Bodies and replies.** Formats that nothing announces, fields whose presence or meaning depends on a flag, a height
  or an impossible value, and positions relative to the entry before: one part read wrongly displaces all that follow.
- **Peers.** A deadline that is looked at only between messages.
- **Headers, emission.** Boundaries: first and last height of a fork or a segment, chainwork at 256 bits.

`PROJECT.json` lists every component with its status, every hazard at its line with the properties that watch it,
and the lines each definition translates.

## 2. Modules

| Module | Models | Composition |
|---|---|---|
| `MessageChannel` | what a connection promises, without bytes: messages 1, 2, 3, ... are taken in order, some handled, others kept and returned; after a reported fault some may be missing | abstract specification |
| `BeamConnection` | the connection and the secure channel down to bytes, chunks, timeouts and key-stream positions | implements `MessageChannel` (`ImplementsChannel`) |
| `PeerCollection` | `collect_peers` | on a channel of whole messages |
| `NodeQuery` | `recv_until`, `_request`, `wait_for_tip`, `set_dependent_context` | instance of `MessageChannel`'s `IsNext` for what it may read next |
| `BlockFetch` | `fetch_blocks` and `get_treasury_payload` | on a channel of whole messages |
| `ListPages` | `get_assets_list_at`, and the loops of the examples over it, `enum_contract_vars` and `enum_contract_logs` | on a channel of whole messages |
| `HeaderPack` | the decoding loop of header packs | - |
| `Wire` | compact and signed integers, `BufferReader` on bytes; operators without state | - |
| `TreasuryBlob` | the treasury blob and its kernels, `deserialize_kernel` and the treasury's `_skip_kernel`; operators | extends `Wire` |
| `BlockBody` | bodies: the three perishable formats byte by byte, inputs, outputs, proofs, kernels; operators | extends `TreasuryBlob` |
| `Replies` | pages of assets, contract variables and logs, ProofKernel2, transactions; operators | extends `TreasuryBlob` |
| `Decoding` | what a client decodes on a connection: headers, then bodies under them, or other replies | composes `HeaderPack`, `BlockBody` and `Replies` |
| `CompactIntegers` | compact integers written and read in a row | extends `Wire` |
| `ContractKeys` | key ranges of contracts and the parsers of their entries; operators | extends `Wire` |
| `ContractScan` | the listings of the examples over such a range: which keys each page has, and what is read from them | extends `ContractKeys` |
| `Emission` | the sums of `circulation.py` | - |
| `Circulation` | `fetch_blockchain_circulation`: the treasury decoded and counted, then the emission | composes `TreasuryBlob` and `Emission` |
| `Ranks` | the place of a number in a set of numbers, with which properties say that one list answers another in order | used by `BeamConnection`, `NodeQuery`, `PeerCollection` |
| `BeamConnection_proofs`, `NodeQuery_proofs`, `BlockFetch_proofs`, `ListPages_proofs`, `PeerCollection_proofs`, `Emission_proofs` | theorems about the module they are named after | extend it |
| `Formats_proofs` | theorems about `HeaderPack`, `CompactIntegers` and `ContractScan` | extends the three |
| `Ranks_proofs` | lemmas about ranks, the least-number principle, recursion on numbers | extended by the other proofs |
| `MC...` | small instances for TLC | extend the module they are named after |

The layers above the connection do not carry bytes. They read whole messages under the rule of `MessageChannel`:
in order, none missing while no fault has been reported, and after a timeout in the middle of a frame (`lossy`)
possibly some missing. That the connection keeps this rule is what `Refinement` proves. Modules that keep only a
read position, such as `BlockFetch`, state the same rule in one line (`Receive`).

### BeamConnection

State: the node's half (`sent`, the frames it has written; `base`, where its encryption begins; `nodeUp`), the socket
(`arrived`, `eof`, `sockTimeout`), and the client's: `phase` (where `handshake` has got to, or `open`, `failed`,
`closed`), the switches `in_on`/`out_on`, `consumed` (how far `_recv` has cut from `_buf`) and `dec` (the
decryptor's position), the frame header in hand (`hdr`, `rx`), `_pending`, and the outcome of the last call
(`raised`). `accepted`, `delivered`, `out` and `faulted` are history. One call is in progress at a time. `Arrive` is
one chunk from `sock.recv`; `RecvHeader` and `RecvBody` are the two `_recv` calls of `recv`; `RecvInit`, `RecvReady`
and the `Login...` actions are what `handshake` does with a message; `RecvMessage...` and `Send` are the application's
calls. A header read at an offset where no frame begins, or under the wrong key-stream position, is noise: it is
refused, or is taken for a header of any size up to the limit (`NoFrameHere`). The header of a genuine frame is refused
too if its type is not in `MessageType` (`codec.py:341`) or its size is above `MAX_FRAME_SIZE` (`Supported`); its body
stays in the stream, which is out of step from then on, and `faulted` becomes true. Cryptography is assumed to work: a body
authenticates exactly if it is a frame's own body read in step.

The node is external. It follows the order of the protocol as the client expects it, and it may be slow, silent,
talkative, wrong in the content of a message, or gone.

### NodeQuery

`calls` is the history of the application's calls with their outcome and the message that ended each. The node
answers requests in order, or says that the data is missing, and says other things at any time. `Receive` reads the
next message; one action for each case of `recv_until`. The parts of a DependentContextChanged message that can be
decoded are a parameter of the message. A message of type `UNKNOWN` is a frame that `recv` refuses: it ends the call with
ValueError and puts the stream out of step (`RecvGarbage`). Method-specific payloads are abstracted to the reply type (`ReplyTo`).

### BlockFetch, ListPages, PeerCollection

A block is the path of branches leading to it, so that heights, ancestors and reorganisations need no further state
and a block hash identifies the chain below it, as in Beam. Bodies are decoded under the header at their position,
whatever they are bodies of. `PeerCollection` has a clock, and the deadline is compared where the code compares it;
what the login has queued is of the types that `handshake` does not deal with itself (`LoginTypes`).

The nodes of these three modules send only frames that the client knows. One that `recv` refuses would end a call of
`BlockFetch` or `ListPages` like a timeout inside a frame, which they have; `collect_peers` would raise ValueError and
return nothing.

In `ListPages` an entry is its place in the order of the list: an asset's identifier, or a key of a contract. The node
sends pages of any length up to a bound, empty ones included. Assets are asked for from the identifier after the last
one on, variables from the last key on with that key skipped, and of logs only the first page. The four loops over
`enum_contract_vars` in the examples differ in how they cut at the limit, not in when: `RecvVars` stands for all.
`always` and `ever` are history: what was listed throughout the call, and what ever was. So is `late`, the kinds of
which an answer to an earlier call may yet come. It is not enough to note the calls that timed out: a call that ends
with a DataMissing meant for an earlier one leaves its own answer behind in turn (`Leftover`). With three calls TLC
finds listings that such an answer spoils.

### HeaderPack, Emission, TreasuryBlob, Circulation

`HeaderPack` and `Emission` are loops with one step per iteration, started on every input of an instance. Sums are
recursive functions rather than folds, so that their defining equations can be proved. A hash is the record of what it
covers. Widths and schedules are constants, so that their edges are within reach of small instances. The properties
compare the loops with independent definitions: the node's own view of its chain, and block-by-block sums.

`TreasuryBlob` has no state. A payload is a sequence of fields; a field has the kind that decides its length, and a
value if later fields depend on it (flags, counts, amounts, incubations). The encoder belongs to the node and is
modelled from what `deserialize_kernel` reads. `Circulation` decodes a blob in one step (`Decode`) and then takes the
steps of `Emission`, as `fetch_blockchain_circulation` does; the functions of `Emission` are also called on their own
(`CallInit`). `KernelReadersAgree` compares two readers of one format that were written separately; `TreasuryOfBlob` says what is counted and that nothing is counted in part. `TreasuryBlob`
uses recursive operators, kernels being nested to any depth, and what extends it is only model-checked.

### Decoding

`Decoding` begins as `HeaderPack`. When the headers are decoded, the node sends a body, a pack of bodies or another
reply, encoded by writers that belong to the node (they are marked external), and the client decodes it with the
readers of `BlockBody` and `Replies`. A body is decoded under the height that was reconstructed for its header, while
the node wrote it under the height it has: this is where an error of one part would spoil the other. A perishable
buffer is a sequence of bytes in its real sizes, because which of the three formats it is in is decided by which parser
does not fail; so are contract variables, logs and keys. Kernels, assets and transactions are sequences of fields as in
`TreasuryBlob`. Points, scalars and proofs are bytes nobody interprets.

### CompactIntegers, ContractScan

Python's integers have no width. In `Wire` values of `Huge` and more are one value, where `Huge` is a constant that
eight bytes of ones reach: Beam's integers fit eight bytes. The instances take 2^22, which is above every length and
count in use and within TLC's integers; the proofs hold for every such value, 2^64 - 1 included.

In `CompactIntegers` a message of integers is written, by `encode_uint` or by the node, which may use longer forms;
it arrives whole or cut off, and is read field by field. `sent` records where each integer lies.

In `ContractScan` an item is what a contract has stored: its shader, an entry of its own, locked funds, or a deployment
in the index under the zero identifier. The node keeps `EntryOf` each item, in the order of the bytes of its key, and an
enumeration gives the entries of a range with both ends included. A page, or what a limit leaves of it, is any
beginning of what the request is about (`Rest`); one step takes a page in full, a part of one, or nothing, and `Change`
replaces the store in between. How the messages travel, and late pages, are the business of `ListPages`, where keys are
only places in an order; the two together cover `enum_contract_vars` and the loops over it.

## 3. Runs

| Run | Question | Instance |
|---|---|---|
| `login` | Is the switch to encryption clean, does every message of the login loop get its answer, is anything lost before a fault is reported, which frames are refused before one? | 4 frames, also too large or of an unknown type; bodies shorter and longer than a header; chunks of every length; all message types of the loop |
| `resync` | What can a timeout inside a frame, or a frame of an unknown type, do? Nothing is returned twice, out of order or made up; `MessageChannel` is implemented; calls under a finite timeout end | 5 frames, so that two follow the one given up |
| `answers` | Who can get an old answer, are keep-alives answered, does `wait_for_tip` skip a tip? | 3 calls, 2 request types, 3 messages |
| `contexts` | Queries and context changes in any order; partly decoded context messages; do calls end? | 2 calls, 2 changes, 3 messages |
| `peers` | `collect_peers` around its deadline | 2 identities, 2 addresses, 3 messages |
| `fetch` | Do the blocks returned belong together although the chain changes between the two requests? | 2 branches at 2 heights, 2 calls, 1 change of tip |
| `listing` | Is a listing complete although the list changes between two pages, is it true that there is more, does it end? | 3 entries, pages of at most 2, limits 0 to 2, 2 calls, 1 change |
| `formats` | Are heights, links, chainwork and rules hashes those of the node's chain? Is a body, in whichever format and on whichever side of a fork, decoded to the block that was written? Are other replies read as they are meant? | 4 forks, up to 4 headers, 5-bit chainwork; 7 shapes of bodies with up to 2 inputs and outputs, whole or cut off by a byte (then refused), packs of up to 3; pages of 2 assets and 3 logs |
| | Are integers in a row read back, in every form, and is a message that is cut off refused? | 2 integers around 64, 128, 256 and 65536, forms of up to 3 bytes, every cut |
| | Do the key ranges select what they are meant for, is a listing complete and free of repetitions while the store changes, do the parsers read what was stored? | 4 stores, one empty, with 4 neighbouring contracts and entries at the ends of the ranges, 2 changes, pages of every size |
| `sums` | Do the loops of the emission compute what the rules say, and end? | segments of 3 and 2 blocks, up to 6 drops |
| | Do both kernel readers find the same end, and is a treasury counted right or not at all? | blobs of at most 2 groups, whole, cut off by 1 or 2 fields, 1 too long; kernels of all subtypes, nested at most 2 deep |
| `silent`, `stale`, `late_body` | the findings below | 1-4 messages |

`formats` runs three specifications that share no variable (`Decoding`, `CompactIntegers`, `ContractScan`), one in each
behaviour: what each reaches alone is what it would reach beside the others. The type invariants of `NodeQuery` and
`BlockFetch` are parts of inductive invariants that are proved, and are not checked a second time by a run.

Why the bounds are enough. *Connection*: positions matter only relative to a frame boundary; with a two-byte header
and a one-byte tag a read can end inside a header, between header and body and inside a body, and a body can be
shorter, as long as and longer than a header. *Requests*: an answer comes late by one call or by two; three calls
show both. *Bodies*: at most two inputs and outputs place every kind of proof before another field; a pack of two
under headers on both sides of fork 3 shows under which header a body is read; packs of none and of three do not fit.
*Replies*: what one entry can displace is the next one, so two entries suffice; three logs are two in one block and
one in another. *Blocks*: two heights are the least at which a range differs from a single block and a reorganisation can
replace part of a range; with two branches both blocks of a height exist. *Lists*: three entries make two full page
borders, and every limit falls before, on or behind one. *Headers*: packs begin before, at and after a fork and cross
one or two. *Integers*: a misread length shows in the integer that follows. *Scan*: identifiers that differ in the last byte only, or by a
carry, are the nearest; keys of no bytes and of 256 times 255 are the ends of a range. *Emission*: every remainder of a
height modulo a segment occurs. *Treasury*: a reader recurses in one place, so a kernel inside a kernel inside a
kernel, followed by another, shows what returns from a list at each depth.

Bounds on calls, messages, frames, moves and clocks are constants named `Max...`; where such a bound stops the node
the program may stop too, hence `CHECK_DEADLOCK FALSE`. A call can be waiting for ever on a silent node when its
socket has no timeout, which the code allows.

Fairness. `FairSpec` of `BeamConnection`, `NodeQuery` and `PeerCollection` and `CirculationSpec` (for the loops of `Emission`)
assume weak fairness of the client's own steps and of what the operating system owes it: a socket with a timeout wakes its
reader when the timeout expires or the peer is gone. The node, the network and the application owe nothing. `CallsEnd`
does not claim that a request ends within `request_timeout`: every message that is ignored starts the timeout again,
so that a node which chatters without end would hold a call without end. Chatter is finite in the instance.

Each property is also run against a defective variant of the code's operation (`... Defective variant` in the
modules; listed under `mutants`), which must violate it.

## 4. Findings

- **`silent`** (`EndsAtTimeout`): `collect_peers` sets the socket's timeout and then calls `recv_message()` without
  one, which makes the socket blocking (`connection.py:156`). On a node that stays connected and silent it never
  returns, although it is to "collect peer advertisements until timeout expires".
- **`stale`** (`OwnAnswer`): after a request has timed out, the next one of the same type returns its late reply, for
  other arguments. The same happens with a late DataMissing, which makes whatever call is waiting then raise; `OwnAnswer`
  speaks of replies only, and `StaleOnlyAfterGivingUp` of both: nothing but a call that gave up can shift answers.
- **`late_body`** (`OneBlockPerHeader`): `fetch_blocks` compares the number of bodies with that of headers only for a
  BodyPack. After two timed-out calls a late Body is paired with the first of several headers and returned as the
  whole range. `BodiesBelong` says that one earlier timeout is not enough for it.

## 5. Proofs

Every safety property that a run checks of the modules below is proved as a theorem of the specification, for all
values of the constants that satisfy the module's `ASSUME`s: these say that sizes and bounds are natural numbers, that
a header and a tag are not empty, that heights of forks ascend from 0, and that sets of names do not overlap where the
code tells them apart. Each module has a theorem that its inductive invariant holds (`Inductive`; `LoginInductive` for the login, `NoBodyOwed`
for the treasury and `Listed` for `ContractScan`); the others follow from it. The inductive invariants (`IInv`; `LInv` for the login, `TInv` for the
treasury, `IntegersInv`, `ScanInv`) stand at the end of the module they belong to, and TLC has checked each on the module's instance.

| Module | Theorem | Says |
|---|---|---|
| `BeamConnection_proofs` | `TypeCorrect` | `TypeOK`; the reader never cuts more from `_buf` than has arrived |
| | `KeystreamStaysInSync` | the decryptor's position is that of the bytes read since the switch |
| | `FramesInOrder` | no frame is accepted twice or out of order |
| | `NothingLostSilently` | without a reported fault the frames accepted are 1, 2, ..., n and the reader stands at a frame boundary or behind a genuine header |
| | `ErrorsFollowFaults` | before any call has given up a frame, `recv` raises `ValueError` only for the next frame's own header: a type that `MessageType` does not have, or a size above the limit (`ErrorsExplained`) |
| | `Refinement` | the connection implements `MessageChannel` |
| | `EncryptedFromReady` | the client's messages are encrypted exactly from the one after its SCHANNEL_READY on (`SwitchAtReady`) |
| | `QueuedThenLive` | what is returned is what was queued during the login and then what is read, nothing dropped or reordered (`DeliveredFaithfully`) |
| | `LoginAnswers` | Ping and GetTime are answered during the login, in kind and in order (`AnsweredInLogin`) |
| `NodeQuery_proofs` | `TypeCorrect` | `TypeOK` |
| | `StaleAnswers` | only a call that gave up, or got an older answer itself, leaves its answer to a later one (`StaleOnlyAfterGivingUp`) |
| | `OwnAnswers` | as long as no call gives up, every call is ended by its own answer (`OwnUntilGivingUp`) |
| | `InOrder` | no message ends two calls and calls end in the order of messages (`AnswersInOrder`) |
| | `UnderContext` | an own answer was computed under the context set last before the call (`AnswerUnderContext`) |
| | `ContextsTogether` | the two halves of the dependent context come from one message (`ContextsConsistent`) |
| | `KeptAlive` | Ping and GetTime are answered, in kind and in order (`KeepAliveAnswered`) |
| | `FirstTip` | `wait_for_tip` skips no tip (`NextTip`) |
| | `UsesChannel` | what the client reads is a behaviour of `MessageChannel`: the guarantee the layers share |
| `BlockFetch_proofs` | `TypeCorrect` | `TypeOK`, with the heights of the headers of each call |
| | `BodiesTogether` | each block has its own body unless two earlier calls timed out (`BodiesBelong`) |
| | `FromChain` | the blocks were on the active chain during the call unless an earlier one timed out (`FromActiveChain`) |
| | `TreasuryApart` | the treasury is never part of a block unless an earlier call timed out and one was left without the body of a single block, or two timed out (`TreasuryIsTreasury`); `NoBodyOwed` is the invariant behind it |
| `ListPages_proofs` | `Complete`, `Honesty`, `Advance` | `ListingComplete`, `MoreIsHonest`, `PagesAdvance`; `TypeCorrect` |
| | `PagesBounded` | a call asks for a bounded number of pages, however the list changes (`FewPages`) |
| `PeerCollection_proofs` | `FirstOneWins`, `OneLateMessage`, `KeptAlive` | `FirstAdvertisementKept`, `AtMostOneLate`, `KeepAliveAnswered`; `TypeCorrect` |
| `Formats_proofs` | `ChainDecoded`, `RulesOfHeight`, `Refusal` | `DecodedIsChain`, `HashedUnderTrueRules`, `RefusedForReason`: packs of any length, over any table of forks |
| | `ReadBack` | every compact integer below 2^64 - 1 is read back, in a message of any length (`IntegersReadBack`) |
| | `OwnSelected` | a listing has only what the query is about, and all of it that was there all the time (`RangesSelectOwn`) |
| | `KeysOnce` | no key is listed twice (`EachKeyOnce`) |
| | `StoredRead` | the parsers read what was stored (`ReadAsStored`) |
| `Emission_proofs` | `RangeSum` | both loops give the block-by-block sum (`EmissionIsSum`) |
| | `TotalIsAll` | `total_emission` leaves out no block, without any bound (`NothingLater`) |
| | `ReleasedByPeriods` | the treasury released is one payment for each period that is over (`TreasuryByPeriods`) |

The arguments.

*Connection.* None of the properties is inductive: that a frame is accepted in order depends on where the frames lie
in the stream and on where the reader stands. `IInv` adds `StreamLayout` (frames lie end to end; the encrypted ones are
those after the node's SCHANNEL_READY), `PhaseInv` (which switches, and how many accepted frames, go with each phase of
the caller) and `PositionInv` (accepted frames end before the read position; a genuine header in hand belongs to a
frame after them). Each action has a lemma that it preserves `IInv`; `AcceptedInOrder` is kept because a body
authenticates only at its own place, which is behind all frames accepted so far. As long as nothing is faulted, the reader
stands at the beginning of the next frame or behind its header, so a header can be refused only for what it says, and a
body never (`BadHeaderIsNext`, `BadBodyFaulted`). The refinement maps `accepted`,
`_pending` and `delivered` to the channel's `taken`, `queue` and `returned`, and uses `IInv` for the guard `IsNext` of
the channel.

*Login.* `LInv` adds what has been sent in each phase (`OutInv`), where in the stream a Login can lie (`LoginInv`), and
that while the connection lives no answer is missing (`AnswerInv`); only the last one can be, where a send failed. That
answers match requests is a statement about ranks: a new answer takes the next rank among the answers, as its request
did among the requests (`MatchAsk`, `MatchAdd` of `Ranks_proofs`).

*Request client.* The core is that answers lie in the stream in the order of the calls they answer, at most one for
each, and ahead of those to requests not yet served (`RequestInv`, `StreamInv`). The client reads on only, so an answer
that comes after a call has ended meets a later call, and the answer to a call that has ended by its own is not there
any more. By the least-number principle, the first call that is not ended by its own answer has a call before it that gave
up (`OwnAnswers`). The context of an answer is that of the last change written before the request (`ContextAfter`), which only
later requests can see replaced.

*Blocks.* The node answers request by request, so what is unread is bounded by counting: a call that times out leaves
one answer unread at most and a call that waits adds one (`PendingInv`). With one timeout, the only message that can
precede the bodies waited for is an answer to a request for headers, which is ignored; it takes two to bring a late
body there. For the treasury one is enough, because its call waits for a body at once, if the call before was to get a
single block and did not: `OwedInv` says that there is no other way for such a body to be unread, and with the property
itself it is inductive beside `IInv` (`TInv`). Bodies have their headers' heights because both are stretches of the one chain that the last header names.

*Lists.* With nothing left over of its kind, the only page of its kind that a call can read is the answer to its last
request, and that was computed on a list between `always` and `ever`. What has been collected is the list up to where
the next page starts (`CollectedInv`), so a page that says there is no more completes it, and the limit only cuts its end.

*Peers.* `LateInv`: after a late message the loop is at its check of the deadline or has ended.

*Headers.* The cursor belongs to the element it is used with (`CursorInv`). The fork in force exists and is unique
because fork heights ascend; the hashes reported are aligned with the end of the table. `TotalWork` satisfies its
recursion equation because partial sums of every length exist, by the least-number principle (`SumExists`).

*Integers.* A number is given back by its digits because division by 256 and the saturated sum undo each other
(`DigitsRead`), as long as it is below `Huge`. `LayoutInv` says where each integer lies and that its bytes are there as
far as the message goes; then the byte at the reader's position (`ReaderInv`) decides the form, and reading either ends
where the next integer begins or beyond the end of a message that was cut off.

*Contract keys.* The order of byte strings is total (`OrderTotal`, `OrderTransitive`, `OrderAntisymmetric`), and between
two keys with a prefix are only keys with that prefix (`BetweenPrefixed`). So a range is the keys with its prefix, as
far as their length allows (`SpansPrefix`), and of the items a contract can store those that the query means
(`SelectsOwn`). `ProgressInv` says that a listing has everything up to its cursor, and nothing ahead of it: an entry of
the next page is strictly above the cursor, so it is new, and what was stored all the time is taken or still ahead
(`TakenOrLeft`).

*Emission.* The number of drops before a height is the epoch that the code computes by division (`DropsCounted`), so
the subsidy is constant up to the next height that a segment names (`SegmentIs`), and a constant subsidy adds up to a
product (`SumConstant`). What is shifted out stays out (`ShiftedOut`): the first segment without subsidy is the last.
Recursive sums exist for every number of terms (`NaturalRecursion`). The treasury is split at the last early burst.
The theorems are about `Spec` of `Emission`; the run takes the same steps inside `Circulation`, which extends a module
with recursive operators and so has no theorems of its own.

What is only model-checked, and why:

- Liveness (`CallsEnd`, `Returns`, `FiniteCallsReturn`): fairness and ENABLED are out of reach of the prover.
- `BlocksAsWritten`, `ReplyAsSent`, `TreasuryOfBlob` and `KernelReadersAgree`: kernels are nested in one another to any
  depth, so their readers are recursive operators, and what those compute for every input needs induction over data.
- The three properties that are violated.

## 6. Not modelled

Cryptography; the text of log lines and errors; the values of points, scalars and proofs, and of the fields a shielded
output or a lelantus proof has; the replies that are fields read in a fixed order (state summary, proofs of states,
outputs, assets and chain work); the bytes of request payloads, which concatenate fields; parsing of endpoints and
identifiers from text; argument parsing and printing of the command-line examples and the sums they print.

The formats of a body are told apart by which parser fails, so there are payloads that more than one accepts. The
instance fills points and proofs with bytes that are not zero, as those of a block are; `BlocksAsWritten` says nothing
of payloads made to be ambiguous.

A connection object used again after `close()` would keep `_buf`, `_pending` and the switches of the old session;
nothing in the repository does so or says that it may be done. A node that knows newer forks than the client's table and
reports exactly as many hashes as the table has would be misaligned with it: what such a node sends is not said in the
repository, so `HeaderPack` covers nodes that report the latest forks of the table, or more hashes than it has.

## 7. Plan

Done first because everything rests on it: `MessageChannel`, `BeamConnection` and its refinement; then the request
client and the exchanges with several messages; then the pure loops and the treasury blob; then lists in pages and what
is decoded from bytes; then the proofs of the modules that have no recursive operators: the connection, the client, the
exchanges, headers, emission, compact integers and contract keys. What remains:

1. `BlockFetch` and `ListPages` state the rule of `MessageChannel` in one line (`Receive`); as for `NodeQuery`, it can be
   proved that they are clients of the channel; for that the messages read have to be kept in a history variable.
2. `ContractScan` with the pages of `ListPages`: a refinement that maps keys to their places in the order, so that what
   is proved of late and lost pages there holds of keys.
3. The bodies without kernels: of the perishable formats alone, where each ends can be proved for all sizes, once the
   readers of `BlockBody` are separated from those of kernels.
