---------------------------- MODULE ContractScan ----------------------------
(***************************************************************************)
(* An application lists entries of contracts: all that one contract has    *)
(* stored (example/contract_data_example.py), its locked funds, or the     *)
(* contracts deployed (all_contracts_locked_funds_example.py).  It asks    *)
(* for a range of keys, page by page, each from the last key of the one    *)
(* before; blocks may change the store in between.  How pages travel and   *)
(* what may become of them is ListPages; here it is their keys that count. *)
(***************************************************************************)
EXTENDS ContractKeys

CONSTANTS
    Stores,       \* what a node may have stored
    Contracts,    \* contracts that are asked for
    MaxChanges    \* bound: changes of the store during a listing

\* What is stored: something of a contract, by kind.
IsId(id) == id \in Seq(Byte) /\ Len(id) = ContractIdSize

Fits(n, size) == n \in 0..(Huge - 1) /\ HighBytes(n, size) = 0

IsItem(item) ==
    /\ IsId(item.contract)
    /\ \/ item.kind = "shader"
       \/ /\ item.kind = "other"
          /\ item.tag \in Byte /\ item.key \in Seq(Byte) /\ Len(item.key) < SuffixMaxSize
          /\ item.tag # LockedAmountTag /\ (item.tag = SidCidTag => item.contract # ZeroContract)
       \/ /\ item.kind = "funds"
          /\ \/ Fits(item.asset, AssetIdSize)
             \/ item.asset = Huge /\ BigEndian(Bytes(255, AssetIdSize)) = Huge
          /\ item.amount \in 0..Huge
       \/ item.kind = "deployed" /\ IsId(item.shader) /\ item.height \in 0..(Huge - 1)

EntryOf(item) ==
    CASE item.kind = "shader"   -> ShaderEntry(item.contract)
      [] item.kind = "other"    -> OtherEntry(item.contract, item.tag, item.key)
      [] item.kind = "funds"    -> LockedFundsEntry(item)
      [] item.kind = "deployed" -> SidCidEntry(item)

\* A key has one value.
ASSUME StoresAssumption ==
    /\ \A items \in Stores :
          /\ \A item \in items : IsItem(item)
          /\ \A a, b \in items : EntryOf(a).key = EntryOf(b).key => a = b
    /\ \A contract \in Contracts : IsId(contract)
    /\ MaxChanges \in Nat

Queries == [kind: {"storage", "funds", "deployed"}, contract: Contracts]

VARIABLES
    stored,          \* what the node has stored
    changes,         \* how often that has changed
    asked,           \* the query
    keyMin, skipMin, \* where the next page begins, and whether behind that key
    pages,           \* the entries taken from each page so far
    more,            \* there is more than has been taken
    scan,            \* "running"; "done", "raised"
    always, ever     \* what was stored all the time, or at any time

scanVars == <<stored, changes, asked, keyMin, skipMin, pages, more, scan, always, ever>>

KeyRange(query) ==
    CASE query.kind = "storage"  -> StorageRange(query.contract)
      [] query.kind = "funds"    -> LockedFundsRange(query.contract)
      [] query.kind = "deployed" -> SidCidRange

ScanInit ==
    /\ stored \in Stores /\ always = stored /\ ever = stored /\ changes = 0
    /\ asked \in Queries
    /\ keyMin = KeyRange(asked).min /\ skipMin = FALSE
    /\ pages = <<>> /\ more = FALSE /\ scan = "running"

-----------------------------------------------------------------------------
\* The node: not part of src/.

Change(items) ==
    /\ scan = "running" /\ changes < MaxChanges
    /\ stored' = items /\ changes' = changes + 1
    /\ always' = always \cap items /\ ever' = ever \cup items
    /\ UNCHANGED <<asked, keyMin, skipMin, pages, more, scan>>

\* Defective variant: skip_min is not looked at.
RestWithMin ==
    Enumerated({EntryOf(item) : item \in stored}, [min |-> keyMin, max |-> KeyRange(asked).max])

\* What the request is about.
Rest ==
    {e \in Enumerated({EntryOf(item) : item \in stored},
                      [min |-> keyMin, max |-> KeyRange(asked).max]) :
        skipMin => e.key # keyMin}

\* A page, or what a limit leaves of it, is a beginning of that.
UpTo(last) == {e \in Rest : AtMost(e.key, last.key)}

-----------------------------------------------------------------------------
\* The application.

\* The parser of the query, and the check that the entry is the contract's.
Accepted(query, e) ==
    CASE query.kind = "storage"  -> TRUE
      [] query.kind = "funds"    ->
             ParseLockedFunds(e).ok /\ ParseLockedFunds(e).contract = query.contract
      [] query.kind = "deployed" -> ParseSidCid(e).ok

EmptyPage ==
    /\ scan = "running"
    /\ scan' = "done" /\ more' = (Rest # {})
    /\ UNCHANGED <<stored, changes, asked, keyMin, skipMin, pages, always, ever>>

\* An entry that is not accepted raises, and what has been collected is lost.
Take(entries, next) ==
    IF \A e \in entries : Accepted(asked, e)
    THEN pages' = Append(pages, entries) /\ scan' = next
    ELSE pages' = <<>> /\ scan' = "raised"

\* A page in full.  If there is no more, it is the last.
TakePage(last) ==
    /\ scan = "running" /\ last \in Rest
    /\ Take(UpTo(last), IF UpTo(last) = Rest THEN "done" ELSE "running")
    /\ keyMin' = last.key /\ skipMin' = TRUE
    /\ UNCHANGED <<stored, changes, asked, more, always, ever>>

\* The limit is reached within a page, or before it.
TakePart(last) ==
    /\ scan = "running" /\ UpTo(last) # Rest
    /\ Take(UpTo(last), "done") /\ more' = TRUE
    /\ UNCHANGED <<stored, changes, asked, keyMin, skipMin, always, ever>>

TakeNone ==
    /\ scan = "running" /\ Rest # {}
    /\ scan' = "done" /\ more' = TRUE
    /\ UNCHANGED <<stored, changes, asked, keyMin, skipMin, pages, always, ever>>

ScanNext ==
    \/ \E items \in Stores : Change(items)
    \/ EmptyPage \/ TakeNone
    \/ \E last \in Rest : TakePage(last) \/ TakePart(last)

ScanSpec == ScanInit /\ [][ScanNext]_scanVars

-----------------------------------------------------------------------------
(* Properties. *)

\* What is meant to be listed.
Own(query, item) ==
    CASE query.kind = "storage"  ->
             \/ item.kind \in {"other", "funds"} /\ item.contract = query.contract
             \/ item.kind = "deployed" /\ query.contract = ZeroContract
      [] query.kind = "funds"    -> item.kind = "funds" /\ item.contract = query.contract
      [] query.kind = "deployed" -> item.kind = "deployed"

\* Keys of neighbouring contracts, and of every kind, lie next to each other and
\* a range has both its ends: what is listed was the contract's at some time, its
\* shader excepted, or in the index of contracts; and what was there all the time
\* is listed, unless the application is told that there is more.  No entry of the
\* node's is refused.
RangesSelectOwn ==
    /\ scan # "raised"
    /\ \A p \in DOMAIN pages : \A e \in pages[p] :
          \E item \in ever : Own(asked, item) /\ e = EntryOf(item)
    /\ scan = "done" /\ ~more =>
          \A item \in always : Own(asked, item) => \E p \in DOMAIN pages : EntryOf(item) \in pages[p]

\* No key is listed twice, with the same value or another one, although each
\* page begins at the last key of the one before: nothing is counted twice.
EachKeyOnce ==
    \A p, q \in DOMAIN pages : \A e \in pages[p], f \in pages[q] :
        e.key = f.key => p = q /\ e = f

\* The parsers read from an entry what was stored under it.
ReadAsStored ==
    \A p \in DOMAIN pages : \A e \in pages[p] : \E item \in ever :
        /\ e = EntryOf(item)
        /\ asked.kind = "funds" =>
              ParseLockedFunds(e) =
                  [ok |-> TRUE, contract |-> item.contract, asset |-> item.asset, amount |-> item.amount]
        /\ asked.kind = "deployed" =>
              ParseSidCid(e) =
                  [ok |-> TRUE, shader |-> item.shader, contract |-> item.contract, height |-> item.height]

-----------------------------------------------------------------------------
(* The inductive invariant behind them. *)

ScanTypeOK ==
    /\ stored \in Stores /\ asked \in Queries
    /\ keyMin \in Seq(Byte) /\ skipMin \in BOOLEAN /\ more \in BOOLEAN
    /\ pages \in Seq(SUBSET {EntryOf(item) : item \in ever})
    /\ scan \in {"running", "done", "raised"}

HistoryInv ==
    /\ always \subseteq stored /\ stored \subseteq ever
    /\ \A item \in ever : IsItem(item)

\* The listing has come as far as keyMin.
ProgressInv ==
    scan = "running" =>
        /\ AtMost(KeyRange(asked).min, keyMin) /\ ~more
        /\ ~skipMin => pages = <<>> /\ keyMin = KeyRange(asked).min
        /\ \A p \in DOMAIN pages : \A e \in pages[p] : AtMost(e.key, keyMin)
        /\ skipMin => \A item \in always :
              Own(asked, item) /\ AtMost(EntryOf(item).key, keyMin) =>
                  \E p \in DOMAIN pages : EntryOf(item) \in pages[p]

ScanInv ==
    /\ ScanTypeOK /\ HistoryInv /\ ProgressInv
    /\ RangesSelectOwn /\ EachKeyOnce /\ ReadAsStored
=============================================================================
