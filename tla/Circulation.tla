----------------------------- MODULE Circulation -----------------------------
(***************************************************************************)
(* fetch_blockchain_circulation (src/beam_p2p/circulation.py): the         *)
(* treasury that a node has sent is decoded and counted (TreasuryBlob),    *)
(* and then the emission up to the tip is added up (Emission).  The        *)
(* functions of Emission are also called without it.                       *)
(***************************************************************************)
EXTENDS Emission, TreasuryBlob

CONSTANTS
    Treasuries,     \* the groups in the node's treasury
    Cuts            \* fields missing at the end of the blob; -1: one too many

ASSUME CutAssumption == Subsidies # {} /\ Cuts \subseteq Int

VARIABLES
    sent,     \* the groups that the node has written, and the cut
    treasury, \* the amount of the treasury that has been released
    phase     \* "decode", "emission"; "done", "raised"

fetchVars == <<vars, sent, treasury, phase>>

\* What the node sends of its treasury: not part of src/.
Blob(groups, cut) ==
    LET whole == WriteBlob(groups)
    IN  IF cut < 0 THEN Append(whole, Field("u8", 0)) ELSE SubSeq(whole, 1, Len(whole) - cut)

\* Without a node: there is nothing to decode.
CallInit ==
    /\ Init
    /\ sent = [groups |-> <<>>, cut |-> 0]
    /\ treasury = 0 /\ phase = "emission"

\* With one; what will be called is emission_for_range, up to the tip.
FetchInit ==
    /\ \E tip \in Stops \cap Nat :
           call = [name |-> "range", start |-> 1, stop |-> tip, base |-> Max(Subsidies)]
    /\ height = First /\ total = 0 /\ released = 0 /\ pc = "waiting"
    /\ sent \in [groups: Treasuries, cut: Cuts]
    /\ treasury = 0 /\ phase = "decode"

Decode ==
    /\ phase = "decode"
    /\ \E data \in {DeserializeTreasuryData(Blob(sent.groups, sent.cut))} :
           \/ /\ ~data.ok
              /\ phase' = "raised" /\ UNCHANGED <<pc, treasury>>
           \/ /\ data.ok
              /\ treasury' = TreasuryAmountAtHeight(data.groups, call.stop)
              /\ phase' = "emission" /\ pc' = "loop"
    /\ UNCHANGED <<call, height, total, released, sent>>

AddUp ==
    /\ phase = "emission"
    /\ Step
    /\ phase' = IF pc' = "returned" THEN "done" ELSE "emission"
    /\ UNCHANGED <<sent, treasury>>

\* The loop waits for nothing.
CirculationSpec ==
    /\ CallInit \/ FetchInit
    /\ [][Decode \/ AddUp]_fetchVars
    /\ WF_fetchVars(AddUp)

-----------------------------------------------------------------------------
(* Properties. *)

\* No kernel is of another subtype, at any depth.
RECURSIVE AllStandard(_)
AllStandard(kernels) ==
    \A i \in DOMAIN kernels : kernels[i].subtype = "STD" /\ AllStandard(kernels[i].nested)

\* _skip_kernel and deserialize_kernel agree on where a list of kernels ends,
\* however they are nested, as long as all are standard; the one refuses what
\* is not, at any depth, and the other gets back what was written.
KernelReadersAgree ==
    phase = "decode" => \A i \in DOMAIN sent.groups :
        LET kernels == sent.groups[i].kernels
            mixed   == Mixed(kernels)
            buf     == WriteKernels(kernels, mixed)
            read    == DeserializeKernels(
                           buf, [pos |-> 1, kernels |-> <<>>], Len(kernels), ~mixed)
        IN  /\ read = [pos |-> Len(buf) + 1, kernels |-> kernels]
            /\ SkipKernels(buf, 1, Len(kernels), ~mixed) =
                  IF AllStandard(kernels) THEN read.pos ELSE Failed

\* The treasury counted is that of the native asset in the groups of which an
\* output has matured; a blob that is cut off, or too long, or has kernels
\* that are not standard, is refused and not counted in part.
TreasuryOfBlob ==
    LET groups    == sent.groups
        Matured(g) == \/ \A i \in DOMAIN g.outputs : g.outputs[i] = None
                      \/ \E i \in DOMAIN g.outputs : g.outputs[i] \in 0..call.stop
        Amount(g)  == IF g.asset = 0 /\ Matured(g) THEN g.value ELSE 0
        sound      == sent.cut = 0 /\ \A i \in DOMAIN groups : AllStandard(groups[i].kernels)
    IN  /\ phase = "raised" => ~sound
        /\ phase = "done" =>
              sound /\ treasury = FoldLeft(LAMBDA sum, g : sum + Amount(g), 0, groups)
=============================================================================
