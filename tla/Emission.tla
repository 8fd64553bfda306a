------------------------------ MODULE Emission ------------------------------
(***************************************************************************)
(* Emission and treasury schedule (src/beam_p2p/circulation.py).  The      *)
(* block subsidy is constant over long segments; emission_for_range and    *)
(* total_emission add up whole segments instead of blocks.  The treasury   *)
(* is released in bursts at regular heights (circulation_at_height).       *)
(***************************************************************************)
EXTENDS Integers, FiniteSets, FiniteSetsExt

CONSTANTS
    FirstDrop,      \* FIRST_EMISSION_DROP_HEIGHT
    DropCycle,      \* EMISSION_DROP_CYCLE_HEIGHT
    Subsidies,      \* base subsidies, in groth
    Starts, Stops,  \* the ranges asked for
    Schedules       \* treasury schedules

ASSUME EmissionAssumption ==
    /\ FirstDrop \in Nat \ {0} /\ DropCycle \in Nat \ {0}
    /\ Subsidies \subseteq Int /\ Starts \subseteq Int /\ Stops \subseteq Int

ASSUME ScheduleAssumption ==
    Schedules \subseteq
        [first: Nat, rest: Nat, firstBursts: Nat, maturity0: Nat, step: Nat, bursts: Nat]

VARIABLES
    call,    \* what was called: emission_for_range ("range"), total_emission
             \* ("total") or circulation_at_height ("circulation"), with its
             \* arguments
    height,  \* the loop's height
    total,   \* the sum so far
    released,\* treasury_released, once the call has returned
    pc       \* "waiting" (Circulation), "loop"; "returned"

vars == <<call, height, total, released, pc>>

-----------------------------------------------------------------------------
\* value >> n
ShiftRight(value, n) ==
    LET shifted[k \in Nat] == IF k = 0 THEN value ELSE shifted[k - 1] \div 2
    IN  shifted[n]

\* Defective variant: drops are counted from zero.
SegmentFromZero(h, base) ==
    IF h <= 0 \/ base <= 0 THEN [value |-> 0, next |-> h]
    ELSE IF h - 1 < FirstDrop THEN [value |-> base, next |-> FirstDrop + 1]
    ELSE LET epoch == (h - 1 - FirstDrop) \div DropCycle
             value == ShiftRight(IF epoch >= 2 THEN base + base \div 4 ELSE base, epoch)
         IN  [value |-> value,
              next |-> IF value = 0 THEN h ELSE FirstDrop + epoch * DropCycle + 1]

\* _emission_segment: the subsidy at a height, and the first height at which
\* it may be another one.
Segment(h, base) ==
    IF h <= 0 \/ base <= 0 THEN [value |-> 0, next |-> h]
    ELSE IF h - 1 < FirstDrop THEN [value |-> base, next |-> FirstDrop + 1]
    ELSE LET epoch == 1 + (h - 1 - FirstDrop) \div DropCycle
             value == ShiftRight(IF epoch >= 2 THEN base + base \div 4 ELSE base, epoch)
         IN  [value |-> value,
              next |-> IF value = 0 THEN h ELSE FirstDrop + epoch * DropCycle + 1]

-----------------------------------------------------------------------------
\* The treasury.

\* Defective variant: a burst matures at the beginning of its period.
BurstEarly(s, k) ==
    [height |-> s.maturity0 + (k - 1) * s.step,
     value  |-> (IF k - 1 < s.firstBursts THEN s.first ELSE s.rest) * s.step]

Burst(s, k) ==
    [height |-> s.maturity0 + k * s.step,
     value  |-> (IF k - 1 < s.firstBursts THEN s.first ELSE s.rest) * s.step]

\* treasury_bursts makes a list of those that are worth something.
TreasuryReleased(h, s) ==
    LET Due(burst) == burst.value > 0 /\ burst.height <= h
        sum[k \in Nat] ==
            IF k = 0 THEN 0
            ELSE sum[k - 1] + (IF Due(Burst(s, k)) THEN Burst(s, k).value ELSE 0)
    IN  IF h <= 0 THEN 0 ELSE sum[s.bursts]

-----------------------------------------------------------------------------
\* The two loops.

Ranged == call.name # "total"

Return(value) ==
    /\ total' = value
    /\ released' = IF call.name = "circulation" THEN TreasuryReleased(call.stop, call.schedule) ELSE 0
    /\ pc' = "returned"
    /\ UNCHANGED <<call, height>>

First == Max({1, call.start})

Begin(c) ==
    /\ call = c
    /\ height = First
    /\ total = 0 /\ released = 0
    /\ pc = "loop"

Init ==
    \E base \in Subsidies :
        \/ \E start \in Starts, stop \in Stops :
               Begin([name |-> "range", start |-> start, stop |-> stop, base |-> base])
        \/ Begin([name |-> "total", start |-> 1, base |-> base])
        \/ \E stop \in Stops, s \in Schedules :
               Begin([name |-> "circulation", start |-> 1, stop |-> stop, base |-> base,
                      schedule |-> s])

Pointless ==
    \/ call.base <= 0
    \/ Ranged /\ (call.stop < call.start \/ call.stop <= 0)

\* Defective variant: the last block of the range is left out.
WithinExclusive(next) == IF Ranged THEN Min({call.stop, next}) ELSE next

\* The end of the segment, or of the range if that comes first.
Within(next) == IF Ranged THEN Min({call.stop + 1, next}) ELSE next

Step ==
    /\ pc = "loop"
    /\ LET s == Segment(height, call.base)
       IN  IF Pointless THEN Return(0)
           ELSE IF s.value = 0 \/ (Ranged /\ height > call.stop)
           THEN Return(total)
           ELSE /\ total' = total + s.value * (Within(s.next) - height)
                /\ height' = s.next
                /\ UNCHANGED <<call, released, pc>>

Spec == Init /\ [][Step]_vars /\ WF_vars(Step)

-----------------------------------------------------------------------------
(* Properties. *)

\* How often the subsidy has dropped before a height.
Drops(h) ==
    IF h <= FirstDrop THEN 0 ELSE Cardinality({k \in 0..h : FirstDrop + k * DropCycle < h})

\* The subsidy of one block, as Beam's rules say it: the base until the first
\* drop, then a half of it, and from the second drop on five eighths of the
\* halved base, halved again at each drop.
Subsidy(h, base) ==
    IF h <= 0 \/ base <= 0 THEN 0
    ELSE IF Drops(h) = 0 THEN base
    ELSE IF Drops(h) = 1 THEN base \div 2
    ELSE ShiftRight(base + base \div 4, Drops(h))

SubsidyOf(lo, hi, base) ==
    LET sum[n \in Nat] == IF n = 0 THEN 0 ELSE sum[n - 1] + Subsidy(lo + n - 1, base)
    IN  IF hi < lo THEN 0 ELSE sum[hi - lo + 1]

\* The result is the sum over the whole range; stopping at the first segment
\* without subsidy leaves out nothing that comes later.  Nor does
\* total_emission, which knows no end: the subsidy is zero from where it stops,
\* four further drops included.
EmissionIsSum ==
    pc = "returned" =>
        total = SubsidyOf(First, IF Ranged THEN call.stop ELSE height + 4 * DropCycle, call.base)

\* The same without any bound: total_emission leaves out no block.
NothingLater ==
    pc = "returned" /\ ~Ranged =>
        \A hi \in Nat : hi >= height - 1 => total = SubsidyOf(First, hi, call.base)

\* What circulation_at_height adds for the treasury is one payment for each
\* period that is over, at the rate of that period, up to the number of bursts.
PeriodsOver(h, s) ==
    IF h < s.maturity0 + s.step THEN 0
    ELSE IF s.step = 0 THEN s.bursts
    ELSE Min({s.bursts, (h - s.maturity0) \div s.step})

TreasuryByPeriods ==
    pc = "returned" /\ call.name = "circulation" =>
        LET s     == call.schedule
            over  == PeriodsOver(call.stop, s)
            early == Min({over, s.firstBursts})
        IN  released = IF call.stop <= 0 THEN 0
                       ELSE s.step * (early * s.first + (over - early) * s.rest)

\* Both loops end.
Returns == pc = "loop" ~> pc = "returned"

-----------------------------------------------------------------------------
(* The inductive invariant behind these properties. *)

\* What the calls are given.
TypeOK ==
    /\ call.name \in {"range", "total", "circulation"}
    /\ call.base \in Int /\ call.start \in Int
    /\ Ranged => call.stop \in Int
    /\ call.name = "circulation" => call.schedule \in Schedules
    /\ height \in Nat \ {0} /\ total \in Int /\ pc \in {"loop", "returned"}

\* The loop stands at the beginning of a segment or of the range, and has
\* added up everything below, but nothing behind the end of the range.
SumInv ==
    pc = "loop" =>
        /\ height >= First
        /\ total = SubsidyOf(First, Within(height) - 1, call.base)

IInv == TypeOK /\ SumInv /\ EmissionIsSum /\ TreasuryByPeriods
=============================================================================
