---------------------------- MODULE MCCirculation ----------------------------
(***************************************************************************)
(* A small instance of Circulation: segments of three and two blocks, base *)
(* subsidies that vanish after one to six drops, treasury schedules with   *)
(* all, some and none of their bursts in the first period, and treasury    *)
(* blobs with kernels of every subtype, nested up to two deep.             *)
(***************************************************************************)
EXTENDS Circulation

SmallSchedules ==
    [first: {0, 3}, rest: {1}, firstBursts: {0, 2}, maturity0: {0, 2}, step: {0, 3}, bursts: {0, 4}]

FewCuts == {-1, 0, 1, 2}

Kernel(subtype, flags, flags2, nested) ==
    [subtype |-> subtype, flags |-> flags, flags2 |-> flags2, nested |-> nested]

\* Standard kernels without nested ones: with each optional field and with all.
Plain ==
    {Kernel("STD", f, {}, <<>>) : f \in {{}, {Fee}, {MinHeight, MaxHeight}, {HashLock}}} \cup
    {Kernel("STD", f, f2, <<>>) : f \in {{Flags2}, {Fee, MaxHeight, HashLock, Nested, Flags2}},
                                  f2 \in {{}, {RelativeLock}}}

Others ==
    {Kernel(s, f, {}, <<>>) : s \in Subtypes \ {"STD"}, f \in {{}, {1, Fee}}}

\* With nested ones; what comes after these depends on the second flags.
Outer(inner) ==
    {Kernel("STD", {Nested}, {}, n) : n \in inner} \cup
    {Kernel("STD", {Nested, Flags2}, {RelativeLock}, n) : n \in inner} \cup
    {Kernel("ASSET_EMIT", {Nested}, {}, n) : n \in inner}

Pairs == {<<k>> : k \in Plain \cup Others} \cup
         {<<k, l>> : k \in {Kernel("STD", {Flags2}, {RelativeLock}, <<>>),
                             Kernel("CONTRACT_INVOKE", {Fee}, {}, <<>>)},
                     l \in Plain}

KernelLists == {<<>>} \cup Pairs \cup {<<k>> : k \in Outer(Pairs)} \cup
               {<<k, Kernel("SHIELDED_INPUT", {1, Nested}, {}, n)>> :
                   k \in Outer({<<m>> : m \in Outer({<<l>> : l \in Plain})}),
                   n \in {<<>>, <<Kernel("STD", {Fee}, {}, <<>>)>>}}

Group(outputs, kernels, value, asset) ==
    [inputs |-> 1, outputs |-> outputs, kernels |-> kernels, value |-> value, asset |-> asset]

\* One group with every list of kernels; groups of two assets that mature at
\* several heights, or without an incubation.
SmallTreasuries ==
    {<<Group(<<3>>, ks, 5, 0)>> : ks \in KernelLists} \cup
    {<<Group(o, <<>>, 5, a), Group(p, <<>>, 2, b)>> :
        o, p \in {<<>>, <<None>>, <<4>>, <<6, 3>>, <<None, 0>>}, a, b \in {0, 1}} \cup {<<>>}
=============================================================================
