--------------------------- MODULE MCAccountSlots ---------------------------
(***************************************************************************)
(* Two accounts: "a1" is paced (an interval of 1, two starts per window of *)
(* 4 ticks), "a2" has a window but no interval.  Backends b1 and b2 share *)
(* a1, so slots are contended across backends.                             *)
(***************************************************************************)
EXTENDS AccountSlots, TLC

CONSTANTS a1, a2, b1, b2, b3, c1, c2

MCAccount == {a1, a2}
MCBackend == {b1, b2, b3}
MCCaller == {c1, c2}
MCAccountOf == (b1 :> a1) @@ (b2 :> a1) @@ (b3 :> a2)
MCInitLimit == (a1 :> 2) @@ (a2 :> 1)
MCInterval == (a1 :> 1) @@ (a2 :> 0)
MCRpm == (a1 :> 2) @@ (a2 :> 1)

Symmetry == Permutations(MCCaller)
=============================================================================
