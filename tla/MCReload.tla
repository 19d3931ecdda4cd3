------------------------------ MODULE MCReload ------------------------------
(***************************************************************************)
(* Two backends of one account in a tier each, the second switched off by  *)
(* the file; the operator may write one that enables both.                 *)
(***************************************************************************)
EXTENDS Reload, TLC

CONSTANTS b1, b2, acc, t1, t2, c1, c2

MCAccountOf == (b1 :> acc) @@ (b2 :> acc)
MCTierOf == (b1 :> "large") @@ (b2 :> "small")
MCSettings == [enabled |-> {b1}, limit |-> (acc :> 1), accepted |-> TRUE]
MCEdits == {[enabled |-> {b1, b2}, limit |-> (acc :> 1), accepted |-> TRUE]}
Symmetry == Permutations(Thread) \cup Permutations(Caller)
=============================================================================
