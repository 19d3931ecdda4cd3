----------------------------- MODULE MCDispatch -----------------------------
(***************************************************************************)
(* Tiers of two backends b1 and b2, of weights 2 and 1.  They share the    *)
(* account a1 or have one each; an account lets one call run, or two, and  *)
(* a2 may ask for an interval of one tick between two starts.              *)
(***************************************************************************)
EXTENDS Dispatch, TLC

CONSTANTS a1, a2, b1, b2, c1, c2

MCWeighted == <<b1, b1, b2>>
MCShared == (b1 :> a1) @@ (b2 :> a1)
MCApart == (b1 :> a1) @@ (b2 :> a2)
MCLimit1 == [a \in Account |-> 1]
MCLimit2 == [a \in Account |-> 2]
MCNoInterval == [a \in Account |-> 0]
MCInterval == [a \in Account |-> IF a = a2 THEN 1 ELSE 0]
MCNoRpm == [a \in Account |-> 0]

Symmetry == Permutations(Caller)
=============================================================================
