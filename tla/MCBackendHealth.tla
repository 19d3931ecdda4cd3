-------------------------- MODULE MCBackendHealth --------------------------
(***************************************************************************)
(* One backend, alone on its account, or two that share it; two threads.   *)
(***************************************************************************)
EXTENDS BackendHealth

CONSTANTS a1, b1, b2, t1, t2

MCQuotaAccountOf == [b \in Backend |-> a1]
=============================================================================
