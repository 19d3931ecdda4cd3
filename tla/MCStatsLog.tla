----------------------------- MODULE MCStatsLog -----------------------------
(* A stage of two tasks; two events of the first, one of the second that    *)
(* claims more failures than calls, and one without an account.             *)
EXTENDS StatsLog, TLC

CONSTANTS t1, t2, e1, e2, e3, task1, task2, stage

MCInside == (task1 :> {task1}) @@ (task2 :> {task2}) @@ (stage :> {stage, task1, task2})
MCTaskOf == (e1 :> task1) @@ (e2 :> task2) @@ (e3 :> task1)
MCRaw ==
    (e1 :> [calls |-> Unstated, failed |-> 0, ok |-> FALSE, backend |-> TRUE, account |-> TRUE])
    @@ (e2 :> [calls |-> 1, failed |-> 2, ok |-> TRUE, backend |-> TRUE, account |-> TRUE])
    @@ (e3 :> [calls |-> 1, failed |-> 0, ok |-> TRUE, backend |-> TRUE, account |-> FALSE])
Symmetry == Permutations(Thread)
=============================================================================
