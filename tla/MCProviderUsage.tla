-------------------------- MODULE MCProviderUsage --------------------------
(* Two accounts: one whose provider reports two windows, one unmetered.     *)
EXTENDS ProviderUsage, TLC

CONSTANTS t1, t2, k1, k2

Symmetry == Permutations(Thread)
=============================================================================
