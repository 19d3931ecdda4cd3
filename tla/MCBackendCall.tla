---------------------------- MODULE MCBackendCall ----------------------------
(* Model values for BackendCall: a provider that rejects hollow answers and *)
(* one that does not, the three tools, and clocks of half a second.         *)
EXTENDS BackendCall

CONSTANTS volc, deepseek
=============================================================================
