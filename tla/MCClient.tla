------------------------------ MODULE MCClient ------------------------------
(***************************************************************************)
(* Instances of Client for TLC: a caller that names its request, and one   *)
(* that leaves the name to the library or uses a name that agrees with the *)
(* first in the characters that are kept.                                  *)
(***************************************************************************)
EXTENDS Client

CONSTANTS ann, bob, i1

MCTries == [c \in Caller |-> IF c = ann THEN 2 ELSE 1]
MCShortId == [c \in Caller |-> i1]
MCNaming == {{ann}, {ann, bob}}
=============================================================================
