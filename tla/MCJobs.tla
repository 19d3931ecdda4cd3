------------------------------- MODULE MCJobs -------------------------------
(***************************************************************************)
(* Two /call jobs that may share a client_request_id, or one of them and   *)
(* an escalation over two tiers (two models, then one).  The thread of the *)
(* second call may die.                                                    *)
(***************************************************************************)
EXTENDS Jobs

CONSTANTS c1, c2, e1, r1

MCNone == {}
MCRequest == {r1}
MCOneCall == {c1}
MCTwoCalls == {c1, c2}
MCSecondCall == {c2}
MCEscalation == {e1}
MCAll == {c1, c2, e1}
MCTierEnd == {2, 3}
MCOneTier == {1}
=============================================================================
