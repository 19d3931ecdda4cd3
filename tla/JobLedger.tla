----------------------------- MODULE JobLedger -----------------------------
(***************************************************************************)
(* What the job table of the tier server promises to the clients of /call  *)
(* and of /jobs/<id>/cancel: a job is opened when there is room, and its   *)
(* outcome is written once and never rewritten.  It does not promise that  *)
(* a job stays closed: one that was cancelled may show as open again, with *)
(* its outcome kept, and takes room until it is closed once more.          *)
(***************************************************************************)
EXTENDS Integers, FiniteSets

CONSTANTS
    Job,          \* job ids
    Outcome,      \* what a job can end with
    MaxOpen       \* jobs that may be open at a time, 0 for no bound

VARIABLES
    ledger,       \* "absent", "open" or the outcome of each job
    reopened      \* the jobs with an outcome that do not show as done

Opened == {j \in Job : ledger[j] = "open"}

Init ==
    /\ ledger = [j \in Job |-> "absent"]
    /\ reopened = {}

Open(j) ==
    /\ ledger[j] = "absent"
    /\ MaxOpen > 0 => Cardinality(Opened \cup reopened) < MaxOpen
    /\ ledger' = [ledger EXCEPT ![j] = "open"]
    /\ UNCHANGED reopened

Close(j, r) ==
    /\ ledger[j] = "open"
    /\ ledger' = [ledger EXCEPT ![j] = r]
    /\ UNCHANGED reopened

\* Only a cancellation can be overtaken by the thread of the job.
Reopen(j) ==
    /\ ledger[j] = "cancelled"
    /\ reopened' = reopened \cup {j}
    /\ UNCHANGED ledger

CloseAgain(j) ==
    /\ j \in reopened
    /\ reopened' = reopened \ {j}
    /\ UNCHANGED ledger

Next ==
    \E j \in Job :
        \/ Open(j) \/ Reopen(j) \/ CloseAgain(j)
        \/ \E r \in Outcome : Close(j, r)

Spec == Init /\ [][Next]_<<ledger, reopened>>
=============================================================================
