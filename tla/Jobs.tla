-------------------------------- MODULE Jobs --------------------------------
(***************************************************************************)
(* The job table of src/server.py (TierServer._jobs) and the threads that  *)
(* work on it: one thread per /call job (_run_job), one per /escalate job  *)
(* (_run_escalate_job), and the HTTP handlers that submit, cancel and poll.*)
(* The table is guarded by TierServer._lock: every action that reads or    *)
(* writes it is one critical section, and everything a thread does between *)
(* two of them may be overtaken by the others.                             *)
(*                                                                         *)
(* The router (module Dispatch) is seen from here as a call that returns   *)
(* "ok", "failed", "busy" (all_backends_busy) or raises ("crashed", the    *)
(* 1999 results).  Time is counted in ticks of a job's patience, which is  *)
(* its busy timeout.                                                       *)
(***************************************************************************)
EXTENDS Integers, FiniteSets

CONSTANTS
    Call,         \* ids of /call jobs
    Escalation,   \* ids of /escalate jobs
    Request,      \* client_request_id values
    NoRequest,    \* a submission without one
    MaxPending,   \* llm_tier.max_pending_jobs, 0 for no bound
    MaxJobs,      \* bound: jobs that are submitted
    MaxSubmits,   \* bound: submissions that are answered with one job id
    Patience,     \* busy timeout of a call, in ticks
    Rungs,        \* models an escalation can try
    TierEnd,      \* the rungs that are the last of their tier
    Cancellable,  \* jobs some client may cancel
    Malformed     \* jobs whose thread dies outside its try block

Job == Call \cup Escalation
Outcome == {"ok", "failed", "busy", "crashed", "cancelled"}

ASSUME JobsAssumption ==
    /\ IsFiniteSet(Job)
    /\ Call \cap Escalation = {}
    /\ NoRequest \notin Request
    /\ MaxPending \in Nat
    /\ MaxJobs \in Nat
    /\ MaxSubmits \in Nat \ {0}
    /\ Patience \in Nat \ {0}
    /\ Rungs \in Nat \ {0}
    /\ TierEnd \subseteq 1..Rungs
    /\ Cancellable \subseteq Job
    /\ Malformed \subseteq Job

VARIABLES
    status,       \* _jobs[j]["status"], "absent" when there is no such job
    result,       \* _jobs[j]["result"], "none" for None
    cancelled,    \* _jobs[j]["cancel_requested"]
    request,      \* _jobs[j]["client_request_id"]
    given,        \* submissions that were answered with this job id
    pc,           \* where the thread of the job is
    outcome,      \* the result the thread has in hand
    left,         \* ticks until the busy timeout of the job
    rung,         \* the model an escalation is at
    counted,      \* stats events written for the job
    missed        \* a stats event of the job could not be written

table == <<status, result, cancelled, request, given>>
stats == <<counted, missed>>
thread == <<pc, outcome, left, rung, stats>>
vars == <<table, thread>>

Init ==
    /\ status = [j \in Job |-> "absent"]
    /\ result = [j \in Job |-> "none"]
    /\ cancelled = [j \in Job |-> FALSE]
    /\ request = [j \in Job |-> NoRequest]
    /\ given = [j \in Job |-> 0]
    /\ pc = [j \in Job |-> "none"]
    /\ outcome = [j \in Job |-> "none"]
    /\ left = [j \in Job |-> Patience]
    /\ rung = [j \in Job |-> 1]
    /\ counted = [j \in Job |-> 0]
    /\ missed = [j \in Job |-> FALSE]

-----------------------------------------------------------------------------
\* Every job whose status is not done counts against max_pending_jobs.
Live == {j \in Job : status[j] \notin {"absent", "done"}}

WithRequest(r) == {j \in Job : status[j] # "absent" /\ request[j] = r}

\* A job id that is not in use, within the bound on their number
Fresh(j) ==
    /\ status[j] = "absent"
    /\ Cardinality({i \in Job : status[i] # "absent"}) < MaxJobs

\* POST /call with a client_request_id that a job already has: the client is
\* given that job, whatever its state.
SubmitAgain(j, r) ==
    /\ r # NoRequest
    /\ j \in WithRequest(r)
    /\ given[j] < MaxSubmits
    /\ given' = [given EXCEPT ![j] = @ + 1]
    /\ UNCHANGED <<status, result, cancelled, request>>
    /\ UNCHANGED thread

\* MUTANT of Submit: <= where the comparison with max_pending_jobs is
SubmitOneTooMany(j, r) ==
    /\ Fresh(j)
    /\ r # NoRequest => WithRequest(r) = {}
    /\ MaxPending > 0 => Cardinality(Live) <= MaxPending
    /\ status' = [status EXCEPT ![j] = "pending"]
    /\ request' = [request EXCEPT ![j] = r]
    /\ given' = [given EXCEPT ![j] = 1]
    /\ pc' = [pc EXCEPT ![j] = "start"]
    /\ UNCHANGED <<result, cancelled, outcome, left, rung, stats>>

\* POST /call that is admitted (a refusal, queue_full, changes nothing); the
\* thread is started after the lock is given back
Submit(j, r) ==
    /\ Fresh(j)
    /\ r # NoRequest => WithRequest(r) = {}
    /\ MaxPending > 0 => Cardinality(Live) < MaxPending
    /\ status' = [status EXCEPT ![j] = "pending"]
    /\ request' = [request EXCEPT ![j] = r]
    /\ given' = [given EXCEPT ![j] = 1]
    /\ pc' = [pc EXCEPT ![j] = "start"]
    /\ UNCHANGED <<result, cancelled, outcome, left, rung, stats>>

\* POST /escalate: no limit and no client_request_id
SubmitEscalation(j) ==
    /\ Fresh(j)
    /\ status' = [status EXCEPT ![j] = "pending"]
    /\ given' = [given EXCEPT ![j] = 1]
    /\ pc' = [pc EXCEPT ![j] = "start"]
    /\ UNCHANGED <<result, cancelled, request, outcome, left, rung, stats>>

\* _cancel_job(): a job that is done is left alone
Cancel(j) ==
    /\ status[j] \notin {"absent", "done"}
    /\ status' = [status EXCEPT ![j] = "done"]
    /\ result' = [result EXCEPT ![j] = "cancelled"]
    /\ cancelled' = [cancelled EXCEPT ![j] = TRUE]
    /\ UNCHANGED <<request, given>>
    /\ UNCHANGED thread

\* _mark_job_pending(): sets the status, whatever it was
MarkPending(j, s) == status' = [status EXCEPT ![j] = s]

-----------------------------------------------------------------------------
\* _run_job(): the first thing the thread does
StartCall(j) ==
    /\ pc[j] = "start"
    /\ MarkPending(j, "pending")
    /\ pc' = [pc EXCEPT ![j] = "call"]
    /\ UNCHANGED <<result, cancelled, request, given, outcome, left, rung, stats>>

\* LLMRouter.call() returns after k ticks, or something in the try block
\* before it raises
RouterReturns(j, r, k) ==
    /\ pc[j] = "call"
    /\ r \in {"ok", "failed", "busy"}
    /\ outcome' = [outcome EXCEPT ![j] = r]
    /\ left' = [left EXCEPT ![j] = IF k < @ THEN @ - k ELSE 0]
    /\ pc' = [pc EXCEPT ![j] = IF r = "busy" THEN "busy" ELSE "stats"]
    /\ UNCHANGED table
    /\ UNCHANGED <<rung, stats>>

\* The busy loop gives up when its time is over
BusyTimeout(j) ==
    /\ pc[j] = "busy"
    /\ left[j] = 0
    /\ pc' = [pc EXCEPT ![j] = "stats"]
    /\ UNCHANGED table
    /\ UNCHANGED <<outcome, left, rung, stats>>

\* and marks the job as waiting otherwise
BusyWait(j) ==
    /\ pc[j] = "busy"
    /\ left[j] > 0
    /\ MarkPending(j, "waiting")
    /\ pc' = [pc EXCEPT ![j] = "sleep"]
    /\ UNCHANGED <<result, cancelled, request, given, outcome, left, rung, stats>>

\* MUTANT of BusySleep: every round has a deadline of its own
BusySleepRestarts(j, d) ==
    /\ pc[j] = "sleep"
    /\ left' = [left EXCEPT ![j] = Patience]
    /\ pc' = [pc EXCEPT ![j] = "call"]
    /\ UNCHANGED table
    /\ UNCHANGED <<outcome, rung, stats>>

\* time.sleep(min(delay, remaining)), where a delay is at least a tick
BusySleep(j, d) ==
    /\ pc[j] = "sleep"
    /\ d \in 1..left[j]
    /\ left' = [left EXCEPT ![j] = @ - d]
    /\ pc' = [pc EXCEPT ![j] = IF left'[j] = 0 THEN "stats" ELSE "call"]
    /\ UNCHANGED table
    /\ UNCHANGED <<outcome, rung, stats>>

\* A stats event is written, or the attempt raises
Record(j, written) ==
    /\ counted' = [counted EXCEPT ![j] = IF written THEN @ + 1 ELSE @]
    /\ missed' = [missed EXCEPT ![j] = @ \/ ~written]

\* MUTANT of WriteStats: only a call that went well is recorded
WriteStatsOfSuccess(j, written) ==
    /\ pc[j] = "stats"
    /\ IF outcome[j] # "ok" THEN UNCHANGED stats ELSE Record(j, written)
    /\ pc' = [pc EXCEPT ![j] = "finish"]
    /\ UNCHANGED table
    /\ UNCHANGED <<outcome, left, rung>>

\* The stats event of a call; a busy result has none, a write that fails is
\* only traced
WriteStats(j, written) ==
    /\ pc[j] = "stats"
    /\ IF outcome[j] = "busy" THEN UNCHANGED stats ELSE Record(j, written)
    /\ pc' = [pc EXCEPT ![j] = "finish"]
    /\ UNCHANGED table
    /\ UNCHANGED <<outcome, left, rung>>

\* MUTANT of Crash: no except branch
CrashUncaught(j) ==
    /\ pc[j] \in {"call", "busy", "stats", "finish"}
    /\ pc' = [pc EXCEPT ![j] = "ended"]
    /\ UNCHANGED table
    /\ UNCHANGED <<outcome, left, rung, stats>>

\* Anything of the try block may raise: the job then ends with a 1999 result,
\* unless the error file it names cannot even be opened
Crash(j) ==
    /\ pc[j] \in {"call", "busy", "stats", "finish"}
    /\ outcome[j] # "crashed"
    /\ outcome' = [outcome EXCEPT ![j] = "crashed"]
    /\ pc' = [pc EXCEPT ![j] = IF j \in Malformed THEN "ended" ELSE "finish"]
    /\ UNCHANGED table
    /\ UNCHANGED <<left, rung, stats>>

\* MUTANT of FinishCall: the cancellation is not looked at
FinishCallUnchecked(j) ==
    /\ pc[j] = "finish"
    /\ status' = [status EXCEPT ![j] = "done"]
    /\ result' = [result EXCEPT ![j] = outcome[j]]
    /\ pc' = [pc EXCEPT ![j] = "ended"]
    /\ UNCHANGED <<cancelled, request, given, outcome, left, rung, stats>>

\* The last critical section of _run_job()
FinishCall(j) ==
    /\ pc[j] = "finish"
    /\ IF cancelled[j]
         THEN UNCHANGED <<status, result>>
         ELSE /\ status' = [status EXCEPT ![j] = "done"]
              /\ result' = [result EXCEPT ![j] = outcome[j]]
    /\ pc' = [pc EXCEPT ![j] = "ended"]
    /\ UNCHANGED <<cancelled, request, given, outcome, left, rung, stats>>

-----------------------------------------------------------------------------
\* _run_escalate_job(): what is parsed before its try block may raise
StartEscalation(j) ==
    /\ pc[j] = "start"
    /\ MarkPending(j, "pending")
    /\ pc' = [pc EXCEPT ![j] = IF j \in Malformed THEN "ended" ELSE "next"]
    /\ UNCHANGED <<result, cancelled, request, given, outcome, left, rung, stats>>

\* A success ends the ladder at the end of its tier at the latest.
LadderOver(j) ==
    \/ rung[j] > Rungs
    \/ outcome[j] = "ok" /\ (rung[j] - 1) \in TierEnd

NextRung(j) ==
    /\ pc[j] = "next"
    /\ ~LadderOver(j)
    /\ MarkPending(j, "pending")
    /\ pc' = [pc EXCEPT ![j] = "try"]
    /\ UNCHANGED <<result, cancelled, request, given, outcome, left, rung, stats>>

LeaveLadder(j) ==
    /\ pc[j] = "next"
    /\ LadderOver(j)
    /\ outcome' = [outcome EXCEPT ![j] = IF @ = "ok" THEN "ok" ELSE "failed"]
    /\ pc' = [pc EXCEPT ![j] = "finish"]
    /\ UNCHANGED table
    /\ UNCHANGED <<left, rung, stats>>

\* The model is exhausted or has no client
SkipRung(j) ==
    /\ pc[j] = "try"
    /\ rung' = [rung EXCEPT ![j] = @ + 1]
    /\ pc' = [pc EXCEPT ![j] = "next"]
    /\ UNCHANGED table
    /\ UNCHANGED <<outcome, left, stats>>

\* _mark_job_running_backend(), then the backend is called
CallBackend(j) ==
    /\ pc[j] = "try"
    /\ status' = [status EXCEPT ![j] = "running"]
    /\ pc' = [pc EXCEPT ![j] = "calling"]
    /\ UNCHANGED <<result, cancelled, request, given, outcome, left, rung, stats>>

\* MUTANT of BackendAnswers: the event is kept although its write raises
BackendAnswersTwice(j, written) ==
    /\ pc[j] = "calling"
    /\ outcome' = [outcome EXCEPT ![j] = "ok"]
    /\ Record(j, TRUE)
    /\ pc' = [pc EXCEPT ![j] = IF written THEN "finish" ELSE "fail"]
    /\ UNCHANGED table
    /\ UNCHANGED <<left, rung>>

\* The call answers; the stats event is written inside the same try block, so
\* that a write that fails sends the ladder on although there is a result
BackendAnswers(j, written) ==
    /\ pc[j] = "calling"
    /\ outcome' = [outcome EXCEPT ![j] = "ok"]
    /\ Record(j, written)
    /\ pc' = [pc EXCEPT ![j] = IF written THEN "finish" ELSE "fail"]
    /\ UNCHANGED table
    /\ UNCHANGED <<left, rung>>

\* The call (or what comes before it) raises
RungRaises(j) ==
    /\ pc[j] \in {"try", "calling"}
    /\ pc' = [pc EXCEPT ![j] = "fail"]
    /\ UNCHANGED table
    /\ UNCHANGED <<outcome, left, rung, stats>>

\* MUTANT of FailRung: the job is not marked as pending again
FailRungSilently(j) ==
    /\ pc[j] = "fail"
    /\ rung' = [rung EXCEPT ![j] = @ + 1]
    /\ pc' = [pc EXCEPT ![j] = "next"]
    /\ UNCHANGED table
    /\ UNCHANGED <<outcome, left, stats>>

\* MUTANT of FailRung: the same model is tried again
FailRungRetries(j) ==
    /\ pc[j] = "fail"
    /\ MarkPending(j, "pending")
    /\ pc' = [pc EXCEPT ![j] = "next"]
    /\ UNCHANGED <<result, cancelled, request, given, outcome, left, rung, stats>>

\* The except branches
FailRung(j) ==
    /\ pc[j] = "fail"
    /\ MarkPending(j, "pending")
    /\ rung' = [rung EXCEPT ![j] = @ + 1]
    /\ pc' = [pc EXCEPT ![j] = "next"]
    /\ UNCHANGED <<result, cancelled, request, given, outcome, left, stats>>

\* The models of a tier cannot be listed: a 1999 result
LadderRaises(j) ==
    /\ pc[j] = "next"
    /\ outcome' = [outcome EXCEPT ![j] = "crashed"]
    /\ pc' = [pc EXCEPT ![j] = "finish"]
    /\ UNCHANGED table
    /\ UNCHANGED <<left, rung, stats>>

\* The record is replaced as a whole: a cancellation is forgotten
FinishEscalation(j) ==
    /\ pc[j] = "finish"
    /\ status' = [status EXCEPT ![j] = "done"]
    /\ result' = [result EXCEPT ![j] = outcome[j]]
    /\ cancelled' = [cancelled EXCEPT ![j] = FALSE]
    /\ pc' = [pc EXCEPT ![j] = "ended"]
    /\ UNCHANGED <<request, given, outcome, left, rung, stats>>

-----------------------------------------------------------------------------
\* The steps of the thread of a job
CallStep(j) ==
    \/ StartCall(j) \/ BusyTimeout(j) \/ BusyWait(j) \/ Crash(j) \/ FinishCall(j)
    \/ \E r \in Outcome, k \in 0..Patience : RouterReturns(j, r, k)
    \/ \E d \in 1..Patience : BusySleep(j, d)
    \/ \E w \in BOOLEAN : WriteStats(j, w)

EscalationStep(j) ==
    \/ StartEscalation(j) \/ NextRung(j) \/ LeaveLadder(j) \/ SkipRung(j)
    \/ CallBackend(j) \/ RungRaises(j) \/ FailRung(j) \/ LadderRaises(j)
    \/ FinishEscalation(j)
    \/ \E w \in BOOLEAN : BackendAnswers(j, w)

Next ==
    \/ \E j \in Call, r \in Request \cup {NoRequest} : Submit(j, r) \/ SubmitAgain(j, r)
    \/ \E j \in Escalation : SubmitEscalation(j)
    \/ \E j \in Cancellable : Cancel(j)
    \/ \E j \in Call : CallStep(j)
    \/ \E j \in Escalation : EscalationStep(j)

Spec == Init /\ [][Next]_vars

\* The threads are scheduled, and a router call and a backend call return:
\* every client in src/backends gives up at the timeout it is called with.
Fairness ==
    /\ \A j \in Call : WF_vars(CallStep(j))
    /\ \A j \in Escalation : WF_vars(EscalationStep(j))

FairSpec == Spec /\ Fairness

-----------------------------------------------------------------------------
ThreadPoints == {"none", "start", "call", "busy", "sleep", "stats", "finish",
                 "next", "try", "calling", "fail", "ended"}

\* The variables have the types of what they stand for.
TypeOK ==
    /\ status \in [Job -> {"absent", "pending", "waiting", "running", "done"}]
    /\ result \in [Job -> Outcome \cup {"none"}]
    /\ cancelled \in [Job -> BOOLEAN]
    /\ request \in [Job -> Request \cup {NoRequest}]
    /\ given \in [Job -> 0..MaxSubmits]
    /\ pc \in [Job -> ThreadPoints]
    /\ outcome \in [Job -> Outcome \cup {"none"}]
    /\ left \in [Job -> 0..Patience]
    /\ rung \in [Job -> 1..(Rungs + 1)]
    /\ counted \in [Job -> Nat]
    /\ missed \in [Job -> BOOLEAN]

\* The scan and the insertion of _submit_job() are one critical section, so
\* that two submissions with one client_request_id get one job, as its docstring
\* says ("deduplicate"); server.py.isd.md gives the id no such meaning.
OneJobPerRequest ==
    \A i, j \in Call :
        /\ status[i] # "absent" /\ status[j] # "absent"
        /\ request[i] = request[j] /\ request[i] # NoRequest
        => i = j

AtWork(j) == pc[j] \notin {"none", "ended"}

\* Of the /call jobs nobody cancelled, at most max_pending_jobs have a thread at
\* work.  Cancelled ones come on top: Cancel gives their place away at once,
\* their threads work on, and BusyWait may even put them back among the live.
QueueBound ==
    MaxPending > 0 =>
        Cardinality({j \in Call : AtWork(j) /\ ~cancelled[j]}) <= MaxPending

\* A job that shows as running on a backend (_active_job_runtime_counts) has a
\* thread that is calling it: no error, cancellation or end of the ladder
\* leaves a load behind that nothing will ever take away.
RunningIsReal ==
    \A j \in Job : status[j] = "running" => pc[j] \in {"calling", "fail", "finish"}

\* What a job adds to the statistics: one event at most, however often a busy
\* round or a rung is tried again, and one at least when it ended with the
\* answer of a router or backend, unless an attempt to write it failed.  A busy
\* or crashed job and a ladder that failed add none of their own.
Answered(j) ==
    /\ pc[j] = "ended"
    /\ outcome[j] \in (IF j \in Call THEN {"ok", "failed"} ELSE {"ok"})

StatsOnce ==
    \A j \in Job :
        /\ counted[j] <= 1
        /\ Answered(j) => counted[j] = 1 \/ missed[j]

\* The thread of the job raised where no except clause of it catches it: parsing
\* before the try block of an escalation, opening the error log in the handler
\* of a call.
Died(j) ==
    /\ j \in Malformed
    /\ pc[j] = "ended"
    /\ j \in Call => outcome[j] = "crashed"

\* A job that is neither done nor cancelled has a thread at work on it, or its
\* thread died: then, and only then, is it left pending for ever.
NoOrphan ==
    \A j \in Live : ~cancelled[j] => AtWork(j) \/ Died(j)

\* The refinement mapping: the entry of a /call job in the ledger
Entry(j) ==
    IF result[j] # "none" THEN result[j]
    ELSE IF status[j] = "absent" THEN "absent" ELSE "open"

LedgerView == [j \in Call |-> Entry(j)]

Reopened == {j \in Call : result[j] # "none" /\ status[j] # "done"}

CallLedger == INSTANCE JobLedger WITH
    Job <- Call, MaxOpen <- MaxPending, ledger <- LedgerView, reopened <- Reopened

\* For /call jobs the result in the table is written once: a late success does
\* not replace a cancellation and a cancellation does not replace a result.  A
\* status may leave "done" again, but only that of a cancelled job, and the job
\* then counts against max_pending_jobs until it is cancelled once more.
CallLedgerSpec == CallLedger!Spec

\* Every job ends, unless it was cancelled or its thread can die (Malformed):
\* the busy loop has a timeout and the ladder an end.
EveryJobEnds ==
    \A j \in Job \ Malformed :
        pc[j] = "start" ~> (status[j] = "done" \/ cancelled[j])

-----------------------------------------------------------------------------
(***************************************************************************)
(* What the design documents say of every job and the code does not do for *)
(* one that is cancelled.                                                  *)
(***************************************************************************)

\* A job gives back its place in the queue (tier_subsystem.md: capacity is
\* released after the terminal state).
CapacityComesBack == \A j \in Job : j \in Live ~> j \notin Live
=============================================================================
