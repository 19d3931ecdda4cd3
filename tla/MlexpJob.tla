------------------------------ MODULE MlexpJob ------------------------------
(***************************************************************************)
(* One call of MlexpClient (src/backends/mlexp.py): a probe asks for the   *)
(* health and the load of the MLEXP service; any other call submits a job, *)
(* polls it until it ends or the time is up, and reads its report.  The    *)
(* service is external: it takes a request at once, late or never, runs    *)
(* the job at its own pace, and its answers may be lost, or come in pieces *)
(* that start the timeout of the request anew.                             *)
(***************************************************************************)
EXTENDS Integers

CONSTANTS
    Wait,        \* timeout_seconds of the call, in ticks
    Request,     \* timeout_seconds of the client: of one operation of a socket
    Interval,    \* poll_interval_seconds
    Tock         \* ticks in a second

ASSUME MlexpAssumption ==
    /\ Tock \in Nat \ {0}
    /\ {Wait, Request} \subseteq Nat
    /\ Wait >= Tock /\ Request >= Tock
    /\ Interval \in Nat \ {0}

VARIABLES
    mlexp,       \* where the call is
    probe,       \* it is a probe
    mclock,      \* time since wait_for_job() began
    mleft,       \* time left for the operation of the socket, or of the sleep
    mlimit,      \* the timeout of the request
    mheard,      \* of its answer: "nothing", or "part" of it
    asked,       \* mclock when the last poll was sent
    seen,        \* the status of the job when the poll was sent
    reply,       \* what the call returned
    posted,      \* requests to run a job, on their way to the service
    runs,        \* jobs that the service has made of them
    job,         \* the job of the call: its status
    report,      \* output/summary.json has been committed
    endedAt,     \* mclock when it ended
    cancels      \* cancel_job() has been tried

requestVars == <<mleft, mlimit, mheard>>
callVars == <<mlexp, probe, mclock, requestVars, asked, seen, reply, cancels>>
remoteVars == <<posted, runs, job, report, endedAt>>
mlexpVars == <<callVars, remoteVars>>

Over == {"passed", "failed"}   \* terminal_statuses: passed, or any other

MlexpInit ==
    /\ probe \in BOOLEAN
    /\ mlexp = (IF probe THEN "health" ELSE "start")
    /\ mclock = 0 /\ asked = 0
    /\ mleft = Wait /\ mlimit = Wait /\ mheard = "nothing"
    /\ seen = "none"
    /\ reply = "none"
    /\ posted = 0
    /\ runs = 0
    /\ job = "none"
    /\ report = FALSE
    /\ endedAt = 0
    /\ cancels = FALSE

-----------------------------------------------------------------------------
(* The service.                                                            *)

Accept ==
    /\ posted > 0
    /\ posted' = posted - 1
    /\ runs' = runs + 1
    /\ job' = IF job = "none" THEN "queued" ELSE job
    /\ UNCHANGED <<report, endedAt, callVars>>

Run ==
    /\ job = "queued"
    /\ job' = "running"
    /\ UNCHANGED <<posted, runs, report, endedAt, callVars>>

\* a job may pass without a report
End ==
    /\ job = "running"
    /\ job' \in Over
    /\ report' \in (IF job' = "passed" THEN BOOLEAN ELSE {FALSE})
    /\ endedAt' = mclock
    /\ UNCHANGED <<posted, runs, callVars>>

Stop ==
    /\ cancels
    /\ job \in {"queued", "running"}
    /\ job' = "failed"
    /\ endedAt' = mclock
    /\ UNCHANGED <<posted, runs, report, callVars>>

-----------------------------------------------------------------------------
(* The call.  A request fails with MlexpBackendError (no connection, no    *)
(* answer in time, an HTTP error, not a JSON object); when the service is  *)
(* late with the body of an error, with a bare TimeoutError; or, when it   *)
(* hangs up, with another exception.                                       *)

\* urlopen() with this timeout
Ask(label, timeout) ==
    /\ mlexp' = label
    /\ mleft' = timeout
    /\ mlimit' = timeout
    /\ mheard' = "nothing"

Reply(r) ==
    /\ mlexp' = "done"
    /\ reply' = r
    /\ UNCHANGED <<probe, mclock, requestVars, asked, seen, cancels, remoteVars>>

\* health(), then runtime(); what they raise leaves the call as it is
ProbeHealth ==
    /\ mlexp = "health"
    /\ Ask("runtime", Wait)
    /\ UNCHANGED <<probe, mclock, asked, seen, reply, cancels, remoteVars>>

ProbeRuntime ==
    /\ mlexp = "runtime"
    /\ \E r \in {"ok", "error"} : Reply(r)    \* ready, or not

ProbeRaises == mlexp \in {"health", "runtime"} /\ Reply("raised")

Post ==
    /\ mlexp = "start"
    /\ Ask("submit", Wait)
    /\ posted' = posted + 1
    /\ UNCHANGED <<probe, mclock, asked, seen, reply, cancels, runs, job, report, endedAt>>

Submitted ==
    /\ mlexp = "submit"
    /\ runs > 0
    /\ mlexp' = "wait"
    /\ UNCHANGED <<probe, mclock, requestVars, asked, seen, reply, cancels, remoteVars>>

\* MUTANT of SubmitFails: a submission that was not answered is made again
SubmitFailsAnew ==
    /\ mlexp = "submit"
    /\ mlexp' = "start"
    /\ UNCHANGED <<probe, mclock, requestVars, asked, seen, reply, cancels, remoteVars>>

\* whatever came of the request; a bare TimeoutError finds no job to cancel
SubmitFails == mlexp = "submit" /\ Reply("error")

RequestLimit ==
    LET rest == ((Wait - mclock) \div Tock) * Tock
        bound == IF rest > Tock THEN rest ELSE Tock
    IN IF Request < bound THEN Request ELSE bound

AskStatus ==
    /\ mlexp = "wait"
    /\ mclock < Wait
    /\ Ask("poll", RequestLimit)
    /\ asked' = mclock
    /\ seen' = job
    /\ UNCHANGED <<probe, mclock, reply, cancels, remoteVars>>

\* the status is that of some moment since the poll was sent
PollOver ==
    /\ mlexp = "poll"
    /\ job \in Over
    /\ IF job = "passed"
         THEN /\ Ask("report", Request)
              /\ UNCHANGED <<probe, mclock, asked, seen, reply, cancels, remoteVars>>
         ELSE Reply("error")

\* MUTANT of PollOpen: terminal_statuses does not know the status
PollOpenUnknown ==
    /\ mlexp = "poll"
    /\ mlexp' = "sleep"
    /\ mleft' = Interval
    /\ UNCHANGED <<probe, mclock, mlimit, mheard, asked, seen, reply, cancels, remoteVars>>

PollOpen ==
    /\ mlexp = "poll"
    /\ seen \notin Over
    /\ mlexp' = "sleep"
    /\ mleft' = Interval
    /\ UNCHANGED <<probe, mclock, mlimit, mheard, asked, seen, reply, cancels, remoteVars>>

\* one poll that fails ends the wait
PollLost == mlexp = "poll" /\ Reply("error")

PollUnread ==
    /\ mlexp = "poll"
    /\ Ask("cancel", Wait)
    /\ cancels' = TRUE
    /\ UNCHANGED <<probe, mclock, asked, seen, reply, remoteVars>>

RequestBreaks == mlexp \in {"submit", "poll"} /\ Reply("raised")

\* cancel_job() may fail; the call does not look at what becomes of the job
Cancelled == mlexp = "cancel" /\ Reply("error")

WakeUp ==
    /\ mlexp = "sleep"
    /\ mleft = 0
    /\ mlexp' = "wait"
    /\ UNCHANGED <<probe, mclock, requestVars, asked, seen, reply, cancels, remoteVars>>

\* a MlexpBackendError, not the TimeoutError that cancels the job
Expire ==
    /\ mlexp = "wait"
    /\ mclock >= Wait
    /\ Reply("timeout")

\* no report, or one that cannot be read, is an error
ReadReport ==
    /\ mlexp = "report"
    /\ \/ report /\ Reply("ok")
       \/ Reply("error")
       \/ Reply("raised")

Requests == {"health", "runtime", "submit", "poll", "report", "cancel"}

\* a part of an answer: the next operation has the whole timeout again
MlexpPiece ==
    /\ mlexp \in Requests
    /\ mleft > 0
    /\ mleft' = mlimit
    /\ mheard' = "part"
    /\ UNCHANGED <<mlexp, probe, mclock, mlimit, asked, seen, reply, cancels, remoteVars>>

\* the clock stops where nothing tells later times apart
TooLate == Wait + Request + Interval

Tick ==
    /\ mlexp \in Requests \cup {"sleep"}
    /\ mleft > 0
    /\ mleft' = mleft - 1
    /\ mclock' = IF mlexp \in {"poll", "sleep"} /\ mclock < TooLate THEN mclock + 1 ELSE mclock
    /\ UNCHANGED <<mlexp, probe, mlimit, mheard, asked, seen, reply, cancels, remoteVars>>

\* what the call does by itself: an operation of a socket that is not
\* answered times out
MlexpProgress ==
    \/ Post \/ AskStatus \/ WakeUp \/ Expire \/ Tick
    \/ mleft = 0 /\ (ProbeRaises \/ SubmitFails \/ PollLost \/ Cancelled \/ ReadReport)

MlexpNext ==
    \/ Accept \/ Run \/ End \/ Stop
    \/ ProbeHealth \/ ProbeRuntime \/ ProbeRaises
    \/ Post \/ Submitted \/ SubmitFails \/ RequestBreaks
    \/ AskStatus \/ PollOver \/ PollOpen \/ PollLost \/ PollUnread \/ Cancelled
    \/ WakeUp \/ Expire \/ ReadReport \/ MlexpPiece \/ Tick

MlexpSpec == MlexpInit /\ [][MlexpNext]_mlexpVars
-----------------------------------------------------------------------------
MlexpTypeOK ==
    /\ mlexp \in {"health", "runtime", "start", "submit", "wait", "poll", "sleep",
                  "report", "cancel", "done"}
    /\ {mclock, asked, endedAt} \subseteq 0..TooLate
    /\ mleft \in Nat /\ mlimit \in Nat
    /\ mheard \in {"nothing", "part"}
    /\ posted \in Nat /\ runs \in Nat
    /\ seen \in {"none", "queued", "running"} \cup Over
    /\ job \in {"none", "queued", "running"} \cup Over
    /\ reply \in {"none", "ok", "error", "timeout", "raised"}
    /\ probe \in BOOLEAN /\ report \in BOOLEAN /\ cancels \in BOOLEAN

\* However the submission fares, one call makes at most one job.
\* (submit_system_test, submit_case_payload)
OneJobPerCall == runs + posted <= 1

\* A call that gave its job up has looked at it not long before: a job that
\* had ended by then ended after the last poll was sent, and within the
\* timeout of a request and the sleep, if the answer came in one piece.
\* (wait_for_job)
GaveUpInGoodFaith ==
    reply = "timeout" /\ job \in Over =>
        /\ endedAt >= asked
        /\ mheard = "part" \/ mclock - endedAt <= Request + Interval

\* the service holds the call: no timeout bounds such an answer
MlexpTrickles == mlexp \in Requests /\ mheard = "part"
=============================================================================
