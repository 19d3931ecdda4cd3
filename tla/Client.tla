------------------------------- MODULE Client -------------------------------
(***************************************************************************)
(* The client library, src/client.py: TierClient.invoke_role() and call()  *)
(* submit a job over HTTP, poll it, and submit again while the tier is     *)
(* busy.  The connection may lose a request, delay it beyond the patience  *)
(* of the client, or lose the answer; the server may be restarted, which   *)
(* forgets its jobs.                                                       *)
(*                                                                         *)
(* The server is seen as a JobLedger, which module Jobs is shown to        *)
(* implement, and the deduplication of _submit_job().  Time passes while a *)
(* client sleeps or waits for the answer of a POST; a poll takes no time.  *)
(***************************************************************************)
EXTENDS Integers, FiniteSets

CONSTANTS
    Caller,        \* threads that call the library, each with one request
    Job,           \* job ids
    Id,            \* client_request_id values, as the server sees them
    Naming,        \* which callers may name their request themselves: sets of them
    ShortId,       \* the first 12 characters of the name each would use
    MaxPending,    \* llm_tier.max_pending_jobs
    Timeout,       \* _poll_timeout_for_request(), in ticks
    PostTimeout,   \* POLL_TIMEOUT_SECONDS, the timeout of one POST
    FirstDelay,    \* delay of the schedule while less than Soon has elapsed
    LaterDelay,    \* and after it
    Soon,
    RetryAfter,    \* values of retry_after_seconds in a busy result
    MaxTries,      \* bound: calls of the library that each caller makes
    MaxRestarts,   \* bound: restarts of the server
    NoJob, NoId

\* What a job ends with: "over" stands for a success and for every failure but
\* the two that the library or the server treats on their own.
Outcome == {"over", "busy", "cancelled"}
Gone == "lost"            \* a job of a server that was restarted

ASSUME ClientAssumption ==
    /\ IsFiniteSet(Job) /\ Job \subseteq Nat
    /\ NoJob \notin Job
    /\ NoId \notin Id
    /\ Naming \subseteq SUBSET Caller
    /\ ShortId \in [Caller -> Id]
    /\ Timeout \in Nat \ {0}
    /\ PostTimeout \in Nat
    /\ FirstDelay \in Nat \ {0}
    /\ LaterDelay \in Nat \ {0}
    /\ FirstDelay <= LaterDelay
    /\ Soon \in Nat
    /\ RetryAfter \subseteq Nat
    /\ MaxPending \in Nat
    /\ MaxTries \in [Caller -> Nat]
    /\ MaxRestarts \in Nat

VARIABLES
    explicit,   \* the callers that name their request, from the start
    pc,         \* where the thread of a caller is in the library
    answer,     \* "told": a result, good or bad; else the exception that left the library
    total,      \* started_at of _call_with_busy_retry(), as time elapsed
    since,      \* started_at of the POST or of _poll_result(), likewise
    wait,       \* what is left of a sleep
    job,        \* the job that is polled
    sent,       \* a POST of the caller is on its way to the server
    tries,
    ledger,     \* the job table of the server
    reopened,   \* cancelled jobs whose thread has marked them as pending since
    named,      \* client_request_id of each job
    author,     \* history: whose request the job executes
    late,       \* history: ticks since the last poll in which the result showed
    restarts

client == <<explicit, pc, answer, total, since, wait, job, tries>>
server == <<ledger, reopened, named, author, restarts>>
vars == <<client, server, sent, late>>

Server == INSTANCE JobLedger WITH MaxOpen <- MaxPending

Init ==
    /\ explicit \in Naming
    /\ pc = [c \in Caller |-> "idle"]
    /\ answer = [c \in Caller |-> "none"]
    /\ total = [c \in Caller |-> 0]
    /\ since = [c \in Caller |-> 0]
    /\ wait = [c \in Caller |-> 0]
    /\ job = [c \in Caller |-> NoJob]
    /\ sent = [c \in Caller |-> FALSE]
    /\ tries = [c \in Caller |-> 0]
    /\ Server!Init
    /\ named = [j \in Job |-> NoId]
    /\ author = [j \in Job |-> NoJob]
    /\ late = [c \in Caller |-> 0]
    /\ restarts = 0

-----------------------------------------------------------------------------
\* MUTANT of Delay: the last step of the schedule is taken at once
DelayAtOnceLong(elapsed) == 2 * LaterDelay

\* _busy_retry_schedule_seconds()
Delay(elapsed) == IF elapsed < Soon THEN FirstDelay ELSE LaterDelay

\* _busy_retry_delay_seconds(): the server's hint can only lengthen the delay
BusyDelay(elapsed, hint) == IF hint > Delay(elapsed) THEN hint ELSE Delay(elapsed)

Return(c, a) ==
    /\ pc' = [pc EXCEPT ![c] = "back"]
    /\ answer' = [answer EXCEPT ![c] = a]
    /\ total' = [total EXCEPT ![c] = 0]
    /\ since' = [since EXCEPT ![c] = 0]
    /\ late' = [late EXCEPT ![c] = 0]

Sleep(c, place, d) ==
    /\ pc' = [pc EXCEPT ![c] = place]
    /\ wait' = [wait EXCEPT ![c] = d]

\* invoke_role(): a request without role or prompt is refused, a replay
\* fixture is returned without a call, and otherwise call() starts.
Refuse(c) ==
    /\ pc[c] = "idle"
    /\ Return(c, "told")
    /\ UNCHANGED <<wait, job, tries, sent>>
    /\ UNCHANGED server

\* the content of the fixture, or that it does not parse
Replay(c) ==
    /\ pc[c] = "idle"
    /\ Return(c, "told")
    /\ UNCHANGED <<wait, job, tries, sent>>
    /\ UNCHANGED server

\* A caller that got no answer may call again, with the same request.
MayCall(c) ==
    /\ tries[c] < MaxTries[c]
    /\ pc[c] = "idle" \/ answer[c] \in {"error", "timeout"}

Call(c) ==
    /\ MayCall(c)
    /\ tries' = [tries EXCEPT ![c] = @ + 1]
    /\ pc' = [pc EXCEPT ![c] = "loop"]
    /\ answer' = [answer EXCEPT ![c] = "none"]
    /\ total' = [total EXCEPT ![c] = 0]
    /\ UNCHANGED <<since, wait, job, sent, late>>
    /\ UNCHANGED server

\* the deadline of the busy loop is looked at before each submission only
GiveUpBusy(c) ==
    /\ pc[c] = "loop"
    /\ total[c] >= Timeout
    /\ Return(c, "timeout")
    /\ UNCHANGED <<wait, job, tries, sent>>
    /\ UNCHANGED server

\* _submit_and_wait() sends the POST
Post(c) ==
    /\ pc[c] = "loop"
    /\ total[c] < Timeout
    /\ pc' = [pc EXCEPT ![c] = "posting"]
    /\ since' = [since EXCEPT ![c] = 0]
    /\ sent' = [sent EXCEPT ![c] = TRUE]
    /\ job' = [job EXCEPT ![c] = NoJob]
    /\ UNCHANGED <<answer, total, wait, tries, late>>
    /\ UNCHANGED server

\* the POST fails or times out, or the server refused: the exception leaves
\* call(), and no second POST is made
PostFails(c) ==
    /\ pc[c] = "posting"
    /\ Return(c, "error")
    /\ UNCHANGED <<wait, job, tries, sent>>
    /\ UNCHANGED server

\* The answer of the server arrives, unless the client has given up or it is
\* lost on the way; then PostFails is all that is left.
Hear(c, j) ==
    \/ /\ pc[c] = "posting"
       /\ pc' = [pc EXCEPT ![c] = "polling"]
       /\ job' = [job EXCEPT ![c] = j]
       /\ since' = [since EXCEPT ![c] = 0]
       /\ late' = [late EXCEPT ![c] = 0]
    \/ UNCHANGED <<pc, job, since, late>>

\* MUTANT of Named: every job of the table matches
NamedAny(i) == {j \in Job : ledger[j] \notin {"absent", Gone}}

\* job ids are uuid4; here they are taken in order
Fresh == {j \in Job : ledger[j] = "absent" /\ \A i \in Job : i < j => ledger[i] # "absent"}

Named(i) == {j \in Job : ledger[j] \notin {"absent", Gone} /\ named[j] = i}

\* _submit_job(): a named request that the table knows is given its job; a
\* name made up by the client, uuid4, is new
Accept(c) ==
    /\ sent[c]
    /\ sent' = [sent EXCEPT ![c] = FALSE]
    /\ \/ /\ c \in explicit
          /\ \E j \in Named(ShortId[c]) : Hear(c, j)
          /\ UNCHANGED <<ledger, reopened, named, author>>
       \/ /\ c \in explicit => Named(ShortId[c]) = {}
          /\ \E j \in Fresh :
                /\ Server!Open(j)
                /\ named' = [named EXCEPT ![j] = IF c \in explicit THEN ShortId[c] ELSE NoId]
                /\ author' = [author EXCEPT ![j] = c]
                /\ Hear(c, j)
    /\ UNCHANGED <<answer, total, wait, tries, restarts>>

\* queue_full, or the request never arrives
Drop(c) ==
    /\ sent[c]
    /\ sent' = [sent EXCEPT ![c] = FALSE]
    /\ UNCHANGED <<client, late>>
    /\ UNCHANGED server

\* an answer without job_id becomes a failed result, error code 1998
NoJobId(c) ==
    /\ pc[c] = "posting"
    /\ sent[c]
    /\ sent' = [sent EXCEPT ![c] = FALSE]
    /\ Return(c, "told")
    /\ UNCHANGED <<wait, job, tries>>
    /\ UNCHANGED server

-----------------------------------------------------------------------------
\* MUTANT of GiveUpPoll: the deadline is for jobs that are known to be pending
GiveUpPending(c) ==
    /\ pc[c] = "polling"
    /\ since[c] >= Timeout
    /\ ledger[job[c]] = "open"
    /\ Return(c, "timeout")
    /\ UNCHANGED <<wait, job, tries, sent>>
    /\ UNCHANGED server

\* _poll_result(): the deadline comes before the poll
GiveUpPoll(c) ==
    /\ pc[c] = "polling"
    /\ since[c] >= Timeout
    /\ Return(c, "timeout")
    /\ UNCHANGED <<wait, job, tries, sent>>
    /\ UNCHANGED server

\* no connection, a status of 400 or more, or a job the server has forgotten
PollFails(c) ==
    /\ pc[c] = "polling"
    /\ since[c] < Timeout
    /\ Sleep(c, "pollwait", Delay(since[c]))
    /\ late' = [late EXCEPT ![c] = 0]
    /\ UNCHANGED <<answer, total, since, job, tries, sent>>
    /\ UNCHANGED server

\* /result/<id> answers by the status of the job: its result is not looked at
\* while the job is open, and no more when its thread has put it back to pending.
Shows(j) == ledger[j] \in Outcome /\ j \notin reopened

PollPending(c) ==
    /\ pc[c] = "polling"
    /\ since[c] < Timeout
    /\ ledger[job[c]] = "open" \/ job[c] \in reopened
    /\ Sleep(c, "pollwait", Delay(since[c]))
    /\ late' = [late EXCEPT ![c] = 0]
    /\ UNCHANGED <<answer, total, since, job, tries, sent>>
    /\ UNCHANGED server

\* MUTANT of PollBusy: the next submission is made while the job still runs
PollBusyEarly(c) ==
    /\ pc[c] = "polling"
    /\ since[c] < Timeout
    /\ ledger[job[c]] \in {"busy", "open"}
    /\ \E hint \in RetryAfter : Sleep(c, "busywait", BusyDelay(total[c], hint))
    /\ since' = [since EXCEPT ![c] = 0]
    /\ late' = [late EXCEPT ![c] = 0]
    /\ UNCHANGED <<answer, total, job, tries, sent>>
    /\ UNCHANGED server

\* all_backends_busy is not given to the caller: sleep and submit again
PollBusy(c) ==
    /\ pc[c] = "polling"
    /\ since[c] < Timeout
    /\ Shows(job[c]) /\ ledger[job[c]] = "busy"
    /\ \E hint \in RetryAfter : Sleep(c, "busywait", BusyDelay(total[c], hint))
    /\ since' = [since EXCEPT ![c] = 0]
    /\ late' = [late EXCEPT ![c] = 0]
    /\ UNCHANGED <<answer, total, job, tries, sent>>
    /\ UNCHANGED server

\* any other result is the answer, with a failure where the job was cancelled
\* or what should be JSON is not
PollDone(c) ==
    /\ pc[c] = "polling"
    /\ since[c] < Timeout
    /\ Shows(job[c]) /\ ledger[job[c]] # "busy"
    /\ Return(c, "told")
    /\ UNCHANGED <<wait, job, tries, sent>>
    /\ UNCHANGED server

Wake(c) ==
    /\ pc[c] \in {"pollwait", "busywait"}
    /\ wait[c] = 0
    /\ pc' = [pc EXCEPT ![c] = IF pc[c] = "pollwait" THEN "polling" ELSE "loop"]
    /\ UNCHANGED <<answer, total, since, wait, job, tries, sent, late>>
    /\ UNCHANGED server

-----------------------------------------------------------------------------
\* The thread of the job ends it; a client or an operator may cancel it.
Finish(j) ==
    /\ \E r \in Outcome : Server!Close(j, r)
    /\ UNCHANGED <<client, sent, late, named, author, restarts>>

\* The thread of a cancelled job works on and may mark it as pending again.
ShowAgain(j) ==
    /\ Server!Reopen(j) \/ Server!CloseAgain(j)
    /\ UNCHANGED <<client, sent, late, named, author, restarts>>

\* the table is in memory only
Restart ==
    /\ restarts < MaxRestarts
    /\ \E j \in Job : ledger[j] \notin {"absent", Gone}
    /\ restarts' = restarts + 1
    /\ ledger' = [j \in Job |-> IF ledger[j] = "absent" THEN "absent" ELSE Gone]
    /\ reopened' = {}
    /\ UNCHANGED <<client, sent, late, named, author>>

Waiting == {c \in Caller : pc[c] \in {"posting", "pollwait", "busywait"}}

\* bound: the longest wait of a result that the properties tell apart
LongAgo == LaterDelay + 1

\* The steps of a client that is not asleep take no time.
Tick ==
    /\ Waiting # {}
    /\ \A c \in Caller :
          /\ pc[c] \notin {"loop", "polling"}
          /\ pc[c] \in {"pollwait", "busywait"} => wait[c] > 0
          /\ pc[c] = "posting" => since[c] < PostTimeout
    /\ total' = [c \in Caller |-> IF c \in Waiting THEN total[c] + 1 ELSE total[c]]
    /\ since' = [c \in Caller |-> IF pc[c] \in {"posting", "pollwait"}
                                  THEN since[c] + 1 ELSE since[c]]
    /\ wait' = [c \in Caller |-> IF c \in Waiting /\ wait[c] > 0 THEN wait[c] - 1 ELSE wait[c]]
    /\ late' = [c \in Caller |->
                   IF pc[c] = "pollwait" /\ Shows(job[c]) /\ late[c] < LongAgo
                   THEN late[c] + 1 ELSE late[c]]
    /\ UNCHANGED <<pc, answer, job, sent, tries>>
    /\ UNCHANGED server

ClientStep(c) ==
    \/ GiveUpBusy(c) \/ Post(c) \/ PostFails(c)
    \/ GiveUpPoll(c) \/ PollFails(c) \/ PollPending(c) \/ PollBusy(c) \/ PollDone(c)
    \/ Wake(c)

Next ==
    /\ UNCHANGED explicit
    /\ \/ \E c \in Caller :
             \/ Refuse(c) \/ Replay(c) \/ Call(c)
             \/ Accept(c) \/ Drop(c) \/ NoJobId(c)
             \/ ClientStep(c)
       \/ \E j \in Job : Finish(j) \/ ShowAgain(j)
       \/ Restart
       \/ Tick

Spec == Init /\ [][Next]_vars

\* The threads of the callers run, and time passes; nothing is assumed about
\* the server and the connection.
FairSpec == Spec /\ WF_vars(Tick /\ UNCHANGED explicit)
            /\ \A c \in Caller : WF_vars(ClientStep(c) /\ UNCHANGED explicit)

-----------------------------------------------------------------------------
TypeOK ==
    /\ explicit \subseteq Caller
    /\ pc \in [Caller -> {"idle", "loop", "posting", "polling", "pollwait", "busywait", "back"}]
    /\ answer \in [Caller -> {"none", "told", "error", "timeout"}]
    /\ total \in [Caller -> Nat]
    /\ since \in [Caller -> Nat]
    /\ wait \in [Caller -> Nat]
    /\ job \in [Caller -> Job \cup {NoJob}]
    /\ sent \in [Caller -> BOOLEAN]
    /\ tries \in [Caller -> Nat]
    /\ ledger \in [Job -> Outcome \cup {"absent", "open", Gone}]
    /\ reopened \subseteq Job
    /\ named \in [Job -> Id \cup {NoId}]
    /\ author \in [Job -> Caller \cup {NoJob}]
    /\ late \in [Caller -> 0..LongAgo]
    /\ restarts \in 0..MaxRestarts

\* While call() is busy with its POST, its poll or its sleep, no other job of
\* the same call is at work: the loop submits again only after it has seen the
\* last job end busy, and never after an outcome it does not know.  A cancelled
\* job counts, because its thread works on.  (_call_with_busy_retry)  A caller
\* that calls again after an exception relies on the name of its request for that.
AtWorkFor(c) == {j \in Job : ledger[j] \in {"open", "cancelled"} /\ author[j] = c}
OneJobAtATime ==
    \A c \in Caller : c \in explicit \/ tries[c] <= 1 =>
        \A i, j \in AtWorkFor(c) : i = j

\* A caller polls a job that executes its own request, or that of a caller whose
\* name for its request has the same first twelve characters: the server cannot
\* tell these two apart, and the second is given the result of the first.  A
\* caller that leaves the name to the library always gets its own.
\* (_submit_and_wait, _submit_job)
SameName(b, c) == b \in explicit /\ c \in explicit /\ ShortId[b] = ShortId[c]
AnswerIsMine ==
    \A c \in Caller :
        job[c] # NoJob => author[job[c]] = c \/ SameName(author[job[c]], c)

\* When the poll gives up while the server shows the result, the result has
\* shown, or could not be fetched, for no longer than one delay of the schedule:
\* this is what the buffer of the client's timeout has to cover.  A result that
\* is there and does not show (a cancelled job put back to pending) is polled
\* until the timeout.  (_poll_result, _busy_retry_schedule_seconds)
NoNeedlessTimeout ==
    [][\A c \in Caller :
          /\ pc[c] = "polling" /\ answer[c] = "none" /\ answer'[c] = "timeout"
          /\ Shows(job[c])
          => late[c] <= LaterDelay]_vars

\* Every call comes back, whatever the server and the connection do.
\* (_call_with_busy_retry, _poll_result)
EveryCallEnds == \A c \in Caller : (pc[c] = "loop") ~> (pc[c] = "back")
=============================================================================
