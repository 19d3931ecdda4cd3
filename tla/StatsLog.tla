------------------------------ MODULE StatsLog ------------------------------
(***************************************************************************)
(* StatsCollector of src/stats_collector.py and the handlers that read it: *)
(* the log of calls in SQLite, the summaries of finished scopes, the       *)
(* answers to /stats and the snapshot that /runtime keeps for two seconds. *)
(* A collector operation is one section of the SQLite lock; an answer is   *)
(* made of several, between which events are written and summaries come    *)
(* and go.  Any section may fail with an SQLite error; the server may be   *)
(* started again.  A query reads the newest events up to its limit.  Left  *)
(* out: the filter by time.                                                *)
(***************************************************************************)
EXTENDS Integers, FiniteSetsExt

CONSTANTS
    Thread,
    Event,
    Task,
    Scope,      \* tasks, phases and stages
    Inside,     \* the scopes that belong to a scope, itself one of them
    TaskOf,     \* the task of an event
    Raw,        \* an event as it is given to write()
    Limits,     \* limits that a request may set: 9999 unless it says so
    RuntimeLimit,   \* of the rows in a snapshot: 9999
    ErrorLimit,     \* of its errors: 200
    TotalLimit,     \* of a total: 99999, or the request's if that is more
    MaxOps      \* bound: requests begun

Unstated == -1

ASSUME StatsAssumption ==
    /\ Task \subseteq Scope
    /\ Inside \in [Scope -> SUBSET Scope] /\ \A s \in Scope : s \in Inside[s]
    /\ TaskOf \in [Event -> Task]
    /\ Raw \in [Event -> [calls : Nat \cup {Unstated}, failed : Nat, ok : BOOLEAN,
                         backend : BOOLEAN, account : BOOLEAN]]
    /\ Limits \subseteq Nat \ {0}
    /\ RuntimeLimit \in Nat /\ ErrorLimit \in Nat /\ TotalLimit \in Nat
    /\ MaxOps \in Nat

VARIABLES
    log,        \* events in llm_call
    rowid,      \* and their id, 0 for none
    summary,    \* the llm_*_summary tables
    disclosed,  \* a failure counter of authority_status() is not zero
    cache,      \* _runtime_stats_cache
    step,       \* where a request is
    target,     \* scopes it asks for
    query,      \* its limit, and whether it wants the events
    found,      \* those it found a summary of
    got,        \* what it has read so far
    ops,
    lost,       \* ghost: events whose write failed, since the start
    refused,    \* ghost: events that were not fit to be written
    due,        \* ghost: events whose write was over when a request began
    cacheDue    \* ghost: and at the time that the cache is kept under

table == <<log, rowid>>
requestVars == <<step, target, query, found, got, due>>
fates == <<lost, refused>>
vars == <<table, summary, disclosed, cache, requestVars, ops, fates, cacheDue>>

NoParts == [summary |-> {}, rows |-> {}, events |-> {}]
NoQuery == [limit |-> 0, events |-> FALSE]
NoSummary == [kept |-> FALSE, events |-> {}, due |-> {}]

Below(s) == Inside[s] \cap Task
EventsOf(tasks) == {e \in log : TaskOf[e] \in tasks}

Init ==
    /\ log = {}
    /\ rowid = [e \in Event |-> 0]
    /\ summary = [s \in Scope |-> NoSummary]
    /\ disclosed = FALSE
    /\ cache = NoParts
    /\ step = [t \in Thread |-> "idle"]
    /\ target = [t \in Thread |-> {}]
    /\ query = [t \in Thread |-> NoQuery]
    /\ found = [t \in Thread |-> {}]
    /\ got = [t \in Thread |-> NoParts]
    /\ ops = 0
    /\ lost = {}
    /\ refused = {}
    /\ due = [t \in Thread |-> {}]
    /\ cacheDue = {}

-----------------------------------------------------------------------------
(* The rows: _normalize_event() and the aggregation.                       *)

\* a call of a backend counts once unless the event says otherwise
Calls(r) == IF r.calls # Unstated THEN r.calls ELSE IF r.backend THEN 1 ELSE 0

StatedFailures(r) == IF r.failed = 0 /\ ~r.ok THEN Calls(r) ELSE r.failed

\* MUTANT of FailedCalls: more failures than calls are believed
FailedCallsUncut(r) == StatedFailures(r)

FailedCalls(r) == IF StatedFailures(r) > Calls(r) THEN Calls(r) ELSE StatedFailures(r)

Succeeded(r) == IF r.ok THEN (IF Calls(r) > FailedCalls(r) THEN Calls(r) - FailedCalls(r) ELSE 0) ELSE 0
Failed(r) == IF r.ok THEN FailedCalls(r) ELSE Calls(r)

\* events without a backend are kept and not counted
Aggregate(events) ==
    LET counted == {e \in events : Raw[e].backend}
    IN [calls   |-> MapThenSumSet(LAMBDA e : Calls(Raw[e]), counted),
        success |-> MapThenSumSet(LAMBDA e : Succeeded(Raw[e]), counted),
        fail    |-> MapThenSumSet(LAMBDA e : Failed(Raw[e]), counted)]

-----------------------------------------------------------------------------
(* Writes.                                                                 *)

\* the writes that are over
Settled == log \cup lost \cup refused

\* _normalize_event() has no use for a call whose account is not named
Complete(e) == Raw[e].backend => Raw[e].account

Write(e) ==
    /\ e \notin Settled /\ Complete(e)
    /\ log' = log \cup {e}
    /\ rowid' = [rowid EXCEPT ![e] = Cardinality(log) + 1]
    /\ UNCHANGED <<summary, disclosed, cache, requestVars, ops, fates, cacheDue>>

\* MUTANT of WriteFails: the failure is not counted
WriteFailsUncounted(e) ==
    /\ e \notin Settled /\ Complete(e)
    /\ lost' = lost \cup {e}
    /\ UNCHANGED <<table, summary, disclosed, cache, requestVars, ops, refused, cacheDue>>

WriteFails(e) ==
    /\ e \notin Settled /\ Complete(e)
    /\ lost' = lost \cup {e}
    /\ disclosed' = TRUE
    /\ UNCHANGED <<table, summary, cache, requestVars, ops, refused, cacheDue>>

\* raised before the section that counts failures
Refuse(e) ==
    /\ e \notin Settled /\ ~Complete(e)
    /\ refused' = refused \cup {e}
    /\ UNCHANGED <<table, summary, disclosed, cache, requestVars, ops, lost, cacheDue>>

-----------------------------------------------------------------------------
Begin(t, s, scopes, q) ==
    /\ step[t] = "idle"
    /\ ops < MaxOps
    /\ ops' = ops + 1
    /\ step' = [step EXCEPT ![t] = s]
    /\ target' = [target EXCEPT ![t] = scopes]
    /\ query' = [query EXCEPT ![t] = q]
    /\ due' = [due EXCEPT ![t] = Settled]
    /\ UNCHANGED <<table, summary, disclosed, cache, found, got, fates, cacheDue>>

Goto(t, s) ==
    /\ step' = [step EXCEPT ![t] = s]
    /\ UNCHANGED <<target, query, due, ops, fates>>

Leave(t) ==
    /\ step' = [step EXCEPT ![t] = "idle"]
    /\ target' = [target EXCEPT ![t] = {}]
    /\ query' = [query EXCEPT ![t] = NoQuery]
    /\ found' = [found EXCEPT ![t] = {}]
    /\ got' = [got EXCEPT ![t] = NoParts]
    /\ due' = [due EXCEPT ![t] = {}]
    /\ UNCHANGED <<ops, fates>>

\* a query under the lock: an SQLite error is counted, and read as no rows
Query(t, part, events) ==
    \/ got' = [got EXCEPT ![t][part] = events] /\ UNCHANGED disclosed
    \/ got' = [got EXCEPT ![t][part] = {}] /\ disclosed' = TRUE

\* ORDER BY id DESC LIMIT n
Newest(n) ==
    IF Cardinality(log) <= n THEN {log}
    ELSE {N \in SUBSET log : /\ Cardinality(N) = n
                             /\ \A e \in N, f \in log \ N : rowid[e] > rowid[f]}

Read(t, from, part, n, next) ==
    /\ step[t] = from
    /\ \E N \in Newest(n) : Query(t, part, N)
    /\ Goto(t, next)
    /\ UNCHANGED <<table, summary, cache, found, cacheDue>>

-----------------------------------------------------------------------------
(* GET /stats: the totals, the rows and the events are read one after the  *)
(* other; grouped, the summaries first and the events of the rest.  It is  *)
(* refused while a failure is on record, before and after.                 *)

AskStats(t, n, events) ==
    ~disclosed /\ Begin(t, "summary", {}, [limit |-> n, events |-> events])

SummaryLimit(n) == IF n > TotalLimit THEN n ELSE TotalLimit

ReadSummary(t) == Read(t, "summary", "summary", SummaryLimit(query[t].limit), "rows")
ReadRows(t) == Read(t, "rows", "rows", query[t].limit, "events")
ReadEvents(t) == query[t].events /\ Read(t, "events", "events", query[t].limit, "recheck")

\* include_events=false
SkipEvents(t) ==
    /\ step[t] = "events" /\ ~query[t].events
    /\ Goto(t, "recheck")
    /\ UNCHANGED <<table, summary, disclosed, cache, found, got, cacheDue>>

AskGroups(t, scopes) == ~disclosed /\ Begin(t, "lookup", scopes, NoQuery)

\* the summary of a stage or phase is the whole answer; for tasks it stands
\* beside those that run
LookUp(t) ==
    /\ step[t] = "lookup"
    /\ \E kept \in {{s \in target[t] : summary[s].kept}, {}} :
         /\ found' = [found EXCEPT ![t] = kept]
         /\ Query(t, "summary", UNION {summary[s].events : s \in kept})
         /\ Goto(t, IF kept # {} /\ ~(target[t] \subseteq Task) THEN "recheck" ELSE "live")
    /\ UNCHANGED <<table, summary, cache, cacheDue>>

ReadLive(t) ==
    /\ step[t] = "live"
    /\ Query(t, "rows", EventsOf(UNION {Below(s) : s \in target[t] \ found[t]}))
    /\ Goto(t, "recheck")
    /\ UNCHANGED <<table, summary, cache, found, cacheDue>>

Recheck(t) ==
    /\ step[t] = "recheck"
    /\ IF disclosed THEN Leave(t) ELSE Goto(t, "answered") /\ UNCHANGED <<found, got>>
    /\ UNCHANGED <<table, summary, disclosed, cache, cacheDue>>

Answer(t) ==
    /\ step[t] = "answered"
    /\ Leave(t)
    /\ UNCHANGED <<table, summary, disclosed, cache, cacheDue>>

-----------------------------------------------------------------------------
(* Summaries of finished scopes: read in one section, stored in another.   *)

SyncSummary(t, s) == Begin(t, "sync", {s}, NoQuery)

\* MUTANT of SyncReads: the first of the rows by task
SyncReadsTask(t) ==
    /\ step[t] = "sync"
    /\ \E s \in target[t] : \E task \in Below(s) : Query(t, "rows", EventsOf({task}))
    /\ Goto(t, "store")
    /\ UNCHANGED <<table, summary, cache, found, cacheDue>>

SyncReads(t) ==
    /\ step[t] = "sync"
    /\ \E s \in target[t] : Query(t, "rows", EventsOf(Below(s)))
    /\ Goto(t, "store")
    /\ UNCHANGED <<table, summary, cache, found, cacheDue>>

\* no rows are stored as a summary of no calls, whatever the reason
SyncStores(t) ==
    /\ step[t] = "store"
    /\ summary' = [s \in Scope |->
                     IF s \in target[t]
                       THEN [kept |-> TRUE, events |-> got[t].rows,
                             due |-> {e \in due[t] \ (lost \cup refused) : TaskOf[e] \in Below(s)}]
                       ELSE summary[s]]
    /\ Leave(t)
    /\ UNCHANGED <<table, disclosed, cache, cacheDue>>

SyncFails(t) ==
    /\ step[t] = "store"
    /\ Leave(t)
    /\ UNCHANGED <<table, summary, disclosed, cache, cacheDue>>

ClearSummary(s) ==
    /\ summary' = [r \in Scope |-> IF r \in Inside[s] THEN NoSummary ELSE summary[r]]
    /\ UNCHANGED <<table, disclosed, cache, requestVars, ops, fates, cacheDue>>

-----------------------------------------------------------------------------
(* _runtime_stats_snapshot(): built by one thread at a time.               *)

Building(t) == step[t] \in {"byBackend", "errors", "total", "keep", "keepTime"}

BuildSnapshot(t) == (\A u \in Thread : ~Building(u)) /\ Begin(t, "byBackend", {}, NoQuery)
ReadByBackend(t) == Read(t, "byBackend", "rows", RuntimeLimit, "errors")
ReadErrors(t) == Read(t, "errors", "events", ErrorLimit, "total")
ReadTotal(t) == Read(t, "total", "summary", TotalLimit, "keep")

KeepSnapshot(t) ==
    /\ step[t] = "keep"
    /\ cache' = got[t]
    /\ Goto(t, "keepTime")
    /\ UNCHANGED <<table, summary, disclosed, found, got, cacheDue>>

\* MUTANT of KeepTime: the time at which the snapshot was finished
KeepTimeNow(t) ==
    /\ step[t] = "keepTime"
    /\ cacheDue' = Settled
    /\ Leave(t)
    /\ UNCHANGED <<table, summary, disclosed, cache>>

\* the time at which the lock was taken
KeepTime(t) ==
    /\ step[t] = "keepTime"
    /\ cacheDue' = due[t]
    /\ Leave(t)
    /\ UNCHANGED <<table, summary, disclosed, cache>>

-----------------------------------------------------------------------------
\* the counters and the cache are in memory alone
Restart ==
    /\ disclosed' = FALSE
    /\ cache' = NoParts
    /\ step' = [t \in Thread |-> "idle"]
    /\ target' = [t \in Thread |-> {}]
    /\ query' = [t \in Thread |-> NoQuery]
    /\ found' = [t \in Thread |-> {}]
    /\ got' = [t \in Thread |-> NoParts]
    /\ lost' = {} /\ refused' = {}
    /\ due' = [t \in Thread |-> {}]
    /\ cacheDue' = {}
    /\ UNCHANGED <<table, summary, ops>>

Request(t) ==
    \/ \E n \in Limits, events \in BOOLEAN : AskStats(t, n, events)
    \/ AskGroups(t, Task) \/ BuildSnapshot(t)
    \/ \E s \in Scope \ Task : AskGroups(t, {s})
    \/ \E s \in Scope : SyncSummary(t, s)

StatsStep(t) ==
    \/ ReadSummary(t) \/ ReadRows(t) \/ ReadEvents(t) \/ SkipEvents(t) \/ LookUp(t) \/ ReadLive(t)
    \/ Recheck(t) \/ Answer(t)
    \/ SyncReads(t) \/ SyncStores(t) \/ SyncFails(t)
    \/ ReadByBackend(t) \/ ReadErrors(t) \/ ReadTotal(t) \/ KeepSnapshot(t) \/ KeepTime(t)

Next ==
    \/ \E e \in Event : Write(e) \/ WriteFails(e) \/ Refuse(e)
    \/ \E t \in Thread : Request(t) \/ StatsStep(t)
    \/ \E s \in Scope : ClearSummary(s)
    \/ Restart

Spec == Init /\ [][Next]_vars

-----------------------------------------------------------------------------
\* A part of an answer has the events, but those that were refused, or it was
\* cut at its limit.
Covers(part, events, n) == events \subseteq part \cup refused \/ Cardinality(part) = n

\* A /stats answer that is not a 503 leaves out an event whose write was over
\* when the request came only if the event was refused for its missing account
\* or the part is as long as its limit: never because its write failed or one
\* of the reads did.  And no later part counts less than an earlier one, but
\* at its limit.  Tasks that a grouped answer takes from a summary are as old
\* as the summary.  (write, _record_read_failure, _handle_stats)
NoSilentLoss ==
    \A t \in Thread : step[t] = "answered" =>
        LET q == query[t]
            p == got[t]
        IN IF target[t] = {}
             THEN /\ Covers(p.summary, due[t], SummaryLimit(q.limit))
                  /\ Covers(p.rows, due[t] \cup p.summary, q.limit)
                  /\ q.events => Covers(p.events, due[t] \cup p.rows, q.limit)
             ELSE \A s \in target[t] \ found[t] :
                    {e \in due[t] : TaskOf[e] \in Below(s)} \subseteq p.rows \cup refused

\* What /runtime shows under the time of its snapshot counts every call that
\* was over by then, up to the limits of its reads, however long the three took
\* and whatever was written meanwhile, unless a failure is on record.
\* (_runtime_stats_snapshot)
SnapshotUnderItsTime ==
    \/ disclosed
    \/ /\ Covers(cache.rows, cacheDue, RuntimeLimit)
       /\ Covers(cache.summary, cacheDue, TotalLimit)

\* A summary of a finished scope never counts a part of it: all that was
\* written when its making began, or nothing, and no event of another scope,
\* whatever syncs, clears and failures came between its two sections.
\* (sync_completed_summary, clear_completed_summary)
SummaryNeverPartial ==
    \A s \in Scope :
        /\ summary[s].events \subseteq EventsOf(Below(s))
        /\ summary[s].events = {} \/ summary[s].due \subseteq summary[s].events

\* The successful and the failed calls of a row add up to its calls, whatever
\* the events claim of themselves.  (_normalize_event, _aggregate)
RowsAddUp ==
    LET row == Aggregate(log)
    IN row.calls = row.success + row.fail
=============================================================================
