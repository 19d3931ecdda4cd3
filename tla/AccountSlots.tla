---------------------------- MODULE AccountSlots ----------------------------
(***************************************************************************)
(* The per-account admission control of src/concurrency.py                 *)
(* (BackendConcurrencyManager): a concurrency limit that may be changed    *)
(* while calls are running, a minimum interval between two starts and a    *)
(* sliding window of starts.  Every method of the class runs under one     *)
(* lock, so every action below is one critical section.                    *)
(*                                                                         *)
(* Time is counted in ticks.  The deque _account_request_starts[a] is a    *)
(* window on the sequence of all starts of the account: started[a] is the  *)
(* whole sequence and expired[a] how many of its oldest entries have been  *)
(* popped, so the deque is started[a] from expired[a] + 1 on.              *)
(***************************************************************************)
EXTENDS Integers, Sequences, FiniteSets

CONSTANTS
    Account,      \* the keys of llm_accounts
    Backend,      \* backend identities tier:account:model
    AccountOf,    \* the account of each backend
    Caller,       \* threads that take and give back slots
    NoBackend,    \* a caller that holds no slot
    InitLimit,    \* max_concurrent_requests of each account at start
    MaxLimit,     \* bound: the largest limit an operator sets
    Interval,     \* min_request_interval_ms of each account, in ticks
    Rpm,          \* requests_per_minute of each account, 0 for none
    Window,       \* the sliding window (60 s), in ticks
    Horizon,      \* bound: the last tick
    MaxStarts     \* bound: starts of one account in a behaviour

ASSUME SlotsAssumption ==
    /\ IsFiniteSet(Caller)
    /\ AccountOf \in [Backend -> Account]
    /\ NoBackend \notin Backend
    /\ MaxLimit \in Nat \ {0}
    /\ InitLimit \in [Account -> 1..MaxLimit]
    /\ Interval \in [Account -> Nat]
    /\ Rpm \in [Account -> Nat]
    /\ Window \in Nat \ {0}
    /\ Horizon \in Nat
    /\ MaxStarts \in Nat

VARIABLES
    now,          \* time.time()
    limit,        \* _account_config[a]["max_concurrent_requests"]
    running,      \* _account_counters
    load,         \* _backend_counters
    nextAt,       \* _account_next_available_at
    started,      \* every start of the account, oldest first
    expired,      \* how many of them the deque no longer holds
    holds         \* the backend whose slot a caller holds, if any

vars == <<now, limit, running, load, nextAt, started, expired, holds>>

Init ==
    /\ now = 0
    /\ limit = InitLimit
    /\ running = [a \in Account |-> 0]
    /\ load = [b \in Backend |-> 0]
    /\ nextAt = [a \in Account |-> 0]
    /\ started = [a \in Account |-> <<>>]
    /\ expired = [a \in Account |-> 0]
    /\ holds = [c \in Caller |-> NoBackend]

-----------------------------------------------------------------------------
\* MUTANT of Fresh: the window is a tick too short
FreshTooShort(a, i, t) == t - started[a][i] + 1 < Window

\* The popleft loop stops at the first entry younger than the window.
Fresh(a, i, t) == t - started[a][i] < Window

\* MUTANT of Pruned: an if where the popleft loop is
PrunedOne(a, t) ==
    IF expired[a] < Len(started[a]) /\ ~Fresh(a, expired[a] + 1, t)
      THEN expired[a] + 1 ELSE expired[a]

Pruned(a, t) ==
    CHOOSE n \in expired[a]..Len(started[a]) :
        /\ \A i \in (expired[a] + 1)..n : ~Fresh(a, i, t)
        /\ n < Len(started[a]) => Fresh(a, n + 1, t)

RateFull(a, t) == Rpm[a] > 0 /\ Len(started[a]) - Pruned(a, t) >= Rpm[a]

\* MUTANT of PaceAdmits: the interval is forgotten
PaceIgnoresInterval(a, t) == ~RateFull(a, t)

\* Would the pacing rules let a start of this account through at time t?
PaceAdmits(a, t) == t >= nextAt[a] /\ ~RateFull(a, t)

\* MUTANT of Take: <= where the comparison with the limit is
TakeOneTooMany(c, b) ==
    LET a == AccountOf[b] IN
    /\ Len(started[a]) < MaxStarts
    /\ running[a] <= limit[a]
    /\ PaceAdmits(a, now)
    /\ running' = [running EXCEPT ![a] = @ + 1]
    /\ load' = [load EXCEPT ![b] = @ + 1]
    /\ expired' = [expired EXCEPT ![a] = Pruned(a, now)]
    /\ started' = [started EXCEPT ![a] = Append(@, now)]
    /\ nextAt' = [nextAt EXCEPT ![a] = now + Interval[a]]
    /\ holds' = [holds EXCEPT ![c] = b]
    /\ UNCHANGED <<now, limit>>

\* acquire() that returns (True, ""), for the thread c
Take(c, b) ==
    LET a == AccountOf[b] IN
    /\ Len(started[a]) < MaxStarts
    /\ running[a] < limit[a]
    /\ PaceAdmits(a, now)
    /\ running' = [running EXCEPT ![a] = @ + 1]
    /\ load' = [load EXCEPT ![b] = @ + 1]
    /\ expired' = [expired EXCEPT ![a] = Pruned(a, now)]
    /\ started' = [started EXCEPT ![a] = Append(@, now)]
    /\ nextAt' = IF Interval[a] > 0
                   THEN [nextAt EXCEPT ![a] = now + Interval[a]]
                   ELSE nextAt
    /\ holds' = [holds EXCEPT ![c] = b]
    /\ UNCHANGED <<now, limit>>

\* A thread of the router holds one slot at a time
Acquire(c, b) == holds[c] = NoBackend /\ Take(c, b)

\* acquire() that returns "account_rate_limit_wait": it has already popped
\* the old starts.  The two refusals before it change nothing.
RefusedByRate(c, b) ==
    LET a == AccountOf[b] IN
    /\ holds[c] = NoBackend
    /\ running[a] < limit[a]
    /\ now >= nextAt[a]
    /\ RateFull(a, now)
    /\ expired' = [expired EXCEPT ![a] = Pruned(a, now)]
    /\ UNCHANGED <<now, limit, running, load, nextAt, started, holds>>

\* MUTANT of GiveBack: the account is given nothing back
GiveBackOfBackend(c, b) ==
    /\ load' = [load EXCEPT ![b] = @ - 1]
    /\ holds' = [holds EXCEPT ![c] = NoBackend]
    /\ UNCHANGED <<now, limit, running, nextAt, started, expired>>

\* release(): the two counters of b go down, never below zero
GiveBack(c, b) ==
    LET a == AccountOf[b] IN
    /\ load' = IF load[b] > 0 THEN [load EXCEPT ![b] = @ - 1] ELSE load
    /\ running' = IF running[a] > 0 THEN [running EXCEPT ![a] = @ - 1] ELSE running
    /\ holds' = [holds EXCEPT ![c] = NoBackend]
    /\ UNCHANGED <<now, limit, nextAt, started, expired>>

\* A thread gives back the slot it holds
Release(c) == holds[c] # NoBackend /\ GiveBack(c, holds[c])

\* MUTANT of RetryAfter: the interval hides the window
RetryAfterFirst(a) ==
    IF now < nextAt[a] THEN nextAt[a] - now
    ELSE IF RateFull(a, now) THEN Window - (now - started[a][Pruned(a, now) + 1])
    ELSE 0

\* What retry_after_seconds() returns when a pacing rule is in the way (the
\* longest of the two waits), 0 when none is: the method then answers with
\* the caller's fallback.
RetryAfter(a) ==
    LET wait == IF now < nextAt[a] THEN nextAt[a] - now ELSE 0
        rate == IF RateFull(a, now)
                  THEN Window - (now - started[a][Pruned(a, now) + 1])
                  ELSE 0
    IN  IF wait > rate THEN wait ELSE rate

\* The side effect of retry_after_seconds(): it pops the old starts too
QueryRetryAfter(a) ==
    /\ expired' = [expired EXCEPT ![a] = Pruned(a, now)]
    /\ UNCHANGED <<now, limit, running, load, nextAt, started, holds>>

\* set_account_limit(): running calls are left alone
SetAccountLimit(a, n) ==
    /\ limit' = [limit EXCEPT ![a] = n]
    /\ UNCHANGED <<now, running, load, nextAt, started, expired, holds>>

Tick ==
    /\ now < Horizon
    /\ now' = now + 1
    /\ UNCHANGED <<limit, running, load, nextAt, started, expired, holds>>

Next ==
    \/ \E c \in Caller, b \in Backend : Acquire(c, b) \/ RefusedByRate(c, b)
    \/ \E c \in Caller : Release(c)
    \/ \E a \in Account : QueryRetryAfter(a)
    \/ \E a \in Account, n \in 1..MaxLimit : SetAccountLimit(a, n)
    \/ Tick

Spec == Init /\ [][Next]_vars

-----------------------------------------------------------------------------
HoldersOf(a) == {c \in Caller : holds[c] # NoBackend /\ AccountOf[holds[c]] = a}
HoldersOn(b) == {c \in Caller : holds[c] = b}

\* The variables have the types of the fields they stand for.
TypeOK ==
    /\ now \in Nat
    /\ limit \in [Account -> 1..MaxLimit]
    /\ running \in [Account -> Nat]
    /\ load \in [Backend -> Nat]
    /\ nextAt \in [Account -> Nat]
    /\ started \in [Account -> Seq(Nat)]
    /\ expired \in [Account -> Nat]
    /\ \A a \in Account : expired[a] <= Len(started[a])
    /\ holds \in [Caller -> Backend \cup {NoBackend}]

\* The account counter and the backend counter agree with who really holds a
\* slot, whatever the order of acquires and releases of different callers: a
\* lost or doubled release would leave a slot taken for ever or sell it twice.
CountersMatchHolders ==
    /\ \A a \in Account : running[a] = Cardinality(HoldersOf(a))
    /\ \A b \in Backend : load[b] = Cardinality(HoldersOn(b))

\* Over the whole life of an account, any Rpm + 1 successive starts span at
\* least one window, although the deque forgets old starts both in acquire()
\* and in retry_after_seconds().
SlidingWindow ==
    \A a \in Account :
        Rpm[a] > 0 =>
            \A i, j \in 1..Len(started[a]) :
                j = i + Rpm[a] => started[a][j] - started[a][i] >= Window

\* Two successive starts of an account are at least its interval apart.
StartSpacing ==
    \A a \in Account :
        \A i \in 1..(Len(started[a]) - 1) :
            started[a][i + 1] - started[a][i] >= Interval[a]

\* The rate refusal counts exactly the starts of the last window: what was
\* popped is old, so an account is never throttled longer than the rule says.
NoOverThrottling ==
    \A a \in Account :
        Len(started[a]) - Pruned(a, now)
            = Cardinality({i \in 1..Len(started[a]) : Fresh(a, i, now)})

\* A caller that sleeps for what retry_after_seconds() returned finds the
\* pacing rules open when nobody started in between, and would not have found
\* them open any earlier.
RetryAfterExact ==
    \A a \in Account :
        LET d == RetryAfter(a) IN
        /\ PaceAdmits(a, now + d)
        /\ \A t \in 0..(d - 1) : ~PaceAdmits(a, now + t)

\* A limit lowered below the number of running calls lets nobody in until
\* enough of them have ended: the counter of an account only grows up to the
\* limit in force.
NoStartOverLimit ==
    [][\A a \in Account : running'[a] > running[a] => running'[a] <= limit[a]]_vars
=============================================================================
