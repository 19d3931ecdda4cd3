------------------------------ MODULE Dispatch ------------------------------
(***************************************************************************)
(* LLMRouter.call of src/router_core.py for the backends of one tier: the  *)
(* threads that carry calls choose a backend on the weighted ring, take a  *)
(* slot of its account, look at its state again, call it, give the slot    *)
(* back, record the outcome and fall back to another backend.  Operators   *)
(* disable, enable, probe and reset backends meanwhile.                    *)
(*                                                                         *)
(* The slots are those of AccountSlots and the backends' state is that of  *)
(* BackendState: the variables of both are here under the same names.      *)
(***************************************************************************)
EXTENDS BackendState, Sequences, FiniteSets

CONSTANTS
    Caller, NoBackend, AccountOf, InitLimit, MaxLimit,    \* see AccountSlots
    Interval, Rpm, Window, Horizon, MaxStarts,            \* see AccountSlots
    WeightedModels,   \* the backends in file order, each repeated weight times
    NoCaller,         \* nobody holds _weight_state_lock
    MaxCalls,         \* bound: calls of one thread
    MaxOps            \* bound: interventions of the operators

VARIABLES
    now, limit, running, load, nextAt, started, expired, holds, \* AccountSlots
    cursor,       \* _weighted_cursor_by_tier
    lock,         \* the holder of _weight_state_lock
    pc,           \* where in call() a thread is
    selected,     \* its selected backend, NoBackend outside
    call,         \* the other locals of call() and of the selection
    answer,       \* what its last call returned
    calls,        \* how many calls it has made
    probing,      \* backends with a probe under way
    ops           \* interventions so far

Slots == INSTANCE AccountSlots

ASSUME DispatchAssumption ==
    /\ Slots!SlotsAssumption
    /\ WeightedModels \in Seq(Backend)
    /\ \A b \in Backend : \E i \in DOMAIN WeightedModels : WeightedModels[i] = b
    /\ NoCaller \notin Caller
    /\ MaxCalls \in Nat
    /\ MaxOps \in Nat

slotVars == <<now, limit, running, load, nextAt, started, expired, holds>>
callVars == <<cursor, lock, pc, selected, call, answer, calls>>
operatorVars == <<probing, ops>>
vars == <<slotVars, backendVars, callVars, operatorVars>>

\* avail and offset belong to the selection; failed, busy and err to the call.
\* err is the class of last_error: none yet, quota_exhausted or anything else.
NoLocals == [avail |-> {}, offset |-> 0, failed |-> {}, busy |-> {}, err |-> "none"]

\* The server has just begun its start-up probe
Init ==
    /\ Slots!Init
    /\ InitBackends("probing")
    /\ cursor = 0
    /\ lock = NoCaller
    /\ pc = [c \in Caller |-> "idle"]
    /\ selected = [c \in Caller |-> NoBackend]
    /\ call = [c \in Caller |-> NoLocals]
    /\ answer = [c \in Caller |-> "none"]
    /\ calls = [c \in Caller |-> 0]
    /\ probing = {b \in Backend : status[b] = "probing"}
    /\ ops = 0

GoTo(c, label) == pc' = [pc EXCEPT ![c] = label]

Return(c, result) ==
    /\ GoTo(c, "idle")
    /\ answer' = [answer EXCEPT ![c] = result]
    /\ selected' = [selected EXCEPT ![c] = NoBackend]
    /\ call' = [call EXCEPT ![c] = NoLocals]
    /\ UNCHANGED calls

\* The iteration is over and the loop goes on without this backend
FallBack(c, why) ==
    /\ GoTo(c, "select")
    /\ selected' = [selected EXCEPT ![c] = NoBackend]
    /\ call' = [call EXCEPT ![c].failed = @ \cup {selected[c]}, ![c].err = why]
    /\ UNCHANGED <<answer, calls>>

-----------------------------------------------------------------------------
StartCall(c) ==
    /\ pc[c] = "idle"
    /\ calls[c] < MaxCalls
    /\ GoTo(c, "select")
    /\ calls' = [calls EXCEPT ![c] = @ + 1]
    /\ answer' = [answer EXCEPT ![c] = "none"]
    /\ UNCHANGED <<slotVars, backendVars, cursor, lock, selected, call, operatorVars>>

\* MUTANT of Candidates: what the call has given up on is not excluded
CandidatesAgain(c) == {b \in Backend : Routable(b) /\ b \notin call[c].busy}

\* _select_and_acquire_backend(): the candidates, before the ring is locked.
\* Reading a status repairs it; a backend out of quota or disabled is not read.
Candidates(c) ==
    {b \in Backend : Routable(b) /\ b \notin call[c].failed /\ b \notin call[c].busy}

Select(c) ==
    /\ pc[c] = "select"
    /\ RepairStatus({b \in Backend : enabled[b] /\ ~OutOfQuota(b)})
    /\ call' = [call EXCEPT ![c].avail = Candidates(c)]
    /\ GoTo(c, IF Candidates(c) = {} THEN "giveup" ELSE "ring")
    /\ UNCHANGED <<slotVars, enabled, failures, exhausted, cursor, lock,
                   selected, answer, calls, operatorVars>>

LockRing(c) ==
    /\ pc[c] = "ring"
    /\ lock = NoCaller
    /\ lock' = c
    /\ GoTo(c, "scan")
    /\ UNCHANGED <<slotVars, backendVars, cursor, selected, call, answer, calls,
                   operatorVars>>

\* The entries of the ring that are available, and the one the scan has reached
Ring(c) == {i \in DOMAIN WeightedModels : WeightedModels[i] \in call[c].avail}

Position(c) == (cursor + call[c].offset) % Cardinality(Ring(c))

AtPosition(c) ==
    LET Rank(i) == Cardinality({j \in Ring(c) : j < i})
    IN WeightedModels[CHOOSE i \in Ring(c) : Rank(i) = Position(c)]

Admits(a) == running[a] < limit[a] /\ Slots!PaceAdmits(a, now)

TakeSlot(c) ==
    /\ pc[c] = "scan"
    /\ \E b \in Backend :
        /\ b = AtPosition(c)
        /\ Slots!Take(c, b)
        /\ selected' = [selected EXCEPT ![c] = b]
    /\ cursor' = Position(c) + 1
    /\ lock' = NoCaller
    /\ GoTo(c, "recheck")
    /\ call' = [call EXCEPT ![c].avail = {}, ![c].offset = 0]
    /\ UNCHANGED <<backendVars, answer, calls, operatorVars>>

\* MUTANT of SkipSlot: nothing is left, and the ring stays locked
SkipSlotKeepsLock(c) ==
    /\ pc[c] = "scan"
    /\ \E b \in Backend :
        /\ b = AtPosition(c)
        /\ ~Admits(AccountOf[b])
        /\ Slots!QueryRetryAfter(AccountOf[b])
        /\ call' = [call EXCEPT ![c].busy = @ \cup {b}, ![c].offset = 0, ![c].avail = {}]
    /\ GoTo(c, "giveup")
    /\ UNCHANGED <<backendVars, cursor, lock, selected, answer, calls, operatorVars>>

\* acquire() refuses and retry_after_seconds() is asked; after the last slot
\* the selection has found nothing
SkipSlot(c) ==
    /\ pc[c] = "scan"
    /\ \E b \in Backend :
        /\ b = AtPosition(c)
        /\ ~Admits(AccountOf[b])
        /\ Slots!QueryRetryAfter(AccountOf[b])
        /\ \/ /\ call[c].offset + 1 < Cardinality(Ring(c))
              /\ call' = [call EXCEPT ![c].busy = @ \cup {b}, ![c].offset = @ + 1]
              /\ UNCHANGED <<pc, cursor, lock>>
           \/ /\ call[c].offset + 1 = Cardinality(Ring(c))
              /\ call' = [call EXCEPT ![c].busy = @ \cup {b}, ![c].offset = 0, ![c].avail = {}]
              /\ cursor' = cursor + Cardinality(Ring(c))
              /\ lock' = NoCaller
              /\ GoTo(c, "giveup")
    /\ UNCHANGED <<backendVars, selected, answer, calls, operatorVars>>

\* _backend_exclusion_reason() of the selected backend, whose state may have
\* changed since it was a candidate
StillAvailable(c) ==
    LET b == selected[c] IN
    Routable(b) /\ b \notin call[c].busy /\ b \notin call[c].failed

RepairSelected(c) == RepairStatus({b \in {selected[c]} : enabled[b]})

\* MUTANT of Proceed: the slot is given back before the client is called
ProceedReleasing(c) ==
    /\ pc[c] = "recheck"
    /\ StillAvailable(c)
    /\ RepairSelected(c)
    /\ Slots!GiveBack(c, selected[c])
    /\ GoTo(c, "calling")
    /\ UNCHANGED <<enabled, failures, exhausted, cursor, lock,
                   selected, call, answer, calls, operatorVars>>

Proceed(c) ==
    /\ pc[c] = "recheck"
    /\ StillAvailable(c)
    /\ RepairSelected(c)
    /\ GoTo(c, "calling")
    /\ UNCHANGED <<slotVars, enabled, failures, exhausted, cursor, lock,
                   selected, call, answer, calls, operatorVars>>

\* MUTANT of Withdraw: the slot is not given back
WithdrawKeepsSlot(c) ==
    /\ pc[c] = "recheck"
    /\ ~StillAvailable(c)
    /\ RepairSelected(c)
    /\ FallBack(c, "error")
    /\ UNCHANGED <<slotVars, enabled, failures, exhausted, cursor, lock, operatorVars>>

Withdraw(c) ==
    /\ pc[c] = "recheck"
    /\ ~StillAvailable(c)
    /\ RepairSelected(c)
    /\ Slots!GiveBack(c, selected[c])
    /\ FallBack(c, "error")
    /\ UNCHANGED <<enabled, failures, exhausted, cursor, lock, operatorVars>>

\* The prompt is too long for the model, or the provider rejects the request:
\* no other backend is tried and nothing is held against this one
Reject(c) ==
    /\ pc[c] = "calling"
    /\ Slots!GiveBack(c, selected[c])
    /\ Return(c, "rejected")
    /\ UNCHANGED <<backendVars, cursor, lock, operatorVars>>

\* client.call() answers or raises, or there is no client: the slot is given
\* back first, what follows for each outcome is below
Outcome == {"ok", "empty", "fault", "missing", "quota"}

ClientAnswers(c) ==
    /\ pc[c] = "calling"
    /\ Slots!GiveBack(c, selected[c])
    /\ \E outcome \in Outcome : GoTo(c, outcome)
    /\ UNCHANGED <<backendVars, cursor, lock, selected, call, answer, calls,
                   operatorVars>>

Succeed(c) ==
    /\ pc[c] = "ok"
    /\ RecordSuccess(selected[c])
    /\ Return(c, "ok")
    /\ UNCHANGED <<slotVars, enabled, exhausted, cursor, lock, operatorVars>>

\* An empty response is a failure of the backend, yet the call ends here
EndEmpty(c) ==
    /\ pc[c] = "empty"
    /\ RecordUnhealthy(selected[c], "call")
    /\ Return(c, "empty")
    /\ UNCHANGED <<slotVars, enabled, exhausted, cursor, lock, operatorVars>>

\* A truncated completion, a backend error or an unexpected exception; without
\* a client last_error keeps its value
Fail(c) ==
    /\ pc[c] \in {"fault", "missing"}
    /\ RecordUnhealthy(selected[c], "call")
    /\ FallBack(c, IF pc[c] = "fault" THEN "error" ELSE call[c].err)
    /\ UNCHANGED <<slotVars, enabled, exhausted, cursor, lock, operatorVars>>

\* QuotaExhaustedError: first the account is marked, then the backend
MarkQuota(c) ==
    /\ pc[c] = "quota"
    /\ MarkExhausted(selected[c])
    /\ GoTo(c, "marked")
    /\ UNCHANGED <<slotVars, enabled, status, failures, cursor, lock, selected,
                   call, answer, calls, operatorVars>>

MarkStatus(c) ==
    /\ pc[c] = "marked"
    /\ SetStatus(selected[c], "exhausted")
    /\ FallBack(c, "quota")
    /\ UNCHANGED <<slotVars, enabled, failures, exhausted, cursor, lock, operatorVars>>

\* _selection_has_transient_busy(): it looks for "=exhausted", which only a
\* backend out of quota whose status is "running" gives, or "runtime_probing"
TransientBusy ==
    \E b \in Backend :
        /\ enabled[b]
        /\ ReadStatus(b) = "probing" \/ (ReadStatus(b) = "running" /\ OutOfQuota(b))

\* The end of call(), when no backend is left
GiveUp(c) ==
    /\ pc[c] = "giveup"
    /\ RepairStatus({b \in Backend : enabled[b]})
    /\ Return(c, IF TransientBusy \/ call[c].busy # {} THEN "busy"
                 ELSE IF call[c].err = "error" THEN "failed" ELSE "unavailable")
    /\ UNCHANGED <<slotVars, enabled, failures, exhausted, cursor, lock, operatorVars>>

CallerNext(c) ==
    \/ Select(c) \/ LockRing(c) \/ TakeSlot(c) \/ SkipSlot(c)
    \/ Proceed(c) \/ Withdraw(c) \/ Reject(c) \/ ClientAnswers(c)
    \/ Succeed(c) \/ EndEmpty(c) \/ Fail(c) \/ MarkQuota(c) \/ MarkStatus(c)
    \/ GiveUp(c)

-----------------------------------------------------------------------------
(***************************************************************************)
(* The operators, through the server's handlers.  BackendHealth has the    *)
(* steps of a probe; here it begins and ends.                              *)
(***************************************************************************)
Intervene == ops < MaxOps /\ ops' = ops + 1

Disable(b) ==
    /\ Intervene
    /\ SetEnabled(b, FALSE)
    /\ SetStatus(b, "disabled")
    /\ UNCHANGED <<slotVars, exhausted, callVars, probing>>

\* Enable always probes; Probe is refused on a disabled backend
BeginProbe(b) ==
    /\ Intervene
    /\ SetStatus(b, "probing")
    /\ probing' = probing \cup {b}
    /\ \/ SetEnabled(b, TRUE)
       \/ enabled[b] /\ UNCHANGED <<enabled, failures>>
    /\ UNCHANGED <<slotVars, exhausted, callVars>>

EndProbe(b) ==
    /\ b \in probing
    /\ probing' = probing \ {b}
    /\ \/ ResetQuota(b) /\ RecordSuccess(b)
       \/ RecordUnhealthy(b, "probe") /\ UNCHANGED exhausted
       \/ MarkExhausted(b) /\ SetStatus(b, "exhausted") /\ UNCHANGED failures
    /\ UNCHANGED <<slotVars, enabled, callVars, ops>>

ResetAll ==
    /\ Intervene
    /\ exhausted' = {}
    /\ ResetRuntime
    /\ UNCHANGED <<slotVars, enabled, callVars, probing>>

SetAccountLimit(a, n) ==
    /\ Intervene
    /\ Slots!SetAccountLimit(a, n)
    /\ UNCHANGED <<backendVars, callVars, probing>>

Tick == Slots!Tick /\ UNCHANGED <<backendVars, callVars, operatorVars>>

Next ==
    \/ \E c \in Caller : StartCall(c) \/ CallerNext(c)
    \/ \E b \in Backend : Disable(b) \/ BeginProbe(b) \/ EndProbe(b)
    \/ ResetAll
    \/ \E a \in Account, n \in 1..MaxLimit : SetAccountLimit(a, n)
    \/ Tick

Spec == Init /\ [][Next]_vars

\* Every thread is scheduled and every client call returns: the backends give
\* up after their time-out
Fairness == \A c \in Caller : WF_vars(CallerNext(c))

FairSpec == Spec /\ Fairness

-----------------------------------------------------------------------------
\* Whatever way a call takes through the loop (an early return, a fallback, a
\* withdrawal, an exception), the slots it takes and gives back are those of
\* a thread of AccountSlots: it takes none while it holds one and gives back
\* each one once, so the limit, the interval and the rate of the account hold.
SlotsSpec == Slots!Spec

\* Every request under way at a provider is covered by a slot of its account:
\* the real concurrency never exceeds what the counter says.
InFlight(a) == {c \in Caller : pc[c] = "calling" /\ AccountOf[selected[c]] = a}

InFlightIsCounted ==
    \A a \in Account : Cardinality(InFlight(a)) <= running[a]

\* A call never comes back to a backend it has failed on or withdrawn from,
\* although a reset, a probe or an operator may make it routable meanwhile.
\* So the loop over range(len(models)) needs no counter of its own here: every
\* iteration takes a backend that no earlier one has taken.
\* (call, _select_and_acquire_backend)
TriedOnce == \A c \in Caller : selected[c] \notin call[c].failed

\* A call that has begun returns: it falls back to finitely many backends and
\* never waits for ever for the ring.
EachCallAnswers == \A c \in Caller : pc[c] # "idle" ~> pc[c] = "idle"
=============================================================================
