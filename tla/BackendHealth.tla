--------------------------- MODULE BackendHealth ---------------------------
(***************************************************************************)
(* The state machine of a backend in src/server.py: probes, the table      *)
(* _backend_status the server shows, the operators' switches and the       *)
(* timers that probe an exhausted backend again.  The state a backend is   *)
(* routed by is in the router (BackendState); most steps write both tables *)
(* one after the other, each under a lock of its own, and the threads that *)
(* do so (probes, HTTP handlers, jobs) interleave between the two writes.  *)
(*                                                                         *)
(* A thread of this module plays one part at a time.  Its identity doubles *)
(* as the probe_id of the probe it carries: a thread that is free again    *)
(* has left no probe_id behind (ProbeHasOwner).                            *)
(***************************************************************************)
EXTENDS BackendState

CONSTANTS
    Thread,        \* probe threads, HTTP handlers, jobs
    NoThread,
    NoBackend,
    MaxFailures,   \* bound: failed probes of a backend in a row
    MaxOps         \* bound: requests of operators and clients

ASSUME HealthAssumption ==
    /\ NoThread \notin Thread
    /\ NoBackend \notin Backend
    /\ MaxFailures \in Nat
    /\ MaxOps \in Nat

VARIABLES
    shown,     \* _backend_status: status and probe_id
    armed,     \* the backends with a live entry in _exhausted_probe_timers
    pc,        \* where a thread is
    on,        \* the backend it deals with
    found,     \* the status it is about to write
    keys,      \* the backends a reset covers
    ops        \* requests so far

threadVars == <<pc, on, found, keys>>
vars == <<backendVars, shown, armed, threadVars, ops>>

\* TierServer.__init__: both tables are filled by _load_runtime_config_state
Init ==
    /\ InitBackends("unreachable")
    /\ shown = [b \in Backend |-> [status |-> status[b], probe |-> NoThread]]
    /\ armed = {b \in Backend : status[b] = "exhausted"}
    /\ pc = [t \in Thread |-> "idle"]
    /\ on = [t \in Thread |-> NoBackend]
    /\ found = [t \in Thread |-> "running"]
    /\ keys = [t \in Thread |-> {}]
    /\ ops = 0

Begin(t, b, label) ==
    /\ pc[t] = "idle"
    /\ pc' = [pc EXCEPT ![t] = label]
    /\ on' = [on EXCEPT ![t] = b]
    /\ UNCHANGED <<found, keys>>

GoTo(t, label) ==
    /\ pc' = [pc EXCEPT ![t] = label]
    /\ UNCHANGED <<on, found, keys>>

\* The thread goes on to label, to write status s in the end
Conclude(t, s, label) ==
    /\ pc' = [pc EXCEPT ![t] = label]
    /\ found' = [found EXCEPT ![t] = s]
    /\ UNCHANGED <<on, keys>>

\* A request that writes status s in both tables (_set_backend_status)
BeginWrite(t, b, s) ==
    /\ pc[t] = "idle"
    /\ pc' = [pc EXCEPT ![t] = "write"]
    /\ on' = [on EXCEPT ![t] = b]
    /\ found' = [found EXCEPT ![t] = s]
    /\ UNCHANGED keys

Leave(t) ==
    /\ pc' = [pc EXCEPT ![t] = "idle"]
    /\ on' = [on EXCEPT ![t] = NoBackend]
    /\ found' = [found EXCEPT ![t] = "running"]
    /\ keys' = [keys EXCEPT ![t] = {}]

NewRequest == ops < MaxOps /\ ops' = ops + 1

-----------------------------------------------------------------------------
(***************************************************************************)
(* _set_backend_status: the router's table, then the server's, then the    *)
(* timer of an exhausted backend.                                          *)
(***************************************************************************)
WriteRouter(t) ==
    /\ pc[t] = "write"
    /\ SetStatus(on[t], found[t])
    /\ GoTo(t, "show")
    /\ UNCHANGED <<enabled, failures, exhausted, shown, armed, ops>>

WriteShown(t) ==
    LET b == on[t] IN
    /\ pc[t] = "show"
    /\ shown' = [shown EXCEPT ![b] = [status |-> found[t], probe |-> NoThread]]
    /\ armed' = IF found[t] = "exhausted" /\ OutOfQuota(b) /\ enabled[b]
                  THEN armed \cup {b}
                ELSE IF found[t] \in {"running", "disabled"}
                  THEN armed \ {b} ELSE armed
    /\ Leave(t)
    /\ UNCHANGED <<backendVars, ops>>

-----------------------------------------------------------------------------
(***************************************************************************)
(* A probe: _begin_probe, the thread of _run_single_backend_probe, and     *)
(* _finish_probe_if_current.                                               *)
(***************************************************************************)
BeginProbe(t) ==
    /\ pc[t] = "begin"
    /\ SetStatus(on[t], "probing")
    /\ GoTo(t, "open")
    /\ UNCHANGED <<enabled, failures, exhausted, shown, armed, ops>>

OpenProbe(t) ==
    /\ pc[t] = "open"
    /\ shown' = [shown EXCEPT ![on[t]] = [status |-> "probing", probe |-> t]]
    /\ GoTo(t, "probe")
    /\ UNCHANGED <<backendVars, armed, ops>>

\* The client answers, says the quota is used up, or fails
ProbeAnswers(t) ==
    /\ pc[t] = "probe"
    /\ \E label \in {"pass", "refuse", "fault"} :
        /\ label = "fault" => failures[on[t]] < MaxFailures
        /\ GoTo(t, label)
    /\ UNCHANGED <<backendVars, shown, armed, ops>>

ProbeResetsQuota(t) ==
    /\ pc[t] = "pass"
    /\ ResetQuota(on[t])
    /\ GoTo(t, "passed")
    /\ UNCHANGED <<enabled, status, failures, shown, armed, ops>>

ProbeSucceeds(t) ==
    /\ pc[t] = "passed"
    /\ RecordSuccess(on[t])
    /\ Conclude(t, "running", "finish")
    /\ UNCHANGED <<enabled, exhausted, shown, armed, ops>>


ProbeRefused(t) ==
    /\ pc[t] = "refuse"
    /\ MarkExhausted(on[t])
    /\ Conclude(t, "exhausted", "finish")
    /\ UNCHANGED <<enabled, status, failures, shown, armed, ops>>

ProbeFails(t) ==
    /\ pc[t] = "fault"
    /\ RecordUnhealthy(on[t], "probe")
    /\ Conclude(t, "unreachable", "finish")
    /\ UNCHANGED <<enabled, exhausted, shown, armed, ops>>

IsCurrent(t) == shown[on[t]] = [status |-> "probing", probe |-> t]

\* MUTANT of FinishProbe: a backend disabled meanwhile is left alone
FinishProbeIfEnabled(t) ==
    /\ pc[t] = "finish"
    /\ \/ IsCurrent(t) /\ enabled[on[t]] /\ GoTo(t, "write")
       \/ ~(IsCurrent(t) /\ enabled[on[t]]) /\ Leave(t)
    /\ UNCHANGED <<backendVars, shown, armed, ops>>

FinishProbe(t) ==
    /\ pc[t] = "finish"
    /\ \/ IsCurrent(t) /\ GoTo(t, "write")
       \/ ~IsCurrent(t) /\ Leave(t)
    /\ UNCHANGED <<backendVars, shown, armed, ops>>

-----------------------------------------------------------------------------
(***************************************************************************)
(* The readers: _backend_status_snapshot.  A reader that finds a probe out *)
(* of time, or an "exhausted" the router no longer knows, writes it down.  *)
(***************************************************************************)
ReadExpired(t, b) ==
    /\ NewRequest
    /\ shown[b].status = "probing"
    /\ Begin(t, b, "expired")
    /\ UNCHANGED <<backendVars, shown, armed>>

RecordExpired(t) ==
    /\ pc[t] = "expired"
    /\ RecordUnhealthy(on[t], "probe")
    /\ Conclude(t, "unreachable", "write")
    /\ UNCHANGED <<enabled, exhausted, shown, armed, ops>>

Recovered(b) == shown[b].status = "exhausted" /\ ReadStatus(b) = "running"

ReadRecovered(t, b) ==
    /\ NewRequest
    /\ Recovered(b)
    /\ RepairStatus({b})
    /\ BeginWrite(t, b, "running")
    /\ UNCHANGED <<enabled, failures, exhausted, shown, armed>>

\* _runtime_backend_state(): what /runtime shows of a backend without running
\* calls
RuntimeState(b) ==
    LET s == ReadStatus(b) IN
    IF ~enabled[b] THEN "disabled"
    ELSE IF s = "running" /\ (OutOfQuota(b) \/ shown[b].status = "exhausted") THEN "exhausted"
    ELSE IF s = "disabled" THEN "unreachable" ELSE s

-----------------------------------------------------------------------------
(***************************************************************************)
(* The operators and the start-up probe.                                   *)
(***************************************************************************)
ProbeNow(t, b) ==
    /\ NewRequest
    /\ enabled[b]
    /\ Begin(t, b, "begin")
    /\ UNCHANGED <<backendVars, shown, armed>>

Disable(t, b) ==
    /\ NewRequest
    /\ SetEnabled(b, FALSE)
    /\ BeginWrite(t, b, "disabled")
    /\ UNCHANGED <<status, exhausted, shown, armed>>

Enable(t, b) ==
    /\ NewRequest
    /\ SetEnabled(b, TRUE)
    /\ Begin(t, b, "enabled")
    /\ UNCHANGED <<status, exhausted, shown, armed>>

\* _probe_single_backend refuses what has been disabled meanwhile
ProbeEnabled(t) ==
    /\ pc[t] = "enabled"
    /\ \/ enabled[on[t]] /\ GoTo(t, "begin")
       \/ ~enabled[on[t]] /\ Leave(t)
    /\ UNCHANGED <<backendVars, shown, armed, ops>>

\* _probe_backends looks at one backend.  Provider usage may show that an
\* exhausted account has capacity again.
PassVisits(t, b) ==
    /\ NewRequest
    /\ \/ ~enabled[b] /\ BeginWrite(t, b, "disabled") /\ UNCHANGED exhausted
       \/ enabled[b] /\ OutOfQuota(b) /\ BeginWrite(t, b, "exhausted") /\ UNCHANGED exhausted
       \/ enabled[b] /\ OutOfQuota(b) /\ ResetQuota(b) /\ Begin(t, b, "begin")
       \/ enabled[b] /\ ~OutOfQuota(b) /\ Begin(t, b, "begin") /\ UNCHANGED exhausted
    /\ UNCHANGED <<enabled, status, failures, shown, armed>>

\* _reset_exhausted_runtime_state, of all tiers: the quota marks, then the
\* router's table, then the server's
Reset(t) ==
    /\ NewRequest
    /\ Begin(t, NoBackend, "reset")
    /\ exhausted' = {}
    /\ UNCHANGED <<enabled, status, failures, shown, armed>>

ResetRouter(t) ==
    /\ pc[t] = "reset"
    /\ ResetRuntime
    /\ keys' = [keys EXCEPT ![t] = {b \in Backend : enabled[b]}]
    /\ pc' = [pc EXCEPT ![t] = "resetshown"]
    /\ UNCHANGED <<on, found>>
    /\ UNCHANGED <<enabled, exhausted, shown, armed, ops>>

ResetShown(t) ==
    /\ pc[t] = "resetshown"
    /\ shown' = [b \in Backend |->
           IF b \in keys[t] THEN [status |-> "running", probe |-> NoThread] ELSE shown[b]]
    /\ Leave(t)
    /\ UNCHANGED <<backendVars, armed, ops>>

-----------------------------------------------------------------------------
(***************************************************************************)
(* The calls (Dispatch has their steps): one on a routable backend ends in *)
(* a success, after which the job writes "running" in both tables, or in a *)
(* failure or a quota refusal, which the router records.                   *)
(***************************************************************************)
StartCall(t, b) ==
    /\ NewRequest
    /\ Routable(b)
    /\ RepairStatus({b})
    /\ Begin(t, b, "call")
    /\ UNCHANGED <<enabled, failures, exhausted, shown, armed>>

CallSucceeds(t) ==
    /\ pc[t] = "call"
    /\ RecordSuccess(on[t])
    /\ Conclude(t, "running", "write")
    /\ UNCHANGED <<enabled, exhausted, shown, armed, ops>>

CallFails(t) ==
    /\ pc[t] = "call"
    /\ RecordUnhealthy(on[t], "call")
    /\ Leave(t)
    /\ UNCHANGED <<enabled, exhausted, shown, armed, ops>>

CallRefused(t) ==
    /\ pc[t] = "call"
    /\ MarkExhausted(on[t])
    /\ GoTo(t, "marked")
    /\ UNCHANGED <<enabled, status, failures, shown, armed, ops>>

CallMarksStatus(t) ==
    /\ pc[t] = "marked"
    /\ SetStatus(on[t], "exhausted")
    /\ Leave(t)
    /\ UNCHANGED <<enabled, failures, exhausted, shown, armed, ops>>

-----------------------------------------------------------------------------
(***************************************************************************)
(* The timers.  The monitor thread arms one for every enabled backend that *)
(* is out of quota; 600 s later it probes the backend, if it still is.  A  *)
(* probe gives up after 10 or 300 s unless the settings allow it more, so  *)
(* none is under way when the timer fires.                                 *)
(***************************************************************************)
ProbeLabels == {"probe", "pass", "passed", "refuse", "fault", "finish"}

Probing(b) ==
    \E t \in Thread :
        on[t] = b /\ pc[t] \in {"enabled", "begin", "open"} \cup ProbeLabels

\* MUTANT of ArmTimer: only what the server's table shows is looked at
ArmTimerOfShown(b) ==
    /\ b \notin armed
    /\ enabled[b] /\ shown[b].status = "exhausted"
    /\ armed' = armed \cup {b}
    /\ UNCHANGED <<backendVars, shown, threadVars, ops>>

ArmTimer(b) ==
    /\ b \notin armed
    /\ enabled[b] /\ OutOfQuota(b)
    /\ armed' = armed \cup {b}
    /\ UNCHANGED <<backendVars, shown, threadVars, ops>>

TimerFires(t, b) ==
    /\ b \in armed
    /\ ~Probing(b)
    /\ armed' = armed \ {b}
    /\ \/ OutOfQuota(b) /\ Begin(t, b, "enabled")
       \/ ~OutOfQuota(b) /\ UNCHANGED threadVars
    /\ UNCHANGED <<backendVars, shown, ops>>

\* What a thread that has begun something does next
Continue(t) ==
    \/ WriteRouter(t) \/ WriteShown(t)
    \/ BeginProbe(t) \/ OpenProbe(t) \/ ProbeAnswers(t) \/ ProbeResetsQuota(t) \/ ProbeSucceeds(t)
    \/ ProbeRefused(t) \/ ProbeFails(t) \/ FinishProbe(t)
    \/ RecordExpired(t) \/ ProbeEnabled(t) \/ ResetRouter(t) \/ ResetShown(t)
    \/ CallSucceeds(t) \/ CallFails(t) \/ CallRefused(t) \/ CallMarksStatus(t)

BeginOn(t, b) ==
    \/ ReadExpired(t, b) \/ ReadRecovered(t, b)
    \/ ProbeNow(t, b) \/ Disable(t, b) \/ Enable(t, b) \/ PassVisits(t, b)
    \/ StartCall(t, b)

Next ==
    \/ \E t \in Thread : Continue(t) \/ Reset(t)
    \/ \E t \in Thread, b \in Backend : BeginOn(t, b) \/ TimerFires(t, b)
    \/ \E b \in Backend : ArmTimer(b)

Spec == Init /\ [][Next]_vars

\* The threads are scheduled, every client call has a time-out, the monitor
\* thread scans for ever and the timers of the runtime fire.
Fairness ==
    /\ \A t \in Thread : WF_vars(Continue(t))
    /\ \A b \in Backend : WF_vars(ArmTimer(b))
    /\ \A b \in Backend : SF_vars(\E t \in Thread : TimerFires(t, b))

FairSpec == Spec /\ Fairness

-----------------------------------------------------------------------------
HealthTypeOK ==
    /\ enabled \in [Backend -> BOOLEAN]
    /\ status \in [Backend -> Status]
    /\ failures \in [Backend -> Nat]
    /\ exhausted \in SUBSET Account
    /\ shown \in [Backend -> [status : Status, probe : Thread \cup {NoThread}]]
    /\ armed \in SUBSET Backend
    /\ pc \in [Thread -> {"idle", "write", "show", "begin", "open", "expired", "enabled",
                          "reset", "resetshown", "call", "marked"} \cup ProbeLabels]
    /\ on \in [Thread -> Backend \cup {NoBackend}]
    /\ found \in [Thread -> Status]
    /\ keys \in [Thread -> SUBSET Backend]
    /\ ops \in 0..MaxOps

\* A backend shown as probing is being probed: the thread that owns the
\* probe_id is still at work on this backend and will write its verdict, so
\* that no interleaving of probes, resets, time-outs and switches leaves a
\* "probing" that nobody will end.
ProbeHasOwner ==
    \A b \in Backend :
        shown[b].status = "probing" =>
            LET t == shown[b].probe IN
            /\ t \in Thread
            /\ on[t] = b
            /\ pc[t] \in ProbeLabels \cup {"write", "show"}

\* /runtime does not show a backend that has its account to itself as probing
\* for ever, although a verdict may be dropped because another thread has
\* written the server's table meanwhile: as long as the account is out of quota
\* the timer probes again, and only a reset or a probe of this backend, which
\* both write its status, can end that.
Alone == {b \in Backend : \A d \in Backend \ {b} : QuotaAccountOf[d] # QuotaAccountOf[b]}


\* An enabled backend whose account is out of quota is probed again, unless it
\* is given its quota back or disabled first.
ExhaustedIsProbed ==
    \A b \in Backend :
        enabled[b] /\ OutOfQuota(b) ~> Probing(b) \/ ~OutOfQuota(b) \/ ~enabled[b]

-----------------------------------------------------------------------------
(***************************************************************************)
(* What the design documents say of every backend.                         *)
(***************************************************************************)

\* No backend stays probing for ever (62_llm_tier_subsystem.md: the state after
\* a probe is running, exhausted or unreachable, and probing must not last).
\* Where two share an account, the verdict "exhausted" of one may be dropped, and
\* a probe of the other then gives the account its quota back: no timer is left
\* for the first, whose status in the router is still "probing".
NoProbingForEver ==
    \A b \in Backend : RuntimeState(b) = "probing" ~> RuntimeState(b) # "probing"
=============================================================================
