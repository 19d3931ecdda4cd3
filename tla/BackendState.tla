---------------------------- MODULE BackendState ----------------------------
(***************************************************************************)
(* What LLMRouter (src/router_core.py) and its QuotaManager remember of    *)
(* every backend of a tier, and the methods that change it.  Each operator *)
(* is one method, which runs under _state_lock; the threads that call them *)
(* are in Dispatch (calls) and in BackendHealth (probes).  Error texts and *)
(* time stamps are left out.                                               *)
(***************************************************************************)
EXTENDS Integers

CONSTANTS
    Backend,           \* backend identities tier:account:model
    Account,           \* the keys of llm_accounts
    QuotaAccountOf,    \* the account find_backend_model() resolves a backend to
    InitEnabled,       \* the backends the settings file enables
    FailureThreshold   \* _failure_threshold, from the breaker settings

ASSUME BackendStateAssumption ==
    /\ QuotaAccountOf \in [Backend -> Account]
    /\ InitEnabled \subseteq Backend
    /\ FailureThreshold \in Nat \ {0}

VARIABLES
    enabled,      \* _admin_state_by_backend
    status,       \* _runtime_status_by_backend, "running" when absent
    failures,     \* _failure_count_by_backend, 0 when absent
    exhausted     \* QuotaManager._exhausted, a set of accounts

backendVars == <<enabled, status, failures, exhausted>>

Status == {"running", "probing", "exhausted", "unreachable", "disabled"}

OutOfQuota(b) == QuotaAccountOf[b] \in exhausted

\* The state the server gives a new router (_load_runtime_config_state): the
\* quota marks come from quota_state.json, and a backend that may be used is
\* at first "unreachable", untested, until the start-up probe sets "probing".
InitBackends(untested) ==
    /\ enabled = [b \in Backend |-> b \in InitEnabled]
    /\ exhausted \in SUBSET Account
    /\ status = [b \in Backend |-> IF ~enabled[b] THEN "disabled"
                                   ELSE IF OutOfQuota(b) THEN "exhausted"
                                   ELSE untested]
    /\ failures = [b \in Backend |-> 0]

-----------------------------------------------------------------------------
\* backend_runtime_status(): an "exhausted" whose quota mark is gone reads as
\* "running", and the reader repairs the table (RepairStatus)
ReadStatus(b) ==
    IF status[b] = "exhausted" /\ ~OutOfQuota(b) THEN "running" ELSE status[b]

RepairStatus(S) ==
    status' = [b \in Backend |-> IF b \in S THEN ReadStatus(b) ELSE status[b]]

Routable(b) == enabled[b] /\ ReadStatus(b) = "running" /\ ~OutOfQuota(b)

SetEnabled(b, on) ==
    /\ enabled' = [enabled EXCEPT ![b] = on]
    /\ failures' = IF on THEN [failures EXCEPT ![b] = 0] ELSE failures

SetStatus(b, s) == status' = [status EXCEPT ![b] = s]

MarkExhausted(b) == exhausted' = exhausted \cup {QuotaAccountOf[b]}

ResetQuota(b) == exhausted' = exhausted \ {QuotaAccountOf[b]}

RecordSuccess(b) ==
    /\ failures' = [failures EXCEPT ![b] = 0]
    /\ status' = [status EXCEPT ![b] = "running"]

\* A failure below the threshold writes "running" unless a probe met it
RecordUnhealthy(b, source) ==
    /\ failures' = [failures EXCEPT ![b] = @ + 1]
    /\ status' = [status EXCEPT ![b] =
           IF failures[b] + 1 >= FailureThreshold \/ source = "probe"
             THEN "unreachable" ELSE "running"]

\* reset_runtime_statuses(): what the operator disabled stays as it is
ResetRuntime ==
    /\ status' = [b \in Backend |-> IF enabled[b] THEN "running" ELSE status[b]]
    /\ failures' = [b \in Backend |-> IF enabled[b] THEN 0 ELSE failures[b]]
=============================================================================
