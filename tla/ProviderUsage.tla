--------------------------- MODULE ProviderUsage ---------------------------
(***************************************************************************)
(* ProviderUsageManager of src/provider_usage.py with the probes of the    *)
(* server that drive it: a refresh asks the provider without a lock, puts  *)
(* the answer into the cache under the time at which it began, and moves   *)
(* the quota mark of the account.  The provider is external.               *)
(***************************************************************************)
EXTENDS QuotaStore

CONSTANTS
    Metered,    \* keys of accounts with a provider that reports usage
    Unlimited,  \* keys whose quota is declared unlimited
    Window,     \* windows of a quota: "5hour", "weekly"
    Ttl         \* cache_ttl_seconds, in ticks

ASSUME UsageAssumption ==
    /\ Metered \subseteq Key /\ Unlimited \subseteq Key
    /\ Ttl \in Nat \ {0}

VARIABLES
    spent,      \* windows that the account has used up, as the provider knows
    cache,      \* the snapshots and the times they are kept under
    asked,      \* when a refresh began
    answer,     \* what the provider said, and when
    pass        \* the exhausted key that a probe pass is at

usageVars == <<spent, cache, asked, answer, pass>>
vars == <<quotaVars, usageVars>>

NoAnswer == [status |-> "none", spent |-> {}, seen |-> 0]
NoEntry == [at |-> 0, snapshot |-> NoAnswer]

Init ==
    /\ QuotaInit
    /\ spent = [k \in Key |-> {}]
    /\ cache = [k \in Key |-> NoEntry]
    /\ asked = [t \in Thread |-> 0]
    /\ answer = [t \in Thread |-> NoAnswer]
    /\ pass = [t \in Thread |-> {}]

-----------------------------------------------------------------------------
(* The provider.                                                           *)

Spend(k, w) ==
    /\ k \in Metered
    /\ spent' = [spent EXCEPT ![k] = @ \cup {w}]
    /\ UNCHANGED <<quotaVars, cache, asked, answer, pass>>

Renew(k, w) ==
    /\ w \in spent[k]
    /\ spent' = [spent EXCEPT ![k] = @ \ {w}]
    /\ UNCHANGED <<quotaVars, cache, asked, answer, pass>>

-----------------------------------------------------------------------------
(* usage_for_model(force_refresh = True), and what the server does with it *)

Ask(t, k) ==
    /\ Begin(t, "ask", {k})
    /\ asked' = [asked EXCEPT ![t] = clock]
    /\ UNCHANGED <<spent, answer>>

\* after a probe, whatever came of it
Refresh(t, k) == Ask(t, k) /\ UNCHANGED <<cache, pass>>

\* _reload_provider_usage(): the cookies and keys are read anew
ClearAndRefresh(t, k) ==
    /\ Ask(t, k)
    /\ cache' = [a \in Key |-> NoEntry]
    /\ UNCHANGED pass

\* the probe pass comes to a backend that is out of quota
PassVisits(t, k) ==
    /\ k \in exhausted
    /\ Ask(t, k)
    /\ pass' = [pass EXCEPT ![t] = {k}]
    /\ UNCHANGED cache

\* the windows that an answer does not show as open
Snapshot(status, windows) == [status |-> status, spent |-> windows, seen |-> clock]

\* a used part of each window
Windows(k) == Snapshot("ok", spent[k])

\* tokens used, of a quota that is not told
Consumed == Snapshot("ok", Window)

\* without credentials, with an error or an answer of another shape: a reset
\* time derived from the config
Derived == Snapshot("unavailable", {})

\* the loaders, whichever provider the account has
Reported(k) == {Windows(k), Consumed, Derived}

Load(k) ==
    IF k \in Unlimited THEN {Snapshot("unlimited", {})}
    ELSE IF k \in Metered THEN Reported(k)
    ELSE {Snapshot("unsupported", {})}

Answered(t) ==
    /\ step[t] = "ask"
    /\ \E k \in target[t] : \E a \in Load(k) : answer' = [answer EXCEPT ![t] = a]
    /\ Goto(t, "keep")
    /\ UNCHANGED <<memory, disk, target, count, data, excuse, spent, cache, asked, pass>>

\* an answer that cannot be converted: the probe sees it as unavailable, the
\* cache does not
LoadRaises(t) ==
    /\ step[t] = "ask"
    /\ target[t] \subseteq Metered \ Unlimited
    /\ answer' = [answer EXCEPT ![t] = Snapshot("unavailable", {})]
    /\ Goto(t, "judge")
    /\ UNCHANGED <<memory, disk, target, count, data, excuse, spent, cache, asked, pass>>

\* MUTANT of Keep: the answer is kept under the time at which it is stored
KeepNow(t) ==
    /\ step[t] = "keep"
    /\ cache' = [k \in Key |-> IF k \in target[t] THEN [at |-> clock, snapshot |-> answer[t]]
                               ELSE cache[k]]
    /\ Goto(t, "judge")
    /\ UNCHANGED <<memory, disk, target, count, data, excuse, spent, asked, answer, pass>>

Keep(t) ==
    /\ step[t] = "keep"
    /\ cache' = [k \in Key |-> IF k \in target[t] THEN [at |-> asked[t], snapshot |-> answer[t]]
                               ELSE cache[k]]
    /\ Goto(t, "judge")
    /\ UNCHANGED <<memory, disk, target, count, data, excuse, spent, asked, answer, pass>>

\* a reset time, reported or derived, goes to the mark of the account
Judge(t) ==
    /\ step[t] = "judge"
    /\ \/ /\ target[t] \subseteq exhausted
          /\ answer[t].status \in {"ok", "unavailable"}
          /\ Goto(t, "list")
          /\ excuse' = (Saving # {})
          /\ UNCHANGED <<target, count, data>>
       \/ End(t) /\ UNCHANGED excuse
    /\ asked' = [asked EXCEPT ![t] = 0]
    /\ answer' = IF pass[t] = {} THEN [answer EXCEPT ![t] = NoAnswer] ELSE answer
    /\ UNCHANGED <<memory, disk, spent, cache, pass>>

\* one open window is enough
HasCapacity(a) ==
    \/ a.status = "unlimited"
    \/ a.status = "ok" /\ a.spent # Window

PassGoesOn(t) ==
    /\ pass' = [pass EXCEPT ![t] = {}]
    /\ answer' = [answer EXCEPT ![t] = NoAnswer]
    /\ UNCHANGED <<spent, cache, asked>>

\* the mark goes before the backend is probed; without capacity it stays
PassClears(t) ==
    /\ pass[t] # {} /\ HasCapacity(answer[t])
    /\ Begin(t, "clear", pass[t])
    /\ PassGoesOn(t)

PassLeaves(t) ==
    /\ pass[t] # {} /\ ~HasCapacity(answer[t])
    /\ step[t] = "idle"
    /\ PassGoesOn(t)
    /\ UNCHANGED quotaVars

RestartAll ==
    /\ Restart
    /\ cache' = [k \in Key |-> NoEntry]
    /\ asked' = [t \in Thread |-> 0]
    /\ answer' = [t \in Thread |-> NoAnswer]
    /\ pass' = [t \in Thread |-> {}]
    /\ UNCHANGED spent

UsageStep(t) ==
    \/ Answered(t) \/ LoadRaises(t) \/ Keep(t) \/ Judge(t) \/ PassClears(t) \/ PassLeaves(t)
    \/ pass[t] = {} /\ \E k \in Metered \cup Unlimited :
                          Refresh(t, k) \/ ClearAndRefresh(t, k) \/ PassVisits(t, k)

Next ==
    \/ \E t \in Thread : UsageStep(t)
    \/ \E t \in Thread :
         /\ QuotaStep(t) \/ (pass[t] = {} /\ QuotaBegin(t))
         /\ UNCHANGED usageVars
    \/ \E k \in Key, w \in Window : Spend(k, w) \/ Renew(k, w)
    \/ Tick /\ UNCHANGED usageVars
    \/ RestartAll

Spec == Init /\ [][Next]_vars

-----------------------------------------------------------------------------
\* usage_for_model() without force
Served(k) == cache[k].at > 0 /\ clock - cache[k].at < Ttl

\* What a reader of the cache is given was reported less than the cache time
\* ago, however long the refresh took, and whichever of two refreshes of the
\* account was stored last.  (usage_for_model)
UsageIsFresh == \A k \in Key : Served(k) => clock - cache[k].snapshot.seen < Ttl
=============================================================================
