-------------------------------- MODULE Reload --------------------------------
(***************************************************************************)
(* The configuration in memory (src/tier_config.py), its file, and the     *)
(* router that a reload builds anew while calls run on the one before it   *)
(* (_load_runtime_config of src/server.py).  Handlers change the object    *)
(* they found, which a reload may have replaced meanwhile; a call keeps    *)
(* the router it began with.  The server may be killed and started again   *)
(* between any two steps, and the operator may write the file by hand.     *)
(* Probes, resets and marks are in BackendHealth: here they only judge a   *)
(* backend.  Left out: weights, the status that the pages show, and        *)
(* renamed models; a rename that gives two backends of a tier one name     *)
(* makes the server save a file that it will refuse, which is for the file *)
(* what WriteByHand(Refused) is.                                           *)
(***************************************************************************)
EXTENDS Integers, Sequences, FiniteSets

CONSTANTS
    Backend,
    Account,
    AccountOf,
    TierOf,
    Thread,     \* of HTTP handlers
    Caller,     \* of job threads
    Settings,   \* the file at first
    Edits,      \* the files an operator may write
    Limits,     \* max_concurrent_requests an operator may set
    MaxReloads, \* bound: reloads between two starts of the server
    MaxOps      \* bound: requests of operators

ASSUME ReloadAssumption ==
    /\ IsFiniteSet(Caller)
    /\ Account # {}
    /\ AccountOf \in [Backend -> Account]
    /\ {Settings} \cup Edits \subseteq
          [enabled : SUBSET Backend, limit : [Account -> Nat \ {0}], accepted : {TRUE}]
    /\ Limits \subseteq Nat \ {0}
    /\ MaxReloads \in Nat /\ MaxOps \in Nat

VARIABLES
    file,       \* settings.json
    spoiled,    \* ghost: somebody wrote one that the server refuses
    configs,    \* the objects _config of TierConfig, the last in force
    routers,    \* all LLMRouters built
    router,     \* which of them is self._router
    step,       \* where a request is
    request,    \* what it is about
    held,       \* the object or router it has in hand
    enabled,    \* the switches it has read
    todo,       \* the backends whose tier it has not come to
    models,     \* those of the tier it is at, not yet loaded
    draft,      \* the file it is about to put in place
    call,       \* the router of a call, 0 for none
    slot,       \* the backend whose slot it holds, in a set
    ops

store == <<file, spoiled, configs>>
tables == <<routers, router>>
hands == <<held, enabled, todo, models, draft>>
calls == <<call, slot>>
vars == <<store, tables, step, request, hands, calls, ops>>

\* What is no JSON, or no configuration for _valid_tier_config(); and the
\* configuration {} of a server that found such a file.
Refused == [enabled |-> {}, limit |-> [a \in Account |-> 1], accepted |-> FALSE]

None == [kind |-> "none"]

Config == configs[Len(configs)]

\* LLMRouter(): the switches and limits of the configuration in force, no
\* status yet, which counts as running
NewRouter(c) == [on     |-> c.enabled,
                 status |-> [b \in Backend |-> "unset"],
                 limit  |-> c.limit,
                 load   |-> [a \in Account |-> 0]]

\* TierServer(): nothing is routable before its first probe
FirstRouter(c) == [NewRouter(c) EXCEPT !.status = [b \in Backend |-> "out"]]

Init ==
    /\ file = Settings
    /\ spoiled = FALSE
    /\ configs = <<Settings>>
    /\ routers = <<FirstRouter(Settings)>>
    /\ router = 1
    /\ step = [t \in Thread |-> "idle"]
    /\ request = [t \in Thread |-> None]
    /\ held = [t \in Thread |-> 0]
    /\ enabled = [t \in Thread |-> {}]
    /\ todo = [t \in Thread |-> {}]
    /\ models = [t \in Thread |-> {}]
    /\ draft = [t \in Thread |-> Refused]
    /\ call = [c \in Caller |-> 0]
    /\ slot = [c \in Caller |-> {}]
    /\ ops = 0

-----------------------------------------------------------------------------
Begin(t, s, what) ==
    /\ step[t] = "idle"
    /\ ops < MaxOps
    /\ ops' = ops + 1
    /\ step' = [step EXCEPT ![t] = s]
    /\ request' = [request EXCEPT ![t] = what]
    /\ UNCHANGED <<store, tables, enabled, todo, models, draft, calls>>

Goto(t, s) == step' = [step EXCEPT ![t] = s] /\ UNCHANGED <<request, calls, ops>>

Return(t) ==
    /\ step' = [step EXCEPT ![t] = "idle"]
    /\ request' = [request EXCEPT ![t] = None]
    /\ held' = [held EXCEPT ![t] = 0]
    /\ enabled' = [enabled EXCEPT ![t] = {}]
    /\ todo' = [todo EXCEPT ![t] = {}]
    /\ models' = [models EXCEPT ![t] = {}]
    /\ draft' = [draft EXCEPT ![t] = Refused]
    /\ UNCHANGED <<calls, ops>>

-----------------------------------------------------------------------------
(* Operators change the configuration, then the router in force.           *)

\* the object is looked up before it is changed; {} has no backend to change
Find(t, s, what) ==
    /\ Config.accepted
    /\ Begin(t, s, what)
    /\ held' = [held EXCEPT ![t] = Len(configs)]

Switch(t, b, on) == Find(t, "switch", [kind |-> "switch", backend |-> b, on |-> on])
SetLimit(t, a, n) == Find(t, "limit", [kind |-> "limit", account |-> a, limit |-> n])

WriteSwitch(t) ==
    /\ step[t] = "switch"
    /\ LET b == request[t].backend
           old == configs[held[t]].enabled
       IN configs' = [configs EXCEPT ![held[t]].enabled =
                          IF request[t].on THEN old \cup {b} ELSE old \ {b}]
    /\ Goto(t, "tell")
    /\ UNCHANGED <<file, spoiled, tables, hands>>

TellSwitch(t) ==
    /\ step[t] = "tell"
    /\ LET b == request[t].backend
           old == routers[router].on
       IN routers' = [routers EXCEPT ![router].on =
                          IF request[t].on THEN old \cup {b} ELSE old \ {b}]
    /\ Goto(t, "judge")
    /\ UNCHANGED <<store, router, hands>>

\* "disabled" or "probing", be it of a router that took the place of the one
\* that was told
JudgeSwitch(t) ==
    /\ step[t] = "judge"
    /\ routers' = [routers EXCEPT ![router].status[request[t].backend] = "out"]
    /\ Return(t)
    /\ UNCHANGED <<store, router>>

\* an enabled backend whose credentials have expired, or that a reload has
\* disabled, is not probed
JudgesNothing(t) ==
    /\ step[t] = "judge"
    /\ request[t].on
    /\ Return(t)
    /\ UNCHANGED <<store, tables>>

WriteLimit(t) ==
    /\ step[t] = "limit"
    /\ configs' = [configs EXCEPT ![held[t]].limit[request[t].account] = request[t].limit]
    /\ Goto(t, "tellLimit")
    /\ UNCHANGED <<file, spoiled, tables, hands>>

TellLimit(t) ==
    /\ step[t] = "tellLimit"
    /\ routers' = [routers EXCEPT ![router].limit[request[t].account] = request[t].limit]
    /\ Return(t)
    /\ UNCHANGED <<store, router>>

-----------------------------------------------------------------------------
(* persist(): a temporary file takes the place of the old one.             *)

Save(t) == Begin(t, "dump", None) /\ UNCHANGED held

\* MUTANT of Dump: the file itself is opened for writing
DumpInPlace(t) ==
    /\ step[t] = "dump"
    /\ draft' = [draft EXCEPT ![t] = Config]
    /\ file' = Refused
    /\ Goto(t, "replace")
    /\ UNCHANGED <<spoiled, configs, tables, held, enabled, todo, models>>

Dump(t) ==
    /\ step[t] = "dump"
    /\ draft' = [draft EXCEPT ![t] = Config]
    /\ Goto(t, "replace")
    /\ UNCHANGED <<store, tables, held, enabled, todo, models>>

Replace(t) ==
    /\ step[t] = "replace"
    /\ file' = draft[t]
    /\ Return(t)
    /\ UNCHANGED <<spoiled, configs, tables>>

SaveFails(t) ==
    /\ step[t] \in {"dump", "replace"}
    /\ Return(t)
    /\ UNCHANGED <<store, tables>>

-----------------------------------------------------------------------------
(* _load_runtime_config(), reload_config()                                 *)

Reload(t) == Len(configs) <= MaxReloads /\ Begin(t, "read", None) /\ UNCHANGED held

ReadFile(t) ==
    /\ step[t] = "read"
    /\ Len(configs) <= MaxReloads
    /\ file.accepted
    /\ configs' = Append(configs, file)
    /\ Goto(t, "build")
    /\ UNCHANGED <<file, spoiled, tables, hands>>

ReloadFails(t) ==
    /\ step[t] = "read"
    /\ Return(t)
    /\ UNCHANGED <<store, tables>>

Build(t) ==
    /\ step[t] = "build"
    /\ routers' = Append(routers, NewRouter(Config))
    /\ held' = [held EXCEPT ![t] = Len(routers) + 1]
    /\ Goto(t, "publish")
    /\ UNCHANGED <<store, router, enabled, todo, models, draft>>

\* LLMRouter() raises: the old router stays with the new configuration
BuildFails(t) ==
    /\ step[t] = "build"
    /\ Return(t)
    /\ UNCHANGED <<store, tables>>

\* MUTANT of Publish: the new router's statuses are not loaded
PublishLast(t) ==
    /\ step[t] = "publish"
    /\ router' = held[t]
    /\ Return(t)
    /\ UNCHANGED <<store, routers>>

Publish(t) ==
    /\ step[t] = "publish"
    /\ router' = held[t]
    /\ todo' = [todo EXCEPT ![t] = Backend]
    /\ Goto(t, "list")
    /\ UNCHANGED <<store, routers, held, enabled, models, draft>>

\* _load_runtime_config_state(): the models are read again for every tier, from
\* the configuration that is then in force
ListModels(t) ==
    /\ step[t] = "list"
    /\ enabled' = [enabled EXCEPT ![t] = Config.enabled]
    /\ \E d \in todo[t] :
         LET tier == {b \in todo[t] : TierOf[b] = TierOf[d]}
         IN /\ models' = [models EXCEPT ![t] = tier]
            /\ todo' = [todo EXCEPT ![t] = @ \ tier]
    /\ Goto(t, "load")
    /\ UNCHANGED <<store, tables, held, draft>>

LoadSwitch(t, b) ==
    /\ step[t] = "load" /\ b \in models[t]
    /\ routers' = [routers EXCEPT ![router].on = IF b \in enabled[t] THEN @ \cup {b} ELSE @ \ {b}]
    /\ request' = [request EXCEPT ![t] = [kind |-> "load", backend |-> b]]
    /\ step' = [step EXCEPT ![t] = "loadStatus"]
    /\ UNCHANGED <<store, router, hands, calls, ops>>

\* "disabled", "exhausted" or "unreachable"; the probes come after the last
LoadStatus(t) ==
    /\ step[t] = "loadStatus"
    /\ LET b == request[t].backend
           left == models[t] \ {b}
       IN /\ routers' = [routers EXCEPT ![router].status[b] = "out"]
          /\ IF left \cup todo[t] = {}
               THEN Return(t)
               ELSE /\ step' = [step EXCEPT ![t] = IF left = {} THEN "list" ELSE "load"]
                    /\ request' = [request EXCEPT ![t] = None]
                    /\ models' = [models EXCEPT ![t] = left]
                    /\ UNCHANGED <<held, enabled, todo, draft, calls, ops>>
    /\ UNCHANGED <<store, router>>

-----------------------------------------------------------------------------
(* The rest of the server, and the operator.                               *)

\* probes, failures, resets and the end of a quota mark
Judged(b, verdict) ==
    /\ routers' = [routers EXCEPT ![router].status[b] = verdict]
    /\ UNCHANGED <<store, router, step, request, hands, calls, ops>>

Enter(c) ==
    /\ call[c] = 0
    /\ call' = [call EXCEPT ![c] = router]
    /\ UNCHANGED <<store, tables, step, request, hands, slot, ops>>

Routable(r, b) == b \in routers[r].on /\ routers[r].status[b] \in {"unset", "running"}

Acquire(c, b) ==
    LET r == call[c]
        a == AccountOf[b]
    IN /\ r # 0 /\ slot[c] = {}
       /\ Routable(r, b)
       /\ routers[r].load[a] < routers[r].limit[a]
       /\ routers' = [routers EXCEPT ![r].load[a] = @ + 1]
       /\ slot' = [slot EXCEPT ![c] = {b}]
       /\ UNCHANGED <<store, router, step, request, hands, call, ops>>

\* MUTANT of Release: the slot goes back to the router in force
ReleaseInForce(c) ==
    /\ slot[c] # {}
    /\ \E b \in slot[c] :
         routers' = [routers EXCEPT ![router].load[AccountOf[b]] = IF @ > 0 THEN @ - 1 ELSE 0]
    /\ slot' = [slot EXCEPT ![c] = {}]
    /\ UNCHANGED <<store, router, step, request, hands, call, ops>>

Release(c) ==
    /\ slot[c] # {}
    /\ \E b \in slot[c] :
         routers' = [routers EXCEPT ![call[c]].load[AccountOf[b]] = IF @ > 0 THEN @ - 1 ELSE 0]
    /\ slot' = [slot EXCEPT ![c] = {}]
    /\ UNCHANGED <<store, router, step, request, hands, call, ops>>

Leave(c) ==
    /\ call[c] # 0 /\ slot[c] = {}
    /\ call' = [call EXCEPT ![c] = 0]
    /\ UNCHANGED <<store, tables, step, request, hands, slot, ops>>

\* by hand, which the server knows of at its next reload or start
WriteByHand(f) ==
    /\ ops < MaxOps
    /\ ops' = ops + 1
    /\ file' = f
    /\ spoiled' = (spoiled \/ ~f.accepted)
    /\ UNCHANGED <<configs, tables, step, request, hands, calls>>

\* a file that is refused gives a server without backends
Restart ==
    LET c == IF file.accepted THEN file ELSE Refused
    IN /\ configs' = <<c>>
       /\ routers' = <<FirstRouter(c)>>
    /\ router' = 1
    /\ step' = [t \in Thread |-> "idle"]
    /\ request' = [t \in Thread |-> None]
    /\ held' = [t \in Thread |-> 0]
    /\ enabled' = [t \in Thread |-> {}]
    /\ todo' = [t \in Thread |-> {}]
    /\ models' = [t \in Thread |-> {}]
    /\ draft' = [t \in Thread |-> Refused]
    /\ call' = [c2 \in Caller |-> 0]
    /\ slot' = [c2 \in Caller |-> {}]
    /\ UNCHANGED <<file, spoiled, ops>>

Request(t) ==
    \/ \E b \in Backend, on \in BOOLEAN : Switch(t, b, on)
    \/ \E a \in Account, n \in Limits : SetLimit(t, a, n)
    \/ Save(t) \/ Reload(t)

HandlerStep(t) ==
    \/ WriteSwitch(t) \/ TellSwitch(t) \/ JudgeSwitch(t) \/ JudgesNothing(t)
    \/ WriteLimit(t) \/ TellLimit(t)
    \/ Dump(t) \/ Replace(t) \/ SaveFails(t)
    \/ ReadFile(t) \/ ReloadFails(t) \/ Build(t) \/ BuildFails(t)
    \/ Publish(t) \/ ListModels(t)
    \/ (\E b \in Backend : LoadSwitch(t, b)) \/ LoadStatus(t)

CallStep(c) ==
    \/ Enter(c) \/ (\E b \in Backend : Acquire(c, b)) \/ Release(c) \/ Leave(c)

Next ==
    \/ \E t \in Thread : Request(t) \/ HandlerStep(t)
    \/ \E c \in Caller : CallStep(c)
    \/ \E b \in Backend : Judged(b, "running") \/ Judged(b, "out")
    \/ \E f \in Edits \cup {Refused} : WriteByHand(f)
    \/ Restart

Spec == Init /\ [][Next]_vars
-----------------------------------------------------------------------------
Reloading(t) == step[t] \in {"read", "build", "publish", "list", "load", "loadStatus"}

\* Once no reload is under way, no backend of the router in force is routable
\* only because nobody has judged it: whatever reloads and switches overlapped,
\* it was found running, or it waits for its probe.
\* (_load_runtime_config, _load_runtime_config_state)
AllJudged ==
    (\A t \in Thread : ~Reloading(t)) =>
        \A b \in Backend : routers[router].status[b] # "unset"

\* A slot goes back to the router it was taken from: each router's counters are
\* the calls that hold its slots, those of the old routers too until the last is
\* over.  The new router does not know of these: an account may carry its limit
\* once for each router that still has calls.
\* (reload_config; acquire and release of BackendConcurrencyManager)
SlotsStayWithTheirRouter ==
    \A r \in 1..Len(routers), a \in Account :
        routers[r].load[a] =
            Cardinality({c \in Caller : call[c] = r /\ \E b \in slot[c] : AccountOf[b] = a})

\* Whenever the server is killed, in the middle of a save or of two at once, the
\* next one finds a configuration it accepts, unless somebody wrote one that it
\* does not.  (persist, TierConfig.__init__, _valid_tier_config)
RestartsConfigured == file.accepted \/ spoiled
=============================================================================
