---------------------------- MODULE ReloadProofs ----------------------------
(***************************************************************************)
(* Reloads, for every number of threads, callers, backends and accounts:   *)
(* the file is an accepted configuration at every moment, unless somebody  *)
(* spoiled it, a slot stays with the router it was taken from, and no      *)
(* backend of the router in force stays unjudged.                          *)
(***************************************************************************)
EXTENDS Reload, FiniteSetTheorems, SequenceTheorems, TLAPS

Configuration ==
    [enabled : SUBSET Backend, limit : [Account -> Nat \ {0}], accepted : BOOLEAN]

RouterState == [on     : SUBSET Backend,
                status : [Backend -> {"unset", "running", "out"}],
                limit  : [Account -> Nat \ {0}],
                load   : [Account -> Nat]]

SwitchRequest == [kind : {"switch"}, backend : Backend, on : BOOLEAN]
LimitRequest == [kind : {"limit"}, account : Account, limit : Limits]
LoadRequest == [kind : {"load"}, backend : Backend]

TypeOK ==
    /\ file \in Configuration /\ spoiled \in BOOLEAN
    /\ configs \in Seq(Configuration) /\ Len(configs) # 0
    /\ routers \in Seq(RouterState)
    /\ router \in 1..Len(routers)
    /\ step \in [Thread -> {"idle", "switch", "tell", "judge", "limit", "tellLimit", "dump", "replace",
                            "read", "build", "publish", "list", "load", "loadStatus"}]
    /\ request \in [Thread -> SwitchRequest \cup LimitRequest \cup LoadRequest \cup {None}]
    /\ held \in [Thread -> Nat]
    /\ enabled \in [Thread -> SUBSET Backend]
    /\ todo \in [Thread -> SUBSET Backend]
    /\ models \in [Thread -> SUBSET Backend]
    /\ draft \in [Thread -> Configuration]
    /\ call \in [Caller -> Nat]
    /\ slot \in [Caller -> SUBSET Backend]

\* What a request has in hand is there.
InHand(t) ==
    /\ step[t] \in {"switch", "tell", "judge"} => request[t] \in SwitchRequest
    /\ step[t] \in {"limit", "tellLimit"} => request[t] \in LimitRequest
    /\ step[t] \in {"switch", "limit"} => held[t] \in 1..Len(configs)
    /\ step[t] \notin {"load", "loadStatus"} => models[t] = {}
    /\ step[t] = "publish" => held[t] \in 1..Len(routers)
    /\ step[t] = "loadStatus" => request[t] \in LoadRequest /\ request[t].backend \in models[t]

Hands == \A t \in Thread : InHand(t)

\* A slot is one of a router that the caller is in.
Slots ==
    \A c \in Caller :
        /\ call[c] \in 0..Len(routers)
        /\ slot[c] = {} \/ (call[c] # 0 /\ \E b \in Backend : slot[c] = {b})

\* The request that will judge b.
WillJudge(t, b) ==
    /\ step[t] \in {"list", "load", "loadStatus"}
    /\ b \in todo[t] \cup models[t]

Covered ==
    \A b \in Backend :
        routers[router].status[b] = "unset" => \E t \in Thread : WillJudge(t, b)

Inv == TypeOK /\ Hands /\ Slots /\ SlotsStayWithTheirRouter /\ Covered

-----------------------------------------------------------------------------
LEMMA Assumed ==
    /\ IsFiniteSet(Caller) /\ Account # {}
    /\ AccountOf \in [Backend -> Account]
    /\ Settings \in Configuration /\ Settings.accepted
    /\ Edits \subseteq Configuration
    /\ Limits \subseteq Nat \ {0}
    /\ Refused \in Configuration
  <1>1. {Settings} \cup Edits \subseteq
          [enabled : SUBSET Backend, limit : [Account -> Nat \ {0}], accepted : {TRUE}]
    BY ReloadAssumption DEF ReloadAssumption
  <1>2. Settings \in Configuration /\ Settings.accepted /\ Edits \subseteq Configuration
    BY <1>1 DEF Configuration
  <1>3. Refused \in Configuration  BY DEF Refused, Configuration
  <1> QED BY <1>2, <1>3, ReloadAssumption DEF ReloadAssumption

\* A router whose switches, limit, status or load are set.
WithOn(R, r, S) == [R EXCEPT ![r].on = S]
WithLimit(R, r, a, m) == [R EXCEPT ![r].limit[a] = m]
WithStatus(R, r, b, v) == [R EXCEPT ![r].status[b] = v]
WithLoad(R, r, a, k) == [R EXCEPT ![r].load[a] = k]

LEMMA SetOn ==
  ASSUME NEW R \in Seq(RouterState), NEW r \in 1..Len(R), NEW S \in SUBSET Backend
  PROVE  /\ WithOn(R, r, S) \in Seq(RouterState) /\ Len(WithOn(R, r, S)) = Len(R)
         /\ \A i \in 1..Len(R) : /\ WithOn(R, r, S)[i].load = R[i].load
                                 /\ WithOn(R, r, S)[i].status = R[i].status
  <1>0. R[r] \in RouterState  BY ElementOfSeq
  <1>1. PICK n \in RouterState : n = [R[r] EXCEPT !.on = S]
    BY <1>0 DEF RouterState
  <1>2. WithOn(R, r, S) = [R EXCEPT ![r] = n]  BY <1>1 DEF WithOn
  <1>3. n.load = R[r].load /\ n.status = R[r].status  BY <1>0, <1>1 DEF RouterState
  <1> QED BY <1>2, <1>3, ExceptSeq

LEMMA SetRouterLimit ==
  ASSUME NEW R \in Seq(RouterState), NEW r \in 1..Len(R), NEW a \in Account, NEW m \in Nat \ {0}
  PROVE  /\ WithLimit(R, r, a, m) \in Seq(RouterState) /\ Len(WithLimit(R, r, a, m)) = Len(R)
         /\ \A i \in 1..Len(R) : /\ WithLimit(R, r, a, m)[i].load = R[i].load
                                 /\ WithLimit(R, r, a, m)[i].status = R[i].status
  <1>0. R[r] \in RouterState  BY ElementOfSeq
  <1>1. PICK n \in RouterState : n = [R[r] EXCEPT !.limit[a] = m]
    BY <1>0 DEF RouterState
  <1>2. WithLimit(R, r, a, m) = [R EXCEPT ![r] = n]  BY <1>1 DEF WithLimit
  <1>3. n.load = R[r].load /\ n.status = R[r].status  BY <1>0, <1>1 DEF RouterState
  <1> QED BY <1>2, <1>3, ExceptSeq

LEMMA SetStatus ==
  ASSUME NEW R \in Seq(RouterState), NEW r \in 1..Len(R), NEW b \in Backend,
         NEW v \in {"running", "out"}
  PROVE  /\ WithStatus(R, r, b, v) \in Seq(RouterState) /\ Len(WithStatus(R, r, b, v)) = Len(R)
         /\ \A i \in 1..Len(R) : WithStatus(R, r, b, v)[i].load = R[i].load
         /\ WithStatus(R, r, b, v)[r].status[b] # "unset"
         /\ \A d \in Backend :
              WithStatus(R, r, b, v)[r].status[d] = "unset" => R[r].status[d] = "unset"
  <1>0. R[r] \in RouterState  BY ElementOfSeq
  <1>1. PICK n \in RouterState : n = [R[r] EXCEPT !.status[b] = v]
    BY <1>0 DEF RouterState
  <1>2. WithStatus(R, r, b, v) = [R EXCEPT ![r] = n]  BY <1>1 DEF WithStatus
  <1>3. n.load = R[r].load /\ n.status = [R[r].status EXCEPT ![b] = v]
    BY <1>0, <1>1 DEF RouterState
  <1>4. n.status[b] = v /\ \A d \in Backend : n.status[d] = "unset" => R[r].status[d] = "unset"
    BY <1>0, <1>3 DEF RouterState
  <1>5. /\ WithStatus(R, r, b, v) \in Seq(RouterState) /\ Len(WithStatus(R, r, b, v)) = Len(R)
        /\ \A i \in 1..Len(R) : WithStatus(R, r, b, v)[i] = IF i = r THEN n ELSE R[i]
    BY <1>2, ExceptSeq
  <1>6. WithStatus(R, r, b, v)[r] = n  BY <1>5
  <1>7. \A i \in 1..Len(R) : WithStatus(R, r, b, v)[i].load = R[i].load  BY <1>3, <1>5
  <1> QED BY <1>4, <1>5, <1>6, <1>7

LEMMA SetLoad ==
  ASSUME NEW R \in Seq(RouterState), NEW r \in 1..Len(R), NEW a \in Account, NEW k \in Nat
  PROVE  /\ WithLoad(R, r, a, k) \in Seq(RouterState) /\ Len(WithLoad(R, r, a, k)) = Len(R)
         /\ \A i \in 1..Len(R) : WithLoad(R, r, a, k)[i].status = R[i].status
         /\ WithLoad(R, r, a, k)[r].load[a] = k
         /\ \A i \in 1..Len(R), d \in Account :
              i # r \/ d # a => WithLoad(R, r, a, k)[i].load[d] = R[i].load[d]
  <1>0. R[r] \in RouterState  BY ElementOfSeq
  <1>1. PICK n \in RouterState : n = [R[r] EXCEPT !.load[a] = k]
    BY <1>0 DEF RouterState
  <1>2. WithLoad(R, r, a, k) = [R EXCEPT ![r] = n]  BY <1>1 DEF WithLoad
  <1>3. n.status = R[r].status /\ n.load = [R[r].load EXCEPT ![a] = k]
    BY <1>0, <1>1 DEF RouterState
  <1>4. n.load[a] = k /\ \A d \in Account : d # a => n.load[d] = R[r].load[d]
    BY <1>0, <1>3 DEF RouterState
  <1>5. /\ WithLoad(R, r, a, k) \in Seq(RouterState) /\ Len(WithLoad(R, r, a, k)) = Len(R)
        /\ \A i \in 1..Len(R) : WithLoad(R, r, a, k)[i] = IF i = r THEN n ELSE R[i]
    BY <1>2, ExceptSeq
  <1>6. WithLoad(R, r, a, k)[r] = n  BY <1>5
  <1>7. \A i \in 1..Len(R) : WithLoad(R, r, a, k)[i].status = R[i].status  BY <1>3, <1>5
  <1>8. \A i \in 1..Len(R), d \in Account :
          i # r \/ d # a => WithLoad(R, r, a, k)[i].load[d] = R[i].load[d]
    BY <1>4, <1>5
  <1> QED BY <1>4, <1>5, <1>6, <1>7, <1>8

-----------------------------------------------------------------------------
(* Frames: what a step leaves alone stays as it is.                        *)

Untouched(u) ==
    /\ step'[u] = step[u] /\ request'[u] = request[u] /\ held'[u] = held[u]
    /\ todo'[u] = todo[u] /\ models'[u] = models[u] /\ draft'[u] = draft[u]

Grows == Len(configs') >= Len(configs) /\ Len(routers') >= Len(routers)

LEMMA OthersKeep == ASSUME TypeOK, TypeOK', NEW u \in Thread, InHand(u), Untouched(u), Grows
                    PROVE  InHand(u)'
  <1>1. /\ Len(configs) \in Nat /\ Len(configs') \in Nat
        /\ Len(routers) \in Nat /\ Len(routers') \in Nat
    BY DEF TypeOK
  <1> QED BY <1>1 DEF InHand, Untouched, Grows

LEMMA SlotsKeep == ASSUME TypeOK, TypeOK', Slots, UNCHANGED calls, Grows
                   PROVE  Slots'
  <1>1. Len(routers) \in Nat /\ Len(routers') \in Nat  BY DEF TypeOK
  <1> QED BY <1>1 DEF Slots, calls, Grows

LEMMA CountsKeep ==
  ASSUME SlotsStayWithTheirRouter, UNCHANGED calls, Len(routers') = Len(routers),
         \A i \in 1..Len(routers), a \in Account : routers'[i].load[a] = routers[i].load[a]
  PROVE  SlotsStayWithTheirRouter'
  BY DEF SlotsStayWithTheirRouter, calls

LEMMA CoverKeeps ==
  ASSUME TypeOK, Covered, UNCHANGED router,
         \A b \in Backend : routers'[router].status[b] = "unset" => routers[router].status[b] = "unset",
         \A t \in Thread, b \in Backend :
            WillJudge(t, b) => WillJudge(t, b)' \/ routers'[router].status[b] # "unset"
  PROVE  Covered'
  BY DEF Covered

\* A step of one request that leaves the routers and the calls alone.
LEMMA OneRequest ==
  ASSUME Inv, NEW t \in Thread, TypeOK', InHand(t)',
         UNCHANGED <<routers, router, calls>>, Len(configs') >= Len(configs),
         \A u \in Thread \ {t} : Untouched(u),
         \A b \in Backend : WillJudge(t, b) => WillJudge(t, b)'
  PROVE  Inv'
  <1>1. Grows  BY DEF Grows, Inv, TypeOK
  <1>2. Hands'  BY <1>1, OthersKeep DEF Inv, Hands
  <1>3. Slots'  BY <1>1, SlotsKeep DEF Inv
  <1>4. SlotsStayWithTheirRouter'  BY CountsKeep DEF Inv
  <1>5. Covered'
    <2>1. \A u \in Thread, b \in Backend : WillJudge(u, b) => WillJudge(u, b)'
      BY DEF WillJudge, Untouched
    <2> QED BY <2>1, CoverKeeps DEF Inv
  <1> QED BY <1>2, <1>3, <1>4, <1>5 DEF Inv

\* A step of one request that changes a router, and not the load of any.
LEMMA OneRouter ==
  ASSUME Inv, NEW t \in Thread, TypeOK', InHand(t)',
         UNCHANGED <<configs, router, calls>>, Len(routers') = Len(routers),
         \A i \in 1..Len(routers) : routers'[i].load = routers[i].load,
         \A b \in Backend : routers'[router].status[b] = "unset" => routers[router].status[b] = "unset",
         \A u \in Thread \ {t} : Untouched(u),
         \A b \in Backend : WillJudge(t, b) => WillJudge(t, b)' \/ routers'[router].status[b] # "unset"
  PROVE  Inv'
  <1>1. Grows  BY DEF Grows, Inv, TypeOK
  <1>2. Hands'  BY <1>1, OthersKeep DEF Inv, Hands
  <1>3. Slots'  BY <1>1, SlotsKeep DEF Inv
  <1>4. SlotsStayWithTheirRouter'  BY CountsKeep DEF Inv
  <1>5. Covered'
    <2>1. \A u \in Thread, b \in Backend :
            WillJudge(u, b) => WillJudge(u, b)' \/ routers'[router].status[b] # "unset"
      BY DEF WillJudge, Untouched
    <2> QED BY <2>1, CoverKeeps DEF Inv
  <1> QED BY <1>2, <1>3, <1>4, <1>5 DEF Inv

-----------------------------------------------------------------------------
(* Requests begin and end.                                                 *)

LEMMA BeginKeeps ==
  ASSUME Inv, NEW t \in Thread, NEW s \in {"switch", "limit", "dump", "read"},
         NEW what \in SwitchRequest \cup LimitRequest \cup {None}, Begin(t, s, what),
         held' = held \/ held' = [held EXCEPT ![t] = Len(configs)],
         s \in {"switch", "limit"} => held' = [held EXCEPT ![t] = Len(configs)],
         s = "switch" => what \in SwitchRequest, s = "limit" => what \in LimitRequest
  PROVE  Inv'
  <1>1. /\ step[t] = "idle" /\ step' = [step EXCEPT ![t] = s]
        /\ request' = [request EXCEPT ![t] = what]
        /\ UNCHANGED <<file, spoiled, configs, routers, router, enabled, todo, models, draft,
                       calls>>
    BY DEF Begin, store, tables
  <1>2. TypeOK'
    <2>1. request' \in [Thread -> SwitchRequest \cup LimitRequest \cup LoadRequest \cup {None}]
      BY <1>1 DEF Inv, TypeOK
    <2>2. held' \in [Thread -> Nat]
      <3>1. held \in [Thread -> Nat] /\ Len(configs) \in Nat  BY DEF Inv, TypeOK
      <3> QED BY <3>1
    <2> QED BY <1>1, <2>1, <2>2 DEF Inv, TypeOK, calls
  <1>3. step'[t] = s /\ request'[t] = what /\ \A u \in Thread \ {t} : Untouched(u)
    BY <1>1 DEF Inv, TypeOK, Untouched
  <1>4. s \in {"switch", "limit"} => held'[t] \in 1..Len(configs)
    <2>1. Len(configs) \in Nat /\ Len(configs) # 0  BY DEF Inv, TypeOK
    <2> QED BY <2>1 DEF Inv, TypeOK
  <1>5. InHand(t)'
    <2>1. models'[t] = {}  BY <1>1 DEF Inv, Hands, InHand
    <2> QED BY <1>1, <1>3, <1>4, <2>1 DEF InHand
  <1>6. \A b \in Backend : ~WillJudge(t, b)  BY <1>1 DEF WillJudge
  <1>7. Len(configs') >= Len(configs)  BY <1>1 DEF Inv, TypeOK
  <1> QED BY <1>1, <1>2, <1>3, <1>5, <1>6, <1>7, OneRequest

LEMMA ReturnTypes ==
  ASSUME Inv, NEW t \in Thread, Return(t), file' \in Configuration,
         UNCHANGED <<spoiled, configs, router>>,
         routers' \in Seq(RouterState), Len(routers') = Len(routers)
  PROVE  /\ TypeOK' /\ InHand(t)' /\ UNCHANGED calls /\ step'[t] = "idle"
         /\ \A u \in Thread \ {t} : Untouched(u)
  <1>1. /\ step' = [step EXCEPT ![t] = "idle"] /\ request' = [request EXCEPT ![t] = None]
        /\ held' = [held EXCEPT ![t] = 0] /\ enabled' = [enabled EXCEPT ![t] = {}]
        /\ todo' = [todo EXCEPT ![t] = {}] /\ models' = [models EXCEPT ![t] = {}]
        /\ draft' = [draft EXCEPT ![t] = Refused]
        /\ UNCHANGED calls
    BY DEF Return
  <1>2. TypeOK'  BY <1>1, Assumed DEF Inv, TypeOK, calls
  <1>3. step'[t] = "idle" /\ models'[t] = {} /\ \A u \in Thread \ {t} : Untouched(u)
    BY <1>1 DEF Inv, TypeOK, Untouched
  <1>4. InHand(t)'  BY <1>3 DEF InHand
  <1> QED BY <1>1, <1>2, <1>3, <1>4

\* A request that ends with the routers as they are, the last of which a
\* loader has judged.
LEMMA ReturnKeeps ==
  ASSUME Inv, NEW t \in Thread, Return(t), file' \in Configuration,
         UNCHANGED <<spoiled, configs, tables>>,
         step[t] \notin {"list", "load", "loadStatus"}
  PROVE  Inv'
  <1>1. UNCHANGED <<routers, router>>  BY DEF tables
  <1>2. routers \in Seq(RouterState)  BY DEF Inv, TypeOK
  <1>3. /\ TypeOK' /\ InHand(t)' /\ UNCHANGED calls
        /\ \A u \in Thread \ {t} : Untouched(u)
    BY <1>1, <1>2, ReturnTypes
  <1>4. \A b \in Backend : ~WillJudge(t, b)  BY DEF WillJudge
  <1>5. Len(configs') >= Len(configs)  BY DEF Inv, TypeOK
  <1> QED BY <1>1, <1>3, <1>4, <1>5, OneRequest

-----------------------------------------------------------------------------
(* The configuration and the file.                                         *)

LEMMA ConfigChanged ==
  ASSUME Inv, NEW t \in Thread, Goto(t, "tell") \/ Goto(t, "tellLimit"),
         configs' \in Seq(Configuration), Len(configs') = Len(configs),
         step[t] = (IF step'[t] = "tell" THEN "switch" ELSE "limit"),
         UNCHANGED <<file, spoiled, tables, hands>>
  PROVE  Inv'
  <1>1. PICK s \in {"tell", "tellLimit"} : step' = [step EXCEPT ![t] = s]
    BY DEF Goto
  <1>2. UNCHANGED <<file, spoiled, routers, router, held, enabled, todo, models, draft, request,
                    calls>>
    BY DEF Goto, tables, hands
  <1>3. TypeOK'  BY <1>1, <1>2 DEF Inv, TypeOK, calls
  <1>4. step'[t] = s /\ \A u \in Thread \ {t} : Untouched(u)
    BY <1>1, <1>2 DEF Inv, TypeOK, Untouched
  <1>5. InHand(t)'
    <2>1. InHand(t)  BY DEF Inv, Hands
    <2> QED BY <1>2, <1>4, <2>1 DEF InHand
  <1>6. \A b \in Backend : ~WillJudge(t, b)  BY DEF WillJudge
  <1>7. Len(configs') >= Len(configs)  BY DEF Inv, TypeOK
  <1> QED BY <1>2, <1>3, <1>4, <1>5, <1>6, <1>7, OneRequest

LEMMA WriteSwitchKeeps == ASSUME Inv, NEW t \in Thread, WriteSwitch(t) PROVE Inv'
  <1>0. /\ step[t] = "switch" /\ request[t] \in SwitchRequest /\ held[t] \in 1..Len(configs)
        /\ configs \in Seq(Configuration)
    BY DEF WriteSwitch, Inv, Hands, InHand, TypeOK
  <1>1. configs[held[t]] \in Configuration  BY <1>0, ElementOfSeq
  <1>2. PICK on \in SUBSET Backend : configs' = [configs EXCEPT ![held[t]].enabled = on]
    <2>1. request[t].backend \in Backend  BY <1>0 DEF SwitchRequest
    <2>2. configs[held[t]].enabled \in SUBSET Backend  BY <1>1 DEF Configuration
    <2> QED BY <2>1, <2>2 DEF WriteSwitch
  <1>3. PICK c \in Configuration : c = [configs[held[t]] EXCEPT !.enabled = on]
    BY <1>1 DEF Configuration
  <1>4. configs' = [configs EXCEPT ![held[t]] = c]  BY <1>2, <1>3
  <1>5. configs' \in Seq(Configuration) /\ Len(configs') = Len(configs)
    BY <1>0, <1>4, ExceptSeq
  <1>6. step'[t] = "tell" /\ Goto(t, "tell") /\ UNCHANGED <<file, spoiled, tables, hands>>
    BY DEF WriteSwitch, Goto, Inv, TypeOK
  <1> QED BY <1>0, <1>5, <1>6, ConfigChanged

LEMMA WriteLimitKeeps == ASSUME Inv, NEW t \in Thread, WriteLimit(t) PROVE Inv'
  <1>0. /\ step[t] = "limit" /\ request[t] \in LimitRequest /\ held[t] \in 1..Len(configs)
        /\ configs \in Seq(Configuration)
    BY DEF WriteLimit, Inv, Hands, InHand, TypeOK
  <1>1. configs[held[t]] \in Configuration  BY <1>0, ElementOfSeq
  <1>2. PICK a \in Account, m \in Nat \ {0} : configs' = [configs EXCEPT ![held[t]].limit[a] = m]
    <2>1. request[t].account \in Account /\ request[t].limit \in Nat \ {0}
      BY <1>0, Assumed DEF LimitRequest
    <2> QED BY <2>1 DEF WriteLimit
  <1>3. PICK c \in Configuration : c = [configs[held[t]] EXCEPT !.limit[a] = m]
    BY <1>1 DEF Configuration
  <1>4. configs' = [configs EXCEPT ![held[t]] = c]  BY <1>2, <1>3
  <1>5. configs' \in Seq(Configuration) /\ Len(configs') = Len(configs)
    BY <1>0, <1>4, ExceptSeq
  <1>6. step'[t] = "tellLimit" /\ Goto(t, "tellLimit") /\ UNCHANGED <<file, spoiled, tables, hands>>
    BY DEF WriteLimit, Goto, Inv, TypeOK
  <1> QED BY <1>0, <1>5, <1>6, ConfigChanged

LEMMA ConfigInForce == TypeOK => Config \in Configuration
  <1> SUFFICES ASSUME TypeOK PROVE Config \in Configuration
    OBVIOUS
  <1>1. configs \in Seq(Configuration) /\ Len(configs) \in 1..Len(configs)
    BY DEF TypeOK
  <1> QED BY <1>1, ElementOfSeq DEF Config

LEMMA DumpKeeps == ASSUME Inv, NEW t \in Thread, Dump(t) PROVE Inv'
  <1>0. Config \in Configuration  BY ConfigInForce DEF Inv
  <1>1. /\ step[t] = "dump" /\ step' = [step EXCEPT ![t] = "replace"]
        /\ draft' = [draft EXCEPT ![t] = Config]
        /\ UNCHANGED <<file, spoiled, configs, routers, router, held, enabled, todo, models,
                       request, calls>>
    BY DEF Dump, Goto, store, tables
  <1>2. TypeOK'
    <2>1. draft' \in [Thread -> Configuration]
      <3> HIDE DEF Config
      <3> QED BY <1>0, <1>1 DEF Inv, TypeOK
    <2> QED BY <1>1, <2>1 DEF Inv, TypeOK, calls
  <1>3. step'[t] = "replace" /\ draft'[t] = Config /\ \A u \in Thread \ {t} : Untouched(u)
    BY <1>1 DEF Inv, TypeOK, Untouched
  <1>4. InHand(t)'
    <2>1. models'[t] = {}  BY <1>1 DEF Inv, Hands, InHand
    <2> QED BY <1>0, <1>3, <2>1 DEF InHand
  <1>5. \A b \in Backend : ~WillJudge(t, b)  BY <1>1 DEF WillJudge
  <1>6. Len(configs') >= Len(configs)  BY <1>1 DEF Inv, TypeOK
  <1> QED BY <1>1, <1>2, <1>3, <1>4, <1>5, <1>6, OneRequest

LEMMA ReadFileKeeps == ASSUME Inv, NEW t \in Thread, ReadFile(t) PROVE Inv'
  <1>1. /\ step[t] = "read" /\ step' = [step EXCEPT ![t] = "build"]
        /\ configs' = Append(configs, file)
        /\ UNCHANGED <<file, spoiled, routers, router, held, enabled, todo, models, draft,
                       request, calls>>
    BY DEF ReadFile, Goto, tables, hands
  <1>2. configs' \in Seq(Configuration) /\ Len(configs') = Len(configs) + 1
    BY <1>1 DEF Inv, TypeOK
  <1>3. Len(configs') # 0 /\ Len(configs') >= Len(configs)  BY <1>2 DEF Inv, TypeOK
  <1>4. TypeOK'  BY <1>1, <1>2, <1>3 DEF Inv, TypeOK, calls
  <1>5. step'[t] = "build" /\ \A u \in Thread \ {t} : Untouched(u)
    BY <1>1 DEF Inv, TypeOK, Untouched
  <1>6. InHand(t)'
    <2>1. models'[t] = {}  BY <1>1 DEF Inv, Hands, InHand
    <2> QED BY <1>5, <2>1 DEF InHand
  <1>7. \A b \in Backend : ~WillJudge(t, b)  BY <1>1 DEF WillJudge
  <1> QED BY <1>1, <1>3, <1>4, <1>5, <1>6, <1>7, OneRequest

LEMMA ListModelsKeeps == ASSUME Inv, NEW t \in Thread, ListModels(t) PROVE Inv'
  <1>0. Config.enabled \in SUBSET Backend  BY ConfigInForce DEF Inv, Configuration
  <1>1. PICK tier \in SUBSET todo[t] :
          /\ models' = [models EXCEPT ![t] = tier]
          /\ todo' = [todo EXCEPT ![t] = todo[t] \ tier]
    BY DEF ListModels
  <1>2. /\ step[t] = "list" /\ step' = [step EXCEPT ![t] = "load"]
        /\ enabled' = [enabled EXCEPT ![t] = Config.enabled]
        /\ UNCHANGED <<file, spoiled, configs, routers, router, held, draft, request, calls>>
    BY DEF ListModels, Goto, store, tables
  <1>3. todo[t] \in SUBSET Backend  BY DEF Inv, TypeOK
  <1>4. TypeOK'
    <2>1. enabled' \in [Thread -> SUBSET Backend]
      <3> HIDE DEF Config
      <3> QED BY <1>0, <1>2 DEF Inv, TypeOK
    <2>2. todo' \in [Thread -> SUBSET Backend] /\ models' \in [Thread -> SUBSET Backend]
      BY <1>1, <1>3 DEF Inv, TypeOK
    <2> QED BY <1>2, <2>1, <2>2 DEF Inv, TypeOK, calls
  <1>5. /\ step'[t] = "load" /\ todo'[t] \cup models'[t] = todo[t]
        /\ \A u \in Thread \ {t} : Untouched(u)
    <2>1. todo'[t] = todo[t] \ tier /\ models'[t] = tier  BY <1>1 DEF Inv, TypeOK
    <2>2. step'[t] = "load" /\ \A u \in Thread \ {t} : Untouched(u)
      BY <1>1, <1>2 DEF Inv, TypeOK, Untouched
    <2> QED BY <2>1, <2>2
  <1>6. InHand(t)'  BY <1>5 DEF InHand
  <1>7. \A b \in Backend : WillJudge(t, b) => WillJudge(t, b)'
    <2>1. models[t] = {}  BY <1>2 DEF Inv, Hands, InHand
    <2> QED BY <1>5, <2>1 DEF WillJudge
  <1>8. Len(configs') >= Len(configs)  BY <1>2 DEF Inv, TypeOK
  <1> QED BY <1>2, <1>4, <1>5, <1>6, <1>7, <1>8, OneRequest

-----------------------------------------------------------------------------
(* The routers.                                                            *)

LEMMA TellSwitchKeeps == ASSUME Inv, NEW t \in Thread, TellSwitch(t) PROVE Inv'
  <1>0. /\ step[t] = "tell" /\ request[t] \in SwitchRequest /\ router \in 1..Len(routers)
        /\ routers \in Seq(RouterState) /\ routers[router] \in RouterState
    BY ElementOfSeq DEF TellSwitch, Inv, Hands, InHand, TypeOK
  <1>1. PICK on \in SUBSET Backend : routers' = WithOn(routers, router, on)
    <2>1. request[t].backend \in Backend  BY <1>0 DEF SwitchRequest
    <2>2. routers[router].on \in SUBSET Backend  BY <1>0 DEF RouterState
    <2> QED BY <2>1, <2>2 DEF TellSwitch, WithOn
  <1>2. /\ routers' \in Seq(RouterState) /\ Len(routers') = Len(routers)
        /\ \A i \in 1..Len(routers) : /\ routers'[i].load = routers[i].load
                                      /\ routers'[i].status = routers[i].status
    BY <1>0, <1>1, SetOn
  <1>3. /\ step' = [step EXCEPT ![t] = "judge"]
        /\ UNCHANGED <<file, spoiled, configs, router, held, enabled, todo, models, draft,
                       request, calls>>
    BY DEF TellSwitch, Goto, store, hands
  <1>4. TypeOK'  BY <1>2, <1>3 DEF Inv, TypeOK, calls
  <1>5. step'[t] = "judge" /\ \A u \in Thread \ {t} : Untouched(u)
    BY <1>3 DEF Inv, TypeOK, Untouched
  <1>6. InHand(t)'
    <2>1. models'[t] = {}  BY <1>0, <1>3 DEF Inv, Hands, InHand
    <2> QED BY <1>0, <1>3, <1>5, <2>1 DEF InHand
  <1>7. \A b \in Backend : ~WillJudge(t, b)  BY <1>0 DEF WillJudge
  <1>8. \A b \in Backend : routers'[router].status[b] = "unset" => routers[router].status[b] = "unset"
    BY <1>0, <1>2
  <1> QED BY <1>2, <1>3, <1>4, <1>5, <1>6, <1>7, <1>8, OneRouter

LEMMA TellLimitKeeps == ASSUME Inv, NEW t \in Thread, TellLimit(t) PROVE Inv'
  <1>0. /\ step[t] = "tellLimit" /\ request[t] \in LimitRequest /\ router \in 1..Len(routers)
        /\ routers \in Seq(RouterState) /\ file \in Configuration
    BY DEF TellLimit, Inv, Hands, InHand, TypeOK
  <1>1. PICK a \in Account, m \in Nat \ {0} : routers' = WithLimit(routers, router, a, m)
    <2>1. request[t].account \in Account /\ request[t].limit \in Nat \ {0}
      BY <1>0, Assumed DEF LimitRequest
    <2> QED BY <2>1 DEF TellLimit, WithLimit
  <1>2. /\ routers' \in Seq(RouterState) /\ Len(routers') = Len(routers)
        /\ \A i \in 1..Len(routers) : /\ routers'[i].load = routers[i].load
                                      /\ routers'[i].status = routers[i].status
    BY <1>0, <1>1, SetRouterLimit
  <1>3. Return(t) /\ UNCHANGED <<file, spoiled, configs, router>>  BY DEF TellLimit, store
  <1>4. /\ TypeOK' /\ InHand(t)' /\ UNCHANGED calls
        /\ \A u \in Thread \ {t} : Untouched(u)
    BY <1>0, <1>2, <1>3, ReturnTypes
  <1>5. \A b \in Backend : ~WillJudge(t, b)  BY <1>0 DEF WillJudge
  <1>6. \A b \in Backend : routers'[router].status[b] = "unset" => routers[router].status[b] = "unset"
    BY <1>0, <1>2
  <1> QED BY <1>2, <1>3, <1>4, <1>5, <1>6, OneRouter

LEMMA JudgeSwitchKeeps == ASSUME Inv, NEW t \in Thread, JudgeSwitch(t) PROVE Inv'
  <1>0. /\ step[t] = "judge" /\ request[t] \in SwitchRequest /\ router \in 1..Len(routers)
        /\ routers \in Seq(RouterState) /\ file \in Configuration
    BY DEF JudgeSwitch, Inv, Hands, InHand, TypeOK
  <1>1. PICK b \in Backend : routers' = WithStatus(routers, router, b, "out")
    BY <1>0 DEF JudgeSwitch, SwitchRequest, WithStatus
  <1>2. /\ routers' \in Seq(RouterState) /\ Len(routers') = Len(routers)
        /\ \A i \in 1..Len(routers) : routers'[i].load = routers[i].load
        /\ \A d \in Backend : routers'[router].status[d] = "unset" => routers[router].status[d] = "unset"
    <2>1. /\ routers \in Seq(RouterState) /\ router \in 1..Len(routers) /\ b \in Backend
          /\ routers' = WithStatus(routers, router, b, "out")
      BY <1>0, <1>1
    <2> QED BY ONLY <2>1, SetStatus
  <1>3. Return(t) /\ UNCHANGED <<file, spoiled, configs, router>>  BY DEF JudgeSwitch, store
  <1>4. /\ TypeOK' /\ InHand(t)' /\ UNCHANGED calls
        /\ \A u \in Thread \ {t} : Untouched(u)
    BY <1>0, <1>2, <1>3, ReturnTypes
  <1>5. \A d \in Backend : ~WillJudge(t, d)  BY <1>0 DEF WillJudge
  <1> QED BY <1>2, <1>3, <1>4, <1>5, OneRouter

LEMMA LoadSwitchKeeps == ASSUME Inv, NEW t \in Thread, NEW b \in Backend, LoadSwitch(t, b) PROVE Inv'
  <1>0. /\ step[t] = "load" /\ b \in models[t] /\ router \in 1..Len(routers)
        /\ routers \in Seq(RouterState) /\ routers[router] \in RouterState
    BY ElementOfSeq DEF LoadSwitch, Inv, TypeOK
  <1>1. PICK on \in SUBSET Backend : routers' = WithOn(routers, router, on)
    <2>1. routers[router].on \in SUBSET Backend  BY <1>0 DEF RouterState
    <2> QED BY <2>1 DEF LoadSwitch, WithOn
  <1>2. /\ routers' \in Seq(RouterState) /\ Len(routers') = Len(routers)
        /\ \A i \in 1..Len(routers) : /\ routers'[i].load = routers[i].load
                                      /\ routers'[i].status = routers[i].status
    BY <1>0, <1>1, SetOn
  <1>3. PICK what \in LoadRequest : what.backend = b /\ request' = [request EXCEPT ![t] = what]
    BY DEF LoadSwitch, LoadRequest
  <1>4. /\ step' = [step EXCEPT ![t] = "loadStatus"]
        /\ UNCHANGED <<file, spoiled, configs, router, held, enabled, todo, models, draft, calls>>
    BY DEF LoadSwitch, store, hands, calls
  <1>5. TypeOK'
    <2>1. request' \in [Thread -> SwitchRequest \cup LimitRequest \cup LoadRequest \cup {None}]
      BY <1>3 DEF Inv, TypeOK
    <2> QED BY <1>2, <1>4, <2>1 DEF Inv, TypeOK, calls
  <1>6. step'[t] = "loadStatus" /\ request'[t] = what /\ \A u \in Thread \ {t} : Untouched(u)
    BY <1>3, <1>4 DEF Inv, TypeOK, Untouched
  <1>7. InHand(t)'  BY <1>0, <1>3, <1>4, <1>6 DEF InHand
  <1>8. \A d \in Backend : WillJudge(t, d) => WillJudge(t, d)'
    BY <1>0, <1>4, <1>6 DEF WillJudge
  <1>9. \A d \in Backend : routers'[router].status[d] = "unset" => routers[router].status[d] = "unset"
    BY <1>0, <1>2
  <1> QED BY <1>2, <1>4, <1>5, <1>6, <1>7, <1>8, <1>9, OneRouter

LEMMA LoadStatusKeeps == ASSUME Inv, NEW t \in Thread, LoadStatus(t) PROVE Inv'
  <1>0. /\ step[t] = "loadStatus" /\ request[t].backend \in models[t] /\ router \in 1..Len(routers)
        /\ routers \in Seq(RouterState) /\ file \in Configuration
        /\ models[t] \in SUBSET Backend
    BY DEF LoadStatus, Inv, Hands, InHand, TypeOK
  <1>1. PICK b \in Backend, left \in SUBSET Backend :
          /\ left = models[t] \ {b}
          /\ routers' = WithStatus(routers, router, b, "out")
          /\ \/ left \cup todo[t] = {} /\ Return(t)
             \/ /\ \E s \in {"list", "load"} :
                     /\ step' = [step EXCEPT ![t] = s]
                     /\ s = "list" => left = {}
                /\ request' = [request EXCEPT ![t] = None]
                /\ models' = [models EXCEPT ![t] = left]
                /\ UNCHANGED <<held, enabled, todo, draft, calls>>
    <2>1. request[t].backend \in Backend  BY <1>0
    <2>2. models[t] \ {request[t].backend} \in SUBSET Backend  BY <1>0
    <2> QED BY <2>1, <2>2 DEF LoadStatus, WithStatus
  <1>2. /\ routers' \in Seq(RouterState) /\ Len(routers') = Len(routers)
        /\ \A i \in 1..Len(routers) : routers'[i].load = routers[i].load
        /\ routers'[router].status[b] # "unset"
        /\ \A d \in Backend : routers'[router].status[d] = "unset" => routers[router].status[d] = "unset"
    <2>1. /\ routers \in Seq(RouterState) /\ router \in 1..Len(routers) /\ b \in Backend
          /\ routers' = WithStatus(routers, router, b, "out")
      BY <1>0, <1>1
    <2> QED BY ONLY <2>1, SetStatus
  <1>3. UNCHANGED <<file, spoiled, configs, router>>  BY DEF LoadStatus, store
  <1>4. ASSUME left \cup todo[t] = {}, Return(t) PROVE Inv'
    <2>1. /\ TypeOK' /\ InHand(t)' /\ UNCHANGED calls
          /\ \A u \in Thread \ {t} : Untouched(u)
      BY <1>0, <1>2, <1>3, <1>4, ReturnTypes
    <2>2. \A d \in Backend : WillJudge(t, d) => routers'[router].status[d] # "unset"
      BY <1>1, <1>2, <1>4 DEF WillJudge
    <2> QED BY <1>2, <1>3, <2>1, <2>2, OneRouter
  <1>5. ASSUME NEW s \in {"list", "load"}, step' = [step EXCEPT ![t] = s], s = "list" => left = {},
               request' = [request EXCEPT ![t] = None], models' = [models EXCEPT ![t] = left],
               UNCHANGED <<held, enabled, todo, draft, calls>>
        PROVE  Inv'
    <2>1. request' \in [Thread -> SwitchRequest \cup LimitRequest \cup LoadRequest \cup {None}]
      BY <1>5 DEF Inv, TypeOK
    <2>2. models' \in [Thread -> SUBSET Backend] /\ models'[t] = left
      BY <1>5 DEF Inv, TypeOK
    <2>3. TypeOK'  BY <1>2, <1>3, <1>5, <2>1, <2>2 DEF Inv, TypeOK, calls
    <2>4. step'[t] = s /\ \A u \in Thread \ {t} : Untouched(u)
      BY <1>5 DEF Inv, TypeOK, Untouched
    <2>5. InHand(t)'  BY <1>5, <2>2, <2>4 DEF InHand
    <2>6. \A d \in Backend : WillJudge(t, d) => WillJudge(t, d)' \/ routers'[router].status[d] # "unset"
      BY <1>1, <1>2, <1>5, <2>2, <2>4 DEF WillJudge
    <2> QED BY <1>2, <1>3, <1>5, <2>3, <2>4, <2>5, <2>6, OneRouter
  <1> QED BY <1>1, <1>4, <1>5

LEMMA JudgedKeeps ==
  ASSUME Inv, NEW b \in Backend, NEW v \in {"running", "out"}, Judged(b, v) PROVE Inv'
  <1>0. router \in 1..Len(routers) /\ routers \in Seq(RouterState)  BY DEF Inv, TypeOK
  <1>1. /\ routers' = WithStatus(routers, router, b, v)
        /\ UNCHANGED <<file, spoiled, configs, router, step, request, held, enabled, todo,
                       models, draft, calls>>
    BY DEF Judged, store, hands, WithStatus
  <1>2. /\ routers' \in Seq(RouterState) /\ Len(routers') = Len(routers)
        /\ \A i \in 1..Len(routers) : routers'[i].load = routers[i].load
        /\ \A d \in Backend : routers'[router].status[d] = "unset" => routers[router].status[d] = "unset"
    <2>1. /\ routers \in Seq(RouterState) /\ router \in 1..Len(routers) /\ b \in Backend
          /\ routers' = WithStatus(routers, router, b, v)
      BY <1>0, <1>1
    <2> DEFINE Q == WithStatus(routers, router, b, v)
    <2>2. /\ Q \in Seq(RouterState) /\ Len(Q) = Len(routers)
          /\ \A i \in 1..Len(routers) : Q[i].load = routers[i].load
          /\ Q[router].status[b] # "unset"
          /\ \A d \in Backend : Q[router].status[d] = "unset" => routers[router].status[d] = "unset"
      BY ONLY <2>1, SetStatus, v \in {"running", "out"}
    <2>3. routers' = Q  BY <2>1
    <2> HIDE DEF Q
    <2> QED BY <2>2, <2>3
  <1>3. TypeOK'  BY <1>1, <1>2 DEF Inv, TypeOK, calls
  <1>4. Grows /\ \A u \in Thread : Untouched(u)  BY <1>1, <1>2 DEF Grows, Untouched, Inv, TypeOK
  <1>5. Hands'  BY <1>3, <1>4, OthersKeep DEF Inv, Hands
  <1>6. Slots'  BY <1>1, <1>3, <1>4, SlotsKeep DEF Inv
  <1>7. SlotsStayWithTheirRouter'  BY <1>1, <1>2, CountsKeep DEF Inv
  <1>8. Covered'
    <2>1. \A t \in Thread, d \in Backend : WillJudge(t, d) => WillJudge(t, d)'
      BY <1>1 DEF WillJudge
    <2> QED BY <1>1, <1>2, <2>1, CoverKeeps DEF Inv
  <1> QED BY <1>3, <1>5, <1>6, <1>7, <1>8 DEF Inv

\* No call runs on a router that has just been built.
LEMMA BuildKeeps == ASSUME Inv, NEW t \in Thread, Build(t) PROVE Inv'
  <1>0. Config \in Configuration /\ Len(routers) \in Nat /\ routers \in Seq(RouterState)
    BY ConfigInForce DEF Inv, TypeOK
  <1>1. PICK new \in RouterState : new = NewRouter(Config) /\ \A a \in Account : new.load[a] = 0
    <2>1. NewRouter(Config) \in RouterState
      <3> HIDE DEF Config
      <3> QED BY <1>0 DEF NewRouter, RouterState, Configuration
    <2>2. \A a \in Account : NewRouter(Config).load[a] = 0  BY DEF NewRouter
    <2> QED BY <2>1, <2>2
  <1>2. /\ step[t] = "build" /\ step' = [step EXCEPT ![t] = "publish"]
        /\ routers' = Append(routers, new) /\ held' = [held EXCEPT ![t] = Len(routers) + 1]
        /\ UNCHANGED <<file, spoiled, configs, router, enabled, todo, models, draft, request,
                       calls>>
    BY <1>1 DEF Build, Goto, store
  <1>3. /\ routers' \in Seq(RouterState) /\ Len(routers') = Len(routers) + 1
        /\ \A i \in 1..Len(routers) : routers'[i] = routers[i]
        /\ routers'[Len(routers) + 1] = new
    BY <1>0, <1>1, <1>2
  <1>4. TypeOK'
    <2>1. held' \in [Thread -> Nat] /\ router \in 1..Len(routers')
      BY <1>0, <1>2, <1>3 DEF Inv, TypeOK
    <2> QED BY <1>2, <1>3, <2>1 DEF Inv, TypeOK, calls
  <1>5. /\ step'[t] = "publish" /\ held'[t] \in 1..Len(routers')
        /\ \A u \in Thread \ {t} : Untouched(u)
    BY <1>0, <1>2, <1>3 DEF Inv, TypeOK, Untouched
  <1>6. Grows  BY <1>0, <1>2, <1>3 DEF Grows, Inv, TypeOK
  <1>7. Hands'
    <2>1. InHand(t)'
      <3>1. models'[t] = {}  BY <1>2 DEF Inv, Hands, InHand
      <3> QED BY <1>5, <3>1 DEF InHand
    <2> QED BY <1>4, <1>5, <1>6, <2>1, OthersKeep DEF Inv, Hands
  <1>8. Slots'  BY <1>2, <1>4, <1>6, SlotsKeep DEF Inv
  <1>9. SlotsStayWithTheirRouter'
    <2> SUFFICES ASSUME NEW r \in 1..Len(routers'), NEW a \in Account
                 PROVE  routers'[r].load[a] =
                          Cardinality({c \in Caller : call[c] = r /\ \E b \in slot[c] : AccountOf[b] = a})
      BY <1>2 DEF SlotsStayWithTheirRouter, calls
    <2>1. CASE r \in 1..Len(routers)
      BY <1>3, <2>1 DEF Inv, SlotsStayWithTheirRouter
    <2>2. CASE r \notin 1..Len(routers)
      <3>1. r = Len(routers) + 1  BY <1>0, <1>3, <2>2
      <3>2. \A c \in Caller : call[c] # r  BY <1>0, <3>1 DEF Inv, Slots
      <3>3. {c \in Caller : call[c] = r /\ \E b \in slot[c] : AccountOf[b] = a} = {}  BY <3>2
      <3> QED BY <1>1, <1>3, <3>1, <3>3, FS_EmptySet
    <2> QED BY <2>1, <2>2
  <1>10. Covered'
    <2>1. \A b \in Backend : routers'[router].status[b] = routers[router].status[b]
      BY <1>3 DEF Inv, TypeOK
    <2>2. \A u \in Thread, b \in Backend : WillJudge(u, b) => WillJudge(u, b)'
      BY <1>2, <1>5 DEF WillJudge, Untouched
    <2> QED BY <1>2, <2>1, <2>2, CoverKeeps DEF Inv
  <1> QED BY <1>4, <1>7, <1>8, <1>9, <1>10 DEF Inv

\* Whoever puts a router in force will judge all of its backends.
LEMMA PublishKeeps == ASSUME Inv, NEW t \in Thread, Publish(t) PROVE Inv'
  <1>1. /\ step[t] = "publish" /\ held[t] \in 1..Len(routers)
        /\ router' = held[t] /\ step' = [step EXCEPT ![t] = "list"]
        /\ todo' = [todo EXCEPT ![t] = Backend] /\ models[t] = {}
        /\ UNCHANGED <<file, spoiled, configs, routers, held, enabled, models, draft, request,
                       calls>>
    BY DEF Publish, Goto, store, Inv, Hands, InHand
  <1>2. TypeOK'  BY <1>1 DEF Inv, TypeOK, calls
  <1>3. step'[t] = "list" /\ todo'[t] = Backend /\ \A u \in Thread \ {t} : Untouched(u)
    BY <1>1 DEF Inv, TypeOK, Untouched
  <1>4. Grows  BY <1>1 DEF Grows, Inv, TypeOK
  <1>5. Hands'
    <2>1. InHand(t)'  BY <1>1, <1>3 DEF InHand
    <2> QED BY <1>2, <1>3, <1>4, <2>1, OthersKeep DEF Inv, Hands
  <1>6. Slots'  BY <1>1, <1>2, <1>4, SlotsKeep DEF Inv
  <1>7. SlotsStayWithTheirRouter'  BY <1>1, CountsKeep DEF Inv
  <1>8. Covered'
    <2>1. \A b \in Backend : WillJudge(t, b)'  BY <1>3 DEF WillJudge
    <2> QED BY <2>1 DEF Covered
  <1> QED BY <1>2, <1>5, <1>6, <1>7, <1>8 DEF Inv

-----------------------------------------------------------------------------
(* The calls.                                                              *)

Counted(r, a) == {c \in Caller : call[c] = r /\ \E b \in slot[c] : AccountOf[b] = a}

LEMMA CountedFinite == \A r, a : IsFiniteSet(Counted(r, a)) /\ Cardinality(Counted(r, a)) \in Nat
  <1> SUFFICES ASSUME NEW r, NEW a
               PROVE  IsFiniteSet(Counted(r, a)) /\ Cardinality(Counted(r, a)) \in Nat
    OBVIOUS
  <1>1. Counted(r, a) \subseteq Caller  BY DEF Counted
  <1>2. IsFiniteSet(Counted(r, a))  BY <1>1, FS_Subset, Assumed
  <1> QED BY <1>2, FS_CardinalityType

\* A step of one call that changes no router but by its load.
LEMMA OneCall ==
  ASSUME Inv, UNCHANGED <<file, spoiled, configs, router, step, request, held, enabled, todo,
                          models, draft>>,
         routers' \in Seq(RouterState), Len(routers') = Len(routers),
         \A i \in 1..Len(routers) : routers'[i].status = routers[i].status,
         call' \in [Caller -> Nat], slot' \in [Caller -> SUBSET Backend],
         Slots', SlotsStayWithTheirRouter'
  PROVE  Inv'
  <1>1. TypeOK'  BY DEF Inv, TypeOK
  <1>2. Grows /\ \A u \in Thread : Untouched(u)  BY DEF Grows, Untouched, Inv, TypeOK
  <1>3. Hands'  BY <1>1, <1>2, OthersKeep DEF Inv, Hands
  <1>4. Covered'
    <2>1. router \in 1..Len(routers)  BY DEF Inv, TypeOK
    <2>2. \A t \in Thread, d \in Backend : WillJudge(t, d) => WillJudge(t, d)'
      BY DEF WillJudge
    <2> QED BY <2>1, <2>2, CoverKeeps DEF Inv
  <1> QED BY <1>1, <1>3, <1>4 DEF Inv

LEMMA EnterKeeps == ASSUME Inv, NEW c \in Caller, Enter(c) \/ Leave(c) PROVE Inv'
  <1>1. /\ slot[c] = {} /\ UNCHANGED <<file, spoiled, configs, routers, router, step, request,
                                       held, enabled,
                                       todo, models, draft, slot>>
        /\ call' = [call EXCEPT ![c] = router] \/ call' = [call EXCEPT ![c] = 0]
    <2>1. CASE Enter(c)  BY <2>1 DEF Enter, store, tables, hands, Inv, Slots
    <2>2. CASE Leave(c)  BY <2>2 DEF Leave, store, tables, hands
    <2> QED BY <2>1, <2>2
  <1>2. router \in 1..Len(routers) /\ Len(routers) \in Nat /\ router \in Nat
    BY DEF Inv, TypeOK
  <1>3. /\ call' \in [Caller -> Nat] /\ call'[c] \in 0..Len(routers)
        /\ \A d \in Caller \ {c} : call'[d] = call[d]
    <2>1. call \in [Caller -> Nat]  BY DEF Inv, TypeOK
    <2>2. PICK r \in 0..Len(routers) : r \in Nat /\ call' = [call EXCEPT ![c] = r]
      BY <1>1, <1>2
    <2> QED BY <2>1, <2>2
  <1>4. Slots'
    <2> SUFFICES ASSUME NEW d \in Caller
                 PROVE  /\ call'[d] \in 0..Len(routers')
                        /\ slot'[d] = {} \/ (call'[d] # 0 /\ \E b \in Backend : slot'[d] = {b})
      BY DEF Slots
    <2>1. CASE d = c  BY <1>1, <1>3, <2>1
    <2>2. CASE d # c  BY <1>1, <1>3, <2>2 DEF Inv, Slots
    <2> QED BY <2>1, <2>2
  <1>5. SlotsStayWithTheirRouter'
    <2>1. \A r, a : Counted(r, a)' = Counted(r, a)  BY <1>1, <1>3 DEF Counted
    <2> QED BY <1>1, <2>1 DEF Inv, SlotsStayWithTheirRouter, Counted
  <1> QED BY <1>1, <1>3, <1>4, <1>5, OneCall DEF Inv, TypeOK

LEMMA AcquireKeeps == ASSUME Inv, NEW c \in Caller, NEW b \in Backend, Acquire(c, b) PROVE Inv'
  <1>0. /\ call[c] \in 1..Len(routers) /\ AccountOf[b] \in Account /\ routers \in Seq(RouterState)
        /\ slot[c] = {}
    BY Assumed DEF Acquire, Inv, TypeOK, Slots
  <1>1. PICK r \in 1..Len(routers), a \in Account : r = call[c] /\ a = AccountOf[b]
    BY <1>0
  <1>2. PICK k \in Nat : k = routers[r].load[a]
    <2>1. routers[r] \in RouterState  BY <1>0, ElementOfSeq
    <2> QED BY <2>1 DEF RouterState
  <1>3. /\ routers' = WithLoad(routers, r, a, k + 1)
        /\ slot' = [slot EXCEPT ![c] = {b}]
        /\ UNCHANGED <<file, spoiled, configs, router, step, request, held, enabled, todo,
                       models, draft, call>>
    BY <1>1, <1>2 DEF Acquire, WithLoad, store, hands
  <1>4. /\ routers' \in Seq(RouterState) /\ Len(routers') = Len(routers)
        /\ \A i \in 1..Len(routers) : routers'[i].status = routers[i].status
        /\ routers'[r].load[a] = k + 1
        /\ \A i \in 1..Len(routers), d \in Account :
             i # r \/ d # a => routers'[i].load[d] = routers[i].load[d]
    <2>1. PICK n \in Nat : n = k + 1  BY k + 1 \in Nat
    <2>2. routers \in Seq(RouterState) /\ routers' = WithLoad(routers, r, a, n)
      BY <1>0, <1>3, <2>1
    <2>3. /\ routers' \in Seq(RouterState) /\ Len(routers') = Len(routers)
          /\ \A i \in 1..Len(routers) : routers'[i].status = routers[i].status
          /\ routers'[r].load[a] = n
          /\ \A i \in 1..Len(routers), d \in Account :
               i # r \/ d # a => routers'[i].load[d] = routers[i].load[d]
      BY ONLY <2>2, SetLoad, r \in 1..Len(routers), a \in Account, n \in Nat
    <2> QED BY <2>1, <2>3
  <1>5. slot' \in [Caller -> SUBSET Backend] /\ call' \in [Caller -> Nat]
        /\ slot'[c] = {b} /\ \A d \in Caller \ {c} : slot'[d] = slot[d]
    BY <1>3 DEF Inv, TypeOK
  <1>6. Slots'
    <2> SUFFICES ASSUME NEW d \in Caller
                 PROVE  /\ call'[d] \in 0..Len(routers')
                        /\ slot'[d] = {} \/ (call'[d] # 0 /\ \E x \in Backend : slot'[d] = {x})
      BY DEF Slots
    <2>1. CASE d = c
      <3>1. call[c] # 0 /\ call[c] \in 0..Len(routers)  BY <1>0
      <3> QED BY <1>3, <1>4, <1>5, <2>1, <3>1
    <2>2. CASE d # c  BY <1>3, <1>4, <1>5, <2>2 DEF Inv, Slots
    <2> QED BY <2>1, <2>2
  <1>7. SlotsStayWithTheirRouter'
    <2>1. \A i \in 1..Len(routers), d \in Account :
            i # r \/ d # a => Counted(i, d)' = Counted(i, d)
      BY <1>0, <1>1, <1>3, <1>5 DEF Counted
    <2>2. Counted(r, a)' = Counted(r, a) \cup {c} /\ c \notin Counted(r, a)
      BY <1>0, <1>1, <1>3, <1>5 DEF Counted
    <2>3. Cardinality(Counted(r, a)') = Cardinality(Counted(r, a)) + 1
      BY <2>2, CountedFinite, FS_AddElement
    <2>4. \A i \in 1..Len(routers), d \in Account : routers[i].load[d] = Cardinality(Counted(i, d))
      BY DEF Inv, SlotsStayWithTheirRouter, Counted
    <2>5. \A i \in 1..Len(routers), d \in Account : routers'[i].load[d] = Cardinality(Counted(i, d)')
      BY <1>2, <1>4, <2>1, <2>3, <2>4
    <2> QED BY <1>4, <2>5 DEF SlotsStayWithTheirRouter, Counted
  <1> QED BY <1>3, <1>4, <1>5, <1>6, <1>7, OneCall

LEMMA ReleaseKeeps == ASSUME Inv, NEW c \in Caller, Release(c) PROVE Inv'
  <1>0. PICK b \in Backend : slot[c] = {b}  BY DEF Release, Inv, Slots
  <1>1. PICK r \in 1..Len(routers), a \in Account : r = call[c] /\ a = AccountOf[b]
    <2>1. AccountOf[b] \in Account  BY Assumed
    <2>2. call[c] \in 0..Len(routers) /\ call[c] # 0 /\ Len(routers) \in Nat
      <3>1. slot[c] # {}  BY <1>0
      <3>2. Len(routers) \in Nat  BY DEF Inv, TypeOK
      <3> QED BY <3>1, <3>2 DEF Inv, Slots
    <2>3. call[c] \in 1..Len(routers)  BY <2>2
    <2> QED BY <2>1, <2>3
  <1>2. PICK k \in Nat : k = routers[r].load[a]
    <2>1. routers[r] \in RouterState  BY ElementOfSeq DEF Inv, TypeOK
    <2> QED BY <2>1 DEF RouterState
  <1>3. k # 0
    <2>1. k = Cardinality(Counted(r, a))
      BY <1>2 DEF Inv, SlotsStayWithTheirRouter, Counted
    <2>2. c \in Counted(r, a)  BY <1>0, <1>1 DEF Counted
    <2> QED BY <2>1, <2>2, CountedFinite, FS_EmptySet
  <1>4. /\ routers' = WithLoad(routers, r, a, k - 1)
        /\ slot' = [slot EXCEPT ![c] = {}]
        /\ UNCHANGED <<file, spoiled, configs, router, step, request, held, enabled, todo,
                       models, draft, call>>
    <2>1. routers' = [routers EXCEPT ![r].load[a] =
                        IF routers[r].load[a] > 0 THEN routers[r].load[a] - 1 ELSE 0]
      BY <1>0, <1>1 DEF Release
    <2>2. (IF routers[r].load[a] > 0 THEN routers[r].load[a] - 1 ELSE 0) = k - 1
      BY <1>2, <1>3
    <2>3. routers' = WithLoad(routers, r, a, k - 1)  BY <2>1, <2>2 DEF WithLoad
    <2> QED BY <2>3 DEF Release, store, hands
  <1>5. /\ routers' \in Seq(RouterState) /\ Len(routers') = Len(routers)
        /\ \A i \in 1..Len(routers) : routers'[i].status = routers[i].status
        /\ routers'[r].load[a] = k - 1
        /\ \A i \in 1..Len(routers), d \in Account :
             i # r \/ d # a => routers'[i].load[d] = routers[i].load[d]
    <2>1. k - 1 \in Nat /\ routers \in Seq(RouterState)  BY <1>3 DEF Inv, TypeOK
    <2> QED BY <1>4, <2>1, SetLoad
  <1>6. slot' \in [Caller -> SUBSET Backend] /\ call' \in [Caller -> Nat]
        /\ slot'[c] = {} /\ \A d \in Caller \ {c} : slot'[d] = slot[d]
    BY <1>4 DEF Inv, TypeOK
  <1>7. Slots'  BY <1>4, <1>5, <1>6 DEF Inv, Slots
  <1>8. SlotsStayWithTheirRouter'
    <2>1. \A i \in 1..Len(routers), d \in Account :
            i # r \/ d # a => Counted(i, d)' = Counted(i, d)
      BY <1>0, <1>1, <1>4, <1>6 DEF Counted
    <2>2. Counted(r, a)' = Counted(r, a) \ {c} /\ c \in Counted(r, a)
      BY <1>0, <1>1, <1>4, <1>6 DEF Counted
    <2>3. Cardinality(Counted(r, a)') = Cardinality(Counted(r, a)) - 1
      BY <2>2, CountedFinite, FS_RemoveElement
    <2>4. \A i \in 1..Len(routers), d \in Account : routers[i].load[d] = Cardinality(Counted(i, d))
      BY DEF Inv, SlotsStayWithTheirRouter, Counted
    <2>5. \A i \in 1..Len(routers), d \in Account : routers'[i].load[d] = Cardinality(Counted(i, d)')
      BY <1>2, <1>5, <2>1, <2>3, <2>4
    <2> QED BY <1>5, <2>5 DEF SlotsStayWithTheirRouter, Counted
  <1> QED BY <1>4, <1>5, <1>6, <1>7, <1>8, OneCall

-----------------------------------------------------------------------------
(* The server starts.                                                      *)

Started(c) ==
    /\ c \in Configuration
    /\ file \in Configuration /\ spoiled \in BOOLEAN
    /\ configs = <<c>> /\ routers = <<FirstRouter(c)>> /\ router = 1
    /\ step = [t \in Thread |-> "idle"] /\ request = [t \in Thread |-> None]
    /\ held = [t \in Thread |-> 0] /\ enabled = [t \in Thread |-> {}]
    /\ todo = [t \in Thread |-> {}] /\ models = [t \in Thread |-> {}]
    /\ draft = [t \in Thread |-> Refused]
    /\ call = [d \in Caller |-> 0] /\ slot = [d \in Caller |-> {}]

LEMMA StartInv == (\E c \in Configuration : Started(c)) => Inv
  <1> SUFFICES ASSUME NEW c \in Configuration, Started(c) PROVE Inv
    OBVIOUS
  <1> USE DEF Started
  <1>1. PICK first \in RouterState :
          /\ first = FirstRouter(c)
          /\ \A a \in Account : first.load[a] = 0
          /\ \A b \in Backend : first.status[b] = "out"
    <2>1. FirstRouter(c) = [on |-> c.enabled, status |-> [b \in Backend |-> "out"],
                            limit |-> c.limit, load |-> [a \in Account |-> 0]]
      BY DEF FirstRouter, NewRouter
    <2>2. FirstRouter(c) \in RouterState  BY <2>1 DEF RouterState, Configuration
    <2> QED BY <2>1, <2>2
  <1>2. routers = <<first>> /\ Len(routers) = 1 /\ routers[1] = first  BY <1>1
  <1>3. TypeOK
    <2>1. routers \in Seq(RouterState) /\ router \in 1..Len(routers)  BY <1>2
    <2>2. configs \in Seq(Configuration) /\ Len(configs) # 0  OBVIOUS
    <2> QED BY <2>1, <2>2, Assumed DEF TypeOK
  <1>4. Hands  BY DEF Hands, InHand
  <1>5. Slots  BY <1>2 DEF Slots
  <1>6. SlotsStayWithTheirRouter
    <2> SUFFICES ASSUME NEW r \in 1..Len(routers), NEW a \in Account
                 PROVE  routers[r].load[a] = Cardinality(Counted(r, a))
      BY DEF SlotsStayWithTheirRouter, Counted
    <2>1. Counted(r, a) = {}  BY DEF Counted
    <2>2. r = 1  BY <1>2
    <2> QED BY <1>1, <1>2, <2>1, <2>2, FS_EmptySet
  <1>7. Covered  BY <1>1, <1>2 DEF Covered
  <1> QED BY <1>3, <1>4, <1>5, <1>6, <1>7 DEF Inv

LEMMA RestartKeeps == ASSUME Inv, Restart PROVE Inv'
  <1>1. file \in Configuration /\ spoiled \in BOOLEAN  BY DEF Inv, TypeOK
  <1>2. PICK d \in Configuration : Started(d)'
    <2>1. ASSUME NEW d \in Configuration, d = IF file.accepted THEN file ELSE Refused
          PROVE  Started(d)'
      BY <1>1, <2>1 DEF Restart, Started
    <2>2. (IF file.accepted THEN file ELSE Refused) \in Configuration  BY <1>1, Assumed
    <2> QED BY <2>1, <2>2
  <1>3. (\E c \in Configuration : Started(c))'
    <2> SUFFICES Configuration' = Configuration
      BY <1>2
    <2> QED BY DEF Configuration
  <1> QED BY <1>3, StartInv, PTL

\* The file is nobody's but the next start's and the next reload's.
LEMMA WriteByHandKeeps ==
  ASSUME Inv, NEW f \in Edits \cup {Refused}, WriteByHand(f) PROVE Inv'
  <1>1. /\ file' = f /\ f \in Configuration /\ spoiled' = (spoiled \/ ~f.accepted)
        /\ UNCHANGED <<configs, routers, router, step, request, held, enabled, todo, models, draft,
                       call, slot>>
    BY Assumed DEF WriteByHand, tables, hands, calls
  <1>2. TypeOK'
    <2>1. spoiled' \in BOOLEAN  BY <1>1
    <2> QED BY <1>1, <2>1 DEF Inv, TypeOK
  <1>3. Hands'  BY <1>1 DEF Inv, Hands, InHand
  <1>4. Slots'  BY <1>1 DEF Inv, Slots
  <1>5. SlotsStayWithTheirRouter'  BY <1>1 DEF Inv, SlotsStayWithTheirRouter
  <1>6. Covered'  BY <1>1 DEF Inv, Covered, WillJudge
  <1> QED BY <1>2, <1>3, <1>4, <1>5, <1>6 DEF Inv

-----------------------------------------------------------------------------
THEOREM Invariance == Spec => []Inv
  <1>1. Init => Inv
    <2> SUFFICES ASSUME Init PROVE Inv
      OBVIOUS
    <2>1. Started(Settings)  BY Assumed DEF Init, Started
    <2> QED BY <2>1, StartInv, Assumed
  <1>2. Inv /\ [Next]_vars => Inv'
    <2> SUFFICES ASSUME Inv, [Next]_vars PROVE Inv'
      OBVIOUS
    <2>1. ASSUME NEW t \in Thread, Request(t) PROVE Inv'
      <3>1. ASSUME NEW b \in Backend, NEW on \in BOOLEAN, Switch(t, b, on) PROVE Inv'
        <4>1. PICK what \in SwitchRequest : Begin(t, "switch", what)
          BY <3>1 DEF Switch, Find, SwitchRequest
        <4>2. held' = [held EXCEPT ![t] = Len(configs)]  BY <3>1 DEF Switch, Find
        <4> QED BY <4>1, <4>2, BeginKeeps
      <3>2. ASSUME NEW a \in Account, NEW n \in Limits, SetLimit(t, a, n) PROVE Inv'
        <4>1. PICK what \in LimitRequest : Begin(t, "limit", what)
          BY <3>2 DEF SetLimit, Find, LimitRequest
        <4>2. held' = [held EXCEPT ![t] = Len(configs)]  BY <3>2 DEF SetLimit, Find
        <4> QED BY <4>1, <4>2, BeginKeeps
      <3>3. CASE Save(t)
        <4>1. Begin(t, "dump", None) /\ held' = held  BY <3>3 DEF Save
        <4> QED BY <4>1, BeginKeeps
      <3>4. CASE Reload(t)
        <4>1. Begin(t, "read", None) /\ held' = held  BY <3>4 DEF Reload
        <4> QED BY <4>1, BeginKeeps
      <3> QED BY <2>1, <3>1, <3>2, <3>3, <3>4 DEF Request
    <2>2. ASSUME NEW t \in Thread, HandlerStep(t) PROVE Inv'
      <3>1. CASE JudgesNothing(t) \/ SaveFails(t) \/ ReloadFails(t) \/ BuildFails(t)
        <4>1. /\ Return(t) /\ UNCHANGED <<file, spoiled, configs, tables>>
              /\ step[t] \notin {"list", "load", "loadStatus"}
          BY <3>1 DEF JudgesNothing, SaveFails, ReloadFails, BuildFails, store
        <4>2. file' \in Configuration  BY <4>1 DEF Inv, TypeOK
        <4> QED BY <4>1, <4>2, ReturnKeeps
      <3>2. CASE Replace(t)
        <4>1. /\ Return(t) /\ UNCHANGED <<spoiled, configs, tables>>
              /\ step[t] \notin {"list", "load", "loadStatus"}
          BY <3>2 DEF Replace
        <4>2. file' \in Configuration  BY <3>2 DEF Replace, Inv, TypeOK
        <4> QED BY <4>1, <4>2, ReturnKeeps
      <3> QED BY <2>2, <3>1, <3>2, WriteSwitchKeeps, TellSwitchKeeps, JudgeSwitchKeeps,
                 WriteLimitKeeps, TellLimitKeeps, DumpKeeps, ReadFileKeeps, BuildKeeps,
                 PublishKeeps, ListModelsKeeps, LoadSwitchKeeps, LoadStatusKeeps DEF HandlerStep
    <2>3. ASSUME NEW c \in Caller, CallStep(c) PROVE Inv'
      BY <2>3, EnterKeeps, AcquireKeeps, ReleaseKeeps DEF CallStep
    <2>4. ASSUME NEW b \in Backend, Judged(b, "running") \/ Judged(b, "out") PROVE Inv'
      BY <2>4, JudgedKeeps
    <2>5. CASE UNCHANGED vars
      <3>1. UNCHANGED <<file, spoiled, configs, routers, router, step, request, held, enabled,
                        todo, models, draft,
                        call, slot>>
        BY <2>5 DEF vars, store, tables, hands, calls
      <3>2. TypeOK'  BY <3>1 DEF Inv, TypeOK
      <3>3. Hands'  BY <3>1 DEF Inv, Hands, InHand
      <3>4. Slots'  BY <3>1 DEF Inv, Slots
      <3>5. SlotsStayWithTheirRouter'  BY <3>1 DEF Inv, SlotsStayWithTheirRouter
      <3>6. Covered'  BY <3>1 DEF Inv, Covered, WillJudge
      <3> QED BY <3>2, <3>3, <3>4, <3>5, <3>6 DEF Inv
    <2> QED BY <2>1, <2>2, <2>3, <2>4, <2>5, RestartKeeps, WriteByHandKeeps DEF Next
  <1> QED BY <1>1, <1>2, PTL DEF Spec

\* Every state of the configuration, the routers and the requests is well
\* typed.
THEOREM TypeCorrect == Spec => []TypeOK
  <1>1. Inv => TypeOK  BY DEF Inv
  <1> QED BY <1>1, Invariance, PTL

\* What is in memory, and what a save has written out, is accepted too.
Whole ==
    spoiled \/ /\ file.accepted
               /\ \A i \in 1..Len(configs) : configs[i].accepted
               /\ \A t \in Thread : step[t] = "replace" => draft[t].accepted

\* The steps that leave the file, the configurations and the drafts alone.
LEMMA WholeKeeps ==
  ASSUME Inv, Whole, UNCHANGED <<file, spoiled, configs>>,
         \A t \in Thread : step'[t] = "replace" => step[t] = "replace" /\ draft'[t] = draft[t]
  PROVE  Whole'
  BY DEF Whole

LEMMA ReturnWhole ==
  ASSUME Inv, NEW t \in Thread, Return(t)
  PROVE  \A u \in Thread : step'[u] = "replace" => step[u] = "replace" /\ draft'[u] = draft[u]
  BY DEF Return, Inv, TypeOK

LEMMA GotoWhole ==
  ASSUME Inv, NEW t \in Thread, NEW s \in STRING, s # "replace", step' = [step EXCEPT ![t] = s],
         draft' = draft
  PROVE  \A u \in Thread : step'[u] = "replace" => step[u] = "replace" /\ draft'[u] = draft[u]
  BY DEF Inv, TypeOK

LEMMA ChangedWhole ==
  ASSUME Inv, Whole, NEW t \in Thread, WriteSwitch(t) \/ WriteLimit(t) PROVE Whole'
  <1>1. /\ held[t] \in 1..Len(configs) /\ configs \in Seq(Configuration)
        /\ UNCHANGED <<file, spoiled, draft>>
        /\ \E s \in {"tell", "tellLimit"} : step' = [step EXCEPT ![t] = s]
    BY DEF WriteSwitch, WriteLimit, Inv, Hands, InHand, TypeOK, Goto, hands
  <1>2. PICK c : configs' = [configs EXCEPT ![held[t]] = c] /\ c.accepted = configs[held[t]].accepted
    <2>0. configs[held[t]] \in Configuration  BY <1>1, ElementOfSeq
    <2>1. CASE WriteSwitch(t)
      <3>1. PICK on : configs' = [configs EXCEPT ![held[t]].enabled = on]
        BY <2>1 DEF WriteSwitch
      <3>2. configs' = [configs EXCEPT ![held[t]] = [configs[held[t]] EXCEPT !.enabled = on]]
        BY <3>1
      <3>3. [configs[held[t]] EXCEPT !.enabled = on].accepted = configs[held[t]].accepted
        BY <2>0 DEF Configuration
      <3> QED BY <3>2, <3>3
    <2>2. CASE WriteLimit(t)
      <3>1. PICK a, m : configs' = [configs EXCEPT ![held[t]].limit[a] = m]
        BY <2>2 DEF WriteLimit
      <3>2. configs' = [configs EXCEPT ![held[t]] =
                           [configs[held[t]] EXCEPT !.limit = [@ EXCEPT ![a] = m]]]
        BY <3>1
      <3>3. [configs[held[t]] EXCEPT !.limit = [@ EXCEPT ![a] = m]].accepted
              = configs[held[t]].accepted
        BY <2>0 DEF Configuration
      <3> QED BY <3>2, <3>3
    <2> QED BY <2>1, <2>2
  <1>3. /\ Len(configs') = Len(configs)
        /\ \A i \in 1..Len(configs) : configs'[i].accepted = configs[i].accepted
    BY <1>1, <1>2
  <1>4. \A u \in Thread : step'[u] = "replace" => step[u] = "replace" /\ draft'[u] = draft[u]
    BY <1>1, GotoWhole
  <1> QED BY <1>1, <1>3, <1>4 DEF Whole

\* The file is a configuration that the server accepts, at every moment at which
\* it may be killed and with any number of saves at once, unless somebody wrote
\* one that it refuses.
THEOREM FileIsWhole == Spec => []RestartsConfigured
  <1>1. Init => Whole
    BY Assumed DEF Init, Whole
  <1>2. Inv /\ Whole /\ [Next]_vars => Whole'
    <2> SUFFICES ASSUME Inv, Whole, [Next]_vars PROVE Whole'
      OBVIOUS
    <2>1. ASSUME NEW t \in Thread, Request(t) PROVE Whole'
      <3>1. PICK s \in {"switch", "limit", "dump", "read"} : step' = [step EXCEPT ![t] = s]
        BY <2>1 DEF Request, Switch, SetLimit, Find, Save, Reload, Begin
      <3>2. UNCHANGED <<file, spoiled, configs, draft>>
        BY <2>1 DEF Request, Switch, SetLimit, Find, Save, Reload, Begin, store
      <3> QED BY <3>1, <3>2, GotoWhole, WholeKeeps
    <2>2. ASSUME NEW t \in Thread, HandlerStep(t) PROVE Whole'
      <3>1. CASE JudgesNothing(t) \/ SaveFails(t) \/ ReloadFails(t) \/ BuildFails(t)
                 \/ JudgeSwitch(t) \/ TellLimit(t)
        <4>1. Return(t) /\ UNCHANGED <<file, spoiled, configs>>
          BY <3>1 DEF JudgesNothing, SaveFails, ReloadFails, BuildFails, JudgeSwitch, TellLimit, store
        <4> QED BY <4>1, ReturnWhole, WholeKeeps
      <3>2. CASE TellSwitch(t) \/ Build(t) \/ Publish(t) \/ ListModels(t)
                 \/ \E b \in Backend : LoadSwitch(t, b)
        <4>1. /\ \E s \in {"judge", "publish", "list", "load", "loadStatus"} :
                    step' = [step EXCEPT ![t] = s]
              /\ UNCHANGED <<file, spoiled, configs, draft>>
          BY <3>2 DEF TellSwitch, Build, Publish, ListModels, LoadSwitch, Goto, store, hands
        <4> QED BY <4>1, GotoWhole, WholeKeeps
      <3>3. CASE LoadStatus(t)
        <4>1. UNCHANGED <<file, spoiled, configs>>  BY <3>3 DEF LoadStatus, store
        <4>2. CASE Return(t)  BY <4>1, <4>2, ReturnWhole, WholeKeeps
        <4>3. CASE ~Return(t)
          <5>1. (\E s \in {"list", "load"} : step' = [step EXCEPT ![t] = s]) /\ draft' = draft
            BY <3>3, <4>3 DEF LoadStatus
          <5> QED BY <4>1, <5>1, GotoWhole, WholeKeeps
        <4> QED BY <4>2, <4>3
      <3>4. CASE Dump(t)
        <4>1. /\ step' = [step EXCEPT ![t] = "replace"] /\ draft' = [draft EXCEPT ![t] = Config]
              /\ UNCHANGED <<file, spoiled, configs>>
          BY <3>4 DEF Dump, Goto, store
        <4>2. spoiled \/ Config.accepted
          <5>1. Len(configs) \in 1..Len(configs)  BY DEF Inv, TypeOK
          <5> QED BY <5>1 DEF Whole, Config
        <4>3. draft'[t] = Config /\ \A u \in Thread \ {t} : draft'[u] = draft[u] /\ step'[u] = step[u]
          BY <4>1 DEF Inv, TypeOK
        <4> QED BY <4>1, <4>2, <4>3 DEF Whole
      <3>5. CASE Replace(t)
        <4>1. Return(t) /\ file' = draft[t] /\ UNCHANGED <<spoiled, configs>> /\ step[t] = "replace"
          BY <3>5 DEF Replace
        <4>2. \A u \in Thread : step'[u] = "replace" => step[u] = "replace" /\ draft'[u] = draft[u]
          BY <4>1, ReturnWhole
        <4> QED BY <4>1, <4>2 DEF Whole
      <3>6. CASE ReadFile(t)
        <4>1. /\ configs' = Append(configs, file) /\ UNCHANGED <<file, spoiled, draft>>
              /\ step' = [step EXCEPT ![t] = "build"]
          BY <3>6 DEF ReadFile, Goto, hands
        <4>2. \A i \in 1..Len(configs') :
                configs'[i] = file \/ (i \in 1..Len(configs) /\ configs'[i] = configs[i])
          BY <4>1 DEF Inv, TypeOK
        <4>3. \A u \in Thread : step'[u] = "replace" => step[u] = "replace" /\ draft'[u] = draft[u]
          BY <4>1, GotoWhole
        <4> QED BY <4>1, <4>2, <4>3 DEF Whole
      <3> QED BY <2>2, <3>1, <3>2, <3>3, <3>4, <3>5, <3>6, ChangedWhole DEF HandlerStep
    <2>3. ASSUME NEW c \in Caller, CallStep(c) PROVE Whole'
      <3>1. UNCHANGED <<file, spoiled, configs, step, draft>>
        BY <2>3 DEF CallStep, Enter, Acquire, Release, Leave, store, hands
      <3> QED BY <3>1, WholeKeeps
    <2>4. ASSUME NEW b \in Backend, Judged(b, "running") \/ Judged(b, "out") PROVE Whole'
      <3>1. UNCHANGED <<file, spoiled, configs, step, draft>>
        BY <2>4 DEF Judged, store, hands
      <3> QED BY <3>1, WholeKeeps
    <2>5. ASSUME NEW f \in Edits \cup {Refused}, WriteByHand(f) PROVE Whole'
      <3>1. /\ file' = f /\ spoiled' = (spoiled \/ ~f.accepted)
            /\ UNCHANGED <<configs, step, draft>>
        BY <2>5 DEF WriteByHand, hands
      <3>2. CASE spoiled  BY <3>1, <3>2 DEF Whole
      <3>3. CASE ~f.accepted  BY <3>1, <3>3 DEF Whole
      <3>4. CASE ~spoiled /\ f.accepted  BY <3>1, <3>4 DEF Whole
      <3> QED BY <3>2, <3>3, <3>4
    <2>6. CASE Restart
      <3>1. /\ configs' = <<IF file.accepted THEN file ELSE Refused>>
            /\ UNCHANGED <<file, spoiled>> /\ \A t \in Thread : step'[t] = "idle"
        BY <2>6 DEF Restart
      <3>2. CASE spoiled  BY <3>1, <3>2 DEF Whole
      <3>3. CASE file.accepted
        <4>1. configs' = <<file>>  BY <3>1, <3>3
        <4>2. Len(configs') = 1 /\ configs'[1] = file  BY <4>1
        <4> QED BY <3>1, <3>3, <4>2 DEF Whole
      <3> QED BY <3>2, <3>3 DEF Whole
    <2>7. CASE UNCHANGED vars
      <3>1. UNCHANGED <<file, spoiled, configs, step, draft>>
        BY <2>7 DEF vars, store, hands
      <3> QED BY <3>1, WholeKeeps
    <2> QED BY <2>1, <2>2, <2>3, <2>4, <2>5, <2>6, <2>7 DEF Next
  <1>3. Whole => RestartsConfigured  BY DEF Whole, RestartsConfigured
  <1> QED BY <1>1, <1>2, <1>3, Invariance, PTL DEF Spec

\* A slot goes back to the router it was taken from, however many reloads there
\* have been.
THEOREM SlotsStay == Spec => []SlotsStayWithTheirRouter
  <1>1. Inv => SlotsStayWithTheirRouter  BY DEF Inv
  <1> QED BY <1>1, Invariance, PTL

\* Reloads that have all ended leave no backend unjudged, with any number of
\* them at once.
THEOREM BackendsJudged == Spec => []AllJudged
  <1>1. Inv => AllJudged  BY DEF Inv, Covered, WillJudge, AllJudged, Reloading
  <1> QED BY <1>1, Invariance, PTL
=============================================================================
