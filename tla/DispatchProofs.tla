--------------------------- MODULE DispatchProofs ---------------------------
(***************************************************************************)
(* The router keeps the slot discipline of AccountSlots for every number   *)
(* of threads, backends and accounts: each step of a call is a step of     *)
(* AccountSlots or leaves its variables alone.                             *)
(***************************************************************************)
EXTENDS Dispatch, FiniteSetTheorems, TLAPS

Labels == {"idle", "select", "ring", "scan", "recheck", "calling", "marked", "giveup"}
              \cup Outcome

Holding == {"recheck", "calling"}

\* A thread holds the slot of its selected backend between the selection and
\* the release, and no slot anywhere else in call().
HoldsItsSelection ==
    \A c \in Caller :
        /\ pc[c] \in Holding => selected[c] \in Backend /\ holds[c] = selected[c]
        /\ pc[c] \notin Holding => holds[c] = NoBackend

Inv ==
    /\ pc \in [Caller -> Labels]
    /\ selected \in [Caller -> Backend \cup {NoBackend}]
    /\ holds \in [Caller -> Backend \cup {NoBackend}]
    /\ HoldsItsSelection

LEMMA InitInv == Init => Inv
  BY DispatchAssumption
  DEF Init, Slots!Init, Inv, HoldsItsSelection, Holding, Labels, Outcome,
      Slots!SlotsAssumption

\* A thread that is at label l and moves to label m, neither of them one where
\* a slot is held, keeps the invariant.
LEMMA IdleStep ==
    ASSUME Inv, NEW c \in Caller, NEW m \in Labels,
           pc[c] \notin Holding, m \notin Holding,
           pc' = [pc EXCEPT ![c] = m],
           \/ selected' = selected
           \/ selected' = [selected EXCEPT ![c] = NoBackend],
           holds' = holds
    PROVE  Inv'
  BY DEF Inv, HoldsItsSelection, Holding

LEMMA ReleasingStep ==
    ASSUME Inv, NEW c \in Caller, NEW m \in Labels,
           pc[c] \in Holding, m \notin Holding,
           pc' = [pc EXCEPT ![c] = m],
           \/ selected' = selected
           \/ selected' = [selected EXCEPT ![c] = NoBackend],
           Slots!GiveBack(c, selected[c])
    PROVE  Inv' /\ Slots!Release(c)
<1>1. holds[c] = selected[c] /\ selected[c] \in Backend /\ selected[c] # NoBackend
  BY DispatchAssumption DEF Inv, HoldsItsSelection, Slots!SlotsAssumption
<1>2. Slots!Release(c)
  BY <1>1 DEF Slots!Release
<1>3. holds' = [holds EXCEPT ![c] = NoBackend]
  BY DEF Slots!GiveBack
<1>4. Inv'
  BY <1>3 DEF Inv, HoldsItsSelection, Holding
<1> QED
  BY <1>2, <1>4

\* What a step of Dispatch does to the slots
SlotStep == Slots!Next \/ UNCHANGED Slots!vars

LEMMA CallerStep ==
    ASSUME Inv, NEW c \in Caller, CallerNext(c)
    PROVE  Inv' /\ SlotStep
<1> USE DEF GoTo
<1>1. CASE Select(c)
  <2>1. Inv'
    BY <1>1, IdleStep, Zenon DEF Select, slotVars, Holding, Labels, Outcome
  <2> QED
    BY <1>1, <2>1 DEF Select, slotVars, SlotStep, Slots!vars
<1>2. CASE LockRing(c)
  <2>1. Inv'
    BY <1>2, IdleStep, Zenon DEF LockRing, slotVars, Holding, Labels, Outcome
  <2> QED
    BY <1>2, <2>1 DEF LockRing, slotVars, SlotStep, Slots!vars
<1>3. CASE TakeSlot(c)
  <2>1. PICK b \in Backend :
            Slots!Take(c, b) /\ selected' = [selected EXCEPT ![c] = b]
    BY <1>3 DEF TakeSlot
  <2>2. pc[c] = "scan" /\ pc' = [pc EXCEPT ![c] = "recheck"] /\ holds[c] = NoBackend
    BY <1>3 DEF TakeSlot, Inv, HoldsItsSelection, Holding
  <2>3. Slots!Acquire(c, b)
    BY <2>1, <2>2 DEF Slots!Acquire
  <2>4. holds' = [holds EXCEPT ![c] = b]
    BY <2>1 DEF Slots!Take
  <2>5. Inv'
    BY <2>1, <2>2, <2>4 DEF Inv, HoldsItsSelection, Holding, Labels, Outcome
  <2> QED
    BY <2>3, <2>5 DEF SlotStep, Slots!Next
<1>4. CASE SkipSlot(c)
  <2>1. PICK b \in Backend : Slots!QueryRetryAfter(AccountOf[b])
    BY <1>4 DEF SkipSlot
  <2>2. AccountOf[b] \in Account
    BY DispatchAssumption DEF Slots!SlotsAssumption
  <2>3. SlotStep
    BY <2>1, <2>2 DEF SlotStep, Slots!Next
  <2>4. pc[c] = "scan" /\ (pc' = pc \/ pc' = [pc EXCEPT ![c] = "giveup"])
        /\ selected' = selected
    BY <1>4 DEF SkipSlot
  <2>5. holds' = holds
    BY <2>1 DEF Slots!QueryRetryAfter
  <2>6. Inv'
    BY <2>4, <2>5 DEF Inv, HoldsItsSelection, Holding, Labels, Outcome
  <2> QED
    BY <2>3, <2>6
<1>5. CASE Proceed(c)
  <2>1. Inv'
    BY <1>5 DEF Proceed, slotVars, Inv, HoldsItsSelection, Holding, Labels, Outcome
  <2> QED
    BY <1>5, <2>1 DEF Proceed, slotVars, SlotStep, Slots!vars
<1>6. CASE Withdraw(c)
  <2>1. Inv' /\ Slots!Release(c)
    BY <1>6, ReleasingStep, Zenon DEF Withdraw, FallBack, Holding, Labels, Outcome
  <2> QED
    BY <2>1 DEF SlotStep, Slots!Next
<1>7. CASE Reject(c)
  <2>1. Inv' /\ Slots!Release(c)
    BY <1>7, ReleasingStep, Zenon DEF Reject, Return, Holding, Labels, Outcome
  <2> QED
    BY <2>1 DEF SlotStep, Slots!Next
<1>8. CASE ClientAnswers(c)
  <2>1. PICK m \in Outcome : pc' = [pc EXCEPT ![c] = m]
    BY <1>8 DEF ClientAnswers
  <2>2. m \in Labels /\ m \notin Holding
    BY <2>1 DEF Labels, Outcome, Holding
  <2>3. Inv' /\ Slots!Release(c)
    BY <1>8, <2>1, <2>2, ReleasingStep, Zenon DEF ClientAnswers, Holding
  <2> QED
    BY <2>3 DEF SlotStep, Slots!Next
<1>9. CASE Succeed(c) \/ EndEmpty(c) \/ GiveUp(c)
  <2>1. Inv'
    BY <1>9, IdleStep
    DEF Succeed, EndEmpty, GiveUp, Return, slotVars, Holding, Labels, Outcome
  <2> QED
    BY <1>9, <2>1 DEF Succeed, EndEmpty, GiveUp, slotVars, SlotStep, Slots!vars
<1>10. CASE Fail(c) \/ MarkQuota(c) \/ MarkStatus(c)
  <2>1. Inv'
    BY <1>10, IdleStep
    DEF Fail, MarkQuota, MarkStatus, FallBack, slotVars, Holding, Labels, Outcome
  <2> QED
    BY <1>10, <2>1 DEF Fail, MarkQuota, MarkStatus, slotVars, SlotStep, Slots!vars
<1> QED
  BY <1>1, <1>2, <1>3, <1>4, <1>5, <1>6, <1>7, <1>8, <1>9, <1>10 DEF CallerNext

\* The operators never touch the locals of a call nor its slot.
LEMMA OperatorStep ==
    ASSUME Inv,
           \/ \E b \in Backend : Disable(b) \/ BeginProbe(b) \/ EndProbe(b)
           \/ ResetAll
           \/ \E a \in Account, n \in 1..MaxLimit : SetAccountLimit(a, n)
           \/ Tick
    PROVE  Inv' /\ SlotStep
<1>1. pc' = pc /\ selected' = selected /\ holds' = holds
  BY DEF Disable, BeginProbe, EndProbe, ResetAll, SetAccountLimit, Tick, callVars,
         slotVars, Slots!SetAccountLimit, Slots!Tick
<1>2. Inv'
  BY <1>1 DEF Inv, HoldsItsSelection
<1>3. SlotStep
  BY DEF Disable, BeginProbe, EndProbe, ResetAll, SetAccountLimit, Tick,
         slotVars, SlotStep, Slots!Next, Slots!vars
<1> QED
  BY <1>2, <1>3

LEMMA Step == Inv /\ [Next]_vars => Inv' /\ SlotStep
<1> SUFFICES ASSUME Inv, [Next]_vars PROVE Inv' /\ SlotStep
  OBVIOUS
<1>1. CASE \E c \in Caller : StartCall(c)
  <2>1. PICK c \in Caller : StartCall(c)
    BY <1>1
  <2>2. Inv'
    BY <2>1, IdleStep, Zenon DEF StartCall, GoTo, slotVars, Holding, Labels, Outcome
  <2> QED
    BY <2>1, <2>2 DEF StartCall, slotVars, SlotStep, Slots!vars
<1>2. CASE \E c \in Caller : CallerNext(c)
  BY <1>2, CallerStep
<1>3. CASE \/ \E b \in Backend : Disable(b) \/ BeginProbe(b) \/ EndProbe(b)
           \/ ResetAll
           \/ \E a \in Account, n \in 1..MaxLimit : SetAccountLimit(a, n)
           \/ Tick
  BY <1>3, OperatorStep
<1>4. CASE UNCHANGED vars
  BY <1>4 DEF vars, slotVars, callVars, Inv, HoldsItsSelection, SlotStep, Slots!vars
<1> QED
  BY <1>1, <1>2, <1>3, <1>4 DEF Next

\* The states reachable by any interleaving of calls and interventions have
\* every slot in the hands of the thread that selected it.
THEOREM SlotOfSelection == Spec => []Inv
<1>1. Init => Inv
  BY InitInv
<1>2. Inv /\ [Next]_vars => Inv'
  BY Step
<1> QED
  BY <1>1, <1>2, PTL DEF Spec

\* LLMRouter.call is a correct user of BackendConcurrencyManager: it takes no
\* slot while it holds one and gives each one back exactly once.
THEOREM ImplementsSlots == Spec => SlotsSpec
<1>1. Init => Slots!Init
  BY DEF Init
<1>2. Inv /\ [Next]_vars => [Slots!Next]_(Slots!vars)
  BY Step DEF SlotStep
<1> QED
  BY <1>1, <1>2, SlotOfSelection, PTL DEF Spec, SlotsSpec, Slots!Spec

-----------------------------------------------------------------------------
(***************************************************************************)
(* The ring.  Its entries are counted by position, so a scan that has not  *)
(* looked at all of them finds the next one.  The library's theorems on    *)
(* well-founded orders speak of sets and not of an operator: a least       *)
(* counterexample stands in for induction.                                 *)
(***************************************************************************)

\* Every set of natural numbers has a least element.
LEMMA LeastNatural ==
    ASSUME NEW S \in SUBSET Nat, S # {}
    PROVE  \E m \in S : \A k \in S : m <= k
  <1> DEFINE less == {ss \in Nat \X Nat : ss[1] < ss[2]}
  <1>1. IsWellFoundedOn(less, Nat)
    BY NatLessThanWellFounded, Zenon DEF OpToRel
  <1>2. PICK m \in S : \A k \in S : ~(<<k, m>> \in less)
    <2> HIDE DEF less
    <2> QED BY <1>1, WFMin
  <1>3. ASSUME NEW k \in S PROVE m <= k
    <2>1. CASE k < m
      <3>1. <<k, m>> \in Nat \X Nat /\ <<k, m>>[1] < <<k, m>>[2]  BY <2>1
      <3>2. <<k, m>> \in less  BY <3>1
      <3> QED BY <1>2, <3>2
    <2> QED BY <2>1
  <1> QED BY <1>3

\* A finite set of numbers has a member of every rank.
LEMMA RankExists ==
    ASSUME NEW R \in SUBSET Nat, IsFiniteSet(R), NEW n \in Nat, n < Cardinality(R)
    PROVE  \E i \in R : Cardinality({j \in R : j < i}) = n
  <1> DEFINE Below(i) == {j \in R : j < i}
             Ranked(k) == \E i \in R : Cardinality(Below(i)) = k
             Bad == {k \in Nat : k < Cardinality(R) /\ ~Ranked(k)}
  <1>1. SUFFICES ASSUME Bad # {} PROVE FALSE
    OBVIOUS
  <1>2. PICK k \in Bad : \A l \in Bad : k <= l
    <2>1. Bad \in SUBSET Nat  OBVIOUS
    <2> HIDE DEF Bad
    <2> QED BY <1>1, <2>1, LeastNatural
  <1>3. Cardinality(R) \in Nat  BY FS_CardinalityType
  \* what lies below the least element of R that T leaves out is T
  <1>4. ASSUME NEW T \in SUBSET R, Cardinality(T) = k,
               \A i \in T : \A j \in R : j < i => j \in T
        PROVE  FALSE
    <2>1. R \ T # {}
      <3>1. k \in Nat /\ k < Cardinality(R)  BY <1>2
      <3>2. T # R  BY <1>3, <1>4, <3>1
      <3> QED BY <3>2
    <2>2. PICK i \in R \ T : \A j \in R \ T : i <= j
      <3>1. R \ T \in SUBSET Nat  OBVIOUS
      <3> QED BY <2>1, <3>1, LeastNatural
    <2>3. Below(i) = T
      <3>1. ASSUME NEW j \in T PROVE j < i  BY <1>4, <2>2
      <3>2. ASSUME NEW j \in R, j < i PROVE j \in T  BY <2>2, <3>2
      <3> QED BY <3>1, <3>2
    <2> QED BY <1>2, <1>4, <2>3
  <1>5. CASE k = 0
    <2>1. Cardinality({}) = k  BY <1>5, FS_EmptySet
    <2> QED BY <1>4, <2>1
  <1>6. CASE k # 0
    <2>1. k - 1 \in Nat /\ k - 1 < Cardinality(R) /\ k - 1 \notin Bad  BY <1>2, <1>3, <1>6
    <2>2. PICK i \in R : Cardinality(Below(i)) = k - 1  BY <2>1
    <2>3. Cardinality(Below(i) \cup {i}) = k
      <3>1. IsFiniteSet(Below(i)) /\ i \notin Below(i)  BY FS_Subset
      <3>2. Cardinality(Below(i) \cup {i}) = Cardinality(Below(i)) + 1
        <4> HIDE DEF Below
        <4> QED BY <3>1, FS_AddElement
      <3>3. k \in Nat  BY <1>2
      <3> QED BY <2>2, <3>2, <3>3
    <2>4. Below(i) \cup {i} \in SUBSET R  OBVIOUS
    <2>5. ASSUME NEW h \in Below(i) \cup {i}, NEW j \in R, j < h
          PROVE  j \in Below(i) \cup {i}
      BY <2>5
    <2> HIDE DEF Below
    <2> QED BY <1>4, <2>3, <2>4, <2>5
  <1> QED BY <1>5, <1>6

LEMMA RingIsFinite ==
    ASSUME NEW c \in Caller
    PROVE  IsFiniteSet(Ring(c)) /\ Ring(c) \in SUBSET Nat
  <1>1. PICK n \in Nat : DOMAIN WeightedModels = 1..n
    BY DispatchAssumption
  <1>2. IsFiniteSet(1..n)
    <2>1. 1 \in Int /\ n \in Int  OBVIOUS
    <2> QED BY <2>1, FS_Interval, Zenon
  <1>3. Ring(c) \subseteq 1..n
    BY <1>1 DEF Ring
  <1>4. IsFiniteSet(Ring(c))
    BY <1>2, <1>3, FS_Subset, Zenon
  <1>5. 1..n \subseteq Nat
    OBVIOUS
  <1> QED BY <1>3, <1>4, <1>5

\* Some entry is available to a call with a backend to choose from, and the
\* scan is always at such an entry.
LEMMA RingIsThere ==
    ASSUME NEW c \in Caller, call[c].avail \in SUBSET Backend, call[c].avail # {}
    PROVE  Cardinality(Ring(c)) \in Nat /\ Cardinality(Ring(c)) > 0
  <1>1. IsFiniteSet(Ring(c))
    BY RingIsFinite
  <1>2. Ring(c) # {}
    BY DispatchAssumption DEF Ring
  <1>3. Cardinality(Ring(c)) \in Nat /\ Cardinality(Ring(c)) # 0
    BY <1>1, <1>2, FS_CardinalityType, FS_EmptySet
  <1> QED BY <1>3

LEMMA ScanFindsOne ==
    ASSUME NEW c \in Caller, call[c].avail \in SUBSET Backend, call[c].avail # {},
           cursor \in Nat, call[c].offset \in Nat
    PROVE  AtPosition(c) \in call[c].avail /\ Position(c) \in Nat
  <1>1. IsFiniteSet(Ring(c)) /\ Ring(c) \in SUBSET Nat
    BY RingIsFinite
  <1>2. Position(c) \in Nat /\ Position(c) < Cardinality(Ring(c))
    BY RingIsThere DEF Position
  <1>3. \E i \in Ring(c) : Cardinality({j \in Ring(c) : j < i}) = Position(c)
    BY <1>1, <1>2, RankExists
  <1>4. \E i \in Ring(c) : AtPosition(c) = WeightedModels[i]
    BY <1>3 DEF AtPosition
  <1> QED BY <1>2, <1>4 DEF Ring

-----------------------------------------------------------------------------
(***************************************************************************)
(* The locals of a call and the state of the backends.                     *)
(***************************************************************************)
Locals == [avail : SUBSET Backend, offset : Nat, failed : SUBSET Backend,
           busy : SUBSET Backend, err : {"none", "error", "quota"}]

Answers == {"none", "ok", "empty", "rejected", "busy", "failed", "unavailable"}

CallTypeOK ==
    /\ cursor \in Nat
    /\ lock \in Caller \cup {NoCaller}
    /\ call \in [Caller -> Locals]
    /\ answer \in [Caller -> Answers]
    /\ calls \in [Caller -> 0..MaxCalls]

BackendTypeOK ==
    /\ enabled \in [Backend -> BOOLEAN]
    /\ status \in [Backend -> Status]
    /\ failures \in [Backend -> Nat]
    /\ exhausted \in SUBSET Account
    /\ probing \in SUBSET Backend
    /\ ops \in 0..MaxOps

NotSelected == {"idle", "select", "ring", "scan", "giveup"}

\* Where a call is, and what it knows there: it scans with the ring locked and
\* entries left to look at, and none of the backends it may take was given up.
Turn(c) ==
    /\ lock = c <=> pc[c] = "scan"
    /\ pc[c] \in {"ring", "scan"} =>
          call[c].avail # {} /\ call[c].avail \cap call[c].failed = {}
    /\ pc[c] # "scan" => call[c].offset = 0
    /\ pc[c] = "scan" => call[c].offset < Cardinality(Ring(c))
    /\ pc[c] \in NotSelected <=> selected[c] = NoBackend
    /\ selected[c] \notin call[c].failed

Turns == \A c \in Caller : Turn(c)

RouterInv == Inv /\ CallTypeOK /\ BackendTypeOK /\ Turns

LEMMA MembersAreTold ==
    ASSUME NEW S, NEW T, NEW f, f = [x \in S |-> x \in T]
    PROVE  f \in [S -> BOOLEAN]
  OBVIOUS

LEMMA RouterInit == Init => RouterInv
  <1> SUFFICES ASSUME Init PROVE RouterInv
    OBVIOUS
  <1>1. Inv  BY InitInv
  <1>2. CallTypeOK
    BY DispatchAssumption DEF Init, NoLocals, CallTypeOK, Locals, Answers
  <1>3. BackendTypeOK
    <2>0. InitBackends("probing")
      BY DEF Init
    <2>1. enabled \in [Backend -> BOOLEAN]
      <3>1. enabled = [b \in Backend |-> b \in InitEnabled]
        BY <2>0 DEF InitBackends
      <3> QED BY <3>1, MembersAreTold
    <2>2. status \in [Backend -> Status]
      <3>1. \A b \in Backend : status[b] \in Status
        BY <2>0 DEF InitBackends, Status
      <3> QED BY <2>0, <3>1 DEF InitBackends
    <2>3. failures \in [Backend -> Nat] /\ exhausted \in SUBSET Account
      BY <2>0 DEF InitBackends
    <2>4. probing \in SUBSET Backend /\ ops \in 0..MaxOps
      BY DispatchAssumption DEF Init
    <2> QED BY <2>1, <2>2, <2>3, <2>4 DEF BackendTypeOK
  <1>4. Turns
    BY DispatchAssumption DEF Init, NoLocals, Turns, Turn, NotSelected
  <1> QED BY <1>1, <1>2, <1>3, <1>4 DEF RouterInv

\* A step of one call leaves the others where they were.
Alone(c) ==
    /\ \A d \in Caller \ {c} :
          pc'[d] = pc[d] /\ call'[d] = call[d] /\ selected'[d] = selected[d]
    /\ \/ lock' = lock
       \/ lock = NoCaller /\ lock' = c
       \/ lock = c /\ lock' = NoCaller

LEMMA OthersTurn ==
    ASSUME Turns, NEW c \in Caller, Alone(c), Turn(c)'
    PROVE  Turns'
  <1> SUFFICES ASSUME NEW d \in Caller, d # c PROVE Turn(d)'
    BY DEF Turns
  <1>1. pc'[d] = pc[d] /\ call'[d] = call[d] /\ selected'[d] = selected[d]
    BY DEF Alone
  <1>2. lock' = d <=> lock = d
    BY DispatchAssumption DEF Alone
  <1>3. Ring(d)' = Ring(d)
    BY <1>1 DEF Ring
  <1>4. Turn(d)
    BY DEF Turns
  <1> QED BY <1>1, <1>2, <1>3, <1>4 DEF Turn

\* The locals of a call after a step keep their type.
LEMMA LocalsKeep ==
    ASSUME CallTypeOK, NEW c \in Caller, NEW locals \in Locals, NEW result \in Answers,
           \/ call' = call
           \/ call' = [call EXCEPT ![c] = locals],
           \/ answer' = answer
           \/ answer' = [answer EXCEPT ![c] = result],
           \/ lock' = lock
           \/ lock' = c
           \/ lock' = NoCaller,
           calls' = calls, cursor' \in Nat
    PROVE  CallTypeOK'
  BY DEF CallTypeOK

\* What the router remembers of a backend a call is at.
LEMMA AtBackend ==
    ASSUME RouterInv, NEW c \in Caller, pc[c] \notin NotSelected
    PROVE  selected[c] \in Backend
  BY DEF RouterInv, Inv, Turns, Turn

LEMMA SelectTurn == ASSUME RouterInv, NEW c \in Caller, Select(c) PROVE CallTypeOK' /\ Turns'
  <1> USE DEF RouterInv
  <1>1. call[c] \in Locals /\ pc \in [Caller -> Labels]
    BY DEF CallTypeOK, Inv
  <1> DEFINE locals == [call[c] EXCEPT !.avail = Candidates(c)]
  <1>2. locals \in Locals /\ call' = [call EXCEPT ![c] = locals]
    BY <1>1 DEF Locals, Candidates, Select
  <1>3. CallTypeOK'
    BY <1>2, LocalsKeep DEF Select, CallTypeOK, Answers
  <1>4. /\ call'[c] = locals
        /\ pc'[c] = IF Candidates(c) = {} THEN "giveup" ELSE "ring"
        /\ selected' = selected /\ lock' = lock /\ pc[c] = "select"
    BY <1>1, <1>2 DEF Select, GoTo, CallTypeOK
  <1>5. Turn(c)
    BY DEF Turns
  <1>6. /\ locals.avail = Candidates(c) /\ locals.failed = call[c].failed
        /\ locals.offset = call[c].offset
    BY <1>1 DEF Locals
  <1>7. Candidates(c) \cap call[c].failed = {}
    BY DEF Candidates
  <1>8. Turn(c)'
    <2> HIDE DEF locals
    <2> QED BY <1>4, <1>5, <1>6, <1>7 DEF Turn, NotSelected
  <1>9. Alone(c)
    BY <1>1, <1>2, <1>4 DEF Alone, Select, GoTo, CallTypeOK
  <1> QED BY <1>3, <1>8, <1>9, OthersTurn

LEMMA LockRingTurn == ASSUME RouterInv, NEW c \in Caller, LockRing(c) PROVE CallTypeOK' /\ Turns'
  <1> USE DEF RouterInv
  <1>1. CallTypeOK'
    BY DEF LockRing, CallTypeOK
  <1>2. pc' = [pc EXCEPT ![c] = "scan"] /\ pc[c] = "ring" /\ lock = NoCaller /\ lock' = c
        /\ call' = call /\ selected' = selected /\ pc \in [Caller -> Labels]
    BY DEF LockRing, GoTo, Inv
  <1>3. Turn(c) /\ call[c] \in Locals
    BY DEF Turns, CallTypeOK
  <1>4. Cardinality(Ring(c)) \in Nat /\ Cardinality(Ring(c)) > 0
    BY <1>2, <1>3, RingIsThere DEF Turn, Locals
  <1>5. Ring(c)' = Ring(c)
    BY <1>2 DEF Ring
  <1>6. Turn(c)'
    BY <1>2, <1>3, <1>4, <1>5 DEF Turn, NotSelected
  <1>7. Alone(c)
    BY <1>2 DEF Alone
  <1> QED BY <1>1, <1>6, <1>7, OthersTurn

LEMMA TakeSlotTurn == ASSUME RouterInv, NEW c \in Caller, TakeSlot(c) PROVE CallTypeOK' /\ Turns'
  <1> USE DEF RouterInv
  <1>1. Turn(c) /\ call[c] \in Locals /\ cursor \in Nat /\ pc[c] = "scan"
        /\ pc \in [Caller -> Labels] /\ selected \in [Caller -> Backend \cup {NoBackend}]
    BY DEF Turns, CallTypeOK, Inv, TakeSlot
  <1>2. AtPosition(c) \in call[c].avail /\ Position(c) \in Nat
    BY <1>1, ScanFindsOne DEF Turn, Locals
  <1> DEFINE locals == [call[c] EXCEPT !.avail = {}, !.offset = 0]
  <1>3. locals \in Locals /\ call' = [call EXCEPT ![c] = locals]
    BY <1>1 DEF Locals, TakeSlot, CallTypeOK
  <1>4. CallTypeOK'
    BY <1>2, <1>3, LocalsKeep DEF TakeSlot, CallTypeOK, Answers
  <1>5. /\ pc' = [pc EXCEPT ![c] = "recheck"]
        /\ selected' = [selected EXCEPT ![c] = AtPosition(c)]
        /\ lock' = NoCaller
    BY DEF TakeSlot, GoTo
  <1>6. locals.offset = 0 /\ locals.failed = call[c].failed
    BY <1>1 DEF Locals
  <1>7. call'[c] = locals
    BY <1>3 DEF CallTypeOK
  <1>8. AtPosition(c) \in Backend /\ AtPosition(c) \notin call[c].failed
    BY <1>1, <1>2 DEF Turn, Locals
  <1>9. Turn(c)'
    <2> HIDE DEF locals
    <2> QED BY <1>1, <1>5, <1>6, <1>7, <1>8, DispatchAssumption
            DEF Turn, NotSelected, Slots!SlotsAssumption
  <1>10. Alone(c)
    BY <1>1, <1>3, <1>5 DEF Alone, Turn, CallTypeOK
  <1> QED BY <1>4, <1>9, <1>10, OthersTurn

LEMMA SkipSlotTurn == ASSUME RouterInv, NEW c \in Caller, SkipSlot(c) PROVE CallTypeOK' /\ Turns'
  <1> USE DEF RouterInv
  <1>1. Turn(c) /\ call[c] \in Locals /\ cursor \in Nat /\ pc[c] = "scan"
        /\ pc \in [Caller -> Labels]
    BY DEF Turns, CallTypeOK, Inv, SkipSlot
  <1>2. Cardinality(Ring(c)) \in Nat
    BY <1>1, RingIsThere DEF Turn, Locals
  <1>3. PICK b \in Backend :
           \/ /\ call[c].offset + 1 < Cardinality(Ring(c))
              /\ call' = [call EXCEPT ![c].busy = @ \cup {b}, ![c].offset = @ + 1]
              /\ UNCHANGED <<pc, cursor, lock>>
           \/ /\ call[c].offset + 1 = Cardinality(Ring(c))
              /\ call' = [call EXCEPT ![c].busy = @ \cup {b}, ![c].offset = 0, ![c].avail = {}]
              /\ cursor' = cursor + Cardinality(Ring(c))
              /\ lock' = NoCaller
              /\ GoTo(c, "giveup")
    BY DEF SkipSlot
  <1>4. selected' = selected /\ answer' = answer /\ calls' = calls
    BY DEF SkipSlot
  <1>5. CASE call[c].offset + 1 < Cardinality(Ring(c)) /\ UNCHANGED <<pc, cursor, lock>>
    <2> DEFINE locals == [call[c] EXCEPT !.busy = @ \cup {b}, !.offset = @ + 1]
    <2>1. locals \in Locals /\ call' = [call EXCEPT ![c] = locals]
      <3>1. call[c].busy \cup {b} \in SUBSET Backend /\ call[c].offset + 1 \in Nat
        BY <1>1 DEF Locals
      <3>2. locals \in Locals
        BY <1>1, <3>1 DEF Locals
      <3>3. call' = [call EXCEPT ![c] = locals]
        BY <1>1, <1>2, <1>3, <1>5 DEF Locals
      <3> QED BY <3>2, <3>3
    <2>2. CallTypeOK'
      BY <1>4, <1>5, <2>1, LocalsKeep DEF CallTypeOK, Answers
    <2>3. /\ locals.offset = call[c].offset + 1 /\ locals.avail = call[c].avail
          /\ locals.failed = call[c].failed
      BY <1>1 DEF Locals
    <2>4. call'[c] = locals
      BY <2>1 DEF CallTypeOK
    <2>5. Ring(c)' = Ring(c)
      BY <2>3, <2>4 DEF Ring
    <2>6. Turn(c)'
      <3> HIDE DEF locals
      <3> QED BY <1>1, <1>4, <1>5, <2>3, <2>4, <2>5 DEF Turn
    <2>7. Alone(c)
      BY <1>4, <1>5, <2>1 DEF Alone, CallTypeOK
    <2> QED BY <2>2, <2>6, <2>7, OthersTurn
  <1>6. CASE /\ call[c].offset + 1 = Cardinality(Ring(c))
             /\ cursor' = cursor + Cardinality(Ring(c))
             /\ lock' = NoCaller /\ GoTo(c, "giveup")
    <2> DEFINE locals == [call[c] EXCEPT !.busy = @ \cup {b}, !.offset = 0, !.avail = {}]
    <2>1. locals \in Locals /\ call' = [call EXCEPT ![c] = locals]
      <3>1. call[c].busy \cup {b} \in SUBSET Backend
        BY <1>1 DEF Locals
      <3>2. locals \in Locals
        BY <1>1, <3>1 DEF Locals
      <3>3. call' = [call EXCEPT ![c] = locals]
        <4>1. call' = [call EXCEPT ![c].busy = @ \cup {b}, ![c].offset = 0, ![c].avail = {}]
          <5>1. call[c].offset \in Nat
            BY <1>1 DEF Locals
          <5>2. ~(call[c].offset + 1 < Cardinality(Ring(c)))
            BY <1>2, <1>6, <5>1
          <5> QED BY <1>3, <5>2
        <4> QED BY <4>1
      <3> QED BY <3>2, <3>3
    <2>2. CallTypeOK'
      BY <1>1, <1>2, <1>4, <1>6, <2>1, LocalsKeep DEF CallTypeOK, Answers
    <2>3. locals.offset = 0 /\ locals.failed = call[c].failed
      BY <1>1 DEF Locals
    <2>4. call'[c] = locals /\ pc'[c] = "giveup"
      BY <1>1, <1>6, <2>1 DEF CallTypeOK, GoTo
    <2>5. Turn(c)'
      <3> HIDE DEF locals
      <3> QED BY <1>1, <1>4, <1>6, <2>3, <2>4, DispatchAssumption DEF Turn, NotSelected
    <2>6. Alone(c)
      BY <1>1, <1>4, <1>6, <2>1 DEF Alone, CallTypeOK, GoTo, Turn
    <2> QED BY <2>2, <2>5, <2>6, OthersTurn
  <1> QED BY <1>3, <1>5, <1>6

\* A step that keeps the selected backend and the locals.
LEMMA CarryOnTurn ==
    ASSUME RouterInv, NEW c \in Caller, NEW label \in Labels \ NotSelected,
           pc[c] \notin NotSelected, GoTo(c, label),
           UNCHANGED <<cursor, lock, selected, call, answer, calls>>
    PROVE  CallTypeOK' /\ Turns'
  <1>1. CallTypeOK'
    BY DEF RouterInv, CallTypeOK
  <1>2. Turn(c) /\ pc \in [Caller -> Labels]
    BY DEF RouterInv, Inv, Turns
  <1>3. Turn(c)'
    BY <1>2 DEF Turn, GoTo, NotSelected
  <1>4. Alone(c)
    BY <1>2 DEF Alone, GoTo
  <1> QED BY <1>1, <1>3, <1>4, OthersTurn DEF RouterInv

\* The call returns.
LEMMA ReturnTurn ==
    ASSUME RouterInv, NEW c \in Caller, NEW result \in Answers,
           pc[c] # "scan", Return(c, result), UNCHANGED <<cursor, lock>>
    PROVE  CallTypeOK' /\ Turns'
  <1> USE DEF RouterInv
  <1>1. NoLocals \in Locals
    BY DEF NoLocals, Locals
  <1>2. CallTypeOK'
    BY <1>1, LocalsKeep DEF Return, CallTypeOK
  <1>3. Turn(c) /\ pc \in [Caller -> Labels] /\ selected \in [Caller -> Backend \cup {NoBackend}]
    BY DEF Inv, Turns
  <1>4. pc'[c] = "idle" /\ selected'[c] = NoBackend /\ call'[c] = NoLocals /\ lock' = lock
    BY <1>3 DEF Return, GoTo, CallTypeOK
  <1>5. Turn(c)'
    BY <1>3, <1>4 DEF Turn, NoLocals, NotSelected
  <1>6. Alone(c)
    BY <1>3 DEF Alone, Return, GoTo, CallTypeOK
  <1> QED BY <1>2, <1>5, <1>6, OthersTurn

\* The call goes on without the backend it had.
LEMMA FallBackTurn ==
    ASSUME RouterInv, NEW c \in Caller, NEW why \in {"none", "error", "quota"},
           pc[c] \notin NotSelected, FallBack(c, why), UNCHANGED <<cursor, lock>>
    PROVE  CallTypeOK' /\ Turns'
  <1> USE DEF RouterInv
  <1>1. Turn(c) /\ call[c] \in Locals /\ pc \in [Caller -> Labels]
        /\ selected \in [Caller -> Backend \cup {NoBackend}] /\ selected[c] \in Backend
    BY AtBackend DEF Inv, Turns, CallTypeOK
  <1> DEFINE locals == [call[c] EXCEPT !.failed = @ \cup {selected[c]}, !.err = why]
  <1>2. locals \in Locals /\ call' = [call EXCEPT ![c] = locals]
    <2>1. call[c].failed \cup {selected[c]} \in SUBSET Backend
      BY <1>1 DEF Locals
    <2>2. locals \in Locals
      BY <1>1, <2>1 DEF Locals
    <2>3. call' = [call EXCEPT ![c] = locals]
      BY DEF FallBack
    <2> QED BY <2>2, <2>3
  <1>3. CallTypeOK'
    BY <1>2, LocalsKeep DEF FallBack, CallTypeOK, Answers
  <1>4. locals.failed = call[c].failed \cup {selected[c]} /\ locals.offset = call[c].offset
    BY <1>1 DEF Locals
  <1>5. pc'[c] = "select" /\ selected'[c] = NoBackend /\ call'[c] = locals /\ lock' = lock
    BY <1>1, <1>2 DEF FallBack, GoTo, CallTypeOK
  <1>6. NoBackend \notin call[c].failed \cup {selected[c]}
    BY <1>1, DispatchAssumption DEF Locals, Slots!SlotsAssumption
  <1>7. Turn(c)'
    <2> HIDE DEF locals
    <2> QED BY <1>1, <1>4, <1>5, <1>6 DEF Turn, NotSelected
  <1>8. Alone(c)
    BY <1>1, <1>2 DEF Alone, FallBack, GoTo, CallTypeOK
  <1> QED BY <1>3, <1>7, <1>8, OthersTurn

LEMMA CallerTurn == ASSUME RouterInv, NEW c \in Caller, CallerNext(c) PROVE CallTypeOK' /\ Turns'
  <1>1. CASE Select(c) \/ LockRing(c) \/ TakeSlot(c) \/ SkipSlot(c)
    BY <1>1, SelectTurn, LockRingTurn, TakeSlotTurn, SkipSlotTurn
  <1>2. CASE Proceed(c)
    BY <1>2, CarryOnTurn, Zenon DEF Proceed, Labels, NotSelected
  <1>3. CASE ClientAnswers(c)
    <2>1. PICK m \in Outcome : GoTo(c, m)
      BY <1>3 DEF ClientAnswers
    <2>2. m \in Labels \ NotSelected
      BY DEF Labels, Outcome, NotSelected
    <2> QED BY <1>3, <2>1, <2>2, CarryOnTurn DEF ClientAnswers, NotSelected
  <1>4. CASE MarkQuota(c)
    BY <1>4, CarryOnTurn DEF MarkQuota, Labels, NotSelected
  <1>5. CASE Withdraw(c)
    BY <1>5, FallBackTurn DEF Withdraw, NotSelected
  <1>6. CASE Fail(c)
    <2>1. call[c].err \in {"none", "error", "quota"}
      BY DEF RouterInv, CallTypeOK, Locals
    <2> QED BY <1>6, <2>1, FallBackTurn DEF Fail, NotSelected
  <1>7. CASE MarkStatus(c)
    BY <1>7, FallBackTurn DEF MarkStatus, NotSelected
  <1>8. CASE Reject(c)
    BY <1>8, ReturnTurn DEF Reject, Answers
  <1>9. CASE Succeed(c)
    BY <1>9, ReturnTurn DEF Succeed, Answers
  <1>10. CASE EndEmpty(c)
    BY <1>10, ReturnTurn DEF EndEmpty, Answers
  <1>11. CASE GiveUp(c)
    <2>1. PICK result \in Answers : Return(c, result)
      BY <1>11 DEF GiveUp, Answers
    <2> QED BY <1>11, <2>1, ReturnTurn DEF GiveUp
  <1> QED BY <1>1, <1>2, <1>3, <1>4, <1>5, <1>6, <1>7, <1>8, <1>9, <1>10, <1>11 DEF CallerNext

LEMMA StartTurn == ASSUME RouterInv, NEW c \in Caller, StartCall(c) PROVE CallTypeOK' /\ Turns'
  <1> USE DEF RouterInv
  <1>1. CallTypeOK'
    <2>1. calls[c] + 1 \in 0..MaxCalls
      BY DispatchAssumption DEF StartCall, CallTypeOK
    <2> QED BY <2>1 DEF StartCall, CallTypeOK, Answers
  <1>2. Turn(c) /\ pc \in [Caller -> Labels]
    BY DEF Inv, Turns
  <1>3. Turn(c)'
    BY <1>2 DEF Turn, StartCall, GoTo, NotSelected
  <1>4. Alone(c)
    BY <1>2 DEF Alone, StartCall, GoTo
  <1> QED BY <1>1, <1>3, <1>4, OthersTurn

\* The methods of the router keep the types of its tables.
LEMMA RouterTypes ==
    ASSUME BackendTypeOK, NEW b \in Backend
    PROVE  /\ \A d \in Backend : ReadStatus(d) \in Status
           /\ \A s \in Status : SetStatus(b, s) => status' \in [Backend -> Status]
           /\ \A S : RepairStatus(S) => status' \in [Backend -> Status]
           /\ \A v \in BOOLEAN : SetEnabled(b, v) =>
                 enabled' \in [Backend -> BOOLEAN] /\ failures' \in [Backend -> Nat]
           /\ MarkExhausted(b) \/ ResetQuota(b) => exhausted' \in SUBSET Account
           /\ RecordSuccess(b) =>
                 status' \in [Backend -> Status] /\ failures' \in [Backend -> Nat]
           /\ \A source : RecordUnhealthy(b, source) =>
                 status' \in [Backend -> Status] /\ failures' \in [Backend -> Nat]
  <1> USE BackendStateAssumption DEF BackendTypeOK
  <1>1. \A d \in Backend : ReadStatus(d) \in Status
    BY DEF ReadStatus, Status
  <1>2. ASSUME NEW s \in Status, SetStatus(b, s) PROVE status' \in [Backend -> Status]
    BY <1>2 DEF SetStatus
  <1>3. ASSUME NEW S, RepairStatus(S) PROVE status' \in [Backend -> Status]
    BY <1>1, <1>3 DEF RepairStatus
  <1>4. ASSUME NEW v \in BOOLEAN, SetEnabled(b, v)
        PROVE  enabled' \in [Backend -> BOOLEAN] /\ failures' \in [Backend -> Nat]
    BY <1>4 DEF SetEnabled
  <1>5. ASSUME MarkExhausted(b) \/ ResetQuota(b) PROVE exhausted' \in SUBSET Account
    BY <1>5 DEF MarkExhausted, ResetQuota
  <1>6. ASSUME RecordSuccess(b)
        PROVE  status' \in [Backend -> Status] /\ failures' \in [Backend -> Nat]
    BY <1>6 DEF RecordSuccess, Status
  <1>7. ASSUME NEW source, RecordUnhealthy(b, source)
        PROVE  status' \in [Backend -> Status] /\ failures' \in [Backend -> Nat]
    <2>1. failures[b] + 1 \in Nat
      OBVIOUS
    <2> QED BY <1>7, <2>1 DEF RecordUnhealthy, Status
  <1> QED BY <1>1, <1>2, <1>3, <1>4, <1>5, <1>6, <1>7

LEMMA CallerTables ==
    ASSUME RouterInv, NEW c \in Caller, CallerNext(c) \/ StartCall(c)
    PROVE  BackendTypeOK'
  <1>1. BackendTypeOK
    BY DEF RouterInv
  <1>2. CASE \/ StartCall(c) \/ LockRing(c) \/ TakeSlot(c) \/ SkipSlot(c)
             \/ Reject(c) \/ ClientAnswers(c)
    <2>1. UNCHANGED backendVars /\ UNCHANGED operatorVars
      BY <1>2 DEF StartCall, LockRing, TakeSlot, SkipSlot, Reject, ClientAnswers
    <2> QED BY <1>1, <2>1 DEF BackendTypeOK, backendVars, operatorVars
  <1>3. CASE Select(c) \/ Proceed(c) \/ Withdraw(c) \/ GiveUp(c)
    <2>1. /\ \E S : RepairStatus(S)
          /\ UNCHANGED <<enabled, failures, exhausted>> /\ UNCHANGED operatorVars
      BY <1>3 DEF Select, Proceed, Withdraw, GiveUp, RepairSelected
    <2>2. \A d \in Backend : ReadStatus(d) \in Status
      BY <1>1 DEF ReadStatus, BackendTypeOK, Status
    <2>3. status' \in [Backend -> Status]
      BY <1>1, <2>1, <2>2 DEF RepairStatus, BackendTypeOK
    <2> QED BY <1>1, <2>1, <2>3 DEF BackendTypeOK, operatorVars
  <1>4. CASE Succeed(c) \/ EndEmpty(c) \/ Fail(c) \/ MarkQuota(c) \/ MarkStatus(c)
    <2>1. selected[c] \in Backend
      BY <1>4, AtBackend
      DEF Succeed, EndEmpty, Fail, MarkQuota, MarkStatus, NotSelected
    <2>2. CASE Succeed(c)
      <3>1. status' \in [Backend -> Status] /\ failures' \in [Backend -> Nat]
        BY <1>1, <2>1, <2>2, RouterTypes DEF Succeed
      <3> QED BY <1>1, <2>2, <3>1 DEF Succeed, BackendTypeOK, operatorVars
    <2>3. CASE EndEmpty(c) \/ Fail(c)
      <3>1. RecordUnhealthy(selected[c], "call")
        BY <2>3 DEF EndEmpty, Fail
      <3>2. status' \in [Backend -> Status] /\ failures' \in [Backend -> Nat]
        BY <1>1, <2>1, <3>1, RouterTypes
      <3> QED BY <1>1, <2>3, <3>2 DEF EndEmpty, Fail, BackendTypeOK, operatorVars
    <2>4. CASE MarkQuota(c)
      <3>1. exhausted' \in SUBSET Account
        BY <1>1, <2>1, <2>4, RouterTypes DEF MarkQuota
      <3> QED BY <1>1, <2>4, <3>1 DEF MarkQuota, BackendTypeOK, operatorVars
    <2>5. CASE MarkStatus(c)
      <3>1. status' \in [Backend -> Status]
        BY <1>1, <2>1, <2>5, RouterTypes DEF MarkStatus, Status
      <3> QED BY <1>1, <2>5, <3>1 DEF MarkStatus, BackendTypeOK, operatorVars
    <2> QED BY <1>4, <2>2, <2>3, <2>4, <2>5
  <1> QED BY <1>2, <1>3, <1>4 DEF CallerNext

LEMMA OperatorTables ==
    ASSUME RouterInv,
           \/ \E b \in Backend : Disable(b) \/ BeginProbe(b) \/ EndProbe(b)
           \/ ResetAll
           \/ \E a \in Account, n \in 1..MaxLimit : SetAccountLimit(a, n)
           \/ Tick
    PROVE  BackendTypeOK' /\ UNCHANGED callVars
  <1>1. BackendTypeOK
    BY DEF RouterInv
  <1>2. Intervene => ops' \in 0..MaxOps
    BY <1>1, DispatchAssumption DEF Intervene, BackendTypeOK
  <1>3. ASSUME NEW b \in Backend, Disable(b) PROVE BackendTypeOK' /\ UNCHANGED callVars
    <2>1. SetEnabled(b, FALSE) /\ SetStatus(b, "disabled") /\ "disabled" \in Status
      BY <1>3 DEF Disable, Status
    <2>2. /\ enabled' \in [Backend -> BOOLEAN] /\ failures' \in [Backend -> Nat]
          /\ status' \in [Backend -> Status]
      BY <1>1, <2>1, RouterTypes
    <2> QED BY <1>1, <1>2, <1>3, <2>2 DEF Disable, BackendTypeOK
  <1>4. ASSUME NEW b \in Backend, BeginProbe(b) PROVE BackendTypeOK' /\ UNCHANGED callVars
    <2>1. SetStatus(b, "probing") /\ "probing" \in Status
      BY <1>4 DEF BeginProbe, Status
    <2>2. SetEnabled(b, TRUE) \/ UNCHANGED <<enabled, failures>>
      BY <1>4 DEF BeginProbe
    <2>3. /\ enabled' \in [Backend -> BOOLEAN] /\ failures' \in [Backend -> Nat]
          /\ status' \in [Backend -> Status]
      BY <1>1, <2>1, <2>2, RouterTypes DEF BackendTypeOK
    <2> QED BY <1>1, <1>2, <1>4, <2>3 DEF BeginProbe, BackendTypeOK
  <1>5. ASSUME NEW b \in Backend, EndProbe(b) PROVE BackendTypeOK' /\ UNCHANGED callVars
    <2>1. \/ ResetQuota(b) /\ RecordSuccess(b)
          \/ RecordUnhealthy(b, "probe") /\ UNCHANGED exhausted
          \/ MarkExhausted(b) /\ SetStatus(b, "exhausted") /\ UNCHANGED failures
      BY <1>5 DEF EndProbe
    <2>2. /\ exhausted' \in SUBSET Account /\ failures' \in [Backend -> Nat]
          /\ status' \in [Backend -> Status]
      BY <1>1, <2>1, RouterTypes DEF BackendTypeOK, Status
    <2> QED BY <1>1, <1>5, <2>2 DEF EndProbe, BackendTypeOK
  <1>6. CASE ResetAll
    <2>1. status' \in [Backend -> Status] /\ failures' \in [Backend -> Nat]
      BY <1>1, <1>6 DEF ResetAll, ResetRuntime, BackendTypeOK, Status
    <2> QED BY <1>1, <1>2, <1>6, <2>1 DEF ResetAll, BackendTypeOK
  <1>7. CASE (\E a \in Account, n \in 1..MaxLimit : SetAccountLimit(a, n)) \/ Tick
    BY <1>1, <1>2, <1>7
    DEF SetAccountLimit, Tick, BackendTypeOK, backendVars, operatorVars, callVars
  <1> QED BY <1>3, <1>4, <1>5, <1>6, <1>7

LEMMA QuietTurns ==
    ASSUME RouterInv, UNCHANGED callVars
    PROVE  CallTypeOK' /\ Turns'
  <1>1. UNCHANGED <<cursor, lock, pc, selected, call, answer, calls>>
    BY DEF callVars
  <1>2. \A c \in Caller : Ring(c)' = Ring(c)
    BY <1>1 DEF Ring
  <1> QED BY <1>1, <1>2 DEF RouterInv, CallTypeOK, Turns, Turn

LEMMA RouterStep == RouterInv /\ [Next]_vars => RouterInv'
  <1> SUFFICES ASSUME RouterInv, [Next]_vars PROVE RouterInv'
    OBVIOUS
  <1>1. Inv'
    BY Step DEF RouterInv
  <1>2. ASSUME NEW c \in Caller, StartCall(c) \/ CallerNext(c) PROVE RouterInv'
    BY <1>1, <1>2, StartTurn, CallerTurn, CallerTables DEF RouterInv
  <1>3. CASE \/ \E b \in Backend : Disable(b) \/ BeginProbe(b) \/ EndProbe(b)
             \/ ResetAll
             \/ \E a \in Account, n \in 1..MaxLimit : SetAccountLimit(a, n)
             \/ Tick
    BY <1>1, <1>3, OperatorTables, QuietTurns DEF RouterInv
  <1>4. CASE UNCHANGED vars
    <2>1. UNCHANGED callVars /\ BackendTypeOK'
      BY <1>4 DEF vars, backendVars, operatorVars, callVars, RouterInv, BackendTypeOK
    <2> QED BY <1>1, <2>1, QuietTurns DEF RouterInv
  <1> QED BY <1>2, <1>3, <1>4 DEF Next

LEMMA RouterInvariance == Spec => []RouterInv
  BY RouterInit, RouterStep, PTL DEF Spec

\* The locals of every call, the ring and the tables of the router keep their
\* types.
THEOREM TypeCorrect == Spec => [](CallTypeOK /\ BackendTypeOK)
  <1>1. RouterInv => CallTypeOK /\ BackendTypeOK
    BY DEF RouterInv
  <1> QED BY <1>1, RouterInvariance, PTL

\* _weight_state_lock is held by the thread that scans the ring and by no
\* other, and the scan always has an entry in front of it.
RingIsOwned ==
    \A c \in Caller : pc[c] = "scan" =>
        /\ \A d \in Caller : pc[d] = "scan" => d = c
        /\ AtPosition(c) \in call[c].avail

THEOREM ScansAreAlone == Spec => []RingIsOwned
  <1>1. RouterInv => RingIsOwned
    <2> SUFFICES ASSUME RouterInv, NEW c \in Caller, pc[c] = "scan"
                 PROVE  /\ \A d \in Caller : pc[d] = "scan" => d = c
                        /\ AtPosition(c) \in call[c].avail
      BY DEF RingIsOwned
    <2>1. \A d \in Caller : Turn(d)
      BY DEF RouterInv, Turns
    <2>2. call[c] \in Locals /\ cursor \in Nat
      BY DEF RouterInv, CallTypeOK
    <2>3. AtPosition(c) \in call[c].avail
      BY <2>1, <2>2, ScanFindsOne DEF Turn, Locals
    <2> QED BY <2>1, <2>3 DEF Turn
  <1> QED BY <1>1, RouterInvariance, PTL

\* A call never comes back to a backend it has failed on or withdrawn from, so
\* that it makes no more attempts than the tier has backends.
THEOREM NoBackendTwice == Spec => []TriedOnce
  <1>1. RouterInv => TriedOnce
    BY DEF RouterInv, Turns, Turn, TriedOnce
  <1> QED BY <1>1, RouterInvariance, PTL

-----------------------------------------------------------------------------
(***************************************************************************)
(* So what is proved of AccountSlots holds of the router.                  *)
(***************************************************************************)
Proved == INSTANCE AccountSlotsProofs

LEMMA SameAssumption == Proved!SlotsAssumption
  BY DispatchAssumption, Zenon
  DEF Slots!SlotsAssumption, Proved!SlotsAssumption,
      Slots!IsFiniteSet, Proved!IsFiniteSet

LEMMA SameInit == Slots!Init => Proved!Init
  BY Zenon DEF Slots!Init, Proved!Init

LEMMA SameNext == Slots!Next <=> Proved!Next
<1> USE Zenon DEF Slots!PaceAdmits, Proved!PaceAdmits, Slots!RateFull, Proved!RateFull,
              Slots!Pruned, Proved!Pruned, Slots!Fresh, Proved!Fresh
<1> QED
  BY DEF Slots!Next, Proved!Next, Slots!Acquire, Proved!Acquire, Slots!Take, Proved!Take,
         Slots!RefusedByRate, Proved!RefusedByRate, Slots!Release, Proved!Release,
         Slots!GiveBack, Proved!GiveBack, Slots!Tick, Proved!Tick,
         Slots!QueryRetryAfter, Proved!QueryRetryAfter,
         Slots!SetAccountLimit, Proved!SetAccountLimit

LEMMA CallsAreOfSlots == Spec => Proved!Spec
<1>1. [Slots!Next]_(Slots!vars) => [Proved!Next]_(Proved!vars)
  BY SameNext, Zenon DEF Slots!vars, Proved!vars
<1> QED
  BY <1>1, SameInit, ImplementsSlots, PTL
  DEF SlotsSpec, Slots!Spec, Proved!Spec

LEMMA CountersOfCalls == Spec => []Proved!CountersMatchHolders
  BY SameAssumption, CallsAreOfSlots, Proved!CountersExact, PTL

\* The rules of an account hold of its calls, whatever way each of them takes
\* through the loop: the window, the interval and the limit are never broken,
\* a call is refused for the rate only by starts of the last window, and the
\* wait of a refused one is exact.
AccountRules ==
    Proved!SlidingWindow /\ Proved!StartSpacing
        /\ Proved!NoOverThrottling /\ Proved!RetryAfterExact

THEOREM AccountRulesKept == Spec => []AccountRules /\ Proved!NoStartOverLimit
<1>1. Proved!Spec => /\ []Proved!SlidingWindow /\ []Proved!StartSpacing
                     /\ []Proved!NoOverThrottling /\ []Proved!RetryAfterExact
                     /\ Proved!NoStartOverLimit
  BY SameAssumption, Proved!RateRespected, Proved!IntervalRespected,
     Proved!NoStartIsHeldAgainstTwice, Proved!RetryAfterTellsTheWait,
     Proved!LimitRespected
<1> QED
  BY <1>1, CallsAreOfSlots, PTL DEF AccountRules

\* The requests under way at a provider never outnumber the counter of its
\* account: the threads that make them all hold one of its slots.
THEOREM InFlightCounted == Spec => []InFlightIsCounted
<1>1. Inv /\ Proved!CountersMatchHolders => InFlightIsCounted
  <2> SUFFICES ASSUME Inv, Proved!CountersMatchHolders, NEW a \in Account
               PROVE  Cardinality(InFlight(a)) <= running[a]
    BY DEF InFlightIsCounted
  <2>1. InFlight(a) \subseteq Proved!HoldersOf(a)
    BY DispatchAssumption
    DEF Inv, HoldsItsSelection, Holding, InFlight, Proved!HoldersOf,
        Slots!SlotsAssumption
  <2>2. IsFiniteSet(Caller)
    BY DispatchAssumption, Zenon
    DEF Slots!SlotsAssumption, Slots!IsFiniteSet, IsFiniteSet
  <2>3. IsFiniteSet(Proved!HoldersOf(a))
    BY <2>2, FS_Subset DEF Proved!HoldersOf
  <2>4. /\ Cardinality(InFlight(a)) \in Nat
        /\ Cardinality(InFlight(a)) <= Cardinality(Proved!HoldersOf(a))
    BY <2>1, <2>3, FS_Subset, FS_CardinalityType
  <2>5. running[a] = Proved!Cardinality(Proved!HoldersOf(a))
    BY DEF Proved!CountersMatchHolders
  <2>6. Proved!Cardinality(Proved!HoldersOf(a)) = Cardinality(Proved!HoldersOf(a))
    BY Zenon DEF Proved!Cardinality, Cardinality
  <2> QED
    BY <2>4, <2>5, <2>6
<1> QED
  BY <1>1, SlotOfSelection, CountersOfCalls, PTL
=============================================================================
