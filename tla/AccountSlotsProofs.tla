------------------------- MODULE AccountSlotsProofs -------------------------
(***************************************************************************)
(* Proofs about AccountSlots for any accounts, backends and limits, any    *)
(* intervals, rates and window.  The invariants of the runs are not        *)
(* inductive: the deque forgets starts, so Inv also says that every start  *)
(* it forgot has left the window, that no start lies in the future and     *)
(* that the next permitted start is an interval after the last one.        *)
(***************************************************************************)
EXTENDS AccountSlots, FiniteSetTheorems, WellFoundedInduction, TLAPS

\* No start lies in the future, and the next permitted start is at least an
\* interval after the last one (next_available_at, concurrency.py 58-59).
NextAtGuards ==
    \A a \in Account :
        /\ \A i \in 1..Len(started[a]) : started[a][i] <= now
        /\ Interval[a] > 0 /\ Len(started[a]) > 0 =>
              started[a][Len(started[a])] + Interval[a] <= nextAt[a]

\* The starts the deque no longer holds have left the window.
ExpiredAreOld ==
    \A a \in Account : \A i \in 1..expired[a] : now - started[a][i] >= Window

Inv ==
    /\ TypeOK
    /\ CountersMatchHolders
    /\ NextAtGuards
    /\ ExpiredAreOld
    /\ StartSpacing
    /\ SlidingWindow

-----------------------------------------------------------------------------
\* A set of naturals that is not empty has a least element: stated over sets,
\* which lets it be cited without an operator parameter.
LEMMA LeastElement ==
    ASSUME NEW S \in SUBSET Nat, S # {}
    PROVE  \E m \in S : \A k \in S : m <= k
<1>1. \E m \in S : \A k \in S : <<k, m>> \notin OpToRel(<, Nat)
  BY NatLessThanWellFounded, WFMin, Zenon
<1>2. ASSUME NEW k \in Nat, NEW m \in Nat, k < m
      PROVE  <<k, m>> \in {ss \in Nat \X Nat : ss[1] < ss[2]}
  BY <1>2
<1>3. ASSUME NEW k \in Nat, NEW m \in Nat, k < m
      PROVE  <<k, m>> \in OpToRel(<, Nat)
  BY <1>2, <1>3, Zenon DEF OpToRel
<1>4. PICK m \in S : \A k \in S : <<k, m>> \notin OpToRel(<, Nat)
  BY <1>1
<1>5. \A k \in S : ~(k < m)
  BY <1>3, <1>4, Zenon
<1> QED
  BY <1>5

\* The place before one in the tail of an interval
LEMMA StepBack ==
    ASSUME NEW e \in Nat, NEW l \in Nat, NEW m \in e..l, NEW i \in (e + 1)..m
    PROVE  i - 1 \in e..l /\ (i - 1) + 1 = i
OBVIOUS

\* The popleft loop is well defined: the first entry that is still fresh, or
\* the end of the deque, ends it.
LEMMA PrunedFits ==
    ASSUME TypeOK, NEW a \in Account, NEW t \in Nat
    PROVE  /\ Pruned(a, t) \in expired[a]..Len(started[a])
           /\ \A i \in (expired[a] + 1)..Pruned(a, t) : ~Fresh(a, i, t)
           /\ Pruned(a, t) < Len(started[a]) => Fresh(a, Pruned(a, t) + 1, t)
<1> DEFINE S == {n \in expired[a]..Len(started[a]) :
                    n < Len(started[a]) => Fresh(a, n + 1, t)}
<1> USE SlotsAssumption
<1>1. /\ expired[a] \in Nat
      /\ started[a] \in Seq(Nat)
      /\ Len(started[a]) \in Nat
      /\ expired[a] <= Len(started[a])
  BY DEF TypeOK
<1>2. Len(started[a]) \in S /\ S \in SUBSET Nat
  BY <1>1
<1>3. PICK m \in S : \A k \in S : m <= k
  BY <1>2, LeastElement
<1>4. \A i \in (expired[a] + 1)..m : ~Fresh(a, i, t)
  <2> SUFFICES ASSUME NEW i \in (expired[a] + 1)..m, Fresh(a, i, t) PROVE FALSE
    OBVIOUS
  <2>1. i - 1 \in S
    <3>1. m \in expired[a]..Len(started[a])
      BY <1>3, Zenon
    <3>2. i - 1 \in expired[a]..Len(started[a]) /\ (i - 1) + 1 = i
      BY <1>1, <3>1, StepBack
    <3> QED
      BY <3>2
  <2>2. m <= i - 1
    BY <1>3, <2>1
  <2> QED
    BY <1>1, <2>2
<1> QED
  BY <1>3, <1>4 DEF Pruned

-----------------------------------------------------------------------------
LEMMA InitInv == Init => Inv
<1> SUFFICES ASSUME Init PROVE Inv
  OBVIOUS
<1> USE SlotsAssumption DEF Init
<1>1. TypeOK
  BY DEF TypeOK
<1>2. CountersMatchHolders
  <2>1. \A a \in Account : HoldersOf(a) = {}
    BY DEF HoldersOf
  <2>2. \A b \in Backend : HoldersOn(b) = {}
    BY DEF HoldersOn
  <2> QED
    BY <2>1, <2>2, FS_EmptySet DEF CountersMatchHolders
<1>3. NextAtGuards /\ ExpiredAreOld /\ StartSpacing /\ SlidingWindow
  BY DEF NextAtGuards, ExpiredAreOld, StartSpacing, SlidingWindow
<1> QED
  BY <1>1, <1>2, <1>3 DEF Inv

\* The counters follow the holders when a caller takes a slot.
LEMMA AcquireKeepsCounters ==
    ASSUME Inv, NEW c \in Caller, NEW b \in Backend, Acquire(c, b)
    PROVE  CountersMatchHolders'
<1> USE SlotsAssumption DEF Inv, TypeOK
<1>0. holds[c] = NoBackend /\ holds' = [holds EXCEPT ![c] = b] /\ b # NoBackend
  BY DEF Acquire, Take
<1>1. ASSUME NEW a \in Account PROVE running'[a] = Cardinality(HoldersOf(a)')
  <2>1. IsFiniteSet(HoldersOf(a)) /\ running[a] = Cardinality(HoldersOf(a))
    BY FS_Subset DEF HoldersOf, CountersMatchHolders
  <2>2. CASE a = AccountOf[b]
    <3>1. HoldersOf(a)' = HoldersOf(a) \cup {c} /\ c \notin HoldersOf(a)
      BY <1>0, <2>2 DEF HoldersOf
    <3>2. Cardinality(HoldersOf(a) \cup {c}) = Cardinality(HoldersOf(a)) + 1
      BY <2>1, <3>1, FS_AddElement
    <3> QED
      BY <2>1, <2>2, <3>1, <3>2 DEF Acquire, Take
  <2>3. CASE a # AccountOf[b]
    <3>1. HoldersOf(a)' = HoldersOf(a)
      BY <2>3 DEF HoldersOf, Acquire, Take
    <3> QED
      BY <2>1, <2>3, <3>1 DEF Acquire, Take
  <2> QED
    BY <2>2, <2>3
<1>2. ASSUME NEW d \in Backend PROVE load'[d] = Cardinality(HoldersOn(d)')
  <2>1. IsFiniteSet(HoldersOn(d)) /\ load[d] = Cardinality(HoldersOn(d))
    BY FS_Subset DEF HoldersOn, CountersMatchHolders
  <2>2. CASE d = b
    <3>1. HoldersOn(d)' = HoldersOn(d) \cup {c} /\ c \notin HoldersOn(d)
      BY <1>0, <2>2 DEF HoldersOn
    <3>2. Cardinality(HoldersOn(d) \cup {c}) = Cardinality(HoldersOn(d)) + 1
      BY <2>1, <3>1, FS_AddElement
    <3> QED
      BY <2>1, <2>2, <3>1, <3>2 DEF Acquire, Take
  <2>3. CASE d # b
    <3>1. HoldersOn(d)' = HoldersOn(d)
      BY <2>3 DEF HoldersOn, Acquire, Take
    <3> QED
      BY <2>1, <2>3, <3>1 DEF Acquire, Take
  <2> QED
    BY <2>2, <2>3
<1> QED
  BY <1>1, <1>2 DEF CountersMatchHolders

\* They follow them when a caller gives it back: the holder it stops being
\* was counted, so the floor at zero of release() is never what decides.
LEMMA ReleaseKeepsCounters ==
    ASSUME Inv, NEW c \in Caller, Release(c)
    PROVE  CountersMatchHolders'
<1> USE SlotsAssumption DEF Inv, TypeOK
<1> DEFINE b == holds[c]
<1>0. b \in Backend /\ AccountOf[b] \in Account
  BY DEF Release, GiveBack
<1>1. ASSUME NEW a \in Account PROVE running'[a] = Cardinality(HoldersOf(a)')
  <2>1. IsFiniteSet(HoldersOf(a)) /\ running[a] = Cardinality(HoldersOf(a))
    BY FS_Subset DEF HoldersOf, CountersMatchHolders
  <2>2. CASE a = AccountOf[b]
    <3>1. HoldersOf(a)' = HoldersOf(a) \ {c} /\ c \in HoldersOf(a)
      BY <1>0, <2>2 DEF HoldersOf, Release, GiveBack
    <3>2. running[a] > 0
      BY <2>1, <3>1, FS_EmptySet
    <3>3. running'[a] = running[a] - 1
      BY <2>2, <3>2 DEF Release, GiveBack
    <3>4. Cardinality(HoldersOf(a) \ {c}) = Cardinality(HoldersOf(a)) - 1
      BY <2>1, <3>1, FS_RemoveElement
    <3> QED
      BY <2>1, <3>1, <3>3, <3>4
  <2>3. CASE a # AccountOf[b]
    <3>1. HoldersOf(a)' = HoldersOf(a)
      BY <1>0, <2>3 DEF HoldersOf, Release, GiveBack
    <3> QED
      BY <2>1, <2>3, <3>1 DEF Release, GiveBack
  <2> QED
    BY <2>2, <2>3
<1>2. ASSUME NEW d \in Backend PROVE load'[d] = Cardinality(HoldersOn(d)')
  <2>1. IsFiniteSet(HoldersOn(d)) /\ load[d] = Cardinality(HoldersOn(d))
    BY FS_Subset DEF HoldersOn, CountersMatchHolders
  <2>2. CASE d = b
    <3>1. HoldersOn(d)' = HoldersOn(d) \ {c} /\ c \in HoldersOn(d)
      BY <1>0, <2>2 DEF HoldersOn, Release, GiveBack
    <3>2. load[d] > 0
      BY <2>1, <3>1, FS_EmptySet
    <3>3. load'[d] = load[d] - 1
      BY <2>2, <3>2 DEF Release, GiveBack
    <3>4. Cardinality(HoldersOn(d) \ {c}) = Cardinality(HoldersOn(d)) - 1
      BY <2>1, <3>1, FS_RemoveElement
    <3> QED
      BY <2>1, <3>1, <3>3, <3>4
  <2>3. CASE d # b
    <3>1. HoldersOn(d)' = HoldersOn(d)
      BY <1>0, <2>3 DEF HoldersOn, Release, GiveBack
    <3> QED
      BY <2>1, <2>3, <3>1 DEF Release, GiveBack
  <2> QED
    BY <2>2, <2>3
<1> QED
  BY <1>1, <1>2 DEF CountersMatchHolders


\* What appending one start does to a log of starts.
LEMMA AppendStart ==
    ASSUME NEW log \in Seq(Nat), NEW t \in Nat
    PROVE  /\ Append(log, t) \in Seq(Nat)
           /\ Len(Append(log, t)) = Len(log) + 1
           /\ Append(log, t)[Len(log) + 1] = t
           /\ \A i \in 1..Len(log) :
                 Append(log, t)[i] = log[i] /\ log[i] \in Nat
OBVIOUS

\* A log stays spaced when the new start is late enough after its last one.
LEMMA SpacedAppend ==
    ASSUME NEW log \in Seq(Nat), NEW t \in Nat, NEW d \in Nat,
           \A i \in 1..(Len(log) - 1) : log[i + 1] - log[i] >= d,
           Len(log) > 0 => log[Len(log)] + d <= t
    PROVE  \A i \in 1..(Len(Append(log, t)) - 1) :
               Append(log, t)[i + 1] - Append(log, t)[i] >= d
<1> DEFINE new == Append(log, t)
           n == Len(log)
<1>1. /\ Len(new) = n + 1 /\ n \in Nat
      /\ new[n + 1] = t
      /\ \A i \in 1..n : new[i] = log[i] /\ log[i] \in Nat
  BY AppendStart
<1> HIDE DEF new
<1> SUFFICES ASSUME NEW i \in 1..n PROVE new[i + 1] - new[i] >= d
  BY <1>1 DEF new
<1>2. CASE i = n
  BY <1>1, <1>2
<1>3. CASE i # n
  <2>1. i \in 1..(n - 1) /\ i + 1 \in 1..n
    BY <1>1, <1>3
  <2> QED
    BY <1>1, <2>1
<1> QED
  BY <1>2, <1>3

\* A log keeps at most r starts in any window when fewer than r of its starts
\* are left after those that have gone out of the window.
LEMMA WindowAppend ==
    ASSUME NEW log \in Seq(Nat), NEW t \in Nat, NEW r \in Nat \ {0},
           NEW w \in Nat, NEW p \in 0..Len(log),
           \A i, j \in 1..Len(log) : j = i + r => log[j] - log[i] >= w,
           \A i \in 1..p : t - log[i] >= w,
           Len(log) - p < r
    PROVE  \A i, j \in 1..Len(Append(log, t)) :
               j = i + r => Append(log, t)[j] - Append(log, t)[i] >= w
<1> DEFINE new == Append(log, t)
           n == Len(log)
<1>0. n \in Nat /\ n = Len(log)
  OBVIOUS
<1>1. /\ Len(new) = n + 1
      /\ new[n + 1] = t
      /\ \A i \in 1..n : new[i] = log[i] /\ log[i] \in Nat
  BY AppendStart
<1> HIDE DEF new, n
<1> SUFFICES ASSUME NEW i \in 1..(n + 1), NEW j \in 1..(n + 1), j = i + r
             PROVE  new[j] - new[i] >= w
  BY <1>0, <1>1 DEF new, n
<1>2. i \in 1..n
  BY <1>0
<1>3. CASE j = n + 1
  <2>1. i \in 1..p
    BY <1>0, <1>2, <1>3
  <2> QED
    BY <1>1, <1>2, <1>3, <2>1
<1>4. CASE j # n + 1
  <2>1. j \in 1..n
    BY <1>0, <1>4, SMTT(30)
  <2>2. log[j] - log[i] >= w
    BY <1>0, <1>2, <2>1
  <2> QED
    BY <1>1, <1>2, <2>1, <2>2
<1> QED
  BY <1>3, <1>4

\* A start is admitted an interval after the last one, and only when fewer
\* than Rpm starts are younger than the window.
LEMMA AcquireKeepsPacing ==
    ASSUME Inv, NEW c \in Caller, NEW b \in Backend, Acquire(c, b)
    PROVE  (NextAtGuards /\ ExpiredAreOld /\ StartSpacing /\ SlidingWindow)'
<1> USE SlotsAssumption
<1>1. PICK a \in Account : a = AccountOf[b]
  OBVIOUS
<1>2. PICK log \in Seq(Nat) : log = started[a]
  BY DEF Inv, TypeOK
<1>3. /\ TypeOK /\ now \in Nat /\ nextAt[a] \in Nat /\ expired[a] \in Nat
      /\ Interval[a] \in Nat /\ Rpm[a] \in Nat
      /\ Len(log) \in Nat
      /\ now' = now
  <2>1. TypeOK /\ now' = now
    BY DEF Inv, Acquire, Take
  <2>2. now \in Nat /\ nextAt[a] \in Nat /\ expired[a] \in Nat
    BY <2>1 DEF TypeOK
  <2>3. Interval[a] \in Nat /\ Rpm[a] \in Nat /\ Len(log) \in Nat
    OBVIOUS
  <2> QED
    BY <2>1, <2>2, <2>3
<1>4. PICK p \in Nat : p = Pruned(a, now)
  <2>1. Pruned(a, now) \in expired[a]..Len(log)
    BY <1>2, <1>3, PrunedFits
  <2> QED
    BY <1>3, <2>1
<1>5. /\ started' = [started EXCEPT ![a] = Append(log, now)]
      /\ expired' = [expired EXCEPT ![a] = p]
      /\ now >= nextAt[a]
      /\ Rpm[a] > 0 => Len(log) - p < Rpm[a]
  BY <1>1, <1>2, <1>4, <1>3 DEF Acquire, Take, PaceAdmits, RateFull
<1>6. /\ p \in 0..Len(log)
      /\ \A i \in 1..p : now - log[i] >= Window
  <2>1. expired[a] \in Nat /\ (\A i \in 1..expired[a] : now - log[i] >= Window)
    BY <1>2 DEF Inv, ExpiredAreOld, TypeOK
  <2>2. /\ p \in expired[a]..Len(log)
        /\ \A i \in (expired[a] + 1)..p : ~(now - log[i] < Window)
    BY <1>2, <1>4, <1>3, PrunedFits DEF Fresh
  <2>3. p \in 0..Len(log) /\ \A i \in 1..p : log[i] \in Nat
    <3>1. p \in 0..Len(log)
      BY <1>3, <2>1, <2>2
    <3>2. \A i \in 1..Len(log) : log[i] \in Nat
      BY AppendStart, <1>3
    <3> QED
      BY <1>3, <3>1, <3>2
  <2>4. now \in Nat /\ Window \in Nat
    BY <1>3
  <2>5. ASSUME NEW i \in 1..p PROVE now - log[i] >= Window
    <3>1. CASE i \in 1..expired[a]
      BY <2>1, <3>1
    <3>2. CASE i \in (expired[a] + 1)..p
      <4>1. ~(now - log[i] < Window)
        BY <2>2, <3>2
      <4>2. log[i] \in Nat
        BY <2>3
      <4> QED
        BY <2>4, <4>1, <4>2
    <3>3. i \in 1..expired[a] \/ i \in (expired[a] + 1)..p
      BY <1>4, <2>1
    <3> QED
      BY <3>1, <3>2, <3>3
  <2> QED
    BY <2>3, <2>5
<1>7. /\ started'[a] = Append(log, now) /\ expired'[a] = p
      /\ \A d \in Account : d # a => started'[d] = started[d] /\ expired'[d] = expired[d]
  BY <1>3, <1>5 DEF TypeOK
<1>8. /\ nextAt'[a] = IF Interval[a] > 0 THEN now + Interval[a] ELSE nextAt[a]
      /\ \A d \in Account : d # a => nextAt'[d] = nextAt[d]
  BY <1>1, <1>3 DEF Acquire, Take, TypeOK
<1>9. Len(log) > 0 => log[Len(log)] <= now /\ log[Len(log)] + Interval[a] <= now
  <2> SUFFICES ASSUME Len(log) > 0
               PROVE  log[Len(log)] <= now /\ log[Len(log)] + Interval[a] <= now
    OBVIOUS
  <2>1. Len(log) \in 1..Len(log) /\ log[Len(log)] \in Nat
    BY <1>3
  <2>2. /\ log[Len(log)] <= now
        /\ Interval[a] > 0 => log[Len(log)] + Interval[a] <= nextAt[a]
    BY <1>2, <2>1 DEF Inv, NextAtGuards
  <2> QED
    BY <1>3, <1>5, <2>1, <2>2
<1>10. NextAtGuards'
  <2>1. ASSUME NEW d \in Account, d # a
        PROVE  /\ \A i \in 1..Len(started'[d]) : started'[d][i] <= now'
               /\ Interval[d] > 0 /\ Len(started'[d]) > 0 =>
                     started'[d][Len(started'[d])] + Interval[d] <= nextAt'[d]
    BY <1>3, <1>7, <1>8, <2>1 DEF Inv, NextAtGuards
  <2>2. /\ \A i \in 1..Len(Append(log, now)) : Append(log, now)[i] <= now
        /\ Append(log, now)[Len(Append(log, now))] = now
    <3>1. \A i \in 1..Len(log) : log[i] <= now
      BY <1>2 DEF Inv, NextAtGuards
    <3>2. ASSUME NEW k \in Nat
          PROVE  \A i \in 1..(k + 1) : i \in 1..k \/ i = k + 1
      OBVIOUS
    <3> QED
      BY <1>3, <3>1, <3>2, AppendStart
  <2>3. Interval[a] > 0 => now + Interval[a] <= nextAt'[a]
    BY <1>3, <1>8
  <2> QED
    BY <1>3, <1>7, <2>1, <2>2, <2>3 DEF NextAtGuards
<1>11. ExpiredAreOld'
  <2>1. ASSUME NEW i \in 1..p PROVE Append(log, now)[i] = log[i]
    BY <1>3, <1>6, AppendStart
  <2> QED
    BY <1>3, <1>6, <1>7, <2>1 DEF Inv, ExpiredAreOld
<1>12. StartSpacing'
  <2>1. \A i \in 1..(Len(log) - 1) : log[i + 1] - log[i] >= Interval[a]
    BY <1>2 DEF Inv, StartSpacing
  <2>2. \A i \in 1..(Len(Append(log, now)) - 1) :
            Append(log, now)[i + 1] - Append(log, now)[i] >= Interval[a]
    BY <1>3, <1>9, <2>1, SpacedAppend
  <2> QED
    BY <1>7, <2>2 DEF Inv, StartSpacing
<1>13. SlidingWindow'
  <2>1. ASSUME Rpm[a] > 0
        PROVE  \A i, j \in 1..Len(Append(log, now)) :
                   j = i + Rpm[a] =>
                       Append(log, now)[j] - Append(log, now)[i] >= Window
    <3>1. \A i, j \in 1..Len(log) : j = i + Rpm[a] => log[j] - log[i] >= Window
      BY <1>2, <2>1 DEF Inv, SlidingWindow
    <3>2. Rpm[a] \in Nat \ {0} /\ Window \in Nat /\ Len(log) - p < Rpm[a]
      BY <1>3, <1>5, <2>1
    <3> QED
      BY <1>3, <1>6, <3>1, <3>2, WindowAppend
  <2> QED
    BY <1>7, <2>1 DEF Inv, SlidingWindow
<1> QED
  BY <1>10, <1>11, <1>12, <1>13

\* Popping old starts, which acquire() and retry_after_seconds() both do,
\* disturbs only what is known of the expired ones.
LEMMA PopKeepsInv ==
    ASSUME Inv, NEW a \in Account,
           expired' = [expired EXCEPT ![a] = Pruned(a, now)],
           UNCHANGED <<now, limit, running, load, nextAt, started, holds>>
    PROVE  Inv'
<1> USE SlotsAssumption
<1>1. TypeOK /\ now \in Nat
  BY DEF Inv, TypeOK
<1>2. /\ Pruned(a, now) \in expired[a]..Len(started[a])
      /\ \A i \in (expired[a] + 1)..Pruned(a, now) : ~(now - started[a][i] < Window)
  BY <1>1, PrunedFits DEF Fresh
<1>3. /\ expired[a] \in Nat /\ Len(started[a]) \in Nat /\ started[a] \in Seq(Nat)
      /\ expired[a] <= Len(started[a])
      /\ \A i \in 1..expired[a] : now - started[a][i] >= Window
  BY <1>1 DEF TypeOK, Inv, ExpiredAreOld
<1>4. PICK p \in Nat : p = Pruned(a, now) /\ p <= Len(started[a])
  BY <1>2, <1>3
<1>5. ASSUME NEW i \in 1..p PROVE now - started[a][i] >= Window
  <2>1. i \in 1..Len(started[a]) /\ now \in Nat /\ Window \in Nat
    BY <1>1, <1>3, <1>4
  <2>2. started[a][i] \in Nat
    BY <1>3, <2>1
  <2>3. i \in 1..expired[a] \/ i \in (expired[a] + 1)..p
    BY <1>3, <1>4
  <2>4. CASE i \in 1..expired[a]
    BY <1>3, <2>4
  <2>5. CASE i \in (expired[a] + 1)..p
    <3>1. ~(now - started[a][i] < Window)
      BY <1>2, <1>4, <2>5
    <3> QED
      BY <2>1, <2>2, <3>1
  <2> QED
    BY <2>3, <2>4, <2>5
<1>6. expired' = [expired EXCEPT ![a] = p]
  BY <1>4
<1>7. TypeOK'
  BY <1>1, <1>4, <1>6 DEF TypeOK
<1>8. ExpiredAreOld'
  BY <1>1, <1>5, <1>6 DEF Inv, ExpiredAreOld, TypeOK
<1>9. CountersMatchHolders'
  BY DEF Inv, CountersMatchHolders, HoldersOf, HoldersOn
<1>10. NextAtGuards' /\ StartSpacing' /\ SlidingWindow'
  BY DEF Inv, NextAtGuards, StartSpacing, SlidingWindow
<1> QED
  BY <1>7, <1>8, <1>9, <1>10 DEF Inv

LEMMA AcquireKeepsType ==
    ASSUME Inv, NEW c \in Caller, NEW b \in Backend, Acquire(c, b)
    PROVE  TypeOK'
<1> USE SlotsAssumption
<1>1. PICK a \in Account : a = AccountOf[b]
  OBVIOUS
<1>2. TypeOK /\ now \in Nat /\ started[a] \in Seq(Nat)
  BY DEF Inv, TypeOK
<1>3. Pruned(a, now) \in expired[a]..Len(started[a])
  BY <1>2, PrunedFits
<1>4. PICK p \in Nat : p = Pruned(a, now) /\ p <= Len(started[a])
  BY <1>2, <1>3 DEF TypeOK
<1>5. /\ now' = now /\ limit' = limit
      /\ running' = [running EXCEPT ![a] = @ + 1]
      /\ load' = [load EXCEPT ![b] = @ + 1]
      /\ expired' = [expired EXCEPT ![a] = p]
      /\ started' = [started EXCEPT ![a] = Append(@, now)]
      /\ holds' = [holds EXCEPT ![c] = b]
  BY <1>1, <1>4 DEF Acquire, Take
<1>6. nextAt' \in [Account -> Nat]
  BY <1>1, <1>2, SMTT(30) DEF Acquire, Take, TypeOK
<1>7. /\ now' \in Nat
      /\ limit' \in [Account -> 1..MaxLimit]
      /\ running' \in [Account -> Nat]
      /\ load' \in [Backend -> Nat]
      /\ started' \in [Account -> Seq(Nat)]
      /\ expired' \in [Account -> Nat]
      /\ holds' \in [Caller -> Backend \cup {NoBackend}]
  <2>1. running' \in [Account -> Nat] /\ load' \in [Backend -> Nat]
    <3>1. running[a] + 1 \in Nat /\ load[b] + 1 \in Nat
      <4>1. running[a] \in Nat /\ load[b] \in Nat
        BY <1>2 DEF TypeOK
      <4> QED
        BY <4>1
    <3> QED
      BY <1>2, <1>5, <3>1 DEF TypeOK
  <2>2. Append(started[a], now) \in Seq(Nat)
    BY <1>2, AppendStart
  <2>3. started' \in [Account -> Seq(Nat)]
    BY <1>2, <1>5, <2>2 DEF TypeOK
  <2> QED
    BY <1>2, <1>5, <2>1, <2>3 DEF TypeOK
<1>8. ASSUME NEW d \in Account PROVE expired'[d] <= Len(started'[d])
  <2>1. CASE d = a
    <3>1. Len(Append(started[a], now)) = Len(started[a]) + 1
      BY <1>2, AppendStart
    <3>2. Len(started[a]) \in Nat
      BY <1>2
    <3>3. expired'[a] = p /\ started'[a] = Append(started[a], now)
      BY <1>2, <1>5 DEF TypeOK
    <3> QED
      BY <1>4, <2>1, <3>1, <3>2, <3>3
  <2>2. CASE d # a
    BY <1>2, <1>5, <2>2 DEF TypeOK
  <2> QED
    BY <2>1, <2>2
<1> QED
  BY <1>6, <1>7, <1>8 DEF TypeOK

LEMMA NextInv == Inv /\ [Next]_vars => Inv'
<1> SUFFICES ASSUME Inv, [Next]_vars PROVE Inv'
  OBVIOUS
<1> USE SlotsAssumption
<1>1. ASSUME NEW c \in Caller, NEW b \in Backend, Acquire(c, b) PROVE Inv'
  BY <1>1, AcquireKeepsType, AcquireKeepsCounters, AcquireKeepsPacing DEF Inv
<1>2. ASSUME NEW c \in Caller, NEW b \in Backend, RefusedByRate(c, b) PROVE Inv'
  BY <1>2, PopKeepsInv DEF RefusedByRate
<1>3. ASSUME NEW c \in Caller, Release(c) PROVE Inv'
  <2>1. CountersMatchHolders'
    BY <1>3, ReleaseKeepsCounters
  <2>2. TypeOK'
    <3>1. TypeOK /\ holds[c] \in Backend /\ AccountOf[holds[c]] \in Account
      BY <1>3 DEF Release, GiveBack, Inv, TypeOK
    <3>2. running' \in [Account -> Nat]
      <4>1. ASSUME NEW n \in Nat, n > 0 PROVE n - 1 \in Nat
        BY <4>1
      <4> QED
        BY <1>3, <3>1, <4>1 DEF Release, GiveBack, TypeOK
    <3>3. load' \in [Backend -> Nat]
      <4>1. ASSUME NEW n \in Nat, n > 0 PROVE n - 1 \in Nat
        BY <4>1
      <4> QED
        BY <1>3, <3>1, <4>1 DEF Release, GiveBack, TypeOK
    <3> QED
      BY <1>3, <3>1, <3>2, <3>3 DEF Release, GiveBack, TypeOK
  <2>3. NextAtGuards' /\ ExpiredAreOld' /\ StartSpacing' /\ SlidingWindow'
    BY <1>3 DEF Release, GiveBack, Inv, NextAtGuards, ExpiredAreOld, StartSpacing, SlidingWindow
  <2> QED
    BY <2>1, <2>2, <2>3 DEF Inv
<1>4. ASSUME NEW a \in Account, QueryRetryAfter(a) PROVE Inv'
  BY <1>4, PopKeepsInv DEF QueryRetryAfter
<1>5. ASSUME NEW a \in Account, NEW n \in 1..MaxLimit, SetAccountLimit(a, n)
      PROVE  Inv'
  <2>1. TypeOK'
    BY <1>5 DEF SetAccountLimit, Inv, TypeOK
  <2> QED
    BY <1>5, <2>1 DEF SetAccountLimit, Inv, CountersMatchHolders, HoldersOf, HoldersOn,
          NextAtGuards, ExpiredAreOld, StartSpacing, SlidingWindow
<1>6. ASSUME Tick PROVE Inv'
  <2>1. TypeOK /\ TypeOK' /\ now \in Nat /\ now' = now + 1 /\ started' = started
    BY <1>6 DEF Tick, Inv, TypeOK
  <2>2. ASSUME NEW a \in Account, NEW i \in 1..Len(started[a])
        PROVE  started[a][i] \in Nat
    <3>1. started[a] \in Seq(Nat)
      BY <2>1 DEF TypeOK
    <3> QED
      BY <3>1
  <2>3. NextAtGuards'
    <3>1. ASSUME NEW a \in Account, NEW i \in 1..Len(started[a])
          PROVE  started[a][i] <= now + 1
      <4>1. started[a][i] <= now
        BY DEF Inv, NextAtGuards
      <4> QED
        BY <2>1, <2>2, <4>1
    <3> QED
      BY <1>6, <2>1, <3>1 DEF Tick, Inv, NextAtGuards
  <2>4. ExpiredAreOld'
    <3>1. ASSUME NEW a \in Account, NEW i \in 1..expired[a]
          PROVE  (now + 1) - started[a][i] >= Window
      <4>1. now - started[a][i] >= Window /\ Window \in Nat
        BY DEF Inv, ExpiredAreOld
      <4>2. i \in 1..Len(started[a])
        BY <2>1 DEF TypeOK
      <4> QED
        BY <2>1, <2>2, <4>1, <4>2
    <3> QED
      BY <1>6, <2>1, <3>1 DEF Tick, ExpiredAreOld
  <2>5. CountersMatchHolders' /\ StartSpacing' /\ SlidingWindow'
    BY <1>6 DEF Tick, Inv, CountersMatchHolders, HoldersOf, HoldersOn,
          StartSpacing, SlidingWindow
  <2> QED
    BY <2>1, <2>3, <2>4, <2>5 DEF Inv
<1>7. CASE UNCHANGED vars
  <2>1. TypeOK'
    BY <1>7 DEF vars, Inv, TypeOK
  <2> QED
    BY <1>7, <2>1 DEF vars, Inv, CountersMatchHolders, HoldersOf, HoldersOn,
          NextAtGuards, ExpiredAreOld, StartSpacing, SlidingWindow
<1> QED
  BY <1>1, <1>2, <1>3, <1>4, <1>5, <1>6, <1>7 DEF Next

-----------------------------------------------------------------------------
\* The inductive invariant holds of every behaviour of the concurrency
\* manager, for any set of accounts and any pacing rules.
THEOREM Invariance == Spec => []Inv
<1> QED
  BY InitInv, NextInv, PTL DEF Spec

\* Every field keeps its type, and the deque is never longer than the log.
THEOREM TypeCorrect == Spec => []TypeOK
<1>1. Inv => TypeOK
  BY DEF Inv
<1> QED
  BY <1>1, Invariance, PTL

\* The counters of concurrency.py are exact: no slot is lost or sold twice,
\* whatever the interleaving of acquire() and release().
THEOREM CountersExact == Spec => []CountersMatchHolders
<1>1. Inv => CountersMatchHolders
  BY DEF Inv
<1> QED
  BY <1>1, Invariance, PTL

\* At most requests_per_minute starts of an account fall in any window,
\* although both acquire() and retry_after_seconds() forget old starts.
THEOREM RateRespected == Spec => []SlidingWindow
<1>1. Inv => SlidingWindow
  BY DEF Inv
<1> QED
  BY <1>1, Invariance, PTL

\* Two successive starts of an account are min_request_interval_ms apart.
THEOREM IntervalRespected == Spec => []StartSpacing
<1>1. Inv => StartSpacing
  BY DEF Inv
<1> QED
  BY <1>1, Invariance, PTL

\* An account's counter only grows up to the limit in force, so a limit
\* lowered while calls are running lets nobody in until enough have ended.
THEOREM LimitRespected == Spec => NoStartOverLimit
<1> USE SlotsAssumption
<1>1. ASSUME Inv, [Next]_vars
      PROVE  [\A a \in Account : running'[a] > running[a] => running'[a] <= limit[a]]_vars
  <2> SUFFICES ASSUME NEW a \in Account, Next, running'[a] > running[a]
               PROVE  running'[a] <= limit[a]
    BY <1>1
  <2>0. running \in [Account -> Nat] /\ running[a] \in Nat /\ limit[a] \in Nat
    BY <1>1 DEF Inv, TypeOK
  <2>1. ASSUME NEW c \in Caller, NEW b \in Backend, Acquire(c, b)
        PROVE  running'[a] <= limit[a]
    BY <2>0, <2>1 DEF Acquire, Take
  <2>2. ASSUME NEW c \in Caller, Release(c) PROVE FALSE
    <3>1. running'[a] = running[a] \/ running'[a] = running[a] - 1
      BY <2>0, <2>2 DEF Release, GiveBack
    <3> QED
      BY <2>0, <3>1
  <2>3. ASSUME running' = running PROVE FALSE
    BY <2>0, <2>3
  <2> QED
    BY <2>1, <2>2, <2>3 DEF Next, RefusedByRate, QueryRetryAfter, SetAccountLimit, Tick
<1> QED
  BY <1>1, Invariance, PTL DEF Spec, NoStartOverLimit

-----------------------------------------------------------------------------
\* The starts of an account are in the order of time, so those the deque has
\* to forget are at its left end: the popleft loop may stop at the first entry
\* that is young enough.
InOrder ==
    \A a \in Account :
        \A i, j \in 1..Len(started[a]) : i <= j => started[a][i] <= started[a][j]

LEMMA OrderedAppend ==
    ASSUME NEW log \in Seq(Nat), NEW t \in Nat,
           \A i, j \in 1..Len(log) : i <= j => log[i] <= log[j],
           \A i \in 1..Len(log) : log[i] <= t
    PROVE  \A i, j \in 1..Len(Append(log, t)) :
               i <= j => Append(log, t)[i] <= Append(log, t)[j]
<1> DEFINE new == Append(log, t)
           n == Len(log)
<1>1. /\ Len(new) = n + 1 /\ n \in Nat
      /\ new[n + 1] = t
      /\ \A i \in 1..n : new[i] = log[i] /\ log[i] \in Nat
  BY AppendStart
<1>2. \A i, j \in 1..n : i <= j => log[i] <= log[j]
  OBVIOUS
<1>3. \A i \in 1..n : log[i] <= t
  OBVIOUS
<1> HIDE DEF new, n
<1> SUFFICES ASSUME NEW i \in 1..(n + 1), NEW j \in 1..(n + 1), i <= j
             PROVE  new[i] <= new[j]
  BY <1>1 DEF new
<1>4. CASE j \in 1..n
  <2>1. i \in 1..n
    BY <1>1, <1>4
  <2> QED
    BY <1>1, <1>2, <1>4, <2>1
<1>5. CASE j = n + 1
  <2>1. CASE i = n + 1
    BY <1>1, <1>5, <2>1
  <2>2. CASE i \in 1..n
    BY <1>1, <1>3, <1>5, <2>2
  <2> QED
    BY <1>1, <2>1, <2>2
<1> QED
  BY <1>1, <1>4, <1>5

LEMMA OrderStep == Inv /\ InOrder /\ [Next]_vars => InOrder'
<1> SUFFICES ASSUME Inv, InOrder, [Next]_vars PROVE InOrder'
  OBVIOUS
<1> USE SlotsAssumption
<1>1. ASSUME NEW c \in Caller, NEW b \in Backend, Acquire(c, b) PROVE InOrder'
  <2>1. PICK a \in Account : a = AccountOf[b]
    OBVIOUS
  <2>2. /\ started \in [Account -> Seq(Nat)] /\ now \in Nat
        /\ started' = [started EXCEPT ![a] = Append(@, now)]
    BY <1>1, <2>1 DEF Acquire, Take, Inv, TypeOK
  <2>3. PICK log \in Seq(Nat) : log = started[a]
    BY <2>2
  <2>4. /\ \A i, j \in 1..Len(log) : i <= j => log[i] <= log[j]
        /\ \A i \in 1..Len(log) : log[i] <= now
    BY <2>3 DEF InOrder, Inv, NextAtGuards
  <2>5. \A i, j \in 1..Len(Append(log, now)) :
            i <= j => Append(log, now)[i] <= Append(log, now)[j]
    BY <2>2, <2>4, OrderedAppend
  <2>6. started'[a] = Append(log, now) /\ \A d \in Account : d # a => started'[d] = started[d]
    BY <2>2, <2>3
  <2> QED
    BY <2>5, <2>6 DEF InOrder
<1>2. ASSUME started' = started PROVE InOrder'
  BY <1>2 DEF InOrder
<1> QED
  BY <1>1, <1>2 DEF Next, RefusedByRate, Release, GiveBack, QueryRetryAfter,
        SetAccountLimit, Tick, vars

LEMMA Ordered == Spec => [](Inv /\ InOrder)
<1>1. Init => InOrder
  BY DEF Init, InOrder
<1> QED
  BY <1>1, OrderStep, Invariance, PTL DEF Spec

\* Once a start has left the window it does not come back, and a later start
\* is in it when an earlier one is.
LEMMA OldStaysOld ==
    ASSUME NEW n \in Nat, NEW t \in Nat, NEW x \in Nat, NEW w \in Nat,
           t >= n, n - x >= w
    PROVE  ~(t - x < w)
OBVIOUS

LEMMA LaterIsFresher ==
    ASSUME NEW t \in Nat, NEW x \in Nat, NEW y \in Nat, NEW w \in Nat,
           x <= y, t - x < w
    PROVE  t - y < w
OBVIOUS

LEMMA Places ==
    ASSUME NEW e \in Nat, NEW l \in Nat, NEW p \in e..l
    PROVE  /\ p \in Nat /\ p \in 0..l
           /\ \A i \in 1..l : \/ i \in 1..e
                              \/ i \in (e + 1)..p
                              \/ i > p /\ p < l /\ p + 1 \in 1..l /\ p + 1 <= i
           /\ \A i \in 1..e : ~(i > p)
           /\ \A i \in (e + 1)..p : ~(i > p)
OBVIOUS

LEMMA StartsAreNat ==
    ASSUME Inv, NEW a \in Account
    PROVE  /\ now \in Nat /\ Window \in Nat /\ Rpm[a] \in Nat /\ nextAt[a] \in Nat
           /\ expired[a] \in Nat /\ Len(started[a]) \in Nat
           /\ \A i \in 1..Len(started[a]) : started[a][i] \in Nat
<1>1. started[a] \in Seq(Nat)
  BY DEF Inv, TypeOK
<1>2. Len(started[a]) \in Nat /\ \A i \in 1..Len(started[a]) : started[a][i] \in Nat
  BY <1>1
<1> QED
  BY <1>2, SlotsAssumption DEF Inv, TypeOK

LEMMA PrunedInLog ==
    ASSUME Inv, NEW a \in Account, NEW t \in Nat
    PROVE  \E p \in 0..Len(started[a]) : p = Pruned(a, t)
<1>1. TypeOK
  BY DEF Inv
<1>2. Pruned(a, t) \in expired[a]..Len(started[a])
  BY <1>1, PrunedFits
<1> QED
  BY <1>2, StartsAreNat, Places

\* Now and later, the starts in the window are exactly those the popleft loop
\* leaves in the deque.
LEMMA FreshAreKept ==
    ASSUME Inv, InOrder, NEW a \in Account, NEW t \in Nat, t >= now,
           NEW i \in 1..Len(started[a])
    PROVE  Fresh(a, i, t) <=> i > Pruned(a, t)
<1> DEFINE p == Pruned(a, t)
           l == Len(started[a])
           e == expired[a]
<1>1. /\ now \in Nat /\ Window \in Nat /\ e \in Nat /\ l \in Nat
      /\ \A k \in 1..l : started[a][k] \in Nat
  BY StartsAreNat
<1>2. /\ p \in e..l
      /\ \A k \in (e + 1)..p : ~Fresh(a, k, t)
      /\ p < l => Fresh(a, p + 1, t)
  <2>1. TypeOK
    BY DEF Inv
  <2> QED
    BY <2>1, PrunedFits
<1> HIDE DEF p, l, e
<1>3. CASE i > p /\ p < l /\ p + 1 \in 1..l /\ p + 1 <= i
  <2>1. started[a][p + 1] <= started[a][i]
    BY <1>3 DEF InOrder, l
  <2>2. t - started[a][p + 1] < Window
    BY <1>2, <1>3 DEF Fresh
  <2>3. started[a][p + 1] \in Nat /\ started[a][i] \in Nat
    BY <1>1, <1>3 DEF l
  <2>4. Fresh(a, i, t)
    BY <1>1, <2>1, <2>2, <2>3, LaterIsFresher DEF Fresh
  <2> QED
    BY <1>3, <2>4 DEF p
<1>4. CASE i \in (e + 1)..p
  <2>1. ~(i > p)
    BY <1>1, <1>2, <1>4, Places
  <2> QED
    BY <1>2, <1>4, <2>1 DEF p
<1>5. CASE i \in 1..e
  <2>1. now - started[a][i] >= Window /\ started[a][i] \in Nat
    BY <1>1, <1>5 DEF Inv, ExpiredAreOld, e, l
  <2>2. ~Fresh(a, i, t)
    BY <1>1, <2>1, OldStaysOld DEF Fresh
  <2>3. ~(i > p)
    BY <1>1, <1>2, <1>5, Places
  <2> QED
    BY <2>2, <2>3 DEF p
<1>6. i \in 1..l
  BY DEF l
<1> QED
  BY <1>1, <1>2, <1>3, <1>4, <1>5, <1>6, Places

\* A window that held fewer starts holds no more of them later.
LEMMA PrunedGrows ==
    ASSUME Inv, InOrder, NEW a \in Account, NEW k \in Nat
    PROVE  Pruned(a, now) <= Pruned(a, now + k)
<1>1. /\ now \in Nat /\ Window \in Nat /\ Len(started[a]) \in Nat
      /\ now + k \in Nat /\ now + k >= now /\ now >= now
      /\ \A i \in 1..Len(started[a]) : started[a][i] \in Nat
  BY StartsAreNat
<1>2. PICK p \in 0..Len(started[a]) : p = Pruned(a, now)
  BY <1>1, PrunedInLog
<1>3. PICK q \in 0..Len(started[a]) : q = Pruned(a, now + k)
  BY <1>1, PrunedInLog
<1>4. ASSUME q < p PROVE FALSE
  <2>1. p \in 1..Len(started[a]) /\ ~(p > p)
    BY <1>1, <1>4
  <2>2. ~Fresh(a, p, now)
    BY <1>1, <1>2, <2>1, FreshAreKept
  <2>3. Fresh(a, p, now + k)
    BY <1>1, <1>3, <1>4, <2>1, FreshAreKept
  <2>4. started[a][p] \in Nat
    BY <1>1, <2>1
  <2>5. ASSUME NEW x \in Nat, NEW n \in Nat, NEW w \in Nat, ~(n - x < w), (n + k) - x < w
        PROVE  FALSE
    BY <2>5
  <2> QED
    BY <1>1, <2>2, <2>3, <2>4, <2>5 DEF Fresh
<1> QED
  BY <1>1, <1>2, <1>3, <1>4

\* The rate refusal counts the starts of the last window, no fewer and no more.
LEMMA KeptAreTheWindow == Inv /\ InOrder => NoOverThrottling
<1> SUFFICES ASSUME Inv, InOrder, NEW a \in Account
             PROVE  Len(started[a]) - Pruned(a, now)
                        = Cardinality({i \in 1..Len(started[a]) : Fresh(a, i, now)})
  BY DEF NoOverThrottling
<1>1. now \in Nat /\ Len(started[a]) \in Nat /\ now >= now
  BY StartsAreNat
<1>2. PICK p \in 0..Len(started[a]) : p = Pruned(a, now)
  BY <1>1, PrunedInLog
<1>3. {i \in 1..Len(started[a]) : Fresh(a, i, now)} = (p + 1)..Len(started[a])
  <2>1. \A i \in 1..Len(started[a]) : Fresh(a, i, now) <=> i > p
    BY <1>1, <1>2, FreshAreKept
  <2> QED
    BY <1>1, <1>2, <2>1
<1>4. Cardinality((p + 1)..Len(started[a])) = Len(started[a]) - p
  <2>1. p + 1 \in Int /\ Len(started[a]) \in Int /\ p \in Int
    BY <1>1
  <2>2. Cardinality((p + 1)..Len(started[a])) =
            IF p + 1 > Len(started[a]) THEN 0 ELSE Len(started[a]) - (p + 1) + 1
    BY <2>1, FS_Interval
  <2> QED
    BY <1>1, <2>2
<1> QED
  BY <1>2, <1>3, <1>4

\* An account is refused for its rate only when the starts of the last window
\* fill it, although old starts are popped at other times than they expire.
THEOREM NoStartIsHeldAgainstTwice == Spec => []NoOverThrottling
<1> QED
  BY Ordered, KeptAreTheWindow, PTL

-----------------------------------------------------------------------------
\* A full window holds Rpm starts and no more: the first of them that leaves
\* makes room.
LEMMA FullIsExact ==
    ASSUME Inv, InOrder, NEW a \in Account, RateFull(a, now)
    PROVE  Len(started[a]) - Pruned(a, now) = Rpm[a]
<1>1. /\ now \in Nat /\ Window \in Nat /\ Len(started[a]) \in Nat /\ now >= now
      /\ Rpm[a] \in Nat /\ Rpm[a] > 0
      /\ \A i \in 1..Len(started[a]) : started[a][i] \in Nat
  BY StartsAreNat DEF RateFull
<1>2. PICK p \in 0..Len(started[a]) : p = Pruned(a, now)
  BY <1>1, PrunedInLog
<1>3. Len(started[a]) - p >= Rpm[a]
  BY <1>2 DEF RateFull
<1>4. ASSUME Len(started[a]) - p > Rpm[a] PROVE FALSE
  <2> DEFINE first == p + 1
             last == p + 1 + Rpm[a]
  <2>1. /\ first \in 1..Len(started[a]) /\ last \in 1..Len(started[a])
        /\ last = first + Rpm[a] /\ first > p
    BY <1>1, <1>4
  <2> HIDE DEF first, last
  <2>2. started[a][last] - started[a][first] >= Window
    BY <1>1, <2>1 DEF Inv, SlidingWindow
  <2>3. started[a][last] <= now
    BY <2>1 DEF Inv, NextAtGuards
  <2>4. now - started[a][first] < Window
    BY <1>1, <1>2, <2>1, FreshAreKept DEF Fresh
  <2>5. started[a][last] \in Nat /\ started[a][first] \in Nat
    BY <1>1, <2>1
  <2>6. ASSUME NEW x \in Nat, NEW y \in Nat, NEW n \in Nat, NEW w \in Nat,
               y - x >= w, y <= n, n - x < w
        PROVE  FALSE
    BY <2>6
  <2> QED
    BY <1>1, <2>2, <2>3, <2>4, <2>5, <2>6
<1> QED
  BY <1>1, <1>2, <1>3, <1>4

\* A window that is full stays full until its oldest start leaves it, and no
\* longer.
LEMMA FullUntilOldestLeaves ==
    ASSUME Inv, InOrder, NEW a \in Account, RateFull(a, now)
    PROVE  LET s == started[a][Pruned(a, now) + 1] IN
           /\ s \in Nat
           /\ now - s < Window
           /\ \A k \in Nat : RateFull(a, now + k) <=> (now + k) - s < Window
<1>1. /\ now \in Nat /\ Window \in Nat /\ Len(started[a]) \in Nat /\ now >= now
      /\ Rpm[a] \in Nat /\ Rpm[a] > 0
      /\ \A i \in 1..Len(started[a]) : started[a][i] \in Nat
  BY StartsAreNat DEF RateFull
<1>2. PICK p \in 0..Len(started[a]) : p = Pruned(a, now)
  BY <1>1, PrunedInLog
<1>3. Len(started[a]) - p = Rpm[a]
  BY <1>2, FullIsExact
<1>4. p + 1 \in 1..Len(started[a]) /\ p + 1 > p
  BY <1>1, <1>3
<1>5. started[a][p + 1] \in Nat
  BY <1>1, <1>4
<1>6. now - started[a][p + 1] < Window
  BY <1>1, <1>2, <1>4, FreshAreKept DEF Fresh
<1>7. ASSUME NEW k \in Nat
      PROVE  RateFull(a, now + k) <=> (now + k) - started[a][p + 1] < Window
  <2>1. now + k \in Nat /\ now + k >= now
    BY <1>1
  <2>2. PICK q \in 0..Len(started[a]) : q = Pruned(a, now + k)
    BY <2>1, PrunedInLog
  <2>3. (now + k) - started[a][p + 1] < Window <=> p + 1 > q
    BY <1>4, <2>1, <2>2, FreshAreKept DEF Fresh
  <2>4. RateFull(a, now + k) <=> Len(started[a]) - q >= Rpm[a]
    BY <1>1, <2>2 DEF RateFull
  <2>5. p <= q
    BY <1>2, <2>2, PrunedGrows
  <2>6. Len(started[a]) - q >= Rpm[a] <=> p + 1 > q
    BY <1>1, <1>3, <2>5
  <2> QED
    BY <2>3, <2>4, <2>6
<1> QED
  BY <1>2, <1>5, <1>6, <1>7

\* A window that is not full does not fill up with time alone.
LEMMA NotFullStaysSo ==
    ASSUME Inv, InOrder, NEW a \in Account, ~RateFull(a, now), NEW k \in Nat
    PROVE  ~RateFull(a, now + k)
<1>1. now \in Nat /\ Len(started[a]) \in Nat /\ Rpm[a] \in Nat /\ now + k \in Nat
  BY StartsAreNat
<1>2. PICK p \in 0..Len(started[a]) : p = Pruned(a, now)
  BY <1>1, PrunedInLog
<1>3. PICK q \in 0..Len(started[a]) : q = Pruned(a, now + k)
  BY <1>1, PrunedInLog
<1>4. p <= q
  BY <1>2, <1>3, PrunedGrows
<1> QED
  BY <1>1, <1>2, <1>3, <1>4 DEF RateFull

LEMMA RetryAfterIsExact == Inv /\ InOrder => RetryAfterExact
<1> SUFFICES ASSUME Inv, InOrder, NEW a \in Account
             PROVE  /\ PaceAdmits(a, now + RetryAfter(a))
                    /\ \A t \in 0..(RetryAfter(a) - 1) : ~PaceAdmits(a, now + t)
  BY DEF RetryAfterExact
<1>1. now \in Nat /\ Window \in Nat /\ nextAt[a] \in Nat
  BY StartsAreNat
<1> DEFINE wait == IF now < nextAt[a] THEN nextAt[a] - now ELSE 0
           rate == IF RateFull(a, now)
                     THEN Window - (now - started[a][Pruned(a, now) + 1])
                     ELSE 0
<1>2. wait \in Nat /\ \A k \in Nat : now + k >= nextAt[a] <=> k >= wait
  BY <1>1
<1>3. rate \in Nat /\ \A k \in Nat : RateFull(a, now + k) <=> k < rate
  <2>1. CASE RateFull(a, now)
    <3>1. PICK s \in Nat :
              /\ s = started[a][Pruned(a, now) + 1]
              /\ now - s < Window
              /\ \A k \in Nat : RateFull(a, now + k) <=> (now + k) - s < Window
      BY <2>1, FullUntilOldestLeaves
    <3>2. ASSUME NEW n \in Nat, NEW w \in Nat, NEW x \in Nat, n - x < w
          PROVE  /\ w - (n - x) \in Nat
                 /\ \A k \in Nat : (n + k) - x < w <=> k < w - (n - x)
      BY <3>2
    <3>3. rate = Window - (now - s)
      BY <2>1, <3>1
    <3> HIDE DEF rate
    <3>4. /\ rate \in Nat
          /\ \A k \in Nat : (now + k) - s < Window <=> k < rate
      BY <1>1, <3>1, <3>2, <3>3
    <3> QED
      BY <3>1, <3>4
  <2>2. CASE ~RateFull(a, now)
    <3>1. rate = 0
      BY <2>2
    <3>2. \A k \in Nat : ~RateFull(a, now + k)
      BY <2>2, NotFullStaysSo
    <3> HIDE DEF rate
    <3> QED
      BY <3>1, <3>2
  <2> QED
    BY <2>1, <2>2
<1>4. RetryAfter(a) = IF wait > rate THEN wait ELSE rate
  BY DEF RetryAfter
<1> HIDE DEF wait, rate
<1>5. PICK d \in Nat : d = RetryAfter(a) /\ d >= wait /\ d >= rate /\ (d = wait \/ d = rate)
  BY <1>2, <1>3, <1>4
<1>6. PaceAdmits(a, now + d)
  BY <1>2, <1>3, <1>5 DEF PaceAdmits
<1>7. ASSUME NEW t \in 0..(d - 1) PROVE ~PaceAdmits(a, now + t)
  <2>1. t \in Nat /\ (t < wait \/ t < rate)
    BY <1>2, <1>3, <1>5
  <2> QED
    BY <1>2, <1>3, <2>1 DEF PaceAdmits
<1> QED
  BY <1>5, <1>6, <1>7

\* What retry_after_seconds() answers is the exact wait until the pacing rules
\* let the account start again, whichever of the two rules is the later one.
THEOREM RetryAfterTellsTheWait == Spec => []RetryAfterExact
<1> QED
  BY Ordered, RetryAfterIsExact, PTL
=============================================================================
