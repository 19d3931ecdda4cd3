----------------------------- MODULE QuotaStore -----------------------------
(***************************************************************************)
(* QuotaManager of src/quota_manager.py: which accounts are out of quota,  *)
(* in three dictionaries without a lock and in a file that every operation *)
(* writes anew.  The threads of the router and of the server run into each *)
(* other between any two writes; the server may be killed at any point and *)
(* started again.  Left out: the time of the reset that a mark may carry.  *)
(***************************************************************************)
EXTENDS Integers, FiniteSets

CONSTANTS
    Key,        \* account:<account>, the result of _quota_key()
    Thread,
    Weekly,     \* keys with a weekday as reset_day
    Monthly,    \* keys with a day of the month: the rest have no reset_day
    ResetDay,   \* that day
    Saved,      \* keys marked in the file that the first server finds
    DayLength,  \* ticks of a day
    Week,       \* days of a week
    Month,      \* days of a month
    MaxClock,   \* bound: ticks
    MaxOps      \* bound: operations begun

ASSUME QuotaAssumption ==
    /\ Weekly \subseteq Key /\ Monthly \subseteq Key \ Weekly
    /\ IsFiniteSet(Key) /\ Saved \subseteq Key
    /\ DayLength \in Nat \ {0} /\ Week \in Nat \ {0} /\ Month \in Nat \ {0}
    /\ ResetDay \in Nat
    /\ MaxClock \in Nat \ {0} /\ MaxOps \in Nat

VARIABLES
    exhausted,  \* keys of _exhausted
    markTime,   \* _mark_time, 0 for none
    file,       \* the marks that quota_state.json holds, or Torn
    size,       \* its length, in entries and a frame
    step,       \* where an operation of a thread is
    target,     \* the keys it is about
    count,      \* len(_exhausted) when it began to list the marks
    data,       \* the marks it is about to write
    clock,
    ops,
    excuse      \* since the last operation that began alone, a save has
                \* failed or met another operation, or a date has ended a mark

memory == <<exhausted, markTime>>
disk == <<file, size>>
quotaVars == <<memory, disk, step, target, count, data, clock, ops, excuse>>

Absent == -1
Torn == [k \in Key |-> -2]   \* no JSON

\* a file of marks: the time, or 0 when the mark has no time
Entries(marks, times) == [k \in Key |-> IF k \in marks THEN times[k] ELSE Absent]
Nothing == [k \in Key |-> Absent]
Marked(f) == {k \in Key : f[k] # Absent}
Length(f) == Cardinality(Marked(f)) + 1

\* _load_state(): a file that is not JSON is as good as none
Loaded == IF file = Torn THEN Nothing ELSE file

QuotaInit ==
    /\ exhausted = Saved
    /\ markTime = [k \in Key |-> IF k \in Saved THEN 1 ELSE 0]
    /\ file = Entries(exhausted, markTime)
    /\ size = Length(file)
    /\ step = [t \in Thread |-> "idle"]
    /\ target = [t \in Thread |-> {}]
    /\ count = [t \in Thread |-> 0]
    /\ data = [t \in Thread |-> Nothing]
    /\ clock = 1
    /\ ops = 0
    /\ excuse = FALSE

-----------------------------------------------------------------------------
\* a question to a provider changes no mark until it is judged
Asks == {"ask", "keep", "judge"}
Saving == {t \in Thread : step[t] \notin Asks \cup {"idle"}}

Begin(t, s, keys) ==
    /\ step[t] = "idle"
    /\ ops < MaxOps
    /\ ops' = ops + 1
    /\ step' = [step EXCEPT ![t] = s]
    /\ target' = [target EXCEPT ![t] = keys]
    /\ excuse' = IF s = "ask" THEN excuse ELSE Saving # {} \/ s = "drop"
    /\ UNCHANGED <<memory, disk, count, data, clock>>

Goto(t, s) ==
    /\ step' = [step EXCEPT ![t] = s]
    /\ UNCHANGED <<clock, ops>>

\* the end of an operation; a thread at rest has no target
End(t) ==
    /\ step' = [step EXCEPT ![t] = "idle"]
    /\ target' = [target EXCEPT ![t] = {}]
    /\ count' = [count EXCEPT ![t] = 0]
    /\ data' = [data EXCEPT ![t] = Nothing]
    /\ UNCHANGED <<clock, ops>>

MarkExhausted(t, k) == Begin(t, "mark", {k})
ResetBackend(t, k) == Begin(t, "clear", {k})
ResetTier(t, keys) == Begin(t, "clear", keys)
ResetAll(t) == Begin(t, "clear", Key)

\* update_exhausted_reset_at(): the time of the reset is not kept here, the
\* file is written all the same
UpdateResetAt(t, k) == k \in exhausted /\ Begin(t, "list", {k})

SetMark(t) ==
    /\ step[t] = "mark"
    /\ exhausted' = exhausted \cup target[t]
    /\ Goto(t, "time")
    /\ UNCHANGED <<markTime, disk, target, count, data, excuse>>

SetTime(t) ==
    /\ step[t] = "time"
    /\ markTime' = [k \in Key |-> IF k \in target[t] THEN clock ELSE markTime[k]]
    /\ Goto(t, "list")
    /\ UNCHANGED <<exhausted, disk, target, count, data, excuse>>

PopMark(t) ==
    /\ step[t] \in {"clear", "drop"}
    /\ exhausted' = exhausted \ target[t]
    /\ Goto(t, IF step[t] = "clear" THEN "cleartime" ELSE "droptime")
    /\ UNCHANGED <<markTime, disk, target, count, data, excuse>>

\* MUTANT of PopTime: a reset is left in memory alone
PopTimeUnsaved(t) ==
    /\ step[t] \in {"cleartime", "droptime"}
    /\ markTime' = [k \in Key |-> IF k \in target[t] THEN 0 ELSE markTime[k]]
    /\ End(t)
    /\ UNCHANGED <<exhausted, disk, excuse>>

\* the automatic reset is not saved
PopTime(t) ==
    /\ step[t] \in {"cleartime", "droptime"}
    /\ markTime' = [k \in Key |-> IF k \in target[t] THEN 0 ELSE markTime[k]]
    /\ IF step[t] = "cleartime"
         THEN Goto(t, "list") /\ UNCHANGED <<target, count, data>>
         ELSE End(t)
    /\ UNCHANGED <<exhausted, disk, excuse>>

-----------------------------------------------------------------------------
(* _save_state()                                                           *)

List(t) ==
    /\ step[t] = "list"
    /\ count' = [count EXCEPT ![t] = Cardinality(exhausted)]
    /\ Goto(t, "listing")
    /\ UNCHANGED <<memory, disk, target, data, excuse>>

\* a dictionary that changed its size under the iteration raises an
\* exception that _save_state() does not catch
Listed(t) ==
    /\ step[t] = "listing"
    /\ IF Cardinality(exhausted) = count[t]
         THEN /\ data' = [data EXCEPT ![t] = Entries(exhausted, markTime)]
              /\ Goto(t, "open")
              /\ UNCHANGED <<target, count>>
         ELSE End(t)
    /\ excuse' = (excuse \/ Cardinality(exhausted) # count[t])
    /\ UNCHANGED <<memory, disk>>

Open(t) ==
    /\ step[t] = "open"
    /\ file' = Torn /\ size' = 0
    /\ Goto(t, "write")
    /\ UNCHANGED <<memory, target, count, data, excuse>>

\* an OSError is swallowed
OpenFails(t) ==
    /\ step[t] = "open"
    /\ End(t)
    /\ excuse' = TRUE
    /\ UNCHANGED <<memory, disk>>

\* two that opened it write over each other from its beginning: the end of
\* a longer text stays
Write(t) ==
    /\ step[t] = "write"
    /\ LET len == Length(data[t])
       IN /\ file' = IF size > len THEN Torn ELSE data[t]
          /\ size' = IF size > len THEN size ELSE len
    /\ End(t)
    /\ UNCHANGED <<memory, excuse>>

WriteFails(t) ==
    /\ step[t] = "write"
    /\ End(t)
    /\ excuse' = TRUE
    /\ UNCHANGED <<memory, disk>>

-----------------------------------------------------------------------------
Weekday(c) == (c \div DayLength) % Week
MonthDay(c) == ((c \div DayLength) % Month) + 1

\* _check_auto_reset(): any other weekday than that of the mark, or a mark
\* from before the day of the month
Expired(k) ==
    /\ markTime[k] # 0
    /\ \/ k \in Weekly /\ Weekday(clock) # Weekday(markTime[k])
       \/ k \in Monthly /\ MonthDay(clock) >= ResetDay /\ MonthDay(markTime[k]) < ResetDay

\* is_exhausted() and get_exhausted_info(): the look at the time of the mark
AutoReset(t, k) == Expired(k) /\ Begin(t, "drop", {k})

Tick ==
    /\ clock < MaxClock
    /\ clock' = clock + 1
    /\ UNCHANGED <<memory, disk, step, target, count, data, ops, excuse>>

\* a kill loses the operations under way; _load_state() of the next server
Restart ==
    /\ exhausted' = Marked(Loaded)
    /\ markTime' = [k \in Key |-> IF Loaded[k] > 0 THEN Loaded[k] ELSE 0]
    /\ step' = [t \in Thread |-> "idle"]
    /\ target' = [t \in Thread |-> {}]
    /\ count' = [t \in Thread |-> 0]
    /\ data' = [t \in Thread |-> Nothing]
    /\ excuse' = (file = Torn)
    /\ UNCHANGED <<disk, clock, ops>>

QuotaStep(t) ==
    \/ SetMark(t) \/ SetTime(t) \/ PopMark(t) \/ PopTime(t)
    \/ List(t) \/ Listed(t) \/ Open(t) \/ OpenFails(t) \/ Write(t) \/ WriteFails(t)

QuotaBegin(t) ==
    \/ \E k \in Key : MarkExhausted(t, k) \/ ResetBackend(t, k) \/ UpdateResetAt(t, k) \/ AutoReset(t, k)
    \/ \E keys \in SUBSET Key : ResetTier(t, keys)
    \/ ResetAll(t)

QuotaNext ==
    \/ \E t \in Thread : QuotaStep(t) \/ QuotaBegin(t)
    \/ Tick
    \/ Restart

QuotaSpec == QuotaInit /\ [][QuotaNext]_quotaVars
-----------------------------------------------------------------------------
QuotaTypeOK ==
    /\ exhausted \subseteq Key
    /\ markTime \in [Key -> Nat]
    /\ file = Torn \/ file \in [Key -> Nat \cup {Absent}]
    /\ size \in Nat
    /\ target \in [Thread -> SUBSET Key]
    /\ count \in [Thread -> Nat]
    /\ data \in [Thread -> [Key -> Nat \cup {Absent}]]
    /\ clock \in 1..MaxClock /\ ops \in 0..MaxOps
    /\ excuse \in BOOLEAN

\* When no operation is at its marks, a restart finds the marks that the server
\* has in memory, every operation having saved what it did, whatever failed,
\* overlapped or was cut off before the last that began alone.  What it cannot
\* promise is named by excuse: a save that failed or ran beside another, and
\* a mark that its date has ended.  (_save_state, _load_state)
SavedAtRest ==
    Saving = {} /\ ~excuse => file = Entries(exhausted, markTime)
=============================================================================
