------------------------ MODULE ProviderUsageProofs ------------------------
(***************************************************************************)
(* The quota marks and the usage cache for any number of threads, accounts *)
(* and windows: what a restart finds is what the server has in memory, but *)
(* for the saves that excuse names, and what the cache serves is fresh.    *)
(***************************************************************************)
EXTENDS ProviderUsage, FiniteSetTheorems, TLAPS

Steps == {"idle", "mark", "time", "clear", "cleartime", "drop", "droptime",
          "list", "listing", "open", "write", "ask", "keep", "judge"}

Marks == [Key -> Nat \cup {Absent}]

SnapshotType == [status : {"none", "ok", "unavailable", "unlimited", "unsupported"},
                 spent : SUBSET Window, seen : Nat]

TypeOK ==
    /\ QuotaTypeOK
    /\ step \in [Thread -> Steps]
    /\ spent \in [Key -> SUBSET Window]
    /\ asked \in [Thread -> Nat]
    /\ answer \in [Thread -> SnapshotType]
    /\ cache \in [Key -> [at : Nat, snapshot : SnapshotType]]
    /\ pass \in [Thread -> SUBSET Key]

\* Without an excuse at most one operation is at the marks: what it lists and
\* writes is what memory holds, and the file that it opened is its own.
SaveInv ==
    ~excuse =>
        /\ \A t, u \in Saving : t = u
        /\ \A t \in Thread :
             /\ step[t] \notin {"drop", "droptime"}
             /\ step[t] \in {"open", "write"} => data[t] = Entries(exhausted, markTime)
             /\ step[t] = "write" => size = 0
        /\ Saving = {} => file = Entries(exhausted, markTime)

\* A snapshot is never older than the time that it will be, or is, kept under.
SeenInv ==
    /\ \A t \in Thread :
         /\ step[t] = "ask" => asked[t] <= clock
         /\ step[t] = "keep" => asked[t] <= answer[t].seen
    /\ \A k \in Key : cache[k].at <= cache[k].snapshot.seen

Inv == TypeOK /\ SaveInv /\ SeenInv

-----------------------------------------------------------------------------
LEMMA EntriesType ==
    ASSUME NEW S, NEW f \in [Key -> Nat] PROVE Entries(S, f) \in Marks
  BY DEF Entries, Marks, Absent

LEMMA LengthPositive ==
    ASSUME NEW f PROVE Length(f) \in Nat /\ Length(f) > 0
  <1>1. IsFiniteSet(Marked(f))
    <2>1. Marked(f) \subseteq Key  BY DEF Marked
    <2> QED BY <2>1, FS_Subset, QuotaAssumption DEF QuotaAssumption
  <1>2. Cardinality(Marked(f)) \in Nat  BY <1>1, FS_CardinalityType
  <1> QED BY <1>2 DEF Length

LEMMA InitInv == ASSUME Init PROVE Inv
  <1> USE DEF Init, QuotaInit
  <1>1. exhausted \subseteq Key /\ markTime \in [Key -> Nat]
    BY QuotaAssumption DEF QuotaAssumption
  <1>2. file = Entries(exhausted, markTime) /\ file \in Marks
    BY <1>1, EntriesType
  <1>3. size \in Nat  BY LengthPositive
  <1>4. Nothing \in [Key -> Nat \cup {Absent}]  BY DEF Nothing
  <1>5. excuse \in BOOLEAN  OBVIOUS
  <1>51. target \in [Thread -> SUBSET Key] /\ count \in [Thread -> Nat]
         /\ data \in [Thread -> [Key -> Nat \cup {Absent}]]
    BY <1>4
  <1>52. clock \in 1..MaxClock /\ ops \in 0..MaxOps
    BY QuotaAssumption DEF QuotaAssumption
  <1>53. QuotaTypeOK
    BY <1>1, <1>2, <1>3, <1>5, <1>51, <1>52 DEF QuotaTypeOK, Marks
  <1>6. TypeOK
    BY <1>53 DEF TypeOK, Steps, SnapshotType, NoAnswer, NoEntry
  <1>7. SaveInv
    BY <1>2 DEF SaveInv, Saving
  <1>8. SeenInv
    BY DEF SeenInv, NoEntry, NoAnswer
  <1> QED BY <1>6, <1>7, <1>8 DEF Inv

LEMMA LoadedType == ASSUME TypeOK PROVE Loaded \in Marks
  BY DEF TypeOK, QuotaTypeOK, Loaded, Nothing, Marks, Absent

LEMMA SnapshotTyped ==
    ASSUME TypeOK, NEW k \in Key, NEW a \in Load(k)
    PROVE  a \in SnapshotType /\ a.seen = clock
  <1>1. clock \in Nat  BY DEF TypeOK, QuotaTypeOK
  <1>2. spent[k] \in SUBSET Window  BY DEF TypeOK
  <1> QED BY <1>1, <1>2
          DEF Load, Reported, Windows, Consumed, Derived, Snapshot, SnapshotType

-----------------------------------------------------------------------------
(* Who is at the marks: a thread comes to them, goes on, leaves, or was     *)
(* never there.                                                            *)

Away == Asks \cup {"idle"}

LEMMA SavingOf ==
    ASSUME TypeOK, NEW t \in Thread, NEW s \in Steps, step' = [step EXCEPT ![t] = s]
    PROVE  /\ s \in Away => Saving' = Saving \ {t}
           /\ s \notin Away => Saving' = Saving \cup {t}
           /\ step[t] \in Away => t \notin Saving
           /\ step'[t] = s /\ \A u \in Thread : u # t => step'[u] = step[u]
  BY DEF TypeOK, Saving, Away

LEMMA ComeStep ==
    ASSUME Inv, NEW t \in Thread, step[t] \in Away, NEW s \in Steps,
           s \notin Away \cup {"droptime", "open", "write"},
           step' = [step EXCEPT ![t] = s], excuse' = (Saving # {} \/ s = "drop")
    PROVE  SaveInv'
  <1>1. TypeOK  BY DEF Inv
  <1> SUFFICES ASSUME ~excuse'
               PROVE  /\ \A u \in Thread : step'[u] \notin {"drop", "droptime", "open", "write"}
                      /\ Saving' = {t}
    BY DEF SaveInv
  <1>2. Saving = {} /\ s # "drop"  OBVIOUS
  <1>3. Saving' = {t}  BY <1>1, <1>2, SavingOf
  <1>4. ASSUME NEW u \in Thread PROVE step'[u] \notin {"drop", "droptime", "open", "write"}
    <2>1. CASE u = t  BY <1>1, <1>2, <2>1, SavingOf
    <2>2. CASE u # t
      <3>1. step[u] \in Away  BY <1>2 DEF Saving, Away
      <3> QED BY <1>1, <2>2, <3>1, SavingOf DEF Away, Asks
    <2> QED BY <2>1, <2>2
  <1> QED BY <1>3, <1>4

LEMMA WorkStep ==
    ASSUME Inv, NEW t \in Thread, step[t] \notin Away, NEW s \in Steps, s \notin Away,
           step' = [step EXCEPT ![t] = s], excuse' = excuse,
           s \in {"drop", "droptime"} => step[t] = "drop",
           s \in {"open", "write"} /\ ~excuse => data'[t] = Entries(exhausted, markTime)',
           s = "write" => size' = 0
    PROVE  SaveInv'
  <1>1. TypeOK  BY DEF Inv
  <1> SUFFICES ASSUME ~excuse PROVE SaveInv'  BY DEF SaveInv
  <1>2. t \in Saving  BY DEF Saving, Away
  <1>3. Saving = {t} /\ Saving' = {t}
    <2>1. Saving = {t}  BY <1>2 DEF Inv, SaveInv
    <2> QED BY <1>1, <2>1, SavingOf
  <1>4. ASSUME NEW u \in Thread
        PROVE  /\ step'[u] \notin {"drop", "droptime"}
               /\ step'[u] \in {"open", "write"} => data'[u] = Entries(exhausted, markTime)'
               /\ step'[u] = "write" => size' = 0
    <2>1. CASE u = t
      <3>1. step[t] # "drop"  BY DEF Inv, SaveInv
      <3> QED BY <1>1, <2>1, <3>1, SavingOf
    <2>2. CASE u # t
      <3>1. step[u] \in Away  BY <1>3, <2>2 DEF Saving, Away
      <3> QED BY <1>1, <2>2, <3>1, SavingOf DEF Away, Asks
    <2> QED BY <2>1, <2>2
  <1> QED BY <1>3, <1>4 DEF SaveInv

LEMMA LeaveStep ==
    ASSUME Inv, NEW t \in Thread, step[t] \notin Away, step' = [step EXCEPT ![t] = "idle"],
           excuse' \/ (~excuse /\ file' = Entries(exhausted, markTime)')
    PROVE  SaveInv'
  <1>1. TypeOK /\ "idle" \in Steps /\ "idle" \in Away  BY DEF Inv, Steps, Away
  <1> SUFFICES ASSUME ~excuse' PROVE SaveInv'  BY DEF SaveInv
  <1>2. t \in Saving  BY DEF Saving, Away
  <1>3. Saving = {t}  BY <1>2 DEF Inv, SaveInv
  <1>4. Saving' = {}  BY <1>1, <1>3, SavingOf
  <1>5. \A u \in Thread : step'[u] \in Away  BY <1>4 DEF Saving, Away
  <1> QED BY <1>4, <1>5 DEF SaveInv, Away, Asks

LEMMA AwayStep ==
    ASSUME Inv, NEW t \in Thread, step[t] \in Away, NEW s \in Away,
           step' = [step EXCEPT ![t] = s], excuse' = excuse,
           UNCHANGED <<exhausted, markTime, file, size>>,
           \A u \in Thread : u # t => data'[u] = data[u]
    PROVE  SaveInv'
  <1>1. TypeOK /\ s \in Steps  BY DEF Inv, Steps, Away, Asks
  <1> SUFFICES ASSUME ~excuse' PROVE SaveInv'  BY Zenon DEF SaveInv
  <1>0. ~excuse  OBVIOUS
  <1>2. Saving' = Saving
    <2>1. Saving' = Saving \ {t} /\ t \notin Saving  BY <1>1, SavingOf
    <2> QED BY <2>1
  <1>3. Entries(exhausted, markTime)' = Entries(exhausted, markTime)  BY DEF Entries
  <1>4. ASSUME NEW u \in Thread
        PROVE  /\ step'[u] \notin {"drop", "droptime"}
               /\ step'[u] \in {"open", "write"} => data'[u] = Entries(exhausted, markTime)'
               /\ step'[u] = "write" => size' = 0
    <2>1. CASE u = t  BY <1>1, <2>1, SavingOf DEF Away, Asks
    <2>2. CASE u # t  BY <1>0, <1>1, <1>3, <2>2, SavingOf DEF Inv, SaveInv
    <2> QED BY <2>1, <2>2
  <1> QED BY <1>0, <1>2, <1>3, <1>4 DEF Inv, SaveInv

LEMMA BeginStep ==
    ASSUME Inv, NEW t \in Thread, NEW s \in Steps, NEW keys \in SUBSET Key,
           Begin(t, s, keys), s \in {"ask", "mark", "clear", "drop", "list"}
    PROVE  /\ QuotaTypeOK' /\ step' \in [Thread -> Steps]
           /\ SaveInv'
  <1>1. QuotaTypeOK' /\ step' \in [Thread -> Steps]
    <2> USE DEF Inv, TypeOK, QuotaTypeOK, Begin
    <2>1. ops' \in 0..MaxOps  BY QuotaAssumption DEF QuotaAssumption
    <2>2. excuse' \in BOOLEAN  OBVIOUS
    <2>3. target' \in [Thread -> SUBSET Key] /\ step' \in [Thread -> Steps]  OBVIOUS
    <2>4. UNCHANGED <<exhausted, markTime, file, size, count, data, clock>>
      BY DEF memory, disk
    <2> QED BY <2>1, <2>2, <2>3, <2>4 DEF Torn
  <1>2. step[t] \in Away /\ step' = [step EXCEPT ![t] = s]  BY DEF Begin, Away
  <1>3. CASE s = "ask"
    <2>1. s \in Away  BY <1>3 DEF Away, Asks
    <2>2. excuse' = excuse /\ UNCHANGED <<exhausted, markTime, file, size, data>>
      BY <1>3 DEF Begin, memory, disk
    <2> QED BY <1>1, <1>2, <2>1, <2>2, AwayStep
  <1>4. CASE s # "ask"
    <2>1. s \notin Away \cup {"droptime", "open", "write"}  BY <1>4 DEF Away, Asks
    <2>2. excuse' = (Saving # {} \/ s = "drop")  BY <1>4 DEF Begin
    <2> QED BY <1>1, <1>2, <2>1, <2>2, ComeStep
  <1> QED BY <1>3, <1>4

-----------------------------------------------------------------------------
(* The steps of an operation on the marks.                                 *)

Types == QuotaTypeOK /\ step \in [Thread -> Steps]

LEMMA EndTypes ==
    ASSUME TypeOK, NEW t \in Thread, End(t)
    PROVE  /\ target' \in [Thread -> SUBSET Key] /\ count' \in [Thread -> Nat]
           /\ data' \in [Thread -> [Key -> Nat \cup {Absent}]]
           /\ step' \in [Thread -> Steps]
           /\ UNCHANGED <<clock, ops>>
  <1>1. Nothing \in [Key -> Nat \cup {Absent}]  BY DEF Nothing
  <1> QED BY <1>1 DEF End, TypeOK, QuotaTypeOK, Steps

LEMMA QuotaStepTypes ==
    ASSUME TypeOK, NEW t \in Thread, QuotaStep(t) PROVE Types'
  <1> USE DEF TypeOK, QuotaTypeOK, Types, memory, disk, Goto, End, Torn
  <1>1. ASSUME SetMark(t) PROVE Types'
    BY <1>1 DEF SetMark, Steps
  <1>2. ASSUME SetTime(t) PROVE Types'
    <2>1. clock \in Nat  OBVIOUS
    <2>2. markTime' \in [Key -> Nat]  BY <1>2, <2>1 DEF SetTime
    <2> QED BY <1>2, <2>2 DEF SetTime, Steps
  <1>3. ASSUME PopMark(t) PROVE Types'
    BY <1>3 DEF PopMark, Steps
  <1>4. ASSUME PopTime(t) PROVE Types'
    <2>1. markTime' \in [Key -> Nat]  BY <1>4 DEF PopTime
    <2>2. CASE step[t] = "cleartime"
      BY <1>4, <2>1, <2>2 DEF PopTime, Steps
    <2>3. CASE step[t] = "droptime"
      <3>1. End(t) /\ UNCHANGED <<exhausted, file, size, excuse>>
        BY <1>4, <2>3 DEF PopTime
      <3> QED BY <2>1, <3>1, EndTypes
    <2> QED BY <1>4, <2>2, <2>3 DEF PopTime
  <1>5. ASSUME List(t) PROVE Types'
    <2>1. Cardinality(exhausted) \in Nat
      BY FS_Subset, FS_CardinalityType, QuotaAssumption DEF QuotaAssumption
    <2> QED BY <1>5, <2>1 DEF List, Steps
  <1>6. ASSUME Listed(t) PROVE Types'
    <2>1. Entries(exhausted, markTime) \in [Key -> Nat \cup {Absent}]
      BY EntriesType DEF Marks
    <2>2. CASE Cardinality(exhausted) = count[t]
      <3>1. data' = [data EXCEPT ![t] = Entries(exhausted, markTime)]
        BY <1>6, <2>2 DEF Listed
      <3>2. data' \in [Thread -> [Key -> Nat \cup {Absent}]]  BY <2>1, <3>1
      <3>3. step' \in [Thread -> Steps]  BY <1>6, <2>2 DEF Listed, Steps
      <3>4. /\ UNCHANGED <<exhausted, markTime, file, size, target, count, clock, ops>>
            /\ excuse' \in BOOLEAN
        BY <1>6, <2>2 DEF Listed
      <3> QED BY <3>2, <3>3, <3>4
    <2>3. CASE Cardinality(exhausted) # count[t]
      <3>1. End(t) /\ UNCHANGED <<exhausted, markTime, file, size>> /\ excuse' \in BOOLEAN
        BY <1>6, <2>3 DEF Listed
      <3> QED BY <3>1, EndTypes
    <2> QED BY <2>2, <2>3
  <1>7. ASSUME Open(t) PROVE Types'
    BY <1>7 DEF Open, Steps
  <1>8. ASSUME OpenFails(t) \/ WriteFails(t) PROVE Types'
    <2>1. End(t) /\ UNCHANGED <<exhausted, markTime, file, size>> /\ excuse' \in BOOLEAN
      BY <1>8 DEF OpenFails, WriteFails
    <2> QED BY <2>1, EndTypes
  <1>9. ASSUME Write(t) PROVE Types'
    <2>1. Length(data[t]) \in Nat  BY LengthPositive
    <2>2. size' \in Nat /\ (file' = Torn \/ file' \in [Key -> Nat \cup {Absent}])
      BY <1>9, <2>1 DEF Write
    <2>3. UNCHANGED <<exhausted, markTime, excuse, clock, ops>>
      BY <1>9 DEF Write
    <2> QED BY <1>9, <2>2, <2>3, EndTypes DEF Write
  <1> QED BY <1>1, <1>2, <1>3, <1>4, <1>5, <1>6, <1>7, <1>8, <1>9 DEF QuotaStep

LEMMA QuotaStepSaves ==
    ASSUME Inv, NEW t \in Thread, QuotaStep(t) PROVE SaveInv'
  <1> USE DEF Steps, Away, Asks
  <1>0. step \in [Thread -> Steps] /\ data \in [Thread -> Marks]
    BY DEF Inv, TypeOK, QuotaTypeOK, Marks
  <1>1. CASE SetMark(t)
    BY <1>1, WorkStep DEF SetMark, Goto
  <1>2. CASE SetTime(t)
    BY <1>2, WorkStep DEF SetTime, Goto
  <1>3. CASE PopMark(t)
    BY <1>3, WorkStep DEF PopMark, Goto
  <1>4. CASE PopTime(t)
    <2>1. CASE step[t] = "cleartime"
      BY <1>4, <2>1, WorkStep DEF PopTime, Goto
    <2>2. CASE step[t] = "droptime"
      <3>1. excuse = TRUE  BY <2>2 DEF Inv, SaveInv, TypeOK, QuotaTypeOK
      <3>2. excuse' /\ step' = [step EXCEPT ![t] = "idle"]
        BY <1>4, <2>2, <3>1 DEF PopTime, End
      <3> QED BY <2>2, <3>2, LeaveStep
    <2> QED BY <1>4, <2>1, <2>2 DEF PopTime
  <1>5. CASE List(t)
    BY <1>5, WorkStep DEF List, Goto
  <1>6. CASE Listed(t)
    <2>1. CASE Cardinality(exhausted) = count[t]
      <3>1. data'[t] = Entries(exhausted, markTime)'
        BY <1>0, <1>6, <2>1 DEF Listed, memory, Entries
      <3>2. step' = [step EXCEPT ![t] = "open"] /\ step[t] = "listing"
        BY <1>6, <2>1 DEF Listed, Goto
      <3>3. excuse' = excuse
        BY <1>6, <2>1 DEF Listed, Inv, TypeOK, QuotaTypeOK
      <3> QED BY <3>1, <3>2, <3>3, WorkStep
    <2>2. CASE Cardinality(exhausted) # count[t]
      <3>1. excuse' /\ step' = [step EXCEPT ![t] = "idle"] /\ step[t] = "listing"
        BY <1>6, <2>2 DEF Listed, End
      <3> QED BY <3>1, LeaveStep
    <2> QED BY <2>1, <2>2
  <1>7. CASE Open(t)
    <2>1. /\ step' = [step EXCEPT ![t] = "write"] /\ step[t] = "open"
          /\ excuse' = excuse /\ size' = 0
      BY <1>7 DEF Open, Goto
    <2>2. ~excuse => data'[t] = Entries(exhausted, markTime)'
      BY <1>7, <2>1 DEF Open, memory, Inv, SaveInv, Entries
    <2> QED BY <2>1, <2>2, WorkStep
  <1>8. CASE OpenFails(t) \/ WriteFails(t)
    <2>1. excuse' /\ step' = [step EXCEPT ![t] = "idle"] /\ step[t] \in {"open", "write"}
      BY <1>8 DEF OpenFails, WriteFails, End
    <2> QED BY <2>1, LeaveStep
  <1>9. CASE Write(t)
    <2>1. /\ step' = [step EXCEPT ![t] = "idle"] /\ step[t] = "write"
          /\ excuse' = excuse /\ UNCHANGED <<exhausted, markTime>>
      BY <1>9 DEF Write, End, memory
    <2>2. ASSUME ~excuse PROVE file' = Entries(exhausted, markTime)'
      <3>1. size = 0 /\ data[t] = Entries(exhausted, markTime)
        BY <2>1, <2>2 DEF Inv, SaveInv
      <3>2. Length(data[t]) \in Nat /\ Length(data[t]) > 0  BY LengthPositive
      <3>3. file' = data[t]  BY <1>9, <3>1, <3>2 DEF Write
      <3> QED BY <2>1, <3>1, <3>3 DEF Entries
    <2>3. excuse' \/ (~excuse /\ file' = Entries(exhausted, markTime)')
      BY <2>1, <2>2
    <2> QED BY <2>1, <2>3, LeaveStep
  <1> QED BY <1>1, <1>2, <1>3, <1>4, <1>5, <1>6, <1>7, <1>8, <1>9 DEF QuotaStep

-----------------------------------------------------------------------------
(* The restart, and the steps of the cache.                                *)

LEMMA RestartStep ==
    ASSUME Inv, RestartAll PROVE Inv'
  <1> USE DEF RestartAll, Restart
  <1>1. Loaded \in Marks  BY LoadedType DEF Inv
  <1>2. Types'
    <2>1. exhausted' \subseteq Key /\ markTime' \in [Key -> Nat]
      BY <1>1 DEF Marked, Marks, Absent
    <2>2. data' \in [Thread -> [Key -> Nat \cup {Absent}]]
      BY DEF Nothing
    <2>3. UNCHANGED <<file, size, clock, ops>>  BY DEF disk
    <2> QED BY <2>1, <2>2, <2>3 DEF Inv, TypeOK, QuotaTypeOK, Types, Steps, Torn
  <1>3. TypeOK'
    BY <1>2 DEF Types, Inv, TypeOK, NoAnswer, NoEntry, SnapshotType
  <1>4. ASSUME file # Torn PROVE file' = Entries(exhausted, markTime)'
    <2>0. file' = file  BY DEF disk
    <2>1. file \in Marks /\ Loaded = file
      BY <1>4 DEF Inv, TypeOK, QuotaTypeOK, Marks, Loaded
    <2>2. \A k \in Key : (k \in exhausted') = (file[k] # Absent)
      BY <2>1 DEF Marked
    <2>3. \A k \in Key : markTime'[k] = IF file[k] > 0 THEN file[k] ELSE 0
      BY <2>1
    <2>4. \A k \in Key : file[k] \in Nat \cup {Absent}
      BY <2>1 DEF Marks
    <2>5. \A k \in Key : Entries(exhausted', markTime')[k] = file[k]
      BY <2>2, <2>3, <2>4 DEF Entries, Absent
    <2> QED BY <2>0, <2>1, <2>5 DEF Entries, Marks
  <1>5. SaveInv'
    <2>1. excuse' = (file = Torn) /\ \A t \in Thread : step'[t] = "idle"  OBVIOUS
    <2>2. Saving' = {}  BY <2>1 DEF Saving
    <2> QED BY <1>4, <2>1, <2>2 DEF SaveInv
  <1>6. SeenInv'  BY DEF SeenInv, NoEntry, NoAnswer
  <1> QED BY <1>3, <1>5, <1>6 DEF Inv

\* What the marks of an operation do not touch.
LEMMA QuotaKeepsUsage ==
    ASSUME Inv, NEW t \in Thread, QuotaStep(t) \/ QuotaBegin(t), UNCHANGED usageVars,
           Types'
    PROVE  TypeOK' /\ SeenInv'
  <1>1. TypeOK'  BY DEF Inv, TypeOK, Types, usageVars
  <1>2. clock' = clock /\ \A u \in Thread : step'[u] \in {"ask", "keep"} => step'[u] = step[u]
    <2>1. CASE QuotaStep(t)
      BY <2>1 DEF QuotaStep, SetMark, SetTime, PopMark, PopTime, List, Listed, Open, OpenFails,
                  Write, WriteFails, Goto, End, Inv, TypeOK
    <2>2. CASE QuotaBegin(t)
      BY <2>2 DEF QuotaBegin, MarkExhausted, ResetBackend, UpdateResetAt, AutoReset, ResetTier,
                  ResetAll, Begin, Inv, TypeOK
    <2> QED BY <2>1, <2>2
  <1>3. SeenInv'  BY <1>2 DEF SeenInv, usageVars, Inv
  <1> QED BY <1>1, <1>3

LEMMA QuotaBeginStep ==
    ASSUME Inv, NEW t \in Thread, QuotaBegin(t) PROVE Types' /\ SaveInv'
  <1> USE DEF Steps, Types
  <1>1. CASE \E k \in Key : MarkExhausted(t, k)
    BY <1>1, BeginStep DEF MarkExhausted
  <1>2. CASE \E k \in Key : ResetBackend(t, k)
    BY <1>2, BeginStep DEF ResetBackend
  <1>3. CASE \E k \in Key : UpdateResetAt(t, k)
    BY <1>3, BeginStep DEF UpdateResetAt
  <1>4. CASE \E k \in Key : AutoReset(t, k)
    BY <1>4, BeginStep DEF AutoReset
  <1>5. CASE \E keys \in SUBSET Key : ResetTier(t, keys)
    BY <1>5, BeginStep DEF ResetTier
  <1>6. CASE ResetAll(t)
    BY <1>6, BeginStep DEF ResetAll
  <1> QED BY <1>1, <1>2, <1>3, <1>4, <1>5, <1>6 DEF QuotaBegin

LEMMA TickStep ==
    ASSUME Inv, Tick, UNCHANGED usageVars PROVE Inv'
  <1> USE DEF Inv, Tick, memory, disk, usageVars
  <1>1. clock' \in 1..MaxClock /\ clock' = clock + 1 /\ clock \in Nat
    BY QuotaAssumption DEF TypeOK, QuotaTypeOK, QuotaAssumption
  <1>2. TypeOK'  BY <1>1 DEF TypeOK, QuotaTypeOK, Torn
  <1>3. SaveInv'  BY DEF SaveInv, Saving, Entries
  <1>4. SeenInv'  BY <1>1 DEF SeenInv, TypeOK
  <1> QED BY <1>2, <1>3, <1>4

LEMMA UsageStepInv ==
    ASSUME Inv, NEW t \in Thread, UsageStep(t) PROVE Inv'
  <1> USE DEF Steps
  <1>0. TypeOK /\ SeenInv /\ clock \in Nat /\ NoAnswer \in SnapshotType
        /\ NoEntry \in [at : Nat, snapshot : SnapshotType]
    BY DEF Inv, TypeOK, QuotaTypeOK, NoAnswer, NoEntry, SnapshotType
  <1>1. ASSUME NEW k \in Key, Ask(t, k),
               UNCHANGED cache \/ cache' = [a \in Key |-> NoEntry],
               UNCHANGED pass \/ pass' = [pass EXCEPT ![t] = {k}]
        PROVE  Inv'
    <2>1. Types' /\ SaveInv'  BY <1>1, BeginStep DEF Ask, Types
    <2>2. asked' = [asked EXCEPT ![t] = clock] /\ UNCHANGED <<spent, answer, clock>>
      BY <1>1 DEF Ask, Begin
    <2>3. TypeOK'
      BY <1>0, <1>1, <2>1, <2>2 DEF TypeOK, Types
    <2>4. step' = [step EXCEPT ![t] = "ask"]  BY <1>1 DEF Ask, Begin
    <2>5. SeenInv'
      BY <1>0, <1>1, <2>2, <2>4 DEF SeenInv, TypeOK, NoEntry, NoAnswer
    <2> QED BY <2>1, <2>3, <2>5 DEF Inv
  <1>2. ASSUME NEW s \in Away, step[t] \in Away, step' = [step EXCEPT ![t] = s],
               UNCHANGED <<memory, disk, excuse, clock, ops>>,
               \/ UNCHANGED <<target, count, data>>
               \/ s = "idle" /\ End(t)
        PROVE  Types' /\ SaveInv'
    <2>1. Types'
      BY <1>0, <1>2, EndTypes DEF Types, TypeOK, QuotaTypeOK, memory, disk, Torn, Away, Asks
    <2>2. \A u \in Thread : u # t => data'[u] = data[u]
      BY <1>0, <1>2 DEF End, TypeOK, QuotaTypeOK
    <2>3. SaveInv'  BY <1>2, <2>2, AwayStep DEF memory, disk
    <2> QED BY <2>1, <2>3
  <1>3. ASSUME NEW a \in SnapshotType, a.seen = clock, NEW s \in {"keep", "judge"},
               step[t] = "ask", answer' = [answer EXCEPT ![t] = a], Goto(t, s),
               UNCHANGED <<memory, disk, target, count, data, excuse, spent, cache, asked, pass>>
        PROVE  Inv'
    <2>1. Types' /\ SaveInv'  BY <1>2, <1>3 DEF Goto, Away, Asks
    <2>2. TypeOK'  BY <1>0, <1>3, <2>1 DEF TypeOK, Types
    <2>3. asked[t] <= clock  BY <1>0, <1>3 DEF SeenInv
    <2>4. SeenInv'
      BY <1>0, <1>3, <2>3 DEF SeenInv, TypeOK, Goto
    <2> QED BY <2>1, <2>2, <2>4 DEF Inv
  <1>4. CASE \E k \in Metered \cup Unlimited :
                Refresh(t, k) \/ ClearAndRefresh(t, k) \/ PassVisits(t, k)
    <2>1. PICK k \in Key : Refresh(t, k) \/ ClearAndRefresh(t, k) \/ PassVisits(t, k)
      BY <1>4, UsageAssumption DEF UsageAssumption
    <2> QED BY <1>1, <2>1 DEF Refresh, ClearAndRefresh, PassVisits
  <1>5. CASE Answered(t)
    <2>1. PICK k \in target[t] : \E a \in Load(k) : answer' = [answer EXCEPT ![t] = a]
      BY <1>5 DEF Answered
    <2>2. k \in Key  BY <1>0 DEF TypeOK, QuotaTypeOK
    <2>3. PICK a \in Load(k) : answer' = [answer EXCEPT ![t] = a]  BY <2>1
    <2>4. a \in SnapshotType /\ a.seen = clock  BY <1>0, <2>2, SnapshotTyped
    <2> QED BY <1>3, <1>5, <2>3, <2>4 DEF Answered
  <1>6. CASE LoadRaises(t)
    <2>1. Snapshot("unavailable", {}) \in SnapshotType /\ Snapshot("unavailable", {}).seen = clock
      BY <1>0 DEF Snapshot, SnapshotType
    <2> QED BY <1>3, <1>6, <2>1 DEF LoadRaises
  <1>7. CASE Keep(t)
    <2>1. Types' /\ SaveInv'  BY <1>2, <1>7 DEF Keep, Goto, Away, Asks
    <2>2. [at |-> asked[t], snapshot |-> answer[t]] \in [at : Nat, snapshot : SnapshotType]
      BY <1>0 DEF TypeOK
    <2>3. TypeOK'  BY <1>0, <1>7, <2>1, <2>2 DEF TypeOK, Types, Keep
    <2>4. asked[t] <= answer[t].seen  BY <1>0, <1>7 DEF SeenInv, Keep
    <2>5. \A k \in Key : cache'[k].at <= cache'[k].snapshot.seen
      BY <1>0, <1>7, <2>4 DEF SeenInv, Keep
    <2>6. SeenInv'  BY <1>0, <1>7, <2>5 DEF SeenInv, TypeOK, Keep, Goto
    <2> QED BY <2>1, <2>3, <2>6 DEF Inv
  <1>8. CASE Judge(t)
    <2>1. step[t] = "judge" /\ UNCHANGED <<memory, disk, spent, cache, pass, clock, ops>>
      BY <1>8 DEF Judge, Goto, End
    <2>2. /\ Types' /\ SaveInv'
          /\ step' = [step EXCEPT ![t] = "list"] \/ step' = [step EXCEPT ![t] = "idle"]
      <3>1. ASSUME Goto(t, "list"), excuse' = (Saving # {}), UNCHANGED <<target, count, data>>
            PROVE  Types' /\ SaveInv' /\ step' = [step EXCEPT ![t] = "list"]
        <4>1. step' = [step EXCEPT ![t] = "list"]  BY <3>1 DEF Goto
        <4>2. Types'
          BY <1>0, <2>1, <3>1, <4>1 DEF Types, TypeOK, QuotaTypeOK, memory, disk, Torn
        <4>3. SaveInv'  BY <2>1, <3>1, <4>1, ComeStep DEF Away, Asks
        <4> QED BY <4>1, <4>2, <4>3
      <3>2. ASSUME End(t), UNCHANGED excuse
            PROVE  Types' /\ SaveInv' /\ step' = [step EXCEPT ![t] = "idle"]
        <4>1. step' = [step EXCEPT ![t] = "idle"]  BY <3>2 DEF End
        <4>2. "idle" \in Away /\ step[t] \in Away  BY <2>1 DEF Away, Asks
        <4> QED BY <1>2, <2>1, <3>2, <4>1, <4>2
      <3> QED BY <1>8, <3>1, <3>2 DEF Judge
    <2>4. asked' = [asked EXCEPT ![t] = 0]
          /\ (answer' = [answer EXCEPT ![t] = NoAnswer] \/ answer' = answer)
      BY <1>8 DEF Judge
    <2>5. TypeOK'  BY <1>0, <2>1, <2>2, <2>4 DEF TypeOK, Types
    <2>6. SeenInv'  BY <1>0, <2>1, <2>2, <2>4 DEF SeenInv, TypeOK
    <2> QED BY <2>2, <2>5, <2>6 DEF Inv
  <1>9. CASE PassClears(t)
    <2>1. pass[t] \in SUBSET Key  BY <1>0 DEF TypeOK
    <2>2. Begin(t, "clear", pass[t])  BY <1>9 DEF PassClears
    <2>3. Types' /\ SaveInv'  BY <2>1, <2>2, BeginStep DEF Types
    <2>4. /\ answer' = [answer EXCEPT ![t] = NoAnswer] /\ pass' = [pass EXCEPT ![t] = {}]
          /\ UNCHANGED <<spent, cache, asked>>
      BY <1>9 DEF PassClears, PassGoesOn
    <2>5. TypeOK'  BY <1>0, <2>3, <2>4 DEF TypeOK, Types
    <2>6. step' = [step EXCEPT ![t] = "clear"] /\ clock' = clock  BY <2>2 DEF Begin
    <2>7. SeenInv'  BY <1>0, <2>4, <2>6 DEF SeenInv, TypeOK
    <2> QED BY <2>3, <2>5, <2>7 DEF Inv
  <1>10. CASE PassLeaves(t)
    <2>1. /\ answer' = [answer EXCEPT ![t] = NoAnswer] /\ pass' = [pass EXCEPT ![t] = {}]
          /\ UNCHANGED <<spent, cache, asked>> /\ UNCHANGED quotaVars /\ step[t] = "idle"
      BY <1>10 DEF PassLeaves, PassGoesOn
    <2>2. TypeOK'
      BY <1>0, <2>1 DEF TypeOK, QuotaTypeOK, quotaVars, memory, disk, Torn
    <2>3. SaveInv'
      BY <2>1 DEF Inv, SaveInv, Saving, Entries, quotaVars, memory, disk
    <2>4. SeenInv'  BY <1>0, <2>1 DEF SeenInv, TypeOK, quotaVars
    <2> QED BY <2>2, <2>3, <2>4 DEF Inv
  <1> QED BY <1>4, <1>5, <1>6, <1>7, <1>8, <1>9, <1>10 DEF UsageStep

LEMMA ProviderStep ==
    ASSUME Inv, NEW k \in Key, NEW w \in Window, Spend(k, w) \/ Renew(k, w) PROVE Inv'
  <1> USE DEF Inv, quotaVars, memory, disk
  <1>0. /\ UNCHANGED <<quotaVars, cache, asked, answer, pass>>
        /\ spent' = [spent EXCEPT ![k] = @ \cup {w}] \/ spent' = [spent EXCEPT ![k] = @ \ {w}]
    BY DEF Spend, Renew
  <1>1. TypeOK'
    <2>1. spent \in [Key -> SUBSET Window]  BY DEF TypeOK
    <2>2. spent' \in [Key -> SUBSET Window]
      <3>1. spent[k] \cup {w} \in SUBSET Window /\ spent[k] \ {w} \in SUBSET Window
        BY <2>1
      <3>2. PICK W \in SUBSET Window : spent' = [spent EXCEPT ![k] = W]  BY <1>0, <3>1
      <3> QED BY <2>1, <3>2
    <2>3. QuotaTypeOK'  BY <1>0 DEF TypeOK, QuotaTypeOK, Torn
    <2> QED BY <1>0, <2>2, <2>3 DEF TypeOK
  <1>2. SaveInv'  BY <1>0 DEF SaveInv, Saving, Entries
  <1>3. SeenInv'  BY <1>0 DEF SeenInv
  <1> QED BY <1>1, <1>2, <1>3

LEMMA NextInv == ASSUME Inv, [Next]_vars PROVE Inv'
  <1>1. CASE \E t \in Thread : UsageStep(t)
    BY <1>1, UsageStepInv
  <1>2. ASSUME NEW t \in Thread, QuotaStep(t), UNCHANGED usageVars PROVE Inv'
    <2>1. Types'  BY <1>2, QuotaStepTypes DEF Inv
    <2>2. SaveInv'  BY <1>2, QuotaStepSaves
    <2>3. TypeOK' /\ SeenInv'  BY <1>2, <2>1, QuotaKeepsUsage
    <2> QED BY <2>2, <2>3 DEF Inv
  <1>3. ASSUME NEW t \in Thread, QuotaBegin(t), UNCHANGED usageVars PROVE Inv'
    <2>1. Types' /\ SaveInv'  BY <1>3, QuotaBeginStep
    <2>2. TypeOK' /\ SeenInv'  BY <1>3, <2>1, QuotaKeepsUsage
    <2> QED BY <2>1, <2>2 DEF Inv
  <1>4. CASE \E k \in Key, w \in Window : Spend(k, w) \/ Renew(k, w)
    BY <1>4, ProviderStep
  <1>5. CASE Tick /\ UNCHANGED usageVars
    BY <1>5, TickStep
  <1>6. CASE RestartAll
    BY <1>6, RestartStep
  <1>7. CASE UNCHANGED vars
    <2> USE <1>7 DEF Inv, vars, quotaVars, usageVars, memory, disk
    <2>1. TypeOK'  BY DEF TypeOK, QuotaTypeOK, Torn
    <2>2. SaveInv'  BY DEF SaveInv, Saving, Entries
    <2>3. SeenInv'  BY DEF SeenInv
    <2> QED BY <2>1, <2>2, <2>3
  <1> QED BY <1>1, <1>2, <1>3, <1>4, <1>5, <1>6, <1>7 DEF Next

THEOREM Invariance == Spec => []Inv
  <1>1. Init => Inv  BY InitInv
  <1>2. Inv /\ [Next]_vars => Inv'  BY NextInv
  <1> QED BY <1>1, <1>2, PTL DEF Spec

-----------------------------------------------------------------------------
\* The marks, the file, the cache and the places of the threads keep their
\* types.  (QuotaManager, ProviderUsageManager)
THEOREM TypeCorrect == Spec => []TypeOK
  <1>1. Inv => TypeOK  BY DEF Inv
  <1> QED BY <1>1, Invariance, PTL

\* When no operation is at the marks, what a restart finds is what memory
\* holds, but after a save that failed or met another operation, or a mark that
\* its date ended, since the last operation that began alone; for any number of
\* threads and accounts.  (_save_state, _load_state)
THEOREM SaveIsDurable == Spec => []SavedAtRest
  <1>1. Inv => SavedAtRest  BY DEF Inv, SaveInv, SavedAtRest
  <1> QED BY <1>1, Invariance, PTL

\* The cache serves nothing that was reported longer ago than its time, for
\* any number of overlapping refreshes.  (usage_for_model)
THEOREM CacheIsFresh == Spec => []UsageIsFresh
  <1>1. Inv => UsageIsFresh
    <2> SUFFICES ASSUME Inv, NEW k \in Key, Served(k)
                 PROVE  clock - cache[k].snapshot.seen < Ttl
      BY DEF UsageIsFresh
    <2>1. cache[k].at \in Nat /\ cache[k].snapshot.seen \in Nat /\ clock \in Nat
      BY DEF Inv, TypeOK, QuotaTypeOK, SnapshotType
    <2>2. cache[k].at <= cache[k].snapshot.seen  BY DEF Inv, SeenInv
    <2> QED BY <2>1, <2>2, UsageAssumption DEF Served, UsageAssumption
  <1> QED BY <1>1, Invariance, PTL
=============================================================================
