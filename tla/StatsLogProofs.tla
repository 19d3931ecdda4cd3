-------------------------- MODULE StatsLogProofs --------------------------
(***************************************************************************)
(* The statistics, for every number of threads, events and scopes and for  *)
(* every limit of a query: no answer of /stats hides a loss below its      *)
(* limits, the snapshot of /runtime is no older than the time it is kept   *)
(* under, no summary counts a part of its scope, and the columns of a row  *)
(* add up.                                                                 *)
(***************************************************************************)
EXTENDS StatsLog, FiniteSetTheorems, TLAPS

Parts == [summary : SUBSET Event, rows : SUBSET Event, events : SUBSET Event]

TypeOK ==
    /\ log \in SUBSET Event
    /\ rowid \in [Event -> Nat]
    /\ lost \in SUBSET Event /\ refused \in SUBSET Event
    /\ summary \in [Scope -> [kept : BOOLEAN, events : SUBSET Event, due : SUBSET Event]]
    /\ disclosed \in BOOLEAN
    /\ cache \in Parts
    /\ step \in [Thread -> {"idle", "summary", "rows", "events", "recheck", "answered",
                            "lookup", "live", "sync", "store",
                            "byBackend", "errors", "total", "keep", "keepTime"}]
    /\ target \in [Thread -> SUBSET Scope]
    /\ query \in [Thread -> [limit : Nat, events : BOOLEAN]]
    /\ found \in [Thread -> SUBSET Scope]
    /\ got \in [Thread -> Parts]
    /\ due \in [Thread -> SUBSET Event]
    /\ cacheDue \in SUBSET Event

\* Without tasks there are no events.
Asked(t) == target[t] # {} \/ Event = {}

TotalRead(t) == Covers(got[t].summary, due[t], SummaryLimit(query[t].limit))
RowsRead(t) == Covers(got[t].rows, due[t] \cup got[t].summary, query[t].limit)
EventsRead(t) == query[t].events => Covers(got[t].events, due[t] \cup got[t].rows, query[t].limit)

Chain(t) == TotalRead(t) /\ RowsRead(t) /\ EventsRead(t)

LiveRead(t) ==
    \A s \in target[t] \ found[t] :
        {e \in due[t] : TaskOf[e] \in Below(s)} \subseteq got[t].rows \cup refused

\* What a summary of a scope is due.
DueIn(t, s) == {e \in due[t] \ (lost \cup refused) : TaskOf[e] \in Below(s)}

\* A snapshot and the events it is due.
InTime(parts, events) ==
    Covers(parts.rows, events, RuntimeLimit) /\ Covers(parts.summary, events, TotalLimit)

\* What a request has read so far: all that it is due, unless a failure is
\* on record.
ReadSoFar(t) ==
    /\ due[t] \subseteq Settled
    /\ step[t] \in {"summary", "rows", "events"} => target[t] = {}
    /\ step[t] \in {"lookup", "live"} => Asked(t)
    /\ step[t] = "lookup" => target[t] \subseteq Task \/ \E s \in Scope : target[t] = {s}
    /\ step[t] \in {"sync", "store"} => \E s \in Scope : target[t] = {s}
    /\ step[t] = "rows" =>
         got[t].summary \subseteq log /\ (disclosed \/ TotalRead(t))
    /\ step[t] = "events" =>
         /\ got[t].rows \subseteq log
         /\ disclosed \/ (TotalRead(t) /\ RowsRead(t))
    /\ step[t] = "recheck" =>
         disclosed \/ (IF target[t] = {} THEN Event = {} \/ Chain(t) ELSE LiveRead(t))
    /\ step[t] = "answered" => IF target[t] = {} THEN Event = {} \/ Chain(t) ELSE LiveRead(t)
    /\ step[t] = "store" =>
         \A s \in target[t] :
            /\ got[t].rows \subseteq EventsOf(Below(s))
            /\ \/ got[t].rows = {}
               \/ DueIn(t, s) \subseteq got[t].rows
    /\ step[t] \in {"errors", "total"} => disclosed \/ Covers(got[t].rows, due[t], RuntimeLimit)
    /\ step[t] = "keep" => disclosed \/ InTime(got[t], due[t])

Requests == \A t \in Thread : ReadSoFar(t)

\* One thread builds the snapshot, and what it puts in place is never due
\* less than the one before.
Snapshot ==
    /\ \A t, u \in Thread : Building(t) /\ Building(u) => t = u
    /\ cacheDue \subseteq Settled
    /\ \A t \in Thread : Building(t) => cacheDue \subseteq due[t]
    /\ \A t \in Thread : step[t] = "keepTime" =>
         disclosed \/ InTime(cache, due[t])
    /\ SnapshotUnderItsTime

Losses == lost # {} => disclosed

LogFinite == IsFiniteSet(log)

Inv == TypeOK /\ LogFinite /\ Requests /\ Snapshot /\ Losses /\ SummaryNeverPartial

-----------------------------------------------------------------------------
LEMMA TaskOfEvent == TaskOf \in [Event -> Task] /\ Task \subseteq Scope
  BY StatsAssumption DEF StatsAssumption

Part == {"summary", "rows", "events"}

LEMMA QueryReads ==
  ASSUME TypeOK, NEW t \in Thread, NEW part \in Part, NEW E \in SUBSET Event, Query(t, part, E)
  PROVE  /\ got' \in [Thread -> Parts] /\ disclosed' \in BOOLEAN
         /\ got'[t][part] \in {E, {}}
         /\ got'[t][part] = E \/ disclosed'
         /\ \A q \in Part \ {part} : got'[t][q] = got[t][q]
         /\ \A u \in Thread \ {t} : got'[u] = got[u]
         /\ disclosed => disclosed'
  <1> got \in [Thread -> Parts] /\ disclosed \in BOOLEAN  BY DEF TypeOK
  <1>1. PICK F \in {E, {}} : got' = [got EXCEPT ![t][part] = F]
                              /\ ((F = E /\ disclosed' = disclosed) \/ disclosed' = TRUE)
    BY DEF Query
  <1>2. F \in SUBSET Event  BY <1>1
  <1>3. got' \in [Thread -> Parts]  BY <1>1, <1>2 DEF Parts, Part
  <1>4. got'[t][part] = F  BY <1>1, <1>2 DEF Parts, Part
  <1>5. \A q \in Part \ {part} : got'[t][q] = got[t][q]  BY <1>1, <1>2 DEF Parts, Part
  <1>6. \A u \in Thread \ {t} : got'[u] = got[u]  BY <1>1
  <1> QED BY <1>1, <1>3, <1>4, <1>5, <1>6

-----------------------------------------------------------------------------
(* Frames: what a step leaves alone stays as it is.                        *)

Grows ==
    /\ log \subseteq log' /\ lost \subseteq lost' /\ refused \subseteq refused'
    /\ disclosed => disclosed'

Untouched(u) ==
    /\ step'[u] = step[u] /\ target'[u] = target[u] /\ query'[u] = query[u] /\ found'[u] = found[u]
    /\ got'[u] = got[u] /\ due'[u] = due[u]

LEMMA CoversKeep ==
    ASSUME NEW part, NEW events, NEW n, Covers(part, events, n), refused \subseteq refused'
    PROVE  Covers(part, events, n)'
  BY DEF Covers

LEMMA OthersKeep == ASSUME NEW u \in Thread, ReadSoFar(u), Untouched(u), Grows
                    PROVE  ReadSoFar(u)'
  <1> USE DEF Untouched, Grows
  <1>1. \A s \in Scope : EventsOf(Below(s)) \subseteq EventsOf(Below(s))'
    BY DEF EventsOf, Below
  <1>2. \A s : DueIn(u, s)' \subseteq DueIn(u, s)
    BY DEF DueIn, Below
  <1>3. /\ TotalRead(u) => TotalRead(u)'
        /\ RowsRead(u) => RowsRead(u)'
        /\ EventsRead(u) => EventsRead(u)'
        /\ LiveRead(u) => LiveRead(u)'
        /\ Asked(u)' <=> Asked(u)
    BY DEF TotalRead, RowsRead, EventsRead, LiveRead, Asked, Below, Covers
  <1>4. /\ Covers(got[u].rows, due[u], RuntimeLimit) => Covers(got[u].rows, due[u], RuntimeLimit)'
        /\ InTime(got[u], due[u]) => InTime(got[u], due[u])'
    BY DEF Covers, InTime
  <1>5. due[u] \subseteq Settled'  BY DEF ReadSoFar, Settled
  <1>6. step[u] = "store" => ReadSoFar(u)'
    <2> SUFFICES ASSUME step[u] = "store" PROVE ReadSoFar(u)'
      OBVIOUS
    <2>1. PICK s \in Scope : target[u] = {s}  BY DEF ReadSoFar
    <2>2. got[u].rows \subseteq EventsOf(Below(s))'  BY <1>1, <2>1 DEF ReadSoFar
    <2>3. got[u].rows = {} \/ DueIn(u, s)' \subseteq got[u].rows
      BY <1>2, <2>1 DEF ReadSoFar
    <2> QED BY <1>5, <2>1, <2>2, <2>3 DEF ReadSoFar
  <1>7. step[u] # "store" => ReadSoFar(u)'
    BY <1>3, <1>4, <1>5 DEF ReadSoFar, Chain
  <1> QED BY <1>6, <1>7

LEMMA SnapshotKeeps ==
  ASSUME Snapshot, Grows, UNCHANGED <<cache, cacheDue>>,
         \A u \in Thread : Building(u)' =>
            /\ Building(u) /\ due'[u] = due[u]
            /\ step'[u] = "keepTime" => step[u] = "keepTime"
  PROVE  Snapshot'
  <1>1. cacheDue' \subseteq Settled'  BY DEF Snapshot, Grows, Settled
  <1>2. SnapshotUnderItsTime'  BY DEF Snapshot, Grows, SnapshotUnderItsTime, Covers
  <1>3. ASSUME NEW u \in Thread, step'[u] = "keepTime" PROVE (disclosed \/ InTime(cache, due[u]))'
    <2>1. step[u] = "keepTime" /\ due'[u] = due[u]  BY <1>3 DEF Building
    <2>2. disclosed \/ InTime(cache, due[u])  BY <2>1 DEF Snapshot
    <2> QED BY <2>1, <2>2 DEF InTime, Covers, Grows
  <1> QED BY <1>1, <1>2, <1>3 DEF Snapshot, Building

LEMMA SummaryKeeps == ASSUME SummaryNeverPartial, UNCHANGED summary, log \subseteq log'
                      PROVE  SummaryNeverPartial'
  BY DEF SummaryNeverPartial, EventsOf, Below

\* A step of one request that writes no event, keeps no summary and puts no
\* snapshot in place.
LEMMA OneRequest ==
  ASSUME Inv, NEW t \in Thread, TypeOK', ReadSoFar(t)',
         UNCHANGED <<table, fates, summary, cache, cacheDue>>, disclosed => disclosed',
         \A u \in Thread \ {t} : Untouched(u),
         step'[t] # "keepTime", Building(t)' => Building(t) /\ due'[t] = due[t]
  PROVE  Inv'
  <1>1. Grows  BY DEF Grows, table, fates
  <1>2. Requests'  BY <1>1, OthersKeep DEF Inv, Requests
  <1>3. Snapshot'
    <2>1. \A u \in Thread : Building(u)' =>
            /\ Building(u) /\ due'[u] = due[u]
            /\ step'[u] = "keepTime" => step[u] = "keepTime"
      BY DEF Building, Untouched
    <2> QED BY <1>1, <2>1, SnapshotKeeps DEF Inv
  <1>4. SummaryNeverPartial'  BY SummaryKeeps DEF Inv, table
  <1>5. Losses' /\ LogFinite'  BY DEF Inv, Losses, LogFinite, table, fates
  <1> QED BY <1>2, <1>3, <1>4, <1>5 DEF Inv

-----------------------------------------------------------------------------
(* Steps of requests.                                                      *)

LEMMA BeginKeeps ==
  ASSUME Inv, NEW t \in Thread, NEW s \in {"summary", "lookup", "sync"}, NEW S \in SUBSET Scope,
         NEW q \in [limit : Nat, events : BOOLEAN], Begin(t, s, S, q),
         s = "summary" => S = {},
         s = "lookup" => (S # {} \/ Event = {}) /\ (S \subseteq Task \/ \E r \in Scope : S = {r}),
         s = "sync" => \E r \in Scope : S = {r}
  PROVE  Inv'
  <1>1. /\ step' = [step EXCEPT ![t] = s] /\ target' = [target EXCEPT ![t] = S]
        /\ query' = [query EXCEPT ![t] = q] /\ due' = [due EXCEPT ![t] = Settled]
        /\ UNCHANGED <<table, fates, summary, disclosed, cache, found, got, cacheDue>>
    BY DEF Begin
  <1>2. TypeOK'  BY <1>1 DEF Inv, TypeOK, Settled, table, fates
  <1>3. step'[t] = s /\ target'[t] = S /\ due'[t] = Settled'
    BY <1>1 DEF Inv, TypeOK, Settled, table, fates
  <1>4. \A u \in Thread \ {t} : Untouched(u)  BY <1>1 DEF Inv, TypeOK, Untouched
  <1>5. ReadSoFar(t)'  BY <1>1, <1>3 DEF ReadSoFar, Asked
  <1> QED BY <1>1, <1>2, <1>3, <1>4, <1>5, OneRequest DEF Building

\* A query reads all there is, or as much as its limit.
LEMMA NewestReads ==
  ASSUME NEW n, NEW N \in Newest(n) PROVE N \subseteq log /\ (N = log \/ Cardinality(N) = n)
  <1>1. CASE Cardinality(log) <= n  BY <1>1 DEF Newest
  <1>2. CASE ~(Cardinality(log) <= n)  BY <1>2 DEF Newest
  <1> QED BY <1>1, <1>2

\* One part is read; what a failure leaves out is on record.
LEMMA ReadKeeps ==
  ASSUME Inv, NEW t \in Thread,
         \/ ReadSummary(t) \/ ReadRows(t) \/ ReadEvents(t)
         \/ ReadByBackend(t) \/ ReadErrors(t) \/ ReadTotal(t)
  PROVE  Inv'
  <1>0. TypeOK /\ ReadSoFar(t) /\ log \in SUBSET Event /\ (lost # {} => disclosed)
    BY DEF Inv, Requests, Losses, TypeOK
  <1>1. PICK from \in {"summary", "rows", "events", "byBackend", "errors", "total"}, part \in Part,
             next \in {"rows", "events", "recheck", "errors", "total", "keep"},
             n \in {SummaryLimit(query[t].limit), query[t].limit, RuntimeLimit, ErrorLimit,
                    TotalLimit} :
          /\ Read(t, from, part, n, next)
          /\ \/ from = "summary" /\ part = "summary" /\ next = "rows"
                /\ n = SummaryLimit(query[t].limit)
             \/ from = "rows" /\ part = "rows" /\ next = "events" /\ n = query[t].limit
             \/ from = "events" /\ part = "events" /\ next = "recheck" /\ n = query[t].limit
             \/ from = "byBackend" /\ part = "rows" /\ next = "errors" /\ n = RuntimeLimit
             \/ from = "errors" /\ part = "events" /\ next = "total"
             \/ from = "total" /\ part = "summary" /\ next = "keep" /\ n = TotalLimit
    BY DEF ReadSummary, ReadRows, ReadEvents, ReadByBackend, ReadErrors, ReadTotal, Part
  <1>2. PICK N \in Newest(n) :
          /\ step[t] = from /\ Query(t, part, N) /\ step' = [step EXCEPT ![t] = next]
          /\ UNCHANGED <<target, query, due, fates, table, summary, cache, found, cacheDue>>
    BY <1>1 DEF Read, Goto
  <1>3. N \subseteq log /\ (N = log \/ Cardinality(N) = n)  BY <1>2, NewestReads
  <1>4. /\ got' \in [Thread -> Parts] /\ disclosed' \in BOOLEAN
        /\ got'[t][part] \in {N, {}}
        /\ got'[t][part] = N \/ disclosed'
        /\ \A q \in Part \ {part} : got'[t][q] = got[t][q]
        /\ \A u \in Thread \ {t} : got'[u] = got[u]
        /\ disclosed => disclosed'
    <2>1. N \in SUBSET Event  BY <1>0, <1>3
    <2> QED BY ONLY <1>0, <1>1, <1>2, <2>1, QueryReads
  <1>5. UNCHANGED <<log, rowid, lost, refused>>  BY <1>2 DEF table, fates
  <1>6. TypeOK'  BY <1>0, <1>2, <1>4, <1>5 DEF TypeOK
  <1>7. step'[t] = next /\ \A u \in Thread \ {t} : Untouched(u)
    BY <1>0, <1>2, <1>4 DEF TypeOK, Untouched
  <1>8. ASSUME NEW E, E \subseteq log \cup lost \cup refused
        PROVE  disclosed' \/ Covers(got'[t][part], E, n)
    <2> SUFFICES ASSUME ~disclosed' PROVE Covers(N, E, n)
      BY <1>4, <1>5 DEF Covers
    <2>1. lost = {}  BY <1>0, <1>4
    <2> QED BY <1>3, <1>8, <2>1 DEF Covers
  <1>9. due'[t] = due[t] /\ query'[t] = query[t] /\ target'[t] = target[t] /\ due[t] \subseteq Settled
    BY <1>0, <1>2 DEF ReadSoFar
  <1>10. due'[t] \subseteq Settled'  BY <1>5, <1>9 DEF Settled
  <1>11. disclosed' \/ Covers(got'[t][part], due[t], n)  BY <1>8, <1>9 DEF Settled
  <1>12. ReadSoFar(t)'
    <2> USE <1>2, <1>4, <1>7, <1>9, <1>10 DEF ReadSoFar, Part
    <2>1. CASE from = "summary"
      <3>1. got'[t].summary \subseteq log'  BY <1>1, <1>3, <1>5, <2>1
      <3>2. disclosed' \/ TotalRead(t)'  BY <1>1, <1>5, <1>11, <2>1 DEF TotalRead, Covers
      <3> QED BY <1>0, <1>1, <2>1, <3>1, <3>2
    <2>2. CASE from = "rows"
      <3>1. got'[t].rows \subseteq log' /\ got'[t].summary = got[t].summary
        BY <1>1, <1>3, <1>5, <2>2
      <3>2. got[t].summary \subseteq log /\ (disclosed \/ TotalRead(t))  BY <1>0, <2>2
      <3>3. disclosed' \/ TotalRead(t)'  BY <1>5, <3>1, <3>2 DEF TotalRead, Covers
      <3> PICK E : E = due[t] \cup got[t].summary
        OBVIOUS
      <3>4. E \subseteq log \cup lost \cup refused
        BY <3>2 DEF Settled
      <3>5. disclosed' \/ Covers(got'[t][part], E, n)
        BY <1>8, <3>4, Zenon
      <3>6. disclosed' \/ RowsRead(t)'  BY <1>1, <1>5, <2>2, <3>1, <3>5 DEF RowsRead, Covers
      <3> QED BY <1>0, <1>1, <2>2, <3>1, <3>3, <3>6
    <2>3. CASE from = "events"
      <3>1. got'[t].rows = got[t].rows /\ got'[t].summary = got[t].summary
        BY <1>1, <2>3
      <3>2. got[t].rows \subseteq log /\ (disclosed \/ (TotalRead(t) /\ RowsRead(t)))
        BY <1>0, <2>3
      <3>3. disclosed' \/ (TotalRead(t)' /\ RowsRead(t)')
        BY <1>5, <3>1, <3>2 DEF TotalRead, RowsRead, Covers
      <3> PICK E : E = due[t] \cup got[t].rows
        OBVIOUS
      <3>4. E \subseteq log \cup lost \cup refused
        BY <3>2 DEF Settled
      <3>5. disclosed' \/ Covers(got'[t][part], E, n)
        BY <1>8, <3>4, Zenon
      <3>6. disclosed' \/ EventsRead(t)'  BY <1>1, <1>5, <2>3, <3>1, <3>5 DEF EventsRead, Covers
      <3>7. target'[t] = {}  BY <1>0, <2>3
      <3> QED BY <1>1, <2>3, <3>3, <3>6, <3>7 DEF Chain
    <2>4. CASE from = "byBackend"
      <3>1. disclosed' \/ Covers(got[t].rows, due[t], RuntimeLimit)'
        BY <1>1, <1>5, <1>11, <2>4 DEF Covers
      <3> QED BY <1>1, <2>4, <3>1
    <2>5. CASE from = "errors"
      <3>1. disclosed' \/ Covers(got[t].rows, due[t], RuntimeLimit)'
        BY <1>0, <1>1, <1>5, <2>5 DEF Covers
      <3> QED BY <1>1, <2>5, <3>1
    <2>6. CASE from = "total"
      <3>1. disclosed' \/ Covers(got[t].rows, due[t], RuntimeLimit)'
        BY <1>0, <1>1, <1>5, <2>6 DEF Covers
      <3>2. disclosed' \/ Covers(got[t].summary, due[t], TotalLimit)'
        BY <1>1, <1>5, <1>11, <2>6 DEF Covers
      <3> QED BY <1>1, <2>6, <3>1, <3>2 DEF InTime
    <2> QED BY <1>1, <2>1, <2>2, <2>3, <2>4, <2>5, <2>6
  <1>13. step'[t] # "keepTime" /\ (Building(t)' => Building(t) /\ due'[t] = due[t])
    BY <1>1, <1>2, <1>7 DEF Building
  <1> QED BY <1>2, <1>4, <1>6, <1>7, <1>12, <1>13, OneRequest

\* A request without the events.
LEMMA SkipKeeps == ASSUME Inv, NEW t \in Thread, SkipEvents(t) PROVE Inv'
  <1>1. /\ step[t] = "events" /\ ~query[t].events /\ step' = [step EXCEPT ![t] = "recheck"]
        /\ UNCHANGED <<target, query, due, fates, table, summary, disclosed, cache, found, got,
                      cacheDue>>
    BY DEF SkipEvents, Goto
  <1>2. UNCHANGED <<log, rowid, lost, refused>>  BY <1>1 DEF table, fates
  <1>3. TypeOK'  BY <1>1, <1>2 DEF Inv, TypeOK
  <1>4. step'[t] = "recheck" /\ \A u \in Thread \ {t} : Untouched(u)
    BY <1>1 DEF Inv, TypeOK, Untouched
  <1>5. ReadSoFar(t)  BY DEF Inv, Requests
  <1>6. (TotalRead(t) => TotalRead(t)') /\ (RowsRead(t) => RowsRead(t)') /\ EventsRead(t)'
    BY <1>1, <1>2 DEF TotalRead, RowsRead, EventsRead, Covers
  <1>7. due'[t] \subseteq Settled' /\ target'[t] = {}
    BY <1>1, <1>2, <1>5 DEF ReadSoFar, Settled
  <1>8. ReadSoFar(t)'  BY <1>1, <1>4, <1>5, <1>6, <1>7 DEF ReadSoFar, Chain
  <1>9. step'[t] # "keepTime" /\ ~Building(t)'  BY <1>4 DEF Building
  <1> QED BY <1>1, <1>3, <1>4, <1>8, <1>9, OneRequest

LEMMA LookUpKeeps == ASSUME Inv, NEW t \in Thread, LookUp(t) PROVE Inv'
  <1>0. TypeOK /\ ReadSoFar(t) /\ step[t] = "lookup"
    BY DEF Inv, Requests, LookUp
  <1>1. PICK kept \in {{s \in target[t] : summary[s].kept}, {}} :
          /\ found' = [found EXCEPT ![t] = kept]
          /\ Query(t, "summary", UNION {summary[s].events : s \in kept})
          /\ Goto(t, IF kept # {} /\ ~(target[t] \subseteq Task) THEN "recheck" ELSE "live")
    BY DEF LookUp
  <1>2. kept \subseteq target[t] /\ kept \subseteq Scope /\ target[t] \subseteq Scope
    BY <1>0, <1>1 DEF TypeOK
  <1>3. \A s \in kept : summary[s].events \in SUBSET Event
    BY <1>0, <1>2 DEF TypeOK
  <1>4. (UNION {summary[s].events : s \in kept}) \in SUBSET Event  BY <1>3
  <1>5. /\ got' \in [Thread -> Parts] /\ disclosed' \in BOOLEAN
        /\ \A u \in Thread \ {t} : got'[u] = got[u]
        /\ disclosed => disclosed'
    BY <1>0, <1>1, <1>4, QueryReads DEF Part
  <1>6. PICK next \in {"recheck", "live"} :
          /\ step' = [step EXCEPT ![t] = next]
          /\ next = "recheck" => kept # {} /\ ~(target[t] \subseteq Task)
    BY <1>1 DEF Goto
  <1>7. UNCHANGED <<target, query, due, fates, table, log, rowid, lost, refused, summary, cache,
                    cacheDue>>
    BY <1>1 DEF LookUp, Goto, table, fates
  <1>8. TypeOK'  BY <1>0, <1>1, <1>2, <1>5, <1>6, <1>7 DEF TypeOK
  <1>9. /\ step'[t] = next /\ found'[t] = kept /\ target'[t] = target[t] /\ due'[t] = due[t]
        /\ \A u \in Thread \ {t} : Untouched(u)
    BY <1>0, <1>1, <1>5, <1>6, <1>7 DEF TypeOK, Untouched
  <1>10. ReadSoFar(t)'
    <2>1. next = "recheck" => LiveRead(t)' /\ target[t] # {}
      <3> SUFFICES ASSUME next = "recheck" PROVE LiveRead(t)' /\ target[t] # {}
        OBVIOUS
      <3>1. PICK s \in Scope : target[t] = {s}  BY <1>0, <1>6 DEF ReadSoFar
      <3>2. kept = {s}  BY <1>2, <1>6, <3>1
      <3> QED BY <1>9, <3>1, <3>2 DEF LiveRead
    <2>2. due'[t] \subseteq Settled'  BY <1>0, <1>7 DEF ReadSoFar, Settled
    <2>3. next = "live" => Asked(t)'  BY <1>0, <1>9 DEF ReadSoFar, Asked
    <2> QED BY <1>9, <2>1, <2>2, <2>3 DEF ReadSoFar
  <1>11. step'[t] # "keepTime" /\ ~Building(t)'  BY <1>9 DEF Building
  <1> QED BY <1>5, <1>7, <1>8, <1>9, <1>10, <1>11, OneRequest

LEMMA ReadLiveKeeps == ASSUME Inv, NEW t \in Thread, ReadLive(t) PROVE Inv'
  <1> DEFINE E == EventsOf(UNION {Below(s) : s \in target[t] \ found[t]})
  <1>0. TypeOK /\ ReadSoFar(t) /\ step[t] = "live" /\ (lost # {} => disclosed) /\ E \in SUBSET Event
    BY DEF Inv, Requests, Losses, ReadLive, TypeOK, EventsOf
  <1>1. /\ Query(t, "rows", E) /\ step' = [step EXCEPT ![t] = "recheck"]
        /\ UNCHANGED <<target, query, due, fates, table, log, rowid, lost, refused, summary, cache,
                      found, cacheDue>>
    BY DEF ReadLive, Goto, table, fates
  <1>2. /\ got' \in [Thread -> Parts] /\ disclosed' \in BOOLEAN
        /\ got'[t]["rows"] = E \/ disclosed'
        /\ \A u \in Thread \ {t} : got'[u] = got[u]
        /\ disclosed => disclosed'
    <2> HIDE DEF E
    <2> QED BY <1>0, <1>1, QueryReads DEF Part
  <1>3. TypeOK'  BY <1>0, <1>1, <1>2 DEF TypeOK
  <1>4. step'[t] = "recheck" /\ \A u \in Thread \ {t} : Untouched(u)
    BY <1>0, <1>1, <1>2 DEF TypeOK, Untouched
  <1>5. ReadSoFar(t)'
    <2>1. disclosed' \/ LiveRead(t)'
      <3> SUFFICES ASSUME ~disclosed', NEW s \in target[t] \ found[t], NEW e \in due[t],
                          TaskOf[e] \in Below(s)
                   PROVE  e \in got'[t].rows \cup refused
        BY <1>1 DEF LiveRead, Below
      <3>1. e \in log \cup refused  BY <1>0, <1>2 DEF ReadSoFar, Settled
      <3>2. e \in log => e \in E  BY DEF EventsOf
      <3> QED BY <1>2, <3>1, <3>2
    <2>2. due'[t] \subseteq Settled'  BY <1>0, <1>1 DEF ReadSoFar, Settled
    <2> QED BY <1>0, <1>1, <1>4, <2>1, <2>2 DEF ReadSoFar, Asked
  <1>6. step'[t] # "keepTime" /\ ~Building(t)'  BY <1>4 DEF Building
  <1> QED BY <1>1, <1>2, <1>3, <1>4, <1>5, <1>6, OneRequest

LEMMA SyncReadsKeeps == ASSUME Inv, NEW t \in Thread, SyncReads(t) PROVE Inv'
  <1>0. TypeOK /\ ReadSoFar(t) /\ step[t] = "sync" /\ log \in SUBSET Event
    BY DEF Inv, Requests, SyncReads, TypeOK
  <1>1. PICK s \in Scope : target[t] = {s}  BY <1>0 DEF ReadSoFar
  <1>2. PICK E \in SUBSET Event : E = EventsOf(Below(s))  BY <1>0 DEF EventsOf
  <1>3. /\ Query(t, "rows", E) /\ step' = [step EXCEPT ![t] = "store"]
        /\ UNCHANGED <<target, query, due, fates, table, log, rowid, lost, refused, summary, cache,
                      found, cacheDue>>
    BY <1>1, <1>2 DEF SyncReads, Goto, table, fates
  <1>4. /\ got' \in [Thread -> Parts] /\ disclosed' \in BOOLEAN
        /\ got'[t]["rows"] \in {E, {}}
        /\ \A u \in Thread \ {t} : got'[u] = got[u]
        /\ disclosed => disclosed'
    BY <1>0, <1>3, QueryReads DEF Part
  <1>5. TypeOK'  BY <1>0, <1>3, <1>4 DEF TypeOK
  <1>6. step'[t] = "store" /\ \A u \in Thread \ {t} : Untouched(u)
    BY <1>0, <1>3, <1>4 DEF TypeOK, Untouched
  <1>7. ReadSoFar(t)'
    <2>1. got'[t].rows \subseteq EventsOf(Below(s))'  BY <1>2, <1>3, <1>4 DEF EventsOf, Below
    <2>2. got'[t].rows = {} \/ DueIn(t, s) \subseteq got'[t].rows
      BY <1>0, <1>2, <1>3, <1>4 DEF ReadSoFar, EventsOf, DueIn, Settled
    <2>3. DueIn(t, s)' = DueIn(t, s)
      BY <1>3 DEF Below, DueIn
    <2>4. due'[t] \subseteq Settled'  BY <1>0, <1>3 DEF ReadSoFar, Settled
    <2> QED BY <1>0, <1>1, <1>3, <1>6, <2>1, <2>2, <2>3, <2>4 DEF ReadSoFar
  <1>8. step'[t] # "keepTime" /\ ~Building(t)'  BY <1>6 DEF Building
  <1> QED BY <1>3, <1>4, <1>5, <1>6, <1>7, <1>8, OneRequest

LEMMA LeaveKeeps ==
  ASSUME Inv, NEW t \in Thread, Leave(t), UNCHANGED <<table, summary, disclosed, cache, cacheDue>>
  PROVE  Inv'
  <1>1. /\ step' = [step EXCEPT ![t] = "idle"] /\ target' = [target EXCEPT ![t] = {}]
        /\ found' = [found EXCEPT ![t] = {}] /\ got' = [got EXCEPT ![t] = NoParts]
        /\ query' = [query EXCEPT ![t] = NoQuery]
        /\ due' = [due EXCEPT ![t] = {}] /\ fates' = fates
    BY DEF Leave
  <1>2. NoParts \in Parts /\ NoQuery \in [limit : Nat, events : BOOLEAN]
    BY DEF NoParts, Parts, NoQuery
  <1>3. TypeOK'  BY <1>1, <1>2 DEF Inv, TypeOK, table, fates
  <1>4. step'[t] = "idle" /\ due'[t] = {} /\ \A u \in Thread \ {t} : Untouched(u)
    BY <1>1 DEF Inv, TypeOK, Untouched
  <1>5. ReadSoFar(t)'  BY <1>4 DEF ReadSoFar
  <1>6. step'[t] # "keepTime" /\ ~Building(t)'  BY <1>4 DEF Building
  <1> QED BY <1>1, <1>3, <1>4, <1>5, <1>6, OneRequest

LEMMA RecheckKeeps == ASSUME Inv, NEW t \in Thread, Recheck(t) PROVE Inv'
  <1>1. CASE disclosed
    BY <1>1, LeaveKeeps DEF Recheck
  <1>2. CASE ~disclosed
    <2>1. /\ step[t] = "recheck" /\ step' = [step EXCEPT ![t] = "answered"]
          /\ UNCHANGED <<target, query, due, found, got, fates, table, log, rowid, lost, refused,
                        summary, disclosed, cache, cacheDue>>
      BY <1>2 DEF Recheck, Goto, table, fates
    <2>2. TypeOK'  BY <2>1 DEF Inv, TypeOK
    <2>3. step'[t] = "answered" /\ \A u \in Thread \ {t} : Untouched(u)
      BY <2>1 DEF Inv, TypeOK, Untouched
    <2>4. (Chain(t)' <=> Chain(t)) /\ (LiveRead(t)' <=> LiveRead(t))
      BY <2>1 DEF Chain, TotalRead, RowsRead, EventsRead, Covers, LiveRead, Below
    <2>5. ReadSoFar(t)  BY DEF Inv, Requests
    <2>6. ReadSoFar(t)'  BY <1>2, <2>1, <2>3, <2>4, <2>5 DEF ReadSoFar, Settled
    <2>7. step'[t] # "keepTime" /\ ~Building(t)'  BY <2>3 DEF Building
    <2> QED BY <2>1, <2>2, <2>3, <2>6, <2>7, OneRequest
  <1> QED BY <1>1, <1>2

-----------------------------------------------------------------------------
(* Writes, summaries, the snapshot, a restart.                             *)

LEMMA WriteKeeps == ASSUME Inv, NEW e \in Event, Write(e) \/ WriteFails(e) \/ Refuse(e) PROVE Inv'
  <1>0. IsFiniteSet(log)  BY DEF Inv, LogFinite
  <1>1. /\ UNCHANGED <<summary, cache, requestVars, cacheDue>> /\ Grows
        /\ log' \in SUBSET Event /\ lost' \in SUBSET Event /\ refused' \in SUBSET Event
        /\ disclosed' \in BOOLEAN
        /\ lost' # {} => disclosed'
    BY DEF Write, WriteFails, Refuse, Inv, TypeOK, Losses, Grows, table, fates
  <1>11. rowid' \in [Event -> Nat]
    BY <1>0, FS_CardinalityType DEF Write, WriteFails, Refuse, Inv, TypeOK, table
  <1>12. IsFiniteSet(log')
    BY <1>0, FS_AddElement DEF Write, WriteFails, Refuse, table
  <1>2. TypeOK'  BY <1>1, <1>11 DEF Inv, TypeOK, requestVars
  <1>3. Requests'
    <2>1. \A u \in Thread : Untouched(u)  BY <1>1 DEF requestVars, Untouched
    <2> QED BY <1>1, <2>1, OthersKeep DEF Inv, Requests
  <1>4. Snapshot'
    <2>1. \A u \in Thread : Building(u)' => Building(u) /\ due'[u] = due[u] /\ step'[u] = step[u]
      BY <1>1 DEF requestVars, Building
    <2> QED BY <1>1, <2>1, SnapshotKeeps DEF Inv
  <1>5. SummaryNeverPartial'  BY <1>1, SummaryKeeps DEF Inv, Grows
  <1> QED BY <1>1, <1>12, <1>2, <1>3, <1>4, <1>5 DEF Inv, Losses, LogFinite

LEMMA SyncStoresKeeps == ASSUME Inv, NEW t \in Thread, SyncStores(t) PROVE Inv'
  <1>0. TypeOK /\ ReadSoFar(t) /\ step[t] = "store"
    BY DEF Inv, Requests, SyncStores
  <1>1. PICK s \in Scope : target[t] = {s}  BY <1>0 DEF ReadSoFar
  <1>2. PICK new \in [kept : BOOLEAN, events : SUBSET Event, due : SUBSET Event] :
          new = [kept |-> TRUE, events |-> got[t].rows,
                 due |-> DueIn(t, s)]
    BY <1>0 DEF TypeOK, Parts, DueIn
  <1>3. /\ summary' = [r \in Scope |-> IF r = s THEN new ELSE summary[r]]
        /\ step' = [step EXCEPT ![t] = "idle"] /\ target' = [target EXCEPT ![t] = {}]
        /\ found' = [found EXCEPT ![t] = {}] /\ got' = [got EXCEPT ![t] = NoParts]
        /\ query' = [query EXCEPT ![t] = NoQuery] /\ due' = [due EXCEPT ![t] = {}]
        /\ UNCHANGED <<log, rowid, lost, refused, disclosed, cache, cacheDue>>
    BY <1>1, <1>2 DEF SyncStores, Leave, DueIn, table, fates
  <1>4. TypeOK'
    <2>1. NoParts \in Parts /\ NoQuery \in [limit : Nat, events : BOOLEAN]
      BY DEF NoParts, Parts, NoQuery
    <2>2. summary' \in [Scope -> [kept : BOOLEAN, events : SUBSET Event, due : SUBSET Event]]
      BY <1>0, <1>2, <1>3 DEF TypeOK
    <2> QED BY <1>0, <1>3, <2>1, <2>2 DEF TypeOK
  <1>5. step'[t] = "idle" /\ due'[t] = {} /\ \A u \in Thread \ {t} : Untouched(u)
    BY <1>0, <1>3 DEF TypeOK, Untouched
  <1>6. Requests'
    <2>1. ReadSoFar(t)'  BY <1>5 DEF ReadSoFar
    <2>2. Grows  BY <1>3 DEF Grows
    <2> QED BY <1>5, <2>1, <2>2, OthersKeep DEF Inv, Requests
  <1>7. Snapshot'
    <2>1. \A u \in Thread : Building(u)' =>
            /\ Building(u) /\ due'[u] = due[u]
            /\ step'[u] = "keepTime" => step[u] = "keepTime"
      BY <1>5 DEF Building, Untouched
    <2>2. Grows  BY <1>3 DEF Grows
    <2> QED BY <1>3, <2>1, <2>2, SnapshotKeeps DEF Inv
  <1>8. SummaryNeverPartial'
    <2> SUFFICES ASSUME NEW r \in Scope
                 PROVE  /\ summary'[r].events \subseteq EventsOf(Below(r))'
                        /\ summary'[r].events = {} \/ summary'[r].due \subseteq summary'[r].events
      BY DEF SummaryNeverPartial
    <2>1. EventsOf(Below(r))' = EventsOf(Below(r))  BY <1>3 DEF EventsOf, Below
    <2>2. CASE r = s
      <3>1. summary'[r].events = got[t].rows
            /\ summary'[r].due = DueIn(t, s)
        BY <1>2, <1>3, <2>2
      <3> QED BY <1>0, <1>1, <2>1, <2>2, <3>1 DEF ReadSoFar
    <2>3. CASE r # s  BY <1>3, <2>1, <2>3 DEF Inv, SummaryNeverPartial
    <2> QED BY <2>2, <2>3
  <1>9. Losses' /\ LogFinite'  BY <1>3 DEF Inv, Losses, LogFinite
  <1> QED BY <1>4, <1>6, <1>7, <1>8, <1>9 DEF Inv

LEMMA ClearKeeps == ASSUME Inv, NEW s \in Scope, ClearSummary(s) PROVE Inv'
  <1>1. /\ summary' = [r \in Scope |-> IF r \in Inside[s] THEN NoSummary ELSE summary[r]]
        /\ UNCHANGED <<log, rowid, lost, refused, disclosed, cache, requestVars, cacheDue>>
    BY DEF ClearSummary, table, fates
  <1>2. NoSummary \in [kept : BOOLEAN, events : SUBSET Event, due : SUBSET Event]
        /\ NoSummary.events = {}
    BY DEF NoSummary
  <1>3. TypeOK'
    <2>1. summary' \in [Scope -> [kept : BOOLEAN, events : SUBSET Event, due : SUBSET Event]]
      BY <1>1, <1>2 DEF Inv, TypeOK
    <2> QED BY <1>1, <2>1 DEF Inv, TypeOK, requestVars
  <1>4. Grows /\ \A u \in Thread : Untouched(u)  BY <1>1 DEF Grows, requestVars, Untouched
  <1>5. Requests'  BY <1>4, OthersKeep DEF Inv, Requests
  <1>6. Snapshot'
    <2>1. \A u \in Thread : Building(u)' => Building(u) /\ due'[u] = due[u] /\ step'[u] = step[u]
      BY <1>1 DEF requestVars, Building
    <2> QED BY <1>1, <1>4, <2>1, SnapshotKeeps DEF Inv
  <1>7. SummaryNeverPartial'
    <2> SUFFICES ASSUME NEW r \in Scope
                 PROVE  /\ summary'[r].events \subseteq EventsOf(Below(r))'
                        /\ summary'[r].events = {} \/ summary'[r].due \subseteq summary'[r].events
      BY DEF SummaryNeverPartial
    <2>1. CASE r \in Inside[s]  BY <1>1, <1>2, <2>1
    <2>2. CASE r \notin Inside[s]
      BY <1>1, <2>2 DEF Inv, SummaryNeverPartial, EventsOf, Below
    <2> QED BY <2>1, <2>2
  <1>8. Losses' /\ LogFinite'  BY <1>1 DEF Inv, Losses, LogFinite
  <1> QED BY <1>3, <1>5, <1>6, <1>7, <1>8 DEF Inv

LEMMA BuildKeeps == ASSUME Inv, NEW t \in Thread, BuildSnapshot(t) PROVE Inv'
  <1>1. /\ \A u \in Thread : ~Building(u)
        /\ step' = [step EXCEPT ![t] = "byBackend"] /\ target' = [target EXCEPT ![t] = {}]
        /\ query' = [query EXCEPT ![t] = NoQuery] /\ due' = [due EXCEPT ![t] = Settled]
        /\ UNCHANGED <<log, rowid, lost, refused, summary, disclosed, cache, found, got, cacheDue>>
    BY DEF BuildSnapshot, Begin, table, fates
  <1>11. NoQuery \in [limit : Nat, events : BOOLEAN]  BY DEF NoQuery
  <1>2. TypeOK'  BY <1>1, <1>11 DEF Inv, TypeOK, Settled
  <1>3. /\ step'[t] = "byBackend" /\ due'[t] = Settled /\ Settled' = Settled
        /\ \A u \in Thread \ {t} : Untouched(u)
    BY <1>1 DEF Inv, TypeOK, Untouched, Settled
  <1>4. Grows  BY <1>1 DEF Grows
  <1>5. Requests'
    <2>1. ReadSoFar(t)'  BY <1>1, <1>3 DEF ReadSoFar
    <2> QED BY <1>3, <1>4, <2>1, OthersKeep DEF Inv, Requests
  <1>6. Snapshot'
    <2>1. \A u \in Thread : Building(u)' => u = t  BY <1>1, <1>3 DEF Building, Untouched
    <2> QED BY <1>1, <1>3, <2>1 DEF Inv, Snapshot, SnapshotUnderItsTime, Covers, Building
  <1>7. SummaryNeverPartial'  BY <1>1, SummaryKeeps DEF Inv
  <1> QED BY <1>1, <1>2, <1>5, <1>6, <1>7 DEF Inv, Losses, LogFinite

LEMMA KeepSnapshotKeeps == ASSUME Inv, NEW t \in Thread, KeepSnapshot(t) PROVE Inv'
  <1>1. /\ step[t] = "keep" /\ cache' = got[t] /\ step' = [step EXCEPT ![t] = "keepTime"]
        /\ UNCHANGED <<log, rowid, lost, refused, summary, disclosed, found, got, cacheDue, target,
                      query, due>>
    BY DEF KeepSnapshot, Goto, table, fates
  <1>2. TypeOK'  BY <1>1 DEF Inv, TypeOK
  <1>3. step'[t] = "keepTime" /\ \A u \in Thread \ {t} : Untouched(u)
    BY <1>1 DEF Inv, TypeOK, Untouched
  <1>4. Grows  BY <1>1 DEF Grows
  <1>5. ReadSoFar(t)  BY DEF Inv, Requests
  <1>6. Requests'
    <2>1. ReadSoFar(t)'  BY <1>1, <1>3, <1>5 DEF ReadSoFar, Settled
    <2> QED BY <1>3, <1>4, <2>1, OthersKeep DEF Inv, Requests
  <1>7. Snapshot'
    <2>1. \A u \in Thread : Building(u)' => u = t
      BY <1>1, <1>3 DEF Inv, Snapshot, Building, Untouched
    <2>2. disclosed \/ InTime(cache', due[t])
      BY <1>1, <1>5 DEF ReadSoFar
    <2>3. cacheDue \subseteq due[t]  BY <1>1 DEF Inv, Snapshot, Building
    <2>4. SnapshotUnderItsTime'  BY <1>1, <2>2, <2>3 DEF SnapshotUnderItsTime, InTime, Covers
    <2>5. \A u, v \in Thread : Building(u)' /\ Building(v)' => u = v  BY <2>1
    <2>6. \A u \in Thread : Building(u)' => cacheDue \subseteq due[u]  BY <2>1, <2>3
    <2>7. \A u \in Thread : step'[u] = "keepTime" => u = t  BY <2>1 DEF Building
    <2>8. (cacheDue \subseteq Settled)'  BY <1>1 DEF Inv, Snapshot, Settled
    <2> QED BY <1>1, <2>2, <2>4, <2>5, <2>6, <2>7, <2>8 DEF Snapshot, InTime, Covers
  <1>8. SummaryNeverPartial'  BY <1>1, SummaryKeeps DEF Inv
  <1> QED BY <1>1, <1>2, <1>6, <1>7, <1>8 DEF Inv, Losses, LogFinite

LEMMA KeepTimeKeeps == ASSUME Inv, NEW t \in Thread, KeepTime(t) PROVE Inv'
  <1>1. /\ step[t] = "keepTime" /\ cacheDue' = due[t]
        /\ step' = [step EXCEPT ![t] = "idle"] /\ target' = [target EXCEPT ![t] = {}]
        /\ found' = [found EXCEPT ![t] = {}] /\ got' = [got EXCEPT ![t] = NoParts]
        /\ query' = [query EXCEPT ![t] = NoQuery] /\ due' = [due EXCEPT ![t] = {}]
        /\ UNCHANGED <<log, rowid, lost, refused, summary, disclosed, cache>>
    BY DEF KeepTime, Leave, table, fates
  <1>2. NoParts \in Parts /\ NoQuery \in [limit : Nat, events : BOOLEAN]
    BY DEF NoParts, Parts, NoQuery
  <1>3. TypeOK'  BY <1>1, <1>2 DEF Inv, TypeOK
  <1>4. step'[t] = "idle" /\ due'[t] = {} /\ \A u \in Thread \ {t} : Untouched(u)
    BY <1>1 DEF Inv, TypeOK, Untouched
  <1>5. Grows  BY <1>1 DEF Grows
  <1>6. Requests'
    <2>1. ReadSoFar(t)'  BY <1>4 DEF ReadSoFar
    <2> QED BY <1>4, <1>5, <2>1, OthersKeep DEF Inv, Requests
  <1>7. Snapshot'
    <2>1. \A u \in Thread : ~Building(u)'
      BY <1>1, <1>4 DEF Inv, Snapshot, Building, Untouched
    <2>2. SnapshotUnderItsTime'
      BY <1>1 DEF Inv, Snapshot, SnapshotUnderItsTime, InTime, Covers
    <2>3. (cacheDue \subseteq Settled)'  BY <1>1 DEF Inv, Requests, ReadSoFar, Settled
    <2>4. \A u \in Thread : step'[u] # "keepTime"  BY <2>1 DEF Building
    <2> QED BY <2>1, <2>2, <2>3, <2>4 DEF Snapshot
  <1>8. SummaryNeverPartial'  BY <1>1, SummaryKeeps DEF Inv
  <1> QED BY <1>1, <1>3, <1>6, <1>7, <1>8 DEF Inv, Losses, LogFinite

LEMMA RestartKeeps == ASSUME Inv, Restart PROVE Inv'
  <1> USE DEF Restart, table
  <1>1. NoParts \in Parts /\ NoQuery \in [limit : Nat, events : BOOLEAN]
    BY DEF NoParts, Parts, NoQuery
  <1>2. TypeOK'  BY <1>1 DEF Inv, TypeOK
  <1>3. \A t \in Thread : step'[t] = "idle" /\ due'[t] = {}  OBVIOUS
  <1>4. Requests'  BY <1>3 DEF Requests, ReadSoFar
  <1>5. Snapshot'  BY <1>3 DEF Snapshot, SnapshotUnderItsTime, Covers, Building
  <1>6. SummaryNeverPartial'  BY SummaryKeeps DEF Inv
  <1> QED BY <1>2, <1>4, <1>5, <1>6 DEF Inv, Losses, LogFinite

LEMMA StutterKeeps == ASSUME Inv, UNCHANGED vars PROVE Inv'
  <1> USE DEF vars, table, fates, requestVars
  <1>1. TypeOK' /\ LogFinite' /\ Losses'  BY DEF Inv, TypeOK, LogFinite, Losses
  <1>2. Grows /\ \A u \in Thread : Untouched(u)  BY DEF Grows, Untouched
  <1>3. Requests'  BY <1>2, OthersKeep DEF Inv, Requests
  <1>4. Snapshot'  BY <1>2, SnapshotKeeps DEF Inv, Building, Untouched
  <1>5. SummaryNeverPartial'  BY SummaryKeeps DEF Inv
  <1> QED BY <1>1, <1>3, <1>4, <1>5 DEF Inv

-----------------------------------------------------------------------------
THEOREM Invariance == Spec => []Inv
  <1>1. Init => Inv
    <2> SUFFICES ASSUME Init PROVE Inv
      OBVIOUS
    <2> USE DEF Init
    <2>1. NoParts \in Parts  BY DEF NoParts, Parts
    <2>2. TypeOK /\ LogFinite  BY <2>1, FS_EmptySet DEF TypeOK, LogFinite, NoSummary, NoQuery
    <2>3. Requests  BY DEF Requests, ReadSoFar
    <2>4. Snapshot  BY DEF Snapshot, SnapshotUnderItsTime, Covers, Building
    <2>5. SummaryNeverPartial
      <3>1. \A s \in Scope : summary[s].events = {}  BY DEF NoSummary
      <3> QED BY <3>1 DEF SummaryNeverPartial
    <2> QED BY <2>2, <2>3, <2>4, <2>5 DEF Inv, Losses
  <1>2. Inv /\ [Next]_vars => Inv'
    <2> SUFFICES ASSUME Inv, [Next]_vars PROVE Inv'
      OBVIOUS
    <2>1. CASE \E e \in Event : Write(e) \/ WriteFails(e) \/ Refuse(e)  BY <2>1, WriteKeeps
    <2>2. ASSUME NEW t \in Thread, Request(t) PROVE Inv'
      <3>0. NoQuery \in [limit : Nat, events : BOOLEAN]  BY DEF NoQuery
      <3>1. ASSUME NEW n \in Limits, NEW events \in BOOLEAN, AskStats(t, n, events) PROVE Inv'
        <4>1. Begin(t, "summary", {}, [limit |-> n, events |-> events])  BY <3>1 DEF AskStats
        <4>2. [limit |-> n, events |-> events] \in [limit : Nat, events : BOOLEAN]
          BY StatsAssumption DEF StatsAssumption
        <4> QED BY <4>1, <4>2, BeginKeeps
      <3>2. CASE AskGroups(t, Task)
        <4>1. Begin(t, "lookup", Task, NoQuery)  BY <3>2 DEF AskGroups
        <4>2. Task \in SUBSET Scope /\ (Task # {} \/ Event = {})  BY TaskOfEvent
        <4> QED BY <3>0, <4>1, <4>2, BeginKeeps
      <3>3. ASSUME NEW s \in Scope, AskGroups(t, {s}) PROVE Inv'
        <4>1. Begin(t, "lookup", {s}, NoQuery) /\ {s} \in SUBSET Scope  BY <3>3 DEF AskGroups
        <4> QED BY <3>0, <4>1, BeginKeeps
      <3>4. ASSUME NEW s \in Scope, SyncSummary(t, s) PROVE Inv'
        <4>1. Begin(t, "sync", {s}, NoQuery) /\ {s} \in SUBSET Scope  BY <3>4 DEF SyncSummary
        <4> QED BY <3>0, <4>1, BeginKeeps
      <3> QED BY <2>2, <3>1, <3>2, <3>3, <3>4, BuildKeeps DEF Request
    <2>3. ASSUME NEW t \in Thread, StatsStep(t) PROVE Inv'
      <3>1. CASE Answer(t) \/ SyncFails(t)
        BY <3>1, LeaveKeeps DEF Answer, SyncFails
      <3> QED BY <2>3, <3>1, ReadKeeps, SkipKeeps, LookUpKeeps, ReadLiveKeeps, RecheckKeeps, SyncReadsKeeps,
                 SyncStoresKeeps, KeepSnapshotKeeps, KeepTimeKeeps DEF StatsStep
    <2>4. CASE \E s \in Scope : ClearSummary(s)  BY <2>4, ClearKeeps
    <2> QED BY <2>1, <2>2, <2>3, <2>4, RestartKeeps, StutterKeeps DEF Next
  <1> QED BY <1>1, <1>2, PTL DEF Spec

\* Every state of the collector and of the requests is well typed.
THEOREM TypeCorrect == Spec => []TypeOK
  <1>1. Inv => TypeOK  BY DEF Inv
  <1> QED BY <1>1, Invariance, PTL

\* An answer of /stats that is not a 503 leaves out a call that was over when
\* it was asked for only if the event was refused for its missing account or
\* the part is as long as its limit, with any number of writers, readers and
\* failures and for every limit.  (write, get_events, _handle_stats)
THEOREM LossIsTold == Spec => []NoSilentLoss
  <1>1. Inv => NoSilentLoss
    <2> SUFFICES ASSUME Inv, NEW t \in Thread, step[t] = "answered"
                 PROVE  IF target[t] = {} THEN Chain(t) ELSE LiveRead(t)
      BY DEF NoSilentLoss, Chain, TotalRead, RowsRead, EventsRead, LiveRead
    <2>1. ReadSoFar(t)  BY DEF Inv, Requests
    <2>2. Event = {} => Chain(t)
      BY DEF Inv, TypeOK, Parts, Chain, TotalRead, RowsRead, EventsRead, Covers
    <2> QED BY <2>1, <2>2 DEF ReadSoFar
  <1> QED BY <1>1, Invariance, PTL

\* The snapshot of /runtime counts all that was over at the time it is kept
\* under, up to the limits of its reads, unless a failure is on record.
\* (_runtime_stats_snapshot)
THEOREM SnapshotIsFresh == Spec => []SnapshotUnderItsTime
  <1>1. Inv => SnapshotUnderItsTime  BY DEF Inv, Snapshot
  <1> QED BY <1>1, Invariance, PTL

\* The summary of a finished scope counts all of it or nothing.
THEOREM SummariesWhole == Spec => []SummaryNeverPartial
  <1>1. Inv => SummaryNeverPartial  BY DEF Inv
  <1> QED BY <1>1, Invariance, PTL

-----------------------------------------------------------------------------
(***************************************************************************)
(* Sums over finite sets.  The library's theorems on well-founded orders   *)
(* speak of sets and not of an operator, so that a least counterexample    *)
(* stands in for induction.                                                *)
(***************************************************************************)

\* Every set of natural numbers has a least element.
LEMMA LeastNatural ==
    ASSUME NEW S \in SUBSET Nat, S # {}
    PROVE  \E m \in S : \A k \in S : m <= k
  <1> DEFINE less == {ss \in Nat \X Nat : ss[1] < ss[2]}
  <1>1. IsWellFoundedOn(less, Nat)
    BY NatLessThanWellFounded, Zenon DEF OpToRel
  <1>2. PICK m \in S : \A k \in S : ~(<<k, m>> \in less)
    <2> HIDE DEF less
    <2> QED BY <1>1, WFMin
  <1>3. ASSUME NEW k \in S PROVE m <= k
    <2>1. CASE k < m
      <3>1. <<k, m>> \in Nat \X Nat /\ <<k, m>>[1] < <<k, m>>[2]  BY <2>1
      <3>2. <<k, m>> \in less  BY <3>1
      <3> QED BY <1>2, <3>2
    <2> QED BY <2>1
  <1> QED BY <1>3

\* The table of the sums over all subsets, as MapThenSumSet makes it.
Chosen(s) == CHOOSE x \in s : TRUE

SumStep(g, S, h) ==
    [s \in SUBSET S |-> IF s = {} THEN 0 ELSE g[Chosen(s)] + h[s \ {Chosen(s)}]]

\* On a finite set that recursion has a solution, built up by the number of
\* elements.
LEMMA TableExists ==
    ASSUME NEW S, IsFiniteSet(S), NEW g \in [S -> Nat]
    PROVE  \E h : h = SumStep(g, S, h)
  <1> DEFINE Small(n) == {s \in SUBSET S : Cardinality(s) <= n}
             Right(h, s) == h[s] = IF s = {} THEN 0 ELSE g[Chosen(s)] + h[s \ {Chosen(s)}]
             Partial(n) == \E h \in [Small(n) -> Nat] : \A s \in Small(n) : Right(h, s)
  <1>0. ASSUME NEW s \in SUBSET S
        PROVE  /\ IsFiniteSet(s) /\ Cardinality(s) \in Nat
               /\ Cardinality(s) <= Cardinality(S)
               /\ s # {} => /\ Chosen(s) \in s
                            /\ s \ {Chosen(s)} \in SUBSET S
                            /\ Cardinality(s \ {Chosen(s)}) = Cardinality(s) - 1
    <2>1. IsFiniteSet(s) /\ Cardinality(s) <= Cardinality(S)  BY FS_Subset
    <2>2. Cardinality(s) \in Nat  BY <2>1, FS_CardinalityType
    <2>3. s # {} => Chosen(s) \in s  BY Zenon DEF Chosen
    <2>4. Cardinality(s \ {Chosen(s)}) = IF Chosen(s) \in s THEN Cardinality(s) - 1 ELSE Cardinality(s)
      BY <2>1, FS_RemoveElement
    <2> QED BY <2>1, <2>2, <2>3, <2>4
  <1>1. Partial(0)
    <2> DEFINE h0 == [s \in Small(0) |-> 0]
    <2>1. \A s \in Small(0) : s = {}
      <3> SUFFICES ASSUME NEW s \in Small(0) PROVE s = {}
        OBVIOUS
      <3>0. s \in SUBSET S /\ Cardinality(s) <= 0  OBVIOUS
      <3>1. IsFiniteSet(s) /\ Cardinality(s) \in Nat  BY <3>0, <1>0
      <3>2. Cardinality(s) = 0  BY <3>0, <3>1
      <3> QED BY <3>1, <3>2, FS_EmptySet
    <2>2. h0 \in [Small(0) -> Nat] /\ \A s \in Small(0) : Right(h0, s)  BY <2>1
    <2> QED BY <2>2
  <1>2. ASSUME NEW n \in Nat, Partial(n) PROVE Partial(n + 1)
    <2>1. PICK h \in [Small(n) -> Nat] : \A s \in Small(n) : Right(h, s)  BY <1>2
    <2> DEFINE k == [s \in Small(n + 1) |-> IF s = {} THEN 0 ELSE g[Chosen(s)] + h[s \ {Chosen(s)}]]
    <2>2. ASSUME NEW s \in Small(n + 1), s # {}
          PROVE  s \ {Chosen(s)} \in Small(n) /\ s \ {Chosen(s)} \in Small(n + 1) /\ g[Chosen(s)] \in Nat
      BY <2>2, <1>0
    <2>3. k \in [Small(n + 1) -> Nat]
      <3>1. ASSUME NEW s \in Small(n + 1), s # {} PROVE g[Chosen(s)] + h[s \ {Chosen(s)}] \in Nat
        <4> HIDE DEF Small
        <4>1. g[Chosen(s)] \in Nat /\ h[s \ {Chosen(s)}] \in Nat  BY <2>2, <3>1
        <4> QED BY <4>1
      <3> HIDE DEF Small
      <3> QED BY <3>1
    <2>4. ASSUME NEW s \in Small(n) PROVE s \in Small(n + 1)
      <3>1. s \in SUBSET S /\ Cardinality(s) <= n  OBVIOUS
      <3>2. Cardinality(s) \in Nat  BY <1>0, <3>1
      <3>3. Cardinality(s) <= n + 1  BY <3>1, <3>2
      <3> QED BY <3>1, <3>3
    <2>5. \A s \in Small(n) : k[s] = h[s]  BY <2>1, <2>4
    <2>6. \A s \in Small(n + 1) : Right(k, s)  BY <2>2, <2>5
    <2> HIDE DEF k
    <2> QED BY <2>3, <2>6
  <1> HIDE DEF Partial
  <1>3. \A n \in Nat : Partial(n)
    <2> DEFINE Bad == {n \in Nat : ~Partial(n)}
    <2>1. SUFFICES ASSUME Bad # {} PROVE FALSE
      OBVIOUS
    <2>2. PICK m \in Bad : \A n \in Bad : m <= n
      <3> HIDE DEF Bad
      <3>1. Bad \in SUBSET Nat  BY DEF Bad
      <3> QED BY <2>1, <3>1, LeastNatural
    <2>3. m # 0 /\ m - 1 \in Nat /\ m - 1 \notin Bad  BY <1>1, <2>2
    <2> QED BY <1>2, <2>2, <2>3
  <1>4. Cardinality(S) \in Nat /\ Small(Cardinality(S)) = SUBSET S
    BY <1>0, FS_CardinalityType
  <1>5. PICK h \in [SUBSET S -> Nat] : \A s \in SUBSET S : Right(h, s)
    BY <1>3, <1>4 DEF Partial
  <1>6. h = SumStep(g, S, h)  BY <1>5 DEF SumStep
  <1> QED BY <1>6

\* A sum of sums, whatever order the elements are taken in.
LEMMA SumsAdd ==
    ASSUME NEW S, IsFiniteSet(S),
           NEW a \in [S -> Nat], NEW b \in [S -> Nat], NEW c \in [S -> Nat],
           \A x \in S : a[x] = b[x] + c[x],
           NEW A, NEW B, NEW C,
           A = SumStep(a, S, A), B = SumStep(b, S, B), C = SumStep(c, S, C)
    PROVE  A[S] = B[S] + C[S]
  <1> DEFINE Adds(s) == B[s] \in Nat /\ C[s] \in Nat /\ A[s] = B[s] + C[s]
             Bad == {s \in SUBSET S : ~Adds(s)}
  <1>2. ASSUME Bad # {} PROVE FALSE
    <2>1. IsWellFoundedOn(StrictSubsetOrdering(S), SUBSET S)
      BY FS_StrictSubsetOrderingWellFounded, FS_FiniteSubsetsOfFinite
    <2>2. PICK s \in Bad : \A r \in Bad : ~(<<r, s>> \in StrictSubsetOrdering(S))
      <3>1. Bad \subseteq SUBSET S  OBVIOUS
      <3> HIDE DEF Bad
      <3> QED BY <1>2, <2>1, <3>1, WFMin
    <2>3. s # {}  BY DEF SumStep
    <2>4. Chosen(s) \in s  BY <2>3, Zenon DEF Chosen
    <2> DEFINE r == s \ {Chosen(s)}
    <2>5. r \in SUBSET S /\ <<r, s>> \in StrictSubsetOrdering(S)
      BY <2>4 DEF StrictSubsetOrdering
    <2>6. Adds(r)  BY <2>2, <2>5
    <2>7. /\ A[s] = a[Chosen(s)] + A[r]
          /\ B[s] = b[Chosen(s)] + B[r]
          /\ C[s] = c[Chosen(s)] + C[r]
      BY <2>3 DEF SumStep
    <2>8. a[Chosen(s)] = b[Chosen(s)] + c[Chosen(s)] /\ b[Chosen(s)] \in Nat /\ c[Chosen(s)] \in Nat
      BY <2>4
    <2> HIDE DEF r
    <2> QED BY <2>6, <2>7, <2>8
  <1> QED BY <1>2

RawEvent == [calls : Nat \cup {Unstated}, failed : Nat, ok : BOOLEAN, backend : BOOLEAN,
             account : BOOLEAN]

\* One event, whatever it claims of itself.
LEMMA RowAddsUp ==
    ASSUME NEW r \in RawEvent
    PROVE  /\ Calls(r) \in Nat /\ Succeeded(r) \in Nat /\ Failed(r) \in Nat
           /\ Calls(r) = Succeeded(r) + Failed(r)
  BY DEF RawEvent, Calls, Succeeded, Failed, FailedCalls, StatedFailures, Unstated

\* All events of a finite set.
LEMMA AggregateAddsUp ==
    ASSUME NEW events \in SUBSET Event, IsFiniteSet(events)
    PROVE  Aggregate(events).calls = Aggregate(events).success + Aggregate(events).fail
  <1> DEFINE counted == {e \in events : Raw[e].backend}
             a == [e \in counted |-> Calls(Raw[e])]
             b == [e \in counted |-> Succeeded(Raw[e])]
             c == [e \in counted |-> Failed(Raw[e])]
  <1>1. IsFiniteSet(counted)  BY FS_Subset
  <1>2. /\ a \in [counted -> Nat] /\ b \in [counted -> Nat] /\ c \in [counted -> Nat]
        /\ \A e \in counted : a[e] = b[e] + c[e]
    <2>1. \A e \in counted : Raw[e] \in RawEvent
      BY StatsAssumption DEF StatsAssumption, RawEvent
    <2> QED BY <2>1, RowAddsUp
  <1> DEFINE A(h) == [s \in SUBSET counted |->
                 IF s = {} THEN 0 ELSE Calls(Raw[Chosen(s)]) + h[s \ {Chosen(s)}]]
             B(h) == [s \in SUBSET counted |->
                 IF s = {} THEN 0 ELSE Succeeded(Raw[Chosen(s)]) + h[s \ {Chosen(s)}]]
             C(h) == [s \in SUBSET counted |->
                 IF s = {} THEN 0 ELSE Failed(Raw[Chosen(s)]) + h[s \ {Chosen(s)}]]
  <1>3. ASSUME NEW h
        PROVE  /\ A(h) = SumStep(a, counted, h)
               /\ B(h) = SumStep(b, counted, h)
               /\ C(h) = SumStep(c, counted, h)
    <2>1. ASSUME NEW s \in SUBSET counted, s # {}
          PROVE  /\ a[Chosen(s)] = Calls(Raw[Chosen(s)])
                 /\ b[Chosen(s)] = Succeeded(Raw[Chosen(s)])
                 /\ c[Chosen(s)] = Failed(Raw[Chosen(s)])
      <3>1. Chosen(s) \in s  BY <2>1, Zenon DEF Chosen
      <3> QED BY <3>1
    <2> HIDE DEF a, b, c, counted
    <2> QED BY <2>1 DEF SumStep
  <1> DEFINE TA == CHOOSE h : h = A(h)
             TB == CHOOSE h : h = B(h)
             TC == CHOOSE h : h = C(h)
  <1>4. /\ TA = SumStep(a, counted, TA)
        /\ TB = SumStep(b, counted, TB)
        /\ TC = SumStep(c, counted, TC)
    <2> HIDE DEF A, B, C, a, b, c, counted
    <2>1. TA = A(TA)
      <3>1. PICK h : h = SumStep(a, counted, h)  BY <1>1, <1>2, TableExists
      <3> QED BY <1>3, <3>1, Zenon
    <2>2. TB = B(TB)
      <3>1. PICK h : h = SumStep(b, counted, h)  BY <1>1, <1>2, TableExists
      <3> QED BY <1>3, <3>1, Zenon
    <2>3. TC = C(TC)
      <3>1. PICK h : h = SumStep(c, counted, h)  BY <1>1, <1>2, TableExists
      <3> QED BY <1>3, <3>1, Zenon
    <2> HIDE DEF TA, TB, TC
    <2> QED BY <1>3, <2>1, <2>2, <2>3, Zenon
  <1>5. /\ Aggregate(events).calls = TA[counted]
        /\ Aggregate(events).success = TB[counted]
        /\ Aggregate(events).fail = TC[counted]
    BY Zenon DEF Aggregate, MapThenSumSet, MapThenFoldSet, Chosen
  <1>6. TA[counted] = TB[counted] + TC[counted]
    <2> HIDE DEF TA, TB, TC, A, B, C, a, b, c, counted
    <2> QED BY <1>1, <1>2, <1>4, SumsAdd
  <1> QED BY <1>5, <1>6, Zenon

\* The successful and the failed calls of a row add up to its calls, for any
\* number of events and whatever they claim of themselves.
\* (_normalize_event, _aggregate)
THEOREM RowsBalance == Spec => []RowsAddUp
  <1>1. Inv => RowsAddUp
    BY AggregateAddsUp DEF Inv, TypeOK, LogFinite, RowsAddUp
  <1> QED BY <1>1, Invariance, PTL
=============================================================================
