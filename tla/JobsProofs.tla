----------------------------- MODULE JobsProofs -----------------------------
(***************************************************************************)
(* Proofs about Jobs for any number of jobs, clients and requests: type    *)
(* correctness, that no job loses its thread, that a client_request_id     *)
(* has one job, and that the /call part of the table implements JobLedger. *)
(***************************************************************************)
EXTENDS Jobs, FiniteSetTheorems, TLAPS

\* What a thread of a /call job knows of its record.  The statement the code
\* relies on is the last but one: a thread at work on a job that nobody
\* cancelled has the only pen, so the table still holds no result.
CallShape(j) ==
    /\ pc[j] \in {"none", "start", "call", "busy", "sleep", "stats", "finish", "ended"}
    /\ pc[j] = "none" <=> status[j] = "absent"
    /\ status[j] = "absent" => result[j] = "none" /\ ~cancelled[j]
    /\ status[j] = "done" => result[j] # "none"
    /\ cancelled[j] => result[j] = "cancelled"
    /\ pc[j] \in {"busy", "sleep", "stats", "finish"} => outcome[j] # "none"
    /\ pc[j] \notin {"none", "ended"} /\ ~cancelled[j] =>
          status[j] # "done" /\ result[j] = "none"
    /\ pc[j] = "ended" /\ ~cancelled[j] =>
          status[j] = "done" \/ (Died(j) /\ result[j] = "none")

\* The same for an escalation, whose result any later one may replace.
EscalationShape(j) ==
    /\ pc[j] \in {"none", "start", "next", "try", "calling", "fail", "finish", "ended"}
    /\ pc[j] = "none" <=> status[j] = "absent"
    /\ pc[j] = "ended" => status[j] = "done" \/ j \in Malformed
    /\ rung[j] = Rungs + 1 => pc[j] \in {"next", "finish", "ended"}

Shape ==
    /\ \A j \in Call : CallShape(j)
    /\ \A j \in Escalation : EscalationShape(j) /\ request[j] = NoRequest

Inv == TypeOK /\ Shape /\ OneJobPerRequest

-----------------------------------------------------------------------------
LEMMA InitInv == Init => Inv
BY JobsAssumption DEF Init, Inv, TypeOK, Shape, CallShape, EscalationShape,
      OneJobPerRequest, Job, Outcome, ThreadPoints

\* A step of one job leaves the records and threads of the others alone.
OnlyJob(j) ==
    \A i \in Job \ {j} :
        /\ status'[i] = status[i] /\ result'[i] = result[i]
        /\ cancelled'[i] = cancelled[i] /\ request'[i] = request[i]
        /\ pc'[i] = pc[i] /\ outcome'[i] = outcome[i] /\ rung'[i] = rung[i]
        /\ counted'[i] = counted[i] /\ missed'[i] = missed[i]

LEMMA CallStepType == ASSUME Inv, NEW j \in Call, CallStep(j) PROVE TypeOK'
<1> USE JobsAssumption DEF Inv, Job, TypeOK, Outcome, ThreadPoints, MarkPending, table, stats
<1>0. j \in Job
  OBVIOUS
<1>1. CASE StartCall(j)
  BY <1>1 DEF StartCall
<1>2. CASE BusyTimeout(j)
  BY <1>2 DEF BusyTimeout
<1>3. CASE BusyWait(j)
  BY <1>3 DEF BusyWait
<1>4. CASE Crash(j)
  BY <1>4 DEF Crash
<1>5. CASE FinishCall(j)
  BY <1>5 DEF FinishCall
<1>6. ASSUME NEW r \in Outcome, NEW k \in 0..Patience, RouterReturns(j, r, k)
      PROVE  TypeOK'
  <2>1. (IF k < left[j] THEN left[j] - k ELSE 0) \in 0..Patience
    OBVIOUS
  <2> QED
    BY <1>6, <2>1 DEF RouterReturns
<1>7. ASSUME NEW d \in 1..Patience, BusySleep(j, d) PROVE TypeOK'
  <2>1. left[j] - d \in 0..Patience
    BY <1>7 DEF BusySleep
  <2> QED
    BY <1>7, <2>1 DEF BusySleep
<1>8. ASSUME NEW w \in BOOLEAN, WriteStats(j, w) PROVE TypeOK'
  <2>1. counted[j] \in Nat /\ counted[j] + 1 \in Nat
    OBVIOUS
  <2> QED
    BY <1>8, <2>1 DEF WriteStats, Record
<1> QED
  BY <1>1, <1>2, <1>3, <1>4, <1>5, <1>6, <1>7, <1>8 DEF CallStep

LEMMA EscalationStepType ==
    ASSUME Inv, NEW j \in Escalation, EscalationStep(j) PROVE TypeOK'
<1> USE JobsAssumption DEF Inv, Job, TypeOK, Outcome, ThreadPoints, MarkPending, table, stats
<1>1. CASE StartEscalation(j)
  BY <1>1 DEF StartEscalation
<1>2. CASE NextRung(j)
  BY <1>2 DEF NextRung
<1>3. CASE LeaveLadder(j)
  BY <1>3 DEF LeaveLadder
<1>4. ASSUME pc[j] \in {"try", "fail"}
      PROVE  rung[j] + 1 \in 1..(Rungs + 1)
  <2>1. rung[j] \in 1..(Rungs + 1) /\ rung[j] # Rungs + 1
    BY <1>4 DEF Shape, EscalationShape
  <2> QED
    BY <2>1
<1>5. CASE SkipRung(j)
  BY <1>4, <1>5 DEF SkipRung
<1>6. CASE CallBackend(j)
  BY <1>6 DEF CallBackend
<1>7. CASE RungRaises(j)
  BY <1>7 DEF RungRaises
<1>8. CASE FailRung(j)
  BY <1>4, <1>8 DEF FailRung
<1>9. CASE LadderRaises(j)
  BY <1>9 DEF LadderRaises
<1>10. CASE FinishEscalation(j)
  BY <1>10 DEF FinishEscalation
<1>11. ASSUME NEW w \in BOOLEAN, BackendAnswers(j, w) PROVE TypeOK'
  <2>1. counted[j] \in Nat /\ counted[j] + 1 \in Nat
    OBVIOUS
  <2> QED
    BY <1>11, <2>1 DEF BackendAnswers, Record
<1> QED
  BY <1>1, <1>2, <1>3, <1>5, <1>6, <1>7, <1>8, <1>9, <1>10, <1>11 DEF EscalationStep

LEMMA CallStepShape ==
    ASSUME Inv, NEW j \in Call, CallStep(j)
    PROVE  CallShape(j)' /\ OnlyJob(j) /\ request' = request
<1> USE JobsAssumption DEF Inv, Job, TypeOK, Outcome, MarkPending, table, stats, OnlyJob,
                           Shape, CallShape, Died
<1>1. CASE StartCall(j)
  BY <1>1 DEF StartCall
<1>2. CASE BusyTimeout(j)
  BY <1>2 DEF BusyTimeout
<1>3. CASE BusyWait(j)
  BY <1>3 DEF BusyWait
<1>4. CASE Crash(j)
  BY <1>4 DEF Crash
<1>5. CASE FinishCall(j)
  BY <1>5 DEF FinishCall
<1>6. ASSUME NEW r \in Outcome, NEW k \in 0..Patience, RouterReturns(j, r, k)
      PROVE  CallShape(j)' /\ OnlyJob(j) /\ request' = request
  BY <1>6 DEF RouterReturns
<1>7. ASSUME NEW d \in 1..Patience, BusySleep(j, d)
      PROVE  CallShape(j)' /\ OnlyJob(j) /\ request' = request
  BY <1>7 DEF BusySleep
<1>8. ASSUME NEW w \in BOOLEAN, WriteStats(j, w)
      PROVE  CallShape(j)' /\ OnlyJob(j) /\ request' = request
  BY <1>8 DEF WriteStats, Record
<1> QED
  BY <1>1, <1>2, <1>3, <1>4, <1>5, <1>6, <1>7, <1>8 DEF CallStep

LEMMA EscalationStepShape ==
    ASSUME Inv, NEW j \in Escalation, EscalationStep(j)
    PROVE  EscalationShape(j)' /\ OnlyJob(j) /\ request' = request
<1> USE JobsAssumption DEF Inv, Job, TypeOK, MarkPending, table, stats, OnlyJob,
                           Shape, EscalationShape
<1>1. CASE StartEscalation(j)
  BY <1>1 DEF StartEscalation
<1>2. CASE NextRung(j)
  BY <1>2 DEF NextRung, LadderOver
<1>3. CASE LeaveLadder(j)
  BY <1>3 DEF LeaveLadder
<1>4. CASE SkipRung(j)
  BY <1>4 DEF SkipRung
<1>5. CASE CallBackend(j)
  BY <1>5 DEF CallBackend
<1>6. CASE RungRaises(j)
  BY <1>6 DEF RungRaises
<1>7. CASE FailRung(j)
  BY <1>7 DEF FailRung
<1>8. CASE LadderRaises(j)
  BY <1>8 DEF LadderRaises
<1>9. CASE FinishEscalation(j)
  BY <1>9 DEF FinishEscalation
<1>10. ASSUME NEW w \in BOOLEAN, BackendAnswers(j, w)
       PROVE  EscalationShape(j)' /\ OnlyJob(j) /\ request' = request
  BY <1>10 DEF BackendAnswers, Record
<1> QED
  BY <1>1, <1>2, <1>3, <1>4, <1>5, <1>6, <1>7, <1>8, <1>9, <1>10 DEF EscalationStep

\* What the steps of a thread have in common: they keep the shape of its own
\* job and touch no other, and no thread creates a job.
LEMMA ThreadStepInv ==
    ASSUME Inv, NEW j \in Job,
           (j \in Call /\ CallStep(j)) \/ (j \in Escalation /\ EscalationStep(j))
    PROVE  Inv'
<1> USE JobsAssumption
<1>1. TypeOK'
  BY CallStepType, EscalationStepType
<1>2. /\ OnlyJob(j)
      /\ request' = request
      /\ j \in Call => CallShape(j)'
      /\ j \in Escalation => EscalationShape(j)'
  BY CallStepShape, EscalationStepShape DEF Job
<1>3. ASSUME NEW i \in Call PROVE CallShape(i)'
  <2>1. CASE i = j
    BY <1>2, <2>1
  <2>2. CASE i # j
    BY <1>2, <2>2 DEF OnlyJob, Inv, Shape, CallShape, Died, Job
  <2> QED
    BY <2>1, <2>2
<1>4. ASSUME NEW i \in Escalation PROVE EscalationShape(i)' /\ request'[i] = NoRequest
  <2>1. CASE i = j
    BY <1>2, <2>1 DEF Inv, Shape
  <2>2. CASE i # j
    BY <1>2, <2>2 DEF OnlyJob, Inv, Shape, EscalationShape, Job
  <2> QED
    BY <2>1, <2>2
<1>5. \A i \in Call : status'[i] = "absent" <=> status[i] = "absent"
  <2>1. \A i \in Call : i # j => status'[i] = status[i]
    BY <1>2 DEF OnlyJob, Job
  <2>2. ASSUME j \in Call PROVE status'[j] # "absent" /\ status[j] # "absent"
    <3>1. CallStep(j) /\ CallShape(j) /\ CallShape(j)'
      BY <1>2, <2>2 DEF Inv, Shape
    <3>2. pc[j] # "none" /\ pc'[j] # "none"
      BY <3>1, <2>2 DEF Inv, TypeOK, Job, CallStep, StartCall, BusyTimeout, BusyWait,
            Crash, FinishCall, RouterReturns, BusySleep, WriteStats
    <3> QED
      BY <3>1, <3>2 DEF CallShape
  <2> QED
    BY <2>1, <2>2
<1>6. OneJobPerRequest'
  BY <1>2, <1>5 DEF Inv, OneJobPerRequest
<1> QED
  BY <1>1, <1>3, <1>4, <1>6 DEF Inv, Shape

LEMMA SubmitInv ==
    ASSUME Inv, NEW j \in Call, NEW r \in Request \cup {NoRequest}, Submit(j, r)
    PROVE  Inv'
<1> USE JobsAssumption DEF Submit, Fresh, stats, Job
<1>1. TypeOK'
  BY DEF Inv, TypeOK, ThreadPoints
<1>2. Shape'
  BY DEF Inv, TypeOK, Shape, CallShape, Died, EscalationShape
<1>3. OneJobPerRequest'
  <2>1. \A i \in Call : i # j => status'[i] = status[i] /\ request'[i] = request[i]
    BY DEF Inv, TypeOK
  <2>2. request'[j] = r
    BY DEF Inv, TypeOK
  <2>3. r # NoRequest => \A i \in Call : status[i] # "absent" => request[i] # r
    BY DEF WithRequest
  <2> QED
    BY <2>1, <2>2, <2>3 DEF Inv, OneJobPerRequest
<1> QED
  BY <1>1, <1>2, <1>3 DEF Inv

LEMMA NextInv == Inv /\ [Next]_vars => Inv'
<1> SUFFICES ASSUME Inv, [Next]_vars PROVE Inv'
  OBVIOUS
<1> USE JobsAssumption
<1>1. ASSUME NEW j \in Call, NEW r \in Request \cup {NoRequest}, Submit(j, r)
      PROVE  Inv'
  BY <1>1, SubmitInv
<1>2. ASSUME NEW j \in Call, NEW r \in Request \cup {NoRequest}, SubmitAgain(j, r)
      PROVE  Inv'
  <2>1. given[j] + 1 \in 0..MaxSubmits
    BY <1>2 DEF SubmitAgain, Inv, TypeOK, Job
  <2> QED
    BY <1>2, <2>1 DEF SubmitAgain, thread, stats, Inv, TypeOK, Shape, CallShape, Died,
          EscalationShape, OneJobPerRequest, Job
<1>3. ASSUME NEW j \in Escalation, SubmitEscalation(j) PROVE Inv'
  <2> USE <1>3 DEF SubmitEscalation, Fresh, stats, Inv, TypeOK, Job
  <2>1. TypeOK'
    BY DEF ThreadPoints
  <2>2. Shape'
    BY DEF Shape, CallShape, Died, EscalationShape
  <2>3. OneJobPerRequest'
    BY DEF OneJobPerRequest
  <2> QED
    BY <2>1, <2>2, <2>3
<1>4. ASSUME NEW j \in Cancellable, Cancel(j) PROVE Inv'
  <2> USE <1>4 DEF Cancel, thread, stats, Inv, TypeOK, Job
  <2>1. TypeOK'
    BY DEF Outcome
  <2>2. Shape'
    BY DEF Shape, CallShape, Died, EscalationShape
  <2>3. OneJobPerRequest'
    BY DEF OneJobPerRequest
  <2> QED
    BY <2>1, <2>2, <2>3
<1>5. ASSUME NEW j \in Call, CallStep(j) PROVE Inv'
  BY <1>5, ThreadStepInv DEF Job
<1>6. ASSUME NEW j \in Escalation, EscalationStep(j) PROVE Inv'
  BY <1>6, ThreadStepInv DEF Job
<1>7. CASE UNCHANGED vars
  BY <1>7 DEF vars, table, thread, stats, Inv, TypeOK, Shape, CallShape, Died,
        EscalationShape, OneJobPerRequest
<1> QED
  BY <1>1, <1>2, <1>3, <1>4, <1>5, <1>6, <1>7 DEF Next

\* The inductive invariant holds throughout.
THEOREM Invariance == Spec => []Inv
<1> QED
  BY InitInv, NextInv, PTL DEF Spec

\* The table and the threads keep their types.
THEOREM TypeCorrect == Spec => []TypeOK
<1>1. Inv => TypeOK
  BY DEF Inv
<1> QED
  BY <1>1, Invariance, PTL

\* Concurrent submissions with one client_request_id make one job.
THEOREM RequestsAreUnique == Spec => []OneJobPerRequest
<1>1. Inv => OneJobPerRequest
  BY DEF Inv
<1> QED
  BY <1>1, Invariance, PTL

\* A job that is neither done nor cancelled has a thread at work on it, unless
\* its thread died outside of its try block.
THEOREM JobsHaveThreads == Spec => []NoOrphan
<1>1. Inv => NoOrphan
  BY DEF Inv, Shape, CallShape, EscalationShape, NoOrphan, AtWork, Died, Live, Job
<1> QED
  BY <1>1, Invariance, PTL

-----------------------------------------------------------------------------
\* The points of a thread that come before its stats event.
Uncounted == {"none", "start", "call", "busy", "sleep", "stats",
              "next", "try", "calling", "fail"}

\* What a job has shown to others so far: an event only when its thread is past
\* the call, a running backend only between the marks around that call.  The
\* last critical section of a cancelled /call job leaves the status as it is,
\* so such a job must never have shown as running.
Shown(j) ==
    /\ counted[j] <= 1
    /\ pc[j] \in Uncounted => counted[j] = 0
    /\ j \in Call /\ pc[j] \in {"finish", "ended"} /\ outcome[j] \in {"ok", "failed"} =>
          counted[j] = 1 \/ missed[j]
    /\ j \in Escalation /\ outcome[j] = "ok" => counted[j] = 1 \/ missed[j]
    /\ status[j] = "running" => j \in Escalation /\ pc[j] \in {"calling", "fail", "finish"}

LEMMA CallStepShown ==
    ASSUME Inv, NEW j \in Call, CallStep(j), Shown(j)
    PROVE  Shown(j)'
<1> USE JobsAssumption DEF Inv, Job, TypeOK, Outcome, MarkPending, table, stats, Shown, Uncounted
<1>1. CASE StartCall(j)
  BY <1>1 DEF StartCall
<1>2. CASE BusyTimeout(j)
  BY <1>2 DEF BusyTimeout
<1>3. CASE BusyWait(j)
  BY <1>3 DEF BusyWait
<1>4. CASE Crash(j)
  BY <1>4 DEF Crash
<1>5. CASE FinishCall(j)
  BY <1>5 DEF FinishCall
<1>6. ASSUME NEW r \in Outcome, NEW k \in 0..Patience, RouterReturns(j, r, k)
      PROVE  Shown(j)'
  BY <1>6 DEF RouterReturns
<1>7. ASSUME NEW d \in 1..Patience, BusySleep(j, d) PROVE Shown(j)'
  BY <1>7 DEF BusySleep
<1>8. ASSUME NEW w \in BOOLEAN, WriteStats(j, w) PROVE Shown(j)'
  <2>1. counted[j] = 0 /\ counted[j] + 1 = 1
    BY <1>8 DEF WriteStats
  <2>2. CASE outcome[j] = "busy"
    BY <1>8, <2>1, <2>2 DEF WriteStats
  <2>3. CASE outcome[j] # "busy" /\ w
    BY <1>8, <2>1, <2>3 DEF WriteStats, Record
  <2>4. CASE outcome[j] # "busy" /\ ~w
    BY <1>8, <2>1, <2>4 DEF WriteStats, Record
  <2> QED
    BY <2>2, <2>3, <2>4
<1> QED
  BY <1>1, <1>2, <1>3, <1>4, <1>5, <1>6, <1>7, <1>8 DEF CallStep

LEMMA EscalationStepShown ==
    ASSUME Inv, NEW j \in Escalation, EscalationStep(j), Shown(j)
    PROVE  Shown(j)'
<1> USE JobsAssumption DEF Inv, Job, TypeOK, Outcome, MarkPending, table, stats, Shown, Uncounted
<1>1. CASE StartEscalation(j)
  BY <1>1 DEF StartEscalation
<1>2. CASE NextRung(j)
  BY <1>2 DEF NextRung
<1>3. CASE LeaveLadder(j)
  BY <1>3 DEF LeaveLadder
<1>4. CASE SkipRung(j)
  BY <1>4 DEF SkipRung
<1>5. CASE CallBackend(j)
  BY <1>5 DEF CallBackend
<1>6. CASE RungRaises(j)
  BY <1>6 DEF RungRaises
<1>7. CASE FailRung(j)
  BY <1>7 DEF FailRung
<1>8. CASE LadderRaises(j)
  BY <1>8 DEF LadderRaises
<1>9. CASE FinishEscalation(j)
  BY <1>9 DEF FinishEscalation
<1>10. ASSUME NEW w \in BOOLEAN, BackendAnswers(j, w) PROVE Shown(j)'
  <2>1. counted[j] = 0 /\ counted[j] + 1 = 1
    BY <1>10 DEF BackendAnswers
  <2>2. CASE w
    BY <1>10, <2>1, <2>2 DEF BackendAnswers, Record
  <2>3. CASE ~w
    BY <1>10, <2>1, <2>3 DEF BackendAnswers, Record
  <2> QED
    BY <2>2, <2>3
<1> QED
  BY <1>1, <1>2, <1>3, <1>4, <1>5, <1>6, <1>7, <1>8, <1>9, <1>10 DEF EscalationStep

AllShown == \A j \in Job : Shown(j)

LEMMA ShownInv == Inv /\ AllShown /\ [Next]_vars => AllShown'
<1> SUFFICES ASSUME Inv, AllShown, [Next]_vars PROVE AllShown'
  OBVIOUS
<1> USE JobsAssumption DEF AllShown
<1>1. ASSUME NEW i \in Job, UNCHANGED <<pc, outcome, stats>>, status'[i] = status[i]
      PROVE  Shown(i)'
  BY <1>1 DEF Shown, stats
<1>2. ASSUME NEW j \in Call, NEW r \in Request \cup {NoRequest}, Submit(j, r)
      PROVE  AllShown'
  BY <1>2 DEF Submit, Fresh, stats, Inv, TypeOK, Shown, Uncounted, Shape, CallShape, Job
<1>3. ASSUME NEW j \in Escalation, SubmitEscalation(j) PROVE AllShown'
  BY <1>3 DEF SubmitEscalation, Fresh, stats, Inv, TypeOK, Shown, Uncounted, Shape,
        EscalationShape, Job
<1>4. ASSUME NEW j \in Cancellable, Cancel(j) PROVE AllShown'
  BY <1>4 DEF Cancel, thread, stats, Inv, TypeOK, Shown
<1>5. ASSUME NEW j \in Job, OnlyJob(j), Shown(j)' PROVE AllShown'
  BY <1>5 DEF OnlyJob, Shown
<1>6. ASSUME NEW j \in Call, CallStep(j) PROVE AllShown'
  BY <1>5, <1>6, CallStepShown, CallStepShape DEF Job
<1>7. ASSUME NEW j \in Escalation, EscalationStep(j) PROVE AllShown'
  BY <1>5, <1>7, EscalationStepShown, EscalationStepShape DEF Job
<1>8. CASE UNCHANGED vars \/ \E j \in Call, r \in Request \cup {NoRequest} : SubmitAgain(j, r)
  BY <1>1, <1>8 DEF vars, table, SubmitAgain, thread, stats
<1> QED
  BY <1>2, <1>3, <1>4, <1>6, <1>7, <1>8 DEF Next

LEMMA ShownAlways == Spec => []AllShown
<1>1. Init => AllShown
  BY DEF Init, AllShown, Shown
<1> QED
  BY <1>1, ShownInv, Invariance, PTL DEF Spec

\* No job adds two events to the statistics, however often a busy round or a
\* rung of its ladder is tried again and wherever its thread raises; and a job
\* that ended with an answer has its event, unless a write of it failed.
THEOREM CountedOnce == Spec => []StatsOnce
<1>1. AllShown => StatsOnce
  BY DEF AllShown, Shown, StatsOnce, Answered, Job
<1> QED
  BY <1>1, ShownAlways, PTL

\* A job that shows as running has a thread between the two marks around the
\* call of its backend.
THEOREM RunningHasACaller == Spec => []RunningIsReal
<1>1. AllShown => RunningIsReal
  BY DEF AllShown, Shown, RunningIsReal
<1> QED
  BY <1>1, ShownAlways, PTL

-----------------------------------------------------------------------------
\* The jobs QueueBound counts are among those that are live and not cancelled.
\* What keeps the number of these down: every step but an admitted submission
\* only takes jobs away, because no thread gives a job that is done back its
\* status unless the job was cancelled.
Waiting == {j \in Call \cap Live : ~cancelled[j]}

LEMMA WaitingOnlyGrowsBySubmit ==
    ASSUME Inv, [Next]_vars
    PROVE  \/ Waiting' \subseteq Waiting
           \/ \E j \in Call : /\ Waiting' \subseteq Live \cup {j}
                              /\ MaxPending > 0 => Cardinality(Live) < MaxPending
<1> USE JobsAssumption
<1>1. ASSUME NEW j \in Call, NEW r \in Request \cup {NoRequest}, Submit(j, r)
      PROVE  /\ Waiting' \subseteq Live \cup {j}
             /\ MaxPending > 0 => Cardinality(Live) < MaxPending
  BY <1>1 DEF Submit, Fresh, Waiting, Live, Inv, TypeOK
<1>2. ASSUME NEW j \in Escalation, SubmitEscalation(j) PROVE Waiting' \subseteq Waiting
  BY <1>2 DEF SubmitEscalation, Fresh, Waiting, Live, Inv, TypeOK, Job
<1>3. ASSUME NEW j \in Cancellable, Cancel(j) PROVE Waiting' \subseteq Waiting
  BY <1>3 DEF Cancel, Waiting, Live, Inv, TypeOK, Job
<1>4. ASSUME NEW j \in Call, CallStep(j) PROVE Waiting' \subseteq Waiting
  <2>1. /\ cancelled' = cancelled
        /\ pc[j] \notin {"none", "ended"}
    BY <1>4 DEF CallStep, StartCall, BusyTimeout, BusyWait, Crash, FinishCall,
          RouterReturns, BusySleep, WriteStats, table
  <2>2. j \in Waiting \/ cancelled[j]
    BY <2>1 DEF Inv, Shape, CallShape, Waiting, Live, Job
  <2>3. \A i \in Call : i # j => status'[i] = status[i]
    BY <1>4, CallStepShape DEF OnlyJob, Job
  <2> QED
    BY <2>1, <2>2, <2>3 DEF Waiting, Live
<1>5. ASSUME NEW j \in Escalation, EscalationStep(j) PROVE Waiting' \subseteq Waiting
  <2>1. \A i \in Call : status'[i] = status[i] /\ cancelled'[i] = cancelled[i]
    BY <1>5, EscalationStepShape DEF OnlyJob, Job
  <2> QED
    BY <2>1 DEF Waiting, Live
<1>6. CASE UNCHANGED vars \/ \E j \in Call, r \in Request \cup {NoRequest} : SubmitAgain(j, r)
  BY <1>6 DEF vars, table, thread, SubmitAgain, Waiting, Live
<1> QED
  BY <1>1, <1>2, <1>3, <1>4, <1>5, <1>6 DEF Next

WaitingBound == MaxPending > 0 => Cardinality(Waiting) <= MaxPending

LEMMA WaitingBoundStep == Inv /\ WaitingBound /\ [Next]_vars => WaitingBound'
<1> SUFFICES ASSUME Inv, WaitingBound, [Next]_vars, MaxPending > 0
             PROVE  Cardinality(Waiting') <= MaxPending
  BY DEF WaitingBound
<1> USE JobsAssumption
<1>1. IsFiniteSet(Waiting) /\ IsFiniteSet(Waiting') /\ IsFiniteSet(Live)
  BY FS_Subset DEF Waiting, Live, Job
<1>2. CASE Waiting' \subseteq Waiting
  <2>1. Cardinality(Waiting') <= Cardinality(Waiting)
    BY <1>1, <1>2, FS_Subset
  <2>2. Cardinality(Waiting) <= MaxPending
    BY DEF WaitingBound
  <2> QED
    BY <1>1, <2>1, <2>2, FS_CardinalityType
<1>3. ASSUME NEW j \in Call, Waiting' \subseteq Live \cup {j},
             Cardinality(Live) < MaxPending
      PROVE  Cardinality(Waiting') <= MaxPending
  <2>1. /\ IsFiniteSet(Live \cup {j})
        /\ Cardinality(Live \cup {j}) <= Cardinality(Live) + 1
    <3>1. /\ IsFiniteSet(Live \cup {j})
          /\ \/ Cardinality(Live \cup {j}) = Cardinality(Live)
             \/ Cardinality(Live \cup {j}) = Cardinality(Live) + 1
      BY <1>1, FS_AddElement
    <3> QED
      BY <1>1, <3>1, FS_CardinalityType
  <2>2. Cardinality(Waiting') <= Cardinality(Live \cup {j})
    BY <1>3, <2>1, FS_Subset
  <2> QED
    BY <1>1, <1>3, <2>1, <2>2, FS_CardinalityType
<1> QED
  BY <1>2, <1>3, WaitingOnlyGrowsBySubmit

\* A thread at work on a job that nobody cancelled keeps the job live.
LEMMA WorkersAreWaiting == Inv => {j \in Call : AtWork(j) /\ ~cancelled[j]} \subseteq Waiting
BY DEF Inv, TypeOK, Shape, CallShape, AtWork, Waiting, Live, Job

\* max_pending_jobs bounds the threads of /call jobs that nobody cancelled.
THEOREM QueueIsBounded == Spec => []QueueBound
<1>1. Init => WaitingBound
  <2>1. Init => Waiting = {}
    BY JobsAssumption DEF Init, Waiting, Live
  <2> QED
    BY <2>1, FS_EmptySet, JobsAssumption DEF WaitingBound
<1>2. Inv /\ WaitingBound => QueueBound
  <2> SUFFICES ASSUME Inv, WaitingBound, MaxPending > 0
               PROVE  Cardinality({j \in Call : AtWork(j) /\ ~cancelled[j]}) <= MaxPending
    BY DEF QueueBound
  <2>1. IsFiniteSet(Waiting)
    BY JobsAssumption, FS_Subset DEF Waiting, Job
  <2>2. /\ Cardinality({j \in Call : AtWork(j) /\ ~cancelled[j]}) <= Cardinality(Waiting)
        /\ Cardinality({j \in Call : AtWork(j) /\ ~cancelled[j]}) \in Nat
        /\ Cardinality(Waiting) \in Nat
    BY <2>1, WorkersAreWaiting, FS_Subset, FS_CardinalityType
  <2>3. Cardinality(Waiting) <= MaxPending
    BY DEF WaitingBound
  <2> QED
    BY <2>2, <2>3, JobsAssumption
<1> QED
  BY <1>1, <1>2, WaitingBoundStep, Invariance, PTL DEF Spec

-----------------------------------------------------------------------------
\* The ledger extends FiniteSets on its own account: its Cardinality is ours.
LEMMA SameCardinality ==
    ASSUME NEW S PROVE CallLedger!Cardinality(S) = Cardinality(S)
BY Zenon DEF CallLedger!Cardinality, CallLedger!IsFiniteSet, Cardinality, IsFiniteSet

Same == LedgerView' = LedgerView /\ Reopened' = Reopened

\* Every step of the table is a step of the ledger or leaves it unchanged.
LEMMA StepRefines == Inv /\ [Next]_vars => [CallLedger!Next]_<<LedgerView, Reopened>>
<1> SUFFICES ASSUME Inv, [Next]_vars
             PROVE  [CallLedger!Next]_<<LedgerView, Reopened>>
  OBVIOUS
<1> USE JobsAssumption
<1>0. \A j \in Call : CallShape(j) /\ CallShape(j)'
  BY NextInv DEF Inv, Shape
<1>1. ASSUME NEW j \in Call, NEW r \in Request \cup {NoRequest}, Submit(j, r)
      PROVE  CallLedger!Open(j)
  <2>1. LedgerView[j] = "absent"
    BY <1>0, <1>1 DEF Submit, Fresh, LedgerView, Entry, CallShape
  <2>2. LedgerView' = [LedgerView EXCEPT ![j] = "open"]
    BY <1>0, <1>1 DEF Submit, Fresh, LedgerView, Entry, Inv, TypeOK, CallShape, Job
  <2>3. ASSUME MaxPending > 0
        PROVE  Cardinality(CallLedger!Opened \cup Reopened) < MaxPending
    <3>1. CallLedger!Opened \cup Reopened \subseteq Live
      BY <1>0 DEF CallLedger!Opened, Reopened, Live, LedgerView, Entry, CallShape,
            Outcome, Inv, TypeOK, Job
    <3>2. IsFiniteSet(Live)
      BY FS_Subset DEF Live
    <3>3. /\ Cardinality(CallLedger!Opened \cup Reopened) <= Cardinality(Live)
          /\ Cardinality(CallLedger!Opened \cup Reopened) \in Nat
          /\ Cardinality(Live) \in Nat
      BY <3>1, <3>2, FS_Subset, FS_CardinalityType
    <3>4. Cardinality(Live) < MaxPending
      BY <1>1, <2>3 DEF Submit
    <3> QED
      BY <3>3, <3>4
  <2>4. MaxPending > 0 =>
            CallLedger!Cardinality(CallLedger!Opened \cup Reopened) < MaxPending
    BY <2>3, SameCardinality
  <2>5. Reopened' = Reopened
    BY <1>0, <1>1 DEF Submit, Fresh, Reopened, Inv, TypeOK, CallShape, Job
  <2> QED
    BY <2>1, <2>2, <2>4, <2>5, Zenon DEF CallLedger!Open
<1>2. ASSUME NEW j \in Call, j \in Cancellable, Cancel(j)
      PROVE  CallLedger!Close(j, "cancelled") \/ CallLedger!CloseAgain(j)
  <2>1. CASE result[j] = "none"
    <3>1. LedgerView[j] = "open" /\ LedgerView' = [LedgerView EXCEPT ![j] = "cancelled"]
      BY <1>2, <2>1 DEF Cancel, LedgerView, Entry, Inv, TypeOK, Job
    <3>2. Reopened' = Reopened
      BY <1>2, <2>1 DEF Cancel, Reopened, Inv, TypeOK, Job
    <3> QED
      BY <3>1, <3>2 DEF CallLedger!Close
  <2>2. CASE result[j] # "none"
    <3>1. result[j] = "cancelled"
      BY <1>0, <1>2, <2>2 DEF Cancel, CallShape, Inv, TypeOK, Outcome, Job
    <3>2. LedgerView' = LedgerView
      BY <1>2, <2>2, <3>1 DEF Cancel, LedgerView, Entry, Inv, TypeOK, Job
    <3>3. j \in Reopened /\ Reopened' = Reopened \ {j}
      BY <1>2, <2>2, <3>1 DEF Cancel, Reopened, Inv, TypeOK, Job
    <3> QED
      BY <3>2, <3>3 DEF CallLedger!CloseAgain
  <2> QED
    BY <2>1, <2>2
<1>3. ASSUME NEW j \in Call, FinishCall(j)
      PROVE  (\E r \in Outcome : CallLedger!Close(j, r)) \/ Same
  <2>1. CASE cancelled[j]
    BY <1>3, <2>1 DEF FinishCall, Same, LedgerView, Entry, Reopened
  <2>2. CASE ~cancelled[j]
    <3>1. result[j] = "none" /\ status[j] # "absent" /\ outcome[j] \in Outcome
      BY <1>0, <1>3, <2>2 DEF FinishCall, CallShape, Inv, TypeOK, Job
    <3>2. LedgerView[j] = "open" /\ LedgerView' = [LedgerView EXCEPT ![j] = outcome[j]]
      BY <1>3, <2>2, <3>1 DEF FinishCall, LedgerView, Entry, Inv, TypeOK, Job, Outcome
    <3>3. Reopened' = Reopened
      BY <1>3, <2>2, <3>1 DEF FinishCall, Reopened, Inv, TypeOK, Job, Outcome
    <3> QED
      BY <3>1, <3>2, <3>3 DEF CallLedger!Close
  <2> QED
    BY <2>1, <2>2
<1>4. ASSUME \A i \in Call : /\ result'[i] = result[i]
                             /\ status'[i] = "absent" <=> status[i] = "absent"
      PROVE  LedgerView' = LedgerView
  BY <1>4 DEF LedgerView, Entry
<1>5. ASSUME NEW j \in Call, CallStep(j), ~FinishCall(j)
      PROVE  CallLedger!Reopen(j) \/ Same
  <2>1. result' = result /\ cancelled' = cancelled
    BY <1>5 DEF CallStep, StartCall, BusyTimeout, BusyWait, Crash, RouterReturns,
          BusySleep, WriteStats, table
  <2>2. AtWork(j) /\ pc'[j] # "none" /\ (status'[j] = status[j] \/ status'[j] # "done")
    BY <1>5 DEF Inv, TypeOK, Job, CallStep, StartCall, BusyTimeout, BusyWait,
          Crash, RouterReturns, BusySleep, WriteStats, MarkPending, table, AtWork
  <2>3. \A i \in Call : i # j => status'[i] = status[i]
    BY <1>5, CallStepShape DEF OnlyJob, Job
  <2>4. status[j] # "absent" /\ status'[j] # "absent"
    BY <1>0, <2>2 DEF CallShape, AtWork
  <2>5. LedgerView' = LedgerView
    BY <1>4, <2>1, <2>3, <2>4
  <2>6. CASE result[j] = "none" \/ status'[j] = status[j]
    <3>1. Reopened' = Reopened
      BY <2>1, <2>3, <2>6 DEF Reopened
    <3> QED
      BY <2>5, <3>1 DEF Same
  <2>7. CASE result[j] # "none" /\ status'[j] # "done"
    <3>1. LedgerView[j] = "cancelled"
      BY <1>0, <2>2, <2>7 DEF CallShape, AtWork, LedgerView, Entry
    <3>2. Reopened' = Reopened \cup {j}
      BY <2>1, <2>3, <2>7 DEF Reopened
    <3> QED
      BY <2>5, <3>1, <3>2 DEF CallLedger!Reopen
  <2> QED
    BY <2>2, <2>6, <2>7
<1>6. ASSUME \A i \in Call : result'[i] = result[i] /\ status'[i] = status[i] PROVE Same
  BY <1>4, <1>6 DEF Same, Reopened
<1>7. ASSUME NEW j \in Escalation, EscalationStep(j) PROVE Same
  BY <1>6, <1>7, EscalationStepShape DEF OnlyJob, Job
<1>8. ASSUME NEW j \in Escalation, SubmitEscalation(j) \/ Cancel(j) PROVE Same
  <2>1. \A i \in Call : result'[i] = result[i] /\ status'[i] = status[i]
    BY <1>8 DEF SubmitEscalation, Fresh, Cancel, Inv, TypeOK, Job
  <2> QED
    BY <1>6, <2>1
<1>9. ASSUME NEW j \in Call, NEW r \in Request \cup {NoRequest}, SubmitAgain(j, r)
      PROVE  Same
  BY <1>6, <1>9 DEF SubmitAgain
<1>10. ASSUME UNCHANGED vars PROVE Same
  BY <1>6, <1>10 DEF vars, table
<1>11. \A j \in Cancellable : j \in Call \/ j \in Escalation
  BY DEF Job
<1>12. \A j \in Call :
         CallLedger!Open(j) \/ CallLedger!Reopen(j) \/ CallLedger!CloseAgain(j)
           => CallLedger!Next
  BY DEF CallLedger!Next
<1>13. \A j \in Call, r \in Outcome : CallLedger!Close(j, r) => CallLedger!Next
  BY DEF CallLedger!Next
<1>14. "cancelled" \in Outcome
  BY DEF Outcome
<1>15. Same \/ CallLedger!Next
  BY <1>1, <1>2, <1>3, <1>5, <1>7, <1>8, <1>9, <1>10, <1>11, <1>12, <1>13, <1>14 DEF Next
<1> QED
  BY <1>15 DEF Same

LEMMA InitRefines == Init => CallLedger!Init
BY JobsAssumption DEF Init, CallLedger!Init, LedgerView, Entry, Reopened, Job

\* The /call jobs of the table implement the ledger: one is admitted only when
\* fewer than max_pending_jobs are open or open again, its outcome, once written,
\* is never rewritten, whatever the cancellations, retries and late results, and
\* only a cancelled one may show as open again.
THEOREM CallsAreALedger == Spec => CallLedgerSpec
<1> QED
  BY StepRefines, InitRefines, Invariance, PTL DEF Spec, CallLedgerSpec, CallLedger!Spec
=============================================================================
