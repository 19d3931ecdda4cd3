--------------------------- MODULE BackendProofs ---------------------------
(***************************************************************************)
(* A call of a backend (BackendCall), for every timeout, number of         *)
(* retries, size of a pipe and length of an output: only an answer that    *)
(* comes in pieces outlasts the deadline, an answer of a tool is whole, no *)
(* call that comes back with a result leaves its tool running, and one     *)
(* call makes one remote job.  Each adapter has an invariant of its own; a step *)
(* of the call is a step of one of them.                                   *)
(*                                                                         *)
(* The health of the backends (BackendHealth), for any threads, backends   *)
(* and accounts: a backend that shows as probing has a thread that will    *)
(* end the probe.  The two specifications share no variable.               *)
(***************************************************************************)
EXTENDS BackendCall, BackendHealth, FiniteSetTheorems, TLAPS

(***************************************************************************)
(* HTTP.                                                                   *)
(***************************************************************************)

\* What the call waits for, an operation or a sleep, is over in time, but for
\* an operation that follows a piece of the answer.
HttpInv ==
    /\ HttpTypeOK
    /\ RetriesWithinDeadline
    /\ http = "request" /\ heard = "nothing" => clock + left < Timeout + Second
    /\ http = "sleep" => clock + left < Timeout + Second
    /\ http = "sleep" => attempt < MaxRetry
    /\ http = "ready" => clock < Timeout + Second

LEMMA WholeSeconds == ASSUME NEW r \in Nat, NEW s \in Nat \ {0}
                      PROVE  (r \div s) * s \in Nat /\ (r \div s) * s <= r
  OBVIOUS

LEMMA PowerIsInteger == ASSUME NEW a \in Nat, NEW s \in Nat PROVE 2 ^ a * s \in Int
  OBVIOUS

LEMMA HttpInitInv == HttpInit => HttpInv
  <1> SUFFICES ASSUME HttpInit PROVE HttpInv
    OBVIOUS
  <1>1. Timeout \in Nat /\ Second \in Nat \ {0}
    BY HttpAssumption DEF HttpAssumption
  <1>2. MaxRetry \in Nat
    BY HttpAssumption DEF HttpAssumption
  <1>3. 0 \in 0..Late /\ 0 \in 0..MaxRetry /\ 0 < Timeout + Second
    BY <1>1, <1>2 DEF Late
  <1>4. HttpTypeOK
    BY <1>3 DEF HttpInit, HttpTypeOK
  <1> QED BY <1>1, <1>3, <1>4 DEF HttpInit, HttpInv, RetriesWithinDeadline

LEMMA HttpStep == HttpInv /\ [HttpNext]_httpVars => HttpInv'
  <1> SUFFICES ASSUME HttpInv, [HttpNext]_httpVars PROVE HttpInv'
    OBVIOUS
  <1> USE HttpAssumption DEF HttpAssumption, HttpInv, HttpTypeOK, RetriesWithinDeadline,
                                 Late, waitVars
  <1>1. CASE Send
    <2>1. Remaining \in Nat \ {0}  BY <1>1 DEF Send, Remaining
    <2>2. (Remaining \div Second) * Second \in Nat
          /\ (Remaining \div Second) * Second <= Remaining
      BY <2>1, WholeSeconds
    <2>3. RequestTimeout \in Nat /\ clock + RequestTimeout < Timeout + Second
      BY <2>1, <2>2 DEF RequestTimeout, Remaining
    <2>4. clock < Timeout + Second  BY <2>1 DEF Remaining
    <2> QED BY <1>1, <2>3, <2>4 DEF Send
  <1>2. ASSUME NEW r \in {"ok", "hollow", "quota", "error", "raised"}, HttpReturn(r)
        PROVE  HttpInv'
    BY <1>2 DEF HttpReturn
  <1>3. ASSUME Backoff PROVE HttpInv'
    <2>1. CASE attempt >= MaxRetry \/ Remaining <= 0
      BY <1>2, <1>3, <2>1 DEF Backoff
    <2>2. CASE ~(attempt >= MaxRetry \/ Remaining <= 0)
      <3>1. PICK p \in Int : p = 2 ^ attempt * Second  BY PowerIsInteger
      <3>2. left' = (IF p < Remaining THEN p ELSE Remaining)
        BY <1>3, <2>2, <3>1 DEF Backoff
      <3>3. left' \in Int /\ clock + left' < Timeout + Second  BY <3>2 DEF Remaining
      <3>4. clock < Timeout + Second  BY <2>2 DEF Remaining
      <3>5. http' = "sleep" /\ UNCHANGED <<provider, attempt, clock, limit, heard, result>>
        BY <1>3, <2>2 DEF Backoff
      <3>6. attempt < MaxRetry  BY <2>2
      <3>7. HttpTypeOK'  BY <3>3, <3>5
      <3>8. clock \in Int /\ Timeout \in Int /\ Second \in Int
        BY DEF HttpAssumption
      <3>9. RetriesWithinDeadline'
        BY ONLY <3>4, <3>5, <3>8 DEF RetriesWithinDeadline
      <3>10. (http = "sleep" => clock + left < Timeout + Second)'
             /\ (http = "sleep" => attempt < MaxRetry)'
        BY ONLY <3>3, <3>5, <3>6
      <3>11. (http = "request" /\ heard = "nothing" => clock + left < Timeout + Second)'
             /\ (http = "ready" => clock < Timeout + Second)'
        BY ONLY <3>5
      <3> HIDE DEF HttpTypeOK, RetriesWithinDeadline
      <3> QED BY <3>7, <3>9, <3>10, <3>11 DEF HttpInv
    <2> QED BY <2>1, <2>2
  <1>4. CASE OutOfTime \/ Good \/ Refused \/ ClientError \/ ErrorUnread
    BY <1>2, <1>4 DEF OutOfTime, Good, Refused, ClientError, ErrorUnread
  <1>5. CASE Broken \/ ServerError
    BY <1>3, <1>5 DEF Broken, ServerError
  <1>6. CASE Hollow
    BY <1>2, <1>3, <1>6 DEF Hollow
  <1>7. CASE Resume
    BY <1>7 DEF Resume
  <1>8. CASE HttpTick
    BY <1>8 DEF HttpTick
  <1>10. CASE Piece
    BY <1>10 DEF Piece
  <1>9. CASE UNCHANGED httpVars
    BY <1>9 DEF httpVars
  <1> QED BY <1>1, <1>4, <1>5, <1>6, <1>7, <1>8, <1>9, <1>10 DEF HttpNext

(***************************************************************************)
(* MLEXP.                                                                  *)
(***************************************************************************)

\* One request to run a job is made, and makes one job at most.
OneJob ==
    /\ OneJobPerCall
    /\ mlexp \in {"health", "runtime", "start"} => posted = 0 /\ runs = 0

\* How long ago a job may have ended that the call does not know of: not
\* before the last poll was sent.
EndedLately ==
    /\ asked <= mclock
    /\ mlexp = "poll" =>
         /\ mheard = "part" \/ mclock + mleft <= asked + Request
         /\ seen \notin Over /\ job \in Over => endedAt >= asked
    /\ mlexp = "sleep" => mheard = "part" \/ mclock + mleft <= asked + Request + Interval
    /\ mlexp = "wait" => mheard = "part" \/ mclock <= asked + Request + Interval
    /\ mlexp \in {"sleep", "wait"} /\ job \in Over => endedAt >= asked
    /\ mlexp \in {"health", "runtime", "start", "submit"} => mclock = 0 /\ asked = 0
    /\ reply = "timeout" => mlexp = "done"
    /\ GaveUpInGoodFaith

MlexpInv == MlexpTypeOK /\ OneJob /\ EndedLately

LEMMA MlexpInitInv == MlexpInit => MlexpInv
  <1> SUFFICES ASSUME MlexpInit PROVE MlexpInv
    OBVIOUS
  <1> USE DEF MlexpInit
  <1>1. mlexp \in {"health", "start"}
    <2>1. CASE probe  BY <2>1
    <2>2. CASE ~probe  BY <2>2
    <2> QED BY <2>1, <2>2
  <1>0. Wait \in Nat /\ Request \in Nat /\ Interval \in Nat
    BY MlexpAssumption DEF MlexpAssumption
  <1>a. 0 \in 0..TooLate  BY <1>0 DEF TooLate
  <1>2. MlexpTypeOK  BY <1>0, <1>a, <1>1 DEF MlexpTypeOK
  <1>3. OneJob  BY DEF OneJob, OneJobPerCall
  <1>4. EndedLately  BY <1>1 DEF EndedLately, GaveUpInGoodFaith
  <1> QED BY <1>2, <1>3, <1>4 DEF MlexpInv

LEMMA MlexpTypes == MlexpInv /\ [MlexpNext]_mlexpVars => MlexpTypeOK' /\ OneJob'
  <1> SUFFICES ASSUME MlexpInv, [MlexpNext]_mlexpVars PROVE MlexpTypeOK' /\ OneJob'
    OBVIOUS
  <1> USE DEF MlexpInv, MlexpTypeOK, OneJob, OneJobPerCall, remoteVars, callVars, requestVars,
              Over, Ask, Requests
  <1>0. Wait \in Nat /\ Request \in Nat /\ Interval \in Nat /\ Tock \in Nat \ {0}
    BY MlexpAssumption DEF MlexpAssumption
  <1>a. TooLate \in Nat /\ Wait <= TooLate  BY <1>0 DEF TooLate
  <1>1. CASE Accept  BY <1>1 DEF Accept
  <1>2. CASE Run  BY <1>2 DEF Run
  <1>3. CASE End
    <2>1. job' \in Over /\ endedAt' \in 0..TooLate  BY <1>3 DEF End
    <2>2. report' \in BOOLEAN
      <3>1. CASE job' = "passed"  BY <1>3, <3>1 DEF End
      <3>2. CASE job' # "passed"  BY <1>3, <3>2 DEF End
      <3> QED BY <3>1, <3>2
    <2>3. UNCHANGED <<posted, runs, callVars>>
      BY <1>3 DEF End
    <2> QED BY <2>1, <2>2, <2>3
  <1>4. CASE Stop  BY <1>4 DEF Stop
  <1>5. ASSUME NEW r \in {"ok", "error", "timeout", "raised"}, Reply(r)
        PROVE  MlexpTypeOK' /\ OneJob'
    BY <1>5 DEF Reply
  <1>6. CASE ProbeRuntime \/ ProbeRaises \/ SubmitFails \/ PollLost \/ RequestBreaks
             \/ Cancelled \/ Expire \/ ReadReport
    BY <1>5, <1>6 DEF ProbeRuntime, ProbeRaises, SubmitFails, PollLost, RequestBreaks,
                      Cancelled, Expire, ReadReport
  <1>7. CASE ProbeHealth  BY <1>0, <1>7 DEF ProbeHealth
  <1>8. CASE Post  BY <1>0, <1>8 DEF Post
  <1>9. CASE Submitted \/ PollUnread \/ WakeUp
    <2>1. CASE Submitted  BY <2>1 DEF Submitted
    <2>2. CASE PollUnread  BY <1>0, <2>2 DEF PollUnread
    <2>3. CASE WakeUp  BY <2>3 DEF WakeUp
    <2> QED BY <1>9, <2>1, <2>2, <2>3
  <1>10. CASE PollOver  BY <1>0, <1>5, <1>10 DEF PollOver
  <1>11. CASE PollOpen  BY <1>0, <1>11 DEF PollOpen
  <1>12. CASE AskStatus
    <2>1. Wait - mclock \in Nat  BY <1>0, <1>12 DEF AskStatus
    <2>2. ((Wait - mclock) \div Tock) * Tock \in Nat  BY <1>0, <2>1, WholeSeconds
    <2>3. RequestLimit \in Nat  BY <1>0, <2>2 DEF RequestLimit
    <2> QED BY <1>12, <2>3 DEF AskStatus
  <1>13. CASE Tick  BY <1>a, <1>13 DEF Tick
  <1>15. CASE MlexpPiece  BY <1>15 DEF MlexpPiece
  <1>14. CASE UNCHANGED mlexpVars  BY <1>14 DEF mlexpVars
  <1> QED BY <1>1, <1>2, <1>3, <1>4, <1>6, <1>7, <1>8, <1>9, <1>10, <1>11, <1>12, <1>13, <1>14, <1>15
          DEF MlexpNext

LEMMA MlexpLately == MlexpInv /\ [MlexpNext]_mlexpVars => EndedLately'
  <1> SUFFICES ASSUME MlexpInv, [MlexpNext]_mlexpVars PROVE EndedLately'
    OBVIOUS
  <1> USE DEF MlexpInv, MlexpTypeOK, EndedLately, GaveUpInGoodFaith, remoteVars, callVars,
              requestVars, Over, Ask, Requests
  <1>0. Wait \in Nat /\ Request \in Nat /\ Interval \in Nat /\ Tock \in Nat \ {0}
    BY MlexpAssumption DEF MlexpAssumption
  <1>1. CASE Accept  BY <1>0, <1>1 DEF Accept
  <1>2. CASE Run  BY <1>0, <1>2 DEF Run
  <1>3. CASE End
    <2>1. UNCHANGED callVars /\ endedAt' = mclock
      BY <1>3 DEF End
    <2>2. job' \in Over /\ job \notin Over  BY <1>3 DEF End
    <2> QED BY <1>0, <2>1, <2>2
  <1>4. CASE Stop  BY <1>0, <1>4 DEF Stop
  <1>5. ASSUME NEW r \in {"ok", "error", "raised"}, Reply(r), reply # "timeout"
        PROVE  EndedLately'
    BY <1>0, <1>5 DEF Reply
  <1>6. CASE ProbeRuntime \/ ProbeRaises \/ SubmitFails \/ PollLost \/ RequestBreaks
             \/ Cancelled \/ ReadReport
    <2>1. reply # "timeout"
      BY <1>6 DEF ProbeRuntime, ProbeRaises, SubmitFails, PollLost, RequestBreaks,
                  Cancelled, ReadReport
    <2> QED BY <1>5, <1>6, <2>1
            DEF ProbeRuntime, ProbeRaises, SubmitFails, PollLost, RequestBreaks,
                Cancelled, ReadReport
  <1>7. CASE Expire
    BY <1>0, <1>7 DEF Expire, Reply
  <1>8. CASE ProbeHealth \/ Post  BY <1>0, <1>8 DEF ProbeHealth, Post
  <1>9. CASE Submitted  BY <1>0, <1>9 DEF Submitted
  <1>10. CASE PollOver  BY <1>0, <1>5, <1>10 DEF PollOver
  <1>11. CASE PollOpen  BY <1>0, <1>11 DEF PollOpen
  <1>12. CASE AskStatus
    <2>1. Wait - mclock \in Nat  BY <1>0, <1>12 DEF AskStatus
    <2>2. ((Wait - mclock) \div Tock) * Tock \in Nat  BY <1>0, <2>1, WholeSeconds
    <2>3. RequestLimit \in Nat /\ RequestLimit <= Request  BY <1>0, <2>2 DEF RequestLimit
    <2> QED BY <1>0, <1>12, <2>3 DEF AskStatus
  <1>13. CASE Tick  BY <1>0, <1>13 DEF Tick
  <1>17. CASE MlexpPiece  BY <1>0, <1>17 DEF MlexpPiece
  <1>14. CASE PollUnread  BY <1>0, <1>14 DEF PollUnread
  <1>15. CASE WakeUp  BY <1>0, <1>15 DEF WakeUp
  <1>16. CASE UNCHANGED mlexpVars  BY <1>16 DEF mlexpVars
  <1> QED BY <1>1, <1>2, <1>3, <1>4, <1>6, <1>7, <1>8, <1>9, <1>10, <1>11, <1>12, <1>13, <1>14,
             <1>15, <1>16, <1>17 DEF MlexpNext

(***************************************************************************)
(* Command-line tools.                                                     *)
(***************************************************************************)

\* A stream that is no longer registered is at its end; no line is lost
\* between the pipe, the buffer and the result; the drain reads every
\* registered stream before the tool is reaped.
Registered ==
    \A s \in Stream \ selector : holder[s] = {} /\ pipe[s] = 0 /\ buf[s] = 0

Lines ==
    /\ \A s \in Stream : got[s] + buf[s] + pipe[s] = wrote[s]
    /\ cli = "communicate" => \A s \in Stream : buf[s] = 0

Drained ==
    /\ cli = "drain" =>
         /\ child # "live"
         /\ \A s \in selector : \E i \in 1..Len(todo) : todo[i] = s
    /\ cli = "reap" => selector = {}

ToolGone ==
    /\ child # "live" => \A s \in Stream : "tool" \notin holder[s]
    /\ cli = "done" /\ child = "live" => verdict = "raised"
    /\ verdict # "none" => cli = "done"

CliInv == CliTypeOK /\ Registered /\ Lines /\ Drained /\ ToolGone /\ CompleteAnswer

LEMMA StreamsFinite == ASSUME NEW S \in SUBSET Stream
                       PROVE  Cardinality(S) \in Nat
  <1>1. IsFiniteSet({}) /\ IsFiniteSet({} \cup {"stdout"})
        /\ IsFiniteSet(({} \cup {"stdout"}) \cup {"stderr"})
    BY FS_EmptySet, FS_AddElement
  <1>2. Stream = ({} \cup {"stdout"}) \cup {"stderr"}  BY DEF Stream
  <1>3. IsFiniteSet(Stream)  BY <1>1, <1>2
  <1>4. IsFiniteSet(S)  BY <1>3, FS_Subset
  <1> QED BY <1>4, FS_CardinalityType

LEMMA OrdersVisit == ASSUME NEW S \in SUBSET Stream, NEW q \in Orders(S)
                     PROVE  /\ q \in Seq(Stream)
                            /\ \A s \in S : \E i \in 1..Len(q) : q[i] = s
  <1>1. PICK n \in Nat : n = Cardinality(S)  BY StreamsFinite
  <1>2. q \in [1..n -> S] /\ \A s \in S : \E i \in DOMAIN q : q[i] = s
    BY <1>1 DEF Orders
  <1>3. q \in Seq(S) /\ Len(q) = n /\ DOMAIN q = 1..n  BY <1>1, <1>2
  <1>4. \A i \in 1..n : q[i] \in Stream  BY <1>2
  <1>5. q \in Seq(Stream)  BY <1>3, <1>4
  <1> QED BY <1>2, <1>3, <1>5

LEMMA CliInitInv == CliInit => CliInv
  <1> SUFFICES ASSUME CliInit PROVE CliInv
    OBVIOUS
  <1> USE DEF CliInit
  <1>1. cli \in {"communicate", "feed"}
    <2>1. CASE tool = "codex"  BY <2>1
    <2>2. CASE tool # "codex"  BY <2>2
    <2> QED BY <2>1, <2>2
  <1>2. CliTypeOK
    <2>1. holder \in [Stream -> SUBSET {"tool", "daemon"}]  OBVIOUS
    <2>2. half \in [Stream -> BOOLEAN]  OBVIOUS
    <2>3. {wrote, pipe, buf, got} \subseteq [Stream -> Nat]  OBVIOUS
    <2>4. selector \subseteq Stream /\ todo \in Seq(Stream)  OBVIOUS
    <2>5. cli \in {"feed", "check", "select", "read", "poll", "drain", "reap",
                   "communicate", "done"}
      BY <1>1
    <2>6. /\ tool \in Tool /\ child = "live" /\ verdict = "none"
          /\ stdin \in {"full", "open"} /\ overdue = FALSE /\ timedOut = FALSE
      OBVIOUS
    <2> QED BY <2>1, <2>2, <2>3, <2>4, <2>5, <2>6 DEF CliTypeOK
  <1>3. Registered /\ Lines  BY DEF Registered, Lines
  <1>4. Drained /\ ToolGone /\ CompleteAnswer
    BY <1>1 DEF Drained, ToolGone, CompleteAnswer
  <1> QED BY <1>2, <1>3, <1>4 DEF CliInv

\* The steps of the tool.
LEMMA ToolKeeps == CliInv /\ (ToolStep \/ DeadlinePasses) => CliInv'
  <1> SUFFICES ASSUME CliInv, ToolStep \/ DeadlinePasses PROVE CliInv'
    OBVIOUS
  <1> USE DEF CliInv, CliTypeOK, Registered, Lines, Drained, ToolGone, CompleteAnswer,
              toolVars, runVars, written
  <1>1. CASE Drink \/ CloseStdin  BY <1>1 DEF Drink, CloseStdin
  <1>2. CASE Daemon  BY <1>2 DEF Daemon, Hold, Writes
  <1>3. CASE DaemonEnds  BY <1>3 DEF DaemonEnds, Hold
  <1>4. CASE Exit  BY <1>4 DEF Exit, Ends
  <1>5. ASSUME NEW s \in Stream, BeginLine(s) PROVE CliInv'
    <2>1. /\ wrote' = [wrote EXCEPT ![s] = wrote[s] + 1]
          /\ pipe' = [pipe EXCEPT ![s] = pipe[s] + 1]
          /\ half' = [half EXCEPT ![s] = TRUE]
          /\ UNCHANGED <<tool, stdin, child, holder, runVars, buf, got, overdue>>
      BY <1>5 DEF BeginLine
    <2>2. child = "live" /\ "tool" \in holder[s]  BY <1>5 DEF BeginLine, Writes
    <2>3. /\ wrote' \in [Stream -> Nat] /\ pipe' \in [Stream -> Nat]
          /\ half' \in [Stream -> BOOLEAN]
      BY <2>1
    <2>4. CliTypeOK'  BY <2>1, <2>3
    <2>5. Registered'
      <3>1. s \in selector  BY <2>2
      <3> QED BY <2>1, <3>1
    <2>6. Lines'
      <3>1. \A t \in Stream : got'[t] + buf'[t] + pipe'[t] = wrote'[t]
        BY <2>1
      <3> QED BY <2>1, <3>1
    <2>7. Drained' /\ ToolGone' /\ CompleteAnswer'  BY <2>1, <2>2
    <2> QED BY <2>4, <2>5, <2>6, <2>7
  <1>6. ASSUME NEW s \in Stream, EndLine(s) PROVE CliInv'
    <2>1. CASE pipe[s] = 0 /\ buf[s] > 0
      <3>1. /\ pipe' = [pipe EXCEPT ![s] = 1]
            /\ buf' = [buf EXCEPT ![s] = buf[s] - 1]
            /\ half' = [half EXCEPT ![s] = FALSE]
            /\ UNCHANGED <<tool, stdin, child, holder, wrote, runVars, got, overdue>>
        BY <1>6, <2>1 DEF EndLine
      <3>2. s \in selector /\ child = "live" /\ cli # "communicate"
        BY <1>6, <2>1 DEF EndLine, Writes
      <3>3. pipe' \in [Stream -> Nat] /\ buf' \in [Stream -> Nat] /\ half' \in [Stream -> BOOLEAN]
        BY <2>1, <3>1
      <3>4. CliTypeOK'  BY <3>1, <3>3
      <3>5. Registered'  BY <3>1, <3>2
      <3>6. Lines'
        <4>1. \A t \in Stream : got'[t] + buf'[t] + pipe'[t] = wrote'[t]
          BY <2>1, <3>1
        <4> QED BY <3>1, <3>2, <4>1
      <3>7. Drained' /\ ToolGone' /\ CompleteAnswer'  BY <3>1, <3>2
      <3> QED BY <3>4, <3>5, <3>6, <3>7
    <2>2. CASE ~(pipe[s] = 0 /\ buf[s] > 0)  BY <1>6, <2>2 DEF EndLine, Writes
    <2> QED BY <2>1, <2>2
  <1>7. ASSUME NEW s \in Stream, CloseStream(s) PROVE CliInv'
    BY <1>7 DEF CloseStream, Hold, Writes
  <1>8. CASE DeadlinePasses  BY <1>8 DEF DeadlinePasses
  <1> QED BY <1>1, <1>2, <1>3, <1>4, <1>5, <1>6, <1>7, <1>8 DEF ToolStep

\* The steps of the runner that read.
LEMMA ReaderKeeps ==
  ASSUME CliInv, NEW s \in Stream, Pull(s) \/ TakeLine(s) \/ ReadFails(s) \/ Unregister(s)
                                 \/ Collect(s)
  PROVE  CliInv'
  <1> USE DEF CliInv, CliTypeOK, Registered, Lines, Drained, ToolGone, CompleteAnswer,
              RunnerKeeps, toolVars, runVars, written
  <1>1. CASE Pull(s)
    <2>1. s \in selector /\ cli \in {"read", "drain"}  BY <1>1 DEF Pull, Reads
    <2>2. /\ buf' = [buf EXCEPT ![s] = buf[s] + pipe[s]]
          /\ pipe' = [pipe EXCEPT ![s] = 0]
          /\ UNCHANGED <<toolVars, overdue, runVars, got>>
      BY <1>1 DEF Pull
    <2>3. buf' \in [Stream -> Nat] /\ pipe' \in [Stream -> Nat]  BY <2>2
    <2>4. \A t \in Stream : got'[t] + buf'[t] + pipe'[t] = wrote'[t]  BY <2>2
    <2>5. CliTypeOK'  BY <2>2, <2>3
    <2>6. Registered'  BY <2>1, <2>2
    <2>7. Lines'  BY <2>1, <2>2, <2>4
    <2>8. Drained' /\ ToolGone' /\ CompleteAnswer'  BY <2>1, <2>2
    <2> QED BY <2>5, <2>6, <2>7, <2>8
  <1>2. CASE TakeLine(s)
    <2>0. buf[s] > 0
      <3>1. Whole(s) \in Int /\ (Whole(s) > 0 => buf[s] > 0)  BY DEF Whole
      <3> QED BY <1>2, <3>1 DEF TakeLine, Line
    <2>1. s \in selector /\ cli \in {"read", "drain"} /\ buf[s] > 0
      BY <1>2, <2>0 DEF TakeLine, Reads
    <2>2. /\ buf' = [buf EXCEPT ![s] = buf[s] - 1]
          /\ got' = [got EXCEPT ![s] = got[s] + 1]
          /\ UNCHANGED <<toolVars, overdue, cli, selector, timedOut, verdict, pipe>>
      BY <1>2 DEF TakeLine
    <2>3. todo' \in Seq(Stream) /\ (cli = "drain" => todo' = todo)
      BY <1>2, <2>1 DEF TakeLine, NextRead, Reads
    <2>4. buf' \in [Stream -> Nat] /\ got' \in [Stream -> Nat]  BY <2>1, <2>2
    <2>5. \A t \in Stream : got'[t] + buf'[t] + pipe'[t] = wrote'[t]  BY <2>2
    <2>6. CliTypeOK'
      <3>1. {wrote, pipe, buf, got}' \subseteq [Stream -> Nat]  BY <2>2, <2>4
      <3> QED BY <2>2, <2>3, <3>1
    <2>7. Registered'  BY <2>1, <2>2
    <2>8. Lines'  BY <2>1, <2>2, <2>5
    <2>9. Drained' /\ ToolGone' /\ CompleteAnswer'  BY <2>1, <2>2, <2>3
    <2> QED BY <2>6, <2>7, <2>8, <2>9
  <1>3. CASE Unregister(s)
    <2>1. /\ cli \in {"read", "drain"} /\ todo # <<>> /\ Head(todo) = s
          /\ buf[s] = 0 /\ pipe[s] = 0 /\ holder[s] = {}
      BY <1>3 DEF Unregister, Reads
    <2>2. /\ selector' = selector \ {s} /\ todo' = Tail(todo)
          /\ UNCHANGED <<toolVars, overdue, cli, timedOut, verdict, pipe, buf, got>>
      BY <1>3 DEF Unregister
    <2>3. todo' \in Seq(Stream) /\ Len(todo') = Len(todo) - 1
          /\ \A i \in 1..Len(todo') : todo'[i] = todo[i + 1]
      BY <2>1, <2>2
    <2>4. cli = "drain" => \A t \in selector' : \E i \in 1..Len(todo') : todo'[i] = t
      <3> SUFFICES ASSUME cli = "drain", NEW t \in selector'
                   PROVE  \E i \in 1..Len(todo') : todo'[i] = t
        OBVIOUS
      <3>1. PICK i \in 1..Len(todo) : todo[i] = t  BY <2>2
      <3>2. todo[1] = s /\ t # s /\ Len(todo) \in Nat  BY <2>1, <2>2
      <3>3. i # 1 /\ i \in Nat /\ 1 <= i /\ i <= Len(todo)  BY ONLY <3>1, <3>2
      <3>4. PICK j \in Nat : j = i - 1  BY <3>3
      <3>5. j \in 1..Len(todo')  BY <2>3, <3>2, <3>3, <3>4
      <3>6. todo'[j] = todo[j + 1] /\ j + 1 = i  BY ONLY <2>3, <3>3, <3>4, <3>5
      <3>7. todo'[j] = t  BY ONLY <3>1, <3>6
      <3> QED BY <3>5, <3>7
    <2>5. CliTypeOK'  BY <2>2, <2>3
    <2>6. Registered' /\ Lines'  BY <2>1, <2>2
    <2>7. Drained'  BY <2>1, <2>2, <2>4
    <2> QED BY <2>1, <2>2, <2>5, <2>6, <2>7
  <1>4. CASE Collect(s)
    <2>1. /\ cli = "communicate"
          /\ got' = [got EXCEPT ![s] = got[s] + pipe[s]]
          /\ pipe' = [pipe EXCEPT ![s] = 0]
          /\ UNCHANGED <<toolVars, overdue, runVars, buf>>
      BY <1>4 DEF Collect
    <2>2. got' \in [Stream -> Nat] /\ pipe' \in [Stream -> Nat]  BY <2>1
    <2>3. \A t \in Stream : got'[t] + buf'[t] + pipe'[t] = wrote'[t]  BY <2>1
    <2> QED BY <2>1, <2>2, <2>3
  <1>5. CASE ReadFails(s)
    BY <1>5 DEF ReadFails, Reads, Raise
  <1> QED BY <1>1, <1>2, <1>3, <1>4, <1>5

\* A call ends with a verdict on a tool that has ended, and with "ok" only
\* when nothing is left to read.
LEMMA ClassifyKeeps ==
  ASSUME CliInv, Classify, UNCHANGED <<selector, todo, pipe, buf, got, overdue>>,
         timedOut' \in BOOLEAN,
         \/ child # "live" /\ UNCHANGED toolVars
         \/ Ends("killed"),
         ~timedOut' => \A s \in Stream : pipe[s] = 0 /\ buf[s] = 0
  PROVE  CliInv'
  <1> USE DEF CliInv, CliTypeOK, Registered, Lines, Drained, ToolGone, CompleteAnswer,
              toolVars, written
  <1>1. /\ cli' = "done" /\ verdict' \in {"ok", "quota", "error", "raised"}
        /\ verdict' = "ok" => child' = "zero" /\ ~timedOut'
    BY DEF Classify
  <1>2. /\ UNCHANGED <<tool, stdin, wrote, half>> /\ child' \in {"zero", "nonzero", "killed"}
        /\ holder' \in [Stream -> SUBSET {"tool", "daemon"}]
        /\ \A s \in Stream : "tool" \notin holder'[s] /\ holder'[s] \subseteq holder[s]
    <2>1. CASE child # "live" /\ UNCHANGED toolVars  BY <2>1
    <2>2. CASE Ends("killed")  BY <2>2 DEF Ends
    <2> QED BY <2>1, <2>2
  <1>3. CliTypeOK'  BY <1>1, <1>2
  <1>4. Registered' /\ Lines'  BY <1>1, <1>2
  <1>5. Drained' /\ ToolGone'  BY <1>1, <1>2
  <1>6. CompleteAnswer'  BY <1>1, <1>2
  <1> QED BY <1>3, <1>4, <1>5, <1>6

LEMMA RunnerInv == CliInv /\ RunnerStep => CliInv'
  <1> SUFFICES ASSUME CliInv, RunnerStep PROVE CliInv'
    OBVIOUS
  <1> USE DEF CliInv, CliTypeOK, Registered, Lines, Drained, ToolGone, CompleteAnswer,
              RunnerKeeps, toolVars, written
  <1>1. CASE Feed  BY <1>1 DEF Feed
  <1>2. CASE BrokenPipe  BY <1>2 DEF BrokenPipe, Raise
  <1>3. CASE Check
    <2>1. /\ cli' = (IF selector = {} THEN "reap" ELSE "select") /\ cli = "check"
          /\ UNCHANGED <<selector, todo, verdict, pipe, buf, got, overdue>>
      BY <1>3 DEF Check
    <2>2. CASE selector # {} /\ child = "live" /\ overdue
      <3>1. timedOut' = TRUE /\ Ends("killed")  BY <1>3, <2>2 DEF Check
      <3> QED BY <2>1, <2>2, <3>1 DEF Ends
    <2>3. CASE ~(selector # {} /\ child = "live" /\ overdue)
      <3>1. UNCHANGED <<timedOut, toolVars>>  BY <1>3, <2>3 DEF Check
      <3> QED BY <2>1, <3>1
    <2> QED BY <2>2, <2>3
  <1>4. CASE Select
    <2>1. Readable \subseteq Stream  BY DEF Readable
    <2>2. todo' \in Seq(Stream) /\ cli' \in {"poll", "read"}
      <3>1. CASE Readable = {}  BY <1>4, <3>1 DEF Select
      <3>2. CASE Readable # {}
        <4>1. todo' \in Orders(Readable) /\ cli' = "read"  BY <1>4, <3>2 DEF Select
        <4>2. todo' \in Seq(Stream)  BY ONLY <2>1, <4>1, OrdersVisit
        <4> QED BY <4>1, <4>2
      <3> QED BY <3>1, <3>2
    <2> QED BY <1>4, <2>2 DEF Select
  <1>5. CASE Poll
    <2>1. CASE child = "live"  BY <1>5, <2>1 DEF Poll
    <2>2. CASE child # "live"
      <3>1. todo' \in Orders(selector) /\ cli' = "drain"
            /\ UNCHANGED <<toolVars, overdue, selector, timedOut, verdict, pipe, buf, got>>
            /\ cli = "poll"
        BY <1>5, <2>2 DEF Poll
      <3>2. todo' \in Seq(Stream) /\ \A s \in selector : \E i \in 1..Len(todo') : todo'[i] = s
        BY <3>1, OrdersVisit
      <3> QED BY <2>2, <3>1, <3>2
    <2> QED BY <2>1, <2>2
  <1>6. CASE ReadsDone
    <2>1. cli = "drain" => selector = {}  BY <1>6 DEF ReadsDone
    <2>2. CASE cli = "read"  BY <1>6, <2>2 DEF ReadsDone
    <2>3. CASE cli = "drain"  BY <1>6, <2>1, <2>3 DEF ReadsDone
    <2> QED BY <1>6, <2>2, <2>3 DEF ReadsDone
  <1>7. CASE Reap
    <2>1. CASE child = "live"  BY <1>7, <2>1 DEF Reap, Raise
    <2>2. CASE child # "live"
      <3>1. selector = {} /\ Classify /\ UNCHANGED <<selector, todo, timedOut, pipe, buf, got>>
            /\ UNCHANGED <<toolVars, overdue>>
        BY <1>7, <2>2 DEF Reap
      <3> QED BY ONLY CliInv, <2>2, <3>1, ClassifyKeeps DEF CliInv, CliTypeOK, Registered
    <2> QED BY <2>1, <2>2
  <1>8. CASE Collected
    <2>1. Classify /\ child # "live" /\ UNCHANGED <<toolVars, overdue>>
          /\ UNCHANGED <<selector, todo, timedOut, pipe, buf, got>>
          /\ \A s \in Stream : pipe[s] = 0 /\ buf[s] = 0
      BY <1>8 DEF Collected
    <2> QED BY ONLY CliInv, <2>1, ClassifyKeeps DEF CliInv, CliTypeOK
  <1>9. CASE Expires
    <2>1. Classify /\ timedOut' = TRUE /\ UNCHANGED <<selector, todo, pipe, buf, got, overdue>>
          /\ ((child # "live" /\ UNCHANGED toolVars) \/ Ends("killed"))
      BY <1>9 DEF Expires
    <2> QED BY ONLY CliInv, <2>1, ClassifyKeeps
  <1> QED BY ReaderKeeps, <1>1, <1>2, <1>3, <1>4, <1>5, <1>6, <1>7, <1>8, <1>9 DEF RunnerStep

LEMMA CliStep == CliInv /\ [CliNext]_cliVars => CliInv'
  <1> SUFFICES ASSUME CliInv, [CliNext]_cliVars PROVE CliInv'
    OBVIOUS
  <1>1. CASE CliNext  BY <1>1, ToolKeeps, RunnerInv DEF CliNext
  <1>2. CASE UNCHANGED cliVars
    BY <1>2 DEF cliVars, toolVars, runVars, written, CliInv, CliTypeOK, Registered, Lines,
                Drained, ToolGone, CompleteAnswer
  <1> QED BY <1>1, <1>2

(***************************************************************************)
(* The call.                                                               *)
(***************************************************************************)

CallInv == HttpInv /\ CliInv /\ MlexpInv

THEOREM Invariance == BackendSpec => []CallInv
  <1>1. BackendInit => CallInv
    BY HttpInitInv, CliInitInv, MlexpInitInv DEF BackendInit, CallInv
  <1>2. CallInv /\ [BackendNext]_adapterVars => CallInv'
    <2> SUFFICES ASSUME CallInv, [BackendNext]_adapterVars PROVE CallInv'
      OBVIOUS
    <2>1. [HttpNext]_httpVars /\ [CliNext]_cliVars /\ [MlexpNext]_mlexpVars
      BY DEF BackendNext, Api, Cli, Mlexp, adapterVars
    <2> QED BY <2>1, HttpStep, CliStep, MlexpTypes, MlexpLately DEF CallInv, MlexpInv
  <1> QED BY <1>1, <1>2, PTL DEF BackendSpec

\* Every state of a call of any of the three kinds is well typed.
THEOREM TypeCorrect == BackendSpec => []TypeOK
  <1>1. CallInv => TypeOK  BY DEF CallInv, HttpInv, CliInv, MlexpInv, TypeOK
  <1> QED BY <1>1, Invariance, PTL

\* A call over HTTP that runs on a second after its timeout is reading an
\* answer in pieces and sends no other request, whatever the timeout, the
\* second and the number of retries are.
THEOREM DeadlineKept == BackendSpec => []RetriesWithinDeadline
  <1>1. CallInv => RetriesWithinDeadline  BY DEF CallInv, HttpInv
  <1> QED BY <1>1, Invariance, PTL

\* An answered run of a tool has all of its output, whatever the size of
\* the pipes and the length of the output.
THEOREM AnswersWhole == BackendSpec => []CompleteAnswer
  <1>1. CallInv => CompleteAnswer  BY DEF CallInv, CliInv
  <1> QED BY <1>1, Invariance, PTL

\* No call comes back with a result of a tool that is still at work.
THEOREM NoToolLeft == BackendSpec => []NoToolLeftRunning
  <1>1. CallInv => NoToolLeftRunning
    BY DEF CallInv, CliInv, ToolGone, NoToolLeftRunning
  <1> QED BY <1>1, Invariance, PTL

\* One call of MLEXP makes one job at most.
THEOREM OneRemoteJob == BackendSpec => []OneJobPerCall
  <1>1. CallInv => OneJobPerCall  BY DEF CallInv, MlexpInv, OneJob
  <1> QED BY <1>1, Invariance, PTL

\* A wait that timed out overlooked nothing: a job that had ended did so after
\* the last poll was sent, and within a request and a poll interval if the
\* answer to it came in one piece.
THEOREM GoodFaith == BackendSpec => []GaveUpInGoodFaith
  <1>1. CallInv => GaveUpInGoodFaith  BY DEF CallInv, MlexpInv, EndedLately
  <1> QED BY <1>1, Invariance, PTL

(***************************************************************************)
(* The health of the backends.                                             *)
(***************************************************************************)

\* A thread at work knows its backend, and no thread is about to write
\* "probing" as a verdict: only _begin_probe writes that, with a probe_id.
Placed ==
    \A t \in Thread :
        /\ pc[t] \notin {"idle", "reset", "resetshown"} => on[t] \in Backend
        /\ found[t] # "probing"

HealthInv == HealthTypeOK /\ Placed /\ ProbeHasOwner

OwnerLabels == ProbeLabels \cup {"write", "show"}

LEMMA HealthInit == Init => HealthInv
  <1> SUFFICES ASSUME Init PROVE HealthInv
    OBVIOUS
  <1> USE HealthAssumption, BackendStateAssumption DEF Init, InitBackends
  <1>1. \A b \in Backend : status[b] \in Status \ {"probing"} /\ enabled[b] \in BOOLEAN
    BY DEF Status
  <1>2. enabled \in [Backend -> BOOLEAN] /\ status \in [Backend -> Status]
    BY <1>1
  <1>3. shown \in [Backend -> [status : Status, probe : Thread \cup {NoThread}]]
        /\ \A b \in Backend : shown[b].status # "probing"
    BY <1>1
  <1>4. HealthTypeOK
    BY <1>2, <1>3 DEF HealthTypeOK, Status
  <1> QED BY <1>3, <1>4 DEF HealthInv, Placed, ProbeHasOwner

\* The methods of the router keep the types of its tables.
LEMMA RouterTypes ==
    ASSUME HealthTypeOK, NEW b \in Backend
    PROVE  /\ ReadStatus(b) \in Status
           /\ \A s \in Status : SetStatus(b, s) => status' \in [Backend -> Status]
           /\ \A S : RepairStatus(S) => status' \in [Backend -> Status]
           /\ \A v \in BOOLEAN : SetEnabled(b, v) =>
                 enabled' \in [Backend -> BOOLEAN] /\ failures' \in [Backend -> Nat]
           /\ MarkExhausted(b) \/ ResetQuota(b) => exhausted' \in SUBSET Account
           /\ RecordSuccess(b) =>
                 status' \in [Backend -> Status] /\ failures' \in [Backend -> Nat]
           /\ \A source : RecordUnhealthy(b, source) =>
                 status' \in [Backend -> Status] /\ failures' \in [Backend -> Nat]
  <1> USE BackendStateAssumption DEF HealthTypeOK
  <1>1. \A d \in Backend : ReadStatus(d) \in Status
    BY DEF ReadStatus, Status
  <1>2. ASSUME NEW s \in Status, SetStatus(b, s) PROVE status' \in [Backend -> Status]
    BY <1>2 DEF SetStatus
  <1>3. ASSUME NEW S, RepairStatus(S) PROVE status' \in [Backend -> Status]
    BY <1>1, <1>3 DEF RepairStatus
  <1>4. ASSUME NEW v \in BOOLEAN, SetEnabled(b, v)
        PROVE  enabled' \in [Backend -> BOOLEAN] /\ failures' \in [Backend -> Nat]
    BY <1>4 DEF SetEnabled
  <1>5. ASSUME MarkExhausted(b) \/ ResetQuota(b) PROVE exhausted' \in SUBSET Account
    BY <1>5 DEF MarkExhausted, ResetQuota
  <1>6. ASSUME RecordSuccess(b)
        PROVE  status' \in [Backend -> Status] /\ failures' \in [Backend -> Nat]
    BY <1>6 DEF RecordSuccess, Status
  <1>7. ASSUME NEW source, RecordUnhealthy(b, source)
        PROVE  status' \in [Backend -> Status] /\ failures' \in [Backend -> Nat]
    <2>1. failures[b] + 1 \in Nat
      OBVIOUS
    <2> QED BY <1>7, <2>1 DEF RecordUnhealthy, Status
  <1> QED BY <1>1, <1>2, <1>3, <1>4, <1>5, <1>6, <1>7

\* How a thread moves on: the others stay where they are.
Moves(t, d, s, label) ==
    /\ pc' = [pc EXCEPT ![t] = label]
    /\ on' = [on EXCEPT ![t] = d]
    /\ found' = [found EXCEPT ![t] = s]

\* A step that leaves the server's table alone keeps the owners when its thread
\* owned no probe, goes on with the one it owns, or has lost it to another.
LEMMA MoveKeepsOwners ==
    ASSUME HealthInv, NEW t \in Thread, NEW label, NEW d \in Backend \cup {NoBackend},
           NEW s \in Status \ {"probing"},
           Moves(t, d, s, label), shown' = shown,
           label \notin {"idle", "reset", "resetshown"} => d \in Backend,
           \/ pc[t] \notin OwnerLabels
           \/ label \in OwnerLabels /\ d = on[t]
           \/ ~IsCurrent(t)
    PROVE  Placed' /\ ProbeHasOwner'
  <1> USE DEF HealthInv, HealthTypeOK, Moves
  <1>1. Placed'
    BY DEF Placed
  <1>2. ASSUME NEW b \in Backend, shown[b].status = "probing", shown[b].probe # t
        PROVE  /\ shown[b].probe \in Thread
               /\ on'[shown[b].probe] = b
               /\ pc'[shown[b].probe] \in OwnerLabels
    BY <1>2 DEF ProbeHasOwner, OwnerLabels
  <1>3. ASSUME NEW b \in Backend, shown[b].status = "probing", shown[b].probe = t
        PROVE  on'[t] = b /\ pc'[t] \in OwnerLabels
    <2>1. on[t] = b /\ pc[t] \in OwnerLabels
      BY <1>3 DEF ProbeHasOwner, OwnerLabels
    <2>2. shown[b] = [status |-> "probing", probe |-> t]
      BY <1>3
    <2> QED BY <2>1, <2>2 DEF IsCurrent
  <1>4. ProbeHasOwner'
    BY <1>2, <1>3 DEF ProbeHasOwner, OwnerLabels
  <1> QED BY <1>1, <1>4

\* The four ways the module writes such a move
LEMMA MovesAre ==
    ASSUME HealthTypeOK, NEW t \in Thread
    PROVE  /\ \A label : GoTo(t, label) =>
                 Moves(t, on[t], found[t], label) /\ keys' = keys
           /\ \A s, label : Conclude(t, s, label) =>
                 Moves(t, on[t], s, label) /\ keys' = keys
           /\ \A d, label : Begin(t, d, label) =>
                 Moves(t, d, found[t], label) /\ keys' = keys /\ pc[t] = "idle"
           /\ \A d, s : BeginWrite(t, d, s) =>
                 Moves(t, d, s, "write") /\ keys' = keys /\ pc[t] = "idle"
           /\ Leave(t) => /\ Moves(t, NoBackend, "running", "idle")
                          /\ keys' \in [Thread -> SUBSET Backend]
BY DEF HealthTypeOK, GoTo, Conclude, Begin, BeginWrite, Leave, Moves

LEMMA MoveTypes ==
    ASSUME HealthTypeOK, NEW t \in Thread, NEW d \in Backend \cup {NoBackend},
           NEW s \in Status,
           NEW label \in {"idle", "write", "show", "begin", "open", "expired", "enabled",
                          "reset", "resetshown", "call", "marked"} \cup ProbeLabels,
           Moves(t, d, s, label)
    PROVE  /\ pc' \in [Thread -> {"idle", "write", "show", "begin", "open", "expired",
                                  "enabled", "reset", "resetshown", "call", "marked"}
                                 \cup ProbeLabels]
           /\ on' \in [Thread -> Backend \cup {NoBackend}]
           /\ found' \in [Thread -> Status]
BY DEF HealthTypeOK, Moves

\* The steps of a thread that leave the server's table alone
LEMMA QuietMove ==
    ASSUME HealthInv, NEW t \in Thread, NEW d \in Backend \cup {NoBackend},
           NEW s \in Status \ {"probing"},
           NEW label \in {"idle", "write", "show", "begin", "open", "expired", "enabled",
                          "reset", "resetshown", "call", "marked"} \cup ProbeLabels,
           Moves(t, d, s, label), shown' = shown,
           keys' \in [Thread -> SUBSET Backend],
           label \notin {"idle", "reset", "resetshown"} => d \in Backend,
           \/ pc[t] \notin OwnerLabels
           \/ label \in OwnerLabels /\ d = on[t]
           \/ ~IsCurrent(t),
           enabled' \in [Backend -> BOOLEAN], status' \in [Backend -> Status],
           failures' \in [Backend -> Nat], exhausted' \in SUBSET Account,
           armed' \in SUBSET Backend, ops' \in 0..MaxOps
    PROVE  HealthInv'
  <1>1. Placed' /\ ProbeHasOwner'
    BY MoveKeepsOwners
  <1>2. HealthTypeOK'
    BY MoveTypes DEF HealthInv, HealthTypeOK
  <1> QED BY <1>1, <1>2 DEF HealthInv

\* A probe, from _begin_probe to its verdict
LEMMA ProbeKeeps ==
    ASSUME HealthInv, NEW t \in Thread,
           \/ BeginProbe(t) \/ OpenProbe(t) \/ ProbeAnswers(t) \/ ProbeResetsQuota(t)
           \/ ProbeSucceeds(t) \/ ProbeRefused(t) \/ ProbeFails(t) \/ FinishProbe(t)
    PROVE  HealthInv'
  <1> USE DEF backendVars
  <1>0. /\ HealthTypeOK /\ found[t] \in Status \ {"probing"}
        /\ pc[t] \notin {"idle", "reset", "resetshown"} => on[t] \in Backend
        /\ on[t] \in Backend \cup {NoBackend}
    BY DEF HealthInv, HealthTypeOK, Placed
  <1>a. /\ enabled \in [Backend -> BOOLEAN] /\ status \in [Backend -> Status]
        /\ failures \in [Backend -> Nat] /\ exhausted \in SUBSET Account
        /\ armed \in SUBSET Backend /\ ops \in 0..MaxOps /\ keys \in [Thread -> SUBSET Backend]
    BY <1>0 DEF HealthTypeOK
  <1>b. {"running", "exhausted", "unreachable", "disabled"} \subseteq Status \ {"probing"}
        /\ "probing" \in Status
    BY DEF Status
  <1>1. CASE BeginProbe(t)
    <2>1. Moves(t, on[t], found[t], "open") /\ keys' = keys /\ pc[t] \notin OwnerLabels
      BY <1>0, <1>1, MovesAre DEF BeginProbe, OwnerLabels, ProbeLabels
    <2>2. status' \in [Backend -> Status] /\ on[t] \in Backend
      BY <1>0, <1>1, <1>b, RouterTypes DEF BeginProbe
    <2> QED BY <1>0, <1>1, <1>a, <2>1, <2>2, QuietMove DEF BeginProbe
  <1>2. CASE OpenProbe(t)
    <2>1. Moves(t, on[t], found[t], "probe") /\ keys' = keys /\ pc[t] \notin OwnerLabels
      BY <1>0, <1>2, MovesAre DEF OpenProbe, OwnerLabels, ProbeLabels
    <2>2. /\ on[t] \in Backend
          /\ shown' = [shown EXCEPT ![on[t]] = [status |-> "probing", probe |-> t]]
          /\ UNCHANGED <<enabled, status, failures, exhausted, armed, ops>>
      BY <1>0, <1>2 DEF OpenProbe
    <2>3. HealthTypeOK'
      <3>1. shown' \in [Backend -> [status : Status, probe : Thread \cup {NoThread}]]
        BY <1>0, <1>b, <2>2 DEF HealthTypeOK
      <3>2. "probe" \in ProbeLabels
        BY DEF ProbeLabels
      <3> QED BY <1>0, <1>a, <2>1, <2>2, <3>1, <3>2, MoveTypes DEF HealthTypeOK
    <2>4. Placed'
      BY <1>0, <2>1, <2>2 DEF Placed, Moves, HealthInv, HealthTypeOK
    <2>5. ProbeHasOwner'
      <3>1. ASSUME NEW b \in Backend, b # on[t], shown[b].status = "probing"
            PROVE  /\ shown[b].probe \in Thread
                   /\ on'[shown[b].probe] = b /\ pc'[shown[b].probe] \in OwnerLabels
        <4>1. /\ shown[b].probe \in Thread /\ on[shown[b].probe] = b
              /\ pc[shown[b].probe] \in OwnerLabels
          BY <3>1 DEF HealthInv, ProbeHasOwner, OwnerLabels
        <4>2. shown[b].probe # t
          BY <2>1, <4>1
        <4> QED BY <1>0, <2>1, <4>1, <4>2 DEF Moves, HealthTypeOK
      <3>2. on'[t] = on[t] /\ pc'[t] \in OwnerLabels
        BY <1>0, <2>1 DEF Moves, HealthTypeOK, OwnerLabels, ProbeLabels
      <3>3. \A b \in Backend : b # on[t] => shown'[b] = shown[b]
        BY <1>0, <2>2 DEF HealthTypeOK
      <3>4. shown'[on[t]] = [status |-> "probing", probe |-> t]
        BY <1>0, <2>2 DEF HealthTypeOK
      <3> QED BY <3>1, <3>2, <3>3, <3>4 DEF ProbeHasOwner, OwnerLabels
    <2> QED BY <2>3, <2>4, <2>5 DEF HealthInv
  <1>3. CASE ProbeAnswers(t)
    <2>1. PICK label \in {"pass", "refuse", "fault"} :
              Moves(t, on[t], found[t], label) /\ keys' = keys
      BY <1>0, <1>3, MovesAre DEF ProbeAnswers
    <2>2. label \in ProbeLabels /\ label \in OwnerLabels /\ on[t] \in Backend
      BY <1>0, <1>3 DEF ProbeAnswers, OwnerLabels, ProbeLabels
    <2> QED BY <1>0, <1>3, <1>a, <2>1, <2>2, QuietMove DEF ProbeAnswers
  <1>4. CASE ProbeResetsQuota(t)
    <2>1. Moves(t, on[t], found[t], "passed") /\ keys' = keys
      BY <1>0, <1>4, MovesAre DEF ProbeResetsQuota
    <2>2. "passed" \in ProbeLabels /\ "passed" \in OwnerLabels /\ on[t] \in Backend
      BY <1>0, <1>4 DEF ProbeResetsQuota, OwnerLabels, ProbeLabels
    <2>3. exhausted' \in SUBSET Account
      BY <1>0, <1>4, <2>2, RouterTypes DEF ProbeResetsQuota
    <2> QED BY <1>0, <1>4, <1>a, <2>1, <2>2, <2>3, QuietMove DEF ProbeResetsQuota
  <1>5. ASSUME NEW v \in {"running", "exhausted", "unreachable"}, Conclude(t, v, "finish"),
               pc[t] \in ProbeLabels, shown' = shown,
               enabled' \in [Backend -> BOOLEAN], status' \in [Backend -> Status],
               failures' \in [Backend -> Nat], exhausted' \in SUBSET Account,
               armed' = armed, ops' = ops
        PROVE  HealthInv'
    <2>1. Moves(t, on[t], v, "finish") /\ keys' = keys /\ v \in Status \ {"probing"}
      BY <1>0, <1>5, <1>b, MovesAre
    <2>2. "finish" \in ProbeLabels /\ "finish" \in OwnerLabels /\ on[t] \in Backend
      BY <1>0, <1>5 DEF OwnerLabels, ProbeLabels
    <2> QED BY <1>0, <1>5, <1>a, <2>1, <2>2, QuietMove
  <1>6. CASE ProbeSucceeds(t)
    <2>1. on[t] \in Backend /\ pc[t] \in ProbeLabels
      BY <1>0, <1>6 DEF ProbeSucceeds, ProbeLabels
    <2>2. status' \in [Backend -> Status] /\ failures' \in [Backend -> Nat]
      BY <1>0, <1>6, <2>1, RouterTypes DEF ProbeSucceeds
    <2> QED BY <1>5, <1>6, <1>a, <2>1, <2>2 DEF ProbeSucceeds
  <1>7. CASE ProbeRefused(t)
    <2>1. on[t] \in Backend /\ pc[t] \in ProbeLabels
      BY <1>0, <1>7 DEF ProbeRefused, ProbeLabels
    <2>2. exhausted' \in SUBSET Account
      BY <1>0, <1>7, <2>1, RouterTypes DEF ProbeRefused
    <2> QED BY <1>5, <1>7, <1>a, <2>1, <2>2 DEF ProbeRefused
  <1>8. CASE ProbeFails(t)
    <2>1. on[t] \in Backend /\ pc[t] \in ProbeLabels
      BY <1>0, <1>8 DEF ProbeFails, ProbeLabels
    <2>2. status' \in [Backend -> Status] /\ failures' \in [Backend -> Nat]
      BY <1>0, <1>8, <2>1, RouterTypes DEF ProbeFails
    <2> QED BY <1>5, <1>8, <1>a, <2>1, <2>2 DEF ProbeFails
  <1>9. CASE FinishProbe(t)
    <2>1. CASE GoTo(t, "write")
      <3>1. Moves(t, on[t], found[t], "write") /\ keys' = keys
        BY <1>0, <2>1, MovesAre
      <3>2. "write" \in OwnerLabels /\ on[t] \in Backend
        BY <1>0, <1>9 DEF FinishProbe, OwnerLabels
      <3> QED BY <1>0, <1>9, <1>a, <3>1, <3>2, QuietMove DEF FinishProbe
    <2>2. CASE ~IsCurrent(t) /\ Leave(t)
      <3>1. Moves(t, NoBackend, "running", "idle") /\ keys' \in [Thread -> SUBSET Backend]
        BY <1>0, <2>2, MovesAre
      <3> QED BY <1>0, <1>9, <1>a, <1>b, <2>2, <3>1, QuietMove DEF FinishProbe
    <2> QED BY <1>9, <2>1, <2>2 DEF FinishProbe
  <1> QED BY <1>1, <1>2, <1>3, <1>4, <1>6, <1>7, <1>8, <1>9

\* The writes of both tables, and the resets
LEMMA WriteKeeps ==
    ASSUME HealthInv, NEW t \in Thread,
           WriteRouter(t) \/ WriteShown(t) \/ ResetRouter(t) \/ ResetShown(t)
    PROVE  HealthInv'
  <1> USE DEF backendVars
  <1>0. /\ HealthTypeOK /\ found[t] \in Status \ {"probing"}
        /\ pc[t] \notin {"idle", "reset", "resetshown"} => on[t] \in Backend
        /\ on[t] \in Backend \cup {NoBackend}
    BY DEF HealthInv, HealthTypeOK, Placed
  <1>a. /\ enabled \in [Backend -> BOOLEAN] /\ status \in [Backend -> Status]
        /\ failures \in [Backend -> Nat] /\ exhausted \in SUBSET Account
        /\ armed \in SUBSET Backend /\ ops \in 0..MaxOps /\ keys \in [Thread -> SUBSET Backend]
    BY <1>0 DEF HealthTypeOK
  <1>b. "running" \in Status \ {"probing"}
    BY DEF Status
  <1>1. CASE WriteRouter(t)
    <2>1. Moves(t, on[t], found[t], "show") /\ keys' = keys
      BY <1>0, <1>1, MovesAre DEF WriteRouter
    <2>2. "show" \in OwnerLabels /\ on[t] \in Backend
      BY <1>0, <1>1 DEF WriteRouter, OwnerLabels
    <2>3. status' \in [Backend -> Status]
      BY <1>0, <1>1, <2>2, RouterTypes DEF WriteRouter
    <2> QED BY <1>0, <1>1, <1>a, <2>1, <2>2, <2>3, QuietMove DEF WriteRouter
  \* the thread leaves, and what it leaves behind is not a probe
  <1>2. ASSUME Leave(t), UNCHANGED <<enabled, status, failures, exhausted, ops>>,
               armed' \in SUBSET Backend,
               shown' \in [Backend -> [status : Status, probe : Thread \cup {NoThread}]],
               \A b \in Backend : shown'[b].status = "probing" =>
                   shown'[b] = shown[b] /\ (on[t] # b \/ pc[t] \notin OwnerLabels)
        PROVE  HealthInv'
    <2>1. Moves(t, NoBackend, "running", "idle") /\ keys' \in [Thread -> SUBSET Backend]
      BY <1>0, <1>2, MovesAre
    <2>2. HealthTypeOK'
      <3>1. "running" \in Status /\ NoBackend \in Backend \cup {NoBackend}
        BY <1>b
      <3> QED BY <1>0, <1>2, <1>a, <2>1, <3>1, MoveTypes DEF HealthTypeOK
    <2>3. Placed'
      BY <1>0, <2>1 DEF Placed, Moves, HealthInv, HealthTypeOK
    <2>4. ASSUME NEW b \in Backend, shown'[b].status = "probing"
          PROVE  /\ shown'[b].probe \in Thread /\ on'[shown'[b].probe] = b
                 /\ pc'[shown'[b].probe] \in OwnerLabels
      <3>1. /\ shown'[b] = shown[b]
            /\ shown[b].probe \in Thread /\ on[shown[b].probe] = b
            /\ pc[shown[b].probe] \in OwnerLabels
        BY <1>2, <2>4 DEF HealthInv, ProbeHasOwner, OwnerLabels
      <3>2. shown[b].probe # t
        BY <1>2, <2>4, <3>1
      <3> QED BY <1>0, <2>1, <3>1, <3>2 DEF Moves, HealthTypeOK
    <2>5. ProbeHasOwner'
      BY <2>4 DEF ProbeHasOwner, OwnerLabels
    <2> QED BY <2>2, <2>3, <2>5 DEF HealthInv
  <1>3. CASE WriteShown(t)
    <2>1. /\ on[t] \in Backend /\ Leave(t)
          /\ UNCHANGED <<enabled, status, failures, exhausted, ops>>
          /\ shown' = [shown EXCEPT ![on[t]] = [status |-> found[t], probe |-> NoThread]]
          /\ armed' \in {armed, armed \cup {on[t]}, armed \ {on[t]}}
      BY <1>0, <1>3 DEF WriteShown
    <2>2. shown' \in [Backend -> [status : Status, probe : Thread \cup {NoThread}]]
      BY <1>0, <2>1 DEF HealthTypeOK
    <2>3. \A b \in Backend : shown'[b].status = "probing" => shown'[b] = shown[b] /\ on[t] # b
      BY <1>0, <2>1 DEF HealthTypeOK
    <2>4. armed' \in SUBSET Backend
      BY <1>a, <2>1
    <2> QED BY <1>2, <2>1, <2>2, <2>3, <2>4
  <1>4. CASE ResetRouter(t)
    <2>1. /\ Moves(t, on[t], found[t], "resetshown") /\ pc[t] \notin OwnerLabels
          /\ keys' = [keys EXCEPT ![t] = {b \in Backend : enabled[b]}]
          /\ UNCHANGED <<enabled, exhausted, shown, armed, ops>>
      BY <1>0, <1>4 DEF ResetRouter, Moves, HealthTypeOK, OwnerLabels, ProbeLabels
    <2>2. keys' \in [Thread -> SUBSET Backend]
      BY <1>a, <2>1
    <2>3. status' \in [Backend -> Status] /\ failures' \in [Backend -> Nat]
      BY <1>4, <1>a, <1>b DEF ResetRouter, ResetRuntime
    <2> QED BY <1>0, <1>a, <2>1, <2>2, <2>3, QuietMove
  <1>5. CASE ResetShown(t)
    <2>1. /\ Leave(t) /\ pc[t] \notin OwnerLabels
          /\ UNCHANGED <<enabled, status, failures, exhausted, armed, ops>>
          /\ shown' = [b \in Backend |->
                 IF b \in keys[t] THEN [status |-> "running", probe |-> NoThread] ELSE shown[b]]
      BY <1>5 DEF ResetShown, OwnerLabels, ProbeLabels
    <2>2. shown' \in [Backend -> [status : Status, probe : Thread \cup {NoThread}]]
      BY <1>0, <1>b, <2>1 DEF HealthTypeOK
    <2>3. \A b \in Backend : shown'[b].status = "probing" => shown'[b] = shown[b]
      BY <1>0, <2>1 DEF HealthTypeOK
    <2> QED BY <1>2, <1>a, <2>1, <2>2, <2>3
  <1> QED BY <1>1, <1>3, <1>4, <1>5

\* The other steps of a thread that has begun something
LEMMA WorkKeeps ==
    ASSUME HealthInv, NEW t \in Thread,
           \/ RecordExpired(t) \/ ProbeEnabled(t) \/ CallSucceeds(t) \/ CallFails(t)
           \/ CallRefused(t) \/ CallMarksStatus(t)
    PROVE  HealthInv'
  <1> USE DEF backendVars
  <1>0. /\ HealthTypeOK /\ found[t] \in Status \ {"probing"} /\ on[t] \in Backend
        /\ pc[t] \notin OwnerLabels
    BY DEF HealthInv, HealthTypeOK, Placed, RecordExpired, ProbeEnabled, CallSucceeds,
           CallFails, CallRefused, CallMarksStatus, OwnerLabels, ProbeLabels
  <1>a. /\ enabled \in [Backend -> BOOLEAN] /\ status \in [Backend -> Status]
        /\ failures \in [Backend -> Nat] /\ exhausted \in SUBSET Account
        /\ armed \in SUBSET Backend /\ ops \in 0..MaxOps /\ keys \in [Thread -> SUBSET Backend]
    BY <1>0 DEF HealthTypeOK
  <1>b. {"running", "exhausted", "unreachable"} \subseteq Status \ {"probing"}
    BY DEF Status
  <1>c. /\ enabled' = enabled /\ shown' = shown /\ armed' = armed /\ ops' = ops
        /\ status' \in [Backend -> Status] /\ failures' \in [Backend -> Nat]
        /\ exhausted' \in SUBSET Account
    <2>1. CASE RecordExpired(t)
      BY <1>0, <1>a, <2>1, RouterTypes DEF RecordExpired
    <2>2. CASE ProbeEnabled(t)
      BY <1>a, <2>2 DEF ProbeEnabled
    <2>3. CASE CallSucceeds(t)
      BY <1>0, <1>a, <2>3, RouterTypes DEF CallSucceeds
    <2>4. CASE CallFails(t)
      BY <1>0, <1>a, <2>4, RouterTypes DEF CallFails
    <2>5. CASE CallRefused(t)
      BY <1>0, <1>a, <2>5, RouterTypes DEF CallRefused
    <2>6. CASE CallMarksStatus(t)
      BY <1>0, <1>a, <1>b, <2>6, RouterTypes DEF CallMarksStatus
    <2> QED BY <2>1, <2>2, <2>3, <2>4, <2>5, <2>6
  <1>1. \/ \E s \in {"running", "unreachable"} : Conclude(t, s, "write")
        \/ \E label \in {"begin", "marked"} : GoTo(t, label)
        \/ Leave(t)
    BY DEF RecordExpired, ProbeEnabled, CallSucceeds, CallFails, CallRefused, CallMarksStatus
  <1>2. ASSUME NEW s \in {"running", "unreachable"}, Conclude(t, s, "write") PROVE HealthInv'
    <2>1. Moves(t, on[t], s, "write") /\ keys' = keys /\ s \in Status \ {"probing"}
      BY <1>0, <1>2, <1>b, MovesAre
    <2> QED BY <1>0, <1>a, <1>c, <2>1, QuietMove
  <1>3. ASSUME NEW label \in {"begin", "marked"}, GoTo(t, label) PROVE HealthInv'
    <2>1. Moves(t, on[t], found[t], label) /\ keys' = keys
      BY <1>0, <1>3, MovesAre
    <2> QED BY <1>0, <1>a, <1>c, <2>1, QuietMove
  <1>4. CASE Leave(t)
    <2>1. Moves(t, NoBackend, "running", "idle") /\ keys' \in [Thread -> SUBSET Backend]
      BY <1>0, <1>4, MovesAre
    <2> QED BY <1>0, <1>a, <1>b, <1>c, <2>1, QuietMove
  <1> QED BY <1>1, <1>2, <1>3, <1>4

\* What a free thread begins: the readers, the operators, the start-up probe,
\* the jobs and the timers
LEMMA BeginKeeps ==
    ASSUME HealthInv, NEW t \in Thread, NEW b \in Backend,
           BeginOn(t, b) \/ TimerFires(t, b)
    PROVE  HealthInv'
  <1> USE DEF backendVars
  <1>0. HealthTypeOK /\ found[t] \in Status \ {"probing"}
    BY DEF HealthInv, HealthTypeOK, Placed
  <1>a. /\ enabled \in [Backend -> BOOLEAN] /\ status \in [Backend -> Status]
        /\ failures \in [Backend -> Nat] /\ exhausted \in SUBSET Account
        /\ armed \in SUBSET Backend /\ ops \in 0..MaxOps /\ keys \in [Thread -> SUBSET Backend]
    BY <1>0 DEF HealthTypeOK
  <1>b. {"running", "exhausted", "disabled"} \subseteq Status \ {"probing"}
    BY DEF Status
  <1>c. NewRequest => ops' \in 0..MaxOps
    BY <1>a, HealthAssumption DEF NewRequest
  <1>1. ASSUME NEW label \in {"expired", "begin", "enabled", "call"},
               Begin(t, b, label), shown' = shown,
               enabled' \in [Backend -> BOOLEAN], status' \in [Backend -> Status],
               failures' \in [Backend -> Nat], exhausted' \in SUBSET Account,
               armed' \in SUBSET Backend, ops' \in 0..MaxOps
        PROVE  HealthInv'
    <2>1. Moves(t, b, found[t], label) /\ keys' = keys /\ pc[t] \notin OwnerLabels
      BY <1>0, <1>1, MovesAre DEF OwnerLabels, ProbeLabels
    <2> QED BY <1>0, <1>1, <1>a, <2>1, QuietMove
  <1>2. ASSUME NEW s \in {"running", "exhausted", "disabled"}, BeginWrite(t, b, s),
               shown' = shown,
               enabled' \in [Backend -> BOOLEAN], status' \in [Backend -> Status],
               failures' \in [Backend -> Nat], exhausted' \in SUBSET Account,
               armed' \in SUBSET Backend, ops' \in 0..MaxOps
        PROVE  HealthInv'
    <2>1. Moves(t, b, s, "write") /\ keys' = keys /\ pc[t] \notin OwnerLabels
      BY <1>0, <1>2, MovesAre DEF OwnerLabels, ProbeLabels
    <2>2. s \in Status \ {"probing"}
      BY <1>b
    <2> QED BY <1>0, <1>2, <1>a, <2>1, <2>2, QuietMove
  <1>3. CASE ReadExpired(t, b)
    BY <1>1, <1>3, <1>a, <1>c DEF ReadExpired
  <1>4. CASE ReadRecovered(t, b)
    <2>1. status' \in [Backend -> Status]
      BY <1>0, <1>4, RouterTypes DEF ReadRecovered
    <2> QED BY <1>2, <1>4, <1>a, <1>c, <2>1 DEF ReadRecovered
  <1>5. CASE ProbeNow(t, b)
    BY <1>1, <1>5, <1>a, <1>c DEF ProbeNow
  <1>6. CASE Disable(t, b)
    <2>1. enabled' \in [Backend -> BOOLEAN] /\ failures' \in [Backend -> Nat]
      BY <1>0, <1>6, RouterTypes DEF Disable
    <2> QED BY <1>2, <1>6, <1>a, <1>c, <2>1 DEF Disable
  <1>7. CASE Enable(t, b)
    <2>1. enabled' \in [Backend -> BOOLEAN] /\ failures' \in [Backend -> Nat]
      BY <1>0, <1>7, RouterTypes DEF Enable
    <2> QED BY <1>1, <1>7, <1>a, <1>c, <2>1 DEF Enable
  <1>8. CASE PassVisits(t, b)
    <2>1. /\ UNCHANGED <<enabled, status, failures, shown, armed>>
          /\ ops' \in 0..MaxOps /\ exhausted' \in SUBSET Account
      BY <1>0, <1>8, <1>a, <1>c, RouterTypes DEF PassVisits
    <2>2. \/ \E s \in {"disabled", "exhausted"} : BeginWrite(t, b, s)
          \/ Begin(t, b, "begin")
      BY <1>8 DEF PassVisits
    <2> QED BY <1>1, <1>2, <1>a, <2>1, <2>2
  <1>9. CASE StartCall(t, b)
    <2>1. status' \in [Backend -> Status]
      BY <1>0, <1>9, RouterTypes DEF StartCall
    <2> QED BY <1>1, <1>9, <1>a, <1>c, <2>1 DEF StartCall
  <1>10. CASE TimerFires(t, b)
    <2>1. armed' \in SUBSET Backend /\ UNCHANGED <<enabled, status, failures, exhausted, shown, ops>>
      BY <1>10, <1>a DEF TimerFires
    <2>2. CASE Begin(t, b, "enabled")
      BY <1>1, <1>a, <2>1, <2>2
    <2>3. CASE UNCHANGED threadVars
      BY <1>0, <1>a, <2>1, <2>3 DEF threadVars, HealthInv, HealthTypeOK, Placed, ProbeHasOwner
    <2> QED BY <1>10, <2>2, <2>3 DEF TimerFires
  <1> QED BY <1>3, <1>4, <1>5, <1>6, <1>7, <1>8, <1>9, <1>10 DEF BeginOn

LEMMA ResetKeeps ==
    ASSUME HealthInv, NEW t \in Thread, Reset(t)
    PROVE  HealthInv'
  <1>1. HealthTypeOK /\ found[t] \in Status \ {"probing"}
    BY DEF HealthInv, HealthTypeOK, Placed
  <1>2. /\ Moves(t, NoBackend, found[t], "reset") /\ keys' = keys
        /\ pc[t] \notin OwnerLabels
    BY <1>1, MovesAre DEF Reset, OwnerLabels, ProbeLabels
  <1>3. /\ enabled \in [Backend -> BOOLEAN] /\ status \in [Backend -> Status]
        /\ failures \in [Backend -> Nat] /\ exhausted' \in SUBSET Account
        /\ armed \in SUBSET Backend /\ ops' \in 0..MaxOps
        /\ keys \in [Thread -> SUBSET Backend]
        /\ UNCHANGED <<enabled, status, failures, shown, armed>>
    BY <1>1, HealthAssumption DEF HealthTypeOK, Reset, NewRequest
  <1> QED BY <1>1, <1>2, <1>3, QuietMove

LEMMA HealthStep == HealthInv /\ [Next]_vars => HealthInv'
  <1> SUFFICES ASSUME HealthInv, [Next]_vars PROVE HealthInv'
    OBVIOUS
  <1>1. ASSUME NEW t \in Thread, Continue(t) PROVE HealthInv'
    BY <1>1, ProbeKeeps, WriteKeeps, WorkKeeps DEF Continue
  <1>2. ASSUME NEW t \in Thread, Reset(t) PROVE HealthInv'
    BY <1>2, ResetKeeps
  <1>3. ASSUME NEW t \in Thread, NEW b \in Backend, BeginOn(t, b) \/ TimerFires(t, b)
        PROVE  HealthInv'
    BY <1>3, BeginKeeps
  <1>4. ASSUME NEW b \in Backend, ArmTimer(b) PROVE HealthInv'
    BY <1>4 DEF ArmTimer, backendVars, threadVars, HealthInv, HealthTypeOK, Placed, ProbeHasOwner
  <1>5. CASE UNCHANGED vars
    BY <1>5 DEF vars, backendVars, threadVars, HealthInv, HealthTypeOK, Placed, ProbeHasOwner
  <1> QED BY <1>1, <1>2, <1>3, <1>4, <1>5 DEF Next

\* The tables, the timers and the threads keep their types.
THEOREM HealthTypes == Spec => []HealthTypeOK
  <1>1. HealthInv => HealthTypeOK  BY DEF HealthInv
  <1> QED BY <1>1, HealthInit, HealthStep, PTL DEF Spec

\* A backend that shows as probing has a thread that carries this very probe
\* and will end it, whatever probes, resets, time-outs and switches do to the
\* two tables in between.
THEOREM ProbesHaveOwners == Spec => []ProbeHasOwner
  <1>1. HealthInv => ProbeHasOwner  BY DEF HealthInv
  <1> QED BY <1>1, HealthInit, HealthStep, PTL DEF Spec
=============================================================================
