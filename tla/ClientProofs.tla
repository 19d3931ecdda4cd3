---------------------------- MODULE ClientProofs ----------------------------
(***************************************************************************)
(* What holds of the client library for any number of callers and jobs and *)
(* any schedule of delays: the types, that one call keeps one job at a     *)
(* time at work, that a caller is given the job of another only when the   *)
(* names of both agree where the library looks, and that no result that    *)
(* has shown for longer than a delay of the poll is given up.              *)
(***************************************************************************)
EXTENDS Client, TLAPS

Here == {j \in Job : ledger[j] \notin {"absent", Gone}}

\* A call of a caller that does not name its request, made once.
Lone(c) == c \notin explicit /\ tries[c] <= 1

\* No job is running for such a call when the next submission can still be
\* made or arrive, and only the job that is polled is while it is polled.
LoneInv ==
    \A c \in Caller : Lone(c) =>
        /\ tries[c] = 0 => pc[c] \in {"idle", "back"} /\ ~sent[c] /\ AtWorkFor(c) = {}
        /\ pc[c] \in {"idle", "loop", "busywait"} => ~sent[c] /\ AtWorkFor(c) = {}
        /\ sent[c] => AtWorkFor(c) = {}
        /\ pc[c] \in {"polling", "pollwait"} => ~sent[c] /\ AtWorkFor(c) \subseteq {job[c]}
        /\ \A i, j \in AtWorkFor(c) : i = j

\* The table has one job for each name, and the jobs of a caller who names
\* its request bear that name.
NamedInv ==
    /\ \A i, j \in Here : named[i] = named[j] /\ named[i] # NoId => i = j
    /\ \A j \in Here : author[j] \in explicit => named[j] = ShortId[author[j]]

Inv == TypeOK /\ LoneInv /\ NamedInv

USE DEF Gone

LEMMA DelayType == ASSUME ClientAssumption, NEW e, NEW h \in Nat
                   PROVE  Delay(e) \in Nat /\ BusyDelay(e, h) \in Nat
  BY DEF ClientAssumption, Delay, BusyDelay

LEMMA InitInv == ASSUME ClientAssumption, Init PROVE Inv
  <1>1. TypeOK
    BY DEF ClientAssumption, Init, TypeOK, Server!Init, LongAgo, Outcome
  <1>2. LoneInv /\ NamedInv
    BY DEF Init, LoneInv, NamedInv, Server!Init, Here, AtWorkFor
  <1> QED BY <1>1, <1>2 DEF Inv

\* Who names a request does not change.
LEMMA SameNamers == [Next]_vars => explicit' = explicit
  BY DEF Next, vars, client

LEMMA TypeStep == ASSUME ClientAssumption, TypeOK, [Next]_vars PROVE TypeOK'
  <1>0. explicit' = explicit  BY SameNamers
  <1> USE <1>0 DEF TypeOK, Outcome
  <1>1. ASSUME NEW c \in Caller, Call(c) PROVE TypeOK'
    BY <1>1 DEF Call, MayCall, server
  <1>2. ASSUME NEW c \in Caller, Accept(c) PROVE TypeOK'
    <2>1. ASSUME NEW j \in Job, Hear(c, j)
          PROVE  /\ pc' \in [Caller -> {"idle", "loop", "posting", "polling", "pollwait",
                                        "busywait", "back"}]
                 /\ job' \in [Caller -> Job \cup {NoJob}]
                 /\ since' \in [Caller -> Nat]
                 /\ late' \in [Caller -> 0..LongAgo]
      <3>1. 0 \in 0..LongAgo  BY DEF LongAgo, ClientAssumption
      <3>2. CASE UNCHANGED <<pc, job, since, late>>  BY <3>2
      <3>3. CASE late' = [late EXCEPT ![c] = 0]  BY <2>1, <3>1, <3>3 DEF Hear
      <3> QED BY <2>1, <3>2, <3>3 DEF Hear
    <2>2. sent' \in [Caller -> BOOLEAN] /\ UNCHANGED <<answer, total, wait, tries, restarts>>
      BY <1>2 DEF Accept
    <2>3. CASE /\ \E j \in Named(ShortId[c]) : Hear(c, j)
               /\ UNCHANGED <<ledger, reopened, named, author>>
      BY <2>1, <2>2, <2>3 DEF Named
    <2>4. ASSUME NEW j \in Fresh, Server!Open(j), Hear(c, j),
                 named' = [named EXCEPT ![j] = IF c \in explicit THEN ShortId[c] ELSE NoId],
                 author' = [author EXCEPT ![j] = c]
          PROVE  TypeOK'
      BY <2>1, <2>2, <2>4 DEF Fresh, Server!Open, ClientAssumption
    <2> QED BY <1>2, <2>3, <2>4 DEF Accept
  <1>3. ASSUME NEW c \in Caller, Drop(c) PROVE TypeOK'
    BY <1>3 DEF Drop, client, server
  <1>4. ASSUME NEW c \in Caller,
               NEW a \in {"told", "error", "timeout"}, Return(c, a),
               sent' = sent \/ sent' = [sent EXCEPT ![c] = FALSE],
               UNCHANGED <<wait, job, tries>>, UNCHANGED server
        PROVE TypeOK'
    <2>1. answer' \in [Caller -> {"none", "told", "error", "timeout"}]
      BY <1>4 DEF Return
    <2>2. late' \in [Caller -> 0..LongAgo]
      BY <1>4 DEF Return, LongAgo, ClientAssumption
    <2>3. sent' \in [Caller -> BOOLEAN]  BY <1>4
    <2> QED BY <1>4, <2>1, <2>2, <2>3 DEF Return, server
  <1>11. ASSUME NEW c \in Caller, NoJobId(c) \/ GiveUpBusy(c) \/ PostFails(c) \/ GiveUpPoll(c)
                                  \/ PollDone(c) \/ Refuse(c) \/ Replay(c)
        PROVE TypeOK'
    <2>1. CASE NoJobId(c)  BY <1>4, <2>1 DEF NoJobId
    <2>2. CASE GiveUpBusy(c)  BY <1>4, <2>2 DEF GiveUpBusy
    <2>3. CASE PostFails(c)  BY <1>4, <2>3 DEF PostFails
    <2>4. CASE GiveUpPoll(c)  BY <1>4, <2>4 DEF GiveUpPoll
    <2>5. CASE PollDone(c)  BY <1>4, <2>5 DEF PollDone
    <2>6. CASE Refuse(c) \/ Replay(c)  BY <1>4, <2>6 DEF Refuse, Replay
    <2> QED BY <1>11, <2>1, <2>2, <2>3, <2>4, <2>5, <2>6
  <1>12. ASSUME NEW c \in Caller, Post(c) \/ Wake(c) PROVE TypeOK'
    <2>1. CASE Post(c)  BY <2>1 DEF Post, server
    <2>2. CASE Wake(c)  BY <2>2 DEF Wake, server
    <2> QED BY <1>12, <2>1, <2>2
  <1>5. ASSUME NEW c \in Caller, PollFails(c) \/ PollPending(c) PROVE TypeOK'
    <2>1. Delay(since[c]) \in Nat  BY DelayType
    <2>2. 0 \in 0..LongAgo  BY DEF LongAgo, ClientAssumption
    <2>3. /\ pc' = [pc EXCEPT ![c] = "pollwait"]
          /\ wait' = [wait EXCEPT ![c] = Delay(since[c])]
          /\ late' = [late EXCEPT ![c] = 0]
          /\ UNCHANGED <<answer, total, since, job, tries, sent>>
          /\ UNCHANGED server
      BY <1>5 DEF PollFails, PollPending, Sleep
    <2> HIDE DEF LongAgo
    <2> QED BY <2>1, <2>2, <2>3 DEF server
  <1>6. ASSUME NEW c \in Caller, PollBusy(c) PROVE TypeOK'
    <2>1. PICK h \in RetryAfter : Sleep(c, "busywait", BusyDelay(total[c], h))
      BY <1>6 DEF PollBusy
    <2>2. BusyDelay(total[c], h) \in Nat  BY DelayType DEF ClientAssumption
    <2> QED BY <1>6, <2>1, <2>2 DEF PollBusy, Sleep, server, LongAgo, ClientAssumption
  <1>7. ASSUME NEW j \in Job, Finish(j) \/ ShowAgain(j) PROVE TypeOK'
    <2>1. CASE Finish(j)  BY <2>1 DEF Finish, Server!Close, client
    <2>2. CASE ShowAgain(j)
      BY <2>2 DEF ShowAgain, Server!Reopen, Server!CloseAgain, client
    <2> QED BY <1>7, <2>1, <2>2
  <1>8. ASSUME Restart PROVE TypeOK'
    BY <1>8 DEF Restart, client, ClientAssumption
  <1>9. ASSUME Tick PROVE TypeOK'
    BY <1>9 DEF Tick, server, Waiting, LongAgo, ClientAssumption
  <1>10. ASSUME UNCHANGED vars PROVE TypeOK'
    BY <1>10 DEF vars, client, server
  <1> QED BY <1>1, <1>2, <1>3, <1>4, <1>5, <1>6, <1>7, <1>8, <1>9, <1>10,
             <1>11, <1>12
          DEF Next, ClientStep

\* A step that leaves the jobs alone, and so who is running
LEMMA QuietStep ==
    ASSUME NamedInv, UNCHANGED <<explicit, ledger, named, author>>
    PROVE  NamedInv' /\ \A c \in Caller : AtWorkFor(c)' = AtWorkFor(c)
  BY DEF NamedInv, Here, AtWorkFor

\* What a step has to do to LoneInv, caller by caller
LEMMA NewJob ==
    ASSUME ClientAssumption, Inv, explicit' = explicit,
           NEW c \in Caller, Accept(c), NEW j \in Job, Server!Open(j),
           named' = [named EXCEPT ![j] = IF c \in explicit THEN ShortId[c] ELSE NoId],
           author' = [author EXCEPT ![j] = c],
           c \in explicit => Named(ShortId[c]) = {}
    PROVE  LoneInv' /\ NamedInv'
  <1>1. ledger[j] = "absent" /\ ledger' = [ledger EXCEPT ![j] = "open"]
    BY DEF Server!Open
  <1>2. AtWorkFor(c)' \subseteq AtWorkFor(c) \cup {j}
    BY <1>1 DEF AtWorkFor, Inv, TypeOK
  <1>3. \A b \in Caller \ {c} : AtWorkFor(b)' = AtWorkFor(b)
    BY <1>1 DEF AtWorkFor, Inv, TypeOK
  <1>4. LoneInv'
    <2> SUFFICES ASSUME NEW b \in Caller, Lone(b)'
                 PROVE  /\ tries'[b] = 0 => pc'[b] \in {"idle", "back"} /\ ~sent'[b] /\ AtWorkFor(b)' = {}
                        /\ pc'[b] \in {"idle", "loop", "busywait"} => ~sent'[b] /\ AtWorkFor(b)' = {}
                        /\ sent'[b] => AtWorkFor(b)' = {}
                        /\ pc'[b] \in {"polling", "pollwait"}
                           => ~sent'[b] /\ AtWorkFor(b)' \subseteq {job'[b]}
                        /\ \A i, k \in AtWorkFor(b)' : i = k
      BY DEF LoneInv
    <2>1. Lone(b)  BY DEF Lone, Accept
    <2>2. CASE b # c
      <3>1. sent'[b] = sent[b] /\ tries' = tries
        BY <2>2 DEF Accept, Inv, TypeOK
      <3>2. PICK i : Hear(c, i)
        BY DEF Accept
      <3>3. pc'[b] = pc[b] /\ job'[b] = job[b]
        BY <2>2, <3>2 DEF Hear, Inv, TypeOK
      <3> QED BY <1>3, <2>1, <2>2, <3>1, <3>3 DEF Inv, LoneInv
    <2>3. CASE b = c
      <3>1. sent[c] /\ AtWorkFor(c) = {} /\ tries[c] # 0 /\ tries' = tries
            /\ pc[c] \notin {"idle", "loop", "busywait", "polling", "pollwait"}
        BY <2>1, <2>3 DEF Inv, LoneInv, Accept
      <3>2. ~sent'[c]  BY DEF Accept, Inv, TypeOK
      <3>3. Hear(c, j)
        <4>1. c \notin explicit /\ author'[j] = c /\ ledger'[j] # ledger[j]
          BY <1>1, <2>1, <2>3 DEF Lone, Inv, TypeOK
        <4>2. PICK k \in Fresh : Server!Open(k) /\ Hear(c, k)
          BY <4>1 DEF Accept
        <4>3. k = j
          BY <1>1, <4>1, <4>2 DEF Server!Open, Fresh, Inv, TypeOK
        <4> QED BY <4>2, <4>3
      <3> QED BY <1>2, <2>3, <3>1, <3>2, <3>3 DEF Hear, Inv, TypeOK
    <2> QED BY <2>2, <2>3
  <1>5. NamedInv'
    <2>1. Here' = Here \cup {j}  BY <1>1 DEF Here, Inv, TypeOK
    <2>2. \A i \in Here : i # j  BY <1>1 DEF Here
    <2>3. \A i \in Here : named'[i] = named[i] /\ author'[i] = author[i]
      BY <2>2 DEF Inv, TypeOK, Here
    <2>4. named'[j] = (IF c \in explicit THEN ShortId[c] ELSE NoId) /\ author'[j] = c
      BY DEF Inv, TypeOK
    <2>5. \A i \in Here : c \in explicit => named[i] # ShortId[c]
      BY DEF Named, Here
    <2> QED BY <2>1, <2>3, <2>4, <2>5 DEF NamedInv, Inv
  <1> QED BY <1>4, <1>5

\* Steps that leave the jobs alone
LEMMA SameJobs ==
    ASSUME ClientAssumption, Inv, [Next]_vars, UNCHANGED <<ledger, reopened, named, author>>
    PROVE  LoneInv'
  <1>0. explicit' = explicit  BY SameNamers
  <1>1. \A c \in Caller : AtWorkFor(c)' = AtWorkFor(c)  BY <1>0, QuietStep DEF Inv
  <1> SUFFICES ASSUME NEW b \in Caller, Lone(b)'
               PROVE  /\ tries'[b] = 0 => pc'[b] \in {"idle", "back"} /\ ~sent'[b] /\ AtWorkFor(b) = {}
                      /\ pc'[b] \in {"idle", "loop", "busywait"} => ~sent'[b] /\ AtWorkFor(b) = {}
                      /\ sent'[b] => AtWorkFor(b) = {}
                      /\ pc'[b] \in {"polling", "pollwait"}
                         => ~sent'[b] /\ AtWorkFor(b) \subseteq {job'[b]}
                      /\ \A i, k \in AtWorkFor(b) : i = k
    BY <1>1 DEF LoneInv
  <1> USE <1>0 DEF Inv, LoneInv
  <1>2. CASE Lone(b) /\ UNCHANGED <<pc[b], sent[b], tries[b], job[b]>>
    BY <1>2
  <1>3. ASSUME NEW c \in Caller, c # b,
               \/ Refuse(c) \/ Replay(c) \/ Call(c) \/ Accept(c) \/ Drop(c) \/ NoJobId(c)
               \/ ClientStep(c)
        PROVE  UNCHANGED <<pc[b], sent[b], tries[b], job[b]>>
    <2> USE <1>3 DEF TypeOK, Return, Sleep
    <2>1. CASE Refuse(c) \/ Replay(c) \/ Call(c) \/ Accept(c) \/ Drop(c) \/ NoJobId(c)
      BY <2>1 DEF Refuse, Replay, Call, Accept, Hear, Drop, NoJobId, client
    <2>2. CASE ClientStep(c)
      BY <2>2 DEF ClientStep, GiveUpBusy, Post, PostFails, GiveUpPoll, PollFails, PollPending,
                  PollBusy, PollDone, Wake
    <2> QED BY <1>3, <2>1, <2>2
  <1>4. CASE Refuse(b) \/ Replay(b)
    BY <1>4 DEF Refuse, Replay, Return, TypeOK, Lone
  <1>5. CASE Call(b)
    <2>1. tries[b] = 0 /\ ~sent[b] /\ AtWorkFor(b) = {}
      BY <1>5 DEF Call, MayCall, TypeOK, Lone
    <2> QED BY <1>5, <2>1 DEF Call, TypeOK
  <1>6. CASE Drop(b) \/ NoJobId(b) \/ PostFails(b) \/ GiveUpBusy(b) \/ GiveUpPoll(b) \/ PollDone(b)
    BY <1>6 DEF Drop, NoJobId, PostFails, GiveUpBusy, GiveUpPoll, PollDone, Return, TypeOK, Lone,
                client
  <1>7. CASE Post(b) \/ Wake(b)
    <2>1. CASE Post(b)
      <3>1. pc[b] = "loop" /\ pc'[b] = "posting" /\ tries' = tries
        BY <2>1 DEF Post, TypeOK
      <3> QED BY <3>1 DEF Lone
    <2>2. CASE Wake(b)
      <3>1. /\ UNCHANGED <<sent, tries, job>>
            /\ \/ pc[b] = "pollwait" /\ pc'[b] = "polling"
               \/ pc[b] = "busywait" /\ pc'[b] = "loop"
        BY <2>2 DEF Wake, TypeOK
      <3> QED BY <3>1 DEF Lone
    <2> QED BY <1>7, <2>1, <2>2
  <1>8. CASE PollFails(b) \/ PollPending(b)
    <2>1. pc[b] = "polling" /\ pc'[b] = "pollwait" /\ UNCHANGED <<sent, tries, job>>
      BY <1>8 DEF PollFails, PollPending, Sleep, TypeOK
    <2>2. Lone(b)  BY <2>1 DEF Lone
    <2> QED BY <2>1, <2>2
  <1>9. CASE PollBusy(b)
    <2>1. AtWorkFor(b) = {}  BY <1>9 DEF PollBusy, AtWorkFor, Lone
    <2> QED BY <1>9, <2>1 DEF PollBusy, Sleep, TypeOK, Lone
  <1>10. CASE Accept(b)
    BY <1>10 DEF Accept, Fresh, Server!Open, Lone, TypeOK
  <1>11. CASE Tick \/ UNCHANGED vars \/ (\E j \in Job : Finish(j) \/ ShowAgain(j)) \/ Restart
    <2>1. UNCHANGED <<pc, sent, tries, job>>
      BY <1>11 DEF Tick, vars, Finish, ShowAgain, Restart, client, server
    <2>2. Lone(b)  BY <2>1 DEF Lone
    <2> QED BY <1>2, <2>1, <2>2
  <1>12. ASSUME NEW c \in Caller, c # b,
               \/ Refuse(c) \/ Replay(c) \/ Call(c) \/ Accept(c) \/ Drop(c) \/ NoJobId(c)
               \/ ClientStep(c)
        PROVE  Lone(b)
    BY <1>3, <1>12 DEF Lone
  <1> QED BY <1>2, <1>3, <1>4, <1>5, <1>6, <1>7, <1>8, <1>9, <1>10, <1>11, <1>12
          DEF Next, ClientStep

LEMMA InvStep == ASSUME ClientAssumption, Inv, [Next]_vars PROVE Inv'
  <1>0. explicit' = explicit  BY SameNamers
  <1> USE <1>0
  <1>1. TypeOK'  BY TypeStep DEF Inv
  <1>2. CASE UNCHANGED <<ledger, reopened, named, author>>
    BY <1>1, <1>2, SameJobs, QuietStep DEF Inv
  <1>3. ASSUME NEW c \in Caller, Accept(c), ~UNCHANGED <<ledger, reopened, named, author>>
        PROVE  LoneInv' /\ NamedInv'
    <2>1. PICK j \in Fresh :
             /\ Server!Open(j)
             /\ named' = [named EXCEPT ![j] = IF c \in explicit THEN ShortId[c] ELSE NoId]
             /\ author' = [author EXCEPT ![j] = c]
             /\ c \in explicit => Named(ShortId[c]) = {}
      BY <1>3 DEF Accept
    <2> QED BY <1>3, <2>1, NewJob DEF Fresh
  <1>4. ASSUME NEW j \in Job, Finish(j) \/ ShowAgain(j) \/ Restart PROVE LoneInv' /\ NamedInv'
    <2>1. UNCHANGED <<pc, sent, tries, job, named, author>>
      BY <1>4 DEF Finish, ShowAgain, Restart, client
    <2>2. \A i \in Job : ledger'[i] \in {"open", "cancelled"} =>
                            ledger[i] \in {"open", "cancelled"}
      BY <1>4 DEF Finish, ShowAgain, Server!Close, Server!Reopen, Server!CloseAgain,
                  Restart, Inv, TypeOK, Outcome
    <2>3. Here' \subseteq Here
      BY <1>4 DEF Finish, ShowAgain, Server!Close, Server!Reopen, Server!CloseAgain,
                  Restart, Here, Inv, TypeOK
    <2>4. \A c \in Caller : AtWorkFor(c)' \subseteq AtWorkFor(c)
      BY <2>1, <2>2 DEF AtWorkFor
    <2>5. LoneInv'  BY <2>1, <2>4 DEF LoneInv, Lone, Inv
    <2> QED BY <2>1, <2>3, <2>5 DEF NamedInv, Inv
  <1>5. ASSUME NEW c \in Caller,
               \/ Refuse(c) \/ Replay(c) \/ Call(c) \/ Drop(c) \/ NoJobId(c) \/ ClientStep(c)
        PROVE  UNCHANGED <<ledger, reopened, named, author>>
    BY <1>5 DEF Refuse, Replay, Call, Drop, NoJobId, ClientStep, GiveUpBusy, Post, PostFails,
                GiveUpPoll, PollFails, PollPending, PollBusy, PollDone, Wake, server
  <1>6. CASE Tick \/ UNCHANGED vars
    BY <1>2, <1>6 DEF Tick, server, vars
  <1>7. ASSUME Restart PROVE LoneInv' /\ NamedInv'
    <2>1. PICK j \in Job : TRUE  BY <1>7 DEF Restart
    <2> QED BY <1>4, <1>7, <2>1
  <1> QED BY <1>1, <1>2, <1>3, <1>4, <1>5, <1>6, <1>7 DEF Inv, Next

\* The inductive invariant holds throughout.
THEOREM Invariance == Spec => []Inv
  <1>1. Init => Inv  BY InitInv, ClientAssumption
  <1>2. Inv /\ [Next]_vars => Inv'  BY InvStep, ClientAssumption
  <1> QED BY <1>1, <1>2, PTL DEF Spec

\* The types of the client and the server's table. (TypeOK)
THEOREM TypeCorrect == Spec => []TypeOK
  <1>1. Inv => TypeOK  BY DEF Inv
  <1> QED BY <1>1, Invariance, PTL

\* A call keeps one job at a time at work, whatever is lost or late on the way.
THEOREM OneJob == Spec => []OneJobAtATime
  <1>1. Inv => OneJobAtATime
    <2> SUFFICES ASSUME Inv, NEW c \in Caller, c \in explicit \/ tries[c] <= 1,
                        NEW i \in AtWorkFor(c), NEW j \in AtWorkFor(c)
                 PROVE  i = j
      BY DEF OneJobAtATime
    <2>1. CASE c \in explicit
      <3>1. i \in Here /\ j \in Here /\ author[i] = c /\ author[j] = c
        BY DEF AtWorkFor, Here
      <3>2. named[i] = ShortId[c] /\ named[j] = ShortId[c] /\ ShortId[c] # NoId
        BY <2>1, <3>1, ClientAssumption DEF Inv, NamedInv, ClientAssumption
      <3> QED BY <3>1, <3>2 DEF Inv, NamedInv
    <2>2. CASE c \notin explicit
      BY <2>2 DEF Inv, LoneInv, Lone
    <2> QED BY <2>1, <2>2
  <1> QED BY <1>1, Invariance, PTL

-----------------------------------------------------------------------------
\* A step of one caller leaves the call of another alone.
CallOf(b) == <<pc[b], wait[b], job[b], late[b]>>

CallerStep(c) ==
    \/ Refuse(c) \/ Replay(c) \/ Call(c) \/ Accept(c) \/ Drop(c) \/ NoJobId(c)
    \/ ClientStep(c)

LEMMA OtherCaller ==
    ASSUME TypeOK, NEW b \in Caller, NEW c \in Caller, b # c, CallerStep(c)
    PROVE  UNCHANGED CallOf(b)
  <1> USE DEF TypeOK, Return, Sleep, CallOf
  <1>1. CASE Refuse(c) \/ Replay(c) \/ Call(c)
    BY <1>1 DEF Refuse, Replay, Call
  <1>2. CASE Accept(c)
    BY <1>2 DEF Accept, Hear
  <1>3. CASE Drop(c) \/ NoJobId(c)
    BY <1>3 DEF Drop, NoJobId, client
  <1>4. CASE GiveUpBusy(c) \/ Post(c) \/ PostFails(c) \/ GiveUpPoll(c) \/ PollDone(c)
    BY <1>4 DEF GiveUpBusy, Post, PostFails, GiveUpPoll, PollDone
  <1>5. CASE PollFails(c) \/ PollPending(c) \/ PollBusy(c) \/ Wake(c)
    BY <1>5 DEF PollFails, PollPending, PollBusy, Wake
  <1> QED BY <1>1, <1>2, <1>3, <1>4, <1>5 DEF CallerStep, ClientStep

\* What the server's part of a step can do to a job that exists: it ends or it
\* is forgotten, and neither its name nor its author changes.
LEMMA JobsThatExist ==
    ASSUME ClientAssumption, TypeOK, [Next]_vars, NEW j \in Job, ledger[j] # "absent"
    PROVE  /\ ledger'[j] # "absent" /\ named'[j] = named[j] /\ author'[j] = author[j]
           /\ ledger'[j] = "open" => ledger[j] = "open"
  <1> USE DEF TypeOK, Outcome
  <1>1. CASE UNCHANGED <<ledger, reopened, named, author>>
    BY <1>1
  <1>2. ASSUME NEW c \in Caller, Accept(c), ~UNCHANGED <<ledger, reopened, named, author>>
        PROVE  \E i \in Job \ {j} :
                   /\ ledger' = [ledger EXCEPT ![i] = "open"]
                   /\ \E x \in Id \cup {NoId} : named' = [named EXCEPT ![i] = x]
                   /\ author' = [author EXCEPT ![i] = c]
    <2>1. PICK i \in Fresh :
             /\ Server!Open(i)
             /\ named' = [named EXCEPT ![i] = IF c \in explicit THEN ShortId[c] ELSE NoId]
             /\ author' = [author EXCEPT ![i] = c]
      BY <1>2 DEF Accept
    <2>2. (IF c \in explicit THEN ShortId[c] ELSE NoId) \in Id \cup {NoId}
      BY DEF ClientAssumption
    <2> QED BY <2>1, <2>2 DEF Fresh, Server!Open
  <1>3. ASSUME NEW i \in Job, Finish(i) \/ ShowAgain(i)
        PROVE  /\ ledger'[j] # "absent" /\ named' = named /\ author' = author
               /\ ledger'[j] = "open" => ledger[j] = "open"
    BY <1>3 DEF Finish, ShowAgain, Server!Close, Server!Reopen, Server!CloseAgain
  <1>4. ASSUME Restart
        PROVE  /\ ledger'[j] # "absent" /\ named' = named /\ author' = author
               /\ ledger'[j] = "open" => ledger[j] = "open"
    BY <1>4 DEF Restart
  <1>5. ASSUME NEW c \in Caller,
               \/ Refuse(c) \/ Replay(c) \/ Call(c) \/ Drop(c) \/ NoJobId(c) \/ ClientStep(c)
        PROVE  UNCHANGED <<ledger, reopened, named, author>>
    BY <1>5 DEF Refuse, Replay, Call, Drop, NoJobId, ClientStep, GiveUpBusy, Post, PostFails,
                GiveUpPoll, PollFails, PollPending, PollBusy, PollDone, Wake, server
  <1>6. ASSUME Tick \/ UNCHANGED vars PROVE UNCHANGED <<ledger, reopened, named, author>>
    BY <1>6 DEF Tick, server, vars
  <1> QED BY <1>1, <1>2, <1>3, <1>4, <1>5, <1>6 DEF Next

\* Where a caller can come by the job it polls: from the answer to its POST.
LEMMA JobHeard ==
    ASSUME TypeOK, [Next]_vars, NEW c \in Caller, job'[c] # job[c], job'[c] # NoJob
    PROVE  /\ Accept(c) /\ pc[c] = "posting" /\ pc'[c] = "polling"
           /\ late'[c] = 0 /\ job'[c] \in Job
           /\ \/ /\ c \in explicit /\ job'[c] \in Named(ShortId[c])
                 /\ UNCHANGED <<ledger, reopened, named, author>>
              \/ /\ ledger[job'[c]] = "absent" /\ ledger'[job'[c]] = "open"
                 /\ author'[job'[c]] = c
                 /\ named'[job'[c]] = IF c \in explicit THEN ShortId[c] ELSE NoId
  <1>1. CASE Accept(c)
    <2>1. ASSUME NEW j \in Job, Hear(c, j)
          PROVE  job'[c] = j /\ pc[c] = "posting" /\ pc'[c] = "polling" /\ late'[c] = 0
      BY <2>1 DEF Hear, TypeOK
    <2>2. CASE c \in explicit /\ (\E j \in Named(ShortId[c]) : Hear(c, j))
               /\ UNCHANGED <<ledger, reopened, named, author>>
      BY <1>1, <2>1, <2>2 DEF Named
    <2>3. ASSUME NEW j \in Fresh, Server!Open(j), Hear(c, j),
                 named' = [named EXCEPT ![j] = IF c \in explicit THEN ShortId[c] ELSE NoId],
                 author' = [author EXCEPT ![j] = c]
          PROVE  /\ job'[c] = j /\ j \in Job /\ pc[c] = "posting" /\ pc'[c] = "polling"
                 /\ late'[c] = 0
                 /\ ledger[j] = "absent" /\ ledger'[j] = "open" /\ author'[j] = c
                 /\ named'[j] = IF c \in explicit THEN ShortId[c] ELSE NoId
      BY <2>1, <2>3 DEF Fresh, Server!Open, TypeOK
    <2> QED BY <1>1, <2>2, <2>3 DEF Accept
  <1>2. ASSUME NEW b \in Caller, b # c, CallerStep(b) PROVE FALSE
    BY <1>2, OtherCaller DEF CallOf
  <1>3. ASSUME \/ Refuse(c) \/ Replay(c) \/ Call(c) \/ Drop(c) \/ NoJobId(c) \/ ClientStep(c)
        PROVE  FALSE
    BY <1>3 DEF Refuse, Replay, Call, Drop, NoJobId, ClientStep, GiveUpBusy, Post, PostFails,
                GiveUpPoll, PollFails, PollPending, PollBusy, PollDone, Wake, client, TypeOK
  <1>4. ASSUME Tick \/ UNCHANGED vars \/ (\E j \in Job : Finish(j) \/ ShowAgain(j)) \/ Restart PROVE FALSE
    BY <1>4 DEF Tick, vars, Finish, ShowAgain, Restart, client, server
  <1> QED BY <1>1, <1>2, <1>3, <1>4 DEF Next, CallerStep

-----------------------------------------------------------------------------
\* A name in the table was given by the author of the job, and what a caller
\* holds is a job the table knows or has forgotten, of its own or of a caller
\* whose name for its request the library cuts down to the same characters.
OwnJobs ==
    /\ \A j \in Job : named[j] # NoId =>
          author[j] \in explicit /\ ShortId[author[j]] = named[j]
    /\ \A c \in Caller : job[c] # NoJob =>
          /\ ledger[job[c]] # "absent"
          /\ author[job[c]] = c \/ SameName(author[job[c]], c)

LEMMA OwnJobsStep ==
    ASSUME ClientAssumption, TypeOK, TypeOK', OwnJobs, [Next]_vars
    PROVE  OwnJobs'
  <1>0. explicit' = explicit
    BY SameNamers
  <1>1. ASSUME NEW j \in Job, named'[j] # NoId
        PROVE  author'[j] \in explicit /\ ShortId[author'[j]] = named'[j]
    <2>1. CASE ledger[j] # "absent" \/ UNCHANGED <<named, author>>
      BY <1>0, <1>1, <2>1, JobsThatExist DEF OwnJobs
    <2>2. ASSUME NEW c \in Caller, Accept(c), ~UNCHANGED <<named, author>>
          PROVE  author'[j] \in explicit /\ ShortId[author'[j]] = named'[j]
      <3>1. PICK i \in Job :
               /\ named' = [named EXCEPT ![i] = IF c \in explicit THEN ShortId[c] ELSE NoId]
               /\ author' = [author EXCEPT ![i] = c]
        BY <2>2 DEF Accept, Fresh
      <3> QED BY <1>0, <1>1, <3>1 DEF OwnJobs, TypeOK
    <2>3. (\E c \in Caller : Accept(c)) \/ UNCHANGED <<named, author>>
      BY DEF Next, Refuse, Replay, Call, Drop, NoJobId, ClientStep, GiveUpBusy, Post,
             PostFails, GiveUpPoll, PollFails, PollPending, PollBusy, PollDone, Wake,
             Finish, ShowAgain, Restart, Tick, server, vars
    <2> QED BY <2>1, <2>2, <2>3
  <1>2. ASSUME NEW c \in Caller, job'[c] # NoJob
        PROVE  /\ ledger'[job'[c]] # "absent"
               /\ author'[job'[c]] = c \/ SameName(author[job[c]], c)'
    <2>1. CASE job'[c] = job[c]
      <3>1. /\ job[c] \in Job /\ ledger[job[c]] # "absent"
            /\ author[job[c]] = c \/ SameName(author[job[c]], c)
        BY <1>2, <2>1 DEF OwnJobs, TypeOK
      <3>2. ledger'[job[c]] # "absent" /\ author'[job[c]] = author[job[c]]
        BY <3>1, JobsThatExist
      <3> QED BY <1>0, <2>1, <3>1, <3>2 DEF SameName
    <2>2. CASE job'[c] # job[c]
      <3>1. \/ /\ c \in explicit /\ job'[c] \in Named(ShortId[c])
               /\ UNCHANGED <<ledger, reopened, named, author>>
            \/ ledger'[job'[c]] = "open" /\ author'[job'[c]] = c
        BY <1>2, <2>2, JobHeard
      <3>2. ASSUME c \in explicit, job'[c] \in Named(ShortId[c])
            PROVE  SameName(author[job'[c]], c) /\ ledger[job'[c]] # "absent"
        <4>1. job'[c] \in Job /\ named[job'[c]] = ShortId[c] /\ ledger[job'[c]] # "absent"
          BY <3>2 DEF Named
        <4>2. ShortId[c] # NoId
          BY <3>2 DEF ClientAssumption
        <4> QED BY <3>2, <4>1, <4>2 DEF OwnJobs, SameName
      <3> QED BY <1>0, <3>1, <3>2 DEF SameName
    <2> QED BY <2>1, <2>2
  <1> QED BY <1>0, <1>1, <1>2 DEF OwnJobs

\* A caller polls its own job or that of a caller with the same short name,
\* whatever is lost, late or repeated.
THEOREM AnswersAreMine == Spec => []AnswerIsMine
  <1>1. Init => OwnJobs
    BY DEF Init, OwnJobs
  <1>2. Inv /\ Inv' /\ OwnJobs /\ [Next]_vars => OwnJobs'
    BY OwnJobsStep, ClientAssumption DEF Inv
  <1>3. OwnJobs => AnswerIsMine
    BY DEF OwnJobs, AnswerIsMine
  <1> QED BY <1>1, <1>2, <1>3, Invariance, PTL DEF Spec

-----------------------------------------------------------------------------
\* A poll and its result: the result has shown for no longer than the part of a
\* delay that is over.
Poll(c) ==
    /\ pc[c] \in {"polling", "pollwait"} =>
          job[c] \in Job /\ ledger[job[c]] # "absent"
    /\ pc[c] = "pollwait" => late[c] + wait[c] <= LaterDelay
    /\ pc[c] = "polling" => late[c] <= LaterDelay

Polls == \A c \in Caller : Poll(c)

LEMMA DelayBound ==
    ASSUME ClientAssumption, NEW e PROVE Delay(e) \in Nat /\ Delay(e) <= LaterDelay
  BY DEF ClientAssumption, Delay

\* The caller itself
LEMMA OwnPollStep ==
    ASSUME ClientAssumption, TypeOK, TypeOK', Polls, [Next]_vars,
           NEW c \in Caller, CallerStep(c)
    PROVE  Poll(c)'
  <1> USE DEF TypeOK
  <1>0. Poll(c) /\ late[c] \in Nat /\ LaterDelay \in Nat
    BY DEF Polls, LongAgo, ClientAssumption
  <1>1. CASE pc'[c] \notin {"polling", "pollwait"}
    BY <1>1 DEF Poll
  <1>2. CASE Accept(c) /\ job'[c] # job[c] /\ job'[c] # NoJob
    <2>1. /\ pc'[c] = "polling" /\ late'[c] = 0 /\ job'[c] \in Job
          /\ ledger'[job'[c]] # "absent"
      BY <1>2, JobHeard DEF Named
    <2> QED BY <1>0, <2>1 DEF Poll
  <1>3. CASE Accept(c) /\ pc[c] = "posting" /\ pc'[c] = "polling"
    <2>1. PICK j \in Job : Hear(c, j) /\ ledger'[j] # "absent"
      BY <1>3 DEF Accept, Fresh, Named, Server!Open
    <2>2. job'[c] = j /\ late'[c] = 0
      BY <1>3, <2>1 DEF Hear
    <2> QED BY <1>0, <1>3, <2>1, <2>2 DEF Poll
  <1>4. CASE UNCHANGED CallOf(c) /\ pc[c] \in {"polling", "pollwait"}
    <2>1. /\ ledger'[job[c]] # "absent"
          /\ ledger'[job[c]] = "open" => ledger[job[c]] = "open"
      BY <1>0, <1>4, JobsThatExist DEF Poll
    <2> QED BY <1>0, <1>4, <2>1 DEF Poll, CallOf
  <1>5. CASE Accept(c)
    <2>1. PICK j \in Job : Hear(c, j)
      BY <1>5 DEF Accept, Fresh, Named
    <2>2. (pc[c] = "posting" /\ pc'[c] = "polling") \/ UNCHANGED CallOf(c)
      BY <1>5, <2>1 DEF Hear, Accept, CallOf
    <2> QED BY <1>1, <1>3, <1>4, <1>5, <2>2 DEF CallOf
  <1>6. CASE PollFails(c) \/ PollPending(c)
    <2>1. /\ pc[c] = "polling" /\ pc'[c] = "pollwait" /\ UNCHANGED <<job, ledger>>
          /\ wait'[c] = Delay(since[c])
          /\ late'[c] = 0
      BY <1>6 DEF PollFails, PollPending, Sleep, server
    <2> QED BY <1>0, <2>1, DelayBound DEF Poll
  <1>7. CASE Wake(c)
    <2>1. UNCHANGED <<job, ledger, late, wait>> /\ wait[c] = 0
      BY <1>7 DEF Wake, server
    <2>2. (pc[c] = "pollwait" /\ pc'[c] = "polling") \/ pc'[c] = "loop"
      BY <1>7 DEF Wake
    <2> QED BY <1>0, <1>1, <2>1, <2>2 DEF Poll
  <1>8. CASE \/ Refuse(c) \/ Replay(c) \/ Call(c) \/ NoJobId(c) \/ GiveUpBusy(c) \/ Post(c)
             \/ PostFails(c) \/ GiveUpPoll(c) \/ PollBusy(c) \/ PollDone(c)
    <2>1. pc'[c] \notin {"polling", "pollwait"}
      BY <1>8 DEF Refuse, Replay, Call, NoJobId, GiveUpBusy, Post, PostFails, GiveUpPoll,
                  PollBusy, PollDone, Return, Sleep
    <2> QED BY <1>1, <2>1
  <1>9. CASE Drop(c)
    BY <1>1, <1>4, <1>9 DEF Drop, client, CallOf
  <1> QED BY <1>5, <1>6, <1>7, <1>8, <1>9 DEF CallerStep, ClientStep

LEMMA PollsStep == Inv /\ Inv' /\ Polls /\ [Next]_vars => Polls'
  <1> SUFFICES ASSUME Inv, Inv', Polls, [Next]_vars, NEW b \in Caller PROVE Poll(b)'
    BY DEF Polls
  <1> USE ClientAssumption
  <1>0. TypeOK /\ TypeOK' /\ Poll(b) /\ late[b] \in Nat /\ wait[b] \in Nat /\ LaterDelay \in Nat
    BY DEF Inv, TypeOK, Polls, LongAgo, ClientAssumption
  <1>1. CASE UNCHANGED CallOf(b)
    <2>1. CASE pc[b] \in {"polling", "pollwait"}
      <3>1. /\ ledger'[job[b]] # "absent"
            /\ ledger'[job[b]] = "open" => ledger[job[b]] = "open"
        BY <1>0, <2>1, JobsThatExist DEF Poll
      <3> QED BY <1>0, <1>1, <2>1, <3>1 DEF Poll, CallOf
    <2>2. CASE pc[b] \notin {"polling", "pollwait"}
      BY <1>1, <2>2 DEF Poll, CallOf
    <2> QED BY <2>1, <2>2
  <1>2. ASSUME NEW c \in Caller, CallerStep(c) PROVE Poll(b)'
    BY <1>0, <1>1, <1>2, OtherCaller, OwnPollStep
  <1>3. CASE Tick
    <2>1. /\ pc' = pc /\ job' = job /\ ledger' = ledger /\ pc[b] # "polling"
          /\ pc[b] = "pollwait" => b \in Waiting /\ wait[b] > 0
      BY <1>3 DEF Tick, Waiting, server
    <2>2. ASSUME pc[b] = "pollwait"
          PROVE  /\ wait'[b] = wait[b] - 1
                 /\ late'[b] = late[b] \/ late'[b] = late[b] + 1
      BY <1>3, <2>1, <2>2 DEF Tick
    <2> QED BY <1>0, <2>1, <2>2 DEF Poll
  <1>4. CASE UNCHANGED vars \/ (\E j \in Job : Finish(j) \/ ShowAgain(j)) \/ Restart
    BY <1>1, <1>4 DEF vars, Finish, ShowAgain, Restart, client, server, CallOf
  <1> QED BY <1>2, <1>3, <1>4 DEF Next, CallerStep

\* A poll that gives up while the result shows gives up one that has shown, or
\* could not be fetched, for no longer than one delay of the schedule.
THEOREM PatienceCoversADelay == Spec => NoNeedlessTimeout
  <1>1. Init => Polls
    BY DEF Init, Polls, Poll
  <1>2. Polls => [\A c \in Caller :
                     /\ pc[c] = "polling" /\ answer[c] = "none" /\ answer'[c] = "timeout"
                     /\ Shows(job[c])
                     => late[c] <= LaterDelay]_vars
    BY DEF Polls, Poll
  <1> QED BY <1>1, <1>2, PollsStep, Invariance, PTL DEF Spec, NoNeedlessTimeout
=============================================================================
