------------------------------- MODULE CliRun -------------------------------
(***************************************************************************)
(* One call of a backend that is a command-line tool: claude.py and        *)
(* opencode.py through run_cli_with_live_logs() of cli_io.py, and codex.py *)
(* through subprocess.run().  The runner, the tool and whatever the tool   *)
(* left running share two pipes.                                           *)
(*                                                                         *)
(* Output is counted in lines.  readline() moves all of a pipe to the      *)
(* buffer of its file object, where select() does not see it, and blocks   *)
(* while the line it wants has no end.  An exception leaves through the    *)
(* finally, which closes the runner's ends of the pipes and nothing else.  *)
(***************************************************************************)
EXTENDS Integers, Sequences, FiniteSets

CONSTANTS
    Tool,        \* the tools that the call may be for
    MaxLines,    \* bound: lines that the tool writes to each stream
    PipeSize     \* lines that fit into a pipe

ASSUME CliAssumption ==
    /\ Tool \subseteq {"claude", "opencode", "codex"}
    /\ MaxLines \in Nat
    /\ PipeSize \in Nat \ {0}

Stream == {"stdout", "stderr"}

VARIABLES
    cli,         \* where the runner is
    tool,
    stdin,       \* of the tool: "full" of a prompt too long for the pipe,
                 \* "open" for what is left of it, or "closed" by the tool
    child,       \* the process: "live", or how it ended
    holder,      \* who holds the write end of each pipe
    wrote,       \* lines begun by the tool on each stream
    half,        \* the last of them has no end yet
    pipe, buf,   \* lines in the pipe, and in the buffer of the file object
    got,         \* stdout_chunks and stderr_chunks
    selector,    \* the registered streams
    todo,        \* the streams that the runner is to read, the current one first
    overdue,     \* the deadline has passed
    timedOut,
    verdict      \* what the client of the tool makes of the run

written == <<wrote, half>>
toolVars == <<tool, stdin, child, holder, written>>
runVars == <<cli, selector, todo, timedOut, verdict>>
cliVars == <<toolVars, runVars, pipe, buf, got, overdue>>

CliInit ==
    /\ tool \in Tool
    /\ cli = (IF tool = "codex" THEN "communicate" ELSE "feed")
    /\ stdin \in {"full", "open"}
    /\ child = "live"
    /\ holder = [s \in Stream |-> {"tool"}]
    /\ wrote = [s \in Stream |-> 0]
    /\ half = [s \in Stream |-> FALSE]
    /\ pipe = [s \in Stream |-> 0]
    /\ buf = [s \in Stream |-> 0]
    /\ got = [s \in Stream |-> 0]
    /\ selector = Stream
    /\ todo = <<>>
    /\ overdue = FALSE
    /\ timedOut = FALSE
    /\ verdict = "none"

-----------------------------------------------------------------------------
(* The tool, and what it leaves running.                                   *)

Drink ==
    /\ child = "live"
    /\ stdin = "full"
    /\ stdin' = "open"
    /\ UNCHANGED <<tool, child, holder, written, runVars, pipe, buf, got, overdue>>

CloseStdin ==
    /\ child = "live"
    /\ cli = "feed"    \* later it is of no account
    /\ stdin # "closed"
    /\ stdin' = "closed"
    /\ UNCHANGED <<tool, child, holder, written, runVars, pipe, buf, got, overdue>>

\* the end of the call closes the pipe: a tool that writes to it after that
\* is told so, and ends or not
Writes(s) == child = "live" /\ "tool" \in holder[s] /\ cli # "done"

\* a full pipe holds the tool up
BeginLine(s) ==
    /\ Writes(s)
    /\ ~half[s]
    /\ wrote[s] < MaxLines
    /\ pipe[s] < PipeSize
    /\ wrote' = [wrote EXCEPT ![s] = @ + 1]
    /\ half' = [half EXCEPT ![s] = TRUE]
    /\ pipe' = [pipe EXCEPT ![s] = @ + 1]
    /\ UNCHANGED <<tool, stdin, child, holder, runVars, buf, got, overdue>>

\* the end of a line whose beginning is in the buffer comes through the pipe
EndLine(s) ==
    /\ Writes(s)
    /\ half[s]
    /\ half' = [half EXCEPT ![s] = FALSE]
    /\ IF pipe[s] = 0 /\ buf[s] > 0
         THEN /\ pipe' = [pipe EXCEPT ![s] = 1]
              /\ buf' = [buf EXCEPT ![s] = @ - 1]
         ELSE UNCHANGED <<pipe, buf>>
    /\ UNCHANGED <<tool, stdin, child, holder, wrote, runVars, got, overdue>>

Hold(h) ==
    /\ holder' = h
    /\ UNCHANGED <<tool, stdin, child, written, runVars, pipe, buf, got, overdue>>

CloseStream(s) ==
    /\ Writes(s)
    /\ Hold([holder EXCEPT ![s] = @ \ {"tool"}])

\* a process in a session of its own inherits the pipes
Daemon ==
    /\ \A s \in Stream : Writes(s)
    /\ Hold([s \in Stream |-> {"tool", "daemon"}])

DaemonEnds ==
    /\ \E s \in Stream : "daemon" \in holder[s]
    /\ Hold([s \in Stream |-> holder[s] \ {"daemon"}])

Ends(how) ==
    /\ child' = how
    /\ holder' = [s \in Stream |-> holder[s] \ {"tool"}]
    /\ UNCHANGED <<tool, stdin, written>>

Exit ==
    /\ child = "live"
    /\ \E how \in {"zero", "nonzero"} : Ends(how)
    /\ UNCHANGED <<runVars, pipe, buf, got, overdue>>

DeadlinePasses ==
    /\ ~overdue
    /\ cli # "done"
    /\ overdue' = TRUE
    /\ UNCHANGED <<toolVars, runVars, pipe, buf, got>>

ToolStep ==
    \/ Drink \/ CloseStdin \/ Daemon \/ DaemonEnds \/ Exit
    \/ \E s \in Stream : BeginLine(s) \/ EndLine(s) \/ CloseStream(s)

-----------------------------------------------------------------------------
(* run_cli_with_live_logs()                                                *)

RunnerKeeps == UNCHANGED <<toolVars, overdue>>

\* write() of a prompt that is longer than the pipe waits for the tool
Feed ==
    /\ cli = "feed"
    /\ child = "live" /\ stdin = "open"
    /\ cli' = "check"
    /\ RunnerKeeps
    /\ UNCHANGED <<selector, todo, timedOut, verdict, pipe, buf, got>>

\* an exception takes the output with it; nothing ends the tool
Raise ==
    /\ cli' = "done" /\ verdict' = "raised"
    /\ RunnerKeeps
    /\ UNCHANGED <<selector, todo, timedOut, pipe, buf, got>>

\* nobody reads the prompt: the tool has ended, or closed its stdin
BrokenPipe ==
    /\ cli = "feed"
    /\ child # "live" \/ stdin = "closed"
    /\ Raise

\* MUTANT of Check: the deadline is looked at only while the tool is quiet
CheckQuiet ==
    /\ cli = "check"
    /\ LET late == child = "live" /\ overdue /\ \A s \in Stream : holder[s] # {} /\ pipe[s] = 0
       IN /\ cli' = IF selector = {} THEN "reap" ELSE "select"
          /\ IF selector # {} /\ late
               THEN timedOut' = TRUE /\ Ends("killed")
               ELSE UNCHANGED <<timedOut, toolVars>>
    /\ UNCHANGED <<selector, todo, verdict, pipe, buf, got, overdue>>

\* the head of the loop; killpg() reaches the tool, not a session of its own
Check ==
    /\ cli = "check"
    /\ cli' = IF selector = {} THEN "reap" ELSE "select"
    /\ IF selector # {} /\ child = "live" /\ overdue
         THEN timedOut' = TRUE /\ Ends("killed")
         ELSE UNCHANGED <<timedOut, toolVars>>
    /\ UNCHANGED <<selector, todo, verdict, pipe, buf, got, overdue>>

Readable == {s \in selector : pipe[s] > 0 \/ holder[s] = {}}

Orders(S) == {q \in [1..Cardinality(S) -> S] : \A s \in S : \E i \in DOMAIN q : q[i] = s}

Select ==
    /\ cli = "select"
    /\ IF Readable = {}
         THEN cli' = "poll" /\ todo' = <<>>
         ELSE cli' = "read" /\ todo' \in Orders(Readable)
    /\ RunnerKeeps
    /\ UNCHANGED <<selector, timedOut, verdict, pipe, buf, got>>

\* MUTANT of Poll: what is left of the output of an ended tool is not read
PollUndrained ==
    /\ cli = "poll"
    /\ cli' = IF child = "live" THEN "check" ELSE "reap"
    /\ RunnerKeeps
    /\ UNCHANGED <<selector, todo, timedOut, verdict, pipe, buf, got>>

\* nothing to read: the tool has ended and somebody else holds its pipes, or
\* it is at work
Poll ==
    /\ cli = "poll"
    /\ IF child = "live"
         THEN cli' = "check" /\ todo' = <<>>
         ELSE cli' = "drain" /\ todo' \in Orders(selector)
    /\ RunnerKeeps
    /\ UNCHANGED <<selector, timedOut, verdict, pipe, buf, got>>

\* the lines of the buffer that readline() can return
Whole(s) == IF half[s] /\ pipe[s] = 0 THEN buf[s] - 1 ELSE buf[s]

Reads(s) == cli \in {"read", "drain"} /\ todo # <<>> /\ Head(todo) = s

\* one line per event; the drain reads on to the end
NextRead == todo' = IF cli = "read" THEN Tail(todo) ELSE todo

Pull(s) ==
    /\ Reads(s)
    /\ Whole(s) <= 0
    /\ pipe[s] > 0
    /\ buf' = [buf EXCEPT ![s] = @ + pipe[s]]
    /\ pipe' = [pipe EXCEPT ![s] = 0]
    /\ RunnerKeeps
    /\ UNCHANGED <<runVars, got>>

\* at the end of the file a line needs no end
Line(s) == Whole(s) > 0 \/ (buf[s] > 0 /\ pipe[s] = 0 /\ holder[s] = {})

TakeLine(s) ==
    /\ Reads(s)
    /\ Line(s)
    /\ buf' = [buf EXCEPT ![s] = @ - 1]
    /\ got' = [got EXCEPT ![s] = @ + 1]
    /\ NextRead
    /\ RunnerKeeps
    /\ UNCHANGED <<cli, selector, timedOut, verdict, pipe>>

\* what readline() reads is not UTF-8, or the line cannot be written to the log
ReadFails(s) ==
    /\ Reads(s)
    /\ Line(s) \/ pipe[s] > 0
    /\ Raise

Unregister(s) ==
    /\ Reads(s)
    /\ buf[s] = 0 /\ pipe[s] = 0 /\ holder[s] = {}
    /\ selector' = selector \ {s}
    /\ todo' = Tail(todo)
    /\ RunnerKeeps
    /\ UNCHANGED <<cli, timedOut, verdict, pipe, buf, got>>

ReadsDone ==
    /\ cli \in {"read", "drain"}
    /\ todo = <<>>
    /\ cli' = IF cli = "read" THEN "check" ELSE "reap"
    /\ RunnerKeeps
    /\ UNCHANGED <<selector, todo, timedOut, verdict, pipe, buf, got>>

-----------------------------------------------------------------------------
(* What the client makes of the result.  Any text of the output may be one *)
(* that QuotaManager.is_quota_error() takes for a refusal.                 *)

Says(q, s) == s \in q /\ got'[s] > 0

\* the text of the error: the timeout, else stderr, else stdout
ErrorSaysQuota(q) ==
    /\ ~timedOut'
    /\ IF got'["stderr"] > 0 THEN Says(q, "stderr") ELSE Says(q, "stdout")

SaysQuota(q) ==
    CASE tool = "claude" -> child' # "zero" /\ ErrorSaysQuota(q)
      [] tool = "opencode" -> (child' # "zero" \/ timedOut') /\ (ErrorSaysQuota(q) \/ Says(q, "stdout"))
      \* also when codex has answered
      [] tool = "codex" -> Says(q, "stdout") \/ ((child' # "zero" \/ timedOut') /\ Says(q, "stderr"))

\* The output and the message of the tool are files: they may be unreadable.
\* opencode.py asks for whole JSON lines, an end that is not the output
\* limit, and a text; claude.py and codex.py return what there is
Complete ==
    tool = "opencode" => got'["stdout"] > 0

Classify ==
    /\ cli' = "done"
    /\ \E q \in SUBSET Stream :
         IF SaysQuota(q) THEN verdict' = "quota"
         ELSE \/ verdict' = "raised"
              \/ child' = "zero" /\ ~timedOut' /\ Complete /\ verdict' = "ok"
              \/ /\ child' # "zero" \/ timedOut' \/ tool = "opencode"
                 /\ verdict' = "error"

\* MUTANT of Reap: the end of the tool is not waited for
ReapUnwaited ==
    /\ cli = "reap"
    /\ RunnerKeeps
    /\ UNCHANGED <<selector, todo, timedOut, pipe, buf, got>>
    /\ cli' = "done"
    /\ verdict' = IF child = "live" THEN "error" ELSE "ok"

\* wait(timeout=1) of a tool that has closed its streams and works on raises
Reap ==
    /\ cli = "reap"
    /\ IF child = "live"
         THEN Raise
         ELSE /\ RunnerKeeps
              /\ UNCHANGED <<selector, todo, timedOut, pipe, buf, got>>
              /\ Classify

-----------------------------------------------------------------------------
(* subprocess.run() of codex.py: both pipes are read to their end, under   *)
(* the deadline.                                                           *)

Collect(s) ==
    /\ cli = "communicate"
    /\ pipe[s] > 0
    /\ got' = [got EXCEPT ![s] = @ + pipe[s]]
    /\ pipe' = [pipe EXCEPT ![s] = 0]
    /\ RunnerKeeps
    /\ UNCHANGED <<runVars, buf>>

Collected ==
    /\ cli = "communicate"
    /\ child # "live"
    /\ \A s \in Stream : pipe[s] = 0 /\ holder[s] = {}
    /\ RunnerKeeps
    /\ UNCHANGED <<selector, todo, timedOut, pipe, buf, got>>
    /\ Classify

\* the tool is killed, not what it left running; its output so far is kept
Expires ==
    /\ cli = "communicate"
    /\ overdue
    /\ timedOut' = TRUE
    /\ IF child = "live" THEN Ends("killed") ELSE UNCHANGED toolVars
    /\ UNCHANGED <<selector, todo, pipe, buf, got, overdue>>
    /\ Classify

RunnerStep ==
    \/ Feed \/ BrokenPipe \/ Check \/ Select \/ Poll \/ ReadsDone \/ Reap
    \/ \E s \in Stream : Pull(s) \/ TakeLine(s) \/ ReadFails(s) \/ Unregister(s)
    \/ (\E s \in Stream : Collect(s)) \/ Collected \/ Expires

CliNext == ToolStep \/ DeadlinePasses \/ RunnerStep

CliSpec == CliInit /\ [][CliNext]_cliVars

-----------------------------------------------------------------------------
CliTypeOK ==
    /\ cli \in {"feed", "check", "select", "read", "poll", "drain", "reap", "communicate", "done"}
    /\ tool \in Tool
    /\ child \in {"live", "zero", "nonzero", "killed"}
    /\ holder \in [Stream -> SUBSET {"tool", "daemon"}]
    /\ stdin \in {"full", "open", "closed"}
    /\ overdue \in BOOLEAN /\ timedOut \in BOOLEAN
    /\ half \in [Stream -> BOOLEAN]
    /\ {wrote, pipe, buf, got} \subseteq [Stream -> Nat]
    /\ selector \subseteq Stream
    /\ todo \in Seq(Stream)
    /\ verdict \in {"none", "ok", "quota", "error", "raised"}

\* A run that counts as answered is one that ended by itself with status 0,
\* and every line that the tool wrote to either stream is in the result, in
\* whatever order it wrote, ended, and left its pipes to others.
\* (run_cli_with_live_logs, _drain_registered_streams)
CompleteAnswer ==
    verdict = "ok" =>
        /\ child = "zero"
        /\ ~timedOut
        /\ \A s \in Stream : got[s] = wrote[s]

\* A call that comes back with a result, an answer, a refusal, an error or a
\* timeout, leaves no tool at work in the workspace that the next call will
\* use: whichever of the exits of the loop it took, the tool has ended.  Only
\* an exception leaves one.  (run_cli_with_live_logs, process.wait)
NoToolLeftRunning ==
    cli = "done" /\ verdict # "raised" => child # "live"

\* The runner waits for the reader of its prompt, for the end of a line, or
\* for a process that outlived the tool; no deadline is looked at meanwhile.
Waits ==
    \/ cli = "feed" /\ child = "live" /\ stdin = "full"
    \/ \E s \in Stream :
         /\ Reads(s)
         /\ IF cli = "read" THEN half[s] ELSE "daemon" \in holder[s]
=============================================================================
