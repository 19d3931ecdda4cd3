------------------------------ MODULE HttpCall ------------------------------
(***************************************************************************)
(* One call of a backend over HTTP: the retry loop that the providers of   *)
(* src/backends/ (deepseek and its kin, volc, minimax, xfyun, opencode_go) *)
(* share, with the helpers of api_backend.py.  A request is sent up to     *)
(* MaxRetry + 1 times, with a growing delay in between, and one deadline   *)
(* for all of it.  The timeout of urlopen() is one of every operation of   *)
(* the socket: an answer that comes in pieces starts it anew with every    *)
(* piece.  The provider is external: it answers, refuses, breaks off,      *)
(* trickles or says nothing.                                               *)
(***************************************************************************)
EXTENDS Integers

CONSTANTS
    Timeout,     \* timeout_seconds of the call, in ticks
    Second,      \* ticks in a second: a timeout is rounded down to seconds
    MaxRetry,
    Provider,    \* the providers that the call may be for
    Strict       \* those that reject an answer without a complete text

ASSUME HttpAssumption ==
    /\ Second \in Nat \ {0}
    /\ Timeout \in Nat /\ Timeout >= Second
    /\ MaxRetry \in Nat
    /\ Strict \subseteq Provider

VARIABLES
    http,        \* where the call is
    provider,
    attempt,
    clock,       \* time since the call began; retry_deadline is at Timeout
    left,        \* time left for the operation of the socket, or of the sleep
    limit,       \* the timeout of the request
    heard,       \* of its answer: "nothing", or "part" of it
    result

waitVars == <<left, limit, heard>>
httpVars == <<http, provider, attempt, clock, waitVars, result>>

HttpInit ==
    /\ http = "ready"
    /\ provider \in Provider
    /\ attempt = 0
    /\ clock = 0
    /\ left = 0 /\ limit = 0 /\ heard = "nothing"
    /\ result = "none"

HttpReturn(r) ==
    /\ http' = "done"
    /\ result' = r
    /\ UNCHANGED <<provider, attempt, clock, waitVars>>

-----------------------------------------------------------------------------
Remaining == Timeout - clock

\* MUTANT of RequestTimeout: every request has the whole budget
RequestTimeoutWhole == Timeout

\* _remaining_api_timeout(): whole seconds, at least one
RequestTimeout ==
    LET whole == (Remaining \div Second) * Second
    IN IF whole > Second THEN whole ELSE Second

Send ==
    /\ http = "ready"
    /\ Remaining > 0
    /\ http' = "request"
    /\ left' = RequestTimeout
    /\ limit' = RequestTimeout
    /\ heard' = "nothing"
    /\ UNCHANGED <<provider, attempt, clock, result>>

\* the exception of _remaining_api_timeout() is caught by the loop itself,
\* whose retry finds no time left either
OutOfTime ==
    /\ http = "ready"
    /\ Remaining <= 0
    /\ HttpReturn("error")

\* a failure that may pass: _sleep_before_api_retry(), or the last error
Backoff ==
    IF attempt >= MaxRetry \/ Remaining <= 0
      THEN HttpReturn("error")
      ELSE /\ http' = "sleep"
           /\ left' = (IF 2 ^ attempt * Second < Remaining
                       THEN 2 ^ attempt * Second ELSE Remaining)
           /\ UNCHANGED <<provider, attempt, clock, limit, heard, result>>

Resume ==
    /\ http = "sleep"
    /\ left = 0
    /\ http' = "ready"
    /\ attempt' = attempt + 1
    /\ UNCHANGED <<provider, clock, waitVars, result>>

Good == http = "request" /\ HttpReturn("ok")

\* an object without text, or one that was cut at the output limit: volc
\* rejects it inside the loop, which asks again; the others return it
Hollow ==
    /\ http = "request"
    /\ IF provider \in Strict THEN Backoff ELSE HttpReturn("hollow")

\* not JSON, or not of the expected shape; no connection, or no answer in time
Broken ==
    /\ http = "request"
    /\ Backoff

\* _handle_http_error(): 429, or a body that speaks of quota
Refused == http = "request" /\ HttpReturn("quota")

ServerError ==
    /\ http = "request"
    /\ Backoff

\* any other status
ClientError == http = "request" /\ HttpReturn("error")

\* the body of the error cannot be read: the exception leaves the call
ErrorUnread == http = "request" /\ HttpReturn("raised")

\* a part of the answer: the next operation has the whole timeout again
Piece ==
    /\ http = "request"
    /\ left > 0
    /\ left' = limit
    /\ heard' = "part"
    /\ UNCHANGED <<http, provider, attempt, clock, limit, result>>

\* the clock stops where nothing tells later times apart
Late == Timeout + Second

HttpTick ==
    /\ http \in {"request", "sleep"}
    /\ left > 0
    /\ left' = left - 1
    /\ clock' = IF clock < Late THEN clock + 1 ELSE Late
    /\ UNCHANGED <<http, provider, attempt, limit, heard, result>>

\* what the call itself does, given that an operation that times out breaks off
HttpProgress ==
    \/ Send \/ OutOfTime \/ Resume \/ HttpTick
    \/ left = 0 /\ Broken

HttpNext ==
    \/ Send \/ OutOfTime \/ Resume
    \/ Good \/ Hollow \/ Broken \/ Refused \/ ServerError \/ ClientError \/ ErrorUnread
    \/ Piece \/ HttpTick

HttpSpec == HttpInit /\ [][HttpNext]_httpVars

-----------------------------------------------------------------------------
HttpTypeOK ==
    /\ http \in {"ready", "request", "sleep", "done"}
    /\ provider \in Provider
    /\ attempt \in 0..MaxRetry
    /\ clock \in 0..Late
    /\ left \in Int /\ limit \in Int
    /\ heard \in {"nothing", "part"}
    /\ result \in {"none", "ok", "hollow", "quota", "error", "raised"}

\* However often it is retried, a call is over by its timeout and the last
\* second that a request is given at least: one that runs on is reading an
\* answer that comes in pieces, and sends no request after it.
\* (_api_retry_deadline, _remaining_api_timeout, _sleep_before_api_retry)
RetriesWithinDeadline ==
    clock >= Timeout + Second => heard = "part" /\ http \in {"request", "done"}

\* the provider holds the call: no timeout bounds such an answer
Trickles == http = "request" /\ heard = "part"
=============================================================================
