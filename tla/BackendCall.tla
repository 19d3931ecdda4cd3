---------------------------- MODULE BackendCall ----------------------------
(***************************************************************************)
(* What the router sees behind client.call(): a call of a backend over     *)
(* HTTP, of a command-line tool, or of the MLEXP service.  The router runs *)
(* it without a timeout of its own, with the slot of the account taken:    *)
(* a call that does not return keeps its slot.                             *)
(***************************************************************************)
EXTENDS HttpCall, CliRun, MlexpJob

VARIABLE kind    \* backend_type of the backend: "api", "cli" or "mlexp"

adapterVars == <<kind, httpVars, cliVars, mlexpVars>>

\* the adapters that are not called stay in one initial state
BackendInit ==
    /\ HttpInit /\ CliInit /\ MlexpInit
    /\ \/ kind = "api" /\ probe /\ stdin = "open" /\ tool = "codex"
       \/ kind = "cli" /\ probe /\ provider = CHOOSE p \in Provider : TRUE
       \/ kind = "mlexp" /\ stdin = "open" /\ tool = "codex" /\ provider = CHOOSE p \in Provider : TRUE

Api(A) == kind = "api" /\ A /\ UNCHANGED <<kind, cliVars, mlexpVars>>
Cli(A) == kind = "cli" /\ A /\ UNCHANGED <<kind, httpVars, mlexpVars>>
Mlexp(A) == kind = "mlexp" /\ A /\ UNCHANGED <<kind, httpVars, cliVars>>

BackendNext == Api(HttpNext) \/ Cli(CliNext) \/ Mlexp(MlexpNext)

BackendSpec ==
    /\ BackendInit
    /\ [][BackendNext]_adapterVars
    /\ WF_adapterVars(Api(HttpProgress))
    /\ WF_adapterVars(Cli(RunnerStep))
    /\ WF_adapterVars(Cli(DeadlinePasses))
    /\ WF_adapterVars(Mlexp(MlexpProgress))

-----------------------------------------------------------------------------
TypeOK == HttpTypeOK /\ CliTypeOK /\ MlexpTypeOK

Returned == "done" \in {http, cli, mlexp}

\* Every call of a backend returns, and gives the slot of its account back.
\* Three can hold it for ever: a provider or the MLEXP service, by an answer
\* in pieces that has no end, and a tool, by not reading its prompt, not
\* ending a line, or leaving a process that holds its pipes.
\* (_post_json, _request_json, run_cli_with_live_logs, wait_for_job)
EveryCallReturns ==
    \/ <>Returned
    \/ <>[](kind = "api" /\ Trickles)
    \/ <>[](kind = "cli" /\ Waits)
    \/ <>[](kind = "mlexp" /\ MlexpTrickles)
=============================================================================
