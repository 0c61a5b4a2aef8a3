-------------------------------- MODULE Notices --------------------------------
(* What the shell tells the user of its backends (index.ts, backend-state.ts): *)
(* the gateway's pool, the model catalogue and the MCP servers. Reports come    *)
(* from refreshes, from the IPC handler that waited for one, and from dsh.      *)
EXTENDS Naturals

CONSTANT Server \* MCP servers

VARIABLES backend,  \* backendStates
          dryTold,  \* noFreeModelsNotified
          mcp,      \* mcpLastStates, "unseen" for no entry
          quitting, \* shuttingDown
          started,  \* runtime.start() is over
          rejected, \* a refresh of the renderer failed; its handler reports it too
          informed, \* history: the last state the user was told of
          dry,      \* history: notices since a model last answered
          failures, \* history: notices since a server was last not failed
          late      \* history: a backend notice of a shell that was quitting

vars == <<backend, dryTold, mcp, quitting, started, rejected, informed, dry, failures, late>>

Kind == {"pool", "catalog"}
BackendState == {"ready", "degraded", "down"}
McpState == {"starting", "ready", "failed", "stopped"}

TypeOK ==
    /\ backend \in [Kind -> BackendState \cup {"unknown"}]
    /\ informed \in [Kind -> BackendState \cup {"unknown"}]
    /\ mcp \in [Server -> McpState \cup {"unseen"}]
    /\ dryTold \in BOOLEAN /\ quitting \in BOOLEAN /\ started \in BOOLEAN
    /\ rejected \in BOOLEAN /\ late \in BOOLEAN
    /\ dry \in 0..2 /\ failures \in [Server -> 0..2]

Init ==
    /\ backend = [k \in Kind |-> "unknown"] /\ informed = backend
    /\ mcp = [s \in Server |-> "unseen"] /\ failures = [s \in Server |-> 0]
    /\ dryTold = FALSE /\ quitting = FALSE /\ started = FALSE /\ rejected = FALSE
    /\ dry = 0 /\ late = FALSE

More(n) == IF n < 2 THEN n + 1 ELSE n

-----------------------------------------------------------------------------
\* Wrong: it is not asked whether the shell is quitting.
TellsQuitting(old, new) == old # new /\ old # "unknown"

\* shouldNotifyBackendState: not the first observation, nor an unchanged one.
Tells(old, new) == ~quitting /\ old # new /\ old # "unknown"

\* reportBackendState; that a notice cannot be shown is swallowed.
Report(kind, state) ==
    /\ backend' = [backend EXCEPT ![kind] = state]
    /\ informed' = IF Tells(backend[kind], state) THEN [informed EXCEPT ![kind] = state] ELSE informed
    /\ late' = (late \/ (quitting /\ Tells(backend[kind], state)))

\* Wrong: an answer does not end the outage that was told of.
ReportAnswersKeeping(answers) ==
    /\ dryTold' = (dryTold /\ ~answers)
    /\ dry' = IF answers THEN 0 ELSE IF quitting THEN dry ELSE More(dry)

\* reportNoFreeModels: once per outage.
ReportAnswers(answers) ==
    /\ dryTold' = (~answers /\ (dryTold \/ ~quitting))
    /\ dry' = IF answers THEN 0 ELSE IF dryTold \/ quitting THEN dry ELSE More(dry)

-----------------------------------------------------------------------------
Started ==
    /\ ~started
    /\ started' = TRUE
    /\ Report("pool", "ready")
    /\ UNCHANGED <<dryTold, mcp, quitting, rejected, dry, failures>>

\* onUpdate of a refresh that has probed: its catalogue is degraded or not.
Catalogue(answers, state) ==
    /\ started
    /\ ReportAnswers(answers) /\ Report("catalog", state)
    /\ UNCHANGED <<mcp, quitting, started, rejected, failures>>

\* reportModelRefreshFailure: the pool's fault when no worker is ready.
Failure == \E kind \in Kind : Report(kind, "down")

\* The refresh reports in its catch; the handler of models:refresh, told that
\* there is no catalogue, reports it once more, when the workers may differ.
RefreshFails ==
    /\ started /\ Failure
    /\ rejected' \in {rejected, TRUE}
    /\ UNCHANGED <<dryTold, mcp, quitting, started, dry, failures>>

HandlerFails ==
    /\ rejected /\ Failure
    /\ rejected' = FALSE
    /\ UNCHANGED <<dryTold, mcp, quitting, started, dry, failures>>

\* Wrong: every failed status is told.
IsNewFailureAlways(s, state) == state = "failed"

IsNewFailure(s, state) == state = "failed" /\ mcp[s] # "failed"

\* reportMcpStatus, which does not ask whether the shell is quitting.
Mcp(s, state) ==
    /\ mcp' = [mcp EXCEPT ![s] = state]
    /\ failures' = [failures EXCEPT ![s] = IF state # "failed" THEN 0
                                           ELSE IF IsNewFailure(s, state) THEN More(@) ELSE @]
    /\ UNCHANGED <<backend, dryTold, quitting, started, rejected, informed, dry, late>>

Quit ==
    /\ ~quitting
    /\ quitting' = TRUE
    /\ UNCHANGED <<backend, dryTold, mcp, started, rejected, informed, dry, failures, late>>

Next == \/ Started \/ RefreshFails \/ HandlerFails \/ Quit
        \/ \E answers \in BOOLEAN, state \in {"ready", "degraded"} : Catalogue(answers, state)
        \/ \E s \in Server, state \in McpState : Mcp(s, state)

Spec == Init /\ [][Next]_vars

-----------------------------------------------------------------------------
(* Each outage is told of once, however many refreshes and reports run into  *)
(* it; what the user was last told of a backend is how it is, until the      *)
(* shell quits, and then nothing more is told of it.                         *)
NoticesAreDue ==
    /\ dry <= 1 /\ ~late
    /\ \A s \in Server : failures[s] <= 1
    /\ \A k \in Kind : ~quitting /\ informed[k] # "unknown" => informed[k] = backend[k]
    /\ dry = 1 => dryTold

(* What it holds by, for the proofs: a server that works was told of never,  *)
(* and a shell that quits tells nothing.                                     *)
IInv == TypeOK /\ NoticesAreDue /\ \A s \in Server : mcp[s] # "failed" => failures[s] = 0
=============================================================================
