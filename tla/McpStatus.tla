------------------------------- MODULE McpStatus -------------------------------
(***************************************************************************)
(* The MCP servers the shell manages: the flags the user toggles           *)
(* (apps/shell/src/main/mcp-home.ts), the environment dsh reads them from, *)
(* and the states shown in the tray and the settings                       *)
(* (apps/shell/src/main/runtime.ts, ipc.ts and the status protocol of      *)
(* harness-supervisor.ts).                                                 *)
(*                                                                         *)
(* An IPC handler is synchronous up to `await supervisor.restart()', but   *)
(* each of its writes to disk may throw, which rejects the call, and the   *)
(* shell may die after any: both leave a prefix of the writes.  dsh reads  *)
(* its environment once, when it is spawned, and its status lines are read *)
(* later, perhaps after the next dsh was spawned.                          *)
(*                                                                         *)
(* The supervisor is modelled in HarnessSupervisor; here it is the queue   *)
(* of its restarts and the child they replace.  A row that servers.json    *)
(* lacks reads as enabled, so a file is the set of the rows it enables.    *)
(***************************************************************************)
EXTENDS Naturals, Sequences

CONSTANTS
  Server,        \* the identifiers of BASE_SERVER_DEFINITIONS
  MaxGeneration, \* bound on the dsh processes of one life of the shell
  MaxCalls,      \* bound on the restarts that wait for the supervisor
  MaxUnread,     \* bound on the status lines of one dsh not yet read
  WritesFail,    \* whether a write to disk may throw
  UserEdits,     \* whether the user edits servers.json by hand
  PartialLines   \* whether dsh may leave a line of its stdout unfinished

ASSUME McpAssumption ==
  /\ MaxGeneration \in Nat /\ MaxCalls \in Nat \ {0} /\ MaxUnread \in Nat
  /\ WritesFail \in BOOLEAN /\ UserEdits \in BOOLEAN /\ PartialLines \in BOOLEAN

VARIABLES
  file,      \* servers.json: "absent", "malformed" or "good"
  rows,      \* the servers a good servers.json enables
  vendored,  \* the servers whose command can be spawned
  up,        \* whether the shell runs
  listed,    \* whether mcpCatalog holds the servers
  catalog,   \* the servers mcpCatalog enables
  status,    \* mcpStatuses, "none" for a server it does not hold
  env,       \* supervisor.cfg.extraEnv: who is enabled, and the status stream
  calls,     \* the calls of supervisor.start() and restart() not yet served
  generation, \* supervisor.generation
  child,     \* the running dsh, or None
  started,   \* the environment the running dsh was spawned with
  actual,    \* the connection of each server in the running dsh
  unread,    \* the status lines each dsh wrote that the shell has not read
  fragment,  \* whether mcpLineBuffer holds an unfinished line of stdout
  off,       \* history: the servers the user turned off, acknowledged
  proven     \* history: the servers some dsh of this shell reported ready

disk    == <<file, rows, vendored>>
memory  == <<listed, catalog, status, env>>
harness == <<generation, child, started, actual>>
pipes   == <<unread, fragment>>
history == <<off, proven>>
vars == <<disk, up, memory, calls, harness, pipes, history>>

None == 0
Child == 1..MaxGeneration
Report == {"ready", "degraded", "failed"}
Status == Report \cup {"starting", "disabled"}
Env == [on : SUBSET Server, stream : BOOLEAN]
Line == [server : Server, state : Report]

TypeOK ==
  /\ file \in {"absent", "malformed", "good"}
  /\ rows \subseteq Server /\ vendored \subseteq Server
  /\ up \in BOOLEAN
  /\ listed \in BOOLEAN
  /\ catalog \subseteq Server
  /\ status \in [Server -> Status \cup {"none"}]
  /\ env \in Env
  /\ calls \in 0..MaxCalls
  /\ generation \in 0..MaxGeneration
  /\ child \in Child \cup {None}
  /\ started \in Env
  /\ actual \in [Server -> Report \cup {"unmounted", "connecting"}]
  /\ unread \in [Child -> Seq(Line)]
  /\ fragment \in BOOLEAN
  /\ off \subseteq Server /\ proven \subseteq Server

NoEnv == [on |-> {}, stream |-> FALSE]

Unlisted == [s \in Server |-> "none"]
Unmounted == [s \in Server |-> "unmounted"]
NothingUnread == [c \in Child |-> <<>>]

(* A first run, with any of the servers vendored.                          *)
Init ==
  /\ file = "absent" /\ rows = {}
  /\ vendored \in SUBSET Server
  /\ up = FALSE
  /\ listed = FALSE /\ catalog = {} /\ status = Unlisted /\ env = NoEnv
  /\ calls = 0
  /\ generation = 0 /\ child = None /\ started = NoEnv /\ actual = Unmounted
  /\ unread = NothingUnread /\ fragment = FALSE
  /\ off = {} /\ proven = {}

-----------------------------------------------------------------------------
(* The disk.                                                               *)

(* readConfig: a persisted flag wins, except that a command that cannot be *)
(* spawned is forced off; without a good file all that can is enabled.     *)
Flags(f, r) == IF f = "good" THEN r ELSE Server
AvailableAlways(on) == on
Available(on) == on \cap vendored
Read == Available(Flags(file, rows))

(* servers.json after n writes to disk: two of ensureEmbeddedMcpConfig, of  *)
(* which the first is to servers.json; then two of setEmbeddedMcpEnabled,  *)
(* which make r of what was read; then two of the ensureEmbeddedMcpConfig  *)
(* of refreshMcpState.  A malformed file is first renamed, which may fail  *)
(* unnoticed.                                                              *)
Written(n, r) ==
  /\ UNCHANGED vendored
  /\ IF n = 0
     THEN /\ file' = file \/ (file = "malformed" /\ file' = "absent")
          /\ rows' = rows
     ELSE /\ file' = "good"
          /\ rows' = CASE n \in 1..2 -> Read
                       [] n \in 3..4 -> r
                       [] n \in 5..6 -> Available(r)

(* A call that throws does so after an even or an odd number of writes:    *)
(* servers.json is the same after both, the other file being the managed   *)
(* block of cordis.patch.yml, whose rows FREECODE_WEB_MODE disables here.  *)
Ensures == IF WritesFail THEN {0, 1, 2} ELSE {2}
Toggles == IF WritesFail THEN {0, 1, 3, 5, 6} ELSE {6}

-----------------------------------------------------------------------------
(* The memory of the shell.                                                *)

FirstReady(on, s) == IF s \in on THEN "ready" ELSE "disabled"
FirstUnknown(on, s) == IF s \in on THEN "enabled" ELSE "disabled"
First(on, s) == IF s \in on THEN "starting" ELSE "disabled"

(* setMcpCatalog: a server that stays enabled keeps its state.             *)
Keeps(on, s) == s \in on /\ status[s] \notin {"none", "disabled"}

SetMcpCatalog(on) ==
  /\ listed' = TRUE
  /\ catalog' = on
  /\ status' = [s \in Server |-> IF Keeps(on, s) THEN status[s] ELSE First(on, s)]

(* setMcpCatalog followed by resetMcpStatus.                               *)
ResetMcpCatalog(on) ==
  /\ listed' = TRUE
  /\ catalog' = on
  /\ status' = [s \in Server |-> First(on, s)]

(* refreshMcpState rebuilds the environment without the stream flag.       *)
RefreshedEnvStale(on) == [on |-> env.on, stream |-> FALSE]
RefreshedEnv(on) == [on |-> on, stream |-> FALSE]

-----------------------------------------------------------------------------
(* createShellRuntime and start(): the catalogue is optional, and a write  *)
(* that fails leaves it empty for now.                                     *)
Boot(n) ==
  /\ ~up
  /\ up' = TRUE
  /\ Written(n, {})
  /\ IF n = 2
     THEN /\ ResetMcpCatalog(Read)
          /\ env' = [on |-> Read, stream |-> TRUE]
     ELSE UNCHANGED memory
  /\ calls' = 1
  /\ UNCHANGED <<harness, pipes, history>>

(* registerIpc comes after `await runtime.start()', so after the first dsh. *)
Registered == up /\ generation > 0

(* mcp:getState, that is refreshMcpState.                                  *)
GetState(n) ==
  /\ Registered
  /\ Written(n, {})
  /\ IF n = 2
     THEN SetMcpCatalog(Read) /\ env' = RefreshedEnv(Read)
     ELSE UNCHANGED memory
  /\ UNCHANGED <<up, calls, harness, pipes, history>>

(* mcp:openConfig, before the file is opened for the user.                 *)
OpenConfig(n) ==
  /\ Registered
  /\ Written(n, {})
  /\ UNCHANGED <<up, memory, calls, harness, pipes, history>>

(* mcp:setEnabled.  An identifier that is not of the catalogue throws      *)
(* after two writes.                                                       *)
SetEnabled(s, enabled, n) ==
  /\ Registered
  /\ calls < MaxCalls
  /\ LET wanted == IF enabled THEN Read \cup {s} ELSE Read \ {s}
         on     == Available(wanted)
     IN  /\ Written(n, wanted)
         /\ IF n = 6
            THEN ResetMcpCatalog(on) /\ env' = RefreshedEnv(on) /\ calls' = calls + 1
            ELSE UNCHANGED <<memory, calls>>
  /\ off' = CASE n = 6 /\ ~enabled -> off \cup {s}
              [] n >= 3 /\ enabled -> off \ {s}
              [] OTHER             -> off
  /\ UNCHANGED <<up, harness, pipes, proven>>

(* harness:restart, the tray or the stuck dialog: no state is reset.       *)
Restart ==
  /\ Registered
  /\ calls < MaxCalls
  /\ calls' = calls + 1
  /\ UNCHANGED <<disk, up, memory, harness, pipes, history>>

-----------------------------------------------------------------------------
(* dsh and its supervisor.                                                 *)

ChildGone ==
  /\ child' = None
  /\ actual' = Unmounted
  /\ UNCHANGED <<disk, up, memory, calls, generation, started, pipes, history>>

(* A restart takes down the dsh there is.                                  *)
TakeDown == calls > 0 /\ child # None /\ ChildGone

Crash == child # None /\ ChildGone

(* spawnOnce: dsh mounts the servers its environment enables.              *)
Spawned ==
  /\ up
  /\ child = None
  /\ generation < MaxGeneration
  /\ generation' = generation + 1
  /\ child' = generation'
  /\ started' = env
  /\ actual' = [s \in Server |-> IF s \in env.on THEN "connecting" ELSE "unmounted"]
  /\ fragment' = FALSE
  /\ UNCHANGED <<disk, up, memory, unread, history>>

Serve == calls > 0 /\ Spawned /\ calls' = calls - 1
Respawn == calls = 0 /\ Spawned /\ UNCHANGED calls

(* publishHostStatus: dsh tells of a connection, when its environment asks *)
(* it to.                                                                  *)
Publish(s, state) ==
  /\ child # None
  /\ actual[s] \notin {"unmounted", "failed", state}
  /\ Len(unread[child]) < MaxUnread
  /\ actual' = [actual EXCEPT ![s] = state]
  /\ unread' = IF started.stream
               THEN [unread EXCEPT ![child] = Append(@, [server |-> s, state |-> state])]
               ELSE unread
  /\ proven' = IF state = "ready" THEN proven \cup {s} ELSE proven
  /\ UNCHANGED <<disk, up, memory, calls, generation, child, started, fragment, off>>

(* A chunk of stdout ends inside a line: mcpLineBuffer is one buffer for   *)
(* stdout and stderr.                                                      *)
PartialLine ==
  /\ PartialLines
  /\ generation > 0 /\ ~fragment
  /\ fragment' = TRUE
  /\ UNCHANGED <<disk, up, memory, calls, harness, unread, history>>

(* recordOutput, parseMcpStatus, emitMcpStatus: the line of any dsh is     *)
(* taken for one of the present; one that is glued to an unfinished line   *)
(* is not recognised.                                                      *)
ReadLine(c) ==
  /\ unread[c] # <<>>
  /\ unread' = [unread EXCEPT ![c] = Tail(@)]
  /\ fragment' = FALSE
  /\ LET line == Head(unread[c])
     IN  status' = IF fragment \/ ~listed THEN status
                   ELSE [status EXCEPT ![line.server] = line.state]
  /\ UNCHANGED <<disk, up, listed, catalog, env, calls, harness, history>>

-----------------------------------------------------------------------------
(* The world.                                                              *)

(* The shell quits or dies, and its dsh with it.                           *)
ShellEnds ==
  /\ up
  /\ up' = FALSE
  /\ listed' = FALSE /\ catalog' = {} /\ status' = Unlisted /\ env' = NoEnv
  /\ calls' = 0
  /\ generation' = 0 /\ child' = None /\ started' = NoEnv /\ actual' = Unmounted
  /\ unread' = NothingUnread /\ fragment' = FALSE
  /\ proven' = {}
  /\ UNCHANGED <<disk, off>>

EditByHand ==
  /\ UserEdits
  /\ \/ file' = "malformed" /\ rows' = {}
     \/ file' = "good" /\ rows' \in SUBSET Server
  /\ off' = {}
  /\ UNCHANGED <<vendored, up, memory, calls, harness, pipes, proven>>

(* A newer shell is installed, with other executables.                     *)
Upgrade ==
  /\ ~up
  /\ vendored' \in SUBSET Server
  /\ UNCHANGED <<file, rows, up, memory, calls, harness, pipes, history>>

Next ==
  \/ \E n \in Ensures : Boot(n) \/ GetState(n) \/ OpenConfig(n)
  \/ \E s \in Server, enabled \in BOOLEAN, n \in Toggles : SetEnabled(s, enabled, n)
  \/ Restart
  \/ TakeDown
  \/ Crash
  \/ Serve
  \/ Respawn
  \/ \E s \in Server, state \in Report : Publish(s, state)
  \/ PartialLine
  \/ \E c \in Child : ReadLine(c)
  \/ ShellEnds
  \/ EditByHand
  \/ Upgrade

Spec == Init /\ [][Next]_vars

-----------------------------------------------------------------------------
Mounted == IF child = None THEN {} ELSE started.on

(* "A dead command must never be registered enabled (it would only burn    *)
(* the reconnect budget)", whatever is toggled, written by hand or half    *)
(* written.                                                                *)
NeverMountsDead == Mounted \subseteq vendored

(* A server the user turned off stays off, in every dsh started since: by  *)
(* a restart, by a respawn, by the next shell.                             *)
OffIsKept == calls = 0 => Mounted \cap off = {}

(* "A green toggle alone is not a connection guarantee": a server shown    *)
(* ready was reported ready by a dsh of this shell.                        *)
ReadyNeedsEvidence == \A s \in Server : status[s] = "ready" => s \in proven

(* "so tray state reflects real initialize -> tools/list -> registration   *)
(* evidence" (runtime.ts): once everything dsh wrote is read, the state    *)
(* shown for a server that has one is the one it has.                      *)
EvidenceIsHeard ==
  calls = 0 /\ (\A c \in Child : unread[c] = <<>>) =>
    \A s \in Server : s \in catalog /\ actual[s] \in Report => status[s] = actual[s]
=============================================================================
