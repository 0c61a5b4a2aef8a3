-------------------------- MODULE HarnessSupervisor --------------------------
(***************************************************************************)
(* The owner of the `dsh web' child process                                *)
(* (apps/shell/src/main/harness-supervisor.ts).                            *)
(*                                                                         *)
(* Everything here runs on one JavaScript thread, so a step is a stretch   *)
(* of code between two awaits: a lifecycle call reaching the lock, the     *)
(* holder of the lock running up to (or on from) waitForExit, an event of  *)
(* a child process, a timer.  The hard part is the order in which these    *)
(* steps happen.                                                           *)
(*                                                                         *)
(* A child is named by the value `generation' had when spawnOnce created   *)
(* it: every spawn increments the counter, so the name is unique, and the  *)
(* guard `generation !== this.generation || this.proc !== proc' of the     *)
(* handlers becomes `c # generation \/ proc # c'.                          *)
(*                                                                         *)
(* spawnPromise is not a variable: spawnOnce never awaits, so the promise  *)
(* is settled and cleared before the next event is taken from the loop.    *)
(* Time is counted in ticks; a timer never fires early and may fire late.  *)
(*                                                                         *)
(* A few operators stand next to a wrong variant of themselves (MineAlways *)
(* before Mine): substituting the variant shows that a property can fail.  *)
(***************************************************************************)
EXTENDS Integers, Sequences, FiniteSets

CONSTANTS
  RestartBudget,   \* cfg.restartBudget (5)
  RestartWindow,   \* RESTART_WINDOW_MS
  ReadyTimeout,    \* READY_TIMEOUT_MS
  StopGrace,       \* STOP_GRACE_MS
  BackoffBase,     \* cfg.backoffBaseMs
  BackoffMax,      \* BACKOFF_MAX_MS
  KillMayFail,     \* whether taskkill may leave its target alive
  HomeMayFail,     \* whether mkdirSync(cfg.homeDir) may throw
  MaxGeneration,   \* bound on the generation counter
  MaxQueue         \* bound on the lifecycle calls waiting for the lock

ASSUME SupervisorAssumption ==
  /\ RestartBudget \in Nat
  /\ RestartWindow \in Nat \ {0}
  /\ ReadyTimeout \in Nat
  /\ StopGrace \in Nat
  /\ BackoffBase \in Nat
  /\ BackoffMax \in Nat
  /\ KillMayFail \in BOOLEAN
  /\ HomeMayFail \in BOOLEAN
  /\ MaxGeneration \in Nat
  /\ MaxQueue \in Nat

VARIABLES
  generation,    \* this.generation
  proc,          \* this.proc, or None
  status,        \* this.status
  url,           \* this.url, or NoUrl
  stopping,      \* this.stopping
  restarts,      \* this.restarts
  sinceRestart,  \* Date.now() - this.lastRestartAt, saturating at RestartWindow
  restartTimer,  \* the timer this.restartTimer points to, or None
  timers,        \* every respawn timer that is still armed
  readyIn,       \* ticks left of the readiness deadline of the last spawn
  queue,         \* lifecycleLock: the holder, then the calls waiting for it
  victim,        \* the child the holder awaits in waitForExit, or None
  graceIn,       \* ticks left of the grace period of that wait
  os,            \* what the operating system and libuv know of each child
  pipe,          \* what of its launch URL is in the stdout pipe of a child
  condemned,     \* the children killTree was called on
  told           \* what the listeners, or the caller, heard since the last spawn

machine == <<generation, proc, status, url, stopping>>
budget  == <<restarts, sinceRestart>>
clocks  == <<restartTimer, timers>>
lock    == <<queue, victim, graceIn>>
world   == <<os, pipe, condemned>>
vars == <<machine, budget, clocks, readyIn, lock, world, told>>

None == 0
Child == 1..MaxGeneration
Status == {"stopped", "starting", "ready", "unhealthy"}
Call == {"start", "stop", "restart"}

(* A URL is known by the child that printed it, and by whether the chunk   *)
(* it was matched in held all of its token.                                *)
NoUrl == [of |-> None, whole |-> TRUE]
Url == [of : Child \cup {None}, whole : BOOLEAN]

(* "gone": it exited and its `exit' event is pending; "failed": libuv      *)
(* could not create it and its `error' event is pending; "buried": its     *)
(* event was delivered.                                                    *)
OsState == {"unborn", "running", "gone", "failed", "buried"}
Pipe == {"empty", "line", "tail", "drained"}
Timer == [gen : Child, due : Int]

TypeOK ==
  /\ generation \in 0..MaxGeneration
  /\ proc \in Child \cup {None}
  /\ status \in Status
  /\ url \in Url
  /\ stopping \in BOOLEAN
  /\ restarts \in 0..RestartBudget
  /\ sinceRestart \in 0..RestartWindow
  /\ restartTimer \in Child \cup {None}
  /\ timers \subseteq Timer
  /\ readyIn \in 0..ReadyTimeout
  /\ queue \in Seq(Call)
  /\ victim \in Child \cup {None}
  /\ graceIn \in 0..StopGrace
  /\ os \in [Child -> OsState]
  /\ pipe \in [Child -> Pipe]
  /\ condemned \subseteq Child
  /\ told \in {"nothing", "ready", "stuck", "rejected"}

Init ==
  /\ generation = 0
  /\ proc = None
  /\ status = "stopped"
  /\ url = NoUrl
  /\ stopping = FALSE
  /\ restarts = 0
  /\ sinceRestart = RestartWindow
  /\ restartTimer = None
  /\ timers = {}
  /\ readyIn = 0
  /\ queue = <<>>
  /\ victim = None
  /\ graceIn = 0
  /\ os = [c \in Child |-> "unborn"]
  /\ pipe = [c \in Child |-> "empty"]
  /\ condemned = {}
  /\ told = "nothing"

-----------------------------------------------------------------------------
(* What several handlers do.                                               *)

(* spawnOnce for generation g: the child is created, or libuv reports its  *)
(* failure later through `error'; or launchHidden throws and the stuck     *)
(* listeners are told; or mkdirSync throws before, and the promise is      *)
(* rejected, which the caller hears of if there is one.                    *)
SpawnOnce(g, hasCaller) ==
  /\ g <= MaxGeneration
  /\ generation' = g
  /\ url' = NoUrl
  /\ \/ /\ \E fate \in {"running", "failed"} : os' = [os EXCEPT ![g] = fate]
        /\ proc' = g
        /\ status' = "starting"
        /\ readyIn' = ReadyTimeout
        /\ told' = "nothing"
     \/ /\ status' = "unhealthy"
        /\ told' = "stuck"
        /\ UNCHANGED <<os, proc, readyIn>>
     \/ /\ HomeMayFail
        /\ status' = "starting"
        /\ told' = IF hasCaller THEN "rejected" ELSE "nothing"
        /\ UNCHANGED <<os, proc, readyIn>>
  /\ UNCHANGED pipe

(* killTree: taskkill is synchronous, best effort, and its errors are      *)
(* swallowed.                                                              *)
KillTree(c) ==
  /\ condemned' = condemned \cup {c}
  /\ \/ os' = [os EXCEPT ![c] = IF @ = "running" THEN "gone" ELSE @]
     \/ KillMayFail /\ os[c] = "running" /\ UNCHANGED os

ResumesNot == stopping' = stopping
Resumes == stopping' = FALSE

ClearRestartTimer ==
  /\ timers' = {t \in timers : t.gen # restartTimer}
  /\ restartTimer' = None

BackoffDelay(n) ==
  LET doubled == BackoffBase * 2 ^ (n - 1)
  IN  IF doubled < BackoffMax THEN doubled ELSE BackoffMax

RestartsInWindowEarly == IF sinceRestart >= RestartWindow - 1 THEN 0 ELSE restarts
RestartsInWindow == IF sinceRestart >= RestartWindow THEN 0 ELSE restarts

BudgetSpentLate == RestartsInWindow > RestartBudget
BudgetSpent == RestartsInWindow >= RestartBudget

(* maybeRespawn; its guard is the handlers' own, which all call it with    *)
(* proc just set to null.                                                  *)
MaybeRespawn ==
  /\ sinceRestart' = 0
  /\ \/ /\ BudgetSpent
        /\ restarts' = RestartsInWindow
        /\ told' = "stuck"
        /\ UNCHANGED clocks
     \/ /\ ~BudgetSpent
        /\ restarts' = RestartsInWindow + 1
        /\ timers' = timers \cup
             {[gen |-> generation, due |-> BackoffDelay(RestartsInWindow + 1)]}
        /\ restartTimer' = generation
        /\ UNCHANGED told

Release ==
  /\ queue' = Tail(queue)
  /\ victim' = None
  /\ UNCHANGED graceIn

-----------------------------------------------------------------------------
(* Lifecycle calls.  start() looks at the state before it queues for the   *)
(* lock, and a call that returns there leaves no trace.                    *)

CallStart ==
  /\ status # "starting" /\ proc = None
  /\ Len(queue) < MaxQueue
  /\ queue' = Append(queue, "start")
  /\ UNCHANGED <<machine, budget, clocks, readyIn, victim, graceIn, world, told>>

CallStop ==
  /\ Len(queue) < MaxQueue
  /\ queue' = Append(queue, "stop")
  /\ UNCHANGED <<machine, budget, clocks, readyIn, victim, graceIn, world, told>>

CallRestart ==
  /\ Len(queue) < MaxQueue
  /\ queue' = Append(queue, "restart")
  /\ UNCHANGED <<machine, budget, clocks, readyIn, victim, graceIn, world, told>>

Holds(call) == queue # <<>> /\ Head(queue) = call /\ victim = None

StartFindsChild ==
  /\ Holds("start")
  /\ status = "starting" \/ proc # None
  /\ Release
  /\ UNCHANGED <<machine, budget, clocks, readyIn, world, told>>

Start ==
  /\ Holds("start")
  /\ status # "starting" /\ proc = None
  /\ Resumes
  /\ SpawnOnce(generation + 1, TRUE)
  /\ Release
  /\ UNCHANGED <<budget, clocks, condemned>>

StopIdle ==
  /\ Holds("stop")
  /\ proc = None
  /\ generation < MaxGeneration
  /\ generation' = generation + 1
  /\ stopping' = TRUE
  /\ status' = "stopped"
  /\ url' = NoUrl
  /\ ClearRestartTimer
  /\ Release
  /\ UNCHANGED <<proc, budget, readyIn, world, told>>

(* stop() and restart() with a child: kill it and wait for its exit.       *)
Retire ==
  /\ queue # <<>> /\ Head(queue) \in {"stop", "restart"} /\ victim = None
  /\ proc # None
  /\ generation < MaxGeneration
  /\ generation' = generation + 1
  /\ stopping' = TRUE
  /\ ClearRestartTimer
  /\ proc' = None
  /\ status' = "stopped"
  /\ url' = NoUrl
  /\ KillTree(proc)
  /\ victim' = proc
  /\ graceIn' = StopGrace
  /\ UNCHANGED <<budget, readyIn, queue, pipe, told>>

(* waitForExit returns at the exit event, and after STOP_GRACE_MS without  *)
(* one.                                                                    *)
WaitIsOverAtExit == os[victim] = "buried"
WaitIsOver == os[victim] = "buried" \/ graceIn = 0

StopDone ==
  /\ queue # <<>> /\ Head(queue) = "stop" /\ victim # None
  /\ WaitIsOver
  /\ Release
  /\ UNCHANGED <<machine, budget, clocks, readyIn, world, told>>

RestartIdle ==
  /\ Holds("restart")
  /\ proc = None
  /\ Resumes
  /\ ClearRestartTimer
  /\ SpawnOnce(generation + 2, TRUE)
  /\ Release
  /\ UNCHANGED <<budget, condemned>>

RestartDone ==
  /\ queue # <<>> /\ Head(queue) = "restart" /\ victim # None
  /\ WaitIsOver
  /\ Resumes
  /\ SpawnOnce(generation + 1, TRUE)
  /\ Release
  /\ UNCHANGED <<budget, clocks, condemned>>

-----------------------------------------------------------------------------
(* Events of a child.                                                      *)

MineAlways(c) == TRUE
Mine(c) == ~stopping /\ c = generation /\ proc = c

ExitIgnored(c) ==
  /\ os[c] \in {"gone", "failed"}
  /\ ~Mine(c)
  /\ os' = [os EXCEPT ![c] = "buried"]
  /\ UNCHANGED <<machine, budget, clocks, readyIn, lock, pipe, condemned, told>>

ExitHandled(c) ==
  /\ os[c] = "gone"
  /\ Mine(c)
  /\ os' = [os EXCEPT ![c] = "buried"]
  /\ proc' = None
  /\ status' = IF status = "ready" THEN "unhealthy" ELSE "stopped"
  /\ url' = NoUrl
  /\ MaybeRespawn
  /\ UNCHANGED <<generation, stopping, readyIn, lock, pipe, condemned>>

ErrorHandled(c) ==
  /\ os[c] = "failed"
  /\ Mine(c)
  /\ os' = [os EXCEPT ![c] = "buried"]
  /\ proc' = None
  /\ status' = "unhealthy"
  /\ url' = NoUrl
  /\ MaybeRespawn
  /\ UNCHANGED <<generation, stopping, readyIn, lock, pipe, condemned>>

(* tryGrabs, on a chunk of the stdout of c that READY_RE matches.  Neither *)
(* recordOutput nor tryGrabs asks which child the chunk came from, and the *)
(* pipe of a child may be drained after its exit event.                    *)
TryGrabsAlways(c, whole) ==
  url' = [of |-> c, whole |-> whole] /\ status' = "ready" /\ told' = "ready"
TryGrabsUnnoticed(c, whole) ==
  /\ url' = IF status = "starting" THEN [of |-> c, whole |-> whole] ELSE url
  /\ status' = IF status = "starting" THEN "ready" ELSE status
  /\ UNCHANGED told
TryGrabs(c, whole) ==
  \/ /\ status = "starting"
     /\ url' = [of |-> c, whole |-> whole]
     /\ status' = "ready"
     /\ told' = "ready"
  \/ /\ status # "starting"
     /\ UNCHANGED <<url, status, told>>

(* The launch line arrives as one chunk, or cut inside its token, where    *)
(* READY_RE already matches.                                               *)
OutputLine(c) ==
  /\ pipe[c] = "line"
  /\ \/ pipe' = [pipe EXCEPT ![c] = "drained"] /\ TryGrabs(c, TRUE)
     \/ pipe' = [pipe EXCEPT ![c] = "tail"]    /\ TryGrabs(c, FALSE)
  /\ UNCHANGED <<generation, proc, stopping, budget, clocks, readyIn, lock,
                 os, condemned>>

(* The rest of a cut line: the buffer holds the whole URL again unless a   *)
(* spawn emptied it, and an instance that is ready is not looked at again. *)
OutputTail(c) ==
  /\ pipe[c] = "tail"
  /\ pipe' = [pipe EXCEPT ![c] = "drained"]
  /\ UNCHANGED <<machine, budget, clocks, readyIn, lock, os, condemned, told>>

-----------------------------------------------------------------------------
(* Timers.                                                                 *)

(* What the callback of the timer checks before it spawns.                 *)
SupersededOnceReady(t) ==
  stopping \/ t.gen # generation \/ proc # None \/ status = "unhealthy"
Superseded(t) == stopping \/ t.gen # generation \/ proc # None

RespawnTimerStale(t) ==
  /\ t.due = 0
  /\ Superseded(t)
  /\ timers' = timers \ {t}
  /\ restartTimer' = None
  /\ UNCHANGED <<machine, budget, readyIn, lock, world, told>>

RespawnTimer(t) ==
  /\ t.due = 0
  /\ ~Superseded(t)
  /\ timers' = timers \ {t}
  /\ restartTimer' = None
  /\ SpawnOnce(generation + 1, FALSE)
  /\ UNCHANGED <<stopping, budget, lock, condemned>>

(* The deadline of a child that is no longer proc does nothing; the one of *)
(* proc fires once, so a child it condemned already is not looked at again.*)
DeadlineMissedReady ==
  /\ proc # None /\ proc = generation /\ proc \notin condemned
  /\ status = "ready" /\ readyIn = 0
DeadlineMissed ==
  /\ proc # None /\ proc = generation /\ proc \notin condemned
  /\ status = "starting" /\ readyIn = 0

ReadinessTimeout ==
  /\ DeadlineMissed
  /\ KillTree(proc)
  /\ UNCHANGED <<machine, budget, clocks, readyIn, lock, pipe, told>>

Tick ==
  /\ sinceRestart' = IF sinceRestart < RestartWindow THEN sinceRestart + 1
                                                     ELSE sinceRestart
  /\ readyIn' = IF readyIn > 0 THEN readyIn - 1 ELSE 0
  /\ graceIn' = IF graceIn > 0 THEN graceIn - 1 ELSE 0
  /\ timers' = {[gen |-> t.gen, due |-> IF t.due > 0 THEN t.due - 1 ELSE 0]
                : t \in timers}
  /\ UNCHANGED <<machine, restarts, restartTimer, queue, victim, world, told>>

-----------------------------------------------------------------------------
(* The dsh processes themselves (external): one prints its URL once, and   *)
(* may exit at any moment.                                                 *)

PrintUrl(c) ==
  /\ os[c] = "running"
  /\ pipe[c] = "empty"
  /\ pipe' = [pipe EXCEPT ![c] = "line"]
  /\ UNCHANGED <<machine, budget, clocks, readyIn, lock, os, condemned, told>>

Die(c) ==
  /\ os[c] = "running"
  /\ os' = [os EXCEPT ![c] = "gone"]
  /\ UNCHANGED <<machine, budget, clocks, readyIn, lock, pipe, condemned, told>>

-----------------------------------------------------------------------------
Calls == CallStart \/ CallStop \/ CallRestart

Lifecycle ==
  \/ StartFindsChild \/ Start
  \/ StopIdle \/ Retire \/ StopDone
  \/ RestartIdle \/ RestartDone

Events ==
  \E c \in Child : \/ ExitIgnored(c) \/ ExitHandled(c) \/ ErrorHandled(c)
                   \/ OutputLine(c) \/ OutputTail(c)

RespawnTimers == \E t \in timers : RespawnTimerStale(t) \/ RespawnTimer(t)

Processes == \E c \in Child : PrintUrl(c) \/ Die(c)

Next ==
  \/ Calls \/ Lifecycle \/ Events \/ RespawnTimers \/ ReadinessTimeout
  \/ Tick \/ Processes

Spec == Init /\ [][Next]_vars

(* The event loop keeps turning: what is queued is taken, what is armed    *)
(* fires, what has happened to a child is delivered.  Nothing is assumed   *)
(* of callers, nor of dsh.                                                 *)
Fairness ==
  /\ WF_vars(Lifecycle)
  /\ \A c \in Child : /\ WF_vars(ExitIgnored(c) \/ ExitHandled(c) \/ ErrorHandled(c))
                      /\ WF_vars(OutputLine(c) \/ OutputTail(c))
  /\ WF_vars(RespawnTimers)
  /\ WF_vars(ReadinessTimeout)
  /\ WF_vars(Tick)

FairSpec == Spec /\ Fairness

-----------------------------------------------------------------------------
(* State formulae.                                                         *)

Live(c) == os[c] = "running"
AwaitsRespawn == \E t \in timers : t.gen = generation

(* The child the supervisor holds is the one of the current generation,    *)
(* and no stop() is in force while it holds one: the handlers of the child *)
(* it holds are never among those it ignores.                              *)
ChildIsCurrent == proc # None => proc = generation /\ ~stopping

(* What a caller of statusValue sees agrees with the child: `starting' and *)
(* `ready' only with a child, a URL only while ready.  A `starting'        *)
(* without a child would turn every later start() into a no-op.            *)
StatusMatchesChild ==
  /\ status \in {"starting", "ready"} <=> proc # None
  /\ url # NoUrl <=> status = "ready"

(* No dsh is lost: a process that runs is the one the supervisor holds, or *)
(* one it has already tried to kill.                                       *)
NoOrphan == \A c \in Child : Live(c) => c = proc \/ c \in condemned

(* ROADMAP-0.7.0: the lifecycle never creates duplicate DSH roots.  It     *)
(* rests on taskkill doing its work.                                       *)
OneRoot == \A c, d \in Child : Live(c) /\ Live(d) => c = d

(* A crash is answered: with no child, no lifecycle call pending and no    *)
(* stop() in force, a respawn is scheduled, or the stuck listeners or the  *)
(* caller know.                                                            *)
NoSilentDeath ==
  generation > 0 /\ ~stopping /\ proc = None =>
    AwaitsRespawn \/ told \in {"stuck", "rejected"}

(* The ready listeners and the status agree: whoever was last told `ready' *)
(* while a child is up is looking at a ready instance, and `stuck' is      *)
(* never the last word on a child that runs.                               *)
ListenersAgree ==
  proc # None =>
    /\ told = "ready" <=> status = "ready"
    /\ told \notin {"stuck", "rejected"}

(* What the supervisor and its listeners believe of dsh is so.             *)
StatusIsTrue == StatusMatchesChild /\ ListenersAgree

(* A wait in stop() or restart() excludes every other way to spawn.        *)
QuietWait == victim # None => stopping /\ proc = None /\ queue # <<>>

(* Strengthening: a generation not reached yet has no child and no timer,  *)
(* and if taskkill does its work what was killed does not run.             *)
Numbering ==
  /\ \A c \in Child : c > generation => os[c] = "unborn" /\ c \notin condemned
  /\ \A t \in timers : t.gen <= generation

KilledAreDead == ~KillMayFail => \A c \in condemned : ~Live(c)

(* The two inductive invariants: the first whatever fails, the second if   *)
(* the home directory can be created.                                      *)
ChildInv ==
  /\ TypeOK /\ ChildIsCurrent /\ QuietWait /\ NoOrphan /\ ListenersAgree
  /\ Numbering /\ KilledAreDead

StatusInv == ChildInv /\ StatusIsTrue /\ NoSilentDeath

(* Past stop(), nothing but an explicit call brings a dsh back: no timer,  *)
(* no event of a dead child starts one while `stopping' is in force.       *)
StopIsFinal ==
  [][stopping /\ stopping' =>
       \A c \in Child : os[c] = "unborn" => os'[c] = "unborn"]_vars

(* Every lifecycle call returns: the lock is not held for ever, whatever   *)
(* taskkill and the child do, as long as the bound leaves it a generation. *)
OutOfGenerations ==
  \/ generation = MaxGeneration
  \/ generation = MaxGeneration - 1 /\ victim = None

CallsReturn == queue # <<>> ~> queue = <<>> \/ OutOfGenerations

(* A child is not left starting for ever: it becomes ready, or it is gone, *)
(* killed at the deadline if it hangs.  Only a taskkill that failed leaves *)
(* it there.                                                               *)
BootsAreDecided ==
  \A g \in Child :
    proc = g /\ status = "starting" ~>
      \/ ~(proc = g /\ status = "starting")
      \/ g \in condemned /\ Live(g)

(* A crashed harness comes back: an armed respawn is carried out, or a     *)
(* lifecycle call takes its place.                                         *)
RespawnHappens ==
  \A g \in Child :
    (generation = g /\ AwaitsRespawn /\ g < MaxGeneration) ~> generation # g

(* No boot and no crash is left undecided.                                 *)
DeathsAreDecided == BootsAreDecided /\ RespawnHappens
-----------------------------------------------------------------------------
(* The contract: what a shell that sees only the supervisor relies on.     *)

Phase ==
  IF proc # None THEN IF status = "ready" THEN "ready" ELSE "booting"
  ELSE IF generation = 0 \/ stopping THEN "down"
  ELSE IF told = "stuck" THEN "gaveUp" ELSE "backoff"

Launched == {c \in Child : os[c] # "unborn"}

Contract == INSTANCE Supervision WITH
  Budget <- RestartBudget,
  phase <- Phase,
  tries <- restarts,
  launches <- Cardinality(Launched)

(* The supervisor implements the contract of Supervision: a dsh is         *)
(* launched only once the one before is out of its hands, and a death is   *)
(* answered within the budget or reported.                                 *)
KeepsContract == Contract!Spec
=============================================================================
