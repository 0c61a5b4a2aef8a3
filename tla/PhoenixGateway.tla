---------------------------- MODULE PhoenixGateway ----------------------------
(***************************************************************************)
(* The owner of the Phoenix gateway process                                *)
(* (apps/shell/src/main/phoenix-gateway.ts): startPhoenixGateway, the      *)
(* health loop of launchAndWait, the restart after an exit, stop().        *)
(*                                                                         *)
(* A launch is a RunningChild record, numbered in order.  Two coroutines   *)
(* run between events: launchAndWait, at most one at a time because every  *)
(* way to start one waits for the last to end, and stop().  Both may be    *)
(* inside terminate() together, on the same child.                         *)
(*                                                                         *)
(* The readiness deadline is the number of probes that fit before it.      *)
(* restartAttempt only sets how long the restart timer runs, and a timer   *)
(* here fires at any later moment, so it is left out.  The `error' event   *)
(* of a child that could not be spawned comes with a non-null exitCode and *)
(* runs the code of `exit'.  restart() has no caller and is left out.      *)
(***************************************************************************)
EXTENDS Integers

CONSTANTS
  MaxLaunches,     \* bound on the records created
  MaxProbes,       \* most health probes that fit before the deadline
  KillMayFail,     \* whether a child may survive SIGKILL
  LateAnswers      \* whether a health answer may be read after the exit event
                   \* of the child that was probed

ASSUME GatewayAssumption ==
  /\ MaxLaunches \in Nat \ {0}
  /\ MaxProbes \in Nat \ {0}
  /\ KillMayFail \in BOOLEAN
  /\ LateAnswers \in BOOLEAN

VARIABLES
  outcome,      \* what startPhoenixGateway has come to
  stopped,      \* the flag stopped
  active,       \* the record `active' points to, or None
  restartTimer, \* the record whose scheduleRestart armed restartTimer, or None
  intentional,  \* the records with intentional set
  ready,        \* the records with ready set
  restartScheduled, \* the records with restartScheduled set
  launching,    \* the record launchAndWait works on, or None
  owner,        \* the record whose timer called launchAndWait, or None
  at,           \* where launchAndWait is
  probes,       \* health probes left before its deadline
  answered,     \* whether an answer to its pending probe is on its way
  stopping,     \* where stop() is
  stopVictim,   \* the record stop() terminates, or None
  os,           \* what the operating system and libuv know of each child
  given         \* the records a terminate() gave up on

marks  == <<intentional, ready, restartScheduled>>
gate   == <<outcome, stopped, active, restartTimer>>
launch == <<launching, owner, at, probes, answered>>
stop   == <<stopping, stopVictim>>
world  == <<os, given>>
vars == <<gate, marks, launch, stop, world>>

None == 0
Launch == 1..MaxLaunches

(* "gone": exited, its `exit' event is pending; "dead": delivered, and     *)
(* childAlive is false.                                                    *)
OsState == {"unborn", "running", "gone", "dead"}

TypeOK ==
  /\ outcome \in {"none", "starting", "up", "failed"}
  /\ stopped \in BOOLEAN
  /\ active \in Launch \cup {None}
  /\ restartTimer \in Launch \cup {None}
  /\ intentional \subseteq Launch
  /\ ready \subseteq Launch
  /\ restartScheduled \subseteq Launch
  /\ launching \in Launch \cup {None}
  /\ owner \in Launch \cup {None}
  /\ at \in {"idle", "loop", "asking", "sigterm", "sigkill"}
  /\ probes \in 0..MaxProbes
  /\ answered \in BOOLEAN
  /\ stopping \in {"no", "sigterm", "sigkill", "done", "failed"}
  /\ stopVictim \in Launch \cup {None}
  /\ os \in [Launch -> OsState]
  /\ given \subseteq Launch

Init ==
  /\ outcome = "none"
  /\ stopped = FALSE
  /\ active = None
  /\ restartTimer = None
  /\ intentional = {}
  /\ ready = {}
  /\ restartScheduled = {}
  /\ launching = None
  /\ owner = None
  /\ at = "idle"
  /\ probes = 0
  /\ answered = FALSE
  /\ stopping = "no"
  /\ stopVictim = None
  /\ os = [l \in Launch |-> "unborn"]
  /\ given = {}

-----------------------------------------------------------------------------
childAliveUnkilled(l) == os[l] \in {"running", "gone"} /\ l \notin intentional
childAlive(l) == os[l] \in {"running", "gone"}

(* The wait after SIGKILL ends without a close.                            *)
GivesUpNever(l) == FALSE
GivesUp(l) == os[l] = "running"

(* Records are created in order.                                           *)
Fresh(l) == os[l] = "unborn" /\ \A k \in Launch : k < l => os[k] # "unborn"

(* proc.kill: the child dies at once, or later.                            *)
Kill(l, sure) ==
  \/ os' = [os EXCEPT ![l] = IF @ = "running" THEN "gone" ELSE @]
  \/ ~sure /\ os[l] = "running" /\ UNCHANGED os

(* scheduleRestart of record r, where it finds the records in `already'    *)
(* scheduled and the timer `timer' armed.                                  *)
MayScheduleUnready(r, already, timer) ==
  ~stopped /\ r \notin intentional \cup already /\ timer = None
MaySchedule(r, already, timer) ==
  ~stopped /\ r \in ready \ (intentional \cup already) /\ timer = None

ScheduleRestart(r, already, timer) ==
  LET may == MaySchedule(r, already, timer)
  IN  /\ restartTimer' = IF may THEN r ELSE timer
      /\ restartScheduled' = IF may THEN already \cup {r} ELSE already

(* launchAndWait up to its first await: a child runs and is probed, or     *)
(* could not be spawned and its event is pending.                          *)
Launched(l, o) ==
  /\ Fresh(l)
  /\ \E fate \in {"running", "gone"} : os' = [os EXCEPT ![l] = fate]
  /\ active' = l
  /\ launching' = l
  /\ owner' = o
  /\ at' = "loop"
  /\ probes' \in 1..MaxProbes
  /\ answered' = FALSE

(* The rejection of launchAndWait, as its caller hears it: the boot fails, *)
(* or the timer's catch clears the guard of the record that armed it and   *)
(* schedules again on behalf of that record.                               *)
RejectedForgets(o, timer) ==
  IF o = None
    THEN /\ outcome' = "failed" /\ stopped' = TRUE
         /\ UNCHANGED <<restartTimer, restartScheduled>>
    ELSE /\ ScheduleRestart(o, restartScheduled, timer)
         /\ UNCHANGED <<outcome, stopped>>
Rejected(o, timer) ==
  IF o = None
    THEN /\ outcome' = "failed" /\ stopped' = TRUE
         /\ UNCHANGED <<restartTimer, restartScheduled>>
    ELSE /\ ScheduleRestart(o, restartScheduled \ {o}, timer)
         /\ UNCHANGED <<outcome, stopped>>

-----------------------------------------------------------------------------
(* startPhoenixGateway.                                                    *)

Boot ==
  /\ outcome = "none"
  /\ outcome' = "starting"
  /\ Launched(1, None)
  /\ UNCHANGED <<stopped, restartTimer, marks, stop, given>>

(* verifyPhoenixPayload, freeLoopbackPort or launchHidden throws.          *)
BootThrows ==
  /\ outcome = "none"
  /\ outcome' = "failed"
  /\ stopped' = TRUE
  /\ UNCHANGED <<active, restartTimer, marks, launch, stop, world>>

-----------------------------------------------------------------------------
(* The health loop of launchAndWait.                                       *)

TimeLeftLate == probes >= 0
TimeLeft == probes > 0

ProbesLeftRestarted == probes
ProbesLeft == probes - 1

Probe ==
  /\ at = "loop"
  /\ TimeLeft
  /\ childAlive(launching)
  /\ at' = "asking"
  /\ answered' = FALSE
  /\ UNCHANGED <<gate, marks, launching, owner, probes, stop, world>>

(* fetch resolves with 200: nothing asks again whether the child is alive. *)
Healthy ==
  /\ at = "asking"
  /\ answered
  /\ os[launching] # "dead" \/ LateAnswers
  /\ ready' = ready \cup {launching}
  /\ outcome' = "up"
  /\ launching' = None
  /\ at' = "idle"
  /\ UNCHANGED <<stopped, active, restartTimer, intentional, restartScheduled,
                 owner, probes, answered, stop, world>>

(* fetch fails, times out or brings another status; then the 250 ms wait.  *)
Unhealthy ==
  /\ at = "asking"
  /\ at' = "loop"
  /\ probes' = ProbesLeft
  /\ UNCHANGED <<gate, marks, launching, owner, answered, stop, world>>

(* After terminate() in the catch block: the launch is over and failed.    *)
LaunchOver ==
  /\ launching' = None
  /\ at' = "idle"
  /\ active' = IF active = launching THEN None ELSE active
  /\ UNCHANGED <<owner, probes, answered>>

(* The child exited, which needs no terminate().                           *)
LaunchFindsDead ==
  /\ at = "loop"
  /\ ~childAlive(launching)
  /\ intentional' = intentional \cup {launching}
  /\ Rejected(owner, restartTimer)
  /\ LaunchOver
  /\ UNCHANGED <<ready, stop, world>>

(* The deadline passed: mark it intentional and terminate it.              *)
DeadlinePassed ==
  /\ at = "loop"
  /\ ~TimeLeft
  /\ childAlive(launching)
  /\ intentional' = intentional \cup {launching}
  /\ Kill(launching, FALSE)
  /\ at' = "sigterm"
  /\ UNCHANGED <<gate, ready, restartScheduled, launching, owner, probes, answered,
                 stop, given>>

LaunchEscalates ==
  /\ at = "sigterm"
  /\ childAlive(launching)
  /\ Kill(launching, ~KillMayFail)
  /\ at' = "sigkill"
  /\ UNCHANGED <<gate, marks, launching, owner, probes, answered, stop, given>>

LaunchTerminated ==
  /\ at \in {"sigterm", "sigkill"}
  /\ ~childAlive(launching)
  /\ Rejected(owner, restartTimer)
  /\ LaunchOver
  /\ UNCHANGED <<intentional, ready, stop, world>>

(* terminate() throws, and the catch block swallows it.                    *)
LaunchAbandons ==
  /\ at = "sigkill"
  /\ GivesUp(launching)
  /\ given' = given \cup {launching}
  /\ Rejected(owner, restartTimer)
  /\ LaunchOver
  /\ UNCHANGED <<intentional, ready, stop, os>>

-----------------------------------------------------------------------------
(* The restart timer of scheduleRestart.                                   *)

RestartTimer(l) ==
  /\ restartTimer # None
  /\ ~stopped
  /\ restartTimer' = None
  /\ Launched(l, restartTimer)
  /\ UNCHANGED <<outcome, stopped, marks, stop, given>>

(* launchHidden throws: the same rejection, without a new record.          *)
RestartThrows ==
  /\ restartTimer # None
  /\ ~stopped
  /\ Rejected(restartTimer, None)
  /\ UNCHANGED <<active, intentional, ready, launch, stop, world>>

-----------------------------------------------------------------------------
(* stop().                                                                 *)

MarkStoppedLate == stopped' = stopped
MarkStopped == stopped' = TRUE

Stop ==
  /\ outcome = "up"
  /\ stopping = "no"
  /\ MarkStopped
  /\ restartTimer' = None
  /\ \/ /\ active = None
        /\ stopping' = "done"
        /\ UNCHANGED <<active, intentional, stopVictim, os>>
     \/ /\ active # None
        /\ ~childAlive(active)
        /\ intentional' = intentional \cup {active}
        /\ active' = None
        /\ stopping' = "done"
        /\ UNCHANGED <<stopVictim, os>>
     \/ /\ active # None
        /\ childAlive(active)
        /\ intentional' = intentional \cup {active}
        /\ Kill(active, FALSE)
        /\ stopping' = "sigterm"
        /\ stopVictim' = active
        /\ UNCHANGED active
  /\ UNCHANGED <<outcome, ready, restartScheduled, launch, given>>

StopEscalates ==
  /\ stopping = "sigterm"
  /\ childAlive(stopVictim)
  /\ Kill(stopVictim, ~KillMayFail)
  /\ stopping' = "sigkill"
  /\ UNCHANGED <<gate, marks, launch, stopVictim, given>>

StopTerminated ==
  /\ stopping \in {"sigterm", "sigkill"}
  /\ ~childAlive(stopVictim)
  /\ stopping' = "done"
  /\ active' = None
  /\ UNCHANGED <<outcome, stopped, restartTimer, marks, launch, stopVictim, world>>

(* terminate() throws, and stop() is rejected.                             *)
StopAbandons ==
  /\ stopping = "sigkill"
  /\ GivesUp(stopVictim)
  /\ given' = given \cup {stopVictim}
  /\ stopping' = "failed"
  /\ UNCHANGED <<gate, marks, launch, stopVictim, os>>

-----------------------------------------------------------------------------
(* The exit event of a child.                                              *)

Exit(l) ==
  /\ os[l] = "gone"
  /\ os' = [os EXCEPT ![l] = "dead"]
  /\ ScheduleRestart(l, restartScheduled, restartTimer)
  /\ UNCHANGED <<outcome, stopped, active, intentional, ready, launch, stop, given>>

-----------------------------------------------------------------------------
(* The Phoenix processes (external): one may exit at any moment, and any   *)
(* that runs and holds the port answers a probe.                           *)

Answer ==
  /\ at = "asking"
  /\ ~answered
  /\ \E l \in Launch : os[l] = "running"
  /\ answered' = TRUE
  /\ UNCHANGED <<gate, marks, launching, owner, at, probes, stop, world>>

Die(l) ==
  /\ os[l] = "running"
  /\ os' = [os EXCEPT ![l] = "gone"]
  /\ UNCHANGED <<gate, marks, launch, stop, given>>

-----------------------------------------------------------------------------
Booting == Boot \/ BootThrows

Launching ==
  \/ Probe \/ Healthy \/ Unhealthy \/ LaunchFindsDead
  \/ DeadlinePassed \/ LaunchEscalates \/ LaunchTerminated \/ LaunchAbandons

Restarting == RestartThrows \/ \E l \in Launch : RestartTimer(l)

Stopping == StopEscalates \/ StopTerminated \/ StopAbandons

Processes == Answer \/ \E l \in Launch : Die(l)

Next ==
  \/ Booting \/ Launching \/ Restarting \/ Stop \/ Stopping
  \/ \E l \in Launch : Exit(l)
  \/ Processes

Spec == Init /\ [][Next]_vars

(* The event loop takes what is ready and timers fire; a spawn that fails  *)
(* now and then does not fail for ever.                                    *)
Fairness ==
  /\ WF_vars(Launching)
  /\ SF_vars(\E l \in Launch : RestartTimer(l))
  /\ WF_vars(Stopping)
  /\ \A l \in Launch : WF_vars(Exit(l))

FairSpec == Spec /\ Fairness

-----------------------------------------------------------------------------
Live(l) == os[l] = "running"
Spent == \A l \in Launch : os[l] # "unborn"

(* Nothing is launched next to a launch still undecided: launchAndWait     *)
(* never runs twice at once, though nothing in it says so.                 *)
OneLaunch == restartTimer # None => launching = None

(* Two gateways never hold the port: there is a second live child only     *)
(* when terminate() gave up on the first.                                  *)
OneGateway == \A k, l \in Launch : Live(k) /\ Live(l) /\ k < l => k \in given

(* "owns its restart/stop lifecycle": a live child is the active one, or   *)
(* one terminate() gave up on.                                             *)
NoOrphan == \A l \in Launch : Live(l) => l = active \/ l \in given

(* After stop() has returned no gateway is left, but one that survived     *)
(* SIGKILL.                                                                *)
StopLeavesNone == stopping = "done" => \A l \in Launch : Live(l) => l \in given

(* A gateway that was up and is down is coming back: a restart is armed or *)
(* under way, or an exit event that will arm it is pending.                *)
NoSilentDeath ==
  outcome = "up" /\ ~stopped =>
    \/ restartTimer # None
    \/ launching # None
    \/ \E l \in Launch : childAlive(l) /\ l \in ready

(* After stop() was called nothing is launched.                            *)
NothingAfterStop ==
  [][stopping # "no" => \A l \in Launch : os[l] = "unborn" => os'[l] = "unborn"]_vars

(* stop() is final: nothing is launched from then on, and nothing is left    *)
(* once it has returned.                                                   *)
StopIsFinal == NothingAfterStop /\ []StopLeavesNone

(* The boot ends, up or failed, whatever Phoenix does.                     *)
BootEnds == outcome = "starting" ~> outcome \in {"up", "failed"}

(* stop() returns, or is rejected.                                         *)
StopReturns == stopping # "no" ~> stopping \in {"done", "failed"}

(* Whoever waits for the gateway, to start or to stop, is answered.        *)
CallsEnd == BootEnds /\ StopReturns

(* Phoenix is not left permanently down: after each exit another child is  *)
(* launched.                                                               *)
Recovers ==
  \A l \in Launch :
    (outcome = "up" /\ ~stopped /\ active = l /\ ~childAlive(l)) ~>
      active \notin {l, None} \/ stopped \/ Spent
=============================================================================
