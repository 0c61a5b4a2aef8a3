------------------------ MODULE PhoenixGateway_proofs ------------------------
(***************************************************************************)
(* Proofs about PhoenixGateway, for every number of launches and probes.   *)
(* Type correctness comes first, then the inductive invariant IInv, and    *)
(* then the theorems that follow from it.                                  *)
(***************************************************************************)
EXTENDS MCGateway, TLAPS

USE DEF None

-----------------------------------------------------------------------------
(* Type correctness.                                                       *)

LEMMA KillType ==
  ASSUME TypeOK, NEW l \in Launch, NEW sure \in BOOLEAN, Kill(l, sure)
  PROVE  os' \in [Launch -> OsState]
  BY DEF Kill, TypeOK, OsState

LEMMA LaunchedType ==
  ASSUME TypeOK, NEW l \in Launch, NEW o \in Launch \cup {None}, Launched(l, o)
  PROVE  /\ os' \in [Launch -> OsState]
         /\ active' \in Launch
         /\ launching' \in Launch
         /\ owner' \in Launch \cup {None}
         /\ at' = "loop"
         /\ probes' \in 0..MaxProbes
         /\ answered' \in BOOLEAN
<1>1. probes' \in 0..MaxProbes
  BY GatewayAssumption DEF Launched
<1>2. os' \in [Launch -> OsState]
  BY DEF Launched, TypeOK, OsState
<1> QED
  BY <1>1, <1>2 DEF Launched

LEMMA RejectedType ==
  ASSUME TypeOK, NEW o \in Launch \cup {None}, NEW t \in Launch \cup {None},
         Rejected(o, t)
  PROVE  /\ outcome' \in {"none", "starting", "up", "failed"}
         /\ stopped' \in BOOLEAN
         /\ restartTimer' \in Launch \cup {None}
         /\ restartScheduled' \subseteq Launch
<1>1. CASE o = None
  BY <1>1 DEF Rejected, TypeOK
<1>2. CASE o # None
  <2>1. restartTimer' \in {o, t}
    BY <1>2 DEF Rejected, ScheduleRestart
  <2>2. restartScheduled' \subseteq restartScheduled \cup {o}
    BY <1>2 DEF Rejected, ScheduleRestart
  <2> QED
    BY <1>2, <2>1, <2>2 DEF Rejected, TypeOK
<1> QED
  BY <1>1, <1>2

(* Where a coroutine is tells what it works on.                            *)
Places ==
  /\ at # "idle" => launching # None
  /\ at = "asking" => probes # 0
  /\ stopping \in {"sigterm", "sigkill"} => stopVictim # None

TypeInv == TypeOK /\ Places

LEMMA InitType == Init => TypeInv
<1> SUFFICES ASSUME Init PROVE TypeInv
  OBVIOUS
<1>1. os \in [Launch -> OsState]
  BY DEF Init, OsState
<1>2. probes \in 0..MaxProbes
  BY GatewayAssumption DEF Init
<1> QED
  BY <1>1, <1>2 DEF Init, TypeInv, TypeOK, Places

LEMMA NextType == TypeInv /\ [Next]_vars => TypeInv'
<1> SUFFICES ASSUME TypeInv, [Next]_vars PROVE TypeInv'
  OBVIOUS
<1> USE DEF TypeInv
<1>1. CASE Booting
  <2>1. CASE Boot
    <3>1. 1 \in Launch
      BY GatewayAssumption DEF Launch
    <3>2. Launched(1, None)
      BY <2>1 DEF Boot
    <3>3. 0 \notin Launch
      BY DEF Launch
    <3> QED
      BY <2>1, <3>1, <3>2, <3>3, LaunchedType DEF Boot, TypeOK, Places, Launched, marks, stop
  <2>2. CASE BootThrows
    BY <2>2 DEF BootThrows, TypeOK, Places, marks, launch, stop, world
  <2> QED
    BY <1>1, <2>1, <2>2 DEF Booting
<1>2. CASE Launching
  <2>0. at # "idle" /\ launching \in Launch
    BY <1>2 DEF Launching, Probe, Healthy, Unhealthy, LaunchFindsDead, DeadlinePassed,
               LaunchEscalates, LaunchTerminated, LaunchAbandons, TypeOK, Places
  <2>1. CASE Probe
    <3>1. probes # 0
      BY <2>1 DEF Probe, TimeLeft
    <3> QED
      BY <2>0, <2>1, <3>1 DEF Probe, TypeOK, Places, gate, marks, stop, world
  <2>2. CASE Healthy
    BY <2>0, <2>2 DEF Healthy, TypeOK, Places, stop, world
  <2>3. CASE Unhealthy
    BY <2>3, GatewayAssumption
       DEF Unhealthy, ProbesLeft, TypeOK, Places, gate, marks, stop, world
  <2>4. CASE LaunchFindsDead
    <3>1. Rejected(owner, restartTimer)
      BY <2>4 DEF LaunchFindsDead
    <3>2. intentional' \subseteq Launch
      BY <2>0, <2>4 DEF LaunchFindsDead, TypeOK
    <3> QED
      BY <2>4, <3>1, <3>2, RejectedType
         DEF LaunchFindsDead, LaunchOver, TypeOK, Places, stop, world
  <2>5. CASE DeadlinePassed
    <3>1. os' \in [Launch -> OsState]
      BY <2>0, <2>5, KillType DEF DeadlinePassed
    <3>2. intentional' \subseteq Launch
      BY <2>0, <2>5 DEF DeadlinePassed, TypeOK
    <3> QED
      BY <2>0, <2>5, <3>1, <3>2 DEF DeadlinePassed, TypeOK, Places, gate, stop
  <2>6. CASE LaunchEscalates
    <3>1. os' \in [Launch -> OsState]
      BY <2>0, <2>6, KillType, GatewayAssumption DEF LaunchEscalates
    <3> QED
      BY <2>0, <2>6, <3>1 DEF LaunchEscalates, TypeOK, Places, gate, marks, stop
  <2>7. CASE LaunchTerminated
    <3>1. Rejected(owner, restartTimer)
      BY <2>7 DEF LaunchTerminated
    <3> QED
      BY <2>7, <3>1, RejectedType
         DEF LaunchTerminated, LaunchOver, TypeOK, Places, stop, world
  <2>8. CASE LaunchAbandons
    <3>1. Rejected(owner, restartTimer)
      BY <2>8 DEF LaunchAbandons
    <3>2. given' \subseteq Launch
      BY <2>0, <2>8 DEF LaunchAbandons, TypeOK
    <3> QED
      BY <2>8, <3>1, <3>2, RejectedType
         DEF LaunchAbandons, LaunchOver, TypeOK, Places, stop
  <2> QED
    BY <1>2, <2>1, <2>2, <2>3, <2>4, <2>5, <2>6, <2>7, <2>8 DEF Launching
<1>3. CASE Restarting
  <2>1. ASSUME NEW l \in Launch, RestartTimer(l) PROVE TypeInv'
    <3>1. Launched(l, restartTimer)
      BY <2>1 DEF RestartTimer
    <3>2. 0 \notin Launch
      BY DEF Launch
    <3> QED
      BY <2>1, <3>1, <3>2, LaunchedType
         DEF RestartTimer, TypeOK, Places, Launched, marks, stop
  <2>2. CASE RestartThrows
    <3>1. Rejected(restartTimer, None)
      BY <2>2 DEF RestartThrows
    <3> QED
      BY <2>2, <3>1, RejectedType DEF RestartThrows, TypeOK, Places, launch, stop, world
  <2> QED
    BY <1>3, <2>1, <2>2 DEF Restarting
<1>4. CASE Stop
  <2>1. intentional' \subseteq Launch /\ active' \in Launch \cup {None}
    BY <1>4 DEF Stop, TypeOK
  <2>2. os' \in [Launch -> OsState]
    BY <1>4, KillType DEF Stop, TypeOK
  <2>3. /\ stopping' \in {"sigterm", "done"}
        /\ stopVictim' \in Launch \cup {None}
        /\ stopping' = "sigterm" => stopVictim' # None
    BY <1>4 DEF Stop, TypeOK
  <2> QED
    BY <1>4, <2>1, <2>2, <2>3 DEF Stop, MarkStopped, TypeOK, Places, launch
<1>5. CASE Stopping
  <2>0. stopVictim \in Launch
    BY <1>5 DEF Stopping, StopEscalates, StopTerminated, StopAbandons, TypeOK, Places
  <2>1. CASE StopEscalates
    <3>1. os' \in [Launch -> OsState]
      BY <2>0, <2>1, KillType, GatewayAssumption DEF StopEscalates
    <3> QED
      BY <2>0, <2>1, <3>1 DEF StopEscalates, TypeOK, Places, gate, marks, launch
  <2>2. CASE StopTerminated
    BY <2>2 DEF StopTerminated, TypeOK, Places, marks, launch, world
  <2>3. CASE StopAbandons
    <3>1. given' \subseteq Launch
      BY <2>0, <2>3 DEF StopAbandons, TypeOK
    <3> QED
      BY <2>3, <3>1 DEF StopAbandons, TypeOK, Places, gate, marks, launch
  <2> QED
    BY <1>5, <2>1, <2>2, <2>3 DEF Stopping
<1>6. ASSUME NEW l \in Launch, Exit(l) PROVE TypeInv'
  <2>1. restartTimer' \in Launch \cup {None} /\ restartScheduled' \subseteq Launch
    BY <1>6 DEF Exit, ScheduleRestart, TypeOK
  <2>2. os' \in [Launch -> OsState]
    BY <1>6 DEF Exit, TypeOK, OsState
  <2> QED
    BY <1>6, <2>1, <2>2 DEF Exit, TypeOK, Places, launch, stop
<1>7. CASE Processes
  <2>1. os' \in [Launch -> OsState] /\ answered' \in BOOLEAN
    BY <1>7 DEF Processes, Answer, Die, TypeOK, OsState, launch, world
  <2> QED
    BY <1>7, <2>1 DEF Processes, Answer, Die, TypeOK, Places, gate, marks, launch, stop, world
<1>8. CASE UNCHANGED vars
  BY <1>8 DEF vars, TypeOK, Places, gate, marks, launch, stop, world
<1> QED
  BY <1>1, <1>2, <1>3, <1>4, <1>5, <1>6, <1>7, <1>8 DEF Next

(* Type correctness of every reachable state.                              *)
THEOREM TypeCorrect == Spec => []TypeOK
<1>1. Spec => []TypeInv
  BY InitType, NextType, PTL DEF Spec
<1>2. TypeInv => TypeOK
  BY DEF TypeInv
<1> QED
  BY <1>1, <1>2, PTL

-----------------------------------------------------------------------------
(* The inductive invariant.                                                *)

Born(l) == os[l] # "unborn"

(* Before the boot there is nothing.                                       *)
BootInv ==
  outcome = "none" =>
    /\ \A l \in Launch : ~Born(l)
    /\ launching = None
    /\ restartTimer = None
    /\ active = None
    /\ stopping = "no"

(* Records are created in order, marked only once created, and the active  *)
(* one is the newest.                                                      *)
BornInv ==
  /\ \A k, l \in Launch : k < l /\ Born(l) => Born(k)
  /\ \A l \in ready \cup intentional : Born(l)
  /\ active # None => Born(active) /\ \A l \in Launch : Born(l) => l <= active

(* The record under launch has not been ready, is the active one unless    *)
(* stop() ended it, and no restart is armed meanwhile.                     *)
LaunchInv ==
  launching # None =>
    /\ Born(launching)
    /\ launching \notin ready
    /\ restartTimer = None
    /\ active \in {launching, None}
    /\ at \in {"sigterm", "sigkill"} => launching \in intentional

(* A child that is not the active one is dead or was given up on.          *)
AliveInv ==
  /\ given \subseteq intentional
  /\ \A l \in Launch : childAlive(l) => l = active \/ l \in given

(* A restart is armed only when no child is left.                          *)
TimerInv ==
  restartTimer # None =>
    ~stopped /\ \A l \in Launch : childAlive(l) => l \in given

StopInv ==
  /\ stopping # "no" => stopped
  /\ stopping \in {"sigterm", "sigkill"} =>
       active \in {stopVictim, None} /\ stopVictim \in intentional
  /\ stopping = "done" => \A l \in Launch : childAlive(l) => l \in given

IInv == TypeInv /\ BootInv /\ BornInv /\ LaunchInv /\ AliveInv /\ TimerInv /\ StopInv

(* No process is born and none is seen to die.                             *)
SameLife ==
  /\ \A l \in Launch : childAlive(l)' <=> childAlive(l)
  /\ \A l \in Launch : Born(l)' <=> Born(l)

LEMMA KillSameLife ==
  ASSUME TypeOK, NEW l \in Launch, NEW sure \in BOOLEAN, Kill(l, sure)
  PROVE  SameLife
  BY DEF Kill, SameLife, childAlive, Born, TypeOK, OsState

(* What a launch does to the other records.                                *)
LEMMA LaunchedLife ==
  ASSUME TypeOK, NEW l \in Launch, NEW o \in Launch \cup {None}, Launched(l, o)
  PROVE  /\ ~Born(l) /\ Born(l)'
         /\ \A k \in Launch : k < l => Born(k)
         /\ \A k \in Launch : k # l => (childAlive(k)' <=> childAlive(k))
         /\ \A k \in Launch : k # l => (Born(k)' <=> Born(k))
  BY DEF Launched, Fresh, Born, childAlive, TypeOK, OsState

(* The end of a launch: its record is dead or given up on, and the restart *)
(* timer is armed only on a gateway not stopped.                           *)
LEMMA LaunchOverInv ==
  ASSUME IInv, launching \in Launch, LaunchOver, Rejected(owner, restartTimer),
         UNCHANGED <<ready, stop, os>>,
         given \subseteq given', given' \subseteq given \cup {launching},
         intentional' = intentional \cup {launching},
         childAlive(launching) => launching \in given',
         TypeInv'
  PROVE  IInv'
<1> USE DEF IInv, TypeInv, stop
<1>0. launching # None /\ restartTimer = None
  BY DEF Launch, LaunchInv
<1>1. SameLife
  BY DEF SameLife, childAlive, Born
<1>2. /\ launching' = None
      /\ active' \in {active, None}
      /\ active = launching => active' = None
  BY DEF LaunchOver
<1>3. stopped => stopped' /\ restartTimer' = restartTimer
  BY DEF Rejected, ScheduleRestart, MaySchedule
<1>4. restartTimer' # None => ~stopped'
  BY <1>0 DEF Rejected, ScheduleRestart, MaySchedule
<1>5. outcome' # "none"
  BY <1>0 DEF BootInv, Rejected
<1>6. BootInv'
  BY <1>5 DEF BootInv
<1>7. BornInv'
  <2>1. \A l \in ready' \cup intentional' : l \in Launch /\ Born(l)
    BY <1>0 DEF BornInv, LaunchInv, TypeOK
  <2>2. \A l \in ready' \cup intentional' : Born(l)'
    BY <1>1, <2>1 DEF SameLife
  <2> QED
    BY <1>1, <1>2, <2>2 DEF SameLife, BornInv, TypeOK
<1>8. LaunchInv'
  BY <1>2 DEF LaunchInv
<1>9. AliveInv'
  BY <1>1, <1>2 DEF SameLife, AliveInv, LaunchOver
<1>10. \A l \in Launch : childAlive(l)' => l \in given'
  <2> SUFFICES ASSUME NEW l \in Launch, childAlive(l), l \notin given PROVE l \in given'
    BY <1>1 DEF SameLife
  <2>1. l = launching
    BY <1>0 DEF AliveInv, LaunchInv, Launch
  <2> QED
    BY <2>1
<1>11. TimerInv'
  BY <1>4, <1>10 DEF TimerInv
<1>12. StopInv'
  BY <1>2, <1>3, <1>10 DEF StopInv
<1> QED
  BY <1>6, <1>7, <1>8, <1>9, <1>11, <1>12

(* A step in which no child is born or seen to die, no launch begins or    *)
(* ends, and no timer is armed.                                            *)
LEMMA QuietInv ==
  ASSUME IInv, TypeInv', SameLife,
         UNCHANGED <<outcome, stopped, active, ready, launching, stopVictim>>,
         restartTimer' \in {restartTimer, None},
         given \subseteq given', given' \subseteq intentional',
         intentional \subseteq intentional',
         \A l \in intentional' : Born(l),
         launching # None /\ at' \in {"sigterm", "sigkill"} => launching \in intentional',
         \/ stopping' = stopping
         \/ stopping = "sigterm" /\ stopping' = "sigkill"
         \/ stopping = "sigkill" /\ stopping' = "failed"
  PROVE  IInv'
<1> USE DEF IInv, SameLife
<1>1. BootInv'
  BY DEF BootInv
<1>2. BornInv'
  <2>1. \A l \in ready' \cup intentional' : l \in Launch /\ Born(l)
    BY DEF BornInv, TypeInv, TypeOK
  <2>2. \A l \in ready' \cup intentional' : Born(l)'
    BY <2>1
  <2> QED
    BY <2>2 DEF BornInv, TypeInv, TypeOK
<1>3. LaunchInv'
  BY DEF LaunchInv, TypeInv, TypeOK
<1>4. AliveInv'
  BY DEF AliveInv
<1>5. TimerInv'
  BY DEF TimerInv
<1>6. StopInv'
  BY DEF StopInv
<1> QED
  BY <1>1, <1>2, <1>3, <1>4, <1>5, <1>6

LEMMA InitInv == Init => IInv
<1> SUFFICES ASSUME Init PROVE IInv
  OBVIOUS
<1>1. TypeInv
  BY InitType
<1>2. \A l \in Launch : ~Born(l) /\ ~childAlive(l)
  BY DEF Init, Born, childAlive
<1> QED
  BY <1>1, <1>2
     DEF Init, IInv, BootInv, BornInv, LaunchInv, AliveInv, TimerInv, StopInv

LEMMA NextInv == IInv /\ [Next]_vars => IInv'
<1> SUFFICES ASSUME IInv, [Next]_vars PROVE IInv'
  OBVIOUS
<1> USE DEF IInv, TypeInv
<1>0. TypeInv'
  BY NextType
<1>1. CASE Booting
  <2>1. CASE Boot
    <3>1. 1 \in Launch /\ Launched(1, None)
      BY <2>1, GatewayAssumption DEF Boot, Launch
    <3>2. /\ Born(1)'
          /\ \A k \in Launch : k # 1 => ~Born(k)' /\ ~childAlive(k)'
      <4>1. \A k \in Launch : ~Born(k) /\ ~childAlive(k)
        BY <2>1 DEF Boot, BootInv, Born, childAlive
      <4>2. /\ Born(1)'
            /\ \A k \in Launch : k # 1 => (childAlive(k)' <=> childAlive(k))
            /\ \A k \in Launch : k # 1 => (Born(k)' <=> Born(k))
        BY <3>1, LaunchedLife
      <4> QED
        BY <4>1, <4>2
    <3>3. ready = {} /\ intentional = {} /\ given = {}
      BY <2>1 DEF Boot, BootInv, BornInv, AliveInv, TypeOK
    <3>4. /\ active' = 1 /\ launching' = 1
          /\ UNCHANGED <<ready, intentional, given, restartTimer, stopping>>
      BY <2>1 DEF Boot, Launched, marks, stop
    <3>5. restartTimer' = None /\ stopping' = "no" /\ outcome' = "starting"
      BY <2>1, <3>4 DEF Boot, BootInv
    <3>6. BornInv'
      BY <3>1, <3>2, <3>3, <3>4 DEF BornInv, Launch
    <3>7. LaunchInv'
      BY <1>0, <3>2, <3>3, <3>4, <3>5, <2>1 DEF LaunchInv, Boot, Launched
    <3>8. AliveInv'
      BY <3>2, <3>3, <3>4 DEF AliveInv
    <3> QED
      BY <1>0, <3>5, <3>6, <3>7, <3>8 DEF BootInv, TimerInv, StopInv
  <2>2. CASE BootThrows
    BY <1>0, <2>2
       DEF BootThrows, marks, launch, stop, world, BootInv, BornInv, LaunchInv, AliveInv,
           TimerInv, StopInv, Born, childAlive
  <2> QED
    BY <1>1, <2>1, <2>2 DEF Booting
<1>2. CASE Launching
  <2>0. at # "idle" /\ launching \in Launch /\ launching # None
    BY <1>2 DEF Launching, Probe, Healthy, Unhealthy, LaunchFindsDead, DeadlinePassed,
               LaunchEscalates, LaunchTerminated, LaunchAbandons, TypeOK, Places
  <2>1. CASE Probe \/ Unhealthy
    <3>1. SameLife
      BY <2>1 DEF Probe, Unhealthy, world, SameLife, childAlive, Born
    <3> QED
      BY <1>0, <2>1, <3>1, QuietInv
         DEF Probe, Unhealthy, gate, marks, stop, world, BornInv, AliveInv
  <2>2. CASE Healthy
    BY <1>0, <2>0, <2>2
       DEF Healthy, stop, world, BootInv, BornInv, LaunchInv, AliveInv, TimerInv, StopInv,
           Born, childAlive, Places
  <2>4. CASE LaunchFindsDead
    <3>1. Rejected(owner, restartTimer) /\ LaunchOver /\ ~childAlive(launching)
      BY <2>4 DEF LaunchFindsDead
    <3>2. UNCHANGED <<ready, stop, os>> /\ given' = given
      BY <2>4 DEF LaunchFindsDead, world
    <3>4. intentional' = intentional \cup {launching}
      BY <2>4 DEF LaunchFindsDead
    <3>3. childAlive(launching) => launching \in given'
      BY <3>1
    <3> QED
      BY <1>0, <2>0, <3>1, <3>2, <3>3, <3>4, LaunchOverInv
  <2>5. CASE DeadlinePassed
    <3>1. SameLife
      BY <2>0, <2>5, KillSameLife DEF DeadlinePassed
    <3> QED
      BY <1>0, <2>0, <2>5, <3>1, QuietInv
         DEF DeadlinePassed, gate, stop, BornInv, LaunchInv, AliveInv
  <2>6. CASE LaunchEscalates
    <3>1. SameLife
      BY <2>0, <2>6, KillSameLife, GatewayAssumption DEF LaunchEscalates
    <3> QED
      BY <1>0, <2>0, <2>6, <3>1, QuietInv
         DEF LaunchEscalates, gate, marks, stop, BornInv, LaunchInv, AliveInv
  <2>7. CASE LaunchTerminated
    <3>1. intentional' = intentional \cup {launching}
      BY <2>0, <2>7 DEF LaunchTerminated, LaunchInv
    <3>2. childAlive(launching) => launching \in given'
      BY <2>7 DEF LaunchTerminated
    <3> QED
      BY <1>0, <2>0, <2>7, <3>1, <3>2, LaunchOverInv DEF LaunchTerminated, world
  <2>8. CASE LaunchAbandons
    <3>1. intentional' = intentional \cup {launching}
      BY <2>0, <2>8 DEF LaunchAbandons, LaunchInv
    <3> QED
      BY <1>0, <2>0, <2>8, <3>1, LaunchOverInv DEF LaunchAbandons
  <2> QED
    BY <1>2, <2>1, <2>2, <2>4, <2>5, <2>6, <2>7, <2>8 DEF Launching
<1>3. CASE Restarting
  <2>0. /\ restartTimer # None /\ restartTimer \in Launch /\ launching = None /\ ~stopped
        /\ \A l \in Launch : childAlive(l) => l \in given
        /\ stopping = "no" /\ outcome # "none"
    BY <1>3 DEF Restarting, RestartTimer, RestartThrows, TypeOK, LaunchInv, TimerInv,
               StopInv, BootInv
  <2>1. ASSUME NEW l \in Launch, RestartTimer(l) PROVE IInv'
    <3>1. Launched(l, restartTimer)
      BY <2>1 DEF RestartTimer
    <3>2. /\ ~Born(l) /\ Born(l)'
          /\ \A k \in Launch : k < l => Born(k)
          /\ \A k \in Launch : k # l => (childAlive(k)' <=> childAlive(k))
          /\ \A k \in Launch : k # l => (Born(k)' <=> Born(k))
      BY <2>0, <3>1, LaunchedLife
    <3>3. /\ active' = l /\ launching' = l /\ restartTimer' = None /\ at' = "loop"
          /\ UNCHANGED <<ready, intentional, given, stopping, outcome, stopped>>
      BY <2>1, <3>1 DEF RestartTimer, Launched, marks, stop
    <3>4. l \notin ready \cup intentional
      BY <3>2 DEF BornInv
    <3>5. BornInv'
      <4>1. \A k \in Launch : Born(k)' => k <= l
        BY <3>2 DEF BornInv, Launch
      <4>2. \A j, k \in Launch : j < k /\ Born(k)' => Born(j)'
        BY <3>2 DEF BornInv, Launch
      <4> QED
        BY <3>2, <3>3, <3>4, <4>1, <4>2 DEF BornInv, TypeOK
    <3>6. LaunchInv'
      BY <3>2, <3>3, <3>4 DEF LaunchInv
    <3>7. AliveInv'
      BY <2>0, <3>2, <3>3 DEF AliveInv
    <3> QED
      BY <1>0, <2>0, <3>3, <3>5, <3>6, <3>7 DEF BootInv, TimerInv, StopInv
  <2>2. CASE RestartThrows
    <3>1. SameLife
      BY <2>2 DEF RestartThrows, world, SameLife, childAlive, Born
    <3>2. UNCHANGED <<active, intentional, ready, launching, at, given, stopping, stopVictim>>
      BY <2>2 DEF RestartThrows, launch, stop, world
    <3>3. Rejected(restartTimer, None)
      BY <2>2 DEF RestartThrows
    <3>4. UNCHANGED <<outcome, stopped>>
      BY <2>0, <3>3 DEF Rejected
    <3>5. restartTimer' \in {restartTimer, None}
      BY <2>0, <3>3 DEF Rejected, ScheduleRestart
    <3> QED
      BY <1>0, <2>0, <3>1, <3>2, <3>4, <3>5, QuietInv DEF BornInv, AliveInv
  <2> QED
    BY <1>3, <2>1, <2>2 DEF Restarting
<1>4. CASE Stop
  <2>1. SameLife
    <3>1. \/ UNCHANGED os
          \/ active \in Launch /\ Kill(active, FALSE)
      BY <1>4 DEF Stop, TypeOK
    <3>2. CASE UNCHANGED os
      BY <3>2 DEF SameLife, childAlive, Born
    <3>3. CASE active \in Launch /\ Kill(active, FALSE)
      BY <3>3, KillSameLife
    <3> QED
      BY <3>1, <3>2, <3>3
  <2>2. /\ stopped' = TRUE /\ restartTimer' = None
        /\ UNCHANGED <<outcome, ready, launching, at, given>>
        /\ outcome # "none"
    BY <1>4 DEF Stop, MarkStopped, launch
  <2>3. /\ intentional' = intentional \cup ({active} \ {None})
        /\ \/ stopping' = "done" /\ active' = None
              /\ (active = None \/ ~childAlive(active))
           \/ /\ stopping' = "sigterm" /\ active' = active /\ active # None
              /\ stopVictim' = active
    BY <1>4 DEF Stop, TypeOK
  <2>4. BornInv'
    <3>1. \A l \in ready' \cup intentional' : l \in Launch /\ Born(l)
      BY <2>2, <2>3 DEF BornInv, TypeOK
    <3>2. \A l \in ready' \cup intentional' : Born(l)'
      BY <2>1, <3>1 DEF SameLife
    <3> QED
      BY <2>1, <2>3, <3>2 DEF SameLife, BornInv
  <2>5. LaunchInv'
    BY <2>1, <2>2, <2>3 DEF SameLife, LaunchInv, TypeOK
  <2>6. AliveInv'
    <3>1. given' \subseteq intentional'
      BY <2>2, <2>3 DEF AliveInv
    <3>2. active' = active \/ active = None \/ ~childAlive(active)
      BY <2>3
    <3> QED
      BY <2>1, <2>2, <3>1, <3>2 DEF SameLife, AliveInv, Launch
  <2>7. StopInv'
    BY <2>1, <2>2, <2>3 DEF SameLife, AliveInv, StopInv, Launch
  <2> QED
    BY <1>0, <2>2, <2>4, <2>5, <2>6, <2>7 DEF BootInv, TimerInv
<1>5. CASE Stopping
  <2>0. stopVictim \in Launch
    BY <1>5 DEF Stopping, StopEscalates, StopTerminated, StopAbandons, TypeOK, Places
  <2>1. CASE StopEscalates
    <3>1. SameLife
      BY <2>0, <2>1, KillSameLife, GatewayAssumption DEF StopEscalates
    <3> QED
      BY <1>0, <2>1, <3>1, QuietInv
         DEF StopEscalates, gate, marks, launch, BornInv, LaunchInv, AliveInv
  <2>2. CASE StopTerminated
    <3>1. SameLife
      BY <2>2 DEF StopTerminated, world, SameLife, childAlive, Born
    <3>2. /\ UNCHANGED <<outcome, stopped, restartTimer, intentional, ready, launching,
                        at, given>>
          /\ active' = None /\ stopping' = "done" /\ stopping # "no"
      BY <2>2 DEF StopTerminated, marks, launch, world
    <3>3. \A l \in Launch : childAlive(l) => l \in given
      BY <2>2 DEF StopTerminated, AliveInv, StopInv, Launch
    <3>4. BornInv'
      BY <3>1, <3>2 DEF SameLife, BornInv, TypeOK
    <3>5. LaunchInv'
      BY <3>1, <3>2 DEF SameLife, LaunchInv, TypeOK
    <3>6. AliveInv'
      BY <3>1, <3>2, <3>3 DEF SameLife, AliveInv
    <3> QED
      BY <1>0, <3>1, <3>2, <3>3, <3>4, <3>5, <3>6
         DEF SameLife, BootInv, TimerInv, StopInv
  <2>3. CASE StopAbandons
    <3>1. SameLife
      BY <2>3 DEF StopAbandons, SameLife, childAlive, Born
    <3> QED
      BY <1>0, <2>3, <3>1, QuietInv
         DEF StopAbandons, gate, marks, launch, BornInv, LaunchInv, AliveInv, StopInv
  <2> QED
    BY <1>5, <2>1, <2>2, <2>3 DEF Stopping
<1>6. ASSUME NEW l \in Launch, Exit(l) PROVE IInv'
  <2>1. \A k \in Launch : /\ Born(k)' <=> Born(k)
                          /\ childAlive(k)' <=> childAlive(k) /\ k # l
    BY <1>6 DEF Exit, Born, childAlive, TypeOK, OsState
  <2>2. /\ UNCHANGED <<outcome, stopped, active, intentional, ready, launching, at,
                      given, stopping, stopVictim>>
        /\ outcome # "none" /\ childAlive(l)
    BY <1>6 DEF Exit, launch, stop, BootInv, Born, childAlive
  <2>3. restartTimer' = restartTimer
          \/ /\ ~stopped /\ l \in ready /\ l \notin intentional /\ restartTimer' = l
    BY <1>6 DEF Exit, ScheduleRestart, MaySchedule
  <2>4. restartTimer' # restartTimer =>
          launching = None /\ \A k \in Launch : childAlive(k)' => k \in given
    BY <2>1, <2>2, <2>3 DEF AliveInv, LaunchInv, Launch
  <2>5. BornInv'
    BY <2>1, <2>2 DEF BornInv, TypeOK
  <2>6. LaunchInv'
    BY <2>1, <2>2, <2>4 DEF LaunchInv, TypeOK
  <2>7. AliveInv'
    BY <2>1, <2>2 DEF AliveInv
  <2>8. TimerInv'
    BY <2>1, <2>2, <2>3, <2>4 DEF TimerInv
  <2>9. StopInv'
    BY <2>1, <2>2 DEF StopInv
  <2> QED
    BY <1>0, <2>2, <2>5, <2>6, <2>7, <2>8, <2>9 DEF BootInv
<1>7. CASE Processes
  <2>1. SameLife
    BY <1>7 DEF Processes, Answer, Die, world, SameLife, childAlive, Born, TypeOK, OsState
  <2> QED
    BY <1>0, <1>7, <2>1, QuietInv
       DEF Processes, Answer, Die, gate, marks, launch, stop, world, BornInv, LaunchInv,
           AliveInv
<1>8. CASE UNCHANGED vars
  BY <1>0, <1>8
     DEF vars, gate, marks, launch, stop, world, Born, childAlive, BootInv, BornInv,
         LaunchInv, AliveInv, TimerInv, StopInv
<1> QED
  BY <1>1, <1>2, <1>3, <1>4, <1>5, <1>6, <1>7, <1>8 DEF Next

LEMMA Inductive == Spec => []IInv
  BY InitInv, NextInv, PTL DEF Spec

-----------------------------------------------------------------------------
(* What the gateway's owner promises.                                      *)

(* launchAndWait never runs twice at once: no restart is armed next to a   *)
(* launch still undecided.                                                 *)
THEOREM LaunchesAlone == Spec => []OneLaunch
<1>1. IInv => OneLaunch
  BY DEF IInv, LaunchInv, OneLaunch
<1> QED
  BY <1>1, Inductive, PTL

(* A live child is the active one or one terminate() gave up on.           *)
THEOREM OrphansAreGivenUp == Spec => []NoOrphan
<1>1. IInv => NoOrphan
  BY DEF IInv, AliveInv, NoOrphan, Live, childAlive
<1> QED
  BY <1>1, Inductive, PTL

(* Of two live children the elder is one terminate() gave up on.           *)
THEOREM GatewayIsAlone == Spec => []OneGateway
<1>1. IInv => OneGateway
  <2> SUFFICES ASSUME IInv, NEW k \in Launch, NEW l \in Launch, Live(k), Live(l), k < l,
                      k \notin given
               PROVE  FALSE
    BY DEF OneGateway
  <2>1. k = active /\ Born(l)
    BY DEF IInv, AliveInv, Live, childAlive, Born
  <2>2. l <= k
    BY <2>1 DEF IInv, BornInv, Launch
  <2> QED
    BY <2>2 DEF Launch
<1> QED
  BY <1>1, Inductive, PTL

(* When stop() has returned, no child is left that it could have killed.   *)
THEOREM StopIsThorough == Spec => []StopLeavesNone
<1>1. IInv => StopLeavesNone
  BY DEF IInv, StopInv, StopLeavesNone, Live, childAlive
<1> QED
  BY <1>1, Inductive, PTL

(* From the call of stop() on no child is created.                         *)
THEOREM StopIsQuiet == Spec => NothingAfterStop
<1> DEFINE Quiet == stopping # "no" => \A l \in Launch : os[l] = "unborn" => os'[l] = "unborn"
<1>1. IInv /\ [Next]_vars => Quiet
  <2> SUFFICES ASSUME IInv, [Next]_vars, stopping # "no",
                      NEW l \in Launch, os[l] = "unborn"
               PROVE  os'[l] = "unborn"
    OBVIOUS
  <2>1. stopped /\ outcome # "none"
    BY DEF IInv, StopInv, BootInv
  <2>2. ~Booting /\ \A k \in Launch : ~RestartTimer(k)
    BY <2>1 DEF Booting, Boot, BootThrows, RestartTimer
  <2>3. os \in [Launch -> OsState]
    BY DEF IInv, TypeInv, TypeOK
  <2>4. \A k \in Launch : \A sure \in BOOLEAN : Kill(k, sure) => os'[l] = "unborn"
    BY <2>3 DEF Kill
  <2>5. CASE Launching
    BY <2>3, <2>5
       DEF Launching, Probe, Healthy, Unhealthy, LaunchFindsDead, DeadlinePassed,
           LaunchEscalates, LaunchTerminated, LaunchAbandons, world, Kill
  <2>6. CASE RestartThrows
    BY <2>6 DEF RestartThrows, world
  <2>7. CASE Stop \/ Stopping
    BY <2>3, <2>7 DEF Stop, Stopping, StopEscalates, StopTerminated, StopAbandons, world, Kill
  <2>8. CASE Processes \/ \E k \in Launch : Exit(k)
    BY <2>3, <2>8 DEF Processes, Answer, Die, Exit, world
  <2> QED
    BY <2>2, <2>5, <2>6, <2>7, <2>8 DEF Next, Restarting, vars, world
<1> QED
  BY <1>1, Inductive, PTL DEF Spec, NothingAfterStop

(* stop() is final: both of the above.                                     *)
THEOREM StopHolds == Spec => StopIsFinal
BY StopIsThorough, StopIsQuiet DEF StopIsFinal

-----------------------------------------------------------------------------
(* A gateway that was up comes back, as long as no health answer is read   *)
(* after the exit event of the child that was probed.                      *)

(* Only dead records are marked restartScheduled, and the record on whose  *)
(* behalf a restart is armed or under way was ready and is dead.           *)
Waits(r) == r \in ready /\ Born(r) /\ ~childAlive(r)

DeadInv ==
  /\ \A l \in restartScheduled : Born(l) /\ ~childAlive(l)
  /\ restartTimer # None => Waits(restartTimer)
  /\ launching # None /\ owner # None => Waits(owner)

(* Until stop() no ready record is intentional.                            *)
MarksInv ==
  ~stopped =>
    /\ ready \cap intentional = {}
    /\ at \in {"loop", "asking"} => launching \notin intentional

RecoverInv == DeadInv /\ MarksInv /\ NoSilentDeath

(* A rejected launch arms the timer again or leaves the gateway stopped.   *)
LEMMA RejectedRecovers ==
  ASSUME IInv, DeadInv, MarksInv, IInv',
         NEW o \in Launch \cup {None}, NEW t, t = None,
         Rejected(o, t), o # None => Waits(o),
         UNCHANGED <<ready, os>>, launching' = None, at' = "idle",
         ~stopped => ready \cap intentional' = {}
  PROVE  RecoverInv'
<1>1. \A l \in Launch : (childAlive(l)' <=> childAlive(l)) /\ (Born(l)' <=> Born(l))
  BY DEF childAlive, Born
<1>2. /\ restartTimer' \in {None, o, restartTimer}
      /\ restartScheduled' \subseteq restartScheduled \cup ({o} \ {None})
      /\ stopped => stopped'
  BY DEF Rejected, ScheduleRestart
<1>3. o = None => stopped'
  BY DEF Rejected
<1>4. o # None /\ ~stopped => restartTimer' = o
  <2>1. o # None /\ ~stopped => o \notin intentional
    BY DEF MarksInv, Waits
  <2> QED
    BY <2>1 DEF Rejected, ScheduleRestart, MaySchedule, Waits
<1>5. restartScheduled \subseteq Launch /\ restartTimer \in Launch \cup {None}
  BY DEF IInv, TypeInv, TypeOK
<1>6. \A r \in Launch : Waits(r) => Waits(r)'
  BY <1>1 DEF Waits
<1>7. DeadInv'
  <2>1. \A l \in restartScheduled' : Born(l)' /\ ~childAlive(l)'
    BY <1>1, <1>2, <1>5 DEF DeadInv, Waits
  <2>2. restartTimer' # None => Waits(restartTimer)'
    BY <1>2, <1>5, <1>6 DEF DeadInv, Waits, childAlive, Born
  <2> QED
    BY <2>1, <2>2 DEF DeadInv
<1>8. MarksInv'
  BY <1>2 DEF MarksInv
<1>9. NoSilentDeath'
  BY <1>2, <1>3, <1>4, <1>5 DEF NoSilentDeath, Launch
<1> QED
  BY <1>7, <1>8, <1>9 DEF RecoverInv

(* A step that leaves every child as it is and neither begins nor ends a   *)
(* launch or a restart.                                                    *)
LEMMA QuietRecovers ==
  ASSUME IInv, RecoverInv, IInv', SameLife,
         UNCHANGED <<outcome, restartTimer, restartScheduled, ready, launching, owner>>,
         stopped => stopped',
         ~stopped' => /\ intentional' \subseteq intentional \cup {launching}
                      /\ launching \in intentional' \ intentional => at' = "sigterm"
                      /\ at' \in {"loop", "asking"} => at \in {"loop", "asking"}
                      /\ intentional # intentional' => launching # None
  PROVE  RecoverInv'
<1>1. restartScheduled \subseteq Launch /\ restartTimer \in Launch \cup {None}
      /\ owner \in Launch \cup {None} /\ ready \subseteq Launch
  BY DEF IInv, TypeInv, TypeOK
<1>2. \A r \in Launch : Waits(r) => Waits(r)'
  BY DEF Waits, SameLife
<1>3. DeadInv'
  <2>1. \A l \in restartScheduled' : Born(l)' /\ ~childAlive(l)'
    BY <1>1 DEF RecoverInv, DeadInv, SameLife
  <2>2. restartTimer # None => Waits(restartTimer)'
    BY <1>1, <1>2 DEF RecoverInv, DeadInv
  <2>3. launching # None /\ owner # None => Waits(owner)'
    BY <1>1, <1>2 DEF RecoverInv, DeadInv
  <2> QED
    BY <2>1, <2>2, <2>3 DEF DeadInv, Waits, childAlive, Born
<1>4. MarksInv'
  BY DEF RecoverInv, MarksInv, IInv, LaunchInv
<1>5. NoSilentDeath'
  BY <1>1 DEF RecoverInv, NoSilentDeath, SameLife
<1> QED
  BY <1>3, <1>4, <1>5 DEF RecoverInv

LEMMA NextRecovers ==
  ASSUME LateAnswers = FALSE
  PROVE  IInv /\ IInv' /\ RecoverInv /\ [Next]_vars => RecoverInv'
<1> SUFFICES ASSUME IInv, IInv', RecoverInv, [Next]_vars PROVE RecoverInv'
  OBVIOUS
<1>0. TypeOK /\ TypeOK' /\ 0 \notin Launch
  BY DEF IInv, TypeInv, Launch
<1>1. CASE Booting
  <2>1. CASE Boot
    <3>1. /\ restartTimer' = None /\ owner' = None /\ outcome' = "starting"
          /\ at' = "loop" /\ launching' = 1
          /\ UNCHANGED <<ready, intentional, restartScheduled>>
      BY <2>1 DEF Boot, Launched, marks, IInv, BootInv
    <3>2. ready = {} /\ intentional = {} /\ restartScheduled = {}
      BY <1>0, <2>1 DEF Boot, IInv, BootInv, BornInv, RecoverInv, DeadInv, TypeOK
    <3> QED
      BY <3>1, <3>2 DEF RecoverInv, DeadInv, MarksInv, NoSilentDeath
  <2>2. CASE BootThrows
    BY <2>2
       DEF BootThrows, marks, launch, world, RecoverInv, DeadInv, MarksInv, NoSilentDeath,
           Waits, Born, childAlive
  <2> QED
    BY <1>1, <2>1, <2>2 DEF Booting
<1>2. CASE Launching
  <2>0. /\ at # "idle" /\ launching \in Launch /\ launching # None /\ restartTimer = None
        /\ owner # None => Waits(owner)
    BY <1>0, <1>2
       DEF Launching, Probe, Healthy, Unhealthy, LaunchFindsDead, DeadlinePassed,
           LaunchEscalates, LaunchTerminated, LaunchAbandons, TypeOK, IInv, TypeInv, Places,
           LaunchInv, RecoverInv, DeadInv
  <2>1. CASE Probe \/ Unhealthy
    <3>1. SameLife
      BY <2>1 DEF Probe, Unhealthy, world, SameLife, childAlive, Born
    <3> QED
      BY <2>1, <3>1, QuietRecovers DEF Probe, Unhealthy, gate, marks
  <2>2. CASE Healthy
    <3>1. /\ ready' = ready \cup {launching} /\ launching' = None /\ at' = "idle"
          /\ restartTimer' = None
          /\ UNCHANGED <<stopped, intentional, restartScheduled, os>>
      BY <2>0, <2>2 DEF Healthy, world
    <3>2. at = "asking" /\ childAlive(launching)
      BY <1>0, <2>0, <2>2 DEF Healthy, childAlive, IInv, LaunchInv, Born, TypeOK, OsState
    <3>3. DeadInv'
      BY <3>1 DEF RecoverInv, DeadInv, Born, childAlive
    <3>4. MarksInv'
      BY <3>1, <3>2 DEF RecoverInv, MarksInv
    <3>5. NoSilentDeath'
      BY <2>0, <3>1, <3>2 DEF NoSilentDeath, childAlive
    <3> QED
      BY <3>3, <3>4, <3>5 DEF RecoverInv
  <2>3. CASE LaunchFindsDead
    <3>1. /\ Rejected(owner, restartTimer) /\ launching' = None /\ at' = "idle"
          /\ UNCHANGED <<ready, os>> /\ intentional' = intentional \cup {launching}
      BY <2>3 DEF LaunchFindsDead, LaunchOver, world
    <3>2. ~stopped => ready \cap intentional' = {}
      BY <2>0, <3>1 DEF RecoverInv, MarksInv, IInv, LaunchInv
    <3> QED
      BY <1>0, <2>0, <3>1, <3>2, RejectedRecovers DEF RecoverInv, TypeOK
  <2>4. CASE DeadlinePassed
    <3>1. SameLife
      BY <1>0, <2>0, <2>4, KillSameLife DEF DeadlinePassed
    <3> QED
      BY <2>0, <2>4, <3>1, QuietRecovers DEF DeadlinePassed, gate
  <2>5. CASE LaunchEscalates
    <3>1. SameLife
      BY <1>0, <2>0, <2>5, KillSameLife, GatewayAssumption DEF LaunchEscalates
    <3> QED
      BY <2>0, <2>5, <3>1, QuietRecovers DEF LaunchEscalates, gate, marks
  <2>6. CASE LaunchTerminated \/ LaunchAbandons
    <3>1. /\ Rejected(owner, restartTimer) /\ launching' = None /\ at' = "idle"
          /\ UNCHANGED <<ready, os, intentional>>
      BY <2>6 DEF LaunchTerminated, LaunchAbandons, LaunchOver, world
    <3>2. ~stopped => ready \cap intentional' = {}
      BY <3>1 DEF RecoverInv, MarksInv
    <3> QED
      BY <1>0, <2>0, <3>1, <3>2, RejectedRecovers DEF RecoverInv, TypeOK
  <2> QED
    BY <1>2, <2>1, <2>2, <2>3, <2>4, <2>5, <2>6 DEF Launching
<1>3. CASE Restarting
  <2>0. /\ restartTimer # None /\ restartTimer \in Launch /\ launching = None
        /\ Waits(restartTimer) /\ ~stopped
    BY <1>0, <1>3
       DEF Restarting, RestartTimer, RestartThrows, TypeOK, IInv, LaunchInv, RecoverInv, DeadInv
  <2>1. ASSUME NEW l \in Launch, RestartTimer(l) PROVE RecoverInv'
    <3>1. Launched(l, restartTimer)
      BY <2>1 DEF RestartTimer
    <3>2. /\ ~Born(l)
          /\ \A k \in Launch : k # l => (childAlive(k)' <=> childAlive(k))
          /\ \A k \in Launch : k # l => (Born(k)' <=> Born(k))
      BY <1>0, <2>0, <3>1, LaunchedLife
    <3>3. /\ launching' = l /\ restartTimer' = None /\ at' = "loop" /\ owner' = restartTimer
          /\ UNCHANGED <<ready, intentional, restartScheduled, stopped>>
      BY <2>1, <3>1 DEF RestartTimer, Launched, marks
    <3>4. l \notin ready \cup intentional \cup restartScheduled /\ restartTimer # l
      BY <2>0, <3>2 DEF IInv, BornInv, RecoverInv, DeadInv, Waits
    <3>5. Waits(owner)'
      BY <2>0, <3>2, <3>3, <3>4 DEF Waits, Born, childAlive
    <3>6. DeadInv'
      BY <1>0, <3>2, <3>3, <3>4, <3>5 DEF RecoverInv, DeadInv, TypeOK
    <3>7. MarksInv'
      BY <3>3, <3>4 DEF RecoverInv, MarksInv
    <3>8. NoSilentDeath'
      BY <1>0, <3>3 DEF NoSilentDeath
    <3> QED
      BY <3>6, <3>7, <3>8 DEF RecoverInv
  <2>2. CASE RestartThrows
    <3>1. /\ Rejected(restartTimer, None) /\ UNCHANGED <<ready, os, intentional, launching, at>>
      BY <2>2 DEF RestartThrows, launch, world
    <3>2. at = "idle"
      BY <2>0 DEF IInv, TypeInv, Places
    <3>3. ~stopped => ready \cap intentional' = {}
      BY <3>1 DEF RecoverInv, MarksInv
    <3> QED
      BY <2>0, <3>1, <3>2, <3>3, RejectedRecovers DEF RecoverInv
  <2> QED
    BY <1>3, <2>1, <2>2 DEF Restarting
<1>4. CASE Stop
  <2>1. SameLife
    <3>1. \/ UNCHANGED os
          \/ active \in Launch /\ Kill(active, FALSE)
      BY <1>0, <1>4 DEF Stop, TypeOK
    <3>2. CASE UNCHANGED os
      BY <3>2 DEF SameLife, childAlive, Born
    <3>3. CASE active \in Launch /\ Kill(active, FALSE)
      BY <1>0, <3>3, KillSameLife
    <3> QED
      BY <3>1, <3>2, <3>3
  <2>2. /\ stopped' /\ restartTimer' = None
        /\ UNCHANGED <<ready, restartScheduled, launching, owner>>
    BY <1>4 DEF Stop, MarkStopped, launch
  <2>3. DeadInv'
    <3>1. \A l \in restartScheduled' : Born(l)' /\ ~childAlive(l)'
      BY <1>0, <2>1, <2>2 DEF RecoverInv, DeadInv, SameLife, TypeOK
    <3>2. launching # None /\ owner # None => Waits(owner)'
      BY <1>0, <2>1, <2>2 DEF RecoverInv, DeadInv, SameLife, Waits, TypeOK, childAlive, Born
    <3> QED
      BY <2>2, <3>1, <3>2 DEF DeadInv, Waits, childAlive, Born
  <2> QED
    BY <2>2, <2>3 DEF RecoverInv, MarksInv, NoSilentDeath
<1>5. CASE Stopping
  <2>0. stopVictim \in Launch /\ stopped
    BY <1>0, <1>5
       DEF Stopping, StopEscalates, StopTerminated, StopAbandons, TypeOK, IInv, TypeInv,
           Places, StopInv
  <2>1. SameLife
    <3>1. UNCHANGED os \/ \E sure \in BOOLEAN : Kill(stopVictim, sure)
      BY <1>5, GatewayAssumption
         DEF Stopping, StopEscalates, StopTerminated, StopAbandons, world
    <3>2. CASE UNCHANGED os
      BY <3>2 DEF SameLife, childAlive, Born
    <3>3. CASE \E sure \in BOOLEAN : Kill(stopVictim, sure)
      BY <1>0, <2>0, <3>3, KillSameLife
    <3> QED
      BY <3>1, <3>2, <3>3
  <2>2. UNCHANGED <<outcome, stopped, restartTimer, restartScheduled, ready, launching, owner>>
    BY <1>5 DEF Stopping, StopEscalates, StopTerminated, StopAbandons, gate, marks, launch
  <2> QED
    BY <2>0, <2>1, <2>2, QuietRecovers
<1>6. ASSUME NEW l \in Launch, Exit(l) PROVE RecoverInv'
  <2>1. /\ \A k \in Launch : Born(k)' <=> Born(k)
        /\ \A k \in Launch : k # l => (childAlive(k)' <=> childAlive(k))
        /\ Born(l) /\ childAlive(l) /\ ~childAlive(l)'
    BY <1>0, <1>6 DEF Exit, Born, childAlive, TypeOK, OsState
  <2>2. /\ UNCHANGED <<outcome, stopped, intentional, ready, launching, owner, at>>
        /\ ScheduleRestart(l, restartScheduled, restartTimer)
    BY <1>6 DEF Exit, launch
  <2>3. \A r \in Launch : Waits(r) => Waits(r)'
    BY <2>1, <2>2 DEF Waits
  <2>4. \/ UNCHANGED <<restartTimer, restartScheduled>>
        \/ /\ l \in ready /\ restartTimer' = l
           /\ restartScheduled' = restartScheduled \cup {l}
    BY <2>2 DEF ScheduleRestart, MaySchedule
  <2>5. l \in ready => Waits(l)'
    BY <2>1, <2>2 DEF Waits
  <2>6. DeadInv'
    <3>1. \A k \in restartScheduled' : Born(k)' /\ ~childAlive(k)'
      BY <1>0, <2>1, <2>4 DEF RecoverInv, DeadInv, TypeOK
    <3>2. restartTimer' # None => Waits(restartTimer)'
      BY <1>0, <2>3, <2>4, <2>5 DEF RecoverInv, DeadInv, TypeOK, Waits, childAlive, Born
    <3>3. launching' # None /\ owner' # None => Waits(owner)'
      BY <1>0, <2>2, <2>3 DEF RecoverInv, DeadInv, TypeOK, Waits, childAlive, Born
    <3> QED
      BY <3>1, <3>2, <3>3 DEF DeadInv
  <2>7. MarksInv'
    BY <2>2 DEF RecoverInv, MarksInv
  <2>8. NoSilentDeath'
    <3> SUFFICES ASSUME outcome = "up", ~stopped, restartTimer' = None, launching = None
                 PROVE  \E k \in Launch : childAlive(k)' /\ k \in ready
      BY <2>2 DEF NoSilentDeath
    <3>1. restartTimer = None
      BY <1>0, <2>4
    <3>2. PICK k \in Launch : childAlive(k) /\ k \in ready
      BY <3>1 DEF RecoverInv, NoSilentDeath
    <3>3. k # l
      BY <1>0, <2>1, <2>2, <3>1, <3>2
         DEF ScheduleRestart, MaySchedule, RecoverInv, MarksInv, DeadInv
    <3> QED
      BY <2>1, <3>2, <3>3
  <2> QED
    BY <2>6, <2>7, <2>8 DEF RecoverInv
<1>7. CASE Processes
  <2>1. SameLife
    BY <1>0, <1>7
       DEF Processes, Answer, Die, world, SameLife, childAlive, Born, TypeOK, OsState
  <2>2. UNCHANGED <<outcome, stopped, restartTimer, restartScheduled, intentional, ready,
                    launching, owner, at>>
    BY <1>7 DEF Processes, Answer, Die, gate, marks, launch
  <2> QED
    BY <2>1, <2>2, QuietRecovers
<1>8. CASE UNCHANGED vars
  <2>1. SameLife
    BY <1>8 DEF vars, world, SameLife, childAlive, Born
  <2>2. UNCHANGED <<outcome, stopped, restartTimer, restartScheduled, intentional, ready,
                    launching, owner, at>>
    BY <1>8 DEF vars, gate, marks, launch
  <2> QED
    BY <2>1, <2>2, QuietRecovers
<1> QED
  BY <1>1, <1>2, <1>3, <1>4, <1>5, <1>6, <1>7, <1>8 DEF Next

(* With answers read before the exit event, a gateway that was up and is   *)
(* down always has its restart armed, under way or about to be armed.      *)
THEOREM DeathIsNoticed == LateAnswers = FALSE => (Spec => []NoSilentDeath)
<1> SUFFICES ASSUME LateAnswers = FALSE PROVE Spec => []NoSilentDeath
  OBVIOUS
<1>1. Init => RecoverInv
  <2> SUFFICES ASSUME Init PROVE RecoverInv
    OBVIOUS
  <2> QED
    BY DEF Init, RecoverInv, DeadInv, MarksInv, NoSilentDeath
<1>2. IInv /\ IInv' /\ RecoverInv /\ [Next]_vars => RecoverInv'
  BY NextRecovers
<1>3. RecoverInv => NoSilentDeath
  BY DEF RecoverInv
<1> QED
  BY <1>1, <1>2, <1>3, Inductive, PTL DEF Spec

-----------------------------------------------------------------------------
(* The hidden launcher, for any number of launches and descendants: nothing   *)
(* runs uncontained on Windows, and a launch said to be over is over.         *)
(* L!IInv is inductive: every step of every launch keeps its four parts.  *)

LEMMA LaunchInitHolds == L!Init => L!IInv
<1> SUFFICES ASSUME L!Init
             PROVE  L!IInv
  OBVIOUS
<1> USE DEF L!Init
<1>1. L!TypeOK
  <2>1. MaxKids \in Nat
    BY LaunchAssumption
  <2>2. 0 \in 0..MaxKids
    BY <2>1
  <2>3. lKids \in [Launches -> 0..MaxKids]
    BY <2>2
  <2>4. lCall \in [Launches -> {"none", "tracked", "waiting"} \cup L!Settled]
    OBVIOUS
  <2> QED
    BY <2>3, <2>4 DEF L!TypeOK
<1>2. L!EventsAreTrue
  BY DEF L!EventsAreTrue
<1>3. L!Contained
  BY DEF L!Contained, L!NeverLoose, L!SettledMeansGone
<1> QED
  BY <1>1, <1>2, <1>3 DEF L!IInv

LEMMA LaunchRefuseKeeps ==
  ASSUME L!IInv, NEW l \in Launches, L!Refuse(l)
  PROVE  L!IInv'
<1> USE LaunchAssumption DEF L!IInv, L!Contained, L!TypeOK, L!Refuse, L!Configure, L!system
<1>1. L!TypeOK'
  BY DEF L!Settled
<1>2. L!EventsAreTrue'
  BY DEF L!EventsAreTrue
<1>3. L!NeverLoose'
  BY DEF L!EventsAreTrue, L!NeverLoose
<1>4. L!SettledMeansGone'
  BY DEF L!EventsAreTrue, L!SettledMeansGone
<1> QED
  BY <1>1, <1>2, <1>3, <1>4

LEMMA LaunchStartKeeps ==
  ASSUME L!IInv, NEW l \in Launches, NEW waits \in BOOLEAN, L!Launch(l, waits)
  PROVE  L!IInv'
<1> USE LaunchAssumption DEF L!IInv, L!Contained, L!TypeOK, L!Launch, L!MayInvoke, L!Configure, L!system
<1>1. L!TypeOK'
  BY DEF L!Settled
<1>2. L!EventsAreTrue'
  BY DEF L!EventsAreTrue
<1>3. L!NeverLoose'
  BY DEF L!EventsAreTrue, L!NeverLoose
<1>4. L!SettledMeansGone'
  BY DEF L!EventsAreTrue, L!SettledMeansGone
<1> QED
  BY <1>1, <1>2, <1>3, <1>4

LEMMA LaunchOnErrorKeeps ==
  ASSUME L!IInv, NEW l \in Launches, L!OnError(l)
  PROVE  L!IInv'
<1> USE LaunchAssumption DEF L!IInv, L!Contained, L!TypeOK, L!OnError, L!system
<1>1. L!TypeOK'
  BY DEF L!Settled
<1>2. L!EventsAreTrue'
  BY DEF L!EventsAreTrue
<1>3. L!NeverLoose'
  BY DEF L!EventsAreTrue, L!NeverLoose
<1>4. L!SettledMeansGone'
  BY DEF L!EventsAreTrue, L!SettledMeansGone
<1> QED
  BY <1>1, <1>2, <1>3, <1>4

LEMMA LaunchOnExitKeeps ==
  ASSUME L!IInv, NEW l \in Launches, L!OnExit(l)
  PROVE  L!IInv'
<1> USE LaunchAssumption DEF L!IInv, L!Contained, L!TypeOK, L!OnExit, L!system
<1>1. L!TypeOK'
  BY DEF L!Settled
<1>2. L!EventsAreTrue'
  BY DEF L!EventsAreTrue
<1>3. L!NeverLoose'
  BY DEF L!EventsAreTrue, L!NeverLoose
<1>4. L!SettledMeansGone'
  BY DEF L!EventsAreTrue, L!SettledMeansGone
<1> QED
  BY <1>1, <1>2, <1>3, <1>4

LEMMA LaunchOnCloseKeeps ==
  ASSUME L!IInv, NEW l \in Launches, L!OnClose(l)
  PROVE  L!IInv'
<1> USE LaunchAssumption DEF L!IInv, L!Contained, L!TypeOK, L!OnClose, L!system
<1>1. L!TypeOK'
  BY DEF L!Settled
<1>2. L!EventsAreTrue'
  BY DEF L!EventsAreTrue
<1>3. L!NeverLoose'
  BY DEF L!EventsAreTrue, L!NeverLoose
<1>4. L!SettledMeansGone'
  BY DEF L!EventsAreTrue, L!SettledMeansGone
<1> QED
  BY <1>1, <1>2, <1>3, <1>4

LEMMA LaunchTimeoutKeeps ==
  ASSUME L!IInv, NEW l \in Launches, L!Timeout(l)
  PROVE  L!IInv'
<1> USE LaunchAssumption DEF L!IInv, L!Contained, L!TypeOK, L!Timeout, L!JobCloses, L!system
<1>1. L!TypeOK'
  BY DEF L!Settled
<1>2. L!EventsAreTrue'
  BY DEF L!EventsAreTrue, L!NeverLoose
<1>3. L!NeverLoose'
  BY DEF L!EventsAreTrue, L!NeverLoose
<1>4. L!SettledMeansGone'
  BY DEF L!EventsAreTrue, L!SettledMeansGone
<1> QED
  BY <1>1, <1>2, <1>3, <1>4

LEMMA LaunchKillTreeKeeps ==
  ASSUME L!IInv, NEW l \in Launches, L!KillTree(l)
  PROVE  L!IInv'
<1> USE LaunchAssumption DEF L!IInv, L!Contained, L!TypeOK, L!KillTree, L!JobCloses
<1>1. L!TypeOK'
  BY DEF L!Settled
<1>2. L!EventsAreTrue'
  BY DEF L!EventsAreTrue, L!NeverLoose
<1>3. L!NeverLoose'
  BY DEF L!EventsAreTrue, L!NeverLoose
<1>4. L!SettledMeansGone'
  BY DEF L!EventsAreTrue, L!SettledMeansGone
<1> QED
  BY <1>1, <1>2, <1>3, <1>4

LEMMA LaunchPrepareFailsKeeps ==
  ASSUME L!IInv, NEW l \in Launches, L!PrepareFails(l)
  PROVE  L!IInv'
<1> USE LaunchAssumption DEF L!IInv, L!Contained, L!TypeOK, L!PrepareFails, L!JobCloses
<1>1. L!TypeOK'
  BY DEF L!Settled
<1>2. L!EventsAreTrue'
  BY DEF L!EventsAreTrue
<1>3. L!NeverLoose'
  BY DEF L!EventsAreTrue, L!NeverLoose
<1>4. L!SettledMeansGone'
  BY DEF L!EventsAreTrue, L!SettledMeansGone
<1> QED
  BY <1>1, <1>2, <1>3, <1>4

LEMMA LaunchCreateTargetKeeps ==
  ASSUME L!IInv, NEW l \in Launches, L!CreateTarget(l)
  PROVE  L!IInv'
<1> USE LaunchAssumption DEF L!IInv, L!Contained, L!TypeOK, L!CreateTarget, L!shell
<1>1. L!TypeOK'
  BY DEF L!Settled
<1>2. L!EventsAreTrue'
  BY DEF L!EventsAreTrue
<1>3. L!NeverLoose'
  BY DEF L!EventsAreTrue, L!NeverLoose
<1>4. L!SettledMeansGone'
  BY DEF L!EventsAreTrue, L!SettledMeansGone
<1> QED
  BY <1>1, <1>2, <1>3, <1>4

LEMMA LaunchAssignKeeps ==
  ASSUME L!IInv, NEW l \in Launches, L!Assign(l)
  PROVE  L!IInv'
<1> USE LaunchAssumption DEF L!IInv, L!Contained, L!TypeOK, L!Assign, L!shell
<1>1. L!TypeOK'
  BY DEF L!Settled
<1>2. L!EventsAreTrue'
  BY DEF L!EventsAreTrue
<1>3. L!NeverLoose'
  BY DEF L!EventsAreTrue, L!NeverLoose
<1>4. L!SettledMeansGone'
  BY DEF L!EventsAreTrue, L!SettledMeansGone
<1> QED
  BY <1>1, <1>2, <1>3, <1>4

LEMMA LaunchAssignFailsKeeps ==
  ASSUME L!IInv, NEW l \in Launches, L!AssignFails(l)
  PROVE  L!IInv'
<1> USE LaunchAssumption DEF L!IInv, L!Contained, L!TypeOK, L!AssignFails
<1>1. L!TypeOK'
  BY DEF L!Settled
<1>2. L!EventsAreTrue'
  BY DEF L!EventsAreTrue
<1>3. L!NeverLoose'
  BY DEF L!EventsAreTrue, L!NeverLoose
<1>4. L!SettledMeansGone'
  BY DEF L!EventsAreTrue, L!SettledMeansGone
<1> QED
  BY <1>1, <1>2, <1>3, <1>4

LEMMA LaunchResumeKeeps ==
  ASSUME L!IInv, NEW l \in Launches, L!Resume(l)
  PROVE  L!IInv'
<1> USE LaunchAssumption DEF L!IInv, L!Contained, L!TypeOK, L!Resume, L!MayResume, L!JobCloses
<1>1. L!TypeOK'
  BY DEF L!Settled
<1>2. L!EventsAreTrue'
  BY DEF L!EventsAreTrue
<1>3. L!NeverLoose'
  BY DEF L!EventsAreTrue, L!NeverLoose
<1>4. L!SettledMeansGone'
  BY DEF L!EventsAreTrue, L!SettledMeansGone
<1> QED
  BY <1>1, <1>2, <1>3, <1>4

LEMMA LaunchForkKeeps ==
  ASSUME L!IInv, NEW l \in Launches, L!Fork(l)
  PROVE  L!IInv'
<1> USE LaunchAssumption DEF L!IInv, L!Contained, L!TypeOK, L!Fork, L!shell
<1>1. L!TypeOK'
  BY DEF L!Settled
<1>2. L!EventsAreTrue'
  BY DEF L!EventsAreTrue
<1>3. L!NeverLoose'
  BY DEF L!EventsAreTrue, L!NeverLoose
<1>4. L!SettledMeansGone'
  BY DEF L!EventsAreTrue, L!SettledMeansGone
<1> QED
  BY <1>1, <1>2, <1>3, <1>4

LEMMA LaunchTargetEndsKeeps ==
  ASSUME L!IInv, NEW l \in Launches, L!TargetEnds(l)
  PROVE  L!IInv'
<1> USE LaunchAssumption DEF L!IInv, L!Contained, L!TypeOK, L!TargetEnds, L!JobCloses
<1>1. L!TypeOK'
  BY DEF L!Settled
<1>2. L!EventsAreTrue'
  BY DEF L!EventsAreTrue, L!NeverLoose
<1>3. L!NeverLoose'
  BY DEF L!EventsAreTrue, L!NeverLoose
<1>4. L!SettledMeansGone'
  BY DEF L!EventsAreTrue, L!SettledMeansGone
<1> QED
  BY <1>1, <1>2, <1>3, <1>4

LEMMA LaunchNextKeeps == L!IInv /\ [L!Next]_(L!vars) => L!IInv'
<1> SUFFICES ASSUME L!IInv, [L!Next]_(L!vars)
             PROVE  L!IInv'
  OBVIOUS
<1>1. CASE L!Next
  BY <1>1, LaunchRefuseKeeps, LaunchStartKeeps, LaunchOnErrorKeeps, LaunchOnExitKeeps,
     LaunchOnCloseKeeps, LaunchTimeoutKeeps, LaunchKillTreeKeeps,
     LaunchPrepareFailsKeeps, LaunchCreateTargetKeeps, LaunchAssignKeeps,
     LaunchAssignFailsKeeps, LaunchResumeKeeps, LaunchForkKeeps, LaunchTargetEndsKeeps DEF L!Next
<1>2. CASE UNCHANGED L!vars
  BY <1>2 DEF L!vars, L!shell, L!system, L!IInv, L!TypeOK, L!EventsAreTrue,
              L!Contained, L!NeverLoose, L!SettledMeansGone
<1> QED
  BY <1>1, <1>2

(* Whatever fails and is killed in whatever order, headless-host runs its     *)
(* target and all it starts inside the job of a live helper, and a caller of  *)
(* freecode-launcher that heard of an exit or a timeout has nothing running.  *)
THEOREM LaunchesAreContained == L!Spec => [](L!TypeOK /\ L!Contained)
<1>1. L!IInv => L!TypeOK /\ L!Contained
  BY DEF L!IInv
<1> QED
  BY <1>1, LaunchInitHolds, LaunchNextKeeps, PTL DEF L!Spec

(* The same for the behaviours of the run.                                    *)
THEOREM ContainedHolds == MCSpec => []Contained
<1>1. MCInit => L!Init
  BY DEF MCInit
<1>2. [MCNext]_all => [L!Next]_(L!vars)
  BY DEF MCNext, all, launchVars, L!vars
<1>3. L!TypeOK /\ L!Contained => Contained
  BY DEF Contained
<1> QED
  BY <1>1, <1>2, <1>3, LaunchesAreContained, PTL DEF MCSpec, L!Spec
=============================================================================
