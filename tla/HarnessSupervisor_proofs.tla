---------------------- MODULE HarnessSupervisor_proofs ----------------------
(***************************************************************************)
(* Proofs about HarnessSupervisor, for every budget, timeout and bound.    *)
(* The lemmas on the shared operators come first, then the two inductive   *)
(* invariants with the theorems that follow from them, then that the       *)
(* supervisor implements Supervision, and last the rate of the respawns    *)
(* over the history of MCHarnessSupervisor.                                *)
(***************************************************************************)
EXTENDS MCHarnessSupervisor, FiniteSetTheorems, TLAPS

USE DEF None

-----------------------------------------------------------------------------
(* The shared operators.                                                   *)

(* The backoff is an integer whatever the attempt.                         *)
LEMMA BackoffDelayInt ==
  ASSUME NEW n \in Nat \ {0}
  PROVE  BackoffDelay(n) \in Int
<1>1. 2 ^ (n - 1) \in Int
  OBVIOUS
<1> QED
  BY <1>1, SupervisorAssumption DEF BackoffDelay

(* maybeRespawn keeps the type of the budget, the timers and told.         *)
LEMMA MaybeRespawnType ==
  ASSUME TypeOK, generation \in Child, MaybeRespawn
  PROVE  /\ restarts' \in 0..RestartBudget
         /\ sinceRestart' \in 0..RestartWindow
         /\ restartTimer' \in Child \cup {None}
         /\ timers' \subseteq Timer
         /\ told' \in {"nothing", "ready", "stuck", "rejected"}
<1>1. sinceRestart' \in 0..RestartWindow
  BY SupervisorAssumption DEF MaybeRespawn
<1>2. RestartsInWindow \in 0..RestartBudget
  BY SupervisorAssumption DEF RestartsInWindow, TypeOK
<1>3. BackoffDelay(RestartsInWindow + 1) \in Int
  BY <1>2, BackoffDelayInt
<1>4. timers' \subseteq Timer
  BY <1>3 DEF MaybeRespawn, TypeOK, Timer, clocks
<1>5. restarts' \in 0..RestartBudget
  BY <1>2, SupervisorAssumption DEF MaybeRespawn, BudgetSpent
<1> QED
  BY <1>1, <1>4, <1>5 DEF MaybeRespawn, TypeOK, clocks

(* spawnOnce keeps the type of what it sets.                               *)
LEMMA SpawnOnceType ==
  ASSUME TypeOK, NEW g \in Nat \ {0}, NEW b \in BOOLEAN, SpawnOnce(g, b)
  PROVE  /\ generation' \in 0..MaxGeneration
         /\ proc' \in Child \cup {None}
         /\ status' \in Status
         /\ url' \in Url
         /\ readyIn' \in 0..ReadyTimeout
         /\ os' \in [Child -> OsState]
         /\ pipe' \in [Child -> Pipe]
         /\ told' \in {"nothing", "ready", "stuck", "rejected"}
  BY SupervisorAssumption
     DEF SpawnOnce, TypeOK, Child, Status, Url, NoUrl, OsState

(* killTree keeps the type of the processes.                               *)
LEMMA KillTreeType ==
  ASSUME TypeOK, NEW c \in Child, KillTree(c)
  PROVE  os' \in [Child -> OsState] /\ condemned' \subseteq Child
  BY DEF KillTree, TypeOK, OsState

(* clearTimeout only takes a timer away.                                   *)
LEMMA ClearRestartTimerType ==
  ASSUME TypeOK, ClearRestartTimer
  PROVE  restartTimer' \in Child \cup {None} /\ timers' \subseteq Timer
  BY DEF ClearRestartTimer, TypeOK

-----------------------------------------------------------------------------
(* Type correctness.                                                       *)

LEMMA InitType == Init => TypeOK
<1> SUFFICES ASSUME Init PROVE TypeOK
  OBVIOUS
<1>1. os \in [Child -> OsState] /\ pipe \in [Child -> Pipe]
  BY DEF Init, OsState, Pipe
<1>2. url \in Url
  BY DEF Init, Url, NoUrl
<1>3. queue \in Seq(Call)
  BY DEF Init
<1>4. /\ generation \in 0..MaxGeneration
      /\ sinceRestart \in 0..RestartWindow
      /\ readyIn \in 0..ReadyTimeout
      /\ graceIn \in 0..StopGrace
      /\ restarts \in 0..RestartBudget
  BY SupervisorAssumption DEF Init
<1>5. timers \subseteq Timer /\ condemned \subseteq Child
  BY DEF Init
<1> QED
  BY <1>1, <1>2, <1>3, <1>4, <1>5 DEF Init, TypeOK, Status

LEMMA NextType == TypeOK /\ [Next]_vars => TypeOK'
<1> SUFFICES ASSUME TypeOK, [Next]_vars PROVE TypeOK'
  OBVIOUS
<1> USE DEF machine, budget, clocks, lock, world
<1>1. CASE Calls
  <2>1. queue' \in Seq(Call)
    <3>1. \A call \in Call : Append(queue, call) \in Seq(Call)
      BY DEF TypeOK
    <3>2. PICK call \in Call : queue' = Append(queue, call)
      BY <1>1 DEF Calls, CallStart, CallStop, CallRestart, Call
    <3> QED
      BY <3>1, <3>2
  <2>2. CASE CallStart
    BY <2>1, <2>2 DEF CallStart, TypeOK
  <2>3. CASE CallStop
    BY <2>1, <2>3 DEF CallStop, TypeOK
  <2>4. CASE CallRestart
    BY <2>1, <2>4 DEF CallRestart, TypeOK
  <2> QED
    BY <1>1, <2>2, <2>3, <2>4 DEF Calls
<1>2. CASE Lifecycle
  <2>1. CASE StartFindsChild
    BY <2>1 DEF StartFindsChild, Holds, Release, TypeOK
  <2>2. CASE Start
    <3>1. generation + 1 \in Nat \ {0}
      BY DEF TypeOK
    <3>2. queue' \in Seq(Call)
      BY <2>2 DEF Resumes, Start, Holds, Release, TypeOK
    <3> QED
      BY <2>2, <3>1, <3>2, SpawnOnceType DEF Resumes, Start, Holds, Release, TypeOK
  <2>3. CASE StopIdle
    BY <2>3, ClearRestartTimerType, SupervisorAssumption
       DEF StopIdle, Holds, Release, TypeOK, Status, Url, NoUrl
  <2>4. CASE Retire
    BY <2>4, ClearRestartTimerType, KillTreeType, SupervisorAssumption
       DEF Retire, TypeOK, Status, Url, NoUrl
  <2>5. CASE StopDone
    BY <2>5 DEF StopDone, Release, TypeOK
  <2>6. CASE RestartIdle
    <3>1. generation + 2 \in Nat \ {0}
      BY DEF TypeOK
    <3>2. queue' \in Seq(Call)
      BY <2>6 DEF Resumes, RestartIdle, Holds, Release, TypeOK
    <3> QED
      BY <2>6, <3>1, <3>2, SpawnOnceType, ClearRestartTimerType
         DEF Resumes, RestartIdle, Holds, Release, TypeOK
  <2>7. CASE RestartDone
    <3>1. generation + 1 \in Nat \ {0}
      BY DEF TypeOK
    <3>2. queue' \in Seq(Call)
      BY <2>7 DEF Resumes, RestartDone, Release, TypeOK
    <3> QED
      BY <2>7, <3>1, <3>2, SpawnOnceType DEF Resumes, RestartDone, Release, TypeOK
  <2> QED
    BY <1>2, <2>1, <2>2, <2>3, <2>4, <2>5, <2>6, <2>7 DEF Lifecycle
<1>3. CASE Events
  <2> SUFFICES ASSUME NEW c \in Child,
                      \/ ExitIgnored(c) \/ ExitHandled(c) \/ ErrorHandled(c)
                      \/ OutputLine(c) \/ OutputTail(c)
               PROVE  TypeOK'
    BY <1>3 DEF Events
  <2>1. CASE ExitIgnored(c)
    BY <2>1 DEF ExitIgnored, TypeOK, OsState
  <2>2. CASE ExitHandled(c)
    BY <2>2, MaybeRespawnType
       DEF ExitHandled, Mine, TypeOK, OsState, Status, Url, NoUrl
  <2>3. CASE ErrorHandled(c)
    BY <2>3, MaybeRespawnType
       DEF ErrorHandled, Mine, TypeOK, OsState, Status, Url, NoUrl
  <2>4. CASE OutputLine(c)
    <3>1. /\ [of |-> c, whole |-> TRUE] \in Url
          /\ [of |-> c, whole |-> FALSE] \in Url
      BY DEF Url
    <3>2. pipe' \in [Child -> Pipe]
      BY <2>4 DEF OutputLine, TypeOK, Pipe
    <3>3. url' \in Url /\ status' \in Status /\ told' \in {"nothing", "ready", "stuck", "rejected"}
      BY <2>4, <3>1 DEF OutputLine, TryGrabs, TypeOK, Status
    <3> QED
      BY <2>4, <3>2, <3>3 DEF OutputLine, TypeOK
  <2>5. CASE OutputTail(c)
    BY <2>5 DEF OutputTail, TypeOK, Pipe
  <2> QED
    BY <2>1, <2>2, <2>3, <2>4, <2>5
<1>4. CASE RespawnTimers
  <2> SUFFICES ASSUME NEW t \in timers, RespawnTimerStale(t) \/ RespawnTimer(t)
               PROVE  TypeOK'
    BY <1>4 DEF RespawnTimers
  <2>1. CASE RespawnTimerStale(t)
    BY <2>1 DEF RespawnTimerStale, Superseded, TypeOK
  <2>2. CASE RespawnTimer(t)
    <3>1. generation + 1 \in Nat \ {0}
      BY DEF TypeOK
    <3> QED
      BY <2>2, <3>1, SpawnOnceType DEF RespawnTimer, Superseded, TypeOK
  <2> QED
    BY <2>1, <2>2
<1>5. CASE ReadinessTimeout
  BY <1>5, KillTreeType DEF ReadinessTimeout, DeadlineMissed, TypeOK
<1>6. CASE Tick
  <2>1. timers' \subseteq Timer
    BY <1>6 DEF Tick, TypeOK, Timer
  <2>2. sinceRestart' \in 0..RestartWindow
    BY <1>6, SupervisorAssumption DEF Tick, TypeOK
  <2>3. readyIn' \in 0..ReadyTimeout
    BY <1>6, SupervisorAssumption DEF Tick, TypeOK
  <2>4. graceIn' \in 0..StopGrace
    BY <1>6, SupervisorAssumption DEF Tick, TypeOK
  <2>5. UNCHANGED <<machine, restarts, restartTimer, queue, victim, world, told>>
    BY <1>6 DEF Tick
  <2> QED
    BY <2>1, <2>2, <2>3, <2>4, <2>5 DEF TypeOK, machine, world
<1>7. CASE Processes
  BY <1>7 DEF Processes, PrintUrl, Die, TypeOK, Pipe, OsState
<1>8. CASE UNCHANGED vars
  BY <1>8 DEF vars, TypeOK
<1> QED
  BY <1>1, <1>2, <1>3, <1>4, <1>5, <1>6, <1>7, <1>8 DEF Next

(* Every variable keeps its type.                                          *)
THEOREM TypeCorrect == Spec => []TypeOK
  BY InitType, NextType, PTL DEF Spec

-----------------------------------------------------------------------------
(* The child: ChildInv is inductive, whatever fails.                       *)

(* A spawn made with no child at hand, for a generation not used yet.      *)
LEMMA SpawnKeepsChildInv ==
  ASSUME ChildInv, proc = None,
         NEW g \in Nat \ {0}, g > generation, NEW b \in BOOLEAN, SpawnOnce(g, b),
         ~stopping', victim' = None,
         condemned' = condemned, timers' \subseteq timers
  PROVE  /\ ChildIsCurrent' /\ QuietWait' /\ NoOrphan' /\ ListenersAgree'
         /\ Numbering' /\ KilledAreDead'
<1> USE DEF ChildInv
<1>1. generation \in Nat /\ generation' = g
  BY DEF SpawnOnce, TypeOK
<1>2. g \in Child
  BY SupervisorAssumption DEF SpawnOnce, Child
<1>a. \/ proc' = None /\ os' = os
      \/ /\ proc' = g /\ status' = "starting" /\ told' = "nothing"
         /\ \E fate \in {"running", "failed"} : os' = [os EXCEPT ![g] = fate]
  BY DEF SpawnOnce
<1>b. \A c \in Child \ {g} : os'[c] = os[c]
  BY <1>a DEF TypeOK
<1>3. ChildIsCurrent' /\ QuietWait' /\ ListenersAgree'
  <2>1. ChildIsCurrent'
    BY <1>1, <1>a DEF ChildIsCurrent
  <2>2. QuietWait'
    BY DEF QuietWait
  <2>3. ListenersAgree'
    BY <1>a DEF ListenersAgree
  <2> QED
    BY <2>1, <2>2, <2>3
<1>4. NoOrphan'
  BY <1>2, <1>a, <1>b DEF NoOrphan, Live, Child
<1>5. Numbering'
  <2>1. \A t \in timers' : t.gen <= generation'
    BY <1>1 DEF Numbering, TypeOK, Timer, Child
  <2>2. \A c \in Child : c > generation' => os'[c] = "unborn" /\ c \notin condemned'
    BY <1>1, <1>b DEF Numbering, Child
  <2> QED
    BY <2>1, <2>2 DEF Numbering
<1>6. KilledAreDead'
  <2>1. g \notin condemned
    BY <1>2 DEF Numbering
  <2> QED
    BY <2>1, <1>b DEF KilledAreDead, Live, TypeOK
<1> QED
  BY <1>3, <1>4, <1>5, <1>6

(* killTree condemns its target and lets nothing else change.              *)
LEMMA KillKeepsChildInv ==
  ASSUME ChildInv, proc # None, KillTree(proc)
  PROVE  /\ proc \in Child /\ proc = generation
         /\ \A c \in Child : Live(c)' => Live(c) /\ (c = proc => c \in condemned')
         /\ \A c \in Child : os[c] = "unborn" => os'[c] = "unborn"
         /\ condemned' = condemned \cup {proc}
         /\ KilledAreDead'
  BY DEF ChildInv, KillTree, Live, TypeOK, ChildIsCurrent, KilledAreDead

LEMMA InitChild == Init => ChildInv
<1> SUFFICES ASSUME Init PROVE ChildInv
  OBVIOUS
<1>1. TypeOK
  BY InitType
<1>2. ChildIsCurrent /\ QuietWait /\ ListenersAgree
  BY DEF Init, ChildIsCurrent, QuietWait, ListenersAgree
<1>3. NoOrphan /\ Numbering /\ KilledAreDead
  BY DEF Init, NoOrphan, Numbering, KilledAreDead, Live
<1> QED
  BY <1>1, <1>2, <1>3 DEF ChildInv

LEMMA NextChild == ChildInv /\ [Next]_vars => ChildInv'
<1> SUFFICES ASSUME ChildInv, [Next]_vars PROVE ChildInv'
  OBVIOUS
<1>0. TypeOK /\ TypeOK'
  BY NextType DEF ChildInv
<1>a. /\ generation \in Nat
      /\ generation + 1 \in Nat \ {0} /\ generation + 1 > generation
      /\ generation + 2 \in Nat \ {0} /\ generation + 2 > generation
  BY <1>0 DEF TypeOK
<1> DEFINE Rest == /\ ChildIsCurrent /\ QuietWait /\ NoOrphan /\ ListenersAgree
                   /\ Numbering /\ KilledAreDead
<1> SUFFICES Rest'
  BY <1>0 DEF ChildInv
<1>b. Rest
  BY DEF ChildInv
<1> USE DEF machine, budget, clocks, lock, world
<1>1. CASE Calls
  <2>1. queue' # <<>>
    BY <1>0, <1>1 DEF Calls, CallStart, CallStop, CallRestart, TypeOK, Call
  <2> QED
    BY <1>1, <1>b, <2>1
       DEF Calls, CallStart, CallStop, CallRestart, ChildIsCurrent, QuietWait,
           NoOrphan, ListenersAgree, Numbering, KilledAreDead, Live
<1>2. CASE StartFindsChild
  BY <1>2, <1>b DEF StartFindsChild, Holds, Release, ChildIsCurrent, QuietWait,
           NoOrphan, ListenersAgree, Numbering, KilledAreDead, Live
<1>3. CASE Start
  <2>1. proc = None /\ ~stopping' /\ SpawnOnce(generation + 1, TRUE)
    BY <1>3 DEF Resumes, Start
  <2>2. victim' = None /\ condemned' = condemned /\ timers' = timers
    BY <1>3 DEF Resumes, Start, Release
  <2> QED
    BY <1>a, <2>1, <2>2, SpawnKeepsChildInv
<1>4. CASE StopIdle
  <2>1. timers' \subseteq timers /\ generation' = generation + 1 /\ victim' = None
    BY <1>4 DEF StopIdle, ClearRestartTimer, Release
  <2>2. Numbering'
    BY <1>4, <1>0, <1>a, <1>b, <2>1 DEF StopIdle, Numbering, TypeOK, Timer, Child
  <2> QED
    BY <1>4, <1>b, <2>1, <2>2
       DEF StopIdle, ChildIsCurrent, QuietWait, NoOrphan, ListenersAgree,
           KilledAreDead, Live
<1>5. CASE Retire
  <2>1. proc # None /\ KillTree(proc)
    BY <1>5 DEF Retire
  <2>2. timers' \subseteq timers /\ generation' = generation + 1 /\ proc' = None
    BY <1>5 DEF Retire, ClearRestartTimer
  <2>3. ChildIsCurrent' /\ QuietWait' /\ ListenersAgree'
    BY <1>5 DEF Retire, ChildIsCurrent, QuietWait, ListenersAgree
  <2>4. NoOrphan' /\ KilledAreDead'
    BY <1>b, <2>1, KillKeepsChildInv DEF NoOrphan
  <2>5. Numbering'
    <3>1. \A t \in timers' : t.gen <= generation'
      BY <1>0, <1>a, <1>b, <2>2 DEF Numbering, TypeOK, Timer, Child
    <3>2. \A c \in Child : c > generation' => os'[c] = "unborn" /\ c \notin condemned'
      BY <1>a, <1>b, <2>1, <2>2, KillKeepsChildInv DEF Numbering, Child
    <3> QED
      BY <3>1, <3>2 DEF Numbering
  <2> QED
    BY <2>3, <2>4, <2>5
<1>6. CASE StopDone
  BY <1>6, <1>b DEF StopDone, Release, ChildIsCurrent, QuietWait, NoOrphan,
                    ListenersAgree, Numbering, KilledAreDead, Live
<1>7. CASE RestartIdle
  <2>1. proc = None /\ ~stopping' /\ SpawnOnce(generation + 2, TRUE)
    BY <1>7 DEF Resumes, RestartIdle
  <2>2. victim' = None /\ condemned' = condemned /\ timers' \subseteq timers
    BY <1>7 DEF Resumes, RestartIdle, Release, ClearRestartTimer
  <2> QED
    BY <1>a, <2>1, <2>2, SpawnKeepsChildInv
<1>8. CASE RestartDone
  <2>1. proc = None
    BY <1>8, <1>b DEF Resumes, RestartDone, QuietWait
  <2>2. ~stopping' /\ SpawnOnce(generation + 1, TRUE)
    BY <1>8 DEF Resumes, RestartDone
  <2>3. victim' = None /\ condemned' = condemned /\ timers' = timers
    BY <1>8 DEF Resumes, RestartDone, Release
  <2> QED
    BY <1>a, <2>1, <2>2, <2>3, SpawnKeepsChildInv
<1>9. CASE Events
  <2> SUFFICES ASSUME NEW c \in Child,
                      \/ ExitIgnored(c) \/ ExitHandled(c) \/ ErrorHandled(c)
                      \/ OutputLine(c) \/ OutputTail(c)
               PROVE  Rest'
    BY <1>9 DEF Events
  <2>1. CASE ExitIgnored(c)
    <3>1. \A d \in Child : Live(d)' => Live(d)
      BY <2>1, <1>0 DEF ExitIgnored, Live, TypeOK
    <3>2. Numbering'
      BY <2>1, <1>0, <1>b DEF ExitIgnored, Numbering, TypeOK
    <3> QED
      BY <2>1, <1>0, <1>b, <3>1, <3>2
         DEF ExitIgnored, ChildIsCurrent, QuietWait, NoOrphan, ListenersAgree,
             KilledAreDead, TypeOK
  <2>2. CASE ExitHandled(c) \/ ErrorHandled(c)
    <3>1. /\ \A d \in Child : Live(d)' => Live(d) /\ d # c
          /\ c = proc /\ c = generation /\ proc' = None
          /\ UNCHANGED <<generation, stopping, victim, queue, condemned>>
      BY <2>2, <1>0 DEF ExitHandled, ErrorHandled, Mine, Live, TypeOK
    <3>2. \A t \in timers' : t.gen <= generation'
      BY <2>2, <1>a, <1>b, <3>1
         DEF ExitHandled, ErrorHandled, MaybeRespawn, Numbering
    <3>3. \A d \in Child : d > generation => os'[d] = "unborn"
      BY <2>2, <1>0, <1>b, <3>1, <1>a DEF ExitHandled, ErrorHandled, Numbering, TypeOK, Child
    <3>4. Numbering'
      BY <1>b, <3>1, <3>2, <3>3 DEF Numbering
    <3> QED
      BY <1>0, <1>b, <3>1, <3>4
         DEF ChildIsCurrent, QuietWait, NoOrphan, ListenersAgree, KilledAreDead, TypeOK
  <2>3. CASE OutputLine(c)
    BY <2>3, <1>b DEF OutputLine, TryGrabs, ChildIsCurrent, QuietWait, NoOrphan,
                      ListenersAgree, Numbering, KilledAreDead, Live
  <2>4. CASE OutputTail(c)
    BY <2>4, <1>b DEF OutputTail, ChildIsCurrent, QuietWait, NoOrphan,
                      ListenersAgree, Numbering, KilledAreDead, Live
  <2> QED
    BY <2>1, <2>2, <2>3, <2>4
<1>10. CASE RespawnTimers
  <2> SUFFICES ASSUME NEW t \in timers, RespawnTimerStale(t) \/ RespawnTimer(t)
               PROVE  Rest'
    BY <1>10 DEF RespawnTimers
  <2>1. CASE RespawnTimerStale(t)
    BY <2>1, <1>b DEF RespawnTimerStale, Superseded, ChildIsCurrent, QuietWait, NoOrphan,
                      ListenersAgree, Numbering, KilledAreDead, Live
  <2>2. CASE RespawnTimer(t)
    <3>1. victim' = None
      BY <2>2, <1>b DEF RespawnTimer, Superseded, QuietWait
    <3>2. proc = None /\ ~stopping' /\ SpawnOnce(generation + 1, FALSE)
      BY <2>2 DEF RespawnTimer, Superseded, Superseded
    <3>3. condemned' = condemned /\ timers' \subseteq timers
      BY <2>2 DEF RespawnTimer, Superseded, Superseded
    <3> QED
      BY <1>a, <3>1, <3>2, <3>3, SpawnKeepsChildInv
  <2> QED
    BY <2>1, <2>2
<1>11. CASE ReadinessTimeout
  <2>1. proc # None /\ KillTree(proc)
    BY <1>11 DEF ReadinessTimeout, DeadlineMissed
  <2>2. NoOrphan' /\ KilledAreDead'
    BY <1>11, <1>b, <2>1, KillKeepsChildInv DEF ReadinessTimeout, DeadlineMissed, NoOrphan
  <2>3. Numbering'
    BY <1>11, <1>a, <1>b, <2>1, KillKeepsChildInv DEF ReadinessTimeout, DeadlineMissed, Numbering, Child
  <2> QED
    BY <1>11, <1>b, <2>2, <2>3
       DEF ReadinessTimeout, DeadlineMissed, ChildIsCurrent, QuietWait, ListenersAgree
<1>12. CASE Tick
  <2>1. \A t \in timers' : \E u \in timers : t.gen = u.gen
    BY <1>12 DEF Tick
  <2> QED
    BY <1>12, <1>b, <2>1 DEF Tick, ChildIsCurrent, QuietWait, NoOrphan,
                      ListenersAgree, Numbering, KilledAreDead, Live
<1>13. CASE Processes
  <2> SUFFICES ASSUME NEW c \in Child, PrintUrl(c) \/ Die(c) PROVE Rest'
    BY <1>13 DEF Processes
  <2>1. /\ \A d \in Child : Live(d)' => Live(d)
        /\ \A d \in Child : os[d] = "unborn" => os'[d] = "unborn"
    BY <1>0 DEF PrintUrl, Die, Live, TypeOK
  <2>2. UNCHANGED <<machine, budget, clocks, readyIn, lock, condemned, told>>
    BY DEF PrintUrl, Die
  <2> QED
    BY <1>0, <1>b, <2>1, <2>2 DEF ChildIsCurrent, QuietWait, NoOrphan,
                      ListenersAgree, Numbering, KilledAreDead, TypeOK
<1>14. CASE UNCHANGED vars
  BY <1>14, <1>b DEF vars, ChildIsCurrent, QuietWait, NoOrphan,
                     ListenersAgree, Numbering, KilledAreDead, Live
<1> QED
  BY <1>1, <1>2, <1>3, <1>4, <1>5, <1>6, <1>7, <1>8, <1>9, <1>10, <1>11, <1>12,
     <1>13, <1>14 DEF Next, Lifecycle

(* Whatever fails, a dsh that runs is the one the supervisor holds or one  *)
(* it has tried to kill.                                                   *)
THEOREM NoDshIsLost == Spec => []NoOrphan
<1>1. ChildInv => NoOrphan
  BY DEF ChildInv
<1> QED
  BY InitChild, NextChild, <1>1, PTL DEF Spec

(* If taskkill does its work, there is never a second dsh.                 *)
THEOREM AtMostOneRoot ==
  ASSUME ~KillMayFail
  PROVE  Spec => []OneRoot
<1>1. ChildInv => OneRoot
  BY DEF ChildInv, NoOrphan, KilledAreDead, OneRoot
<1> QED
  BY InitChild, NextChild, <1>1, PTL DEF Spec

-----------------------------------------------------------------------------
(* What the shell is told: StatusInv is inductive if the home directory    *)
(* can be created.                                                         *)

(* A spawn leaves a child that starts, or a stuck report.                  *)
LEMMA SpawnKeepsStatus ==
  ASSUME ~HomeMayFail, TypeOK, proc = None,
         NEW g \in Nat \ {0}, NEW b \in BOOLEAN, SpawnOnce(g, b)
  PROVE  StatusIsTrue' /\ NoSilentDeath'
<1>0. g # None /\ None = 0
  BY DEF None
<1>1. \/ proc' = g /\ status' = "starting" /\ told' = "nothing"
      \/ proc' = None /\ status' = "unhealthy" /\ told' = "stuck"
  BY DEF SpawnOnce
<1>2. url' = NoUrl
  BY DEF SpawnOnce
<1>3. StatusIsTrue'
  BY <1>0, <1>1, <1>2 DEF StatusIsTrue, StatusMatchesChild, ListenersAgree
<1>4. NoSilentDeath'
  BY <1>1 DEF NoSilentDeath
<1> QED
  BY <1>3, <1>4

(* A death the supervisor hears of is answered with a timer or a report.   *)
LEMMA DeathIsAnswered ==
  ASSUME NEW c \in Child, ExitHandled(c) \/ ErrorHandled(c), StatusIsTrue
  PROVE  StatusIsTrue' /\ NoSilentDeath'
<1>1. proc' = None /\ url' = NoUrl /\ status' \in {"stopped", "unhealthy"}
  BY DEF ExitHandled, ErrorHandled
<1>2. StatusIsTrue'
  BY <1>1 DEF StatusIsTrue, StatusMatchesChild, ListenersAgree
<1>3. generation' = generation /\ MaybeRespawn
  BY DEF ExitHandled, ErrorHandled
<1>4. AwaitsRespawn' \/ told' = "stuck"
  <2>1. ASSUME told' # "stuck"
        PROVE  \E t \in timers' : t.gen = generation
    <3>1. PICK d : [gen |-> generation, due |-> d] \in timers'
      BY <1>3, <2>1 DEF MaybeRespawn
    <3> QED
      BY <3>1
  <2> QED
    BY <1>3, <2>1 DEF AwaitsRespawn
<1> QED
  BY <1>2, <1>4 DEF NoSilentDeath

LEMMA InitStatus == Init => StatusInv
  BY InitChild DEF StatusInv, Init, StatusIsTrue, StatusMatchesChild, ListenersAgree, NoSilentDeath

LEMMA NextStatus ==
  ASSUME ~HomeMayFail
  PROVE  StatusInv /\ [Next]_vars => StatusInv'
<1> SUFFICES ASSUME StatusInv, [Next]_vars PROVE StatusInv'
  OBVIOUS
<1>0. ChildInv /\ ChildInv' /\ TypeOK /\ StatusIsTrue /\ NoSilentDeath
  BY NextChild DEF StatusInv, ChildInv
<1>a. generation + 1 \in Nat \ {0} /\ generation + 2 \in Nat \ {0}
  BY <1>0 DEF TypeOK
<1> SUFFICES StatusIsTrue' /\ NoSilentDeath'
  BY <1>0 DEF StatusInv
<1> USE DEF machine, budget, clocks, lock, world
<1>1. ASSUME UNCHANGED <<machine, timers, told>>
      PROVE  StatusIsTrue' /\ NoSilentDeath'
  BY <1>0, <1>1 DEF StatusIsTrue, StatusMatchesChild, ListenersAgree, NoSilentDeath, AwaitsRespawn
<1>2. CASE Calls
  BY <1>1, <1>2 DEF Calls, CallStart, CallStop, CallRestart
<1>3. CASE Lifecycle
  <2>1. CASE StartFindsChild \/ StopDone
    BY <1>1, <2>1 DEF StartFindsChild, StopDone
  <2>2. CASE Start
    BY <1>0, <1>a, <2>2, SpawnKeepsStatus DEF Resumes, Start
  <2>3. CASE StopIdle
    BY <2>3 DEF StopIdle, StatusIsTrue, StatusMatchesChild, ListenersAgree, NoSilentDeath
  <2>4. CASE Retire
    <3>1. stopping' /\ proc' = None /\ status' = "stopped" /\ url' = NoUrl
      BY <2>4 DEF Retire
    <3> QED
      BY <3>1 DEF StatusIsTrue, StatusMatchesChild, ListenersAgree, NoSilentDeath
  <2>5. CASE RestartIdle
    BY <1>0, <1>a, <2>5, SpawnKeepsStatus DEF Resumes, RestartIdle
  <2>6. CASE RestartDone
    <3>1. proc = None
      BY <1>0, <2>6 DEF Resumes, RestartDone, ChildInv, QuietWait
    <3> QED
      BY <1>0, <1>a, <2>6, <3>1, SpawnKeepsStatus DEF Resumes, RestartDone
  <2> QED
    BY <1>3, <2>1, <2>2, <2>3, <2>4, <2>5, <2>6 DEF Lifecycle
<1>4. CASE Events
  <2> SUFFICES ASSUME NEW c \in Child,
                      \/ ExitIgnored(c) \/ ExitHandled(c) \/ ErrorHandled(c)
                      \/ OutputLine(c) \/ OutputTail(c)
               PROVE  StatusIsTrue' /\ NoSilentDeath'
    BY <1>4 DEF Events
  <2>1. CASE ExitIgnored(c) \/ OutputTail(c)
    BY <1>1, <2>1 DEF ExitIgnored, OutputTail
  <2>2. CASE ExitHandled(c) \/ ErrorHandled(c)
    BY <1>0, <2>2, DeathIsAnswered
  <2>3. CASE OutputLine(c)
    <3>1. CASE status # "starting"
      BY <1>1, <2>3, <3>1 DEF OutputLine, TryGrabs
    <3>2. CASE status = "starting"
      <4>1. proc # None /\ proc' = proc /\ status' = "ready" /\ told' = "ready" /\ url'.of = c
        BY <1>0, <2>3, <3>2 DEF OutputLine, TryGrabs, StatusIsTrue, StatusMatchesChild, ListenersAgree
      <4>2. url' # NoUrl
        BY <4>1 DEF NoUrl, Child
      <4> QED
        BY <4>1, <4>2 DEF StatusIsTrue, StatusMatchesChild, ListenersAgree, NoSilentDeath
    <3> QED
      BY <3>1, <3>2
  <2> QED
    BY <2>1, <2>2, <2>3
<1>5. CASE RespawnTimers
  <2> SUFFICES ASSUME NEW t \in timers, RespawnTimerStale(t) \/ RespawnTimer(t)
               PROVE  StatusIsTrue' /\ NoSilentDeath'
    BY <1>5 DEF RespawnTimers
  <2>1. CASE RespawnTimerStale(t)
    BY <1>0, <2>1 DEF RespawnTimerStale, Superseded, StatusIsTrue, StatusMatchesChild, ListenersAgree, NoSilentDeath, AwaitsRespawn
  <2>2. CASE RespawnTimer(t)
    BY <1>0, <1>a, <2>2, SpawnKeepsStatus DEF RespawnTimer, Superseded, Superseded
  <2> QED
    BY <2>1, <2>2
<1>6. CASE ReadinessTimeout
  BY <1>1, <1>6 DEF ReadinessTimeout, DeadlineMissed
<1>7. CASE Tick
  <2>1. AwaitsRespawn => AwaitsRespawn'
    <3> SUFFICES ASSUME NEW t \in timers, t.gen = generation
                 PROVE  \E u \in timers' : u.gen = generation'
      BY DEF AwaitsRespawn
    <3>1. PICK d : [gen |-> t.gen, due |-> d] \in timers'
      BY <1>7 DEF Tick
    <3>2. generation' = generation
      BY <1>7 DEF Tick
    <3> QED
      BY <3>1, <3>2
  <2> QED
    BY <1>0, <1>7, <2>1 DEF Tick, StatusIsTrue, StatusMatchesChild, ListenersAgree, NoSilentDeath
<1>8. CASE Processes
  BY <1>1, <1>8 DEF Processes, PrintUrl, Die
<1>9. CASE UNCHANGED vars
  BY <1>1, <1>9 DEF vars
<1> QED
  BY <1>2, <1>3, <1>4, <1>5, <1>6, <1>7, <1>8, <1>9 DEF Next

(* If the home directory can be created, the status tells the truth about  *)
(* the child.                                                              *)
THEOREM StatusHolds ==
  ASSUME ~HomeMayFail
  PROVE  Spec => []StatusIsTrue
<1>1. StatusInv => StatusIsTrue
  BY DEF StatusInv
<1> QED
  BY InitStatus, NextStatus, <1>1, PTL DEF Spec

(* If the home directory can be created, no death goes unanswered, however *)
(* calls, timers and deaths interleave: with no child and no stop() in     *)
(* force, a respawn is under way or the shell was told.                    *)
THEOREM DeathsAreAnswered ==
  ASSUME ~HomeMayFail
  PROVE  Spec => []NoSilentDeath
<1>1. StatusInv => NoSilentDeath
  BY DEF StatusInv
<1> QED
  BY InitStatus, NextStatus, <1>1, PTL DEF Spec

-----------------------------------------------------------------------------
(* While a stop() is in force no step creates a child: the steps that      *)
(* spawn are those that clear `stopping' or that refuse to run under it.   *)
THEOREM StopHolds == Spec => StopIsFinal
<1>1. TypeOK /\ [Next]_vars /\ stopping /\ stopping' =>
        \A c \in Child : os[c] = "unborn" => os'[c] = "unborn"
  <2> SUFFICES ASSUME TypeOK, [Next]_vars, stopping, stopping',
                      NEW c \in Child, os[c] = "unborn"
               PROVE  os'[c] = "unborn"
    OBVIOUS
  <2> USE DEF machine, budget, clocks, lock, world
  <2>2. CASE Calls \/ Tick \/ UNCHANGED vars
    BY <2>2 DEF Calls, CallStart, CallStop, CallRestart, Tick, vars
  <2>3. CASE Lifecycle
    <3>1. CASE Retire
      BY <3>1 DEF Retire, KillTree, TypeOK
    <3> QED
      BY <2>3, <3>1 DEF Lifecycle, Resumes, StartFindsChild, Start, StopIdle, StopDone,
                        RestartIdle, RestartDone
  <2>4. CASE Events
    <3> SUFFICES ASSUME NEW d \in Child,
                        \/ ExitIgnored(d) \/ ExitHandled(d) \/ ErrorHandled(d)
                        \/ OutputLine(d) \/ OutputTail(d)
                 PROVE  os'[c] = "unborn"
      BY <2>4 DEF Events
    <3>1. os' = os \/ (os[d] # "unborn" /\ os' = [os EXCEPT ![d] = "buried"])
      BY DEF ExitIgnored, ExitHandled, ErrorHandled, OutputLine, OutputTail
    <3> QED
      BY <3>1 DEF TypeOK
  <2>5. CASE RespawnTimers
    BY <2>5 DEF RespawnTimers, RespawnTimerStale, RespawnTimer, Superseded
  <2>6. CASE ReadinessTimeout
    BY <2>6 DEF ReadinessTimeout, DeadlineMissed, KillTree, TypeOK
  <2>7. CASE Processes
    BY <2>7 DEF Processes, PrintUrl, Die, TypeOK
  <2> QED
    BY <2>2, <2>3, <2>4, <2>5, <2>6, <2>7 DEF Next
<1> QED
  BY TypeCorrect, <1>1, PTL DEF Spec, StopIsFinal
-----------------------------------------------------------------------------
(* The refinement: every step keeps the contract of Supervision.           *)

(* The count of the launches: a step that buries, kills or ends children   *)
(* leaves it, and a child that is created adds one.                        *)
LEMMA LaunchedSame ==
  ASSUME Launched' = Launched
  PROVE  Cardinality(Launched)' = Cardinality(Launched)
OBVIOUS

LEMMA LaunchedGrows ==
  ASSUME NEW g \in Child, g \notin Launched, Launched' = Launched \cup {g}
  PROVE  Cardinality(Launched)' = Cardinality(Launched) + 1
<1>1. IsFiniteSet(Child)
  BY FS_Interval, SupervisorAssumption DEF Child
<1>2. IsFiniteSet(Launched)
  BY <1>1, FS_Subset DEF Launched
<1>3. Cardinality(Launched \cup {g}) = Cardinality(Launched) + 1
  BY <1>2, FS_AddElement
<1> QED
  BY <1>3

(* What leaves the view of the shell alone is a stutter of the contract.   *)
LEMMA Unseen ==
  ASSUME UNCHANGED <<proc, status, generation, stopping, told, restarts>>,
         Launched' = Launched
  PROVE  UNCHANGED Contract!vars
BY LaunchedSame DEF Contract!vars, Phase

(* A spawn for a generation not used yet, with no child, is a Launch.      *)
LEMMA SpawnLaunches ==
  ASSUME ~HomeMayFail, StatusInv, proc = None,
         NEW g \in Nat \ {0}, g > generation, NEW b \in BOOLEAN, SpawnOnce(g, b),
         ~stopping', restarts' = restarts
  PROVE  Contract!Launch
<1>1. TypeOK /\ Numbering /\ g \in Child /\ generation' = g
  BY SupervisorAssumption DEF StatusInv, ChildInv, SpawnOnce, Child
<1>2. Phase \in {"down", "backoff", "gaveUp"}
  BY DEF Phase
<1>3. CASE proc' = g /\ status' = "starting"
           /\ \E fate \in {"running", "failed"} : os' = [os EXCEPT ![g] = fate]
  <2>1. Phase' = "booting"
    BY <1>1, <1>3 DEF Phase, Child
  <2>2. g \notin Launched /\ Launched' = Launched \cup {g}
    BY <1>1, <1>3 DEF Launched, Numbering, TypeOK
  <2>3. Cardinality(Launched)' = Cardinality(Launched) + 1
    BY <1>1, <2>2, LaunchedGrows
  <2> QED
    BY <1>2, <2>1, <2>3 DEF Contract!Launch
<1>4. CASE told' = "stuck" /\ os' = os /\ proc' = proc
  <2>1. Phase' = "gaveUp"
    BY <1>1, <1>4 DEF Phase
  <2>2. Launched' = Launched
    BY <1>4 DEF Launched
  <2> QED
    BY <1>2, <2>1, <2>2, LaunchedSame DEF Contract!Launch
<1> QED
  BY <1>3, <1>4 DEF SpawnOnce

(* A death the supervisor hears of is a Death: it is answered within the   *)
(* budget, or reported.                                                    *)
LEMMA DeathIsADeath ==
  ASSUME StatusInv, NEW c \in Child, ExitHandled(c) \/ ErrorHandled(c)
  PROVE  Contract!Death
<1>1. /\ proc = c /\ proc' = None /\ ~stopping /\ stopping' = stopping
      /\ generation = c /\ generation' = generation /\ MaybeRespawn
  BY DEF ExitHandled, ErrorHandled, Mine
<1>2. Phase \in {"booting", "ready"}
  BY <1>1 DEF Phase, Child
<1>3. Launched' = Launched
  BY DEF ExitHandled, ErrorHandled, Launched, StatusInv, ChildInv, TypeOK
<1>4. told \notin {"stuck", "rejected"}
  BY <1>1 DEF StatusInv, ChildInv, ListenersAgree, Child
<1>5. RestartsInWindow \in {0, restarts} /\ RestartsInWindow \in Nat
  BY DEF RestartsInWindow, StatusInv, ChildInv, TypeOK
<1>6. Phase' = IF told' = "stuck" THEN "gaveUp" ELSE "backoff"
  BY <1>1 DEF Phase, Child
<1>7. \/ /\ RestartsInWindow >= RestartBudget
         /\ Phase' = "gaveUp" /\ restarts' = RestartsInWindow
      \/ /\ RestartsInWindow < RestartBudget
         /\ Phase' = "backoff" /\ restarts' = RestartsInWindow + 1
  BY <1>1, <1>4, <1>5, <1>6, SupervisorAssumption DEF MaybeRespawn, BudgetSpent
<1> QED
  BY <1>2, <1>3, <1>5, <1>7, LaunchedSame DEF Contract!Death

(* stop() and the first half of restart() are a Halt.                      *)
LEMMA StopHalts ==
  ASSUME StatusInv, StopIdle \/ Retire
  PROVE  Contract!Halt
<1>1. proc' = None /\ stopping' /\ restarts' = restarts
  BY DEF StopIdle, Retire, budget
<1>2. Launched' = Launched
  <2>1. CASE StopIdle
    BY <2>1 DEF StopIdle, Launched, world
  <2>2. CASE Retire
    BY <2>2 DEF Retire, KillTree, Launched, StatusInv, ChildInv, TypeOK
  <2> QED
    BY <2>1, <2>2
<1> QED
  BY <1>1, <1>2, LaunchedSame DEF Contract!Halt, Phase

LEMMA StepKeepsContract ==
  ASSUME ~HomeMayFail, StatusInv, [Next]_vars
  PROVE  [Contract!Next]_(Contract!vars)
<1>0. TypeOK /\ ChildInv /\ StatusIsTrue
  BY DEF StatusInv, ChildInv
<1>a. /\ generation + 1 \in Nat \ {0} /\ generation + 1 > generation
      /\ generation + 2 \in Nat \ {0} /\ generation + 2 > generation
  BY <1>0 DEF TypeOK
<1> USE DEF machine, budget, clocks, lock, world
<1>1. CASE Calls \/ Tick
  BY <1>1, Unseen DEF Calls, CallStart, CallStop, CallRestart, Tick, Launched
<1>2. CASE Lifecycle
  <2>1. CASE StartFindsChild \/ StopDone
    BY <2>1, Unseen DEF StartFindsChild, StopDone, Launched
  <2>2. CASE Start
    BY <1>a, <2>2, SpawnLaunches DEF Resumes, Start, Contract!Next
  <2>3. CASE StopIdle \/ Retire
    BY <2>3, StopHalts DEF Contract!Next
  <2>4. CASE RestartIdle
    BY <1>a, <2>4, SpawnLaunches DEF Resumes, RestartIdle, Contract!Next
  <2>5. CASE RestartDone
    <3>1. proc = None
      BY <1>0, <2>5 DEF RestartDone, ChildInv, QuietWait
    <3> QED
      BY <1>a, <2>5, <3>1, SpawnLaunches DEF Resumes, RestartDone, Contract!Next
  <2> QED
    BY <1>2, <2>1, <2>2, <2>3, <2>4, <2>5 DEF Lifecycle
<1>3. CASE Events
  <2> SUFFICES ASSUME NEW c \in Child,
                      \/ ExitIgnored(c) \/ ExitHandled(c) \/ ErrorHandled(c)
                      \/ OutputLine(c) \/ OutputTail(c)
               PROVE  [Contract!Next]_(Contract!vars)
    BY <1>3 DEF Events
  <2>1. CASE ExitIgnored(c) \/ OutputTail(c)
    BY <1>0, <2>1, Unseen DEF ExitIgnored, OutputTail, Launched, TypeOK
  <2>2. CASE ExitHandled(c) \/ ErrorHandled(c)
    BY <2>2, DeathIsADeath DEF Contract!Next
  <2>3. CASE OutputLine(c)
    <3>1. UNCHANGED <<proc, generation, stopping, restarts, os>> /\ Launched' = Launched
      BY <2>3 DEF OutputLine, Launched
    <3>2. CASE status # "starting"
      BY <2>3, <3>1, <3>2, Unseen DEF OutputLine, TryGrabs
    <3>3. CASE status = "starting"
      <4>1. proc # None /\ proc' = proc /\ status' = "ready"
        BY <1>0, <2>3, <3>3 DEF OutputLine, TryGrabs, StatusIsTrue, StatusMatchesChild
      <4>2. Phase = "booting"
        BY <3>3, <4>1 DEF Phase
      <4>3. Phase' = "ready"
        BY <4>1 DEF Phase
      <4> QED
        BY <3>1, <4>2, <4>3, LaunchedSame DEF Contract!Answer, Contract!Next
    <3> QED
      BY <3>2, <3>3
  <2> QED
    BY <2>1, <2>2, <2>3
<1>4. CASE RespawnTimers
  <2> SUFFICES ASSUME NEW t \in timers, RespawnTimerStale(t) \/ RespawnTimer(t)
               PROVE  [Contract!Next]_(Contract!vars)
    BY <1>4 DEF RespawnTimers
  <2>1. CASE RespawnTimerStale(t)
    BY <2>1, Unseen DEF RespawnTimerStale, Launched
  <2>2. CASE RespawnTimer(t)
    BY <1>a, <2>2, SpawnLaunches DEF RespawnTimer, Superseded, Contract!Next
  <2> QED
    BY <2>1, <2>2
<1>5. CASE ReadinessTimeout
  <2>1. Launched' = Launched
    BY <1>0, <1>5 DEF ReadinessTimeout, DeadlineMissed, KillTree, Launched, TypeOK
  <2> QED
    BY <1>5, <2>1, Unseen DEF ReadinessTimeout
<1>6. CASE Processes
  <2>1. Launched' = Launched
    BY <1>0, <1>6 DEF Processes, PrintUrl, Die, Launched, TypeOK
  <2> QED
    BY <1>6, <2>1, Unseen DEF Processes, PrintUrl, Die
<1>7. CASE UNCHANGED vars
  BY <1>7, Unseen DEF vars, Launched
<1> QED
  BY <1>1, <1>2, <1>3, <1>4, <1>5, <1>6, <1>7 DEF Next

(* harness-supervisor.ts keeps what Supervision promises, if the home      *)
(* directory can be created: each dsh is launched after the one before is  *)
(* out of its hands, and each death is answered within the budget or       *)
(* reported, whatever its lock, timers and generations do on the way.      *)
THEOREM ContractHolds ==
  ASSUME ~HomeMayFail
  PROVE  Spec => KeepsContract
<1>1. Init => Contract!Init
  <2> SUFFICES ASSUME Init
               PROVE  Contract!Init
    OBVIOUS
  <2>1. Launched = {}
    BY DEF Init, Launched
  <2> QED
    BY <2>1, FS_EmptySet DEF Init, Contract!Init, Phase
<1>2. StatusInv /\ [Next]_vars => [Contract!Next]_(Contract!vars)
  BY StepKeepsContract
<1> QED
  BY InitStatus, NextStatus, <1>1, <1>2, PTL DEF Spec, KeepsContract, Contract!Spec
-----------------------------------------------------------------------------
(* The rate of the respawns, over the history of MCHarnessSupervisor.      *)

(* The counter bounds the respawns that are still recent, and none of them *)
(* is younger than the last one, so that none is left when the counter     *)
(* starts again from zero.                                                 *)
RateInv ==
  /\ recent \subseteq [gen : Nat, age : Nat]
  /\ IsFiniteSet(recent) /\ Cardinality(recent) <= restarts
  /\ \A r \in recent : sinceRestart <= r.age /\ r.age < RestartWindow

(* Without a tick, only a death touches the counter and arms timers.       *)
LEMMA OnlyDeathsCount ==
  ASSUME [Next]_vars, ~Tick
  PROVE  \/ generation' = generation /\ MaybeRespawn
         \/ UNCHANGED budget /\ timers' \subseteq timers
<1> USE DEF machine, budget, clocks, lock, world
<1>1. CASE Calls \/ ReadinessTimeout \/ Processes \/ UNCHANGED vars
  BY <1>1 DEF Calls, CallStart, CallStop, CallRestart, ReadinessTimeout, Processes,
              PrintUrl, Die, vars
<1>2. CASE Lifecycle
  BY <1>2 DEF Lifecycle, StartFindsChild, Start, StopIdle, Retire, StopDone, RestartIdle,
              RestartDone, ClearRestartTimer
<1>3. CASE Events
  BY <1>3 DEF Events, ExitIgnored, ExitHandled, ErrorHandled, OutputLine, OutputTail
<1>4. CASE RespawnTimers
  BY <1>4 DEF RespawnTimers, RespawnTimerStale, RespawnTimer
<1> QED
  BY <1>1, <1>2, <1>3, <1>4 DEF Next

(* Ageing the respawns makes them no more.                                 *)
LEMMA AgedAreFew ==
  ASSUME RateInv, NEW aged, aged = {[gen |-> r.gen, age |-> r.age + 1] : r \in recent}
  PROVE  IsFiniteSet(aged) /\ Cardinality(aged) <= Cardinality(recent)
<1> DEFINE older == [r \in recent |-> [gen |-> r.gen, age |-> r.age + 1]]
<1>1. older \in Surjection(recent, aged)
  BY DEF Surjection
<1> QED
  BY <1>1, FS_Surjection DEF RateInv

LEMMA TickKeepsRate ==
  ASSUME TypeOK, RateInv, Tick, RecentNext
  PROVE  RateInv'
<1> DEFINE aged == {[gen |-> r.gen, age |-> r.age + 1] : r \in recent}
<1>1. recent' = {r \in aged : r.age < RestartWindow}
  BY DEF RecentNext
<1>2. IsFiniteSet(aged) /\ Cardinality(aged) <= Cardinality(recent)
  BY AgedAreFew
<1>3. IsFiniteSet(recent') /\ Cardinality(recent') <= Cardinality(aged)
  BY <1>1, <1>2, FS_Subset
<1>4. /\ Cardinality(recent) \in Nat /\ Cardinality(aged) \in Nat
      /\ Cardinality(recent') \in Nat
  BY <1>2, <1>3, FS_CardinalityType DEF RateInv
<1>5. restarts' = restarts /\ restarts \in Nat
  BY DEF Tick, TypeOK
<1>6. ASSUME NEW r \in recent'
      PROVE  r \in [gen : Nat, age : Nat] /\ sinceRestart' <= r.age /\ r.age < RestartWindow
  <2>1. PICK q \in recent : r = [gen |-> q.gen, age |-> q.age + 1]
    BY <1>1, <1>6
  <2>2. q.gen \in Nat /\ q.age \in Nat /\ sinceRestart <= q.age /\ r.age < RestartWindow
    BY <1>1, <1>6 DEF RateInv
  <2>3. sinceRestart' <= sinceRestart + 1
    BY SupervisorAssumption DEF Tick, TypeOK
  <2>4. sinceRestart \in Nat /\ sinceRestart' \in Nat
    BY SupervisorAssumption DEF Tick, TypeOK
  <2> QED
    BY <2>1, <2>2, <2>3, <2>4
<1> QED
  BY <1>2, <1>3, <1>4, <1>5, <1>6 DEF RateInv

LEMMA DeathKeepsRate ==
  ASSUME TypeOK, RateInv, ~Tick, generation' = generation, MaybeRespawn, RecentNext
  PROVE  RateInv'
<1> USE SupervisorAssumption
<1>0. Cardinality(recent) \in Nat /\ generation \in Nat
  BY FS_CardinalityType DEF RateInv, TypeOK
<1>1. Cardinality(recent) <= RestartsInWindow /\ RestartsInWindow \in Nat
  <2>1. CASE sinceRestart >= RestartWindow
    <3>1. recent = {}
      BY <2>1 DEF RateInv, TypeOK
    <3> QED
      BY <2>1, <3>1, FS_EmptySet DEF RestartsInWindow
  <2>2. CASE ~(sinceRestart >= RestartWindow)
    BY <2>2 DEF RestartsInWindow, RateInv, TypeOK
  <2> QED
    BY <2>1, <2>2
<1>2. sinceRestart' = 0 /\ \A r \in recent : 0 <= r.age /\ r.age < RestartWindow
  BY DEF MaybeRespawn, RateInv
<1>3. CASE ScheduledRespawn
  <2>1. restarts' = RestartsInWindow + 1
    BY <1>3 DEF MaybeRespawn, ScheduledRespawn, clocks
  <2>2. recent' = recent \cup {[gen |-> generation, age |-> 0]}
    BY <1>3 DEF RecentNext
  <2>3. IsFiniteSet(recent') /\ Cardinality(recent') <= Cardinality(recent) + 1
    <3> DEFINE asked == [gen |-> generation, age |-> 0]
    <3>1. IsFiniteSet(recent)
      BY DEF RateInv
    <3>2. /\ IsFiniteSet(recent \cup {asked})
          /\ Cardinality(recent \cup {asked}) \in {Cardinality(recent), Cardinality(recent) + 1}
      BY <3>1, FS_AddElement
    <3> QED
      BY <1>0, <2>2, <3>2
  <2>4. Cardinality(recent') \in Nat
    BY <2>3, FS_CardinalityType
  <2> QED
    BY <1>0, <1>1, <1>2, <2>1, <2>2, <2>3, <2>4 DEF RateInv
<1>4. CASE ~ScheduledRespawn
  <2>1. recent' = recent
    BY <1>4 DEF RecentNext
  <2>2. restarts' \in {RestartsInWindow, RestartsInWindow + 1}
    BY DEF MaybeRespawn
  <2> QED
    BY <1>0, <1>1, <1>2, <2>1, <2>2 DEF RateInv
<1> QED
  BY <1>3, <1>4

LEMMA NextRate ==
  ASSUME TypeOK, RateInv, [HNext]_<<vars, histories>>
  PROVE  RateInv'
<1>1. CASE UNCHANGED <<vars, histories>>
  BY <1>1 DEF vars, histories, budget, RateInv
<1>2. CASE HNext /\ Tick
  BY <1>2, TickKeepsRate DEF HNext
<1>3. CASE HNext /\ ~Tick
  <2>1. CASE generation' = generation /\ MaybeRespawn
    BY <1>3, <2>1, DeathKeepsRate DEF HNext
  <2>2. CASE UNCHANGED budget /\ timers' \subseteq timers
    <3>1. ~ScheduledRespawn
      BY <2>2 DEF ScheduledRespawn
    <3>2. recent' = recent
      BY <1>3, <3>1 DEF HNext, RecentNext
    <3> QED
      BY <2>2, <3>2 DEF budget, RateInv
  <2> QED
    BY <1>3, <2>1, <2>2, OnlyDeathsCount DEF HNext
<1> QED
  BY <1>1, <1>2, <1>3

(* "Max respawns per 60s window": the window of harness-supervisor.ts is   *)
(* reset and not slid, and yet no window of its length holds more respawns *)
(* than the budget.                                                        *)
THEOREM RateHolds == HSpec => []RespawnRate
<1>1. HInit => TypeOK /\ RateInv
  BY InitType, FS_EmptySet DEF HInit, Init, RateInv
<1>2. TypeOK /\ RateInv /\ [HNext]_<<vars, histories>> => (TypeOK /\ RateInv)'
  <2>1. [HNext]_<<vars, histories>> => [Next]_vars
    BY DEF HNext
  <2> QED
    BY <2>1, NextType, NextRate
<1>3. TypeOK /\ RateInv => RespawnRate
  <2> SUFFICES ASSUME TypeOK, RateInv
               PROVE  RespawnRate
    OBVIOUS
  <2>1. Cardinality(recent) \in Nat
    BY FS_CardinalityType DEF RateInv
  <2> QED
    BY <2>1, SupervisorAssumption DEF RateInv, TypeOK, RespawnRate
<1> QED
  BY <1>1, <1>2, <1>3, PTL DEF HSpec
=============================================================================
