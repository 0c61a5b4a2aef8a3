---------------------------- MODULE McpStatus_proofs ----------------------------
(***************************************************************************)
(* Proofs about McpStatus, for any servers and any bounds.                 *)
(*                                                                         *)
(* Three invariants, each inductive with typing: what the environment and  *)
(* the running dsh enable can be spawned (SpawnableInv); what was turned   *)
(* off is off in the file, in the environment and in every dsh no restart  *)
(* is due to replace (OffInv); and every `ready', shown or still in a      *)
(* pipe, was reported by some dsh (EvidenceInv).                           *)
(***************************************************************************)
EXTENDS McpStatus, TLAPS

-----------------------------------------------------------------------------
(* Typing.                                                                 *)

LEMMA ReadType ==
  ASSUME TypeOK
  PROVE  Read \subseteq Server /\ Read \subseteq vendored
BY DEF TypeOK, Read, Flags, Available

(* Every disk a prefix of the writes leaves is one of the type.            *)
LEMMA WrittenType ==
  ASSUME TypeOK, NEW n \in 0..6, NEW r \in SUBSET Server, Written(n, r)
  PROVE  file' \in {"absent", "malformed", "good"} /\ rows' \subseteq Server
<1>1. CASE n = 0
  BY <1>1 DEF TypeOK, Written
<1>2. CASE n \in 1..2
  BY <1>2, ReadType DEF Written
<1>3. CASE n \in 3..4
  BY <1>3 DEF Written
<1>4. CASE n \in 5..6
  BY <1>4 DEF Written, Available
<1> QED
  BY <1>1, <1>2, <1>3, <1>4

(* The states a catalogue starts its servers in.                           *)
LEMMA CatalogType ==
  ASSUME TypeOK, NEW on \in SUBSET Server, SetMcpCatalog(on) \/ ResetMcpCatalog(on)
  PROVE  /\ listed' \in BOOLEAN
         /\ catalog' \subseteq Server
         /\ status' \in [Server -> Status \cup {"none"}]
BY DEF TypeOK, SetMcpCatalog, ResetMcpCatalog, First, Status

LEMMA EnvType ==
  ASSUME NEW on \in SUBSET Server, NEW stream \in BOOLEAN
  PROVE  [on |-> on, stream |-> stream] \in Env
BY DEF Env

LEMMA ToggleType == Ensures \subseteq 0..6 /\ Toggles \subseteq 0..6
BY DEF Ensures, Toggles

LEMMA BlankType ==
  /\ Unlisted \in [Server -> Status \cup {"none"}]
  /\ Unmounted \in [Server -> Report \cup {"unmounted", "connecting"}]
  /\ NothingUnread \in [Child -> Seq(Line)]
  /\ NoEnv \in Env
  /\ 0 \in 0..MaxCalls /\ 0 \in 0..MaxGeneration
<1>1. Unlisted \in [Server -> Status \cup {"none"}]
  BY DEF Unlisted
<1>2. Unmounted \in [Server -> Report \cup {"unmounted", "connecting"}]
  BY DEF Unmounted
<1>3. NothingUnread \in [Child -> Seq(Line)]
  BY DEF NothingUnread
<1>4. NoEnv \in Env
  BY DEF NoEnv, Env
<1> QED
  BY <1>1, <1>2, <1>3, <1>4, McpAssumption

LEMMA InitType == Init => TypeOK
BY BlankType DEF Init, TypeOK

(* The parts of TypeOK that the actions on the settings leave alone.       *)
LEMMA SettingsType ==
  ASSUME TypeOK, UNCHANGED <<vendored, harness, pipes, proven>>,
         up' \in BOOLEAN, calls' \in 0..MaxCalls, off' \subseteq Server,
         file' \in {"absent", "malformed", "good"}, rows' \subseteq Server,
         listed' \in BOOLEAN, catalog' \subseteq Server,
         status' \in [Server -> Status \cup {"none"}], env' \in Env
  PROVE  TypeOK'
BY DEF TypeOK, harness, pipes

LEMMA NextType == TypeOK /\ [Next]_vars => TypeOK'
<1> SUFFICES ASSUME TypeOK, [Next]_vars
             PROVE  TypeOK'
  OBVIOUS
<1> USE McpAssumption
<1>1. ASSUME NEW n \in Ensures, Boot(n)
      PROVE  TypeOK'
  <2>1. n \in 0..6 /\ Read \in SUBSET Server
    BY ToggleType, ReadType
  <2>2. file' \in {"absent", "malformed", "good"} /\ rows' \subseteq Server
    BY <1>1, <2>1, WrittenType DEF Boot
  <2>3. /\ listed' \in BOOLEAN /\ catalog' \subseteq Server
        /\ status' \in [Server -> Status \cup {"none"}]
    <3>1. CASE n = 2
      BY <1>1, <2>1, <3>1, CatalogType DEF Boot
    <3>2. CASE n # 2
      BY <1>1, <3>2 DEF Boot, memory, TypeOK
    <3> QED
      BY <3>1, <3>2
  <2>4. env' \in Env
    <3>1. CASE n = 2
      BY <1>1, <2>1, <3>1, EnvType DEF Boot
    <3>2. CASE n # 2
      BY <1>1, <3>2 DEF Boot, memory, TypeOK
    <3> QED
      BY <3>1, <3>2
  <2>5. up' \in BOOLEAN /\ calls' \in 0..MaxCalls /\ off' \subseteq Server
    BY <1>1 DEF Boot, TypeOK, history
  <2>6. UNCHANGED <<vendored, harness, pipes, proven>>
    BY <1>1 DEF Boot, Written, history
  <2> QED
    BY <2>2, <2>3, <2>4, <2>5, <2>6, SettingsType
<1>2. ASSUME NEW n \in Ensures, GetState(n)
      PROVE  TypeOK'
  <2>1. n \in 0..6 /\ Read \in SUBSET Server
    BY ToggleType, ReadType
  <2>2. file' \in {"absent", "malformed", "good"} /\ rows' \subseteq Server
    BY <1>2, <2>1, WrittenType DEF GetState
  <2>3. /\ listed' \in BOOLEAN /\ catalog' \subseteq Server
        /\ status' \in [Server -> Status \cup {"none"}]
    <3>1. CASE n = 2
      BY <1>2, <2>1, <3>1, CatalogType DEF GetState
    <3>2. CASE n # 2
      BY <1>2, <3>2 DEF GetState, memory, TypeOK
    <3> QED
      BY <3>1, <3>2
  <2>4. env' \in Env
    <3>1. CASE n = 2
      BY <1>2, <2>1, <3>1, EnvType DEF GetState, RefreshedEnv
    <3>2. CASE n # 2
      BY <1>2, <3>2 DEF GetState, memory, TypeOK
    <3> QED
      BY <3>1, <3>2
  <2>5. up' \in BOOLEAN /\ calls' \in 0..MaxCalls /\ off' \subseteq Server
    BY <1>2 DEF GetState, TypeOK, history
  <2>6. UNCHANGED <<vendored, harness, pipes, proven>>
    BY <1>2 DEF GetState, Written, history
  <2> QED
    BY <2>2, <2>3, <2>4, <2>5, <2>6, SettingsType
<1>3. ASSUME NEW n \in Ensures, OpenConfig(n)
      PROVE  TypeOK'
  <2>1. file' \in {"absent", "malformed", "good"} /\ rows' \subseteq Server
    BY <1>3, ToggleType, WrittenType DEF OpenConfig
  <2>2. UNCHANGED <<vendored, up, memory, calls, harness, pipes, history>>
    BY <1>3 DEF OpenConfig, Written
  <2> QED
    BY <2>1, <2>2 DEF TypeOK, memory, harness, pipes, history
<1>4. ASSUME NEW s \in Server, NEW enabled \in BOOLEAN, NEW n \in Toggles,
             SetEnabled(s, enabled, n)
      PROVE  TypeOK'
  <2> DEFINE wanted == IF enabled THEN Read \cup {s} ELSE Read \ {s}
  <2>1. n \in 0..6 /\ wanted \in SUBSET Server /\ Available(wanted) \in SUBSET Server
    BY ToggleType, ReadType DEF Available
  <2>2. Written(n, wanted)
    BY <1>4 DEF SetEnabled
  <2>3. file' \in {"absent", "malformed", "good"} /\ rows' \subseteq Server
    BY <2>1, <2>2, WrittenType
  <2>4. CASE n = 6
    <3>1. /\ ResetMcpCatalog(Available(wanted))
          /\ env' = RefreshedEnv(Available(wanted))
          /\ calls' = calls + 1
      BY <1>4, <2>4 DEF SetEnabled
    <3>2. /\ listed' \in BOOLEAN /\ catalog' \subseteq Server
          /\ status' \in [Server -> Status \cup {"none"}]
      BY <2>1, <3>1, CatalogType
    <3>3. env' \in Env
      BY <2>1, <3>1, EnvType DEF RefreshedEnv
    <3>4. calls' \in 0..MaxCalls
      BY <1>4, <3>1 DEF SetEnabled, TypeOK
    <3>5. up' \in BOOLEAN /\ off' \subseteq Server /\ UNCHANGED <<vendored, harness, pipes, proven>>
      BY <1>4, <2>2 DEF SetEnabled, TypeOK, Written
    <3> QED
      BY <2>3, <3>2, <3>3, <3>4, <3>5, SettingsType
  <2>5. CASE n # 6
    <3>1. UNCHANGED <<memory, calls>>
      BY <1>4, <2>5 DEF SetEnabled
    <3>2. up' \in BOOLEAN /\ off' \subseteq Server /\ UNCHANGED <<vendored, harness, pipes, proven>>
      BY <1>4, <2>2 DEF SetEnabled, TypeOK, Written
    <3> QED
      BY <2>3, <3>1, <3>2, SettingsType DEF TypeOK, memory
  <2> QED
    BY <2>4, <2>5
<1>5. CASE Restart
  BY <1>5 DEF Restart, TypeOK, disk, memory, harness, pipes, history
<1>6. CASE TakeDown \/ Crash
  <2>1. ChildGone
    BY <1>6 DEF TakeDown, Crash
  <2> QED
    BY <2>1 DEF ChildGone, TypeOK, Unmounted, disk, memory, pipes, history
<1>7. CASE Serve \/ Respawn
  <2>1. Spawned /\ calls' \in 0..MaxCalls
    BY <1>7 DEF Serve, Respawn, TypeOK
  <2>2. generation' \in 0..MaxGeneration /\ child' \in Child \cup {None}
    BY <2>1 DEF Spawned, TypeOK, Child
  <2>3. actual' \in [Server -> Report \cup {"unmounted", "connecting"}]
    BY <2>1 DEF Spawned
  <2> QED
    BY <2>1, <2>2, <2>3 DEF Spawned, TypeOK, disk, memory, history
<1>8. ASSUME NEW s \in Server, NEW state \in Report, Publish(s, state)
      PROVE  TypeOK'
  <2>1. child \in Child
    BY <1>8 DEF Publish, TypeOK
  <2>2. unread' \in [Child -> Seq(Line)]
    <3>1. [server |-> s, state |-> state] \in Line
      BY DEF Line
    <3>2. Append(unread[child], [server |-> s, state |-> state]) \in Seq(Line)
      BY <2>1, <3>1 DEF TypeOK
    <3> QED
      BY <1>8, <2>1, <3>2 DEF Publish, TypeOK
  <2>3. actual' \in [Server -> Report \cup {"unmounted", "connecting"}] /\ proven' \subseteq Server
    BY <1>8 DEF Publish, TypeOK
  <2> QED
    BY <1>8, <2>2, <2>3 DEF Publish, TypeOK, disk, memory
<1>9. CASE PartialLine
  BY <1>9 DEF PartialLine, TypeOK, disk, memory, harness, history
<1>10. ASSUME NEW c \in Child, ReadLine(c)
       PROVE  TypeOK'
  <2>1. unread[c] \in Seq(Line) /\ unread[c] # <<>>
    BY <1>10 DEF ReadLine, TypeOK
  <2>2. Head(unread[c]) \in Line /\ Tail(unread[c]) \in Seq(Line)
    BY <2>1
  <2>3. unread' \in [Child -> Seq(Line)]
    BY <1>10, <2>2 DEF ReadLine, TypeOK
  <2>4. status' \in [Server -> Status \cup {"none"}]
    BY <1>10, <2>2 DEF ReadLine, TypeOK, Line, Status
  <2> QED
    BY <1>10, <2>3, <2>4 DEF ReadLine, TypeOK, disk, harness, history
<1>11. CASE ShellEnds
  BY <1>11, BlankType DEF ShellEnds, TypeOK, disk
<1>12. CASE EditByHand
  BY <1>12 DEF EditByHand, TypeOK, memory, harness, pipes
<1>13. CASE Upgrade
  BY <1>13 DEF Upgrade, TypeOK, memory, harness, pipes, history
<1>14. CASE UNCHANGED vars
  BY <1>14 DEF vars, TypeOK, disk, memory, harness, pipes, history
<1> QED
  BY <1>1, <1>2, <1>3, <1>4, <1>5, <1>6, <1>7, <1>8, <1>9, <1>10, <1>11, <1>12, <1>13,
     <1>14 DEF Next

(* Type correctness of every reachable state.                              *)
THEOREM TypeCorrect == Spec => []TypeOK
BY InitType, NextType, PTL DEF Spec

-----------------------------------------------------------------------------
(* No dsh mounts a server that cannot be spawned.                          *)

(* vendored changes only between two shells.                               *)
SpawnableInv ==
  /\ env.on \subseteq vendored
  /\ child # None => started.on \subseteq vendored
  /\ ~up => env.on = {} /\ child = None

LEMMA InitSpawnable == Init => SpawnableInv
BY DEF Init, SpawnableInv, NoEnv

LEMMA NextSpawnable == TypeOK /\ SpawnableInv /\ [Next]_vars => SpawnableInv'
<1> SUFFICES ASSUME TypeOK, SpawnableInv, [Next]_vars
             PROVE  SpawnableInv'
  OBVIOUS
<1>1. ASSUME NEW n \in Ensures, Boot(n)
      PROVE  SpawnableInv'
  <2>1. UNCHANGED <<vendored, child, started>> /\ up'
    BY <1>1 DEF Boot, Written, harness
  <2>2. env'.on \subseteq vendored
    <3>1. CASE n = 2
      BY <1>1, <3>1, ReadType DEF Boot
    <3>2. CASE n # 2
      BY <1>1, <3>2 DEF Boot, memory, SpawnableInv
    <3> QED
      BY <3>1, <3>2
  <2> QED
    BY <2>1, <2>2 DEF SpawnableInv
<1>2. ASSUME NEW n \in Ensures, GetState(n)
      PROVE  SpawnableInv'
  <2>1. UNCHANGED <<vendored, child, started>> /\ up'
    BY <1>2 DEF GetState, Written, harness, Registered
  <2>2. env'.on \subseteq vendored
    <3>1. CASE n = 2
      BY <1>2, <3>1, ReadType DEF GetState, RefreshedEnv
    <3>2. CASE n # 2
      BY <1>2, <3>2 DEF GetState, memory, SpawnableInv
    <3> QED
      BY <3>1, <3>2
  <2> QED
    BY <2>1, <2>2 DEF SpawnableInv
<1>3. ASSUME NEW n \in Ensures, OpenConfig(n)
      PROVE  SpawnableInv'
  BY <1>3 DEF OpenConfig, Written, memory, harness, SpawnableInv
<1>4. ASSUME NEW s \in Server, NEW enabled \in BOOLEAN, NEW n \in Toggles,
             SetEnabled(s, enabled, n)
      PROVE  SpawnableInv'
  <2>1. UNCHANGED <<vendored, child, started>> /\ up'
    BY <1>4 DEF SetEnabled, Written, harness, Registered
  <2>2. env'.on \subseteq vendored
    <3>1. CASE n = 6
      BY <1>4, <3>1 DEF SetEnabled, RefreshedEnv, Available
    <3>2. CASE n # 6
      BY <1>4, <3>2 DEF SetEnabled, memory, SpawnableInv
    <3> QED
      BY <3>1, <3>2
  <2> QED
    BY <2>1, <2>2 DEF SpawnableInv
<1>5. CASE Restart
  BY <1>5 DEF Restart, SpawnableInv, disk, memory, harness
<1>6. CASE TakeDown \/ Crash
  BY <1>6 DEF TakeDown, Crash, ChildGone, SpawnableInv, disk, memory
<1>7. CASE Serve \/ Respawn
  BY <1>7 DEF Serve, Respawn, Spawned, SpawnableInv, disk, memory
<1>8. ASSUME NEW s \in Server, NEW state \in Report, Publish(s, state)
      PROVE  SpawnableInv'
  BY <1>8 DEF Publish, SpawnableInv, disk, memory
<1>9. CASE PartialLine
  BY <1>9 DEF PartialLine, SpawnableInv, disk, memory, harness
<1>10. ASSUME NEW c \in Child, ReadLine(c)
       PROVE  SpawnableInv'
  BY <1>10 DEF ReadLine, SpawnableInv, disk, harness
<1>11. CASE ShellEnds
  BY <1>11 DEF ShellEnds, SpawnableInv, disk, NoEnv
<1>12. CASE EditByHand
  BY <1>12 DEF EditByHand, SpawnableInv, memory, harness
<1>13. CASE Upgrade
  BY <1>13 DEF Upgrade, SpawnableInv, memory, harness
<1>14. CASE UNCHANGED vars
  BY <1>14 DEF vars, SpawnableInv, disk, memory, harness
<1> QED
  BY <1>1, <1>2, <1>3, <1>4, <1>5, <1>6, <1>7, <1>8, <1>9, <1>10, <1>11, <1>12, <1>13,
     <1>14 DEF Next

(* A server whose executable is missing is never mounted, however it came  *)
(* to be enabled on disk.                                                  *)
THEOREM DeadIsNotMounted == Spec => []NeverMountsDead
<1>1. SpawnableInv => NeverMountsDead
  BY DEF SpawnableInv, NeverMountsDead, Mounted
<1> QED
  BY <1>1, TypeCorrect, InitSpawnable, NextSpawnable, PTL DEF Spec

-----------------------------------------------------------------------------
(* What the user turned off stays off.                                     *)

OffInv ==
  /\ file = "good" => rows \cap off = {}
  /\ file # "good" => off = {}
  /\ env.on \cap off = {}
  /\ child # None /\ calls = 0 => started.on \cap off = {}

LEMMA InitOff == Init => OffInv
BY DEF Init, OffInv, NoEnv

LEMMA ReadOff == OffInv => Read \cap off = {}
BY DEF OffInv, Read, Flags, Available

(* Writing back what was read, with nothing turned off meanwhile.          *)
LEMMA EnsureOff ==
  ASSUME OffInv, NEW n \in 0..2, Written(n, {}), off' = off
  PROVE  (file' = "good" => rows' \cap off' = {}) /\ (file' # "good" => off' = {})
<1>1. CASE n = 0
  BY <1>1 DEF Written, OffInv
<1>2. CASE n \in 1..2
  BY <1>2, ReadOff DEF Written
<1> QED
  BY <1>1, <1>2

LEMMA NextOff == TypeOK /\ OffInv /\ [Next]_vars => OffInv'
<1> SUFFICES ASSUME TypeOK, OffInv, [Next]_vars
             PROVE  OffInv'
  OBVIOUS
<1>1. ASSUME NEW n \in Ensures, Boot(n)
      PROVE  OffInv'
  <2>1. n \in 0..2 /\ Written(n, {}) /\ off' = off /\ calls' = 1
    BY <1>1 DEF Boot, Ensures, history
  <2>2. env'.on \cap off' = {}
    <3>1. CASE n = 2
      BY <1>1, <2>1, <3>1, ReadOff DEF Boot
    <3>2. CASE n # 2
      BY <1>1, <2>1, <3>2 DEF Boot, memory, OffInv
    <3> QED
      BY <3>1, <3>2
  <2> QED
    BY <2>1, <2>2, EnsureOff DEF OffInv
<1>2. ASSUME NEW n \in Ensures, GetState(n)
      PROVE  OffInv'
  <2>1. /\ n \in 0..2 /\ Written(n, {}) /\ off' = off
        /\ UNCHANGED <<calls, child, started>>
    BY <1>2 DEF GetState, Ensures, history, harness
  <2>2. env'.on \cap off' = {}
    <3>1. CASE n = 2
      BY <1>2, <2>1, <3>1, ReadOff DEF GetState, RefreshedEnv
    <3>2. CASE n # 2
      BY <1>2, <2>1, <3>2 DEF GetState, memory, OffInv
    <3> QED
      BY <3>1, <3>2
  <2> QED
    BY <2>1, <2>2, EnsureOff DEF OffInv
<1>3. ASSUME NEW n \in Ensures, OpenConfig(n)
      PROVE  OffInv'
  <2>1. /\ n \in 0..2 /\ Written(n, {}) /\ off' = off
        /\ UNCHANGED <<calls, child, started, env>>
    BY <1>3 DEF OpenConfig, Ensures, history, harness, memory
  <2> QED
    BY <2>1, EnsureOff DEF OffInv
<1>4. ASSUME NEW s \in Server, NEW enabled \in BOOLEAN, NEW n \in Toggles,
             SetEnabled(s, enabled, n)
      PROVE  OffInv'
  <2> DEFINE wanted == IF enabled THEN Read \cup {s} ELSE Read \ {s}
  <2>1. n \in {0, 1, 3, 5, 6} /\ Written(n, wanted) /\ UNCHANGED <<child, started>>
    BY <1>4 DEF SetEnabled, Toggles, harness
  <2>2. n < 3 => off' = off
    BY <1>4, <2>1 DEF SetEnabled
  <2>3. n >= 3 => off' \subseteq off \cup {s}
    BY <1>4, <2>1 DEF SetEnabled
  <2>4. n >= 3 /\ enabled => s \notin off'
    BY <1>4, <2>1 DEF SetEnabled
  <2>5. n >= 3 => wanted \cap off' = {}
    BY <2>3, <2>4, ReadOff
  <2>6. (file' = "good" => rows' \cap off' = {}) /\ (file' # "good" => off' = {})
    <3>1. CASE n = 0
      BY <2>1, <2>2, <3>1 DEF Written, OffInv
    <3>2. CASE n = 1
      BY <2>1, <2>2, <3>2, ReadOff DEF Written
    <3>3. CASE n = 3
      BY <2>1, <2>5, <3>3 DEF Written
    <3>4. CASE n \in {5, 6}
      BY <2>1, <2>5, <3>4 DEF Written, Available
    <3> QED
      BY <2>1, <3>1, <3>2, <3>3, <3>4
  <2>7. CASE n = 6
    <3>1. env'.on = Available(wanted) /\ calls' = calls + 1
      BY <1>4, <2>7 DEF SetEnabled, RefreshedEnv
    <3>2. calls' # 0
      BY <3>1 DEF TypeOK
    <3> QED
      BY <2>5, <2>6, <2>7, <3>1, <3>2 DEF OffInv, Available
  <2>8. CASE n # 6
    <3>1. UNCHANGED <<env, calls>> /\ off' \subseteq off
      BY <1>4, <2>8 DEF SetEnabled, memory
    <3> QED
      BY <2>1, <2>6, <3>1 DEF OffInv
  <2> QED
    BY <2>7, <2>8
<1>5. CASE Restart
  BY <1>5 DEF Restart, OffInv, TypeOK, disk, memory, harness, history
<1>6. CASE TakeDown \/ Crash
  BY <1>6 DEF TakeDown, Crash, ChildGone, OffInv, disk, memory, history
<1>7. CASE Serve \/ Respawn
  BY <1>7 DEF Serve, Respawn, Spawned, OffInv, disk, memory, history
<1>8. ASSUME NEW s \in Server, NEW state \in Report, Publish(s, state)
      PROVE  OffInv'
  BY <1>8 DEF Publish, OffInv, disk, memory
<1>9. CASE PartialLine
  BY <1>9 DEF PartialLine, OffInv, disk, memory, harness, history
<1>10. ASSUME NEW c \in Child, ReadLine(c)
       PROVE  OffInv'
  BY <1>10 DEF ReadLine, OffInv, disk, harness, history
<1>11. CASE ShellEnds
  BY <1>11 DEF ShellEnds, OffInv, disk, NoEnv
<1>12. CASE EditByHand
  BY <1>12 DEF EditByHand, OffInv, memory, harness
<1>13. CASE Upgrade
  BY <1>13 DEF Upgrade, OffInv, memory, harness, history
<1>14. CASE UNCHANGED vars
  BY <1>14 DEF vars, OffInv, disk, memory, harness, history
<1> QED
  BY <1>1, <1>2, <1>3, <1>4, <1>5, <1>6, <1>7, <1>8, <1>9, <1>10, <1>11, <1>12, <1>13,
     <1>14 DEF Next

(* Unless a restart is due, no dsh mounts what the user turned off: after  *)
(* a respawn, after a call that failed half-way, in the next shell.        *)
THEOREM OffStaysOff == Spec => []OffIsKept
<1>1. OffInv => OffIsKept
  BY DEF OffInv, OffIsKept, Mounted
<1> QED
  BY <1>1, TypeCorrect, InitOff, NextOff, PTL DEF Spec

-----------------------------------------------------------------------------
(* What is shown ready was reported ready.                                 *)

EvidenceInv ==
  /\ ReadyNeedsEvidence
  /\ \A c \in Child : \A i \in 1..Len(unread[c]) :
       unread[c][i].state = "ready" => unread[c][i].server \in proven

LEMMA InitEvidence == Init => EvidenceInv
BY DEF Init, EvidenceInv, ReadyNeedsEvidence, Unlisted, NothingUnread

(* A catalogue shows nothing ready that was not.                           *)
LEMMA CatalogEvidence ==
  ASSUME EvidenceInv, NEW on, SetMcpCatalog(on) \/ ResetMcpCatalog(on),
         UNCHANGED <<unread, proven>>
  PROVE  EvidenceInv'
<1>1. \A s \in Server : status'[s] = "ready" => status[s] = "ready"
  BY DEF SetMcpCatalog, ResetMcpCatalog, First
<1> QED
  BY <1>1 DEF EvidenceInv, ReadyNeedsEvidence

LEMMA SameEvidence ==
  ASSUME EvidenceInv, UNCHANGED <<status, unread, proven>>
  PROVE  EvidenceInv'
BY DEF EvidenceInv, ReadyNeedsEvidence

LEMMA NextEvidence == TypeOK /\ EvidenceInv /\ [Next]_vars => EvidenceInv'
<1> SUFFICES ASSUME TypeOK, EvidenceInv, [Next]_vars
             PROVE  EvidenceInv'
  OBVIOUS
<1>1. ASSUME NEW n \in Ensures, Boot(n) \/ GetState(n)
      PROVE  EvidenceInv'
  <2>1. UNCHANGED <<unread, proven>>
    BY <1>1 DEF Boot, GetState, pipes, history
  <2>2. SetMcpCatalog(Read) \/ ResetMcpCatalog(Read) \/ UNCHANGED memory
    BY <1>1 DEF Boot, GetState
  <2> QED
    BY <2>1, <2>2, CatalogEvidence, SameEvidence DEF memory
<1>2. ASSUME NEW n \in Ensures, OpenConfig(n)
      PROVE  EvidenceInv'
  BY <1>2, SameEvidence DEF OpenConfig, memory, pipes, history
<1>3. ASSUME NEW s \in Server, NEW enabled \in BOOLEAN, NEW n \in Toggles,
             SetEnabled(s, enabled, n)
      PROVE  EvidenceInv'
  <2>1. UNCHANGED <<unread, proven>>
    BY <1>3 DEF SetEnabled, pipes
  <2>2. (\E on : ResetMcpCatalog(on)) \/ UNCHANGED memory
    BY <1>3 DEF SetEnabled
  <2> QED
    BY <2>1, <2>2, CatalogEvidence, SameEvidence DEF memory
<1>4. CASE Restart \/ TakeDown \/ Crash \/ PartialLine \/ EditByHand \/ Upgrade
  BY <1>4, SameEvidence
     DEF Restart, TakeDown, Crash, ChildGone, PartialLine, EditByHand, Upgrade,
         memory, pipes, history
<1>5. CASE Serve \/ Respawn
  BY <1>5, SameEvidence DEF Serve, Respawn, Spawned, memory, history
<1>6. ASSUME NEW s \in Server, NEW state \in Report, Publish(s, state)
      PROVE  EvidenceInv'
  <2>1. status' = status /\ proven \subseteq proven' /\ (state = "ready" => s \in proven')
    BY <1>6 DEF Publish, memory
  <2>2. unread[child] \in Seq(Line) /\ child \in Child
    BY <1>6 DEF Publish, TypeOK
  <2> DEFINE line == [server |-> s, state |-> state]
  <2>3. \A c \in Child : unread'[c] = unread[c] \/ (c = child /\ unread'[c] = Append(unread[c], line))
    BY <1>6, <2>2 DEF Publish, TypeOK
  <2>4. ASSUME NEW c \in Child, NEW i \in 1..Len(unread'[c]), unread'[c][i].state = "ready"
        PROVE  unread'[c][i].server \in proven'
    <3>0. unread[c] \in Seq(Line)
      BY DEF TypeOK
    <3>1. CASE unread'[c] = unread[c]
      BY <2>1, <2>4, <3>1 DEF EvidenceInv
    <3>2. CASE unread'[c] = Append(unread[c], line) /\ i <= Len(unread[c])
      <4>1. unread'[c][i] = unread[c][i] /\ i \in 1..Len(unread[c])
        BY <3>0, <3>2
      <4> QED
        BY <2>1, <2>4, <4>1 DEF EvidenceInv
    <3>3. CASE unread'[c] = Append(unread[c], line) /\ i > Len(unread[c])
      <4>1. unread'[c][i] = line
        BY <3>0, <3>3
      <4> QED
        BY <2>1, <2>4, <4>1
    <3> QED
      BY <2>3, <3>0, <3>1, <3>2, <3>3
  <2> QED
    BY <2>1, <2>4 DEF EvidenceInv, ReadyNeedsEvidence
<1>7. ASSUME NEW c \in Child, ReadLine(c)
      PROVE  EvidenceInv'
  <2>1. unread[c] \in Seq(Line) /\ unread[c] # <<>>
    BY <1>7 DEF ReadLine, TypeOK
  <2>2. Len(unread[c]) \in Nat \ {0} /\ Head(unread[c]) = unread[c][1]
    BY <2>1
  <2>3. unread' = [unread EXCEPT ![c] = Tail(unread[c])] /\ proven' = proven
    BY <1>7 DEF ReadLine, history
  <2>4. Head(unread[c]).state = "ready" => Head(unread[c]).server \in proven
    BY <2>2 DEF EvidenceInv
  <2>5. ReadyNeedsEvidence'
    BY <1>7, <2>3, <2>4 DEF ReadLine, EvidenceInv, ReadyNeedsEvidence, TypeOK
  <2>6. ASSUME NEW d \in Child, NEW i \in 1..Len(unread'[d]), unread'[d][i].state = "ready"
        PROVE  unread'[d][i].server \in proven'
    <3>1. CASE d # c
      BY <2>3, <2>6, <3>1 DEF EvidenceInv, TypeOK
    <3>2. CASE d = c
      <4>1. unread'[c] = Tail(unread[c])
        BY <2>3 DEF TypeOK
      <4>2. i + 1 \in 1..Len(unread[c]) /\ Tail(unread[c])[i] = unread[c][i + 1]
        BY <2>1, <2>2, <3>2, <4>1
      <4> QED
        BY <2>3, <2>6, <3>2, <4>1, <4>2 DEF EvidenceInv
    <3> QED
      BY <3>1, <3>2
  <2> QED
    BY <2>5, <2>6 DEF EvidenceInv
<1>8. CASE ShellEnds
  BY <1>8 DEF ShellEnds, EvidenceInv, ReadyNeedsEvidence, Unlisted, NothingUnread
<1>9. CASE UNCHANGED vars
  BY <1>9, SameEvidence DEF vars, memory, pipes, history
<1> QED
  BY <1>1, <1>2, <1>3, <1>4, <1>5, <1>6, <1>7, <1>8, <1>9 DEF Next

(* No server is shown ready that no dsh of this shell reported ready.      *)
THEOREM ReadyIsProven == Spec => []ReadyNeedsEvidence
<1>1. EvidenceInv => ReadyNeedsEvidence
  BY DEF EvidenceInv
<1> QED
  BY <1>1, TypeCorrect, InitEvidence, NextEvidence, PTL DEF Spec
=============================================================================
