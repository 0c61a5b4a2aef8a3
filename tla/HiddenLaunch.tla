---------------------------- MODULE HiddenLaunch ----------------------------
(* The child processes of the shell: freecode-launcher.ts starts each of    *)
(* them, on Windows through headless-host.exe (native/headless-host), which *)
(* puts its target into a job object before the target runs.               *)
EXTENDS Integers, FiniteSets

CONSTANTS Launches, \* the calls of launchHidden and launchHiddenAndWait
          MaxKids   \* descendants a target has at one time

VARIABLES win,      \* process.platform === 'win32'
          attested, \* headless-host.exe matches its manifest
          host,     \* the policy holds the path of the helper
          call,     \* what the caller was told
          timer,    \* the timeout of launchHiddenAndWait
          active,   \* activeLaunches
          event,    \* the next event of the ChildProcess
          helper,   \* the process that was spawned (off Windows: the target itself)
          target,   \* the executable that was asked for
          inJob,    \* the target belongs to the helper's job
          kids      \* live descendants of the target

vars == <<win, attested, host, call, timer, active, event, helper, target, inJob, kids>>
shell == <<call, timer, active, event>>
system == <<helper, target, inJob, kids>>

Settled == {"resolved", "rejected", "timeout", "refused"}

TypeOK ==
    /\ win \in BOOLEAN /\ attested \in BOOLEAN /\ host \in BOOLEAN
    /\ call \in [Launches -> {"none", "tracked", "waiting"} \cup Settled]
    /\ timer \in [Launches -> {"off", "armed", "fired"}]
    /\ active \subseteq Launches
    /\ event \in [Launches -> {"none", "error", "exit", "close"}]
    /\ helper \in [Launches -> {"none", "alive", "gone"}]
    /\ target \in [Launches -> {"none", "suspended", "running", "gone"}]
    /\ inJob \in [Launches -> BOOLEAN]
    /\ kids \in [Launches -> 0..MaxKids]

Init ==
    /\ win \in BOOLEAN /\ attested \in BOOLEAN /\ host = FALSE
    /\ call = [l \in Launches |-> "none"]
    /\ timer = [l \in Launches |-> "off"]
    /\ active = {}
    /\ event = [l \in Launches |-> "none"]
    /\ helper = [l \in Launches |-> "none"]
    /\ target = [l \in Launches |-> "none"]
    /\ inJob = [l \in Launches |-> FALSE]
    /\ kids = [l \in Launches |-> 0]

-----------------------------------------------------------------------------
(* headless-host-policy.ts *)

\* The helper is remembered only when its bytes are those of its manifest.
Configure == host' = (host \/ attested)

\* invocation() throws rather than start a Windows program without the helper.
MayInvoke == win => host \/ attested

-----------------------------------------------------------------------------
(* freecode-launcher.ts *)

\* The executable or its helper is missing, or its stdio cannot be passed on:
\* the caller gets a LaunchError and nothing was started.
Refuse(l) ==
    /\ call[l] = "none"
    /\ call' = [call EXCEPT ![l] = "refused"]
    /\ Configure
    /\ UNCHANGED <<win, attested, timer, active, event, system>>

\* spawn() may still fail, in an event: the process then never exists.
Launch(l, waits) ==
    /\ call[l] = "none"
    /\ MayInvoke
    /\ Configure
    /\ call' = [call EXCEPT ![l] = IF waits THEN "waiting" ELSE "tracked"]
    /\ timer' = [timer EXCEPT ![l] = IF waits THEN "armed" ELSE "off"]
    /\ active' = active \cup {l}
    /\ \/ /\ event' = [event EXCEPT ![l] = "error"]
          /\ UNCHANGED system
       \/ /\ helper' = [helper EXCEPT ![l] = "alive"]
          /\ target' = [target EXCEPT ![l] = IF win THEN "none" ELSE "running"]
          /\ UNCHANGED <<event, inJob, kids>>
    /\ UNCHANGED <<win, attested>>

\* 'error' ends the tracking and rejects a waiting caller.
OnError(l) ==
    /\ event[l] = "error"
    /\ event' = [event EXCEPT ![l] = "none"]
    /\ active' = active \ {l}
    /\ call' = [call EXCEPT ![l] = IF @ = "waiting" THEN "rejected" ELSE @]
    /\ timer' = [timer EXCEPT ![l] = IF call[l] = "waiting" THEN "off" ELSE @]
    /\ UNCHANGED <<win, attested, host, system>>

OnExit(l) ==
    /\ event[l] = "exit"
    /\ event' = [event EXCEPT ![l] = "close"]
    /\ active' = active \ {l}
    /\ UNCHANGED <<win, attested, host, call, timer, system>>

\* A waiting caller hears of its timeout only once the process is gone.
OnClose(l) ==
    /\ event[l] = "close"
    /\ event' = [event EXCEPT ![l] = "none"]
    /\ call' = [call EXCEPT ![l] = IF @ # "waiting" THEN @
                                   ELSE IF timer[l] = "fired" THEN "timeout" ELSE "resolved"]
    /\ timer' = [timer EXCEPT ![l] = "off"]
    /\ UNCHANGED <<win, attested, host, active, system>>

\* The end of the spawned process closes the job: all that is in it dies too.
JobCloses(l) ==
    /\ helper' = [helper EXCEPT ![l] = "gone"]
    /\ target' = [target EXCEPT ![l] = IF inJob[l] \/ (~win /\ @ # "none") THEN "gone" ELSE @]
    /\ kids' = [kids EXCEPT ![l] = IF inJob[l] THEN 0 ELSE @]
    /\ event' = [event EXCEPT ![l] = IF @ = "error" THEN @ ELSE "exit"]
    /\ UNCHANGED inJob

\* Wrong: the caller is told at the moment the timer fires.
TimeoutEager(l) ==
    /\ timer[l] = "armed"
    /\ timer' = [timer EXCEPT ![l] = "fired"]
    /\ call' = [call EXCEPT ![l] = "timeout"]
    /\ UNCHANGED <<event, system, win, attested, host, active>>

\* Wrong: the timer kills nothing.
TimeoutIdle(l) ==
    /\ timer[l] = "armed"
    /\ timer' = [timer EXCEPT ![l] = "fired"]
    /\ UNCHANGED <<event, system, win, attested, host, active, call>>

\* The timer kills exactly the child this call started. The system may refuse:
\* Node reports that as an 'error' of a child that still runs.
Timeout(l) ==
    /\ timer[l] = "armed"
    /\ timer' = [timer EXCEPT ![l] = "fired"]
    /\ IF helper[l] = "alive"
         THEN \/ JobCloses(l)
              \/ /\ event' = [event EXCEPT ![l] = "error"]
                 /\ UNCHANGED system
         ELSE UNCHANGED <<event, system>>
    /\ UNCHANGED <<win, attested, host, call, active>>

\* killProcessTree, the end of the shell, or the user's task manager.
KillTree(l) ==
    /\ helper[l] = "alive"
    /\ JobCloses(l)
    /\ UNCHANGED <<win, attested, host, call, timer, active>>

-----------------------------------------------------------------------------
(* runContained of main_windows.go *)

\* The executable, the private desktop, the job or a hook is missing.
PrepareFails(l) ==
    /\ win /\ helper[l] = "alive" /\ target[l] = "none"
    /\ JobCloses(l)
    /\ UNCHANGED <<win, attested, host, call, timer, active>>

\* CreateProcess with CREATE_SUSPENDED.
CreateTarget(l) ==
    /\ win /\ helper[l] = "alive" /\ target[l] = "none"
    /\ target' = [target EXCEPT ![l] = "suspended"]
    /\ UNCHANGED <<win, attested, host, shell, helper, inJob, kids>>

Assign(l) ==
    /\ helper[l] = "alive" /\ target[l] = "suspended" /\ ~inJob[l]
    /\ inJob' = [inJob EXCEPT ![l] = TRUE]
    /\ UNCHANGED <<win, attested, host, shell, helper, target, kids>>

\* The target is terminated, still suspended, and the helper gives up.
AssignFails(l) ==
    /\ helper[l] = "alive" /\ target[l] = "suspended" /\ ~inJob[l]
    /\ helper' = [helper EXCEPT ![l] = "gone"]
    /\ target' = [target EXCEPT ![l] = "gone"]
    /\ event' = [event EXCEPT ![l] = IF @ = "error" THEN @ ELSE "exit"]
    /\ UNCHANGED <<win, attested, host, call, timer, active, inJob, kids>>

\* Wrong: resumed before the assignment.
MayResumeLoose(l) == target[l] = "suspended"

MayResume(l) == target[l] = "suspended" /\ inJob[l]

Resume(l) ==
    /\ helper[l] = "alive" /\ MayResume(l)
    /\ \/ /\ target' = [target EXCEPT ![l] = "running"]
          /\ UNCHANGED <<event, helper, inJob, kids>>
       \/ JobCloses(l)
    /\ UNCHANGED <<win, attested, host, call, timer, active>>

\* A child of a process in the job is in the job: there is no breakaway.
Fork(l) ==
    /\ target[l] = "running" /\ kids[l] < MaxKids
    /\ kids' = [kids EXCEPT ![l] = @ + 1]
    /\ UNCHANGED <<win, attested, host, shell, helper, target, inJob>>

\* The helper waits for its target, not for the target's children.
TargetEnds(l) ==
    /\ target[l] = "running" /\ helper[l] = "alive"
    /\ JobCloses(l)
    /\ UNCHANGED <<win, attested, host, call, timer, active>>

-----------------------------------------------------------------------------
Events(l) == OnError(l) \/ OnExit(l) \/ OnClose(l)

Next == \E l \in Launches :
    \/ Refuse(l) \/ (\E waits \in BOOLEAN : Launch(l, waits))
    \/ OnError(l) \/ OnExit(l) \/ OnClose(l) \/ Timeout(l) \/ KillTree(l)
    \/ PrepareFails(l) \/ CreateTarget(l) \/ Assign(l) \/ AssignFails(l)
    \/ Resume(l) \/ Fork(l) \/ TargetEnds(l)

Spec == Init /\ [][Next]_vars

\* Node delivers its events and fires its timers.
Fairness == \A l \in Launches : WF_vars(Events(l)) /\ WF_vars(Timeout(l))

FairSpec == Spec /\ Fairness

-----------------------------------------------------------------------------
(* On Windows a target runs, and has descendants, only inside the job of a  *)
(* live helper: nothing runs uncontained and nothing outlives the helper.   *)
NeverLoose == win => \A l \in Launches :
    target[l] = "running" \/ kids[l] > 0 => inJob[l] /\ helper[l] = "alive"

(* A caller that was told of an exit or of a timeout may start the program  *)
(* again: no process of its launch runs any more.                           *)
SettledMeansGone == \A l \in Launches :
    call[l] \in {"resolved", "timeout"} =>
        helper[l] = "gone" /\ target[l] \notin {"running"} /\ l \notin active

Contained == NeverLoose /\ SettledMeansGone

(* Every launchHiddenAndWait call is answered, however its child hangs.     *)
WaitsAreSettled == \A l \in Launches : call[l] = "waiting" ~> call[l] \in Settled

-----------------------------------------------------------------------------
(* What an event of a ChildProcess says of the process: it is not there       *)
(* before its launch, and gone once it has exited.                            *)
EventsAreTrue ==
  \A l \in Launches :
    /\ call[l] = "none" => event[l] = "none" /\ helper[l] = "none"
    /\ target[l] = "running" => helper[l] = "alive"
    /\ event[l] \in {"exit", "close"} => helper[l] = "gone"
    /\ event[l] = "close" => l \notin active

(* The inductive invariant of the proofs.                                     *)
IInv == TypeOK /\ EventsAreTrue /\ Contained
=============================================================================
