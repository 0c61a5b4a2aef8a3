---------------------------- MODULE ShellLifecycle ----------------------------
(* One life of the desktop shell: the two single-instance locks, the startup *)
(* chain of app.whenReady() and the staged quit of before-quit (index.ts,    *)
(* lifecycle-manager.ts, runtime.ts). Several shells share one userData      *)
(* directory, each a process of its own. What lies past the locks is kept    *)
(* once, for the shell that got there, and ends with its process.            *)
EXTENDS Integers, FiniteSets

CONSTANTS Shells,   \* the processes the user starts
          Attempts, \* how often the preflight looks at the runtime
          MaxDsh    \* bound: harness processes one shell launches

VARIABLES lock,   \* freecode-singleton.lock: free, torn, dead (a pid no process has), or its shell
          stage,  \* how far each shell is with the locks
          pc,     \* where the startup chain waits
          tries,  \* preflights that failed
          splash, \* the splash window is open
          main,   \* the main window exists
          bridge, \* the dialog bridge listens
          status, \* the supervisor's status
          dsh,    \* live harness processes, by number of launch
          held,   \* the one the supervisor holds, 0 if none
          born,   \* harness processes launched so far
          quit,   \* the stage of the quit
          named,  \* the pids before-quit collected
          late,   \* harness processes launched since
          left    \* of those launched before a quit, the ones alive at its end

locks == <<lock, stage>>
windows == <<splash, main>>
harness == <<status, dsh, held, born, late>>
leaving == <<quit, named, left>>
vars == <<locks, pc, tries, windows, bridge, harness, leaving>>

Locking == {"off", "read", "unlink", "write", "fill", "claim"}
Closing == {"browser", "bridge", "harness", "phoenix", "logger", "wait"}

TypeOK ==
    /\ lock \in {"free", "torn", "dead"} \cup Shells
    /\ stage \in [Shells -> Locking \cup {"owner", "refused", "gone"}]
    /\ pc \in {"off", "runtime", "dialog", "preflight", "browser", "bridge", "bootstrap",
               "start", "running", "rejected", "over"}
    /\ tries \in 0..Attempts
    /\ splash \in BOOLEAN /\ main \in BOOLEAN /\ bridge \in BOOLEAN
    /\ status \in {"idle", "starting", "ready", "backoff", "stuck", "stopped", "updating"}
    /\ born \in 0..MaxDsh
    /\ dsh \subseteq 1..born /\ held \in dsh \cup {0}
    /\ named \subseteq 1..born /\ late \subseteq 1..born /\ left \subseteq 1..MaxDsh
    /\ quit \in {"no"} \cup Closing

Init ==
    /\ lock \in {"free", "torn", "dead"}
    /\ stage = [s \in Shells |-> "off"]
    /\ pc = "off" /\ tries = 0
    /\ splash = FALSE /\ main = FALSE /\ bridge = FALSE
    /\ status = "idle" /\ dsh = {} /\ held = 0 /\ born = 0 /\ late = {}
    /\ quit = "no" /\ named = {} /\ left = {}

Owner(s) == stage[s] = "owner"
Alive(s) == stage[s] \notin {"off", "refused", "gone"}
Step(s, to) == stage' = [stage EXCEPT ![s] = to]
past == <<pc, tries, windows, bridge, harness, leaving>>

\* The process ends, and on Windows its children with it (HiddenLaunch).
Exit(s) ==
    /\ Step(s, "gone")
    /\ pc' = "off" /\ tries' = 0
    /\ splash' = FALSE /\ main' = FALSE /\ bridge' = FALSE
    /\ status' = "idle" /\ dsh' = {} /\ held' = 0 /\ born' = 0 /\ late' = {}
    /\ quit' = "no" /\ named' = {}

-----------------------------------------------------------------------------
(* acquireSingletonLock: the file is tested, read, removed and written in    *)
(* separate calls, and other shells run between any two of them.             *)

\* Two shells that start together may both find no file.
TestLock(s) ==
    /\ stage[s] = "off"
    /\ Step(s, IF lock = "free" THEN "write" ELSE "read")
    /\ UNCHANGED <<lock, past>>

\* quit() of a shell that has no LifecycleManager yet exits at once, and
\* leaves the lock file as it is.
Refused(s) == Step(s, "refused") /\ UNCHANGED <<lock, past>>

\* Wrong: the pid is not looked up.
NamesAny == lock \in Shells

NamesLive == lock \in Shells /\ Alive(lock)

\* A file that does not parse, or whose process is gone, is not obeyed.
ReadLock(s) ==
    /\ stage[s] = "read"
    /\ \/ NamesLive /\ Refused(s)
       \/ ~NamesLive /\ Step(s, "unlink") /\ UNCHANGED <<lock, past>>

Unlink(s) ==
    /\ stage[s] = "unlink"
    /\ lock' = "free" /\ Step(s, "write")
    /\ UNCHANGED past

\* writeFileSync empties the file before it fills it.
WriteLock(s) ==
    /\ stage[s] = "write"
    /\ lock' = "torn" /\ Step(s, "fill")
    /\ UNCHANGED past

WriteFails(s) == stage[s] = "write" /\ Refused(s)

FillLock(s) ==
    /\ stage[s] = "fill"
    /\ lock' = (IF lock = "free" THEN "free" ELSE s) /\ Step(s, "claim")
    /\ UNCHANGED past

\* Wrong: the file is trusted alone.
MayClaimAnyway == TRUE

\* app.requestSingleInstanceLock(): the system gives it to one live process.
MayClaim == ~\E t \in Shells : Owner(t)

Claim(s) ==
    /\ stage[s] = "claim"
    /\ \/ ~MayClaim /\ Refused(s)
       \/ /\ MayClaim
          /\ Step(s, "owner")
          /\ pc' = "runtime" /\ splash' = TRUE
          /\ UNCHANGED <<lock, tries, main, bridge, harness, leaving>>

-----------------------------------------------------------------------------
(* The quit. *)

\* Wrong: the harness is left to runtime.stop().
BeforeQuitUnnamed ==
    /\ quit = "no"
    /\ quit' = "browser" /\ named' = {}
    /\ UNCHANGED left

\* before-quit names the pid of the harness there is now.
BeforeQuit ==
    /\ quit = "no"
    /\ quit' = "browser" /\ named' = {held} \ {0}
    /\ UNCHANGED left

\* The menus come with the main window, the tray's with the end of the chain.
CanQuit == main \/ pc = "running"

AskToQuit ==
    /\ CanQuit /\ BeforeQuit
    /\ UNCHANGED <<locks, pc, tries, windows, bridge, harness>>

\* A second quit finds shuttingDown set, is not prevented, and Electron closes
\* the windows and exits under the first one.
QuitAgain(s) ==
    /\ Owner(s) /\ CanQuit /\ quit # "no"
    /\ Exit(s)
    /\ UNCHANGED <<lock, left>>

CloseBrowser ==
    /\ quit = "browser" /\ quit' = "bridge"
    /\ UNCHANGED <<locks, pc, tries, windows, bridge, harness, named, left>>

CloseBridge ==
    /\ quit = "bridge" /\ quit' = "harness" /\ bridge' = FALSE
    /\ UNCHANGED <<locks, pc, tries, windows, harness, named, left>>

\* runtime.stop() stops the harness before the gateway.
StopHarness ==
    /\ quit = "harness" /\ quit' = "phoenix"
    /\ dsh' = dsh \ {held} /\ held' = 0
    /\ status' = IF status = "idle" THEN "idle" ELSE "stopped"
    /\ UNCHANGED <<locks, pc, tries, windows, bridge, born, late, named, left>>

StopPhoenix ==
    /\ quit = "phoenix" /\ quit' = "logger"
    /\ UNCHANGED <<locks, pc, tries, windows, bridge, harness, named, left>>

CloseLogger ==
    /\ quit = "logger" /\ quit' = "wait"
    /\ UNCHANGED <<locks, pc, tries, windows, bridge, harness, named, left>>

\* releaseSingletonLock leaves a file that names another process.
Release(s) == lock' = IF lock = s THEN "free" ELSE lock

\* taskkill on every named pid, the lock file removed if it is ours, exit.
Finish(s) ==
    /\ Owner(s)
    /\ left' = (dsh \ named) \ late
    /\ Release(s)
    /\ Exit(s)

\* The wait for the named pids lasts half a second at most.
Waited(s) == quit = "wait" /\ Finish(s)

\* Wrong: the cleanup is awaited without the race.
GivesUpNever == FALSE

\* Two seconds end the cleanup wherever it hangs, and an exception ends it too.
GivesUp == quit \in Closing \ {"wait"}
Timeout(s) == GivesUp /\ Finish(s)

-----------------------------------------------------------------------------
(* The startup chain. *)

Go(from, to) == pc = from /\ pc' = to

RuntimeReady ==
    /\ Go("runtime", "preflight")
    /\ UNCHANGED <<locks, tries, windows, bridge, harness, leaving>>

\* The download failed: the user is asked.
RuntimeFails ==
    /\ Go("runtime", "dialog")
    /\ UNCHANGED <<locks, tries, windows, bridge, harness, leaving>>

RetryDownload ==
    /\ Go("dialog", "runtime")
    /\ UNCHANGED <<locks, tries, windows, bridge, harness, leaving>>

CloseDialog ==
    /\ Go("dialog", "over") /\ BeforeQuit
    /\ splash' = FALSE
    /\ UNCHANGED <<locks, tries, main, bridge, harness>>

PreflightPasses ==
    /\ Go("preflight", "browser")
    /\ UNCHANGED <<locks, tries, windows, bridge, harness, leaving>>

PreflightRetries ==
    /\ pc = "preflight" /\ tries + 1 < Attempts
    /\ tries' = tries + 1
    /\ UNCHANGED <<locks, pc, windows, bridge, harness, leaving>>

\* The last failure ends the process without before-quit.
PreflightFails(s) ==
    /\ Owner(s) /\ pc = "preflight" /\ tries + 1 = Attempts
    /\ Exit(s)
    /\ UNCHANGED <<lock, left>>

\* A browser or a bridge that cannot listen is done without.
OpenBrowser ==
    /\ Go("browser", "bridge")
    /\ UNCHANGED <<locks, tries, windows, bridge, harness, leaving>>

OpenBridge ==
    /\ Go("bridge", "bootstrap")
    /\ bridge' \in BOOLEAN
    /\ UNCHANGED <<locks, tries, windows, harness, leaving>>

\* bootstrap() needs the dialog bridge, then the gateway, and nothing catches it.
Bootstrap ==
    /\ bridge /\ Go("bootstrap", "start")
    /\ UNCHANGED <<locks, tries, windows, bridge, harness, leaving>>

BootstrapThrows ==
    /\ Go("bootstrap", "rejected")
    /\ UNCHANGED <<locks, tries, windows, bridge, harness, leaving>>

LaunchDsh ==
    /\ born < MaxDsh
    /\ born' = born + 1 /\ held' = born + 1
    /\ dsh' = dsh \cup {born + 1}
    /\ late' = IF quit = "no" THEN late ELSE late \cup {born + 1}
    /\ status' = "starting"

RuntimeStart ==
    /\ Go("start", "running") /\ LaunchDsh
    /\ UNCHANGED <<locks, tries, windows, bridge, leaving>>

RuntimeStartThrows ==
    /\ Go("start", "rejected")
    /\ UNCHANGED <<locks, tries, windows, bridge, harness, leaving>>

\* Wrong: the watchdog waits for the window it stands in for.
WatchdogAfterMain ==
    /\ pc = "running" /\ splash /\ main
    /\ splash' = FALSE
    /\ UNCHANGED <<locks, pc, tries, main, bridge, harness, leaving>>

\* 120 s after the end of the chain.
Watchdog ==
    /\ pc = "running" /\ splash /\ ~main
    /\ splash' = FALSE
    /\ UNCHANGED <<locks, pc, tries, main, bridge, harness, leaving>>

-----------------------------------------------------------------------------
(* What the supervisor reports, and who calls it. *)

Ready ==
    /\ held # 0 /\ status = "starting"
    /\ status' = "ready" /\ splash' = FALSE /\ main' = TRUE
    /\ UNCHANGED <<locks, pc, tries, bridge, dsh, held, born, late, leaving>>

\* An exit is answered by another launch, or by onStuck and its dialog.
Dies ==
    /\ held # 0
    /\ dsh' = dsh \ {held} /\ held' = 0
    /\ \/ status' = "backoff" /\ UNCHANGED splash
       \/ status' = "stuck" /\ splash' = FALSE
    /\ UNCHANGED <<locks, pc, tries, main, bridge, born, late, leaving>>

\* The backoff timer, the retry button, or the end of a harness update, which
\* starts the harness again whatever has stopped it meanwhile.
Relaunch ==
    /\ status \in {"backoff", "stuck", "updating"}
    /\ LaunchDsh
    /\ UNCHANGED <<locks, pc, tries, windows, bridge, leaving>>

UpdateStops ==
    /\ quit = "no" /\ status = "ready"
    /\ dsh' = dsh \ {held} /\ held' = 0
    /\ status' = "updating"
    /\ UNCHANGED <<locks, pc, tries, windows, bridge, born, late, leaving>>

Crash(s) ==
    /\ Alive(s)
    /\ IF Owner(s) THEN Exit(s) ELSE Step(s, "gone") /\ UNCHANGED <<pc, tries, windows, bridge, harness, quit, named>>
    /\ UNCHANGED <<lock, left>>

-----------------------------------------------------------------------------
Acquire(s) == \/ TestLock(s) \/ ReadLock(s) \/ Unlink(s) \/ WriteLock(s) \/ WriteFails(s)
              \/ FillLock(s) \/ Claim(s)

Leave == AskToQuit \/ CloseBrowser \/ CloseBridge \/ StopHarness \/ StopPhoenix \/ CloseLogger

\* The chain's promises settle by themselves.
Chain == \/ RuntimeReady \/ RuntimeFails \/ PreflightPasses \/ PreflightRetries
         \/ OpenBrowser \/ OpenBridge \/ Bootstrap \/ BootstrapThrows
         \/ RuntimeStart \/ RuntimeStartThrows

Supervise == Ready \/ Dies \/ Relaunch \/ UpdateStops

EndsQuit(s) == Waited(s) \/ Timeout(s)

Next == \/ Chain \/ Supervise \/ Leave \/ RetryDownload \/ CloseDialog \/ Watchdog
        \/ \E s \in Shells : \/ Acquire(s) \/ QuitAgain(s) \/ EndsQuit(s)
                             \/ PreflightFails(s) \/ Crash(s)

Spec == Init /\ [][Next]_vars

\* Timers fire. The user, the harness, and a server that is asked to close owe nothing.
Fairness ==
    /\ WF_vars(Chain) /\ WF_vars(Watchdog)
    /\ WF_vars(\E s \in Shells : PreflightFails(s))
    /\ WF_vars(\E s \in Shells : EndsQuit(s))

FairSpec == Spec /\ Fairness

-----------------------------------------------------------------------------
\* acquireSingletonLock acts on what it read some steps ago, so the file alone
\* does not keep two shells apart; with the second lock one shell at most is
\* past both, and the gateway, the harness and the windows are its own.
OneOwner ==
    /\ \A s, t \in Shells : Owner(s) /\ Owner(t) => s = t
    /\ pc # "off" => \E s \in Shells : Owner(s)

\* Shells that start together refuse each other, never all of them: a shell is
\* refused while another one lives, or because it could not write the file.
RefusedForAnother ==
    [][\A s \in Shells : (ReadLock(s) \/ Claim(s)) /\ stage'[s] = "refused"
                           => \E t \in Shells \ {s} : Alive(t)]_vars

\* A quit that comes to its end, even one whose every step hangs, leaves none of
\* the harness processes there were when it began.
QuitLeavesNothing == left = {}

\* A quit ends although a server never closes and the harness never exits.
QuitEnds == quit # "no" ~> quit = "no"

\* The splash gives way to a window, a dialog or the end, unless the chain was rejected.
SplashEnds == splash ~> ~splash \/ pc \in {"dialog", "rejected"}

-----------------------------------------------------------------------------
\* The supervisor holds the one harness process there is, and holds none while
\* it waits to launch another.
OneHarness ==
    /\ dsh = {held} \ {0}
    /\ status \in {"idle", "backoff", "stuck", "updating", "stopped"} => held = 0
    /\ pc # "running" => status = "idle"

\* Every harness process alive during a quit was named by before-quit or
\* launched later.
AllNamed == quit # "no" => dsh \subseteq named \cup late

\* The lock file names a shell only once that shell has written it.
NamedLater ==
    \A s \in Shells : stage[s] \in Locking \ {"claim"} => lock # s

\* The inductive invariant of the proofs.
IInv == TypeOK /\ OneOwner /\ OneHarness /\ AllNamed /\ QuitLeavesNothing /\ NamedLater
=============================================================================
