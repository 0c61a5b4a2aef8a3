---------------------------- MODULE RuntimeInstall ----------------------------
(***************************************************************************)
(* How the DSH runtime on disk comes, is replaced and is put in service:   *)
(* ensurePackagedHarnessRuntime at boot (apps/shell/src/main/index.ts,     *)
(* harness-bootstrap.ts), the harness update of a running shell, and       *)
(* installHarnessRuntime / promoteHarnessRuntime (harness-updater.ts).     *)
(*                                                                         *)
(* promoteHarnessRuntime is synchronous: no other code of the shell runs   *)
(* between its file operations, but each may fail, and the shell or the    *)
(* machine may die between any two.  A download is a wait: the user can    *)
(* restart dsh, toggle an MCP server (which restarts dsh) or accept        *)
(* another update meanwhile.                                               *)
(*                                                                         *)
(* A release is its version; a release whose archive is damaged or does    *)
(* not fit (digest, engine, ABI) fails before it is promoted.  The         *)
(* supervisor is modelled in HarnessSupervisor; here it is the release its *)
(* child was started from.                                                 *)
(***************************************************************************)
EXTENDS Integers

CONSTANTS
  MaxVersion,   \* the releases are 1..MaxVersion
  MaxFaults     \* bound on what goes wrong between two commits: a file
                \* operation that fails, or a death inside a promotion

ASSUME InstallAssumption ==
  /\ MaxVersion \in Nat \ {0}
  /\ MaxFaults \in Nat

VARIABLES
  dsh, manifest,        \* targetRoot: dsh/ and runtime-manifest.json
  keptDsh, keptManifest, \* the backups of the promotion under way
  leftovers,    \* the releases whose dsh/ is left in a backup of an earlier
                \* promotion
  promoted,     \* harnessPromoted and manifestPromoted
  pc,           \* where the boot or a promotion is
  caller,       \* who runs the promotion: "boot" or "update"
  staged,       \* the release being fetched at boot or promoted
  committed,    \* whether the promotion has passed its validation
  faults,       \* what went wrong since the last commit
  minimum,      \* the version packaged with the shell
  published,    \* the newest release
  currentVersion, \* what createHarnessUpdater was given at startup
  offers,       \* the updates whose dialogs are open
  fetching,     \* the updates being downloaded
  running,      \* what the supervisor's child was started from, or None
  told,         \* what the last harness update came to, if none began since
  lastGood,     \* the release last validated in place, or None
  before        \* dsh and manifest as the promotion found them

disk     == <<dsh, manifest, keptDsh, keptManifest, promoted, leftovers>>
releases == <<minimum, published, currentVersion>>
updates  == <<offers, fetching, running, told>>
history  == <<lastGood, before>>
vars == <<disk, pc, caller, staged, committed, faults, releases, updates, history>>

None == 0
Torn == -1     \* a directory that was removed only in part
Version == 1..MaxVersion

Resting == {"off", "asking", "idle"}
Applying == {"backupDsh", "backupManifest", "moveDsh", "moveManifest", "validate"}
Undoing == {"removeDsh", "restoreDsh", "removeManifest", "restoreManifest"}
Discarding == {"discardDsh", "discardManifest"}
Promoting == Applying \cup Undoing \cup Discarding \cup {"cleanup"}

TypeOK ==
  /\ dsh \in Version \cup {None, Torn}
  /\ manifest \in Version \cup {None}
  /\ keptDsh \in Version \cup {None, Torn}
  /\ keptManifest \in Version \cup {None}
  /\ leftovers \subseteq Version
  /\ promoted \subseteq {"dsh", "manifest"}
  /\ pc \in Resting \cup Promoting \cup {"checking", "fetching", "verifying"}
  /\ caller \in {"boot", "update"}
  /\ staged \in Version \cup {None}
  /\ committed \in BOOLEAN
  /\ faults \in 0..MaxFaults
  /\ minimum \in Version
  /\ published \in Version
  /\ currentVersion \in Version \cup {None}
  /\ offers \subseteq Version
  /\ fetching \subseteq Version
  /\ running \in Version \cup {None, Torn}
  /\ told \in {"nothing", "installed", "failed"}
  /\ lastGood \in Version \cup {None}
  /\ before \in (Version \cup {None, Torn}) \X (Version \cup {None})

(* A first run, on a shell packaged with any release that is published.    *)
Init ==
  /\ dsh = None /\ manifest = None
  /\ keptDsh = None /\ keptManifest = None
  /\ leftovers = {}
  /\ promoted = {}
  /\ pc = "off"
  /\ caller = "boot"
  /\ staged = None
  /\ committed = FALSE
  /\ faults = 0
  /\ published \in Version
  /\ minimum \in 1..published
  /\ currentVersion = None
  /\ offers = {} /\ fetching = {}
  /\ running = None
  /\ told = "nothing"
  /\ lastGood = None
  /\ before = <<None, None>>

-----------------------------------------------------------------------------
(* validateHarnessRuntime looks for a handful of files and reads the       *)
(* version in the manifest: it may pass a directory removed in part, and   *)
(* never compares the manifest with the directory.                         *)
MayValidateUnversioned(d, v) == d # None /\ v # None
MayValidate(d, v) == d # None /\ v # None /\ v >= minimum
MustValidate(d, v) == MayValidate(d, v) /\ d # Torn

(* Something goes wrong, within the bound.                                 *)
Fault == faults < MaxFaults /\ faults' = faults + 1

NoFault == UNCHANGED faults

-----------------------------------------------------------------------------
(* The boot.                                                               *)

Boot ==
  /\ pc = "off"
  /\ pc' = "checking"
  /\ caller' = "boot"
  /\ UNCHANGED <<disk, staged, committed, faults, releases, updates, history>>

(* The shell goes on to start the supervisor and to build its updater,     *)
(* with the version it finds now.                                          *)
Accepted ==
  /\ MayValidate(dsh, manifest)
  /\ pc' = "idle"
  /\ running' = dsh
  /\ currentVersion' = manifest
  /\ lastGood' = IF dsh = Torn THEN lastGood ELSE dsh
  /\ UNCHANGED <<disk, caller, staged, committed, minimum, published, offers,
                 fetching, told, before>>

(* readValidatedRuntimeVersion.                                            *)
UsesExisting == pc = "checking" /\ Accepted /\ NoFault

(* The packaged minimum itself is fetched, whatever newer release there is. *)
FetchesMinimum ==
  /\ pc = "checking"
  /\ IF MustValidate(dsh, manifest) THEN Fault ELSE NoFault
  /\ pc' = "fetching"
  /\ staged' = minimum
  /\ UNCHANGED <<disk, caller, committed, releases, updates, history>>

(* A failed boot waits for the user.                                       *)
BootFailedRetries == "checking"
BootFailed == "asking"

BootFetchFails ==
  /\ pc = "fetching"
  /\ pc' = BootFailed
  /\ UNCHANGED <<disk, caller, staged, committed, faults, releases, updates, history>>

(* ensureHarnessRuntime validates once more what it installed.             *)
Verifies == pc = "verifying" /\ Accepted /\ NoFault

VerifyFails ==
  /\ pc = "verifying"
  /\ IF MustValidate(dsh, manifest) THEN Fault ELSE NoFault
  /\ pc' = BootFailed
  /\ UNCHANGED <<disk, caller, staged, committed, releases, updates, history>>

(* The dialog of ensurePackagedHarnessRuntime; its other answer is Quit.   *)
Retry ==
  /\ pc = "asking"
  /\ pc' = "checking"
  /\ UNCHANGED <<disk, caller, staged, committed, faults, releases, updates, history>>

-----------------------------------------------------------------------------
(* The harness update of a running shell.                                  *)

(* checkHarnessRelease compares with the version given at startup.         *)
Offer ==
  /\ pc = "idle"
  /\ published > currentVersion
  /\ offers' = offers \cup {published}
  /\ UNCHANGED <<disk, pc, caller, staged, committed, faults, releases, fetching,
                 running, told, history>>

Decline(v) ==
  /\ pc = "idle"
  /\ v \in offers
  /\ offers' = offers \ {v}
  /\ UNCHANGED <<disk, pc, caller, staged, committed, faults, releases, fetching,
                 running, told, history>>

(* supervisor.stop(), then the download.  Nothing keeps a second update    *)
(* from being accepted during the first.                                   *)
Update(v) ==
  /\ pc = "idle"
  /\ v \in offers \ fetching
  /\ offers' = offers \ {v}
  /\ fetching' = fetching \cup {v}
  /\ running' = None
  /\ told' = "nothing"
  /\ UNCHANGED <<disk, pc, caller, staged, committed, faults, releases, history>>

(* The finally of the update: supervisor.start() does nothing when there   *)
(* is a child, and asks nothing of what it starts.                         *)
StartsNever(r) == running' = r
Starts(r) == running' = IF r = None THEN dsh ELSE r

UpdateFetchFails(v) ==
  /\ pc = "idle"
  /\ v \in fetching
  /\ fetching' = fetching \ {v}
  /\ told' = "failed"
  /\ Starts(running)
  /\ UNCHANGED <<disk, pc, caller, staged, committed, faults, releases, offers, history>>

(* Restart from the tray, the menu, the stuck dialog or mcp:setEnabled.    *)
Restart ==
  /\ pc = "idle"
  /\ running' = dsh
  /\ UNCHANGED <<disk, pc, caller, staged, committed, faults, releases, offers,
                 fetching, told, history>>

-----------------------------------------------------------------------------
(* promoteHarnessRuntime.                                                  *)

Promotes(v, who) ==
  /\ pc' = "backupDsh"
  /\ caller' = who
  /\ staged' = v
  /\ committed' = FALSE
  /\ promoted' = {}
  /\ before' = <<dsh, manifest>>
  /\ UNCHANGED <<dsh, manifest, keptDsh, keptManifest, leftovers, faults, releases,
                 updates, lastGood>>

PromoteBoot == pc = "fetching" /\ Promotes(staged, "boot")
PromoteUpdate(v) == pc = "idle" /\ v \in fetching /\ Promotes(v, "update")

frame == <<caller, releases, updates>>

(* The file operation of this step is done, or fails and leads elsewhere.  *)
Goes(next) == pc' = next /\ NoFault
Fails(next) ==
  /\ Fault
  /\ pc' = next
  /\ UNCHANGED <<dsh, manifest, keptDsh, keptManifest, promoted>>

BackupDsh ==
  /\ pc = "backupDsh"
  /\ \/ /\ Goes("backupManifest")
        /\ keptDsh' = dsh /\ dsh' = None
        /\ UNCHANGED <<manifest, keptManifest, promoted>>
     \/ dsh # None /\ Fails("removeDsh")
  /\ UNCHANGED <<frame, leftovers, staged, committed, history>>

BackupManifest ==
  /\ pc = "backupManifest"
  /\ \/ /\ Goes("moveDsh")
        /\ keptManifest' = manifest /\ manifest' = None
        /\ UNCHANGED <<dsh, keptDsh, promoted>>
     \/ manifest # None /\ Fails("removeDsh")
  /\ UNCHANGED <<frame, leftovers, staged, committed, history>>

MoveDsh ==
  /\ pc = "moveDsh"
  /\ \/ /\ Goes("moveManifest")
        /\ dsh' = staged
        /\ promoted' = {"dsh"}
        /\ UNCHANGED <<manifest, keptDsh, keptManifest>>
     \/ Fails("removeDsh")
  /\ UNCHANGED <<frame, leftovers, staged, committed, history>>

MoveManifest ==
  /\ pc = "moveManifest"
  /\ \/ /\ Goes("validate")
        /\ manifest' = staged
        /\ promoted' = {"dsh", "manifest"}
        /\ UNCHANGED <<dsh, keptDsh, keptManifest>>
     \/ Fails("removeDsh")
  /\ UNCHANGED <<frame, leftovers, staged, committed, history>>

(* The staged runtime has passed the same validation: only a file that     *)
(* cannot be read fails it here.                                           *)
ValidatePromoted ==
  /\ pc = "validate"
  /\ \/ /\ pc' = "discardDsh"
        /\ committed' = TRUE
        /\ faults' = 0
        /\ lastGood' = dsh
        /\ UNCHANGED <<dsh, manifest, keptDsh, keptManifest, promoted>>
     \/ Fails("removeDsh") /\ UNCHANGED <<committed, lastGood>>
  /\ UNCHANGED <<frame, leftovers, staged, before>>

(* The rollback goes on whatever fails in it.                              *)
RemovableUnpromoted == IF dsh # None THEN {dsh, Torn} ELSE {}
RemovableWithManifest ==
  IF "manifest" \in promoted /\ dsh # None THEN {dsh, Torn} ELSE {}
Removable == IF "dsh" \in promoted /\ dsh # None THEN {dsh, Torn} ELSE {}

RemoveDsh ==
  /\ pc = "removeDsh"
  /\ pc' = "restoreDsh"
  /\ \/ Removable = {} /\ dsh' = dsh /\ NoFault
     \/ Removable # {} /\ dsh' = None /\ NoFault
     \/ dsh' \in Removable /\ Fault
  /\ UNCHANGED <<frame, manifest, keptDsh, keptManifest, promoted, leftovers, staged,
                 committed, history>>

(* A directory cannot be renamed over what is left of another.             *)
RestoreDsh ==
  /\ pc = "restoreDsh"
  /\ \/ /\ Goes("removeManifest")
        /\ keptDsh # None /\ dsh = None
        /\ dsh' = keptDsh /\ keptDsh' = None
        /\ UNCHANGED <<manifest, keptManifest, promoted>>
     \/ /\ Goes("removeManifest")
        /\ keptDsh = None \/ dsh # None
        /\ UNCHANGED <<dsh, manifest, keptDsh, keptManifest, promoted>>
     \/ keptDsh # None /\ dsh = None /\ Fails("removeManifest")
  /\ UNCHANGED <<frame, leftovers, staged, committed, history>>

(* What removing runtime-manifest.json leaves when it fails.               *)
ManifestLeftTorn == Torn
ManifestLeft == manifest

RemoveManifest ==
  /\ pc = "removeManifest"
  /\ pc' = "restoreManifest"
  /\ \/ "manifest" \notin promoted /\ manifest' = manifest /\ NoFault
     \/ "manifest" \in promoted /\ manifest' = None /\ NoFault
     \/ "manifest" \in promoted /\ manifest' = ManifestLeft /\ Fault
  /\ UNCHANGED <<frame, dsh, keptDsh, keptManifest, promoted, leftovers, staged,
                 committed, history>>

RestoredManifestNever == manifest
RestoredManifest == IF keptManifest = None THEN manifest ELSE keptManifest

RestoreManifest ==
  /\ pc = "restoreManifest"
  /\ \/ /\ Goes("cleanup")
        /\ manifest' = RestoredManifest
        /\ keptManifest' = None
        /\ UNCHANGED <<dsh, keptDsh, promoted>>
     \/ keptManifest # None /\ Fails("cleanup")
  /\ UNCHANGED <<frame, leftovers, staged, committed, history>>

(* The backups go, best-effort.                                            *)
DiscardDsh ==
  /\ pc = "discardDsh"
  /\ pc' = "discardManifest"
  /\ keptDsh' = None
  /\ \/ NoFault /\ UNCHANGED leftovers
     \/ /\ Fault
        /\ leftovers' \in {leftovers, leftovers \cup ({keptDsh} \cap Version)}
  /\ UNCHANGED <<frame, dsh, manifest, keptManifest, promoted, staged, committed, history>>

DiscardManifest ==
  /\ pc = "discardManifest"
  /\ pc' = "cleanup"
  /\ keptManifest' = None
  /\ NoFault \/ Fault
  /\ UNCHANGED <<frame, dsh, manifest, keptDsh, promoted, leftovers, staged, committed,
                 history>>

(* The finally of installHarnessRuntime: when rmSync(tempRoot) throws, the *)
(* install is rejected even after its commit.                              *)
Settles(ok) ==
  IF caller = "boot"
    THEN /\ pc' = IF ok THEN "verifying" ELSE BootFailed
         /\ UNCHANGED updates
    ELSE /\ pc' = "idle"
         /\ told' = IF ok THEN "installed" ELSE "failed"
         /\ fetching' = fetching \ {staged}
         /\ Starts(running)
         /\ UNCHANGED offers

Cleanup ==
  /\ pc = "cleanup"
  /\ \/ Settles(committed) /\ NoFault
     \/ Settles(FALSE) /\ Fault
  /\ leftovers' = leftovers \cup ({keptDsh} \cap Version)
  /\ keptDsh' = None /\ keptManifest' = None
  /\ UNCHANGED <<dsh, manifest, promoted, caller, staged, committed, releases, history>>

-----------------------------------------------------------------------------
(* The world (external).                                                   *)

(* The shell ends, by a quit or a crash; the backups of a promotion stay,  *)
(* and a removal under way stops half-way.                                 *)
Dies ==
  /\ pc # "off"
  /\ pc' = "off"
  /\ IF pc \in Promoting THEN Fault ELSE NoFault
  /\ dsh' \in {dsh} \cup IF pc = "removeDsh" THEN Removable ELSE {}
  /\ \/ leftovers' = leftovers \cup ({keptDsh} \cap Version)
     \/ pc = "discardDsh" /\ UNCHANGED leftovers
  /\ keptDsh' = None /\ keptManifest' = None
  /\ promoted' = {}
  /\ currentVersion' = None
  /\ offers' = {} /\ fetching' = {} /\ running' = None
  /\ told' = "nothing"
  /\ UNCHANGED <<manifest, caller, staged, committed, minimum, published, history>>

Publish ==
  /\ pc \notin Promoting
  /\ published < MaxVersion
  /\ published' = published + 1
  /\ UNCHANGED <<disk, pc, caller, staged, committed, faults, minimum, currentVersion,
                 updates, history>>

(* The installer of a newer shell brings a higher minimum.                 *)
UpgradeShell ==
  /\ pc = "off"
  /\ minimum < published
  /\ minimum' = minimum + 1
  /\ UNCHANGED <<disk, pc, caller, staged, committed, faults, published,
                 currentVersion, updates, history>>

-----------------------------------------------------------------------------
Booting ==
  \/ UsesExisting \/ FetchesMinimum \/ BootFetchFails \/ PromoteBoot
  \/ Verifies \/ VerifyFails

Updating == \E v \in Version : UpdateFetchFails(v) \/ PromoteUpdate(v)

Applies == BackupDsh \/ BackupManifest \/ MoveDsh \/ MoveManifest \/ ValidatePromoted

Undoes == RemoveDsh \/ RestoreDsh \/ RemoveManifest \/ RestoreManifest

Ends == DiscardDsh \/ DiscardManifest \/ Cleanup

User ==
  \/ Boot \/ Retry \/ Offer \/ Restart
  \/ \E v \in Version : Update(v) \/ Decline(v)

World == Dies \/ Publish \/ UpgradeShell

Next == Booting \/ Updating \/ Applies \/ Undoes \/ Ends \/ User \/ World

Spec == Init /\ [][Next]_vars

(* Synchronous code runs on, and every wait of the boot has a timeout.     *)
Fairness == WF_vars(Booting) /\ WF_vars(Applies \/ Undoes \/ Ends)

FairSpec == Spec /\ Fairness

-----------------------------------------------------------------------------
(* A runtime that was validated in place is never destroyed before another *)
(* has been: it is in dsh/ or whole in a backup, whatever fails and        *)
(* whenever the shell dies.                                                *)
OldKept == lastGood # None => lastGood \in {dsh, keptDsh} \cup leftovers

(* What a boot may accept is whole and of one release, unless two things   *)
(* have gone wrong since the last commit.                                  *)
DiskIsSound ==
  faults <= 1 /\ pc \notin Promoting /\ MayValidate(dsh, manifest) =>
    dsh = manifest

(* A rollback restores both parts when what failed is the one operation it *)
(* answers.                                                                *)
RollbackRestores ==
  pc = "cleanup" /\ ~committed /\ faults <= 1 => <<dsh, manifest>> = before

(* What was there before an update that failed is there after it.          *)
OldSurvives == OldKept /\ RollbackRestores

(* While the shell runs there is a whole runtime not older than the        *)
(* packaged one.                                                           *)
IdleIsSound ==
  pc = "idle" /\ faults <= 1 => dsh = manifest /\ dsh >= minimum

(* No update leaves the shell without a dsh, whichever way it ends.        *)
NotLeftStopped == pc = "idle" /\ fetching = {} /\ faults <= 1 => running # None

(* A shell at rest has a whole runtime and, with no update under way, a    *)
(* dsh.                                                                    *)
ShellHasRuntime == IdleIsSound /\ NotLeftStopped

(* A harness update that is reported installed is what dsh runs:           *)
(* "that process will restart".                                            *)
UpdateTakesEffect == told = "installed" => running = dsh

(* Every boot and every promotion comes to an end: at a shell that runs,   *)
(* at the error dialog, or with the shell gone.                            *)
InstallEnds == pc \notin Resting ~> pc \in Resting
=============================================================================
