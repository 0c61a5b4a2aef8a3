------------------------- MODULE RuntimeInstall_proofs -------------------------
(* Proofs about RuntimeInstall, for any releases and any number of faults:    *)
(* types, that the last validated runtime survives, that a boot accepts what  *)
(* is of one release, and that a shell at rest has a runtime and a dsh.       *)
EXTENDS RuntimeInstall, TLAPS

(* A directory and a manifest as the promotion found them.                    *)
Same(d, m) == d = before[1] /\ m = before[2]

(* The dsh/ the promotion found is in the backup, or in place untouched.      *)
DshSafe ==
  \/ keptDsh = before[1] /\ ("dsh" \in promoted \/ dsh = None)
  \/ keptDsh = None /\ dsh = before[1] /\ "dsh" \notin promoted

(* So is the manifest.                                                        *)
ManifestSafe ==
  \/ keptManifest = before[2] /\ ("manifest" \in promoted \/ manifest = None)
  \/ keptManifest = None /\ manifest = before[2] /\ "manifest" \notin promoted

(* What a promotion has done when it is at a step, until something fails.     *)
ApplyInv ==
  /\ pc \in {"fetching"} \cup Promoting => staged \in Version
  /\ pc \in Applying => ~committed
  /\ pc = "backupDsh" => /\ promoted = {} /\ Same(dsh, manifest)
                         /\ keptDsh = None /\ keptManifest = None
  /\ pc = "backupManifest" => /\ promoted = {} /\ dsh = None /\ manifest = before[2]
                              /\ keptDsh = before[1] /\ keptManifest = None
  /\ pc = "moveDsh" => promoted = {} /\ dsh = None /\ manifest = None
  /\ pc = "moveManifest" => promoted = {"dsh"} /\ dsh = staged /\ manifest = None
  /\ pc = "validate" => /\ promoted = {"dsh", "manifest"}
                        /\ dsh = staged /\ manifest = staged
  /\ pc \in {"moveDsh", "moveManifest", "validate"} => Same(keptDsh, keptManifest)
  /\ pc \in Discarding => committed
  /\ pc \in Discarding \/ (pc = "cleanup" /\ committed) =>
       dsh = staged /\ manifest = staged

(* What the rollback of a single failure has restored at each of its steps.   *)
UndoInv ==
  /\ pc \notin Promoting => keptDsh = None /\ keptManifest = None
  /\ pc \in Undoing \/ (pc = "cleanup" /\ ~committed) => faults >= 1
  /\ pc \in Undoing => ~committed
  /\ pc = "removeDsh" => DshSafe /\ ManifestSafe
  /\ pc = "restoreDsh" /\ faults = 1 =>
       /\ ManifestSafe
       /\ \/ keptDsh = before[1] /\ dsh = None
          \/ keptDsh = None /\ dsh = before[1]
  /\ pc = "removeManifest" /\ faults = 1 => ManifestSafe /\ dsh = before[1]
  /\ pc = "restoreManifest" /\ faults = 1 =>
       /\ dsh = before[1]
       /\ \/ keptManifest = before[2] /\ manifest = None
          \/ keptManifest = None /\ manifest = before[2]
  /\ pc = "cleanup" /\ ~committed /\ faults = 1 => Same(dsh, manifest)

(* Where the release last validated in place is; while another stands in its  *)
(* place that is not validated yet, it is not there.                          *)
OldInv ==
  lastGood # None =>
    /\ lastGood \in {dsh, keptDsh} \cup leftovers
    /\ pc \in {"moveManifest", "validate", "removeDsh"} /\ "dsh" \in promoted =>
         lastGood \in {keptDsh} \cup leftovers
    /\ pc = "discardDsh" => lastGood = dsh

(* Nothing older than the minimum is offered to a running shell.              *)
OfferInv ==
  /\ minimum <= published
  /\ pc = "off" => offers = {} /\ fetching = {}
  /\ \A v \in offers \cup fetching : v >= minimum
  /\ pc \in Promoting /\ caller = "update" => staged >= minimum

(* What is in place, or was when the promotion began, is of one release.      *)
SoundInv ==
  /\ DiskIsSound
  /\ IdleIsSound
  /\ faults <= 1 /\ pc \in Promoting /\ ~committed =>
       /\ MayValidate(before[1], before[2]) => before[1] = before[2]
       /\ caller = "update" => before[1] = before[2] /\ before[1] >= minimum
  /\ NotLeftStopped

IInv == TypeOK /\ ApplyInv /\ UndoInv /\ OldInv /\ OfferInv /\ SoundInv

(* The names of the steps of a promotion are expanded in every proof.        *)
USE DEF Applying, Undoing, Discarding, Promoting

-----------------------------------------------------------------------------
(* The first state, on a machine where nothing is installed.                *)

LEMMA InitKeeps == Init => IInv
<1> SUFFICES ASSUME Init
             PROVE  IInv
  OBVIOUS
<1> USE InstallAssumption DEF Init
<1>1. TypeOK
  <2>1. minimum \in Version /\ published \in Version /\ faults \in 0..MaxFaults
    BY DEF Version
  <2>2. pc \in Resting /\ caller = "boot" /\ told = "nothing"
    BY DEF Resting
  <2>3. before \in (Version \cup {None, Torn}) \X (Version \cup {None})
    OBVIOUS
  <2>4. lastGood = None /\ leftovers = {} /\ promoted = {} /\ committed = FALSE
    OBVIOUS
  <2> QED
    BY <2>1, <2>2, <2>3, <2>4 DEF TypeOK
<1>2. ApplyInv
  BY DEF None, Version, Same, ApplyInv
<1>3. UndoInv
  BY DEF None, Same, DshSafe, ManifestSafe, UndoInv
<1>4. OldInv
  BY DEF None, OldInv
<1>5. OfferInv
  BY DEF OfferInv
<1>6. SoundInv
  BY DEF None, MayValidate, DiskIsSound, IdleIsSound, NotLeftStopped, SoundInv
<1> QED
  BY <1>1, <1>2, <1>3, <1>4, <1>5, <1>6 DEF IInv


-----------------------------------------------------------------------------
(* The boot.                                                                *)

LEMMA UsesExistingKeeps ==
  ASSUME IInv, UsesExisting
  PROVE  IInv'
<1> USE InstallAssumption DEF IInv, UsesExisting, disk, None, Torn, MayValidate,
       NoFault, Accepted
<1>1. TypeOK'
  BY DEF Version, Resting, TypeOK
<1>2. ApplyInv'
  BY DEF Version, Same, ApplyInv
<1>3. UndoInv'
  BY DEF Same, DshSafe, ManifestSafe, UndoInv
<1>4. OldInv'
  BY DEF OldInv
<1>5. OfferInv'
  BY DEF OfferInv
<1>6. SoundInv'
  BY DEF DiskIsSound, IdleIsSound, NotLeftStopped, SoundInv
<1> QED
  BY <1>1, <1>2, <1>3, <1>4, <1>5, <1>6

LEMMA FetchesMinimumKeeps ==
  ASSUME IInv, FetchesMinimum
  PROVE  IInv'
<1> USE InstallAssumption DEF IInv, FetchesMinimum, disk, releases, updates,
       history, None, Torn, MayValidate, MustValidate, Fault, NoFault
<1>1. TypeOK'
  BY DEF Version, Resting, TypeOK
<1>2. ApplyInv'
  BY DEF Version, Resting, TypeOK, Same, ApplyInv
<1>3. UndoInv'
  BY DEF Same, DshSafe, ManifestSafe, UndoInv
<1>4. OldInv'
  BY DEF OldInv
<1>5. OfferInv'
  BY DEF OfferInv
<1>6. SoundInv'
  BY DEF Version, Resting, TypeOK, DiskIsSound, IdleIsSound, NotLeftStopped,
         SoundInv
<1> QED
  BY <1>1, <1>2, <1>3, <1>4, <1>5, <1>6

LEMMA BootFetchFailsKeeps ==
  ASSUME IInv, BootFetchFails
  PROVE  IInv'
<1> USE InstallAssumption DEF IInv, BootFetchFails, disk, releases, updates,
       history, BootFailed
<1>1. TypeOK'
  BY DEF None, Torn, Version, Resting, TypeOK
<1>2. ApplyInv'
  BY DEF None, Version, Same, ApplyInv
<1>3. UndoInv'
  BY DEF None, Same, DshSafe, ManifestSafe, UndoInv
<1>4. OldInv'
  BY DEF None, OldInv
<1>5. OfferInv'
  BY DEF OfferInv
<1>6. SoundInv'
  BY DEF None, MayValidate, DiskIsSound, IdleIsSound, NotLeftStopped, SoundInv
<1> QED
  BY <1>1, <1>2, <1>3, <1>4, <1>5, <1>6

(* What begins a promotion only takes note of what it found.                *)
LEMMA PromotesType ==
  ASSUME TypeOK, NEW v \in Version \cup {None}, NEW who \in {"boot", "update"},
         Promotes(v, who)
  PROVE  TypeOK'
<1>1. before' \in (Version \cup {None, Torn}) \X (Version \cup {None})
  <2>1. dsh \in Version \cup {None, Torn} /\ manifest \in Version \cup {None}
    BY DEF TypeOK
  <2>2. before' = <<dsh, manifest>>
    BY DEF Promotes
  <2> QED
    BY <2>1, <2>2
<1>2. /\ staged' = v /\ caller' = who
      /\ pc' = "backupDsh" /\ committed' = FALSE /\ promoted' = {}
  BY DEF Promotes
<1>3. UNCHANGED <<dsh, manifest, keptDsh, keptManifest, leftovers, faults, minimum, published,
                  currentVersion, offers, fetching, running, told, lastGood>>
  BY DEF Promotes, releases, updates
<1>4. before' \in (Version \cup {None, Torn})' \X (Version \cup {None})'
  BY <1>1 DEF Version, None, Torn
<1>5. (/\ dsh \in Version \cup {None, Torn} /\ manifest \in Version \cup {None}
       /\ keptDsh \in Version \cup {None, Torn} /\ keptManifest \in Version \cup {None}
       /\ leftovers \subseteq Version /\ staged \in Version \cup {None}
       /\ faults \in 0..MaxFaults /\ minimum \in Version /\ published \in Version
       /\ currentVersion \in Version \cup {None} /\ offers \subseteq Version
       /\ fetching \subseteq Version /\ running \in Version \cup {None, Torn}
       /\ told \in {"nothing", "installed", "failed"} /\ lastGood \in Version \cup {None})'
  BY <1>2, <1>3 DEF TypeOK, Version, None, Torn
<1> QED
  BY <1>2, <1>4, <1>5 DEF TypeOK

LEMMA PromoteBootKeeps ==
  ASSUME IInv, PromoteBoot
  PROVE  IInv'
<1>1. TypeOK'
  <2>1. staged \in Version \cup {None} /\ Promotes(staged, "boot")
    BY DEF IInv, TypeOK, PromoteBoot
  <2> QED
    BY <2>1, PromotesType DEF IInv
<1> USE InstallAssumption DEF IInv, PromoteBoot, releases, updates, Promotes
<1>2. ApplyInv'
  BY DEF None, Version, Same, DshSafe, ManifestSafe, ApplyInv, UndoInv
<1>3. UndoInv'
  BY DEF None, Same, DshSafe, ManifestSafe, UndoInv
<1>4. OldInv'
  BY DEF None, OldInv
<1>5. OfferInv'
  BY DEF OfferInv
<1>6. SoundInv'
  BY DEF None, MayValidate, DiskIsSound, IdleIsSound, NotLeftStopped, SoundInv
<1> QED
  BY <1>1, <1>2, <1>3, <1>4, <1>5, <1>6

LEMMA VerifiesKeeps ==
  ASSUME IInv, Verifies
  PROVE  IInv'
<1> USE InstallAssumption DEF IInv, Verifies, disk, None, Torn, MayValidate,
       NoFault, Accepted
<1>1. TypeOK'
  BY DEF Version, Resting, TypeOK
<1>2. ApplyInv'
  BY DEF Version, Same, ApplyInv
<1>3. UndoInv'
  BY DEF Same, DshSafe, ManifestSafe, UndoInv
<1>4. OldInv'
  BY DEF OldInv
<1>5. OfferInv'
  BY DEF OfferInv
<1>6. SoundInv'
  BY DEF DiskIsSound, IdleIsSound, NotLeftStopped, SoundInv
<1> QED
  BY <1>1, <1>2, <1>3, <1>4, <1>5, <1>6

LEMMA VerifyFailsKeeps ==
  ASSUME IInv, VerifyFails
  PROVE  IInv'
<1> USE InstallAssumption DEF IInv, VerifyFails, disk, releases, updates,
       history, None, Torn, MayValidate, MustValidate, Fault, NoFault,
       BootFailed
<1>1. TypeOK'
  BY DEF Version, Resting, TypeOK
<1>2. ApplyInv'
  BY DEF Version, Same, ApplyInv
<1>3. UndoInv'
  BY DEF Same, DshSafe, ManifestSafe, UndoInv
<1>4. OldInv'
  BY DEF OldInv
<1>5. OfferInv'
  BY DEF OfferInv
<1>6. SoundInv'
  BY DEF Version, Resting, TypeOK, DiskIsSound, IdleIsSound, NotLeftStopped,
         SoundInv
<1> QED
  BY <1>1, <1>2, <1>3, <1>4, <1>5, <1>6

-----------------------------------------------------------------------------
(* An update.                                                               *)

LEMMA UpdateFetchFailsKeeps ==
  ASSUME IInv, NEW v \in Version, UpdateFetchFails(v)
  PROVE  IInv'
<1> USE InstallAssumption DEF IInv, UpdateFetchFails, disk, releases, history,
       None, Starts
<1>1. TypeOK'
  BY DEF Torn, Version, Resting, TypeOK
<1>2. ApplyInv'
  BY DEF Version, Same, ApplyInv
<1>3. UndoInv'
  BY DEF Same, DshSafe, ManifestSafe, UndoInv
<1>4. OldInv'
  BY DEF OldInv
<1>5. OfferInv'
  BY DEF OfferInv
<1>6. SoundInv'
  BY DEF Torn, Version, Resting, TypeOK, MayValidate, DiskIsSound, IdleIsSound,
         NotLeftStopped, SoundInv
<1> QED
  BY <1>1, <1>2, <1>3, <1>4, <1>5, <1>6

LEMMA PromoteUpdateKeeps ==
  ASSUME IInv, NEW v \in Version, PromoteUpdate(v)
  PROVE  IInv'
<1>1. TypeOK'
  BY PromotesType DEF IInv, PromoteUpdate
<1> USE InstallAssumption DEF IInv, PromoteUpdate, releases, updates, Promotes
<1>2. ApplyInv'
  BY DEF None, Version, Same, DshSafe, ManifestSafe, ApplyInv, UndoInv
<1>3. UndoInv'
  BY DEF None, Same, DshSafe, ManifestSafe, UndoInv
<1>4. OldInv'
  BY DEF None, OldInv
<1>5. OfferInv'
  BY DEF OfferInv
<1>6. SoundInv'
  BY DEF None, MayValidate, DiskIsSound, IdleIsSound, NotLeftStopped, SoundInv
<1> QED
  BY <1>1, <1>2, <1>3, <1>4, <1>5, <1>6

-----------------------------------------------------------------------------
(* The promotion.                                                           *)

LEMMA BackupDshKeeps ==
  ASSUME IInv, BackupDsh
  PROVE  IInv'
<1> USE InstallAssumption DEF IInv, BackupDsh, releases, updates, history, None,
       Fault, NoFault, frame, Goes, Fails
<1>1. TypeOK'
  <2>1. faults' \in 0..MaxFaults
    BY DEF Torn, Version, Resting, TypeOK
  <2>2. /\ dsh' \in Version \cup {None, Torn} /\ manifest' \in Version \cup
         {None}
        /\ keptDsh' \in Version \cup {None, Torn} /\ keptManifest' \in Version
               \cup {None}
    BY DEF Torn, Version, Resting, TypeOK
  <2>3. lastGood' \in Version \cup {None} /\ before' \in (Version \cup {None,
         Torn}) \X (Version \cup {None})
    BY DEF Torn, Version, Resting, TypeOK
  <2> QED
    BY <2>1, <2>2, <2>3 DEF Torn, Version, Resting, TypeOK
<1>2. ApplyInv'
  BY DEF Version, Same, ApplyInv
<1>3. UndoInv'
  BY DEF Torn, Version, Resting, TypeOK, Same, DshSafe, ManifestSafe, ApplyInv,
         UndoInv
<1>4. OldInv'
  BY DEF Torn, Version, Resting, TypeOK, Same, ApplyInv, OldInv
<1>5. OfferInv'
  BY DEF OfferInv
<1>6. SoundInv'
  BY DEF Torn, Version, Resting, TypeOK, MayValidate, DiskIsSound, IdleIsSound,
         NotLeftStopped, SoundInv
<1> QED
  BY <1>1, <1>2, <1>3, <1>4, <1>5, <1>6

LEMMA BackupManifestKeeps ==
  ASSUME IInv, BackupManifest
  PROVE  IInv'
<1> USE InstallAssumption DEF IInv, BackupManifest, releases, updates, history,
       None, Fault, NoFault, frame, Goes, Fails
<1>1. TypeOK'
  <2>1. faults' \in 0..MaxFaults
    BY DEF Torn, Version, Resting, TypeOK
  <2>2. /\ dsh' \in Version \cup {None, Torn} /\ manifest' \in Version \cup
         {None}
        /\ keptDsh' \in Version \cup {None, Torn} /\ keptManifest' \in Version
               \cup {None}
    BY DEF Torn, Version, Resting, TypeOK
  <2>3. lastGood' \in Version \cup {None} /\ before' \in (Version \cup {None,
         Torn}) \X (Version \cup {None})
    BY DEF Torn, Version, Resting, TypeOK
  <2> QED
    BY <2>1, <2>2, <2>3 DEF Torn, Version, Resting, TypeOK
<1>2. ApplyInv'
  BY DEF Version, Same, ApplyInv
<1>3. UndoInv'
  BY DEF Torn, Version, Resting, TypeOK, Same, DshSafe, ManifestSafe, ApplyInv,
         UndoInv
<1>4. OldInv'
  BY DEF Torn, Version, Resting, TypeOK, Same, ApplyInv, OldInv
<1>5. OfferInv'
  BY DEF OfferInv
<1>6. SoundInv'
  BY DEF Torn, Version, Resting, TypeOK, MayValidate, DiskIsSound, IdleIsSound,
         NotLeftStopped, SoundInv
<1> QED
  BY <1>1, <1>2, <1>3, <1>4, <1>5, <1>6

LEMMA MoveDshKeeps ==
  ASSUME IInv, MoveDsh
  PROVE  IInv'
<1> USE InstallAssumption DEF IInv, MoveDsh, releases, updates, history, Fault,
       NoFault, frame, Goes, Fails
<1>1. TypeOK'
  <2>1. faults' \in 0..MaxFaults
    BY DEF None, Torn, Version, Resting, TypeOK
  <2>2. /\ dsh' \in Version \cup {None, Torn} /\ manifest' \in Version \cup
         {None}
        /\ keptDsh' \in Version \cup {None, Torn} /\ keptManifest' \in Version
               \cup {None}
    BY DEF None, Torn, Version, Resting, TypeOK
  <2>3. lastGood' \in Version \cup {None} /\ before' \in (Version \cup {None,
         Torn}) \X (Version \cup {None})
    BY DEF None, Torn, Version, Resting, TypeOK
  <2> QED
    BY <2>1, <2>2, <2>3 DEF None, Torn, Version, Resting, TypeOK
<1>2. ApplyInv'
  BY DEF None, Version, Same, ApplyInv
<1>3. UndoInv'
  BY DEF None, Torn, Version, Resting, TypeOK, Same, DshSafe, ManifestSafe,
         ApplyInv, UndoInv
<1>4. OldInv'
  BY DEF None, Torn, Version, Resting, TypeOK, Same, ApplyInv, OldInv
<1>5. OfferInv'
  BY DEF OfferInv
<1>6. SoundInv'
  BY DEF None, Torn, Version, Resting, TypeOK, MayValidate, DiskIsSound,
         IdleIsSound, NotLeftStopped, SoundInv
<1> QED
  BY <1>1, <1>2, <1>3, <1>4, <1>5, <1>6

LEMMA MoveManifestKeeps ==
  ASSUME IInv, MoveManifest
  PROVE  IInv'
<1> USE InstallAssumption DEF IInv, MoveManifest, releases, updates, history,
       Fault, NoFault, frame, Goes, Fails
<1>1. TypeOK'
  <2>1. faults' \in 0..MaxFaults
    BY DEF None, Torn, Version, Resting, TypeOK
  <2>2. /\ dsh' \in Version \cup {None, Torn} /\ manifest' \in Version \cup
         {None}
        /\ keptDsh' \in Version \cup {None, Torn} /\ keptManifest' \in Version
               \cup {None}
    BY DEF None, Torn, Version, Resting, TypeOK
  <2>3. lastGood' \in Version \cup {None} /\ before' \in (Version \cup {None,
         Torn}) \X (Version \cup {None})
    BY DEF None, Torn, Version, Resting, TypeOK
  <2> QED
    BY <2>1, <2>2, <2>3 DEF None, Torn, Version, Resting, TypeOK
<1>2. ApplyInv'
  BY DEF None, Version, Same, ApplyInv
<1>3. UndoInv'
  BY DEF None, Torn, Version, Resting, TypeOK, Same, DshSafe, ManifestSafe,
         ApplyInv, UndoInv
<1>4. OldInv'
  BY DEF None, Torn, Version, Resting, TypeOK, Same, ApplyInv, OldInv
<1>5. OfferInv'
  BY DEF OfferInv
<1>6. SoundInv'
  BY DEF None, Torn, Version, Resting, TypeOK, MayValidate, DiskIsSound,
         IdleIsSound, NotLeftStopped, SoundInv
<1> QED
  BY <1>1, <1>2, <1>3, <1>4, <1>5, <1>6

LEMMA ValidatePromotedKeeps ==
  ASSUME IInv, ValidatePromoted
  PROVE  IInv'
<1> USE InstallAssumption DEF IInv, ValidatePromoted, releases, updates, Fault,
       frame, Fails
<1>1. TypeOK'
  <2>1. faults' \in 0..MaxFaults
    BY DEF None, Torn, Version, Resting, TypeOK, Same, ApplyInv
  <2>2. /\ dsh' \in Version \cup {None, Torn} /\ manifest' \in Version \cup
         {None}
        /\ keptDsh' \in Version \cup {None, Torn} /\ keptManifest' \in Version
               \cup {None}
    BY DEF None, Torn, Version, Resting, TypeOK, Same, ApplyInv
  <2>3. lastGood' \in Version \cup {None} /\ before' \in (Version \cup {None,
         Torn}) \X (Version \cup {None})
    BY DEF None, Torn, Version, Resting, TypeOK, Same, ApplyInv
  <2> QED
    BY <2>1, <2>2, <2>3 DEF None, Torn, Version, Resting, TypeOK, Same, ApplyInv
<1>2. ApplyInv'
  BY DEF None, Version, Same, ApplyInv
<1>3. UndoInv'
  BY DEF None, Torn, Version, Resting, TypeOK, Same, DshSafe, ManifestSafe,
         ApplyInv, UndoInv
<1>4. OldInv'
  BY DEF None, OldInv
<1>5. OfferInv'
  BY DEF OfferInv
<1>6. SoundInv'
  BY DEF None, Torn, Version, Resting, TypeOK, MayValidate, DiskIsSound,
         IdleIsSound, NotLeftStopped, SoundInv
<1> QED
  BY <1>1, <1>2, <1>3, <1>4, <1>5, <1>6

-----------------------------------------------------------------------------
(* The rollback.                                                            *)

LEMMA RemoveDshKeeps ==
  ASSUME IInv, RemoveDsh
  PROVE  IInv'
<1> USE InstallAssumption DEF IInv, RemoveDsh, releases, updates, history, None,
       Torn, Fault, NoFault, frame, Removable
<1>1. TypeOK'
  BY DEF Version, Resting, TypeOK
<1>2. ApplyInv'
  BY DEF Version, Same, ApplyInv
<1>3. UndoInv'
  BY DEF Version, Resting, TypeOK, Same, DshSafe, ManifestSafe, UndoInv
<1>4. OldInv'
  BY DEF OldInv
<1>5. OfferInv'
  BY DEF OfferInv
<1>6. SoundInv'
  BY DEF Version, Resting, TypeOK, MayValidate, DiskIsSound, IdleIsSound,
         NotLeftStopped, SoundInv
<1> QED
  BY <1>1, <1>2, <1>3, <1>4, <1>5, <1>6

LEMMA RestoreDshKeeps ==
  ASSUME IInv, RestoreDsh
  PROVE  IInv'
<1> USE InstallAssumption DEF IInv, RestoreDsh, releases, updates, history,
       None, Fault, NoFault, frame, Goes, Fails
<1>1. TypeOK'
  <2>1. faults' \in 0..MaxFaults
    BY DEF Torn, Version, Resting, TypeOK
  <2>2. /\ dsh' \in Version \cup {None, Torn} /\ manifest' \in Version \cup
         {None}
        /\ keptDsh' \in Version \cup {None, Torn} /\ keptManifest' \in Version
               \cup {None}
    BY DEF Torn, Version, Resting, TypeOK
  <2>3. lastGood' \in Version \cup {None} /\ before' \in (Version \cup {None,
         Torn}) \X (Version \cup {None})
    BY DEF Torn, Version, Resting, TypeOK
  <2> QED
    BY <2>1, <2>2, <2>3 DEF Torn, Version, Resting, TypeOK
<1>2. ApplyInv'
  BY DEF Version, Same, ApplyInv
<1>3. UndoInv'
  BY DEF Torn, Version, Resting, TypeOK, Same, DshSafe, ManifestSafe, UndoInv
<1>4. OldInv'
  BY DEF OldInv
<1>5. OfferInv'
  BY DEF OfferInv
<1>6. SoundInv'
  BY DEF Torn, Version, Resting, TypeOK, MayValidate, DiskIsSound, IdleIsSound,
         NotLeftStopped, SoundInv
<1> QED
  BY <1>1, <1>2, <1>3, <1>4, <1>5, <1>6

LEMMA RemoveManifestKeeps ==
  ASSUME IInv, RemoveManifest
  PROVE  IInv'
<1> USE InstallAssumption DEF IInv, RemoveManifest, releases, updates, history,
       None, Fault, NoFault, frame, ManifestLeft
<1>1. TypeOK'
  BY DEF Torn, Version, Resting, TypeOK
<1>2. ApplyInv'
  BY DEF Version, Same, ApplyInv
<1>3. UndoInv'
  BY DEF Torn, Version, Resting, TypeOK, Same, DshSafe, ManifestSafe, UndoInv
<1>4. OldInv'
  BY DEF OldInv
<1>5. OfferInv'
  BY DEF OfferInv
<1>6. SoundInv'
  BY DEF Torn, Version, Resting, TypeOK, MayValidate, DiskIsSound, IdleIsSound,
         NotLeftStopped, SoundInv
<1> QED
  BY <1>1, <1>2, <1>3, <1>4, <1>5, <1>6

LEMMA RestoreManifestKeeps ==
  ASSUME IInv, RestoreManifest
  PROVE  IInv'
<1> USE InstallAssumption DEF IInv, RestoreManifest, releases, updates, history,
       None, Fault, NoFault, frame, Goes, Fails, RestoredManifest
<1>1. TypeOK'
  <2>1. faults' \in 0..MaxFaults
    BY DEF Torn, Version, Resting, TypeOK
  <2>2. /\ dsh' \in Version \cup {None, Torn} /\ manifest' \in Version \cup
         {None}
        /\ keptDsh' \in Version \cup {None, Torn} /\ keptManifest' \in Version
               \cup {None}
    BY DEF Torn, Version, Resting, TypeOK
  <2>3. lastGood' \in Version \cup {None} /\ before' \in (Version \cup {None,
         Torn}) \X (Version \cup {None})
    BY DEF Torn, Version, Resting, TypeOK
  <2> QED
    BY <2>1, <2>2, <2>3 DEF Torn, Version, Resting, TypeOK
<1>2. ApplyInv'
  BY DEF Version, Same, DshSafe, ManifestSafe, ApplyInv, UndoInv
<1>3. UndoInv'
  BY DEF Torn, Version, Resting, TypeOK, Same, DshSafe, ManifestSafe, UndoInv
<1>4. OldInv'
  BY DEF OldInv
<1>5. OfferInv'
  BY DEF OfferInv
<1>6. SoundInv'
  BY DEF Torn, Version, Resting, TypeOK, MayValidate, DiskIsSound, IdleIsSound,
         NotLeftStopped, SoundInv
<1> QED
  BY <1>1, <1>2, <1>3, <1>4, <1>5, <1>6

-----------------------------------------------------------------------------
(* The end of a promotion.                                                  *)

LEMMA DiscardDshKeeps ==
  ASSUME IInv, DiscardDsh
  PROVE  IInv'
<1> USE InstallAssumption DEF IInv, DiscardDsh, releases, updates, history,
       None, Version, Fault, NoFault, frame
<1>1. TypeOK'
  <2>1. faults' \in 0..MaxFaults
    BY DEF Torn, Resting, TypeOK
  <2>2. /\ dsh' \in Version \cup {None, Torn} /\ manifest' \in Version \cup
         {None}
        /\ keptDsh' \in Version \cup {None, Torn} /\ keptManifest' \in Version
               \cup {None}
    BY DEF Torn, Resting, TypeOK
  <2>3. lastGood' \in Version \cup {None} /\ before' \in (Version \cup {None,
         Torn}) \X (Version \cup {None})
    BY DEF Torn, Resting, TypeOK
  <2> QED
    BY <2>1, <2>2, <2>3 DEF Torn, Resting, TypeOK
<1>2. ApplyInv'
  BY DEF Same, ApplyInv
<1>3. UndoInv'
  BY DEF Same, DshSafe, ManifestSafe, UndoInv
<1>4. OldInv'
  BY DEF OldInv
<1>5. OfferInv'
  BY DEF OfferInv
<1>6. SoundInv'
  BY DEF Torn, Resting, TypeOK, MayValidate, DiskIsSound, IdleIsSound,
         NotLeftStopped, SoundInv
<1> QED
  BY <1>1, <1>2, <1>3, <1>4, <1>5, <1>6

LEMMA DiscardManifestKeeps ==
  ASSUME IInv, DiscardManifest
  PROVE  IInv'
<1> USE InstallAssumption DEF IInv, DiscardManifest, releases, updates, history,
       None, Fault, NoFault, frame
<1>1. TypeOK'
  BY DEF Torn, Version, Resting, TypeOK
<1>2. ApplyInv'
  BY DEF Version, Same, ApplyInv
<1>3. UndoInv'
  BY DEF Torn, Version, Resting, TypeOK, Same, DshSafe, ManifestSafe, ApplyInv,
         UndoInv
<1>4. OldInv'
  BY DEF OldInv
<1>5. OfferInv'
  BY DEF OfferInv
<1>6. SoundInv'
  BY DEF Torn, Version, Resting, TypeOK, MayValidate, DiskIsSound, IdleIsSound,
         NotLeftStopped, SoundInv
<1> QED
  BY <1>1, <1>2, <1>3, <1>4, <1>5, <1>6

LEMMA CleanupKeeps ==
  ASSUME IInv, Cleanup
  PROVE  IInv'
<1> USE InstallAssumption DEF IInv, Cleanup, releases, updates, history, None,
       Version, Fault, NoFault, BootFailed, Starts, Settles
<1>1. TypeOK'
  <2>1. faults' \in 0..MaxFaults
    BY DEF Torn, Resting, TypeOK
  <2>2. /\ dsh' \in Version \cup {None, Torn} /\ manifest' \in Version \cup
         {None}
        /\ keptDsh' \in Version \cup {None, Torn} /\ keptManifest' \in Version
               \cup {None}
    BY DEF Torn, Resting, TypeOK
  <2>3. lastGood' \in Version \cup {None} /\ before' \in (Version \cup {None,
         Torn}) \X (Version \cup {None})
    BY DEF Torn, Resting, TypeOK
  <2> QED
    BY <2>1, <2>2, <2>3 DEF Torn, Resting, TypeOK
<1>2. ApplyInv'
  BY DEF Same, ApplyInv
<1>3. UndoInv'
  BY DEF Same, DshSafe, ManifestSafe, UndoInv
<1>4. OldInv'
  BY DEF Torn, Resting, TypeOK, OldInv
<1>5. OfferInv'
  BY DEF OfferInv
<1>6. SoundInv'
  BY DEF Torn, Resting, TypeOK, MayValidate, DiskIsSound, IdleIsSound,
         NotLeftStopped, Same, DshSafe, ManifestSafe, ApplyInv, UndoInv,
         OfferInv, SoundInv
<1> QED
  BY <1>1, <1>2, <1>3, <1>4, <1>5, <1>6

-----------------------------------------------------------------------------
(* The user.                                                                *)

LEMMA BootKeeps ==
  ASSUME IInv, Boot
  PROVE  IInv'
<1> USE InstallAssumption DEF IInv, Boot, disk, releases, updates, history
<1>1. TypeOK'
  BY DEF None, Torn, Version, Resting, TypeOK
<1>2. ApplyInv'
  BY DEF None, Version, Same, ApplyInv
<1>3. UndoInv'
  BY DEF None, Same, DshSafe, ManifestSafe, UndoInv
<1>4. OldInv'
  BY DEF None, OldInv
<1>5. OfferInv'
  BY DEF OfferInv
<1>6. SoundInv'
  BY DEF None, MayValidate, DiskIsSound, IdleIsSound, NotLeftStopped, SoundInv
<1> QED
  BY <1>1, <1>2, <1>3, <1>4, <1>5, <1>6

LEMMA RetryKeeps ==
  ASSUME IInv, Retry
  PROVE  IInv'
<1> USE InstallAssumption DEF IInv, Retry, disk, releases, updates, history
<1>1. TypeOK'
  BY DEF None, Torn, Version, Resting, TypeOK
<1>2. ApplyInv'
  BY DEF None, Version, Same, ApplyInv
<1>3. UndoInv'
  BY DEF None, Same, DshSafe, ManifestSafe, UndoInv
<1>4. OldInv'
  BY DEF None, OldInv
<1>5. OfferInv'
  BY DEF OfferInv
<1>6. SoundInv'
  BY DEF None, MayValidate, DiskIsSound, IdleIsSound, NotLeftStopped, SoundInv
<1> QED
  BY <1>1, <1>2, <1>3, <1>4, <1>5, <1>6

LEMMA OfferKeeps ==
  ASSUME IInv, Offer
  PROVE  IInv'
<1> USE InstallAssumption DEF IInv, Offer, disk, releases, history
<1>1. TypeOK'
  BY DEF None, Torn, Version, Resting, TypeOK
<1>2. ApplyInv'
  BY DEF None, Version, Same, ApplyInv
<1>3. UndoInv'
  BY DEF None, Same, DshSafe, ManifestSafe, UndoInv
<1>4. OldInv'
  BY DEF None, OldInv
<1>5. OfferInv'
  BY DEF OfferInv
<1>6. SoundInv'
  BY DEF None, MayValidate, DiskIsSound, IdleIsSound, NotLeftStopped, SoundInv
<1> QED
  BY <1>1, <1>2, <1>3, <1>4, <1>5, <1>6

LEMMA RestartKeeps ==
  ASSUME IInv, Restart
  PROVE  IInv'
<1> USE InstallAssumption DEF IInv, Restart, disk, releases, history
<1>1. TypeOK'
  BY DEF None, Torn, Version, Resting, TypeOK
<1>2. ApplyInv'
  BY DEF None, Version, Same, ApplyInv
<1>3. UndoInv'
  BY DEF None, Same, DshSafe, ManifestSafe, UndoInv
<1>4. OldInv'
  BY DEF None, OldInv
<1>5. OfferInv'
  BY DEF OfferInv
<1>6. SoundInv'
  BY DEF None, Torn, Version, Resting, TypeOK, MayValidate, DiskIsSound,
         IdleIsSound, NotLeftStopped, SoundInv
<1> QED
  BY <1>1, <1>2, <1>3, <1>4, <1>5, <1>6

LEMMA UpdateKeeps ==
  ASSUME IInv, NEW v \in Version, Update(v)
  PROVE  IInv'
<1> USE InstallAssumption DEF IInv, Update, disk, releases, history, None
<1>1. TypeOK'
  BY DEF Torn, Version, Resting, TypeOK
<1>2. ApplyInv'
  BY DEF Version, Same, ApplyInv
<1>3. UndoInv'
  BY DEF Same, DshSafe, ManifestSafe, UndoInv
<1>4. OldInv'
  BY DEF OldInv
<1>5. OfferInv'
  BY DEF OfferInv
<1>6. SoundInv'
  BY DEF MayValidate, DiskIsSound, IdleIsSound, NotLeftStopped, SoundInv
<1> QED
  BY <1>1, <1>2, <1>3, <1>4, <1>5, <1>6

LEMMA DeclineKeeps ==
  ASSUME IInv, NEW v \in Version, Decline(v)
  PROVE  IInv'
<1> USE InstallAssumption DEF IInv, Decline, disk, releases, history
<1>1. TypeOK'
  BY DEF None, Torn, Version, Resting, TypeOK
<1>2. ApplyInv'
  BY DEF None, Version, Same, ApplyInv
<1>3. UndoInv'
  BY DEF None, Same, DshSafe, ManifestSafe, UndoInv
<1>4. OldInv'
  BY DEF None, OldInv
<1>5. OfferInv'
  BY DEF OfferInv
<1>6. SoundInv'
  BY DEF None, MayValidate, DiskIsSound, IdleIsSound, NotLeftStopped, SoundInv
<1> QED
  BY <1>1, <1>2, <1>3, <1>4, <1>5, <1>6

-----------------------------------------------------------------------------
(* The world.                                                               *)

LEMMA DiesKeeps ==
  ASSUME IInv, Dies
  PROVE  IInv'
<1> USE InstallAssumption DEF IInv, Dies, history, None, Torn, Version, Fault,
       NoFault, Removable
<1>1. TypeOK'
  <2>1. faults' \in 0..MaxFaults
    BY DEF Resting, TypeOK
  <2>2. /\ dsh' \in Version \cup {None, Torn} /\ manifest' \in Version \cup
         {None}
        /\ keptDsh' \in Version \cup {None, Torn} /\ keptManifest' \in Version
               \cup {None}
    BY DEF Resting, TypeOK
  <2>3. lastGood' \in Version \cup {None} /\ before' \in (Version \cup {None,
         Torn}) \X (Version \cup {None})
    BY DEF Resting, TypeOK
  <2> QED
    BY <2>1, <2>2, <2>3 DEF Resting, TypeOK
<1>2. ApplyInv'
  BY DEF Same, ApplyInv
<1>3. UndoInv'
  BY DEF Same, DshSafe, ManifestSafe, UndoInv
<1>4. OldInv'
  BY DEF Resting, TypeOK, OldInv
<1>5. OfferInv'
  BY DEF OfferInv
<1>6. SoundInv'
  BY DEF Resting, TypeOK, MayValidate, DiskIsSound, IdleIsSound, NotLeftStopped,
         Same, DshSafe, ManifestSafe, ApplyInv, UndoInv, OfferInv, SoundInv
<1> QED
  BY <1>1, <1>2, <1>3, <1>4, <1>5, <1>6

LEMMA PublishKeeps ==
  ASSUME IInv, Publish
  PROVE  IInv'
<1> USE InstallAssumption DEF IInv, Publish, disk, updates, history
<1>1. TypeOK'
  BY DEF None, Torn, Version, Resting, TypeOK
<1>2. ApplyInv'
  BY DEF None, Version, Same, ApplyInv
<1>3. UndoInv'
  BY DEF None, Same, DshSafe, ManifestSafe, UndoInv
<1>4. OldInv'
  BY DEF None, OldInv
<1>5. OfferInv'
  BY DEF None, Torn, Version, Resting, TypeOK, OfferInv
<1>6. SoundInv'
  BY DEF None, MayValidate, DiskIsSound, IdleIsSound, NotLeftStopped, SoundInv
<1> QED
  BY <1>1, <1>2, <1>3, <1>4, <1>5, <1>6

LEMMA UpgradeShellKeeps ==
  ASSUME IInv, UpgradeShell
  PROVE  IInv'
<1> USE InstallAssumption DEF IInv, UpgradeShell, disk, updates, history
<1>1. TypeOK'
  BY DEF None, Torn, Version, Resting, TypeOK
<1>2. ApplyInv'
  BY DEF None, Version, Same, ApplyInv
<1>3. UndoInv'
  BY DEF None, Same, DshSafe, ManifestSafe, UndoInv
<1>4. OldInv'
  BY DEF None, OldInv
<1>5. OfferInv'
  BY DEF None, Torn, Version, Resting, TypeOK, OfferInv
<1>6. SoundInv'
  BY DEF None, Torn, Version, Resting, TypeOK, MayValidate, DiskIsSound,
         IdleIsSound, NotLeftStopped, SoundInv
<1> QED
  BY <1>1, <1>2, <1>3, <1>4, <1>5, <1>6

-----------------------------------------------------------------------------
(* Every step keeps it.                                                      *)

LEMMA StutterKeeps ==
  ASSUME IInv, UNCHANGED vars
  PROVE  IInv'
BY DEF disk, releases, updates, history, vars, None, Torn, Version, Resting,
       TypeOK, MayValidate, DiskIsSound, IdleIsSound, NotLeftStopped, Same,
       DshSafe, ManifestSafe, ApplyInv, UndoInv, OldInv, OfferInv, SoundInv,
       IInv

LEMMA NextKeeps == IInv /\ [Next]_vars => IInv'
<1> SUFFICES ASSUME IInv, [Next]_vars
             PROVE  IInv'
  OBVIOUS
<1>1. CASE Booting
  BY <1>1, UsesExistingKeeps, FetchesMinimumKeeps, BootFetchFailsKeeps,
         PromoteBootKeeps, VerifiesKeeps, VerifyFailsKeeps DEF Booting
<1>2. CASE Updating
  BY <1>2, UpdateFetchFailsKeeps, PromoteUpdateKeeps DEF Updating
<1>3. CASE Applies
  BY <1>3, BackupDshKeeps, BackupManifestKeeps, MoveDshKeeps, MoveManifestKeeps,
         ValidatePromotedKeeps DEF Applies
<1>4. CASE Undoes
  BY <1>4, RemoveDshKeeps, RestoreDshKeeps, RemoveManifestKeeps,
         RestoreManifestKeeps DEF Undoes
<1>5. CASE Ends
  BY <1>5, DiscardDshKeeps, DiscardManifestKeeps, CleanupKeeps DEF Ends
<1>6. CASE User
  BY <1>6, BootKeeps, RetryKeeps, OfferKeeps, RestartKeeps, UpdateKeeps,
         DeclineKeeps DEF User
<1>7. CASE World
  BY <1>7, DiesKeeps, PublishKeeps, UpgradeShellKeeps DEF World
<1>8. CASE UNCHANGED vars
  BY <1>8, StutterKeeps
<1> QED
  BY <1>1, <1>2, <1>3, <1>4, <1>5, <1>6, <1>7, <1>8 DEF Next

LEMMA Inductive == Spec => []IInv
BY InitKeeps, NextKeeps, PTL DEF Spec

-----------------------------------------------------------------------------
(* Every variable keeps its type, and no more than MaxFaults things go wrong *)
(* between two commits.                                                      *)
THEOREM TypeCorrect == Spec => []TypeOK
<1>1. IInv => TypeOK
  BY DEF IInv
<1> QED
  BY <1>1, Inductive, PTL

(* installHarnessRuntime never destroys the runtime last validated in place  *)
(* before another is, whatever fails and whenever the shell dies; and when   *)
(* one operation of promoteHarnessRuntime fails, its rollback puts back the  *)
(* dsh/ and the manifest it found.                                           *)
THEOREM OldRuntimeSurvives == Spec => []OldSurvives
<1>1. IInv => OldKept
  BY DEF IInv, OldInv, OldKept
<1>2. IInv => RollbackRestores
  <2> SUFFICES ASSUME IInv, pc = "cleanup", ~committed, faults <= 1
               PROVE  <<dsh, manifest>> = before
    BY DEF RollbackRestores
  <2>1. faults = 1
    BY DEF IInv, TypeOK, UndoInv
  <2>2. dsh = before[1] /\ manifest = before[2]
    BY <2>1 DEF IInv, UndoInv, Same
  <2> QED
    BY <2>2 DEF IInv, TypeOK
<1> QED
  BY <1>1, <1>2, Inductive, PTL DEF OldSurvives

(* What validateHarnessRuntime may accept outside a promotion is a whole     *)
(* dsh/ with the manifest of its own release, unless two things have gone    *)
(* wrong since the last commit.                                              *)
THEOREM DiskHolds == Spec => []DiskIsSound
<1>1. IInv => DiskIsSound
  BY DEF IInv, SoundInv
<1> QED
  BY <1>1, Inductive, PTL

(* However the updates of a running shell end, it has a whole runtime not    *)
(* older than the packaged one and, with none under way, a dsh started.      *)
THEOREM ShellIsServed == Spec => []ShellHasRuntime
<1>1. IInv => ShellHasRuntime
  BY DEF IInv, SoundInv, ShellHasRuntime
<1> QED
  BY <1>1, Inductive, PTL
=============================================================================
