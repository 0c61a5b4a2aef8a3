------------------------------- MODULE MCInstall -------------------------------
(* Model checking of the runtime install, of the shell that waits for it, and *)
(* of the scripts that make what is installed. They share no state: every     *)
(* behaviour is one of one of them.                                           *)
EXTENDS RuntimeInstall

CONSTANTS Shells, Attempts, MaxDsh                        \* of ShellLifecycle
CONSTANTS File, MaxLine, Patches, PatchRuns, MaxEdits     \* of PatchStack
CONSTANTS SourceVersions, MaxBuilds                       \* of GatewayStaging
CONSTANTS Workspace, Runtime, Tool, Platform,
          HarnessVersions, Packagings                     \* of RuntimePackaging

\* What the lock file holds is told from the name of a shell.
ASSUME NamesAssumption == Shells \cap {"free", "torn", "dead"} = {}

\* The packages are told apart by what they are for.
ASSUME PackagesAssumption ==
    /\ Workspace \cap Tool = {} /\ Workspace \cap Runtime = {} /\ Runtime \cap Tool = {}
    /\ "none" \notin Platform

ASSUME BoundsAssumption ==
    {Attempts, MaxDsh, MaxLine, Patches, PatchRuns, MaxEdits, SourceVersions,
     MaxBuilds, HarnessVersions, Packagings} \subseteq Nat

VARIABLE focus \* the component this behaviour is about

VARIABLES sLock, sStage, sPc, sTries, sSplash, sMain, sBridge, sStatus, sDsh,
          sHeld, sBorn, sQuit, sNamed, sLate, sLeft

VARIABLES hTouches, hTree, hStage, hNext, hStacked, hCause, hBegan, hRuns,
          hEdits

VARIABLES gSource, gMetadata, gBinary, gWritten, gStaged, gStage, gCopied,
          gMade, gWhole, gVerified, gBuilds

VARIABLES kSource, kLib, kRecorded, kFiles, kMark, kPlatform, kStep, kToBuild,
          kStage, kOut, kMoved, kRuns


shellVars == <<sLock, sStage, sPc, sTries, sSplash, sMain, sBridge, sStatus,
      sDsh, sHeld, sBorn, sQuit, sNamed, sLate, sLeft>>
stackVars == <<hTouches, hTree, hStage, hNext, hStacked, hCause, hBegan,
      hRuns, hEdits>>
stagingVars == <<gSource, gMetadata, gBinary, gWritten, gStaged, gStage,
      gCopied, gMade, gWhole, gVerified, gBuilds>>
packagingVars == <<kSource, kLib, kRecorded, kFiles, kMark, kPlatform, kStep,
      kToBuild, kStage, kOut, kMoved, kRuns>>
all == <<focus, vars, shellVars, stackVars, stagingVars, packagingVars>>
S == INSTANCE ShellLifecycle WITH Shells <- Shells, Attempts <- Attempts,
      MaxDsh <- MaxDsh, lock <- sLock, stage <- sStage, pc <- sPc, tries <- sTries,
      splash <- sSplash, main <- sMain, bridge <- sBridge, status <- sStatus,
      dsh <- sDsh, held <- sHeld, born <- sBorn, quit <- sQuit,
      named <- sNamed, late <- sLate, left <- sLeft

H == INSTANCE PatchStack WITH File <- File, MaxLine <- MaxLine, Patches <- Patches,
      MaxRuns <- PatchRuns, MaxEdits <- MaxEdits, touches <- hTouches, tree <- hTree,
      stage <- hStage, next <- hNext, stacked <- hStacked, cause <- hCause,
      began <- hBegan, runs <- hRuns, edits <- hEdits

G == INSTANCE GatewayStaging WITH MaxVersion <- SourceVersions, MaxBuilds <- MaxBuilds,
      source <- gSource, metadata <- gMetadata, binary <- gBinary,
      written <- gWritten, staged <- gStaged, stage <- gStage,
      copied <- gCopied, made <- gMade, whole <- gWhole,
      verified <- gVerified, builds <- gBuilds

K == INSTANCE RuntimePackaging WITH Workspace <- Workspace, Runtime <- Runtime,
      Tool <- Tool, Platform <- Platform, MaxVersion <- HarnessVersions,
      MaxRuns <- Packagings, source <- kSource, lib <- kLib, recorded <- kRecorded,
      files <- kFiles, mark <- kMark, platform <- kPlatform, step <- kStep,
      toBuild <- kToBuild, stage <- kStage, out <- kOut, moved <- kMoved,
      runs <- kRuns

(* Each behaviour moves one component; the others rest in one initial state.  *)
MCInit ==
    /\ focus \in {"install", "shell", "patches", "staging", "packaging"}
    /\ Init /\ (focus # "install" => published = 1)
    /\ S!Init /\ (focus # "shell" => sLock = "free")
    /\ H!Init /\ (focus # "patches" => hTouches = [p \in H!Patch |-> H!Line] /\ hTree = H!Upstream)
    /\ G!Init
    /\ K!Init /\ (focus # "packaging" => kPlatform = CHOOSE p \in Platform : TRUE)

MCNext ==
    /\ UNCHANGED focus
    /\ \/ focus = "install" /\ Next /\ UNCHANGED <<shellVars, stackVars, stagingVars, packagingVars>>
       \/ focus = "shell" /\ S!Next
          /\ UNCHANGED <<vars, stackVars, stagingVars, packagingVars>>
       \/ focus = "patches" /\ H!Next
          /\ UNCHANGED <<vars, shellVars, stagingVars, packagingVars>>
       \/ focus = "staging" /\ G!Next
          /\ UNCHANGED <<vars, shellVars, stackVars, packagingVars>>
       \/ focus = "packaging" /\ K!Next
          /\ UNCHANGED <<vars, shellVars, stackVars, stagingVars>>

MCSpec == MCInit /\ [][MCNext]_all /\ Fairness /\ S!Fairness

-----------------------------------------------------------------------------
(* Of shells started together one owns the profile, and a quit that ended     *)
(* left no harness process.                                                   *)
OneShell == focus = "shell" => S!TypeOK /\ S!OneOwner /\ S!QuitLeavesNothing

(* No shell is refused but for another; a quit comes to its end; the splash   *)
(* goes.                                                                      *)
ShellGoesOn == S!RefusedForAnother /\ S!QuitEnds /\ S!SplashEnds

(* What a release ships was built from what it says, though the scripts are   *)
(* cut off and the sources edited.                                            *)
ReleaseIsBuilt ==
    /\ focus = "patches" => H!TypeOK /\ H!PatchingIsWhole
    /\ focus = "staging" => G!TypeOK /\ G!VerifiedIsBuilt
    /\ focus = "packaging" => K!TypeOK /\ K!PackagedIsWhole
=============================================================================
