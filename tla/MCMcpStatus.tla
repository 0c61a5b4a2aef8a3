------------------------------ MODULE MCMcpStatus ------------------------------
(* Model checking of McpStatus and of the other things dsh is started with:   *)
(* uvx for its servers, git and the other tools, the secrets, the text        *)
(* recognition, and the directories the preflight lets through and the        *)
(* retirement cleans. They share no state: every behaviour is one of one of   *)
(* them. The MCP servers are interchangeable.                                 *)
EXTENDS McpStatus, TLC

CONSTANTS UvxLives,                 \* of UvxBootstrap
          ToolChanges,              \* of ToolResolution
          Secrets, Values, VaultLives, \* of SecretVault
          OcrCalls,                 \* of Ocr
          Cleanups,                 \* of RetiredRuntime
          Looks                     \* of Preflight

ASSUME LivesAssumption == {UvxLives, ToolChanges, VaultLives, Cleanups, Looks} \subseteq Nat

Interchangeable == Permutations(Server)

VARIABLE focus \* the component this behaviour is about

VARIABLES uVendored, uPath, uManaged, uTemp, uWork, uArchive, uPc, uUvx,
          uLives

VARIABLES tWin, tAsks, tAt, tCache, tThen, tReport, tChanges

VARIABLES vLife, vWin, vUsed, vHeld, vLegible, vKept, vTorn, vSeen

VARIABLES oWin, oFound, oStage, oTemp, oProc, oAnswer, oSpoke, oLost

VARIABLES qRoute, qDefault, qLease, qListed, qCache, qData, qLinked, qMarker,
          qPc, qWas, qLives

VARIABLES fWin, fFaulty, fDisk, fAttempt, fNext, fReceipt, fClean, fVerdict,
          fSound, fReplaced


uvxVars == <<uVendored, uPath, uManaged, uTemp, uWork, uArchive, uPc, uUvx,
      uLives>>
toolVars == <<tWin, tAsks, tAt, tCache, tThen, tReport, tChanges>>
vaultVars == <<vLife, vWin, vUsed, vHeld, vLegible, vKept, vTorn, vSeen>>
ocrVars == <<oWin, oFound, oStage, oTemp, oProc, oAnswer, oSpoke, oLost>>
retiredVars == <<qRoute, qDefault, qLease, qListed, qCache, qData, qLinked,
      qMarker, qPc, qWas, qLives>>
preflightVars == <<fWin, fFaulty, fDisk, fAttempt, fNext, fReceipt, fClean,
      fVerdict, fSound, fReplaced>>
all == <<focus, vars, uvxVars, toolVars, vaultVars, ocrVars, retiredVars,
      preflightVars>>
U == INSTANCE UvxBootstrap WITH MaxLives <- UvxLives, vendored <- uVendored,
      path <- uPath, managed <- uManaged, temp <- uTemp, work <- uWork,
      archive <- uArchive, pc <- uPc, uvx <- uUvx, lives <- uLives

T == INSTANCE ToolResolution WITH MaxChanges <- ToolChanges, win <- tWin, asks <- tAsks,
      at <- tAt, cache <- tCache, then <- tThen, report <- tReport,
      changes <- tChanges

V == INSTANCE SecretVault WITH Key <- Secrets, Value <- Values,
      MaxLives <- VaultLives, life <- vLife, win <- vWin, used <- vUsed, held <- vHeld,
      legible <- vLegible, kept <- vKept, torn <- vTorn, seen <- vSeen

O == INSTANCE Ocr WITH Calls <- OcrCalls, win <- oWin, found <- oFound,
      stage <- oStage, temp <- oTemp, proc <- oProc, answer <- oAnswer,
      spoke <- oSpoke, lost <- oLost

Q == INSTANCE RetiredRuntime WITH MaxLives <- Cleanups, route <- qRoute,
      default <- qDefault, lease <- qLease, listed <- qListed,
      cache <- qCache, data <- qData, linked <- qLinked, marker <- qMarker,
      pc <- qPc, was <- qWas, lives <- qLives

F == INSTANCE Preflight WITH MaxAttempts <- Looks, win <- fWin, faulty <- fFaulty,
      disk <- fDisk, attempt <- fAttempt, next <- fNext, receipt <- fReceipt,
      clean <- fClean, verdict <- fVerdict, sound <- fSound,
      replaced <- fReplaced

(* Each behaviour moves one component; the others rest in one initial state.  *)
MCInit ==
    /\ focus \in {"mcp", "uvx", "tool", "vault", "ocr", "retired", "preflight"}
    /\ Init
    /\ U!Init /\ (focus # "uvx" => uVendored = "none" /\ uPath = "none" /\ uManaged = "none")
    /\ T!Init /\ (focus # "tool" => ~tWin /\ tAsks = "rtk" /\ \A p \in T!Place : tAt[p] = "none")
    /\ V!Init /\ (focus # "vault" => ~vWin /\ vSeen.key = CHOOSE k \in Secrets : TRUE)
    /\ O!Init /\ (focus # "ocr" => ~oWin)
    /\ Q!Init /\ (focus # "retired" => qRoute = "none" /\ qDefault = "none" /\ qLease = "none"
                    /\ qCache = "none" /\ qData = "none" /\ ~qListed /\ ~qLinked)
    /\ F!Init /\ fFaulty \in {"none", "models"}
                      /\ (focus # "preflight" => ~fWin /\ fFaulty = "none" /\ fDisk = [p \in F!Part |-> "none"])

MCNext ==
    /\ UNCHANGED focus
    /\ \/ focus = "mcp" /\ Next /\ UNCHANGED <<uvxVars, toolVars, vaultVars, ocrVars, retiredVars, preflightVars>>
       \/ focus = "uvx" /\ U!Next
          /\ UNCHANGED <<vars, toolVars, vaultVars, ocrVars, retiredVars, preflightVars>>
       \/ focus = "tool" /\ T!Next
          /\ UNCHANGED <<vars, uvxVars, vaultVars, ocrVars, retiredVars, preflightVars>>
       \/ focus = "vault" /\ V!Next
          /\ UNCHANGED <<vars, uvxVars, toolVars, ocrVars, retiredVars, preflightVars>>
       \/ focus = "ocr" /\ O!Next
          /\ UNCHANGED <<vars, uvxVars, toolVars, vaultVars, retiredVars, preflightVars>>
       \/ focus = "retired" /\ Q!Next
          /\ UNCHANGED <<vars, uvxVars, toolVars, vaultVars, ocrVars, preflightVars>>
       \/ focus = "preflight" /\ F!Next
          /\ UNCHANGED <<vars, uvxVars, toolVars, vaultVars, ocrVars, retiredVars>>

MCSpec == MCInit /\ [][MCNext]_all

-----------------------------------------------------------------------------
(* What dsh is started with works: a tool that is handed on was tested, uvx   *)
(* is whole, and so is the runtime the preflight lets through.                *)
ToolsWork ==
    /\ focus = "uvx" => U!TypeOK /\ U!UvxIsWhole
    /\ focus = "tool" => T!TypeOK /\ T!ResolutionIsHonest
    /\ focus = "preflight" => F!TypeOK /\ F!VerdictIsTrue

(* A secret read back is the one written, text recognition leaves no file and *)
(* no program behind, and what is left of the retired runtime is as it was or *)
(* gone.                                                                      *)
DataIsKept ==
    /\ focus = "vault" => V!TypeOK /\ V!VaultIsFaithful
    /\ focus = "ocr" => O!TypeOK /\ O!OcrLeavesNothing
    /\ focus = "retired" => Q!TypeOK /\ Q!RetirementIsWhole
=============================================================================
