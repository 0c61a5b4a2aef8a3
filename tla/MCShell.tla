-------------------------------- MODULE MCShell --------------------------------
(* Model checking of the model refresh, in its larger instance, of the        *)
(* catalogue it fills, and of what the shell shows and does for the user: the *)
(* browser panel, the page of the harness, the updater, the dialogs, the      *)
(* notices and the import of chats. They share no state: every behaviour is   *)
(* one of one of them.                                                        *)
EXTENDS ModelRefresh

CONSTANTS LastRoute, Reviewed, MaxRefreshes, \* of the catalogue
          Tabs, FirstTab, MaxTabs, Lives,    \* of the browser
          MaxDsh, MaxRevision,               \* of the page
          MaxWindows,                        \* of both
          Clicks, Dialogs, Servers,
          MaxMessages, MaxParts, MaxTries    \* of the handoff

ASSUME ShellAssumption ==
    /\ {LastRoute, MaxRefreshes, Lives, MaxDsh, MaxWindows, MaxMessages, MaxParts, MaxTries} \subseteq Nat
    /\ MaxTabs \in Nat \ {0} /\ FirstTab \in Tabs
    /\ MaxRevision \in Nat /\ MaxRevision > 1

VARIABLE focus \* the component this behaviour is about

VARIABLES cStage, cRefreshes, cListed, cProbe, cProfile, cDisk, cFormat,
          cKnown, cAnswered

VARIABLES bPhase, bLife, bDisk, bSaved, bTabs, bActive, bVisible, bWindows,
          bShellWin, bWin, bChrome, bPlaced, bServing, bKept, bWriter

VARIABLES pUrl, pReady, pMain, pWindows, pFirst, pPage, pCleaning, pOvertaken,
          pRevision, pPushes, pRequest, pAnswer, pMounted, pShown, pQuitting

VARIABLES aDev, aCheck, aShared, aLatest, aAsked, aKnown, aActivity, aRunning,
          aBuilds, aLeaving, aButton, aAnswers

VARIABLES dServer, dAsk, dStage, dReply, dDid

VARIABLES nBackend, nDryTold, nMcp, nQuitting, nStarted, nRejected, nInformed,
          nDry, nFailures, nLate

VARIABLES iDb, iThere, iStage, iRows, iChat, iSession, iMade, iTries, iBefore


catalogueVars == <<cStage, cRefreshes, cListed, cProbe, cProfile, cDisk,
      cFormat, cKnown, cAnswered>>
browserVars == <<bPhase, bLife, bDisk, bSaved, bTabs, bActive, bVisible,
      bWindows, bShellWin, bWin, bChrome, bPlaced, bServing, bKept, bWriter>>
pageVars == <<pUrl, pReady, pMain, pWindows, pFirst, pPage, pCleaning,
      pOvertaken, pRevision, pPushes, pRequest, pAnswer, pMounted, pShown,
      pQuitting>>
updateVars == <<aDev, aCheck, aShared, aLatest, aAsked, aKnown, aActivity,
      aRunning, aBuilds, aLeaving, aButton, aAnswers>>
bridgeVars == <<dServer, dAsk, dStage, dReply, dDid>>
noticeVars == <<nBackend, nDryTold, nMcp, nQuitting, nStarted, nRejected,
      nInformed, nDry, nFailures, nLate>>
handoffVars == <<iDb, iThere, iStage, iRows, iChat, iSession, iMade, iTries,
      iBefore>>
all == <<focus, vars, catalogueVars, browserVars, pageVars, updateVars,
      bridgeVars, noticeVars, handoffVars>>
C == INSTANCE Catalogue WITH LastRoute <- LastRoute, Reviewed <- Reviewed,
      MaxRefreshes <- MaxRefreshes, stage <- cStage, refreshes <- cRefreshes,
      listed <- cListed, probe <- cProbe, profile <- cProfile, disk <- cDisk,
      format <- cFormat, known <- cKnown, answered <- cAnswered

B == INSTANCE EmbeddedBrowser WITH Tab <- Tabs, FirstTab <- FirstTab, MaxTabs <- MaxTabs,
      MaxWindows <- MaxWindows, MaxLives <- Lives, phase <- bPhase, life <- bLife,
      disk <- bDisk, saved <- bSaved, tabs <- bTabs, active <- bActive,
      visible <- bVisible, windows <- bWindows, shellWin <- bShellWin,
      win <- bWin, chrome <- bChrome, placed <- bPlaced, serving <- bServing,
      kept <- bKept, writer <- bWriter

P == INSTANCE HarnessPage WITH MaxDsh <- MaxDsh, MaxWindows <- MaxWindows, MaxRevision <- MaxRevision,
      url <- pUrl, ready <- pReady, main <- pMain, windows <- pWindows,
      first <- pFirst, page <- pPage, cleaning <- pCleaning,
      overtaken <- pOvertaken, revision <- pRevision, pushes <- pPushes,
      request <- pRequest, answer <- pAnswer, mounted <- pMounted,
      shown <- pShown, quitting <- pQuitting

A == INSTANCE AppUpdate WITH Clicks <- Clicks, dev <- aDev,
      check <- aCheck, shared <- aShared, latest <- aLatest, asked <- aAsked,
      known <- aKnown, activity <- aActivity, running <- aRunning,
      builds <- aBuilds, leaving <- aLeaving, button <- aButton,
      answers <- aAnswers

D == INSTANCE GuiBridge WITH Requests <- Dialogs, server <- dServer,
      ask <- dAsk, stage <- dStage, reply <- dReply, did <- dDid

N == INSTANCE Notices WITH Server <- Servers, backend <- nBackend,
      dryTold <- nDryTold, mcp <- nMcp, quitting <- nQuitting,
      started <- nStarted, rejected <- nRejected, informed <- nInformed,
      dry <- nDry, failures <- nFailures, late <- nLate

I == INSTANCE ChatHandoff WITH MaxMessages <- MaxMessages, MaxParts <- MaxParts, MaxTries <- MaxTries,
      db <- iDb, there <- iThere, stage <- iStage, rows <- iRows,
      chat <- iChat, session <- iSession, made <- iMade, tries <- iTries,
      before <- iBefore

(* Each behaviour moves one component; the others rest in one initial state.  *)
MCInit ==
    /\ focus \in {"refresh", "catalogue", "browser", "page", "update", "bridge", "notices", "handoff"}
    /\ Init /\ (focus # "refresh" => default = NoRoute)
    /\ C!Init /\ (focus # "catalogue" => cFormat = "missing")
    /\ B!Init
    /\ P!Init
    /\ A!Init /\ (focus # "update" => ~aDev)
    /\ D!Init
    /\ N!Init
    /\ I!Init

MCNext ==
    /\ UNCHANGED focus
    /\ \/ focus = "refresh" /\ Next /\ UNCHANGED <<catalogueVars, browserVars, pageVars, updateVars, bridgeVars, noticeVars, handoffVars>>
       \/ focus = "catalogue" /\ C!Next
          /\ UNCHANGED <<vars, browserVars, pageVars, updateVars, bridgeVars, noticeVars, handoffVars>>
       \/ focus = "browser" /\ B!Next
          /\ UNCHANGED <<vars, catalogueVars, pageVars, updateVars, bridgeVars, noticeVars, handoffVars>>
       \/ focus = "page" /\ P!Next
          /\ UNCHANGED <<vars, catalogueVars, browserVars, updateVars, bridgeVars, noticeVars, handoffVars>>
       \/ focus = "update" /\ A!Next
          /\ UNCHANGED <<vars, catalogueVars, browserVars, pageVars, bridgeVars, noticeVars, handoffVars>>
       \/ focus = "bridge" /\ D!Next
          /\ UNCHANGED <<vars, catalogueVars, browserVars, pageVars, updateVars, noticeVars, handoffVars>>
       \/ focus = "notices" /\ N!Next
          /\ UNCHANGED <<vars, catalogueVars, browserVars, pageVars, updateVars, bridgeVars, handoffVars>>
       \/ focus = "handoff" /\ I!Next
          /\ UNCHANGED <<vars, catalogueVars, browserVars, pageVars, updateVars, bridgeVars, noticeVars>>

MCSpec == MCInit /\ [][MCNext]_all

-----------------------------------------------------------------------------
(* The browser panel keeps the tabs the user has; the window shows the dsh    *)
(* that runs, and its model selector agrees.                                  *)
WindowIsTrue ==
    /\ focus = "browser" => B!TypeOK /\ B!TabsAreSound /\ B!RestoredAsLeft
    /\ focus = "page" => P!TypeOK /\ P!PageIsCurrent /\ P!SelectorAgrees

(* The updater's button tells the truth, and one update goes on at a time.    *)
UpdatesAreSound == focus = "update" => A!TypeOK /\ A!ButtonTellsTruth /\ A!UpdatesAreSound

(* Nothing is installed that was not checked.                                 *)
DownloadIsChecked == A!DownloadIsChecked

(* Each dialog, failure and imported chat is answered, told and handed over   *)
(* once and whole; no model is offered that its probe has not proved.         *)
MessagesAreWhole ==
    /\ focus = "bridge" => D!TypeOK /\ D!BridgeIsExact
    /\ focus = "notices" => N!TypeOK /\ N!NoticesAreDue
    /\ focus = "handoff" => I!TypeOK /\ I!HandoffIsWhole
    /\ focus = "catalogue" => C!TypeOK /\ C!CatalogueIsProven
=============================================================================
