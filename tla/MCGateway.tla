------------------------------- MODULE MCGateway -------------------------------
(* Model checking of the gateway and of what it depends on and serves: the    *)
(* hidden launcher it is started with, and the refresh of its models, in an   *)
(* instance small enough for liveness (MCShell has a larger one). They share  *)
(* no state: every behaviour is one of one of them.                           *)
EXTENDS PhoenixGateway

CONSTANTS Launches, MaxKids \* of HiddenLaunch

ASSUME LaunchAssumption == MaxKids \in Nat

VARIABLE focus \* the component this behaviour is about

VARIABLES lWin, lAttested, lHost, lCall, lTimer, lActive, lEvent, lHelper,
          lTarget, lInJob, lKids

VARIABLES rGood, rSelectable, rDefault, rPhase, rArmed, rHandle, rRetries,
          rStage, rAnswer, rSnapshot, rFound, rUsable, rOwed, rEdits, rFaults,
          rLives


launchVars == <<lWin, lAttested, lHost, lCall, lTimer, lActive, lEvent,
      lHelper, lTarget, lInJob, lKids>>
refreshVars == <<rGood, rSelectable, rDefault, rPhase, rArmed, rHandle,
      rRetries, rStage, rAnswer, rSnapshot, rFound, rUsable, rOwed, rEdits,
      rFaults, rLives>>
all == <<focus, vars, launchVars, refreshVars>>
L == INSTANCE HiddenLaunch WITH Launches <- Launches, MaxKids <- MaxKids,
      win <- lWin, attested <- lAttested, host <- lHost, call <- lCall,
      timer <- lTimer, active <- lActive, event <- lEvent, helper <- lHelper,
      target <- lTarget, inJob <- lInJob, kids <- lKids

R == INSTANCE ModelRefresh WITH Concrete <- 1, OtherProvider <- {},
      Timer <- {"t1", "t2"}, NoTimer <- "no timer", RetryLimit <- 1,
      MaxEdits <- 0, MaxFaults <- 1, MaxLives <- 1, good <- rGood,
      selectable <- rSelectable, default <- rDefault, phase <- rPhase,
      armed <- rArmed, handle <- rHandle, retries <- rRetries,
      stage <- rStage, answer <- rAnswer, snapshot <- rSnapshot,
      found <- rFound, usable <- rUsable, owed <- rOwed, edits <- rEdits,
      faults <- rFaults, lives <- rLives

(* Each behaviour moves one component; the others rest in one initial state.  *)
MCInit ==
    /\ focus \in {"gateway", "launch", "refresh"}
    /\ Init
    /\ L!Init /\ (focus # "launch" => ~lWin /\ ~lAttested)
    /\ R!Init /\ rDefault = R!NoRoute

MCNext ==
    /\ UNCHANGED focus
    /\ \/ focus = "gateway" /\ Next /\ UNCHANGED <<launchVars, refreshVars>>
       \/ focus = "launch" /\ L!Next
          /\ UNCHANGED <<vars, refreshVars>>
       \/ focus = "refresh" /\ R!Next
          /\ UNCHANGED <<vars, launchVars>>

MCSpec == MCInit /\ [][MCNext]_all /\ Fairness /\ L!Fairness /\ R!Fairness

-----------------------------------------------------------------------------
(* What runs hidden is contained, and a launch said to be over is over.       *)
Contained == focus = "launch" => L!TypeOK /\ L!Contained

(* Each wait for a hidden launch is answered.                                 *)
WaitsAreSettled == L!WaitsAreSettled

(* The short retries of a degraded catalogue end, and a model that proves     *)
(* itself from some time on is offered again.                                 *)
RefreshGoesOn == R!RetriesEnd /\ R!HiddenModelReturns
=============================================================================
