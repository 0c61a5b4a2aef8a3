------------------------------ MODULE ModelRefresh ------------------------------
(***************************************************************************)
(* The refresh of the model catalogue: when it runs (single flight, the    *)
(* interval and the retry timers of apps/shell/src/main/index.ts), what it *)
(* records of its probes (model-refresher.ts), and what it writes into the *)
(* profile that dsh watches and the user edits (harness-settings.ts, and   *)
(* provider-seeder.ts at startup).                                         *)
(*                                                                         *)
(* Once the probes have answered, a refresh is synchronous: no other       *)
(* callback of the shell runs between its reads and writes, but dsh and    *)
(* the user may edit the profile, a file operation may throw, and the      *)
(* shell may die.  The profile is replaced by a rename; the catalogue file *)
(* is written in place, so what is left of it may be unreadable, which     *)
(* reads as an empty one.                                                  *)
(*                                                                         *)
(* A model is its rank in exactModelIds, whose first entry is `auto'.      *)
(* Left out: optional providers (index.ts passes none), the capabilities   *)
(* of a model, the legacy settings.yaml, and what is shown of a failure.   *)
(***************************************************************************)
EXTENDS Naturals, FiniteSets

CONSTANTS
  Concrete,      \* the number of models of exactModelIds after `auto'
  OtherProvider, \* the providers the user configures
  Timer,         \* bound on the retry timers armed at once
  NoTimer,       \* null
  RetryLimit,    \* the short retries of a degraded period (8 in index.ts)
  MaxEdits,      \* bound on the choices of a default made by the user
  MaxFaults,     \* bound on the file operations that throw
  MaxLives       \* bound on the starts of the shell

Phoenix == "freecode-phoenix"

ASSUME RefreshAssumption ==
  /\ Concrete \in Nat \ {0}
  /\ Phoenix \notin OtherProvider /\ "none" \notin OtherProvider
  /\ NoTimer \notin Timer
  /\ RetryLimit \in Nat /\ MaxEdits \in Nat /\ MaxFaults \in Nat /\ MaxLives \in Nat

VARIABLES
  good,        \* lastKnownGoodByProvider of model-catalog.json
  selectable,  \* the models of the profile without `selectable: false'
  default,     \* agent-default-model of the profile
  phase,       \* "off", "up" or "quitting" (shuttingDown)
  armed,       \* the retry timers that will fire
  handle,      \* refreshRetryTimer
  retries,     \* degradedProbeRetries, at most RetryLimit
  stage,       \* where the refresh in flight stands, "none" without one
  answer,      \* what each model answered to the last probes
  snapshot,    \* the default of readHarnessSettings
  found,       \* the default of the document writeHarnessSettings edits
  usable,      \* history: the models whose last recorded response was usable
  owed,        \* history: the user's choice that has to stand
  edits, faults, lives  \* counted against their bounds

disk    == <<good, selectable, default>>
timers  == <<armed, handle, retries>>
flight  == <<stage, answer, snapshot, found>>
history == <<usable, owed>>
bounds  == <<edits, faults, lives>>
vars == <<disk, phase, timers, flight, history, bounds>>

Router == 0               \* `auto'
Id == Router .. Concrete
Retired == Concrete + 1   \* a model of the catalogue of an older shell

Model == Id \cup {Retired}
NoRoute == [provider |-> "none", model |-> Router]
Managed == [provider : {Phoenix}, model : Model]
Foreign == [provider : OtherProvider, model : {Router}]
Route == {NoRoute} \cup Managed \cup Foreign

(* "tools" is a usable completion and a tool call, "text" a usable         *)
(* completion only; the others are the failures of a probe: none before    *)
(* HTTP, 408, 429 or 5xx, and any other status or an unusable body.        *)
Usable == {"tools", "text"}
Failure == {"transport", "overload", "refused"}
Answer == Usable \cup Failure
Responses == Answer \ {"transport"}

TypeOK ==
  /\ good \subseteq Id
  /\ selectable \subseteq Id
  /\ default \in Route
  /\ phase \in {"off", "up", "quitting"}
  /\ armed \subseteq Timer
  /\ handle \in Timer \cup {NoTimer}
  /\ retries \in 0..RetryLimit
  /\ stage \in {"none", "probing", "probed", "saved", "read"}
  /\ answer \in [Id -> Answer \cup {"unlisted", "unasked"}]
  /\ snapshot \in Route
  /\ found \in Route
  /\ usable \subseteq Id
  /\ owed \in Route
  /\ edits \in 0..MaxEdits /\ faults \in 0..MaxFaults /\ lives \in 0..MaxLives

Unasked == [m \in Id |-> "unasked"]

(* Nothing on disk but a profile an older shell may have left.             *)
Init ==
  /\ good = {} /\ usable = {} /\ selectable = {}
  /\ default \in Route
  /\ phase = "off"
  /\ armed = {} /\ handle = NoTimer /\ retries = 0
  /\ stage = "none" /\ answer = Unasked /\ snapshot = NoRoute /\ found = NoRoute
  /\ owed = IF default \in Foreign THEN default ELSE NoRoute
  /\ edits = 0 /\ faults = 0 /\ lives = 0

-----------------------------------------------------------------------------
(* What is computed from the answers of the probes.                        *)

Responders(a) == {m \in Id : a[m] \in Usable}

(* syncProviderModels: a concrete model must have called the tool as well. *)
ProvenSticky(a) == selectable \cap Responders(a)
Proven(a) == {m \in Responders(a) : m = Router \/ a[m] = "tools"}

(* The last known good: those that respond, and of those known before the  *)
(* ones whose probe failed before HTTP.                                    *)
RetainedAnyFailure(a) == Responders(a) \cup {m \in good : a[m] \in Failure}
Retained(a) == Responders(a) \cup {m \in good : a[m] = "transport"}

(* shouldRetryModelRefresh.  `auto' is always in the list.                 *)
Retryable(a) == \E m \in Id : a[m] \in {"transport", "overload"}

(* The default a refresh wants after reading s: s, or for want of a valid  *)
(* one the first responder.  A managed default that is still registered is *)
(* kept, whether or not it responds.                                       *)
First(ids) == {m \in ids : \A n \in ids : m <= n}
Desired(s, a) ==
  IF /\ Responders(a) # {}
     /\ s = NoRoute \/ (s.provider = Phoenix /\ s.model \notin Id)
  THEN [provider : {Phoenix}, model : First(Responders(a))]
  ELSE {s}

(* writeHarnessSettings: a managed default that is not registered is no    *)
(* default, and the choice of another provider in the document f stands.   *)
Registered(r) == r.provider = Phoenix => r.model \in Id
MergedReplayed(r, f) == IF Registered(r) THEN r ELSE NoRoute
Merged(r, f) ==
  LET wanted == IF Registered(r) THEN r ELSE NoRoute
  IN  IF f \in Foreign /\ f.provider # wanted.provider THEN f ELSE wanted

(* seedProviders, which reads and writes before dsh is started.            *)
Seeded(d) ==
  IF d = NoRoute \/ ~Registered(d) THEN [provider |-> Phoenix, model |-> Router] ELSE d

-----------------------------------------------------------------------------
(* The timers.                                                             *)

(* A callback of the shell runs only between two synchronous sections.     *)
Writing == stage \in {"probed", "saved", "read"}

KeepTimers == UNCHANGED <<armed, handle>>
ArmTimer == \E t \in Timer \ armed : armed' = armed \cup {t} /\ handle' = t

(* scheduleRefreshRetry.                                                   *)
ScheduleRetry == IF handle # NoTimer THEN KeepTimers ELSE ArmTimer

(* The end of a successful refresh.  The handle is overwritten, and a      *)
(* timer it held still fires.                                              *)
RetryAfterTooOften(a) ==
  /\ IF Retryable(a) /\ retries <= RetryLimit /\ phase # "quitting" THEN ArmTimer ELSE KeepTimers
  /\ retries' = IF Retryable(a) THEN retries + 1 ELSE 0
RetryAfterUnbounded(a) ==
  /\ IF Retryable(a) /\ phase # "quitting" THEN ArmTimer ELSE KeepTimers
  /\ retries' = 0
RetryAfter(a) ==
  /\ IF Retryable(a) /\ retries < RetryLimit /\ phase # "quitting" THEN ArmTimer ELSE KeepTimers
  /\ retries' = CASE ~Retryable(a) -> 0
                  [] Retryable(a) /\ retries < RetryLimit -> retries + 1
                  [] Retryable(a) /\ retries >= RetryLimit -> retries

-----------------------------------------------------------------------------
(* The shell starts: providers are seeded, dsh is started, and a refresh.  *)
Boot ==
  /\ phase = "off" /\ lives < MaxLives
  /\ phase' = "up" /\ lives' = lives + 1
  /\ selectable' = {} /\ default' = Seeded(default)
  /\ stage' = "probing"
  /\ UNCHANGED <<good, timers, answer, snapshot, found, history, edits, faults>>

(* doRefresh of the interval, until the quit, or of models:refresh.  One   *)
(* that finds a refresh in flight shares it.  The bound is on the timers.  *)
Asked ==
  /\ stage = "none" /\ armed # Timer
  /\ stage' = "probing"
  /\ UNCHANGED <<disk, phase, timers, answer, snapshot, found, history, bounds>>
Tick == phase = "up" /\ Asked
Request == phase # "off" /\ Asked

(* A retry timer fires and forgets whatever handle there is.               *)
Fire(t) ==
  /\ t \in armed /\ ~Writing
  /\ armed' = armed \ {t} /\ handle' = NoTimer
  /\ stage' = "probing"
  /\ UNCHANGED <<disk, phase, retries, answer, snapshot, found, history, bounds>>

(* Listing and probes have ended, each by an answer or by its timeout.     *)
(* When the list cannot be had every model is probed.  Whether `auto'      *)
(* calls a tool makes no difference; here it never does.                   *)
ProbesAnswer ==
  /\ stage = "probing"
  /\ stage' = "probed"
  /\ answer' \in {a \in [Id -> Answer \cup {"unlisted"}] :
                    a[Router] \notin {"unlisted", "tools"}}
  /\ UNCHANGED <<disk, phase, timers, snapshot, found, history, bounds>>

(* The catalogue is written and the profile is read.                       *)
SaveCatalog ==
  /\ stage = "probed"
  /\ stage' = "saved"
  /\ good' = Retained(answer)
  /\ usable' = Responders(answer) \cup {m \in usable : answer[m] \notin Responses}
  /\ snapshot' = default
  /\ UNCHANGED <<selectable, default, phase, timers, answer, found, owed, bounds>>

(* writeHarnessSettings reads the profile again.                           *)
ReadDocument ==
  /\ stage = "saved"
  /\ stage' = "read"
  /\ found' = default
  /\ UNCHANGED <<disk, phase, timers, answer, snapshot, history, bounds>>

(* It replaces the profile, and the refresh has succeeded.                 *)
WriteProfile ==
  /\ stage = "read"
  /\ selectable' = Proven(answer)
  /\ default' \in {Merged(r, found) : r \in Desired(snapshot, answer)}
  /\ RetryAfter(answer)
  /\ stage' = "none" /\ snapshot' = NoRoute /\ found' = NoRoute
  /\ UNCHANGED <<good, phase, answer, history, bounds>>

(* A file operation throws: the catalogue cannot be written, the profile   *)
(* cannot be read or parsed, or cannot be replaced.                        *)
RefreshFails ==
  /\ Writing /\ faults < MaxFaults
  /\ faults' = faults + 1
  /\ good' \in IF stage = "probed" THEN {good, {}} ELSE {good}
  /\ ScheduleRetry
  /\ stage' = "none" /\ snapshot' = NoRoute /\ found' = NoRoute
  /\ UNCHANGED <<selectable, default, phase, retries, answer, history, edits, lives>>

(* before-quit: the cleanup of gracefulShutdown clears the interval and    *)
(* the timer of the handle at once.                                        *)
Quit ==
  /\ phase = "up" /\ ~Writing
  /\ phase' = "quitting"
  /\ armed' = armed \ {handle} /\ handle' = NoTimer
  /\ UNCHANGED <<disk, retries, flight, history, bounds>>

(* app.exit, a crash or a kill, perhaps in the middle of a write.          *)
ShellEnds ==
  /\ phase # "off"
  /\ phase' = "off"
  /\ good' \in IF stage = "probed" THEN {good, {}} ELSE {good}
  /\ armed' = {} /\ handle' = NoTimer /\ retries' = 0
  /\ stage' = "none" /\ answer' = Unasked /\ snapshot' = NoRoute /\ found' = NoRoute
  /\ UNCHANGED <<selectable, default, history, bounds>>

(* The user chooses a default r, in dsh or by hand.  The choice is owed    *)
(* to him when it is of another provider, unless it comes after the        *)
(* document was read, or its provider is the one the snapshot chose.       *)
Safe(r) ==
  /\ r \in Foreign
  /\ stage # "read"
  /\ stage = "saved" => snapshot.provider # r.provider
UserChooses(r) ==
  /\ edits < MaxEdits
  /\ edits' = edits + 1
  /\ default' = r
  /\ owed' = IF Safe(r) THEN r ELSE NoRoute
  /\ UNCHANGED <<good, selectable, phase, timers, flight, usable, faults, lives>>

Next ==
  \/ Boot \/ Tick \/ Request \/ ProbesAnswer \/ SaveCatalog \/ ReadDocument
  \/ WriteProfile \/ RefreshFails \/ Quit \/ ShellEnds
  \/ \E t \in Timer : Fire(t)
  \/ \E r \in Route : UserChooses(r)

Spec == Init /\ [][Next]_vars

(* Every request of a probe has a timeout, the rest of a refresh does not  *)
(* wait, and the event loop runs every timer that is due: a synchronous    *)
(* section only delays it.                                                 *)
Fairness ==
  /\ WF_vars(ProbesAnswer) /\ WF_vars(SaveCatalog)
  /\ WF_vars(ReadDocument) /\ WF_vars(WriteProfile)
  /\ SF_vars(Tick)
  /\ \A t \in Timer : SF_vars(Fire(t))

FairSpec == Spec /\ Fairness

-----------------------------------------------------------------------------
(* Between two refreshes the selector offers exactly the models whose last *)
(* probe proved them, unless the refresh that probed them failed to write  *)
(* it; then another one is due, whatever handles were overwritten.         *)
SelectorIsCurrent ==
  phase = "up" /\ stage = "none" => selectable = Proven(answer) \/ armed # {}

(* A model is kept as last known good only if it was usable when it last   *)
(* answered a recorded probe, through restarts and half written files.     *)
LastKnownGoodIsTrue == good \subseteq usable

(* A choice of another provider made by the user while a refresh goes on   *)
(* stands: no refresh, failure or restart replaces it.                     *)
UserChoiceStands == owed # NoRoute => default = owed

(* When the catalogue stays degraded the short retries come to an end and  *)
(* only the regular cadence is left.                                       *)
RetriesEnd == <>[](phase = "up" /\ Retryable(answer)) => <>[](armed = {})

(* A hidden model that proves itself from some time on is selectable       *)
(* again, although refreshes fail and are retried.                         *)
HiddenModelReturns ==
  \A m \in Id :
    <>[](phase = "up" /\ answer[m] \in IF m = Router THEN Usable ELSE {"tools"})
      => <>[](m \in selectable)
=============================================================================
