--------------------------- MODULE ModelRefresh_proofs ---------------------------
(***************************************************************************)
(* Proofs about ModelRefresh, for any catalogue, providers and bounds.     *)
(*                                                                         *)
(* Typing, and three invariants: refreshRetryTimer never names a timer     *)
(* that will not fire, so a refresh that fails leaves one armed            *)
(* (SelectorInv); a last known good model was usable; and the choice owed  *)
(* to the user is in the profile, and whatever a refresh under way has     *)
(* read of the profile leads to that choice again (ChoiceInv).             *)
(***************************************************************************)
EXTENDS ModelRefresh, TLAPS

-----------------------------------------------------------------------------
(* The operators.                                                          *)

LEMMA RouteFacts ==
  /\ NoRoute \in Route /\ NoRoute \notin Foreign
  /\ Foreign \subseteq Route /\ Managed \subseteq Route
  /\ \A r \in Foreign : r.provider \in OtherProvider /\ Registered(r) /\ r # NoRoute
  /\ NoRoute.provider = "none"
BY RefreshAssumption DEF Route, NoRoute, Foreign, Managed, Registered, Phoenix

LEMMA RespondersType ==
  ASSUME NEW a
  PROVE  Responders(a) \subseteq Id /\ Proven(a) \subseteq Id
BY DEF Responders, Proven

LEMMA DesiredType ==
  ASSUME NEW s \in Route, NEW a
  PROVE  Desired(s, a) \subseteq Route
<1>1. [provider : {Phoenix}, model : First(Responders(a))] \subseteq Managed
  BY RespondersType DEF First, Managed, Model
<1> QED
  BY <1>1, RouteFacts DEF Desired

LEMMA MergedType ==
  ASSUME NEW r \in Route, NEW f \in Route
  PROVE  Merged(r, f) \in Route
BY RouteFacts DEF Merged

LEMMA SeededType ==
  ASSUME NEW d \in Route
  PROVE  Seeded(d) \in Route
<1>1. Router \in Model
  BY RefreshAssumption DEF Router, Model, Id
<1>2. [provider |-> Phoenix, model |-> Router] \in Managed
  BY <1>1 DEF Managed
<1> QED
  BY <1>2, RouteFacts DEF Seeded

(* What a refresh wants is what it read, or a model of Phoenix.            *)
LEMMA DesiredProvider ==
  ASSUME NEW s \in Route, NEW a, NEW r \in Desired(s, a)
  PROVE  r = s \/ (r.provider = Phoenix /\ (s = NoRoute \/ s.provider = Phoenix))
BY DEF Desired

(* Arming and keeping timers.                                              *)
LEMMA ArmType ==
  ASSUME TypeOK, ArmTimer \/ KeepTimers
  PROVE  armed' \subseteq Timer /\ handle' \in Timer \cup {NoTimer}
BY DEF TypeOK, ArmTimer, KeepTimers

LEMMA ScheduleType ==
  ASSUME TypeOK, ScheduleRetry
  PROVE  armed' \subseteq Timer /\ handle' \in Timer \cup {NoTimer}
BY ArmType DEF ScheduleRetry

LEMMA RetriesType ==
  ASSUME TypeOK, RetryAfter(answer)
  PROVE  /\ armed' \subseteq Timer /\ handle' \in Timer \cup {NoTimer}
         /\ retries' \in 0..RetryLimit
<1>1. ArmTimer \/ KeepTimers
  BY DEF RetryAfter
<1>2. retries \in 0..RetryLimit /\ RetryLimit \in Nat
  BY RefreshAssumption DEF TypeOK
<1>3. CASE ~Retryable(answer)
  BY <1>1, <1>2, <1>3, ArmType DEF RetryAfter
<1>4. CASE Retryable(answer) /\ retries < RetryLimit
  BY <1>1, <1>2, <1>4, ArmType DEF RetryAfter
<1>5. CASE Retryable(answer) /\ retries >= RetryLimit
  BY <1>1, <1>2, <1>5, ArmType DEF RetryAfter
<1> QED
  BY <1>2, <1>3, <1>4, <1>5

-----------------------------------------------------------------------------
(* Typing.                                                                 *)

LEMMA TypeInit == Init => TypeOK
<1> SUFFICES ASSUME Init PROVE TypeOK
  OBVIOUS
<1>1. NoRoute \in Route
  BY RouteFacts
<1>2. Unasked \in [Id -> Answer \cup {"unlisted", "unasked"}]
  BY DEF Unasked
<1>3. owed \in Route
  BY <1>1 DEF Init
<1>4. /\ 0 \in 0..RetryLimit /\ 0 \in 0..MaxEdits
      /\ 0 \in 0..MaxFaults /\ 0 \in 0..MaxLives
  BY RefreshAssumption
<1> QED
  BY <1>1, <1>2, <1>3, <1>4 DEF Init, TypeOK

LEMMA TypeStep == TypeOK /\ [Next]_vars => TypeOK'
<1> SUFFICES ASSUME TypeOK, [Next]_vars PROVE TypeOK'
  OBVIOUS
<1>0. NoRoute \in Route
  BY RouteFacts
<1>1. CASE Boot
  <2>1. Seeded(default) \in Route
    BY SeededType DEF TypeOK
  <2>2. lives' \in 0..MaxLives
    BY <1>1, RefreshAssumption DEF Boot, TypeOK
  <2> QED
    BY <1>1, <2>1, <2>2 DEF Boot, TypeOK, timers, history
<1>2. CASE Tick \/ Request
  BY <1>2 DEF Tick, Request, Asked, TypeOK, disk, timers, history, bounds
<1>3. ASSUME NEW t \in Timer, Fire(t)
      PROVE  TypeOK'
  BY <1>3 DEF Fire, TypeOK, disk, history, bounds
<1>4. CASE ProbesAnswer
  <2>1. answer' \in [Id -> Answer \cup {"unlisted", "unasked"}]
    <3>1. answer' \in [Id -> Answer \cup {"unlisted"}]
      BY <1>4 DEF ProbesAnswer
    <3> QED
      BY <3>1
  <2> QED
    BY <1>4, <2>1 DEF ProbesAnswer, TypeOK, disk, timers, history, bounds
<1>5. CASE SaveCatalog
  <2>1. good' \subseteq Id /\ usable' \subseteq Id
    BY <1>5, RespondersType DEF SaveCatalog, Retained, TypeOK
  <2> QED
    BY <1>5, <2>1 DEF SaveCatalog, TypeOK, timers, bounds
<1>6. CASE ReadDocument
  BY <1>6 DEF ReadDocument, TypeOK, disk, timers, history, bounds
<1>7. CASE WriteProfile
  <2>1. default' \in Route
    <3>1. PICK r \in Desired(snapshot, answer) : default' = Merged(r, found)
      BY <1>7 DEF WriteProfile
    <3>2. r \in Route
      BY <3>1, DesiredType DEF TypeOK
    <3> QED
      BY <3>1, <3>2, MergedType DEF TypeOK
  <2>2. /\ armed' \subseteq Timer /\ handle' \in Timer \cup {NoTimer}
        /\ retries' \in 0..RetryLimit
    BY <1>7, RetriesType DEF WriteProfile
  <2>3. selectable' \subseteq Id
    BY <1>7, RespondersType DEF WriteProfile
  <2> QED
    BY <1>7, <1>0, <2>1, <2>2, <2>3 DEF WriteProfile, TypeOK, history, bounds
<1>8. CASE RefreshFails
  <2>1. armed' \subseteq Timer /\ handle' \in Timer \cup {NoTimer}
    BY <1>8, ScheduleType DEF RefreshFails
  <2>2. faults' \in 0..MaxFaults
    BY <1>8, RefreshAssumption DEF RefreshFails, TypeOK
  <2>3. good' \subseteq Id
    BY <1>8 DEF RefreshFails, TypeOK
  <2> QED
    BY <1>8, <1>0, <2>1, <2>2, <2>3 DEF RefreshFails, TypeOK, history
<1>9. CASE Quit
  BY <1>9 DEF Quit, TypeOK, disk, flight, history, bounds
<1>10. CASE ShellEnds
  <2>1. Unasked \in [Id -> Answer \cup {"unlisted", "unasked"}] /\ 0 \in 0..RetryLimit
    BY RefreshAssumption DEF Unasked
  <2>2. good' \subseteq Id
    BY <1>10 DEF ShellEnds, TypeOK
  <2> QED
    BY <1>10, <1>0, <2>1, <2>2 DEF ShellEnds, TypeOK, history, bounds
<1>11. ASSUME NEW r \in Route, UserChooses(r)
       PROVE  TypeOK'
  <2>1. edits' \in 0..MaxEdits
    BY <1>11, RefreshAssumption DEF UserChooses, TypeOK
  <2>2. owed' \in Route
    BY <1>11, <1>0 DEF UserChooses
  <2> QED
    BY <1>11, <2>1, <2>2 DEF UserChooses, TypeOK, timers, flight
<1>12. CASE UNCHANGED vars
  BY <1>12 DEF vars, disk, timers, flight, history, bounds, TypeOK
<1> QED
  BY <1>1, <1>2, <1>3, <1>4, <1>5, <1>6, <1>7, <1>8, <1>9, <1>10, <1>11, <1>12 DEF Next

(* Every variable keeps its type: the counter of short retries stays at    *)
(* its limit, and no timer is needed beyond those that are free.           *)
THEOREM TypeCorrect == Spec => []TypeOK
BY TypeInit, TypeStep, PTL DEF Spec

-----------------------------------------------------------------------------
(* A retry is due while the selector is behind.                            *)

HandleFires == handle # NoTimer => handle \in armed
SelectorInv == HandleFires /\ SelectorIsCurrent

LEMMA ArmFires ==
  ASSUME HandleFires, ArmTimer \/ KeepTimers
  PROVE  HandleFires'
BY DEF HandleFires, ArmTimer, KeepTimers

LEMMA ScheduleFires ==
  ASSUME HandleFires, ScheduleRetry
  PROVE  HandleFires' /\ armed' # {}
<1>1. CASE handle # NoTimer
  BY <1>1 DEF ScheduleRetry, HandleFires, KeepTimers
<1>2. CASE handle = NoTimer
  BY <1>2 DEF ScheduleRetry, HandleFires, ArmTimer
<1> QED
  BY <1>1, <1>2

LEMMA SelectorStep == SelectorInv /\ [Next]_vars => SelectorInv'
<1> SUFFICES ASSUME SelectorInv, [Next]_vars PROVE SelectorInv'
  OBVIOUS
<1> USE DEF SelectorInv
<1>1. CASE Boot
  BY <1>1 DEF Boot, HandleFires, SelectorIsCurrent, timers
<1>2. CASE Tick \/ Request
  BY <1>2 DEF Tick, Request, Asked, HandleFires, SelectorIsCurrent, timers
<1>3. ASSUME NEW t \in Timer, Fire(t)
      PROVE  SelectorInv'
  BY <1>3 DEF Fire, HandleFires, SelectorIsCurrent
<1>4. CASE ProbesAnswer \/ SaveCatalog \/ ReadDocument
  BY <1>4 DEF ProbesAnswer, SaveCatalog, ReadDocument, HandleFires, SelectorIsCurrent, timers
<1>5. CASE WriteProfile
  <2>1. HandleFires'
    BY <1>5, ArmFires DEF WriteProfile, RetryAfter
  <2>2. selectable' = Proven(answer)'
    BY <1>5 DEF WriteProfile, Proven, Responders
  <2> QED
    BY <2>1, <2>2 DEF SelectorIsCurrent
<1>6. CASE RefreshFails
  BY <1>6, ScheduleFires DEF RefreshFails, SelectorIsCurrent
<1>7. CASE Quit
  BY <1>7 DEF Quit, HandleFires, SelectorIsCurrent
<1>8. CASE ShellEnds
  BY <1>8 DEF ShellEnds, HandleFires, SelectorIsCurrent
<1>9. ASSUME NEW r \in Route, UserChooses(r)
      PROVE  SelectorInv'
  BY <1>9 DEF UserChooses, HandleFires, SelectorIsCurrent, timers, flight, Proven, Responders
<1>10. CASE UNCHANGED vars
  BY <1>10 DEF vars, disk, timers, flight, HandleFires, SelectorIsCurrent, Proven, Responders
<1> QED
  BY <1>1, <1>2, <1>3, <1>4, <1>5, <1>6, <1>7, <1>8, <1>9, <1>10 DEF Next

(* Between two refreshes the selector offers what the last probes proved,  *)
(* or another refresh is due: no retry timer is lost with its handle.      *)
THEOREM SelectorCatchesUp == Spec => []SelectorIsCurrent
<1>1. Init => SelectorInv
  BY DEF Init, SelectorInv, HandleFires, SelectorIsCurrent
<1> QED
  BY <1>1, SelectorStep, PTL DEF Spec, SelectorInv

-----------------------------------------------------------------------------
(* The last known good.                                                    *)

LEMMA GoodStep ==
  TypeOK /\ LastKnownGoodIsTrue /\ [Next]_vars => LastKnownGoodIsTrue'
<1> SUFFICES ASSUME TypeOK, LastKnownGoodIsTrue, [Next]_vars
             PROVE  LastKnownGoodIsTrue'
  OBVIOUS
<1> USE DEF LastKnownGoodIsTrue
<1>1. CASE SaveCatalog
  <2>1. \A m \in good : answer[m] = "transport" => m \in usable'
    BY <1>1 DEF SaveCatalog, Responses, Answer, Usable, Failure
  <2> QED
    BY <1>1, <2>1 DEF SaveCatalog, Retained
<1>2. CASE RefreshFails
  BY <1>2 DEF RefreshFails, history
<1>3. CASE ShellEnds
  BY <1>3 DEF ShellEnds, history
<1>4. CASE Boot \/ Tick \/ Request \/ ProbesAnswer \/ ReadDocument
  BY <1>4 DEF Boot, Tick, Request, Asked, ProbesAnswer, ReadDocument, disk, history
<1>5. CASE WriteProfile \/ Quit
  BY <1>5 DEF WriteProfile, Quit, disk, history
<1>6. ASSUME NEW t \in Timer, Fire(t)
      PROVE  LastKnownGoodIsTrue'
  BY <1>6 DEF Fire, disk, history
<1>7. ASSUME NEW r \in Route, UserChooses(r)
      PROVE  LastKnownGoodIsTrue'
  BY <1>7 DEF UserChooses
<1>8. CASE UNCHANGED vars
  BY <1>8 DEF vars, disk, history
<1> QED
  BY <1>1, <1>2, <1>3, <1>4, <1>5, <1>6, <1>7, <1>8 DEF Next

(* A model is called last known good only if it was usable when it last    *)
(* answered, through failed writes, torn files and restarts.               *)
THEOREM LastKnownGoodHolds == Spec => []LastKnownGoodIsTrue
<1>1. Init => LastKnownGoodIsTrue
  BY DEF Init, LastKnownGoodIsTrue
<1>2. TypeOK /\ LastKnownGoodIsTrue /\ [Next]_vars => TypeOK' /\ LastKnownGoodIsTrue'
  BY TypeStep, GoodStep
<1> QED
  BY <1>1, <1>2, TypeInit, PTL DEF Spec

-----------------------------------------------------------------------------
(* The choice of the user.                                                 *)

(* A snapshot r leads to nothing that would replace the choice c.          *)
Yields(r, c) == r = c \/ r.provider # c.provider

ChoiceInv ==
  owed # NoRoute =>
    /\ owed \in Foreign
    /\ default = owed
    /\ stage \in {"saved", "read"} => Yields(snapshot, owed)
    /\ stage = "read" => found = owed

LEMMA ChoiceMerged ==
  ASSUME NEW c \in Foreign, NEW s \in Route, NEW a, NEW r \in Desired(s, a), Yields(s, c)
  PROVE  Merged(r, c) = c
<1>1. c.provider # Phoenix /\ c.provider # "none"
  BY RouteFacts, RefreshAssumption
<1>2. r = s \/ r.provider = Phoenix
  BY DesiredProvider
<1>3. r = c \/ r.provider # c.provider
  BY <1>1, <1>2 DEF Yields
<1>4. CASE r = c
  BY <1>4, RouteFacts DEF Merged
<1>5. CASE r.provider # c.provider
  BY <1>1, <1>5, RouteFacts DEF Merged
<1> QED
  BY <1>3, <1>4, <1>5

LEMMA ChoiceStep == TypeOK /\ ChoiceInv /\ [Next]_vars => ChoiceInv'
<1> SUFFICES ASSUME TypeOK, ChoiceInv, [Next]_vars PROVE ChoiceInv'
  OBVIOUS
<1>1. CASE Boot
  <2>1. owed # NoRoute => Seeded(default) = default
    BY RouteFacts DEF ChoiceInv, Seeded
  <2> QED
    BY <1>1, <2>1 DEF Boot, ChoiceInv, history
<1>2. CASE Tick \/ Request \/ ProbesAnswer
  BY <1>2 DEF Tick, Request, Asked, ProbesAnswer, ChoiceInv, disk, history
<1>3. ASSUME NEW t \in Timer, Fire(t)
      PROVE  ChoiceInv'
  BY <1>3 DEF Fire, ChoiceInv, disk, history
<1>4. CASE SaveCatalog
  BY <1>4 DEF SaveCatalog, ChoiceInv, Yields
<1>5. CASE ReadDocument
  BY <1>5 DEF ReadDocument, ChoiceInv, disk, history
<1>6. CASE WriteProfile
  <2> SUFFICES ASSUME owed # NoRoute PROVE default' = owed /\ owed \in Foreign
    BY <1>6 DEF WriteProfile, ChoiceInv, history
  <2>1. owed \in Foreign /\ found = owed /\ Yields(snapshot, owed)
    BY <1>6 DEF WriteProfile, ChoiceInv
  <2>2. PICK r \in Desired(snapshot, answer) : default' = Merged(r, found)
    BY <1>6 DEF WriteProfile
  <2>3. snapshot \in Route
    BY DEF TypeOK
  <2> QED
    BY <2>1, <2>2, <2>3, ChoiceMerged
<1>7. CASE RefreshFails
  BY <1>7 DEF RefreshFails, ChoiceInv, history
<1>8. CASE Quit
  BY <1>8 DEF Quit, ChoiceInv, disk, flight, history
<1>9. CASE ShellEnds
  BY <1>9 DEF ShellEnds, ChoiceInv, history
<1>10. ASSUME NEW r \in Route, UserChooses(r)
       PROVE  ChoiceInv'
  BY <1>10 DEF UserChooses, ChoiceInv, Safe, Yields, flight
<1>11. CASE UNCHANGED vars
  BY <1>11 DEF vars, disk, flight, history, ChoiceInv
<1> QED
  BY <1>1, <1>2, <1>3, <1>4, <1>5, <1>6, <1>7, <1>8, <1>9, <1>10, <1>11 DEF Next

(* A choice of another provider that the user makes outside the two        *)
(* windows of Safe is never replaced by the shell.                         *)
THEOREM ChoiceStands == Spec => []UserChoiceStands
<1>1. Init => ChoiceInv
  BY RouteFacts DEF Init, ChoiceInv
<1>2. ChoiceInv => UserChoiceStands
  BY DEF ChoiceInv, UserChoiceStands
<1>3. TypeOK /\ ChoiceInv /\ [Next]_vars => TypeOK' /\ ChoiceInv'
  BY TypeStep, ChoiceStep
<1> QED
  BY <1>1, <1>2, <1>3, TypeInit, PTL DEF Spec

=============================================================================
