------------------------ MODULE MCHarnessSupervisor ------------------------
(***************************************************************************)
(* Model checking of HarnessSupervisor: the history variables some         *)
(* questions need.                                                         *)
(***************************************************************************)
EXTENDS HarnessSupervisor

VARIABLES
  recent,   \* the ages, below RestartWindow, of the respawns scheduled
  fruitless \* respawns since the last ready instance or lifecycle call

histories == <<recent, fruitless>>

-----------------------------------------------------------------------------
(* History.                                                                *)

ScheduledRespawn == \E t \in timers' : \A u \in timers : t.gen # u.gen

(* The ages are kept with the generation that asked, as a set of pairs.    *)
RecentNext ==
  recent' =
    LET aged == {[gen |-> r.gen, age |-> r.age + 1] : r \in recent}
    IN  IF Tick THEN {r \in aged : r.age < RestartWindow}
        ELSE IF ScheduledRespawn THEN recent \cup {[gen |-> generation, age |-> 0]}
        ELSE recent

FruitlessNext ==
  fruitless' =
    CASE status' = "ready" \/ Lifecycle -> 0
      [] ScheduledRespawn               -> fruitless + 1
      [] OTHER                          -> fruitless

HInit == Init /\ recent = {} /\ fruitless = 0
HNext == Next /\ RecentNext /\ FruitlessNext
HSpec == HInit /\ [][HNext]_<<vars, histories>>

(* "Max respawns per 60s window": no window of RestartWindow ticks holds   *)
(* more respawns than the budget, although the counter is reset rather     *)
(* than slid.                                                              *)
RespawnRate == Cardinality(recent) <= RestartBudget

(* ROADMAP-0.7.0, "Bound boot retries": a dsh that never becomes ready is  *)
(* respawned at most RestartBudget times before it is reported.            *)
BoundedBoot == fruitless <= RestartBudget

(* ROADMAP-0.7.0, "Old-generation events must be no-ops": the instance the *)
(* shell is told about is the child it has.                                *)
ReadyIsOwn == status = "ready" => url.of = proc
=============================================================================
