----------------------------- MODULE Supervision -----------------------------
(***************************************************************************)
(* What a supervisor of one child promises the shell, whatever its timers, *)
(* generations and locks: one child at a time, each launch after the end   *)
(* of the one before, and every death followed by a new launch or, with    *)
(* the budget spent, by giving up.                                         *)
(***************************************************************************)
EXTENDS Naturals

CONSTANT Budget   \* in Nat: deaths in a row that are answered with a new launch

VARIABLES
  phase,     \* what the shell sees
  tries,     \* deaths answered since the last calm
  launches   \* children launched so far

vars == <<phase, tries, launches>>

Phase == {"down", "booting", "ready", "backoff", "gaveUp"}

Init == phase = "down" /\ tries = 0 /\ launches = 0

(* A launch needs the previous child to be gone; it may not succeed.       *)
Launch ==
  /\ phase \in {"down", "backoff", "gaveUp"}
  /\ \/ phase' = "booting" /\ launches' = launches + 1
     \/ phase' = "gaveUp"  /\ UNCHANGED launches
  /\ UNCHANGED tries

Answer == phase = "booting" /\ phase' = "ready" /\ UNCHANGED <<tries, launches>>

(* After a calm the deaths are counted from zero.                          *)
Death ==
  /\ phase \in {"booting", "ready"}
  /\ \E spent \in {0, tries} :
       \/ spent < Budget  /\ phase' = "backoff" /\ tries' = spent + 1
       \/ spent >= Budget /\ phase' = "gaveUp"  /\ tries' = spent
  /\ UNCHANGED launches

Halt == phase' = "down" /\ UNCHANGED <<tries, launches>>

Next == Launch \/ Answer \/ Death \/ Halt

Spec == Init /\ [][Next]_vars
=============================================================================
