----------------------------- MODULE Debouncer -----------------------------
(***************************************************************************)
(* sync/watcher.py: Debouncer, which turns a burst of file events into one *)
(* call of flush.  Every bump replaces the timer by a new one; a timer     *)
(* thread that has left its wait can no longer be cancelled, and timers of *)
(* different bumps may be in flush at the same time.  The critical         *)
(* sections of _lock are single steps.  What flush does between EnterFire  *)
(* and Flushed is up to the user of this module.                           *)
(***************************************************************************)
EXTENDS Naturals

CONSTANT MaxTimer   \* bound: timers created

VARIABLES
  timer,   \* timer[i]: none, armed, fired (past its wait), flushing, done
  dirty    \* _dirty

Timer == 1 .. MaxTimer

TypeOK ==
  /\ timer \in [Timer -> {"none", "armed", "fired", "flushing", "done"}]
  /\ dirty \in BOOLEAN

Init ==
  /\ timer = [i \in Timer |-> "none"]
  /\ dirty = FALSE

(* Only a timer that still waits can be cancelled. *)
Cancelled == [i \in Timer |-> IF timer[i] = "armed" THEN "done" ELSE timer[i]]

(* The next timer to create. *)
Fresh(i) ==
  /\ timer[i] = "none"
  /\ \A j \in Timer : j < i => timer[j] # "none"

(* Mutant: a timer is started only if there is none; _fire leaves it set. *)
bump_OneTimer ==
  /\ timer' = IF \A i \in Timer : timer[i] = "none"
              THEN [timer EXCEPT ![1] = "armed"] ELSE timer
  /\ dirty' = TRUE

bump ==
  \E i \in Timer :
    /\ Fresh(i)
    /\ timer' = [Cancelled EXCEPT ![i] = "armed"]
    /\ dirty' = TRUE

(* The window passes without another bump. *)
Elapse(i) ==
  /\ timer[i] = "armed"
  /\ timer' = [timer EXCEPT ![i] = "fired"]
  /\ UNCHANGED dirty

(* _fire up to flush: only one of the timers of a burst finds _dirty. *)
EnterFire(i) ==
  /\ timer[i] = "fired"
  /\ timer' = [timer EXCEPT ![i] = IF dirty THEN "flushing" ELSE "done"]
  /\ dirty' = FALSE

Flushed(i) ==
  /\ timer[i] = "flushing"
  /\ timer' = [timer EXCEPT ![i] = "done"]
  /\ UNCHANGED dirty
=============================================================================
