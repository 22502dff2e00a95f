-------------------------------- MODULE TaskPool --------------------------------
(***************************************************************************)
(* What callers of a ProducerConsumerQueue rely on, without threads, locks *)
(* or wake-ups: a submitted task waits, is started by a free worker at     *)
(* most once, finishes, or is thrown away while it still waits by a        *)
(* cancel.  No more tasks than Width run at once.                          *)
(***************************************************************************)
EXTENDS Naturals, FiniteSets

CONSTANTS Tasks,  \* the tasks that may be submitted
          Width   \* the number of workers of the pool

VARIABLES pending,   \* submitted, not started
          active,    \* started, not finished
          finished,  \* run to their end
          discarded  \* thrown away by a cancel, never started

vars == <<pending, active, finished, discarded>>

Known == pending \cup active \cup finished \cup discarded

Init ==
  /\ pending   = {}
  /\ active    = {}
  /\ finished  = {}
  /\ discarded = {}

Submit(t) ==
  /\ t \notin Known
  /\ pending' = pending \cup {t}
  /\ UNCHANGED <<active, finished, discarded>>

Start(t) ==
  /\ t \in pending
  /\ Cardinality(active) < Width
  /\ pending' = pending \ {t}
  /\ active'  = active \cup {t}
  /\ UNCHANGED <<finished, discarded>>

Finish(t) ==
  /\ t \in active
  /\ active'   = active \ {t}
  /\ finished' = finished \cup {t}
  /\ UNCHANGED <<pending, discarded>>

Discard ==
  /\ discarded' = discarded \cup pending
  /\ pending'   = {}
  /\ UNCHANGED <<active, finished>>

Next ==
  \/ \E t \in Tasks : Submit(t) \/ Start(t) \/ Finish(t)
  \/ Discard

Spec == Init /\ [][Next]_vars
=================================================================================
