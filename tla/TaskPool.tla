------------------------------ MODULE TaskPool ------------------------------
(***************************************************************************)
(* What a pool of N threads promises of the tasks it is given, with no     *)
(* queue, thread or condition variable in sight: an accepted task waits,   *)
(* is executed once by one of the N threads, and is then done for good; a  *)
(* task that waits can only be taken away by discarding its queue.         *)
(***************************************************************************)
EXTENDS Integers, FiniteSets

CONSTANTS Tasks, N

VARIABLES pending, running, done, dropped

vars == <<pending, running, done, dropped>>

Init == pending = {} /\ running = {} /\ done = {} /\ dropped = {}

Submit(t) ==
  /\ t \notin pending \cup running \cup done \cup dropped
  /\ pending' = pending \cup {t}
  /\ UNCHANGED <<running, done, dropped>>

Start(t) ==
  /\ t \in pending
  /\ Cardinality(running) < N
  /\ pending' = pending \ {t}
  /\ running' = running \cup {t}
  /\ UNCHANGED <<done, dropped>>

Finish(t) ==
  /\ t \in running
  /\ running' = running \ {t}
  /\ done' = done \cup {t}
  /\ UNCHANGED <<pending, dropped>>

Discard(S) ==
  /\ S \subseteq pending
  /\ pending' = pending \ S
  /\ dropped' = dropped \cup S
  /\ UNCHANGED <<running, done>>

Next == (\E t \in Tasks : Submit(t) \/ Start(t) \/ Finish(t))
        \/ (\E S \in SUBSET Tasks : Discard(S))

Spec == Init /\ [][Next]_vars
=============================================================================
