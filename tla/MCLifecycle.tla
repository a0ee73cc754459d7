---------------------------- MODULE MCLifecycle -----------------------------
(* Values for the constants of Lifecycle: the thread counts around the     *)
(* clamp of saurion_create, and a machine with one core.                   *)
EXTENDS Lifecycle

SomeAsked == {0, 1, 2, 3}
SomeCores == {1, 3}
Faults    == {"create", "eventfd", "socket", "start"}
=============================================================================
