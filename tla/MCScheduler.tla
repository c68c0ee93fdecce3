----------------------------- MODULE MCScheduler -----------------------------
(* Finite instances of Scheduler: one task, MM and FS, and two or three     *)
(* slots for users; INIT is in the first of them.                          *)
EXTENDS Scheduler
=============================================================================
