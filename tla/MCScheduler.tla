---------------------------- MODULE MCScheduler ----------------------------
(***************************************************************************)
(* TLC's instance of Scheduler.                                            *)
(***************************************************************************)
EXTENDS Scheduler

(* Task ids are interchangeable, and what the two algorithms return does not *)
(* depend on the order in which they visit the children of a task.           *)
Symmetry == Permutations(Ids)
=============================================================================
