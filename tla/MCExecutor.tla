----------------------------- MODULE MCExecutor -----------------------------
(***************************************************************************)
(* Small plans on which TLC explores Executor.                             *)
(***************************************************************************)
EXTENDS Executor, TLC

CONSTANTS a, b, c, d

ThreeTasks == {a, b, c}
FourTasks  == {a, b, c, d}

(* Two roots, a task behind one of them and a join behind everything: the   *)
(* cascade from a is two levels deep, the join can be blocked from two      *)
(* sides, and c may run while d is already blocked.                         *)
Kite == (a :> {}) @@ (b :> {}) @@ (c :> {a}) @@ (d :> {b, c})
KiteRank == (a :> 2) @@ (b :> 1) @@ (c :> 3) @@ (d :> 4)

(* Two roots and a join, for the runs with three launches or with fairness. *)
Join == (a :> {}) @@ (b :> {}) @@ (c :> {a, b})
JoinRank == (a :> 2) @@ (b :> 1) @@ (c :> 3)
=============================================================================
