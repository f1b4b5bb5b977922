--------------------------- MODULE MCKernelRuntime ---------------------------
(***************************************************************************)
(* Small plans on which TLC explores KernelRuntime.                        *)
(***************************************************************************)
EXTENDS KernelRuntime, TLC

CONSTANTS a, b, c, d, e

FiveTasks == {a, b, c, d, e}

(* Two roots, a join behind both, a branch behind one, and a task behind    *)
(* join and branch: ready lists of two, and cascades of depth two.          *)
Lattice == (a :> {}) @@ (b :> {}) @@ (c :> {a, b}) @@ (d :> {b}) @@ (e :> {c, d})
LatticeRank == (a :> 2) @@ (b :> 1) @@ (c :> 4) @@ (d :> 3) @@ (e :> 5)
=============================================================================
