----------------------------- MODULE MCPlugins -----------------------------
(***************************************************************************)
(* Two plugins, one of them in two versions, and a host capability.        *)
(***************************************************************************)
EXTENDS Plugins

CONSTANTS calc, stats, docs, extra, x, y

Calc1 == <<calc, "1">>
Calc2 == <<calc, "2">>
Stats == <<stats, "1">>
Docs == <<docs, "1">>
Extra == <<extra, "1">>
AllIds == {Calc1, Calc2, Stats, Docs, Extra}

(* Both plugins provide calc.  The update of x swaps one version of calc    *)
(* and keeps an id that the host may have taken; the update of y gives calc *)
(* up and asks for an id that the registry refuses.                         *)
XOne == [name |-> x, version |-> "1", caps |-> <<Calc1, Docs>>]
XTwo == [name |-> x, version |-> "2", caps |-> <<Calc2, Docs>>]
YOne == [name |-> y, version |-> "1", caps |-> <<Calc1, Stats>>]
YTwo == [name |-> y, version |-> "2", caps |-> <<Stats, Extra>>]
AllPackages == {XOne, XTwo, YOne, YTwo}
HostIds == {Docs}
RefusedIds == {Extra}

CONSTANTS s, t
MathAndDocs == [u \in {s, t} |-> IF u = s THEN {Calc1, Calc2} ELSE {Docs}]
=============================================================================
