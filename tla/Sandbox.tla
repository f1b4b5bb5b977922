------------------------------ MODULE Sandbox ------------------------------
(***************************************************************************)
(* run_sandboxed (nexus.sandbox), called by several threads of one process *)
(* at a time.  A call opens a pipe, forks a child that runs the function   *)
(* and sends what came of it, and waits; only when the child has ended     *)
(* does it read the pipe.  A child holds the write end of its own pipe and *)
(* of every pipe that was being set up when it was forked; a pipe reports  *)
(* its end when nobody holds its write end.                                *)
(***************************************************************************)
EXTENDS Naturals

CONSTANTS Calls   \* calls of run_sandboxed, each by a thread of its own

Main == "main"    \* the process that makes the calls
ASSUME SandboxAssumption == Main \notin Calls

Outcomes == {"ok", "memory", "error"}

VARIABLES
    parent,   \* call -> where run_sandboxed is
    child,    \* call -> its child: none, running, sending, stuck, sent, exited
    exit,     \* call -> how the child ended: a status or a signal
    pipe,     \* call -> empty, part of a message, or a whole one: its tag
    writers,  \* call -> the processes that hold the write end of its pipe
    outcome,  \* call -> what came of the function, none while it runs
    verdict   \* call -> SandboxResult.reason; raised: no result

vars == <<parent, child, exit, pipe, writers, outcome, verdict>>

Each(v) == [c \in Calls |-> v]

Init ==
    /\ parent = Each("new") /\ child = Each("none") /\ exit = Each("none")
    /\ pipe = Each("empty") /\ writers = Each({})
    /\ outcome = Each("none") /\ verdict = Each("none")

Alive(c) == child[c] \notin {"none", "exited"}
AtEnd(c) == writers[c] = {}

-----------------------------------------------------------------------------
(* The child. *)

(* What a process holds is closed when it ends.                             *)
Ends(c, how) ==
    /\ child' = [child EXCEPT ![c] = "exited"]
    /\ exit' = [exit EXCEPT ![c] = how]
    /\ writers' = [d \in Calls |-> writers[d] \ {c}]

(* The function returned, raised, or ran out of memory; a value that cannot *)
(* be pickled is an error too.                                              *)
Finish(c) ==
    /\ child[c] = "running"
    /\ \E o \in Outcomes : outcome' = [outcome EXCEPT ![c] = o]
    /\ child' = [child EXCEPT ![c] = "sending"]
    /\ UNCHANGED <<parent, exit, pipe, writers, verdict>>

(* A message the pipe has room for is there at once.                        *)
SendSmall(c) ==
    /\ child[c] = "sending"
    /\ pipe' = [pipe EXCEPT ![c] = outcome[c]]
    /\ child' = [child EXCEPT ![c] = "sent"]
    /\ UNCHANGED <<parent, exit, writers, outcome, verdict>>

Exit(c) ==
    /\ child[c] = "sent" /\ Ends(c, "status")
    /\ UNCHANGED <<parent, pipe, outcome, verdict>>

(* A larger one fills it, and the child waits for a reader.                 *)
SendLarge(c) ==
    /\ child[c] = "sending"
    /\ pipe' = [pipe EXCEPT ![c] = "part"]
    /\ child' = [child EXCEPT ![c] = "stuck"]
    /\ UNCHANGED <<parent, exit, writers, outcome, verdict>>

(* The function leaves with SystemExit or os._exit; a limit or a crash kills*)
(* the child while it runs; and the system may kill it whenever it lives.   *)
Dies(c) ==
    /\ \/ child[c] = "running" /\ \E how \in {"status", "SIGXCPU", "other"} : Ends(c, how)
       \/ Alive(c) /\ Ends(c, "SIGKILL")
    /\ UNCHANGED <<parent, pipe, outcome, verdict>>

(* A child may ignore SIGTERM, not SIGKILL.                                 *)
DiesOfTerminate(c) ==
    /\ parent[c] \in {"terminated", "killed"} /\ Alive(c)
    /\ Ends(c, "SIGTERM")
    /\ UNCHANGED <<parent, pipe, outcome, verdict>>

DiesOfKill(c) ==
    /\ parent[c] \in {"killed", "expired"} /\ Alive(c)
    /\ Ends(c, "SIGKILL")
    /\ UNCHANGED <<parent, pipe, outcome, verdict>>

-----------------------------------------------------------------------------
(* The parent. *)

Goto(c, where) == parent' = [parent EXCEPT ![c] = where]
Decide(c, reason) == verdict' = [verdict EXCEPT ![c] = reason]

Open(c) ==
    /\ parent[c] = "new" /\ Goto(c, "open")
    /\ writers' = [writers EXCEPT ![c] = {Main}]
    /\ UNCHANGED <<child, exit, pipe, outcome, verdict>>

Fork(c) ==
    /\ parent[c] = "open" /\ Goto(c, "forked")
    /\ child' = [child EXCEPT ![c] = "running"]
    /\ writers' = [d \in Calls |-> writers[d] \cup IF Main \in writers[d] THEN {c} ELSE {}]
    /\ UNCHANGED <<exit, pipe, outcome, verdict>>

(* Fault: the parent keeps the write end. *)
KeepOwnEnd(c) ==
    /\ parent[c] = "forked" /\ Goto(c, "joining")
    /\ UNCHANGED <<child, exit, pipe, writers, outcome, verdict>>

CloseOwnEnd(c) ==
    /\ parent[c] = "forked" /\ Goto(c, "joining")
    /\ writers' = [writers EXCEPT ![c] = @ \ {Main}]
    /\ UNCHANGED <<child, exit, pipe, outcome, verdict>>

Join(c) ==
    /\ parent[c] = "joining" /\ child[c] = "exited" /\ Goto(c, "ended")
    /\ UNCHANGED <<child, exit, pipe, writers, outcome, verdict>>

(* The wall clock runs out, and the child is found alive.                   *)
JoinExpires(c) ==
    /\ parent[c] = "joining" /\ Alive(c) /\ Goto(c, "terminated")
    /\ UNCHANGED <<child, exit, pipe, writers, outcome, verdict>>

(* Fault: SIGTERM is thought to be enough. *)
GiveUp(c) == Goto(c, "left") /\ Decide(c, "timeout")

Kill(c) == Goto(c, "killed") /\ UNCHANGED verdict

(* The half second after terminate is over, or the child ended within it.   *)
AfterTerminate(c) ==
    /\ parent[c] = "terminated"
    /\ \/ Alive(c) /\ Kill(c)
       \/ child[c] = "exited" /\ Goto(c, "expired") /\ Decide(c, "timeout")
    /\ UNCHANGED <<child, exit, pipe, writers, outcome>>

(* The half second after kill is over; the child may not be gone yet.       *)
AfterKill(c) ==
    /\ parent[c] = "killed" /\ Goto(c, "expired") /\ Decide(c, "timeout")
    /\ UNCHANGED <<child, exit, pipe, writers, outcome>>

(* How a child ended tells why it sent nothing.                             *)
ByExit(c) == IF exit[c] \in {"SIGXCPU", "SIGKILL"} THEN "cpu" ELSE "crash"

(* Fault: of a child that was killed the pipe is not read. *)
ExitFirst(c) == IF exit[c] # "status" \/ pipe[c] = "empty" THEN ByExit(c) ELSE pipe[c]

(* poll() and recv(): nothing there, or the end of the pipe; else a message.*)
Classify(c) == IF pipe[c] = "empty" THEN ByExit(c) ELSE pipe[c]

Read(c) ==
    /\ parent[c] = "ended" /\ pipe[c] # "part"
    /\ Decide(c, Classify(c)) /\ Goto(c, "done")
    /\ UNCHANGED <<child, exit, pipe, writers, outcome>>

(* Of a message of which only a part is there, recv waits for the rest, and *)
(* raises OSError, which nobody catches, when the pipe ends instead.        *)
ReadPart(c) ==
    /\ parent[c] = "ended" /\ pipe[c] = "part" /\ AtEnd(c)
    /\ Decide(c, "raised") /\ Goto(c, "done")
    /\ UNCHANGED <<child, exit, pipe, writers, outcome>>

-----------------------------------------------------------------------------

Parent(c) ==
    \/ Open(c) \/ Fork(c) \/ CloseOwnEnd(c) \/ Join(c) \/ JoinExpires(c)
    \/ AfterTerminate(c) \/ AfterKill(c) \/ Read(c) \/ ReadPart(c)
Child(c) ==
    \/ Finish(c) \/ SendSmall(c) \/ SendLarge(c) \/ Exit(c) \/ Dies(c)
    \/ DiesOfTerminate(c) \/ DiesOfKill(c)

Next == \E c \in Calls : Parent(c) \/ Child(c)

(* The threads of the parent run and its timeouts expire; SIGKILL ends a    *)
(* process.  Nothing else is expected of a child.                           *)
Fairness == \A c \in Calls : WF_vars(Parent(c)) /\ WF_vars(DiesOfKill(c))

Spec == Init /\ [][Next]_vars /\ Fairness

-----------------------------------------------------------------------------
(* Properties. *)

(* A call says ok, error or memory only of a function that came to that,    *)
(* and calls a child crashed or killed only if it had not sent its message  *)
(* (sandbox.py:101-124).                                                    *)
VerdictIsTrue ==
    \A c \in Calls :
        /\ verdict[c] \in Outcomes => outcome[c] = verdict[c]
        /\ verdict[c] \in {"cpu", "crash"} => pipe[c] \notin Outcomes

(* Every call returns or raises, whatever the children do: also one that    *)
(* waits in recv for a pipe that another call's child holds open            *)
(* (sandbox.py:91-107).                                                     *)
EveryCallReturns == \A c \in Calls : parent[c] # "new" ~> verdict[c] # "none"

(* No child outlives its call for good (sandbox.py:92-99).                  *)
NoChildOutlives == \A c \in Calls : verdict[c] # "none" ~> ~Alive(c)

(* What the documentation says of a timeout: the parent kills a child that  *)
(* overruns, so one that is killed had not finished its work.  A child that *)
(* finished, but waits for its message to be read, is killed as well        *)
(* (sandbox.py:62, 91-99).                                                  *)
TimeoutMeansOverrun == [][\A c \in Calls : JoinExpires(c) => child[c] # "stuck"]_vars
=============================================================================
