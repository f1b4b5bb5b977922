----------------------------- MODULE MCLearning -----------------------------
(***************************************************************************)
(* Instance: one capability of each type, research needing approval, and   *)
(* three objectives: a goal; the same goal twice, with a question and a    *)
(* constraint; and a goal that refers to something, which is gathered      *)
(* first.                                                                  *)
(***************************************************************************)
EXTENDS Learning

MCTypeOf == [c \in Caps |->
    CASE c = "research" -> "research" [] c = "verify" -> "verify" [] OTHER -> "code"]

MCPermissions == [c \in Caps |-> IF c = "research" THEN {"net"} ELSE {}]

Goal == [words |-> {}, short |-> TRUE, trivial |-> FALSE, limits |-> {}]
Clause(ask, head, goals) ==
    [ask |-> ask, head |-> head, text |-> head, goals |-> goals, soThat |-> {}]

Fix == [clauses |-> << Clause(FALSE, "goals", <<Goal>>) >>, refs |-> {}]
Insist == [clauses |-> << Clause(FALSE, "goals", <<Goal>>), Clause(TRUE, "goals", <<>>),
                          Clause(FALSE, "constraint", <<>>), Clause(FALSE, "goals", <<Goal>>) >>,
           refs |-> {}]
Survey == [clauses |-> << Clause(FALSE, "goals", <<Goal>>) >>, refs |-> {"paper"}]

MCObjectives == {Fix, Insist, Survey}
=============================================================================
