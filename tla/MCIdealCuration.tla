-------------------------- MODULE MCIdealCuration --------------------------
(* Small instances of IdealCuration, one user. *)
EXTENDS IdealCuration, TLC

CONSTANTS j1, j2, j3, u1, t1, t2, t3, home, work

OneUser == [j \in Jobs |-> u1]

\* j2 contradicts j1; j3, where there is one, is about something else.
Facts == [j \in Jobs |-> CASE j = j1 -> t1 [] j = j2 -> t2 [] OTHER -> t3]

\* j2 is about something else.
OtherFacts == [j \in Jobs |-> IF j = j1 THEN t1 ELSE t3]

TopicOf == [t \in Texts |-> IF t = t3 THEN work ELSE home]

WorkerSymmetry == Permutations(Workers)
=============================================================================
