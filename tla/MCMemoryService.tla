-------------------------- MODULE MCMemoryService --------------------------
(* Small instances of MemoryService. *)
EXTENDS MemoryService, TLC

CONSTANTS j1, j2, u1, u2, r1, r2, t1

\* One user, whose jobs and requests all concern the same memories.
OneUser == [j \in Jobs |-> u1]
OneClient == [r \in Requests |-> u1]

\* Each job has its own user; the client is the first.
OwnUser == [j \in Jobs |-> IF j = j1 THEN u1 ELSE u2]

\* GET /get_all beside POST /delete_memory.
AllAndDelete == [r \in Requests |-> IF r = r1 THEN "all" ELSE "delete"]

\* POST /get_memory.
Searches == [r \in Requests |-> "search"]

\* A search finds the memories with one of the texts.
MatchOne == [r \in Requests |-> {t1}]
=============================================================================
