--------------------------- MODULE MCMemoryAgent ---------------------------
(* Small instances of MemoryAgent. *)
EXTENDS MemoryAgent, TLC

CONSTANTS j1, j2, u1, u2

\* Two jobs of one user: runs contend for the same core list.
SameUser == [j \in Jobs |-> u1]

WorkerSymmetry == Permutations(Workers)
=============================================================================
