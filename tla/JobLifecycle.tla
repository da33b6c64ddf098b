---------------------------- MODULE JobLifecycle ----------------------------
(***************************************************************************)
(* What the ingestion path promises about one memory job, whatever the     *)
(* number of workers, deliveries, crashes and failed calls: the client is  *)
(* told "queued" only for a job the stream holds, a stored job stays until *)
(* a run of it has ended, and the way the message is settled (acked or     *)
(* terminated) is the verdict of such a run.                               *)
(*                                                                         *)
(* This is the abstract specification; module MemoryAgent implements it    *)
(* with workers, inboxes, redelivery and process crashes.                  *)
(***************************************************************************)
CONSTANT Jobs     \* add_memory requests, one MemoryInsertionJob each

VARIABLES
  http,      \* http[j]: what the client of request j has seen
  stream,    \* stream[j]: the message of job j in the MEMORY_SYSTEM stream
  finished   \* finished[j]: the verdicts of the runs of j that have ended

vars == <<http, stream, finished>>

HttpStates == {"unsent", "publishing", "ok", "error", "cut"}
StreamStates == {"absent", "pending", "acked", "termed"}
Verdicts == {"ack", "term"}

\* The state a message is left in by each verdict.
SettledAs(v) == IF v = "ack" THEN "acked" ELSE "termed"

Init ==
  /\ http = [j \in Jobs |-> "unsent"]
  /\ stream = [j \in Jobs |-> "absent"]
  /\ finished = [j \in Jobs |-> {}]

\* The handler of request j has reached the publish call.
Request(j) ==
  /\ http[j] = "unsent"
  /\ http' = [http EXCEPT ![j] = "publishing"]
  /\ UNCHANGED <<stream, finished>>

\* The stream takes the message, perhaps after the handler has given up.
Store(j) ==
  /\ http[j] \in {"publishing", "error", "cut"}
  /\ stream[j] = "absent"
  /\ stream' = [stream EXCEPT ![j] = "pending"]
  /\ UNCHANGED <<http, finished>>

\* "Memory Insertion Job has been queued": only for a job that is stored.
AnswerOk(j) ==
  /\ http[j] = "publishing"
  /\ stream[j] # "absent"
  /\ http' = [http EXCEPT ![j] = "ok"]
  /\ UNCHANGED <<stream, finished>>

AnswerError(j) ==
  /\ http[j] = "publishing"
  /\ http' = [http EXCEPT ![j] = "error"]
  /\ UNCHANGED <<stream, finished>>

\* The process dies: every open request is cut, the stream is untouched.
Cut ==
  /\ http' = [j \in Jobs |-> IF http[j] = "publishing" THEN "cut" ELSE http[j]]
  /\ UNCHANGED <<stream, finished>>

\* A run of a stored job ends with verdict v; runs may end after the message
\* is settled, since it may have been delivered more than once.
RunEnds(j, v) ==
  /\ stream[j] # "absent"
  /\ finished' = [finished EXCEPT ![j] = @ \union {v}]
  /\ UNCHANGED <<http, stream>>

\* The message is settled, once, by the verdict of a run that has ended.
Settle(j, v) ==
  /\ stream[j] = "pending"
  /\ v \in finished[j]
  /\ stream' = [stream EXCEPT ![j] = SettledAs(v)]
  /\ UNCHANGED <<http, finished>>

Next ==
  \/ Cut
  \/ \E j \in Jobs :
       \/ Request(j) \/ Store(j) \/ AnswerOk(j) \/ AnswerError(j)
       \/ \E v \in Verdicts : RunEnds(j, v) \/ Settle(j, v)

Spec == Init /\ [][Next]_vars
-----------------------------------------------------------------------------
TypeOK ==
  /\ http \in [Jobs -> HttpStates]
  /\ stream \in [Jobs -> StreamStates]
  /\ finished \in [Jobs -> SUBSET Verdicts]

\* What a client that was told "queued" may rely on.
JobIsSafe ==
  \A j \in Jobs : /\ http[j] = "ok" => stream[j] # "absent"
                  /\ \A v \in Verdicts : stream[j] = SettledAs(v) => v \in finished[j]
=============================================================================
