--------------------------- MODULE IngestionQueue ---------------------------
(***************************************************************************)
(* The path of a memory job from POST /add_memory to a worker goroutine:   *)
(* the HTTP handler and its publish call (api.go, memory.go), the          *)
(* JetStream stream and its durable consumer "workers" (external, modelled *)
(* from how memory.go and main.go use them), and the life of the server    *)
(* process that holds both the handlers and the workers (main.go).         *)
(*                                                                         *)
(* The module has no next-state relation of its own: MemoryAgent composes  *)
(* these actions with the run of a job in a worker.                        *)
(***************************************************************************)
EXTENDS Naturals, Sequences

CONSTANTS
  Jobs,        \* add_memory requests; each becomes one MemoryInsertionJob
  Workers,     \* the goroutines started by NewMemoryAgent (2 in main.go)
  MaxFaults,   \* bound: failing calls, lost answers and deadlines in all
  MaxCrashes,  \* bound: crashes of the server process
  MaxExpiries  \* bound: AckWait expiries of a job that is still being worked on

ASSUME BoundsAssumption ==
  /\ MaxFaults \in Nat
  /\ MaxCrashes \in Nat
  /\ MaxExpiries \in Nat

VARIABLES
  http,      \* http[j]: the add_memory request
  stream,    \* stream[j]: its message in the stream
  due,       \* due[j]: the consumer will send (or send again) the message
  up,        \* the server process runs
  sub,       \* sub[w]: the queue subscription of worker w
  inbox,     \* inbox[w]: messages delivered to w and not yet handled
  faults, crashes, expiries

queueVars == <<http, stream, due, up, sub, inbox>>
budgetVars == <<faults, crashes, expiries>>

QueueTypeOK ==
  /\ http \in [Jobs -> {"unsent", "publishing", "ok", "error", "cut"}]
  /\ stream \in [Jobs -> {"absent", "pending", "acked", "termed"}]
  /\ due \in [Jobs -> BOOLEAN]
  /\ up \in BOOLEAN
  /\ sub \in [Workers -> {"none", "live", "failed"}]
  /\ inbox \in [Workers -> Seq(Jobs)]
  /\ faults \in 0..MaxFaults
  /\ crashes \in 0..MaxCrashes
  /\ expiries \in 0..MaxExpiries

QueueInit ==
  /\ http = [j \in Jobs |-> "unsent"]
  /\ stream = [j \in Jobs |-> "absent"]
  /\ due = [j \in Jobs |-> FALSE]
  /\ up = TRUE
  /\ sub = [w \in Workers |-> "none"]
  /\ inbox = [w \in Workers |-> <<>>]
  /\ faults = 0 /\ crashes = 0 /\ expiries = 0

\* A call that the network or a service makes fail, counted.
Fault == faults < MaxFaults /\ faults' = faults + 1
-----------------------------------------------------------------------------
(* The HTTP side.                                                          *)

\* InsertIntoMemory has decoded the body, given the job a request id and
\* called SumbitMemoryInsertionRequest, which publishes and waits for the
\* stream's acknowledgement. (A body that does not decode is answered 400 and
\* changes nothing. There is no message id: a client that tries again after
\* an error makes a new job.)
Submit(j) ==
  /\ up /\ http[j] = "unsent"
  /\ http' = [http EXCEPT ![j] = "publishing"]
  /\ UNCHANGED <<stream, due, up, sub, inbox, budgetVars>>

\* Sensitivity variant: the handler answers without waiting for the stream.
ReplyOkUnacknowledged(j) ==
  /\ up /\ http[j] = "publishing"
  /\ http' = [http EXCEPT ![j] = "ok"]
  /\ UNCHANGED <<stream, due, up, sub, inbox, budgetVars>>

\* Publish returned nil: 200 and the request id.
ReplyOk(j) ==
  /\ up /\ http[j] = "publishing" /\ stream[j] # "absent"
  /\ http' = [http EXCEPT ![j] = "ok"]
  /\ UNCHANGED <<stream, due, up, sub, inbox, budgetVars>>

\* Publish returned an error: 500. Nothing tells the client whether the
\* message was stored, or will still be.
ReplyError(j) ==
  /\ up /\ http[j] = "publishing"
  /\ Fault
  /\ http' = [http EXCEPT ![j] = "error"]
  /\ UNCHANGED <<stream, due, up, sub, inbox, crashes, expiries>>
-----------------------------------------------------------------------------
(* The stream and its consumer (external).                                 *)

\* The published message reaches the stream.
StreamStores(j) ==
  /\ http[j] \in {"publishing", "error", "cut"} /\ stream[j] = "absent"
  /\ stream' = [stream EXCEPT ![j] = "pending"]
  /\ due' = [due EXCEPT ![j] = TRUE]
  /\ UNCHANGED <<http, up, sub, inbox, budgetVars>>

\* Sensitivity variant: a delivered message stays due.
DeliverKeepingDue(j, w) ==
  /\ up /\ sub[w] = "live" /\ due[j]
  /\ inbox' = [inbox EXCEPT ![w] = Append(@, j)]
  /\ UNCHANGED <<http, stream, due, up, sub, budgetVars>>

\* The consumer pushes a message to one member of the queue group. The client
\* library buffers it until the callback is free, and AckWait already runs.
Deliver(j, w) ==
  /\ up /\ sub[w] = "live" /\ due[j]
  /\ inbox' = [inbox EXCEPT ![w] = Append(@, j)]
  /\ due' = [due EXCEPT ![j] = FALSE]
  /\ UNCHANGED <<http, stream, up, sub, budgetVars>>

\* AckWait (30 s, the library's default; a run may take longer than its 60 s
\* context) passes while the message is buffered or being worked on.
AckWaitExpires(j) ==
  /\ stream[j] = "pending" /\ ~due[j]
  /\ expiries < MaxExpiries /\ expiries' = expiries + 1
  /\ due' = [due EXCEPT ![j] = TRUE]
  /\ UNCHANGED <<http, stream, up, sub, inbox, faults, crashes>>

\* The stream's side of msg.Ack() and msg.Term(): the first settles the
\* message, later ones find it settled.
Settled(j, verdict) ==
  /\ stream' = IF stream[j] = "pending"
               THEN [stream EXCEPT ![j] = IF verdict = "ack" THEN "acked" ELSE "termed"]
               ELSE stream
  /\ due' = [due EXCEPT ![j] = FALSE]

\* The acknowledgement is lost on its way: the message will be sent again.
SettlementLost(j) ==
  /\ due' = [due EXCEPT ![j] = (stream[j] = "pending")]
  /\ UNCHANGED stream
-----------------------------------------------------------------------------
(* The server process.                                                     *)

\* MemoryWorker: QueueSubscribe binds worker w to the durable consumer.
Subscribe(w) ==
  /\ up /\ sub[w] = "none"
  /\ sub' = [sub EXCEPT ![w] = "live"]
  /\ UNCHANGED <<http, stream, due, up, inbox, budgetVars>>

\* QueueSubscribe fails; its error is dropped and the goroutine ends.
SubscribeFails(w) ==
  /\ up /\ sub[w] = "none"
  /\ Fault
  /\ sub' = [sub EXCEPT ![w] = "failed"]
  /\ UNCHANGED <<http, stream, due, up, inbox, crashes, expiries>>

\* What the death of the process does to the queue: open requests are cut,
\* buffered messages are gone, and every unsettled message will be sent again
\* when its AckWait has passed. The stream lives in the NATS server.
QueueCrash ==
  /\ up /\ up' = FALSE
  /\ crashes < MaxCrashes /\ crashes' = crashes + 1
  /\ http' = [j \in Jobs |-> IF http[j] = "publishing" THEN "cut" ELSE http[j]]
  /\ due' = [j \in Jobs |-> stream[j] = "pending"]
  /\ sub' = [w \in Workers |-> "none"]
  /\ inbox' = [w \in Workers |-> <<>>]
  /\ UNCHANGED <<stream, faults, expiries>>

\* main runs again: AddStream finds the stream, NewMemoryAgent starts workers.
Restart ==
  /\ ~up /\ up' = TRUE
  /\ UNCHANGED <<http, stream, due, sub, inbox, budgetVars>>
=============================================================================
