----------------------------- MODULE MemoryAgent -----------------------------
(***************************************************************************)
(* The write path of GoMemory: worker goroutines run InsertMemory on the   *)
(* jobs the queue delivers, several at a time, for any number of users.    *)
(* A run asks the LLM for a search query, reads the similar general        *)
(* memories (Qdrant) and the core memories (Redis), asks the LLM for an    *)
(* action plan, overwrites the core memories, and then deletes and inserts *)
(* general memories. Every call can fail, the job's context can expire,    *)
(* the process can crash between any two calls, and nothing locks a user.  *)
(*                                                                         *)
(* Each action is one call of InsertMemory together with the code up to    *)
(* the next call.                                                          *)
(***************************************************************************)
EXTENDS IngestionQueue, FiniteSets

CONSTANTS
  Users, UserOf,   \* UserOf[j]: the userId of job j
  Texts,           \* memory texts
  MaxActions,      \* bound: actions of one tier in one LLM answer
  MaxLag,          \* bound: writes Qdrant has accepted and not applied yet
  NoUuid,          \* the "" an unknown integer id is translated to
  Null,            \* a JSON field that is null or missing
  NoJob            \* an idle worker's job

ASSUME AgentAssumption ==
  /\ UserOf \in [Jobs -> Users]
  /\ NoJob \notin Jobs
  /\ MaxActions \in Nat
  /\ MaxLag \in Nat
  /\ Null \notin Texts

VARIABLES
  wk,        \* wk[w]: the run in progress in worker w, its local variables
  runs,      \* runs[j]: the number of runs of job j that were started
  core,      \* core[u]: the core memories under the user's Redis key
  points,    \* the general memories Qdrant shows
  backlog,   \* the writes Qdrant has accepted and not applied yet, in order
  finished   \* history: finished[j] is the set of verdicts of ended runs

agentVars == <<wk, runs, core, points, backlog, finished>>
vars == <<queueVars, budgetVars, agentVars>>
-----------------------------------------------------------------------------
(* Data.                                                                   *)

\* A core memory has a random UUID, here who made it: no two are the same.
CoreMem == [job : Jobs, n : Nat, text : Texts]

\* A general memory's UUID is a hash of its text and its user: inserting the
\* same text again overwrites the same point.
Point == [user : Users, text : Texts]

\* A write sent to Qdrant: points to delete, or points to upsert.
Write == [op : {"delete", "upsert"}, points : SUBSET Point]

\* No memory has the "" for an id.
ASSUME UuidAssumption == {NoUuid, Null} \intersect (CoreMem \union Point) = {}

\* One entry of the LLM's action lists after GenerateMemoryText has replaced
\* the integer ids. The fields a type does not use are dropped: the code only
\* logs them. Lists are sets: no step depends on the order of a list.
Inserts == [type : {"INSERT"}, payload : Texts \union {Null}]
Deletes(ids) == [type : {"DELETE"}, target : ids \union {NoUuid, Null}]
Action == Inserts \union Deletes(CoreMem \union Point)
Answer == [core : SUBSET Action, general : SUBSET Action]
NoAnswer == [core |-> {}, general |-> {}]

Payloads(acts) == {a.payload : a \in {b \in acts : b.type = "INSERT"}} \ {Null}
Targets(acts) == {a.target : a \in {b \in acts : b.type = "DELETE"}} \ {Null}

\* A general action whose pointer InsertMemory dereferences without a check.
Malformed(a) ==
  \E x \in a.general : \/ x.type = "INSERT" /\ x.payload = Null
                       \/ x.type = "DELETE" /\ x.target = Null

\* Sensitivity variants: the old memories are left out of the new list; the
\* deleted ones are kept in it.
NewCoreDroppingOld(old, a, j, n) ==
  {[job |-> j, n |-> n, text |-> t] : t \in Payloads(a.core)}
NewCoreKeepingDeleted(old, a, j, n) ==
  old \union {[job |-> j, n |-> n, text |-> t] : t \in Payloads(a.core)}

\* The list run n of job j writes back: the old memories that are not deleted,
\* then the inserted ones. Core actions without payload or target are skipped.
NewCore(old, a, j, n) ==
  {m \in old : m \notin Targets(a.core)}
    \union {[job |-> j, n |-> n, text |-> t] : t \in Payloads(a.core)}
-----------------------------------------------------------------------------
(* The state of a run.                                                     *)

\* What a worker is about to do. "ack" and "term": InsertMemory has returned
\* and the message is about to be settled; "panic": a nil dereference is
\* bringing the process down.
PC == {"idle", "expand", "search", "readCore", "generate", "writeCore", "embed",
       "check", "delete", "insert", "ack", "term", "panic"}

Run == [pc : PC, job : Jobs \union {NoJob}, n : Nat,
        expired : BOOLEAN,         \* the 60 s context has expired
        shown : SUBSET Point,      \* Existing_General_Memories
        snap : SUBSET CoreMem,     \* Existing_Core_Memories
        answer : Answer,           \* MemoryOutput
        embedded : BOOLEAN,        \* the second GenerateEmbeddings succeeded
        readFailed : BOOLEAN,      \* history: GetCoreMemory returned an error
        stale : BOOLEAN,           \* history: core changed since it was read
        wrote : BOOLEAN]           \* history: a write of this run took effect

FreshRun(pc, j, n) ==
  [pc |-> pc, job |-> j, n |-> n, expired |-> FALSE, shown |-> {}, snap |-> {},
   answer |-> NoAnswer, embedded |-> FALSE,
   readFailed |-> FALSE, stale |-> FALSE, wrote |-> FALSE]

IdleRun == FreshRun("idle", NoJob, 0)

At(w, pc) == wk[w].pc = pc
User(w) == UserOf[wk[w].job]

\* A run between its read and its write of the core memories of u.
HoldsSnapshot(w, u) == wk[w].pc \in {"generate", "writeCore"} /\ User(w) = u

QdrantTypeOK ==
  /\ points \subseteq Point
  /\ backlog \in Seq(Write)

TypeOK ==
  /\ QueueTypeOK
  /\ wk \in [Workers -> Run]
  /\ \A w \in Workers : wk[w].job = NoJob <=> wk[w].pc = "idle"
  /\ runs \in [Jobs -> Nat]
  /\ core \in [Users -> SUBSET CoreMem]
  /\ QdrantTypeOK
  /\ finished \in [Jobs -> SUBSET {"ack", "term"}]

Init ==
  /\ QueueInit
  /\ wk = [w \in Workers |-> IdleRun]
  /\ runs = [j \in Jobs |-> 0]
  /\ core = [u \in Users |-> {}]
  /\ points = {}
  /\ backlog = <<>>
  /\ finished = [j \in Jobs |-> {}]

qdrant == <<points, backlog>>
stores == <<core, qdrant>>

\* A call made with the job's context: it returns, or it fails because the
\* context has expired or the service did not answer. A write that took effect
\* and whose answer was lost is a write that returned: the code goes on in the
\* same way, and only logs the difference.
Returns(w) == ~wk[w].expired /\ UNCHANGED faults
Fails(w) == IF wk[w].expired THEN UNCHANGED faults ELSE Fault

\* InsertMemory returns; v says whether nil (ack) or an error (term).
Finish(w, run, v) ==
  /\ wk' = [wk EXCEPT ![w] = [run EXCEPT !.pc = v, !.shown = {}, !.snap = {},
                                         !.answer = NoAnswer]]
  /\ finished' = [finished EXCEPT ![wk[w].job] = @ \union {v}]

Goto(w, run, pc) ==
  /\ wk' = [wk EXCEPT ![w] = [run EXCEPT !.pc = pc]]
  /\ UNCHANGED finished
-----------------------------------------------------------------------------
(* Qdrant.                                                                 *)

\* What the points become when a write is applied.
Applied(shown, o) == IF o.op = "delete" THEN shown \ o.points ELSE shown \union o.points

\* Upsert and Delete are called without Wait: Qdrant accepts the write, and
\* applies it at once or later, after those it has accepted before.
Accept(o) ==
  \/ /\ backlog = <<>>
     /\ points' = Applied(points, o) /\ UNCHANGED backlog
  \/ /\ Len(backlog) < MaxLag
     /\ backlog' = Append(backlog, o) /\ UNCHANGED points

ApplyWrite ==
  /\ backlog # <<>>
  /\ points' = Applied(points, Head(backlog))
  /\ backlog' = Tail(backlog)
  /\ UNCHANGED <<queueVars, budgetVars, wk, runs, core, finished>>
-----------------------------------------------------------------------------
(* A run of InsertMemory.                                                  *)

\* Sensitivity variant: the message is acked as soon as it is picked up.
BeginAcking(w) ==
  /\ up /\ At(w, "idle") /\ inbox[w] # <<>>
  /\ inbox' = [inbox EXCEPT ![w] = Tail(@)]
  /\ LET j == Head(inbox[w]) IN
       /\ runs' = [runs EXCEPT ![j] = @ + 1]
       /\ wk' = [wk EXCEPT ![w] = FreshRun("expand", j, runs[j] + 1)]
       /\ Settled(j, "ack")
  /\ UNCHANGED <<http, up, sub, budgetVars, stores, finished>>

\* Sensitivity variant: a job that was started before is not run again.
BeginOnce(w) ==
  /\ up /\ At(w, "idle") /\ inbox[w] # <<>>
  /\ inbox' = [inbox EXCEPT ![w] = Tail(@)]
  /\ LET j == Head(inbox[w]) IN
       /\ runs' = [runs EXCEPT ![j] = @ + 1]
       /\ wk' = [wk EXCEPT ![w] = FreshRun(IF runs[j] = 0 THEN "expand" ELSE "ack",
                                          j, runs[j] + 1)]
  /\ UNCHANGED <<http, stream, due, up, sub, budgetVars, stores, finished>>

\* The subscription's callback takes the next message; the job of a message
\* always decodes, since only SumbitMemoryInsertionRequest writes the subject.
Begin(w) ==
  /\ up /\ At(w, "idle") /\ inbox[w] # <<>>
  /\ inbox' = [inbox EXCEPT ![w] = Tail(@)]
  /\ LET j == Head(inbox[w]) IN
       /\ runs' = [runs EXCEPT ![j] = @ + 1]
       /\ wk' = [wk EXCEPT ![w] = FreshRun("expand", j, runs[j] + 1)]
  /\ UNCHANGED <<http, stream, due, up, sub, budgetVars, stores, finished>>

\* The 60 s context of a run expires.
DeadlineExpires(w) ==
  /\ ~At(w, "idle") /\ ~wk[w].expired
  /\ Fault
  /\ wk' = [wk EXCEPT ![w].expired = TRUE]
  /\ UNCHANGED <<queueVars, crashes, expiries, runs, stores, finished>>

\* What every step between Begin and Settle leaves alone.
RunStep == UNCHANGED <<queueVars, crashes, expiries, runs>>

\* ExpandQuery answers "SKIP": nothing to remember.
ExpandSkips(w) ==
  /\ At(w, "expand") /\ Returns(w)
  /\ Finish(w, wk[w], "ack")
  /\ RunStep /\ UNCHANGED stores

\* ExpandQuery gives a query, or the messages themselves after five failures,
\* or "" when the context expires: it never fails. The query is embedded; that
\* call has a 30 s context of its own.
ExpandContinues(w) ==
  /\ At(w, "expand")
  /\ \/ Goto(w, wk[w], "search") /\ UNCHANGED faults
     \/ Finish(w, wk[w], "term") /\ Fault
  /\ RunStep /\ UNCHANGED stores

Expand(w) == ExpandSkips(w) \/ ExpandContinues(w)

\* GetSimilarMemories returns some points S of the user.
SearchFinds(w, S) ==
  /\ At(w, "search") /\ Returns(w)
  /\ Goto(w, [wk[w] EXCEPT !.shown = S], "readCore")
  /\ RunStep /\ UNCHANGED stores

\* Its error is logged, the run goes on without general memories.
SearchFails(w) ==
  /\ At(w, "search") /\ Fails(w)
  /\ Goto(w, [wk[w] EXCEPT !.shown = {}], "readCore")
  /\ RunStep /\ UNCHANGED stores

\* Similarity and threshold are data the model leaves open: any subset.
Search(w) ==
  /\ At(w, "search")
  /\ \/ \E S \in SUBSET {p \in points : p.user = User(w)} : SearchFinds(w, S)
     \/ SearchFails(w)

\* Sensitivity variant: the key does not depend on the user.
RedisValueOfAnyUser(u) == UNION {core[v] : v \in Users}

\* GetCoreMemory, RedisClient.Get: the list under the user's key; {} also
\* stands for a missing key and for the "null" an empty list is stored as.
RedisValue(u) == core[u]

\* An error of GetCoreMemory is logged, the run goes on with an empty list.
ReadCore(w) ==
  /\ At(w, "readCore")
  /\ \/ /\ Returns(w)
        /\ Goto(w, [wk[w] EXCEPT !.snap = RedisValue(User(w))], "generate")
     \/ /\ Fails(w)
        /\ Goto(w, [wk[w] EXCEPT !.snap = {}, !.readFailed = TRUE], "generate")
  /\ RunStep /\ UNCHANGED stores

\* GenerateMemoryText returns the plan a. A nil general payload or target is
\* dereferenced at once, before anything is written.
GenerateReturns(w, a) ==
  /\ At(w, "generate") /\ Returns(w)
  /\ Malformed(a) => crashes < MaxCrashes
  /\ Goto(w, [wk[w] EXCEPT !.answer = a, !.shown = {}],
          IF Malformed(a) THEN "panic" ELSE "writeCore")
  /\ RunStep /\ UNCHANGED stores

\* The LLM call failed for good (or its context expired, or its JSON does not
\* decode): InsertMemory returns the error.
GenerateFails(w) ==
  /\ At(w, "generate") /\ Fails(w)
  /\ Finish(w, wk[w], "term")
  /\ RunStep /\ UNCHANGED stores

\* The answers the JSON schema admits, with ids translated: a target is the
\* UUID of a memory the prompt showed, of either tier, or "" for any other id.
Answers(w) ==
  LET acts == Inserts \union Deletes(wk[w].snap \union wk[w].shown)
      lists == {A \in SUBSET acts : Cardinality(A) <= MaxActions}
  IN  [core : lists, general : lists]

Generate(w) ==
  /\ At(w, "generate")
  /\ (\E a \in Answers(w) : GenerateReturns(w, a)) \/ GenerateFails(w)

\* Any core action, even a skipped one, makes the whole list be written back
\* from the snapshot (SetCoreMemory). Its error is only logged.
WriteCore(w) ==
  LET u == User(w)
      new == NewCore(wk[w].snap, wk[w].answer, wk[w].job, wk[w].n)
  IN
  /\ At(w, "writeCore")
  /\ \/ /\ wk[w].answer.core = {}
        /\ Goto(w, [wk[w] EXCEPT !.snap = {}], "embed")
        /\ UNCHANGED <<faults, core>>
     \/ /\ wk[w].answer.core # {} /\ Returns(w)
        /\ core' = [core EXCEPT ![u] = new]
        /\ wk' = [x \in Workers |->
                    IF x = w THEN [wk[w] EXCEPT !.pc = "embed", !.snap = {}, !.wrote = TRUE]
                    ELSE IF HoldsSnapshot(x, u) /\ new # core[u]
                         THEN [wk[x] EXCEPT !.stale = TRUE] ELSE wk[x]]
        /\ UNCHANGED finished
     \/ /\ wk[w].answer.core # {} /\ Fails(w)
        /\ Goto(w, [wk[w] EXCEPT !.snap = {}], "embed")
        /\ UNCHANGED core
  /\ RunStep /\ UNCHANGED qdrant

\* The new general memories are embedded; the error is assigned and not read.
\* Not bound by the job's context.
Embed(w) ==
  /\ At(w, "embed")
  /\ \/ Goto(w, [wk[w] EXCEPT !.embedded = TRUE], "check") /\ UNCHANGED faults
     \/ Goto(w, wk[w], "check") /\ Fault
  /\ RunStep /\ UNCHANGED stores

\* Sensitivity variant: the result of the lookup is tested the wrong way round.
FoundNothing(ids) == NoUuid \notin ids /\ {p \in points : p \in ids} = {}

\* DeleteMemories looks the ids up first. It gives up when the lookup finds
\* nothing, and the lookup of a malformed id (the "" of NoUuid) is refused.
Found(ids) == NoUuid \notin ids /\ {p \in points : p \in ids} # {}

CheckDelete(w) ==
  LET ids == Targets(wk[w].answer.general) IN
  /\ At(w, "check")
  /\ \/ /\ ids # {} /\ Returns(w)
        /\ Goto(w, wk[w], IF Found(ids) THEN "delete" ELSE "insert")
     \/ /\ ids # {} /\ Fails(w)
        /\ Goto(w, wk[w], "insert")
     \/ /\ ids = {} /\ UNCHANGED faults
        /\ Goto(w, wk[w], "insert")
  /\ RunStep /\ UNCHANGED stores

\* Its error is logged, the run goes on.
Delete(w) ==
  /\ At(w, "delete")
  /\ \/ /\ Returns(w)
        /\ Accept([op |-> "delete", points |-> Targets(wk[w].answer.general) \intersect Point])
        /\ Goto(w, [wk[w] EXCEPT !.wrote = TRUE], "insert")
     \/ /\ Fails(w)
        /\ Goto(w, wk[w], "insert") /\ UNCHANGED qdrant
  /\ RunStep /\ UNCHANGED core

\* The points InsertNewMemories upserts: one per embedding, none when the
\* embedding call failed.
NewPoints(w) ==
  IF wk[w].embedded
  THEN {[user |-> User(w), text |-> t] : t \in Payloads(wk[w].answer.general)}
  ELSE {}

\* Sensitivity variant: the error of the last call is returned.
InsertReturningError(w) ==
  /\ At(w, "insert")
  /\ \/ /\ NewPoints(w) = {} /\ UNCHANGED <<faults, qdrant>>
        /\ Finish(w, wk[w], "ack")
     \/ /\ NewPoints(w) # {} /\ Returns(w)
        /\ Accept([op |-> "upsert", points |-> NewPoints(w)])
        /\ Finish(w, [wk[w] EXCEPT !.wrote = TRUE], "ack")
     \/ /\ NewPoints(w) # {} /\ Fails(w)
        /\ Finish(w, wk[w], "term") /\ UNCHANGED qdrant
  /\ RunStep /\ UNCHANGED core

\* The upsert; its error is only logged, and InsertMemory returns nil.
Insert(w) ==
  /\ At(w, "insert")
  /\ \/ /\ NewPoints(w) = {} /\ UNCHANGED <<faults, qdrant>>
        /\ Finish(w, wk[w], "ack")
     \/ /\ NewPoints(w) # {} /\ Returns(w)
        /\ Accept([op |-> "upsert", points |-> NewPoints(w)])
        /\ Finish(w, [wk[w] EXCEPT !.wrote = TRUE], "ack")
     \/ /\ NewPoints(w) # {} /\ Fails(w)
        /\ Finish(w, wk[w], "ack") /\ UNCHANGED qdrant
  /\ RunStep /\ UNCHANGED core

\* Sensitivity variants: no msg.Term() after an error; the worker keeps its job.
SettleAcksOnly(w) ==
  /\ wk[w].pc \in {"ack", "term"}
  /\ \/ wk[w].pc = "ack" /\ Settled(wk[w].job, "ack") /\ UNCHANGED faults
     \/ wk[w].pc = "term" /\ UNCHANGED <<stream, due, faults>>
     \/ Fault /\ SettlementLost(wk[w].job)
  /\ wk' = [wk EXCEPT ![w] = IdleRun]
  /\ UNCHANGED <<http, up, sub, inbox, crashes, expiries, runs, stores, finished>>
SettleKeepingJob(w) ==
  /\ wk[w].pc \in {"ack", "term"}
  /\ \/ Settled(wk[w].job, wk[w].pc) /\ UNCHANGED faults
     \/ Fault /\ SettlementLost(wk[w].job)
  /\ wk' = [wk EXCEPT ![w].pc = "idle"]
  /\ UNCHANGED <<http, up, sub, inbox, crashes, expiries, runs, stores, finished>>

\* The callback acks or terminates the message and returns.
Settle(w) ==
  /\ wk[w].pc \in {"ack", "term"}
  /\ \/ Settled(wk[w].job, wk[w].pc) /\ UNCHANGED faults
     \/ Fault /\ SettlementLost(wk[w].job)
  /\ wk' = [wk EXCEPT ![w] = IdleRun]
  /\ UNCHANGED <<http, up, sub, inbox, crashes, expiries, runs, stores, finished>>

\* The process dies, of a panic in a worker or of anything else.
Crash ==
  /\ QueueCrash
  /\ wk' = [w \in Workers |-> IdleRun]
  /\ UNCHANGED <<runs, stores, finished>>
-----------------------------------------------------------------------------
WorkerStep(w) ==
  \/ Begin(w) \/ Expand(w) \/ Search(w) \/ ReadCore(w) \/ Generate(w) \/ WriteCore(w)
  \/ Embed(w) \/ CheckDelete(w) \/ Delete(w) \/ Insert(w) \/ Settle(w)

QueueStep ==
  /\ \/ Restart
     \/ \E j \in Jobs : \/ Submit(j) \/ ReplyOk(j) \/ ReplyError(j)
                        \/ StreamStores(j) \/ AckWaitExpires(j)
                        \/ \E w \in Workers : Deliver(j, w)
     \/ \E w \in Workers : Subscribe(w) \/ SubscribeFails(w)
  /\ UNCHANGED agentVars

Next ==
  \/ QueueStep
  \/ Crash
  \/ ApplyWrite
  \/ \E w \in Workers : WorkerStep(w) \/ DeadlineExpires(w)

Spec == Init /\ [][Next]_vars
-----------------------------------------------------------------------------
(* Scheduling. The Go runtime keeps running a runnable goroutine, every call *)
(* of a run returns or is ended by a context, the consumer keeps sending a   *)
(* message that is due, a panic ends the process, the process is started     *)
(* again, and Qdrant applies what it has accepted. Nothing is assumed of the *)
(* clients and of spontaneous failures.                                      *)
SubscribeStep(w) == (Subscribe(w) \/ SubscribeFails(w)) /\ UNCHANGED agentVars
DeliverStep(j) == (\E w \in Workers : Deliver(j, w)) /\ UNCHANGED agentVars
PanicCrash == (\E w \in Workers : At(w, "panic")) /\ Crash

Fairness ==
  /\ WF_vars(Restart /\ UNCHANGED agentVars)
  /\ WF_vars(PanicCrash)
  /\ WF_vars(ApplyWrite)
  /\ \A w \in Workers : WF_vars(SubscribeStep(w)) /\ WF_vars(WorkerStep(w))
  /\ \A j \in Jobs : WF_vars(DeliverStep(j))

FairSpec == Spec /\ Fairness
-----------------------------------------------------------------------------
(* Properties.                                                             *)

\* A run that ends with an error has written nothing, to either store: the
\* error returns of InsertMemory all come before its first write, and the
\* failures after it are swallowed. This is what makes it safe to terminate
\* the message, or to run the job again as the TODO in MemoryWorker wants.
FailedRunLeftNoTrace ==
  \A w \in Workers : wk[w].pc \in {"term", "panic"} => ~wk[w].wrote

\* Users never mix, however their jobs interleave: a core profile holds only
\* memories made by jobs of its user, and what a run has read, and what it is
\* going to delete or write back, belongs to the user of its job.
UserIsolation ==
  /\ \A u \in Users : \A m \in core[u] : UserOf[m.job] = u
  /\ \A w \in Workers : wk[w].job # NoJob =>
       /\ \A m \in wk[w].snap : UserOf[m.job] = User(w)
       /\ \A p \in wk[w].shown : p.user = User(w)
       /\ \A p \in Targets(wk[w].answer.general) \intersect Point : p.user = User(w)

\* Every run of a job beyond the first has its own cause: an AckWait expiry, a
\* crash, or an acknowledgement that was lost. The queue group and the clearing
\* of the message at delivery never hand one delivery to two workers.
RunsHaveCauses ==
  \A j \in Jobs : runs[j] <= 1 + faults + crashes + expiries

\* A core memory disappears only in a run's write of the user's list, and then
\* for one of three reasons: the run's plan deletes it, the run's read of the
\* list failed and was taken for an empty profile, or another run has written
\* between this run's read and its write. No fourth way loses a memory.
CoreLossExplained ==
  [][\A u \in Users : \A m \in core[u] \ core'[u] :
       \E w \in Workers :
         /\ At(w, "writeCore") /\ User(w) = u
         /\ \/ m \in Targets(wk[w].answer.core)
            \/ wk[w].readFailed \/ wk[w].stale]_vars

\* The queue, the workers and the crashes together implement the life of a job
\* as JobLifecycle states it.
Lifecycle == INSTANCE JobLifecycle WITH
  Jobs <- Jobs, http <- http, stream <- stream, finished <- finished
LifecycleSpec == Lifecycle!Spec

\* A request answered "queued" is in the stream whatever crashes come between
\* the publish and the answer, and a message leaves the stream only as "acked"
\* after a run that succeeded, or as "termed" after a run that failed.
AcceptedJobIsSafe == Lifecycle!JobIsSafe

\* A stored job is settled in the end, whatever fails on the way, unless no
\* worker ever gets a subscription (MemoryWorker drops that error and nothing
\* tries again). The failures are finitely many: MaxFaults and the other bounds.
JobsSettle ==
  \A j \in Jobs :
    stream[j] = "pending"
      ~> (stream[j] \in {"acked", "termed"} \/ \A w \in Workers : sub[w] = "failed")
=============================================================================
