# A verified model of GoMemory

GoMemory is a memory layer for AI agents: a client posts a conversation, a
worker asks an LLM which memories to delete and to insert, and later queries are
answered from two stores. This directory holds TLA+ modules of its write path
and of its read and delete handlers, the TLC configurations that check them, and
theorems about them with proofs that TLAPS checks. Line numbers refer to the repository.

## 1. The system

| part | source | state | operations |
|---|---|---|---|
| HTTP API | `api/api.go` | none | `POST /add_memory`, `POST /get_memory`, `GET /get_all`, `GET /get_core`, `POST /delete_memory`, `GET /health` |
| Ingestion queue | `memory/memory.go` 55-85, `main.go` 82-93 | JetStream stream `MEMORY_SYSTEM`, durable consumer `workers`, one queue subscription per worker | publish, deliver, ack, term, redeliver |
| Memory agent, write path | `memory/memory.go` 123-258 | the local variables of each running `InsertMemory` | one run per delivered job, two workers at a time |
| Memory agent, read path | `memory/memory.go` 87-121, 260-271 | none | `GetMemories`, `GetAllUserMemories`, `GetCoreMemories`, `DeleteMemory` |
| Core memory cache | `redis/redis.go` | one JSON list per user | `GetCoreMemory`, `SetCoreMemory` |
| Vector database | `vectordb/vectordb.go` | points (id, user, text, vectors) | search, upsert, look up and delete, scroll |
| LLM client | `llm/llm.go` | none | `ExpandQuery`, `GenerateMemoryText`, both with five attempts |
| Embedding client | `embed/embed.go` | a gRPC connection | `GenerateEmbeddings` |
| Request store | `storage/store.go` | a database handle | `InsertMemoryRequest`, a stub that returns nil |
| Process | `main.go` | all of the above | start, run, die |
| Logging, telemetry, generated gRPC code | `log/`, `telemetry/`, `proto/` | none | no influence on the rest |

How they interact: the handler of `/add_memory` makes a `MemoryInsertionJob` and
publishes it; it answers 200 when the stream has acknowledged it. JetStream
pushes each message to one worker of the queue group. The worker's callback runs
`InsertMemory` and then acks the message, or terminates it when an error came
back. `InsertMemory` makes up to ten remote calls in one order:

    ExpandQuery, embed, search, GET core list, GenerateMemoryText,
    SET core list, embed, look up ids, delete points, upsert points

What is hard: nothing locks a user. Two workers may run two jobs of one user, or
one job twice (AckWait is 30 s and a run may take longer than its own 60 s
context). Each store is read early and written late. Most errors are logged and
ignored, a few end the run. Neither the two stores nor the two writes of one
store are updated atomically, and the process may die between any two calls.
Qdrant acknowledges a write before it is visible. The read and delete handlers
make their calls to the two stores one after the other while runs write.

What makes each part correct:

- queue: a job answered "queued" is in the stream; it stays there until a run of
  it has ended and is settled by the verdict of such a run; it is settled in the
  end; it runs more than once only for a reason.
- write path: a run that reports failure has written nothing; a core memory is
  lost only for a known reason; users do not mix.
- curation, as the README of the repository sells it: no contradictions in
  either store, and a replaced memory is replaced and not forgotten.
- read path: an answer misses nothing the user has had all the time, and mixes
  no users; a deletion answered 200 is final.
- one run by itself: it comes back in bounded time, and does to the memories what
  the LLM's plan means by the numbers it names.

## 2. The modules

| module | what it is | lines of the code |
|---|---|---|
| `JobLifecycle` | abstract specification: the life of one job as its client and the stream see it | `api.go` 88-122, `memory.go` 55-85 |
| `IngestionQueue` | handler, publish, stream and consumer (external), subscriptions, crash and restart; no next-state relation of its own | `api.go` 88-122, `memory.go` 55-85, `main.go` 51-115 |
| `MemoryAgent` | composes the queue with the runs of `InsertMemory` in the workers | `memory.go` 39-73, 123-258, `llm.go`, `redis.go`, `vectordb.go`, `embed.go` |
| `IdealCuration` | `MemoryAgent` with a search and an LLM that do what the prompt asks | `llm.go` 166-224 |
| `MemoryService` | composes `MemoryAgent` with the handlers of the reads, the search and the deletion | `api.go` 35-49, 124-311, `memory.go` 87-121, 260-271, `vectordb.go` |
| `RunTiming` | the clock of one run: retry loops, pauses, the shared deadline, the limits of the embedding calls | `llm.go` 270-300, 367-402, `embed.go` 63-106, `memory.go` 123-258 |
| `SetPlan` | abstract specification: what a plan does to sets of memories | `types.go` 71-81, `memory.go` 189-255 |
| `PromptPlan` | numbers, lists, UUIDs and hashed point ids of one run at a time | `llm.go` 92-157, 301-331, `memory.go` 153-258, `vectordb.go` 129-160, 198-235 |
| `MCMemoryAgent`, `MCIdealCuration`, `MCMemoryService`, `MCRunTiming`, `MCPromptPlan` | instances for TLC | |
| `MemoryAgentProofs` | type correctness, `FailedRunLeftNoTrace` | |
| `LifecycleProofs` | `MemoryAgent` implements `JobLifecycle` | |
| `DeliveryProofs` | `RunsHaveCauses` | |
| `StoreProofs` | `CoreLossExplained`, `UserIsolation` | |
| `CurationProofs` | the theorems about `IdealCuration` | |
| `ServiceProofs` | the theorems about the handlers | |
| `TimingProofs` | the theorems about `RunTiming` | |
| `PlanProofs` | the theorems about `PromptPlan`; it implements `SetPlan` | |

`MemoryService` extends `MemoryAgent`, which extends `IngestionQueue`;
`IdealCuration` extends `MemoryAgent`. `RunTiming` and `PromptPlan` stand apart:
each takes up one thing that `MemoryAgent` abstracts from, the time a call takes
and the ids in a plan, and shows that it may.

### From the code to the model

An action of a run is one remote call together with the code up to the next
call, so every interleaving of calls is there and nothing finer, since the code
between two calls touches only local variables. `wk[w]` holds these: `snap` is
`Existing_Core_Memories`, `shown` is `Existing_General_Memories`, `answer` is
`MemoryOutput`, `embedded` says whether the second embedding call gave vectors,
`expired` is the state of the job's context. `pc` names the next call.
The fields `readFailed`, `stale`, `wrote` and the variable `finished` are
history: no guard reads them.

| action | code |
|---|---|
| `Submit`, `ReplyOk`, `ReplyError` | `InsertIntoMemory`, with the publish call between |
| `StreamStores`, `Deliver`, `AckWaitExpires`, `Settled`, `SettlementLost` | JetStream, external |
| `Subscribe`, `SubscribeFails` | `QueueSubscribe` at line 56, whose error is dropped |
| `Begin` | the callback, lines 56-64 |
| `ExpandSkips`, `ExpandContinues` | lines 133-149: "SKIP", or a query and its embedding |
| `Search`, `ReadCore` | lines 153-160; a failure leaves an empty list |
| `Generate` | lines 162-184; the translation of ids; the two unchecked dereferences |
| `WriteCore` | lines 189-238; any core action causes the write, even a skipped one |
| `Embed` | line 240; the error is not read |
| `CheckDelete`, `Delete` | lines 241-246 and both calls of `DeleteMemories` |
| `Insert` | lines 248-257 |
| `Settle` | `Ack` or `Term`, perhaps lost |
| `DeadlineExpires` | the 60 s context; later calls with it fail, both embeddings do not use it |
| `Crash`, `Restart` | the process, after a nil dereference or for any other reason |
| `ApplyWrite` | Qdrant applies the oldest write it has accepted, external |

In `MemoryService`, `req[r]` is a handler: its status, the calls it still has to
make (`todo`) and its local variables. `partial` and `kept` are history.

| action | code |
|---|---|
| `Arrive` | the handler decodes its request; `Calls` names the calls of each kind |
| `EmbedQuery` | `memory.go` 97; an error ends the request |
| `ReadGeneral` | the search or the scroll; an error is logged and the request goes on |
| `ReadCoreTier` | `GetCoreMemory`; only `GET /get_core` reports its error |
| `LookUp`, `DeletePoints` | both calls of `DeleteMemories`, whose errors become a 500 here |
| `ServiceCrash` | the process dies, and open requests are cut off |

In `RunTiming`, `phase` is the call or the pause the run is in and `clock` the
time since its context was made, in fifths of a second, which is the grain of the
jitter. `ExpandCall`, `ExpandPause`, `GenerateCall` and `GeneratePause` are the
two retry loops; `EmbedQuery` and `EmbedNew` are the calls that ignore the
context; `StoreCall` is any other call.

In `PromptPlan`, `Ask` gathers the two lists for the prompt, `Answer` is the
reply of the LLM with the numbers it names, and `WriteCore`, `DeletePoints` and
`InsertPoints` carry it out. `IntToUuid` is the map `dMap.IntTOUUID`. The loops
that append to a list what passes a test are `Picked`, which says by the ranks of
the positions what `SelectSeq` says by recursion.

Abstractions, each with its reason:

- The LLM answers *anything* its response schema admits, with each target
  translated: the id of a memory it was shown, in either list, or `NoUuid` for
  an id that is not in the map (`llm.go` 308-331). Lists are sets; no step
  depends on the order in a list.
- The search returns any subset of the user's points: similarity and the
  threshold are data.
- A point is identified by its text and user, as the SHA-1 id of
  `vectordb.go:134` is, up to collisions of their concatenation.
- A core memory is identified by the run that made it, for its random UUID. Two
  insertions of one text in one plan are one memory.
- A write that took effect and whose answer was lost is a write that returned:
  the code continues in the same way in both cases.
- The calls to Qdrant do not set `Wait`: it answers when it has accepted a write
  and applies it later, in the order of acceptance. `backlog` holds the writes
  accepted and not yet applied, `MaxLag` of them at most; with `MaxLag = 0` a
  write is applied when it returns.
- Which topics belong to the core profile is the LLM's choice. `IdealCuration`
  fixes any choice at the start (`coreTopics`) and keeps to it.
- `PromptPlan` knows no faults, no second run and no client that deletes: those
  are the subject of the other modules. Strings are sequences of characters, and
  SHA-1 is taken to have no collisions.
- `IdAssumption`: user ids have one length. The code does not check it, and it
  needs it: the point id hashes text and user without a separator, so that "xa"
  of user "b" and "x" of user "ab" are one point.
- In `RunTiming` a call takes any of the durations of a set; a failing call that
  is not made at all, like the embedding of no texts, is a short one.
- `Publish` gives up only by failing; a stored message may still appear after
  the handler has answered 500 (`StreamStores` is enabled then).

## 3. What TLC checks

`MaxFaults` bounds failing calls, lost acknowledgements and deadlines together,
`MaxCrashes` crashes, `MaxExpiries` AckWait expiries of a message in work,
`MaxActions` the actions per tier in one answer. Deadlock is not checked: the
requests and the bounds are finite, and when the jobs are settled the system
stops.

| run | instance | properties |
|---|---|---|
| `stores` | 2 jobs of one user, 2 workers, 1 text, 1 action per tier, a write on its way, 1 fault; 1.9 M states | `TypeOK`, `FailedRunLeftNoTrace`, `CoreLossExplained` |
| `delivery` | 1 job, 2 workers, 1 fault, 1 crash, 1 expiry, plans without texts; 0.4 M states | `AcceptedJobIsSafe`, `RunsHaveCauses`, `LifecycleSpec`, `JobsSettle` |
| `ideal` | 2 contradictory facts of one user, 2 workers, 1 fault, 1 expiry; 0.7 M states | `CoreProfileConsistent`, `UndisturbedConsistent` |
| `ideal_serial` | the same with 1 worker, a write on its way, 2 faults, 1 crash, 1 expiry; 3.3 M states | `UndisturbedConsistent`, `LastFactRemembered` |
| `service` | 1 job, 1 expiry, a write on its way, 1 fault; `GET /get_all` and `POST /delete_memory`; 2.6 M states | `SteadyTextAnswered`, `DeletionSticks` |
| `service_users` | 2 users with a job each, a search by one of them, 1 crash; 1.0 M states | `ServiceTypeOK`, `AnswersOwn`, `UserIsolation` |
| `timing` | the code's numbers; calls of 0.2, 7 or 34 s; 27 k states | `TimingTypeOK`, `RunIsBounded`, `CutShortWritesNothing`, `RunReturns` |
| `plan` | 2 users, 2 texts, 2 UUIDs, replies of 2 actions; 0.5 M states | `PromptTypeOK`, `CoreIdsDistinct`, `FactsDistinct`, `PlanMeansWhatItSays` |

Why these bounds are enough to meet the interesting cases. Two workers and two
jobs of one user give an overlap; with one expiry a job overlaps with itself;
with one fault, one swallowed error. `stores` reaches a core list with a memory
to lose, a plan that deletes it, one that does not, and a stale snapshot.
The properties of `delivery` speak of one job at a time and no rule couples the
jobs, so one is enough, with two workers for the copies that overlap; there are
no texts: a plan is empty, or names an unknown id, or is malformed, and the last
brings the process down and the job back. In the ideal runs the plan is a
function of the job, so `MaxActions` plays no part; the facts may be about a core
topic or a general one. `ideal` has the overlaps; `ideal_serial` has one worker,
because the runs of an undisturbed user never overlap, and spends the states on a
second fault, a crash and a late write instead. Workers are symmetric where no
liveness is checked. In `service` the second delivery of the job moves, deletes
or repeats what the first has written, with a write on its way, which is what a
read or a deletion can meet. `GET /get_core` makes only the last call of the
other reads, and is left to the theorems, which hold for every kind of request.
In `timing` a call is quick, or slow enough that five of them and their pauses
pass the deadline, or hangs for longer than an embedding may; the pauses take
every value of their jitter. In `plan` one text followed by the id of one user is
the other text, and two memories of a tier are enough for the numbers of the two
lists to meet if they were not displaced. Deadlock is checked there; a reply
always ends.

What the properties say:

- `FailedRunLeftNoTrace`: the error returns of `InsertMemory` all come before
  its first write. This is why terminating the message is clean, and why the
  retry that the TODO at `memory.go:66` asks for would be.
- `CoreLossExplained`: a core memory disappears in a write of the list, by the
  plan, by a failed read taken for an empty profile, or by an update between
  read and write. The last two are the code's weak points, and there is no
  other.
- `UserIsolation`: all ids of a run come from lists of its own user.
- `RunsHaveCauses`: runs of a job number at most one more than the faults,
  crashes and expiries.
- `LifecycleSpec`: the refinement `MemoryAgent => JobLifecycle`, the variables
  of the same name mapped to each other.
- `JobsSettle`: a stored job is settled, or no worker has a subscription.
- `CoreProfileConsistent`: the list in Redis is the view of one run written in
  one call. It never contradicts itself, though it may be stale.
- `UndisturbedConsistent`, `LastFactRemembered`: what holds of the general
  memories while the user is not in `disturbed`: no run of the user has started
  beside another, none has swallowed a failure, none has given up on a job of
  which an earlier run was cut short, and no crash has ended a run of a message
  that was already settled, none has searched while Qdrant still had a write of
  the user to apply. Crashes and redelivery alone do no harm, because
  the delete precedes the insert and the ack follows both.

- `SteadyTextAnswered`: a text that the user has during the whole of a read is
  in the answer although a run moves it from one tier to the other. It rests on
  the order of the calls: runs write the core list first, reads take the general
  memories first. The TODO at `memory.go:98`, to make the two reads concurrent,
  would break it; the mutant of this property takes the core list first.
- `DeletionSticks`: Qdrant applies in order, so a deletion answered 200 also
  undoes an upsert that was accepted before it and is not visible yet.
- `AnswersOwn`: answers hold memories of the client's user.
- `RunIsBounded`: a run is back after 90 s, the deadline and *one* embedding,
  although it makes two. AckWait, 30 s, passes up to three times meanwhile.
- `CutShortWritesNothing`: when the deadline passes in a pause of `ExpandQuery`,
  that returns "", and the run goes on with it; the plan is then never made.
- `RunReturns`: the retry loops end.
- `CoreIdsDistinct`, `FactsDistinct`: an id is one core memory; a fact that is
  learnt again is one point.
- `PlanMeansWhatItSays`: the refinement `PromptPlan => SetPlan`. The abstract
  plan is what the LLM means: its numbers are the memories they were shown with.
  One cost of the code is part of it: a plan that names a number nobody has
  shown forgets no general memory at all.

### Fairness

`FairSpec` assumes weak fairness of: the steps of a worker (a goroutine that can
run does, every call returns or its context ends it), the subscription attempt,
the delivery of a due message (the broker pushes), the end of the process after
a panic, and the restart of a dead process (a supervisor; the repository has no
unit file, so this is an assumption on the deployment). Nothing is assumed of
clients, and failures are never forced. They are finitely many because of the
bounds; a call that fails for ever would let a panic loop go on for ever. It also
assumes that Qdrant goes on applying what it has accepted.

`FairTimingSpec` assumes that every call returns and every timer fires, nothing
about how they end; the loops bound themselves.

### Where the code breaks what it says

Four runs expect a violation; the traces are what TLC prints.

- `overlap_contradicts` (`ContradictionsReplaced`). No failure is involved: w1
  searches and finds nothing, w2 searches and finds nothing, each inserts its
  fact. "Contradictory memories are automatically detected and replaced"
  (`README.md:42`) holds only for runs that do not overlap.
- `lost_update` (`CoreProfilePersistent`). Both workers read the empty list; w1
  writes {home}; w2 writes {work}. The first fact is gone from the "persistent
  core memory profile" (`README.md:31`), and its job was acked.
- `replacement_lost` (`ReplacedNotForgotten`). One worker: the delete succeeds,
  the upsert fails (or the embedding before it failed), the error is logged, the
  job is acked. The old fact and the new one are both lost.
- `page_cut` (`AllMemoriesListed`). `Scroll` is called without a limit and its
  next page is never asked for, so that a user with more memories than Qdrant's
  default page gets a part of them, in an answer that the code logs as "All the
  user Memories" (`vectordb.go:194`).

## 4. What is proved

Every safety property that a run checks is a theorem, for any sets of jobs,
workers, users and texts and any bounds, and so are both refinements. The
assumptions are `BoundsAssumption` (bounds are naturals), `AgentAssumption` (each
job has a user; the special values are none of the ordinary ones),
`UuidAssumption` (no memory has "" for an id), `CurationAssumption` (a job states
one fact; a fact has one topic), `TimingAssumption` and `IdAssumption` (below).

The bound `MaxActions` on an answer serves TLC. The proofs about `MemoryAgent` are
about `NextAny`, which is `Next` with answers of any size (`NextIsAny`).

About `MemoryAgent`:

- `TypeCorrect`, `Spec => []TypeOK`. `TypeOK` is inductive: one lemma per
  group of actions.
- `FailuresAreClean`, `Spec => []FailedRunLeftNoTrace`. Strengthened with
  `WroteLate`: a run that has written is at or after `embed`, or about to ack.
  Only the calls from `WriteCore` on set `wrote`, and none of the later steps
  goes back to a step that can return an error.
- `Implements`, `Spec => LifecycleSpec`. Every step maps to a step of
  `JobLifecycle` or to a stutter. It needs two invariants: `OnlyStored` (what is
  due, buffered or in a worker is in the stream) for the step `RunEnds`, and
  `VerdictRecorded` (a run at `ack` or `term` is in `finished`) for `Settle`.
- `AcceptedJobsAreSafe`, `Spec => []AcceptedJobIsSafe`, from the same two.
- `EveryRunHasACause`, `Spec => []RunsHaveCauses`. The count of runs alone is not
  inductive: a job that is due will run once more. `CopiesHaveCauses` counts, for
  each job, its runs so far, its copies buffered in an inbox (`Copies`, places in
  a finite set of worker and position) and one more if it is due or not stored
  yet. `Deliver` and `Begin` move a copy along without changing the sum, and every
  step that adds one is a fault, a crash or an expiry.
- `CoreLossHasCause`, `Spec => CoreLossExplained`, from `SnapshotIsCurrent`
  (also proved, as `SnapshotsAreCurrent`): a run between its read and its write
  whose read did not fail and which is not marked stale holds exactly the
  user's list. Without it a loss could not be traced to the run's own plan.
- `UsersNeverMix`, `Spec => []UserIsolation`, from the origin of the ids: a
  target was shown to the LLM or is `NoUuid`, and what was shown is the user's.

About `IdealCuration`:

- `ProfileIsConsistent`, `IdealSpec => []CoreProfileConsistent`. The list in Redis
  may be overwritten by a run that read it long ago, so the invariant speaks of
  all runs at once: `ProfileInv` says that each has read one consistent list, and
  plans to write back that list curated or nothing (`OneView`). A failed read is
  the empty list, which is consistent.
- `UndisturbedStayConsistent` and `LastFactStays`, for `UndisturbedConsistent` and
  `LastFactRemembered`, from one invariant, `Calm`. Of every user who is not in
  `disturbed` it says: at most one run is going on (`OneRun`); the points together
  with the writes on their way are consistent, an upsert that contradicts a
  visible point having that point's delete before it in the backlog
  (`PointsInv`); the run's plan is what the prompt asks for, of the memories as
  they are now (`PlanInv`: what it was shown, what it has planned, what it has
  done so far); and the last fact is known, or a run is between its writes, or one
  was cut short and its job is still pending (`LastInv`).
  The last disjunct is where the order of the code matters: the message is
  settled after the last write, so that what a crash interrupts is run again.
  `RunCounted` tells a rerun from a first run.

About `MemoryService`, for any number of requests of any kinds beside all that:

- `ServiceTypeCorrect`, `ServiceSpec => []ServiceTypeOK`, with `InOrder`: the
  calls an open handler still has to make are the last ones of its kind.
- `SteadyTextsAnswered`, from the invariant that a kept text is in what the
  handler has read or still in the tier it has yet to read. The step that moves a
  text between the tiers is the heart of it.
- `AnswersAreOwn`, from the isolation of users and the same for what an open
  handler holds.
- `DeletionsStick`: the accepted delete is the last write of the backlog.

About `RunTiming`, for any deadline, limit and durations: `TimingTypeCorrect`,
`RunsAreBounded` and `CutShortIsHarmless`. The invariant adds `Punctual` (before
the first embedding, and between a plan and the second, the context lives) and
`NoPlanWithout` (an empty query is the sign of a context that has ended, and a
call with an ended context cannot give a plan). `RunsEnd` is the part of
`RunReturns` that is not about fairness: every call and pause leaves fewer of
them, of 28 at most (`StepsLeft`).

About `PromptPlan`, for any texts, UUIDs and lengths of the lists and replies,
under `IdAssumption`:

- `GeneralNumberTranslates`, `CoreNumberTranslates`: a number translates to the
  id of the memory it was shown with, whatever the two lists are.
- `FactsAreDistinct`, from `PointsKeyed`: a point's id is the hash of its payload.
- `UpsertsKeepOthersFacts`, from that and `PointIdInjective`: a point of another
  user survives every upsert.
- `PromptTyped` and `CoreIdsAreDistinct`, from `PlanInv`: the ids in the lists are
  among the UUIDs used up (`CoreInv`), so that those of a new list are fresh; and
  the lists that a run holds are the stores' own until it writes them (`RunInv`).
  What the loops over the lists return is `PickedList`: each element that passes,
  once and in order. `Ranks` is its base: every number up to that of the
  positions is the rank of one, since an injection between finite sets of one size
  is onto. This takes the place of an induction over the list.
- `PlanMeansWhatItDoes`, `PromptSpec => PlanMeansWhatItSays`: the refinement of
  `SetPlan`. `Ask` is a stutter, and each other action one step of the plan.
  `WriteCore` needs `DroppedAreMeant`: an id to delete is that of a core memory
  exactly if the reply named its number, because a general memory's id is a hash
  and no UUID, and an unknown number translates to no id at all. `DeletePoints`
  needs the same for the other list, and `FactsDistinct`, or a forgotten fact
  could survive under a second id.

Model-checked only: `JobsSettle` and `RunReturns`. They are liveness properties,
and fairness and ENABLED are out of the prover's reach. The four properties that
the code breaks have counterexamples in place of proofs.

## 5. What is not modelled

- `ConstructContextualQuery` (`api.go` 313-362): a pure function on strings,
  without state; a search finds any subset of the user's memories in the models,
  whatever it is called with. For the same reason, what the messages say and
  which roles reach the prompt (`llm.go` 69-86).
- Bodies of answers, requests that do not decode, `GET /health` (which writes a
  second body after its answer, `api.go:83`).
- That a deletion leaves core memories alone (`api.go:281` has a TODO for it) is
  in `MemoryService`, and no property says otherwise: a request that names both
  tiers is answered 200 when a general memory is among them.
- Initialisation errors in `main.go`, most of which end the process.
- `storage/`, a stub; `log/`, `telemetry/`, output; `proto/`, generated.
- `DeleteCoreMemory`, an empty function; `GenerateDenseEmbedding` and
  `LastUserContent`, which nothing calls.
- An embedding service that answers with another number of vectors than texts.

## 6. Plan

Done: the modules of section 2, their runs, and the theorems of section 4, which
cover every safety property of the passing runs. What may follow:

1. The safety part of `JobsSettle`, as `RunsEnd` is that of `RunReturns`: a stored
   message that is not settled is due, buffered or in a worker, and a run makes a
   bounded number of steps.
2. What `MemoryAgent` takes from `RunTiming` and `PromptPlan`, stated as
   refinements of its single steps.
