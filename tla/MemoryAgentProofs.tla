-------------------------- MODULE MemoryAgentProofs --------------------------
(***************************************************************************)
(* Theorems about MemoryAgent, for any number of jobs, workers, users and  *)
(* texts and any values of the bounds.                                     *)
(***************************************************************************)
EXTENDS MemoryAgent, TLAPS

-----------------------------------------------------------------------------
(* The bound MaxActions is the model's: the code takes an answer of any     *)
(* length. The proofs are about a next-state relation without it.          *)

AnswersAny(w) ==
  LET acts == Inserts \union Deletes(wk[w].snap \union wk[w].shown)
  IN  [core : SUBSET acts, general : SUBSET acts]

GenerateAny(w) ==
  /\ At(w, "generate")
  /\ (\E a \in AnswersAny(w) : GenerateReturns(w, a)) \/ GenerateFails(w)

WorkerStepAny(w) ==
  \/ Begin(w) \/ Expand(w) \/ Search(w) \/ ReadCore(w) \/ GenerateAny(w) \/ WriteCore(w)
  \/ Embed(w) \/ CheckDelete(w) \/ Delete(w) \/ Insert(w) \/ Settle(w)

NextAny ==
  \/ QueueStep
  \/ Crash
  \/ ApplyWrite
  \/ \E w \in Workers : WorkerStepAny(w) \/ DeadlineExpires(w)

LEMMA GenerateIsAny == ASSUME NEW w, Generate(w) PROVE GenerateAny(w)
BY DEF Generate, GenerateAny, Answers, AnswersAny

LEMMA NextIsAny == [Next]_vars => [NextAny]_vars
BY GenerateIsAny DEF Next, NextAny, WorkerStep, WorkerStepAny

-----------------------------------------------------------------------------
(* Type correctness.                                                       *)

\* The part of TypeOK that is about runs and their history.
RunsOK ==
  /\ wk \in [Workers -> Run]
  /\ \A w \in Workers : wk[w].job = NoJob <=> wk[w].pc = "idle"
  /\ finished \in [Jobs -> SUBSET {"ack", "term"}]

\* A worker that is not idle has a job.
LEMMA BusyHasJob ==
  ASSUME TypeOK, NEW w \in Workers, wk[w].pc # "idle"
  PROVE  wk[w].job \in Jobs /\ User(w) \in Users
BY AgentAssumption DEF TypeOK, Run, User

\* The local variables of a run keep their types under the updates of a step.
LEMMA RunUpdates ==
  ASSUME NEW r \in Run
  PROVE  /\ \A S \in SUBSET Point : [r EXCEPT !.shown = S] \in Run
         /\ \A S \in SUBSET CoreMem : [r EXCEPT !.snap = S] \in Run
         /\ \A S \in SUBSET CoreMem : [r EXCEPT !.snap = S, !.readFailed = TRUE] \in Run
         /\ \A a \in Answer : [r EXCEPT !.answer = a, !.shown = {}] \in Run
         /\ [r EXCEPT !.snap = {}] \in Run
         /\ [r EXCEPT !.embedded = TRUE] \in Run
         /\ [r EXCEPT !.stale = TRUE] \in Run
         /\ [r EXCEPT !.expired = TRUE] \in Run
         /\ \A b \in BOOLEAN : [r EXCEPT !.wrote = b] \in Run
         /\ \A pc \in PC : [r EXCEPT !.pc = pc] \in Run
BY DEF Run

LEMMA GotoType ==
  ASSUME RunsOK, NEW w \in Workers, NEW r \in Run, NEW pc \in PC,
         pc # "idle", r.job # NoJob, Goto(w, r, pc)
  PROVE  RunsOK'
<1>1. [r EXCEPT !.pc = pc] \in Run
  BY RunUpdates
<1>2. [r EXCEPT !.pc = pc].pc = pc /\ [r EXCEPT !.pc = pc].job = r.job
  BY DEF Run
<1> QED
  BY <1>1, <1>2 DEF RunsOK, Goto

LEMMA FinishType ==
  ASSUME RunsOK, NEW w \in Workers, NEW r \in Run, NEW v \in {"ack", "term"},
         r.job # NoJob, wk[w].job \in Jobs, Finish(w, r, v)
  PROVE  RunsOK'
<1> DEFINE s == [r EXCEPT !.pc = v, !.shown = {}, !.snap = {}, !.answer = NoAnswer]
<1>1. s \in Run
  BY DEF Run, PC, NoAnswer, Answer
<1>2. s.pc = v /\ s.job = r.job
  BY DEF Run
<1>3. wk' = [wk EXCEPT ![w] = s]
  BY DEF Finish
<1>4. finished' \in [Jobs -> SUBSET {"ack", "term"}]
  BY DEF RunsOK, Finish
<1> HIDE DEF s
<1> QED
  BY <1>1, <1>2, <1>3, <1>4 DEF RunsOK

LEMMA FaultsType ==
  ASSUME faults \in 0..MaxFaults, NEW w \in Workers,
         Returns(w) \/ Fails(w) \/ Fault \/ UNCHANGED faults
  PROVE  faults' \in 0..MaxFaults
BY BoundsAssumption DEF Returns, Fails, Fault

LEMMA FreshRunType ==
  ASSUME NEW pc \in PC, NEW j \in Jobs \union {NoJob}, NEW n \in Nat
  PROVE  FreshRun(pc, j, n) \in Run /\ FreshRun(pc, j, n).job = j /\ FreshRun(pc, j, n).pc = pc
BY DEF FreshRun, Run, NoAnswer, Answer

\* What is left to show of a step inside a run.
LEMMA RunStepType ==
  ASSUME TypeOK, RunStep, faults' \in 0..MaxFaults, RunsOK',
         core' \in [Users -> SUBSET CoreMem], QdrantTypeOK'
  PROVE  TypeOK'
BY DEF TypeOK, QueueTypeOK, RunStep, RunsOK, queueVars

\* The list a run writes back consists of core memories.
LEMMA NewCoreType ==
  ASSUME NEW old \in SUBSET CoreMem, NEW a \in Answer, NEW j \in Jobs, NEW n \in Nat
  PROVE  NewCore(old, a, j, n) \in SUBSET CoreMem
<1>1. Payloads(a.core) \subseteq Texts
  BY DEF Payloads, Answer, Action, Inserts, Deletes
<1> QED
  BY <1>1 DEF NewCore, CoreMem

\* An answer's texts are texts and an enumerated answer is an answer.
LEMMA AnswersType ==
  ASSUME TypeOK, NEW w \in Workers, NEW a \in AnswersAny(w)
  PROVE  a \in Answer
<1>1. wk[w].snap \subseteq CoreMem /\ wk[w].shown \subseteq Point
  BY DEF TypeOK, Run
<1>2. Deletes(wk[w].snap \union wk[w].shown) \subseteq Deletes(CoreMem \union Point)
  BY <1>1 DEF Deletes
<1> QED
  BY <1>2 DEF AnswersAny, Answer, Action

LEMMA NewPointsType ==
  ASSUME TypeOK, NEW w \in Workers, wk[w].pc # "idle"
  PROVE  NewPoints(w) \subseteq Point
<1>1. wk[w].answer \in Answer
  BY DEF TypeOK, Run
<1>2. Payloads(wk[w].answer.general) \subseteq Texts
  BY <1>1 DEF Payloads, Answer, Action, Inserts, Deletes
<1> QED
  BY <1>2, BusyHasJob DEF NewPoints, Point

\* Qdrant accepts a well-formed write and applies the writes it has accepted.
LEMMA AppliedType ==
  ASSUME points \subseteq Point, NEW o \in Write
  PROVE  Applied(points, o) \subseteq Point
BY DEF Applied, Write

LEMMA AcceptType ==
  ASSUME QdrantTypeOK, NEW o \in Write, Accept(o)
  PROVE  QdrantTypeOK'
BY AppliedType DEF Accept, QdrantTypeOK

LEMMA ApplyWriteType == TypeOK /\ ApplyWrite => TypeOK'
<1> SUFFICES ASSUME TypeOK, ApplyWrite PROVE TypeOK'
  OBVIOUS
<1>1. QdrantTypeOK'
  <2>1. backlog \in Seq(Write) /\ backlog # <<>>
    BY DEF TypeOK, QdrantTypeOK, ApplyWrite
  <2>2. Head(backlog) \in Write /\ Tail(backlog) \in Seq(Write)
    BY <2>1
  <2> QED
    BY <2>2, AppliedType DEF ApplyWrite, TypeOK, QdrantTypeOK
<1> QED
  BY <1>1 DEF ApplyWrite, TypeOK, QueueTypeOK, queueVars, budgetVars

LEMMA QdrantStays == QdrantTypeOK /\ UNCHANGED qdrant => QdrantTypeOK'
BY DEF QdrantTypeOK, qdrant

\* The steps of the queue and of the server process.
LEMMA QueueStepType == TypeOK /\ QueueStep => TypeOK'
<1> SUFFICES ASSUME TypeOK, QueueStep PROVE TypeOK'
  OBVIOUS
<1> USE BoundsAssumption
<1>0. UNCHANGED agentVars /\ UNCHANGED qdrant
  BY DEF QueueStep, agentVars, qdrant
<1>1. SUFFICES QueueTypeOK'
  BY <1>0, QdrantStays DEF TypeOK, agentVars
<1>2. CASE Restart
  BY <1>2 DEF TypeOK, QueueTypeOK, Restart, budgetVars
<1>3. ASSUME NEW j \in Jobs, Submit(j) \/ ReplyOk(j) \/ StreamStores(j)
      PROVE  QueueTypeOK'
  BY <1>3 DEF TypeOK, QueueTypeOK, Submit, ReplyOk, StreamStores, budgetVars
<1>4. ASSUME NEW j \in Jobs, ReplyError(j)
      PROVE  QueueTypeOK'
  <2>1. faults' \in 0..MaxFaults
    BY <1>4 DEF TypeOK, QueueTypeOK, ReplyError, Fault
  <2> QED
    BY <1>4, <2>1 DEF TypeOK, QueueTypeOK, ReplyError
<1>4a. ASSUME NEW j \in Jobs, AckWaitExpires(j)
       PROVE  QueueTypeOK'
  <2>1. expiries' \in 0..MaxExpiries
    BY <1>4a DEF TypeOK, QueueTypeOK, AckWaitExpires
  <2> QED
    BY <1>4a, <2>1 DEF TypeOK, QueueTypeOK, AckWaitExpires
<1>5. ASSUME NEW j \in Jobs, NEW w \in Workers, Deliver(j, w)
      PROVE  QueueTypeOK'
  BY <1>5 DEF TypeOK, QueueTypeOK, Deliver, budgetVars
<1>6. ASSUME NEW w \in Workers, Subscribe(w) \/ SubscribeFails(w)
      PROVE  QueueTypeOK'
  BY <1>6, SMTT(30) DEF TypeOK, QueueTypeOK, Subscribe, SubscribeFails, Fault, budgetVars
<1> QED
  BY <1>2, <1>3, <1>4, <1>4a, <1>5, <1>6 DEF QueueStep

LEMMA CrashType == TypeOK /\ Crash => TypeOK'
<1> SUFFICES ASSUME TypeOK, Crash PROVE TypeOK'
  OBVIOUS
<1>1. QueueTypeOK'
  <2>1. crashes' \in 0..MaxCrashes
    BY BoundsAssumption DEF TypeOK, QueueTypeOK, Crash, QueueCrash
  <2>2. /\ http' \in [Jobs -> {"unsent", "publishing", "ok", "error", "cut"}]
        /\ sub' \in [Workers -> {"none", "live", "failed"}]
        /\ inbox' \in [Workers -> Seq(Jobs)]
    BY DEF TypeOK, QueueTypeOK, Crash, QueueCrash
  <2>3. due' = [j \in Jobs |-> stream[j] = "pending"]
    BY DEF Crash, QueueCrash
  <2>4. due' \in [Jobs -> BOOLEAN]
    BY <2>3, Zenon
  <2>5. up' \in BOOLEAN
    BY DEF Crash, QueueCrash
  <2> QED
    BY <2>1, <2>2, <2>4, <2>5 DEF TypeOK, QueueTypeOK, Crash, QueueCrash
<1>2. IdleRun \in Run /\ IdleRun.job = NoJob /\ IdleRun.pc = "idle"
  BY FreshRunType DEF IdleRun, PC
<1> QED
  BY <1>1, <1>2, QdrantStays DEF TypeOK, Crash, stores

LEMMA BeginType ==
  ASSUME TypeOK, NEW w \in Workers, Begin(w)
  PROVE  TypeOK'
<1> DEFINE j == Head(inbox[w])
           r == FreshRun("expand", j, runs[j] + 1)
<1>1. j \in Jobs /\ inbox' \in [Workers -> Seq(Jobs)]
  BY DEF Begin, TypeOK, QueueTypeOK
<1>2. r \in Run /\ r.job = j /\ r.pc = "expand"
  BY <1>1, FreshRunType DEF PC, TypeOK
<1>3. wk' = [wk EXCEPT ![w] = r] /\ runs' = [runs EXCEPT ![j] = @ + 1]
  BY DEF Begin
<1>4. j # NoJob
  BY <1>1, AgentAssumption
<1> HIDE DEF j, r
<1>5. runs' \in [Jobs -> Nat]
  BY <1>1, <1>3 DEF TypeOK
<1>6. wk' \in [Workers -> Run] /\ \A x \in Workers : wk'[x].job = NoJob <=> wk'[x].pc = "idle"
  BY <1>2, <1>3, <1>4 DEF TypeOK
<1>7. QueueTypeOK'
  BY <1>1 DEF Begin, TypeOK, QueueTypeOK, budgetVars
<1>8. core' = core /\ finished' = finished /\ UNCHANGED qdrant
  BY DEF Begin, stores, budgetVars, qdrant
<1> QED
  BY <1>5, <1>6, <1>7, <1>8, QdrantStays DEF TypeOK

LEMMA SettleType ==
  ASSUME TypeOK, NEW w \in Workers, Settle(w)
  PROVE  TypeOK'
<1>1. wk[w].job \in Jobs
  BY BusyHasJob DEF Settle
<1>2. /\ stream' \in [Jobs -> {"absent", "pending", "acked", "termed"}]
      /\ due' \in [Jobs -> BOOLEAN]
  BY <1>1, ZenonT(30) DEF Settle, Settled, SettlementLost, TypeOK, QueueTypeOK
<1>3. faults' \in 0..MaxFaults
  BY FaultsType DEF Settle, TypeOK, QueueTypeOK
<1>4. IdleRun \in Run /\ IdleRun.job = NoJob /\ IdleRun.pc = "idle"
  BY FreshRunType DEF IdleRun, PC
<1> QED
  BY <1>2, <1>3, <1>4, QdrantStays DEF Settle, TypeOK, QueueTypeOK, stores

LEMMA DeadlineType ==
  ASSUME TypeOK, NEW w \in Workers, DeadlineExpires(w)
  PROVE  TypeOK'
<1>1. faults' \in 0..MaxFaults
  BY FaultsType DEF DeadlineExpires, TypeOK, QueueTypeOK
<1>2. wk[w] \in Run /\ [wk[w] EXCEPT !.expired = TRUE] \in Run
  BY RunUpdates DEF TypeOK
<1>3. wk' = [wk EXCEPT ![w] = [wk[w] EXCEPT !.expired = TRUE]]
  BY DEF DeadlineExpires, TypeOK
<1>4. RunsOK'
  BY <1>2, <1>3 DEF TypeOK, RunsOK, DeadlineExpires, Run
<1> QED
  BY <1>1, <1>4, QdrantStays DEF DeadlineExpires, RunsOK, TypeOK, QueueTypeOK, queueVars, stores

\* The steps of a run between Begin and Settle.
LEMMA RunStepsType ==
  ASSUME TypeOK, NEW w \in Workers,
         \/ Expand(w) \/ Search(w) \/ ReadCore(w) \/ GenerateAny(w) \/ WriteCore(w)
         \/ Embed(w) \/ CheckDelete(w) \/ Delete(w) \/ Insert(w)
  PROVE  TypeOK'
<1> DEFINE r == wk[w]
<1>1. /\ RunsOK /\ r \in Run /\ core \in [Users -> SUBSET CoreMem] /\ QdrantTypeOK
      /\ faults \in 0..MaxFaults
  BY DEF TypeOK, RunsOK, QueueTypeOK
<1>2. r.pc # "idle" /\ RunStep /\ faults' \in 0..MaxFaults
  BY <1>1, FaultsType
     DEF Expand, ExpandSkips, ExpandContinues, Search, SearchFinds, SearchFails, ReadCore,
         GenerateAny, GenerateReturns, GenerateFails, WriteCore, Embed, CheckDelete, Delete,
         Insert, At, Returns
<1>3. r.job \in Jobs /\ r.job # NoJob /\ User(w) \in Users
  BY <1>2, BusyHasJob, AgentAssumption
<1>4. r.snap \in SUBSET CoreMem /\ r.shown \in SUBSET Point /\ r.answer \in Answer /\ r.n \in Nat
  BY <1>1 DEF Run
\* Updates of the local variables leave the job alone.
<1>5. \A x : /\ [r EXCEPT !.shown = x].job = r.job
             /\ [r EXCEPT !.snap = x].job = r.job
             /\ [r EXCEPT !.snap = {}, !.readFailed = x].job = r.job
             /\ [r EXCEPT !.answer = x, !.shown = {}].job = r.job
             /\ [r EXCEPT !.embedded = x].job = r.job
             /\ [r EXCEPT !.wrote = x].job = r.job
  BY <1>1 DEF Run
<1> HIDE DEF r
<1>6. CASE Expand(w)
  <2>1. RunsOK'
    BY <1>1, <1>3, <1>6, GotoType, FinishType
       DEF r, Expand, ExpandSkips, ExpandContinues, PC
  <2> QED
    BY <1>1, <1>2, <1>6, <2>1, RunStepType, QdrantStays DEF Expand, ExpandSkips, ExpandContinues, stores
<1>7. CASE Search(w)
  <2>1. \E S \in SUBSET Point : Goto(w, [r EXCEPT !.shown = S], "readCore")
    BY <1>1, <1>7 DEF r, Search, SearchFinds, SearchFails, QdrantTypeOK
  <2>2. RunsOK'
    BY <1>1, <1>3, <1>5, <2>1, RunUpdates, GotoType DEF PC
  <2> QED
    BY <1>1, <1>2, <1>7, <2>2, RunStepType, QdrantStays DEF Search, SearchFinds, SearchFails, stores
<1>8. CASE ReadCore(w)
  <2>1. ASSUME Goto(w, [r EXCEPT !.snap = RedisValue(User(w))], "generate")
        PROVE  RunsOK'
    <3>1. RedisValue(User(w)) \in SUBSET CoreMem
      BY <1>1, <1>3 DEF RedisValue
    <3> QED
      BY <1>1, <1>3, <1>5, <2>1, <3>1, RunUpdates, GotoType DEF PC
  <2>2. ASSUME Goto(w, [r EXCEPT !.snap = {}, !.readFailed = TRUE], "generate")
        PROVE  RunsOK'
    BY <1>1, <1>3, <1>5, <2>2, RunUpdates, GotoType DEF PC
  <2>3. RunsOK'
    BY <1>8, <2>1, <2>2 DEF r, ReadCore
  <2> QED
    BY <1>1, <1>2, <1>8, <2>3, RunStepType, QdrantStays DEF ReadCore, stores
<1>9. CASE GenerateAny(w)
  <2>1. ASSUME NEW a \in AnswersAny(w), GenerateReturns(w, a)
        PROVE  RunsOK'
    <3>1. a \in Answer
      BY AnswersType
    <3>2. Goto(w, [r EXCEPT !.answer = a, !.shown = {}],
               IF Malformed(a) THEN "panic" ELSE "writeCore")
      BY <2>1 DEF GenerateReturns, r
    <3> QED
      BY <1>1, <1>3, <1>5, <3>1, <3>2, RunUpdates, GotoType DEF PC
  <2>2. ASSUME GenerateFails(w)
        PROVE  RunsOK'
    BY <1>1, <1>3, <2>2, FinishType DEF GenerateFails, r
  <2> QED
    BY <1>1, <1>2, <1>9, <2>1, <2>2, RunStepType, QdrantStays
       DEF GenerateAny, GenerateReturns, GenerateFails, stores
<1>10. CASE WriteCore(w)
  <2> DEFINE new == NewCore(r.snap, r.answer, r.job, r.n)
             s == [r EXCEPT !.pc = "embed", !.snap = {}, !.wrote = TRUE]
  <2>1. new \in SUBSET CoreMem
    BY <1>3, <1>4, NewCoreType
  <2>2. core' \in [Users -> SUBSET CoreMem]
    BY <1>1, <1>3, <1>10, <2>1 DEF WriteCore, r
  <2>3. ASSUME Goto(w, [r EXCEPT !.snap = {}], "embed")
        PROVE  RunsOK'
    BY <1>1, <1>3, <1>5, <2>3, RunUpdates, GotoType DEF PC
  <2>4. ASSUME wk' = [x \in Workers |->
                        IF x = w THEN s
                        ELSE IF HoldsSnapshot(x, User(w)) /\ new # core[User(w)]
                             THEN [wk[x] EXCEPT !.stale = TRUE] ELSE wk[x]],
               UNCHANGED finished
        PROVE  RunsOK'
    <3>1. s \in Run /\ s.pc = "embed" /\ s.job = r.job
      BY <1>1 DEF Run, PC
    <3>2. ASSUME NEW x \in Workers
          PROVE  /\ [wk[x] EXCEPT !.stale = TRUE] \in Run
                 /\ [wk[x] EXCEPT !.stale = TRUE].pc = wk[x].pc
                 /\ [wk[x] EXCEPT !.stale = TRUE].job = wk[x].job
      BY <1>1 DEF RunsOK, Run
    <3> HIDE DEF s, new
    <3> QED
      BY <1>1, <1>3, <2>4, <3>1, <3>2 DEF RunsOK
  <2>5. RunsOK'
    BY <1>10, <2>3, <2>4 DEF WriteCore, r
  <2> QED
    BY <1>1, <1>2, <1>10, <2>2, <2>5, RunStepType, QdrantStays DEF WriteCore
<1>11. CASE Embed(w)
  <2>1. RunsOK'
    BY <1>1, <1>3, <1>5, <1>11, RunUpdates, GotoType DEF r, Embed, PC
  <2> QED
    BY <1>1, <1>2, <1>11, <2>1, RunStepType, QdrantStays DEF Embed, stores
<1>12. CASE CheckDelete(w)
  <2>1. RunsOK'
    BY <1>1, <1>3, <1>12, GotoType DEF r, CheckDelete, PC
  <2> QED
    BY <1>1, <1>2, <1>12, <2>1, RunStepType, QdrantStays DEF CheckDelete, stores
<1>13. CASE Delete(w)
  <2>1. RunsOK'
    BY <1>1, <1>3, <1>5, <1>13, RunUpdates, GotoType DEF r, Delete, PC
  <2>2. [op |-> "delete", points |-> Targets(r.answer.general) \intersect Point] \in Write
    BY DEF Write
  <2>3. QdrantTypeOK'
    BY <1>1, <1>13, <2>2, AcceptType, QdrantStays DEF r, Delete
  <2> QED
    BY <1>1, <1>2, <1>13, <2>1, <2>3, RunStepType DEF Delete
<1>14. CASE Insert(w)
  <2>1. ASSUME Finish(w, r, "ack")
        PROVE  RunsOK'
    BY <1>1, <1>3, <2>1, FinishType DEF r
  <2>2. ASSUME Finish(w, [r EXCEPT !.wrote = TRUE], "ack")
        PROVE  RunsOK'
    BY <1>1, <1>3, <1>5, <2>2, RunUpdates, FinishType DEF r
  <2>3. RunsOK'
    BY <1>14, <2>1, <2>2 DEF Insert, r
  <2>4. [op |-> "upsert", points |-> NewPoints(w)] \in Write
    BY <1>2, NewPointsType DEF r, Write
  <2>5. QdrantTypeOK'
    BY <1>1, <1>14, <2>4, AcceptType, QdrantStays DEF Insert, qdrant
  <2> QED
    BY <1>1, <1>2, <1>14, <2>3, <2>5, RunStepType DEF Insert
<1> QED
  BY <1>6, <1>7, <1>8, <1>9, <1>10, <1>11, <1>12, <1>13, <1>14

LEMMA NextTypeAny == TypeOK /\ [NextAny]_vars => TypeOK'
<1> SUFFICES ASSUME TypeOK, [NextAny]_vars PROVE TypeOK'
  OBVIOUS
<1>1. ASSUME NEW w \in Workers, WorkerStepAny(w) PROVE TypeOK'
  BY <1>1, BeginType, SettleType, RunStepsType DEF WorkerStepAny
<1>2. CASE UNCHANGED vars
  BY <1>2 DEF vars, queueVars, budgetVars, agentVars, TypeOK, QueueTypeOK, QdrantTypeOK
<1> QED
  BY <1>1, <1>2, QueueStepType, CrashType, ApplyWriteType, DeadlineType DEF NextAny

LEMMA NextType == TypeOK /\ [Next]_vars => TypeOK'
BY NextTypeAny, NextIsAny

LEMMA InitType == Init => TypeOK
<1> SUFFICES ASSUME Init PROVE TypeOK
  OBVIOUS
<1>1. IdleRun \in Run /\ IdleRun.job = NoJob /\ IdleRun.pc = "idle"
  BY FreshRunType DEF IdleRun, PC
<1>2. due \in [Jobs -> BOOLEAN] /\ up \in BOOLEAN
  BY DEF Init, QueueInit
<1>3. faults \in 0..MaxFaults /\ crashes \in 0..MaxCrashes /\ expiries \in 0..MaxExpiries
  BY BoundsAssumption DEF Init, QueueInit
<1>4. QueueTypeOK
  BY <1>2, <1>3 DEF Init, QueueInit, QueueTypeOK
<1> QED
  BY <1>1, <1>4 DEF Init, TypeOK, QdrantTypeOK

\* The variables keep their types: among others, the inboxes hold jobs, a
\* worker has a job exactly when it is not idle, and both stores hold memories.
THEOREM TypeCorrect == Spec => []TypeOK
BY InitType, NextType, PTL DEF Spec
-----------------------------------------------------------------------------
(* A failed run has left no trace.                                         *)

\* The inductive form: only the states after the first write know a write.
WroteLate ==
  \A w \in Workers : wk[w].wrote => wk[w].pc \in {"embed", "check", "delete", "insert", "ack"}

\* Goto changes the program counter and Finish empties the local variables of
\* one worker.
LEMMA GotoRun ==
  ASSUME wk \in [Workers -> Run], NEW w \in Workers, NEW r \in Run, NEW pc, Goto(w, r, pc)
  PROVE  /\ \A x \in Workers \ {w} : wk'[x] = wk[x]
         /\ wk'[w].pc = pc /\ wk'[w].job = r.job /\ wk'[w].wrote = r.wrote
         /\ wk'[w].snap = r.snap /\ wk'[w].shown = r.shown /\ wk'[w].answer = r.answer
         /\ wk'[w].readFailed = r.readFailed /\ wk'[w].stale = r.stale
         /\ UNCHANGED finished
BY DEF Goto, Run

LEMMA FinishRun ==
  ASSUME wk \in [Workers -> Run], NEW w \in Workers, NEW r \in Run, NEW v, Finish(w, r, v)
  PROVE  /\ \A x \in Workers \ {w} : wk'[x] = wk[x]
         /\ wk'[w].pc = v /\ wk'[w].job = r.job /\ wk'[w].wrote = r.wrote
         /\ wk'[w].snap = {} /\ wk'[w].shown = {} /\ wk'[w].answer = NoAnswer
         /\ finished' = [finished EXCEPT ![wk[w].job] = @ \union {v}]
<1> DEFINE s == [r EXCEPT !.pc = v, !.shown = {}, !.snap = {}, !.answer = NoAnswer]
<1>1. /\ s.pc = v /\ s.job = r.job /\ s.wrote = r.wrote
      /\ s.snap = {} /\ s.shown = {} /\ s.answer = NoAnswer
  BY DEF Run
<1>2. wk' = [wk EXCEPT ![w] = s] /\ finished' = [finished EXCEPT ![wk[w].job] = @ \union {v}]
  BY DEF Finish
<1> HIDE DEF s
<1> QED
  BY <1>1, <1>2

\* The same, step by step: what a step of a run does to the local variables.
LEMMA RunEffects ==
  ASSUME TypeOK, NEW w \in Workers
  PROVE  /\ Expand(w) =>
              /\ \A x \in Workers \ {w} : wk'[x] = wk[x]
              /\ wk'[w].job = wk[w].job /\ wk'[w].wrote = wk[w].wrote
              /\ \/ wk'[w].pc = "search" /\ UNCHANGED finished
                 \/ /\ wk'[w].pc \in {"ack", "term"}
                    /\ finished' = [finished EXCEPT ![wk[w].job] = @ \union {wk'[w].pc}]
         /\ Search(w) =>
              /\ \A x \in Workers \ {w} : wk'[x] = wk[x]
              /\ wk'[w].job = wk[w].job /\ wk'[w].wrote = wk[w].wrote
              /\ wk'[w].pc = "readCore" /\ UNCHANGED finished
         /\ ReadCore(w) =>
              /\ \A x \in Workers \ {w} : wk'[x] = wk[x]
              /\ wk'[w].job = wk[w].job /\ wk'[w].wrote = wk[w].wrote
              /\ wk'[w].pc = "generate" /\ UNCHANGED finished
         /\ GenerateAny(w) =>
              /\ \A x \in Workers \ {w} : wk'[x] = wk[x]
              /\ wk'[w].job = wk[w].job /\ wk'[w].wrote = wk[w].wrote
              /\ \/ wk'[w].pc \in {"panic", "writeCore"} /\ UNCHANGED finished
                 \/ /\ wk'[w].pc = "term"
                    /\ finished' = [finished EXCEPT ![wk[w].job] = @ \union {wk'[w].pc}]
         /\ WriteCore(w) =>
              /\ \A x \in Workers \ {w} : /\ wk'[x].pc = wk[x].pc /\ wk'[x].job = wk[x].job
                                          /\ wk'[x].wrote = wk[x].wrote
              /\ wk'[w].job = wk[w].job
              /\ wk'[w].pc = "embed" /\ UNCHANGED finished
         /\ Embed(w) \/ CheckDelete(w) \/ Delete(w) =>
              /\ \A x \in Workers \ {w} : wk'[x] = wk[x]
              /\ wk'[w].job = wk[w].job
              /\ wk'[w].pc \in {"check", "delete", "insert"} /\ UNCHANGED finished
         /\ Insert(w) =>
              /\ \A x \in Workers \ {w} : wk'[x] = wk[x]
              /\ wk'[w].job = wk[w].job /\ wk'[w].pc = "ack"
              /\ finished' = [finished EXCEPT ![wk[w].job] = @ \union {wk'[w].pc}]
<1>1. wk \in [Workers -> Run] /\ wk[w] \in Run
  BY DEF TypeOK
<1>2. ASSUME Expand(w)
      PROVE  /\ \A x \in Workers \ {w} : wk'[x] = wk[x]
             /\ wk'[w].job = wk[w].job /\ wk'[w].wrote = wk[w].wrote
             /\ \/ wk'[w].pc = "search" /\ UNCHANGED finished
                \/ /\ wk'[w].pc \in {"ack", "term"}
                   /\ finished' = [finished EXCEPT ![wk[w].job] = @ \union {wk'[w].pc}]
  <2>1. Goto(w, wk[w], "search") \/ \E v \in {"ack", "term"} : Finish(w, wk[w], v)
    BY <1>2 DEF Expand, ExpandSkips, ExpandContinues
  <2> QED
    BY <1>1, <2>1, GotoRun, FinishRun
<1>3. ASSUME Search(w)
      PROVE  /\ \A x \in Workers \ {w} : wk'[x] = wk[x]
             /\ wk'[w].job = wk[w].job /\ wk'[w].wrote = wk[w].wrote
             /\ wk'[w].pc = "readCore" /\ UNCHANGED finished
  <2>1. PICK S \in SUBSET Point : Goto(w, [wk[w] EXCEPT !.shown = S], "readCore")
    BY <1>3 DEF TypeOK, QdrantTypeOK, Search, SearchFinds, SearchFails
  <2> DEFINE r == [wk[w] EXCEPT !.shown = S]
  <2>2. r \in Run /\ r.job = wk[w].job /\ r.wrote = wk[w].wrote
    BY <1>1 DEF Run
  <2>3. Goto(w, r, "readCore")
    BY <2>1
  <2> HIDE DEF r
  <2> QED
    BY <1>1, <2>2, <2>3, GotoRun DEF Goto
<1>4. ASSUME ReadCore(w)
      PROVE  /\ \A x \in Workers \ {w} : wk'[x] = wk[x]
             /\ wk'[w].job = wk[w].job /\ wk'[w].wrote = wk[w].wrote
             /\ wk'[w].pc = "generate" /\ UNCHANGED finished
  BY <1>1, <1>4 DEF ReadCore, Goto, Run
<1>5. ASSUME GenerateAny(w)
      PROVE  /\ \A x \in Workers \ {w} : wk'[x] = wk[x]
             /\ wk'[w].job = wk[w].job /\ wk'[w].wrote = wk[w].wrote
             /\ \/ wk'[w].pc \in {"panic", "writeCore"} /\ UNCHANGED finished
                \/ /\ wk'[w].pc = "term"
                   /\ finished' = [finished EXCEPT ![wk[w].job] = @ \union {wk'[w].pc}]
  <2>1. CASE GenerateFails(w)
    BY <1>1, <2>1, FinishRun DEF GenerateFails
  <2>2. ASSUME NEW a, GenerateReturns(w, a)
        PROVE  /\ \A x \in Workers \ {w} : wk'[x] = wk[x]
               /\ wk'[w].job = wk[w].job /\ wk'[w].wrote = wk[w].wrote
               /\ wk'[w].pc \in {"panic", "writeCore"} /\ UNCHANGED finished
    BY <1>1, <2>2 DEF GenerateReturns, Goto, Run
  <2> QED
    BY <1>5, <2>1, <2>2 DEF GenerateAny
<1>6. ASSUME WriteCore(w)
      PROVE  /\ \A x \in Workers \ {w} : /\ wk'[x].pc = wk[x].pc /\ wk'[x].job = wk[x].job
                                         /\ wk'[x].wrote = wk[x].wrote
             /\ wk'[w].job = wk[w].job
             /\ wk'[w].pc = "embed" /\ UNCHANGED finished
  <2>1. CASE Goto(w, [wk[w] EXCEPT !.snap = {}], "embed")
    BY <1>1, <2>1 DEF Goto, Run
  <2>2. CASE /\ \A x \in Workers \ {w} : wk'[x] = [wk[x] EXCEPT !.stale = TRUE] \/ wk'[x] = wk[x]
             /\ wk'[w] = [wk[w] EXCEPT !.pc = "embed", !.snap = {}, !.wrote = TRUE]
             /\ UNCHANGED finished
    <3>1. /\ wk'[w].pc = "embed" /\ wk'[w].job = wk[w].job
      BY <1>1, <2>2 DEF Run
    <3>2. ASSUME NEW x \in Workers \ {w}
          PROVE  wk'[x].pc = wk[x].pc /\ wk'[x].job = wk[x].job /\ wk'[x].wrote = wk[x].wrote
      <4>1. wk[x] \in Run
        BY <1>1
      <4>2. wk'[x] = [wk[x] EXCEPT !.stale = TRUE] \/ wk'[x] = wk[x]
        BY <2>2
      <4> QED
        BY <4>1, <4>2 DEF Run
    <3> QED
      BY <2>2, <3>1, <3>2
  <2> QED
    BY <1>6, <2>1, <2>2 DEF WriteCore
<1>7. ASSUME Embed(w) \/ CheckDelete(w) \/ Delete(w)
      PROVE  /\ \A x \in Workers \ {w} : wk'[x] = wk[x]
             /\ wk'[w].job = wk[w].job
             /\ wk'[w].pc \in {"check", "delete", "insert"} /\ UNCHANGED finished
  BY <1>1, <1>7, ZenonT(30) DEF Embed, CheckDelete, Delete, Goto, Run
<1>8. ASSUME Insert(w)
      PROVE  /\ \A x \in Workers \ {w} : wk'[x] = wk[x]
             /\ wk'[w].job = wk[w].job /\ wk'[w].pc = "ack"
             /\ finished' = [finished EXCEPT ![wk[w].job] = @ \union {wk'[w].pc}]
  <2>1. PICK r \in Run : Finish(w, r, "ack") /\ r.job = wk[w].job
    <3>1. [wk[w] EXCEPT !.wrote = TRUE] \in Run
      BY <1>1 DEF Run
    <3>2. [wk[w] EXCEPT !.wrote = TRUE].job = wk[w].job
      BY <1>1 DEF Run
    <3> QED
      BY <1>1, <1>8, <3>1, <3>2 DEF Insert
  <2> QED
    BY <1>1, <2>1, FinishRun
<1> QED
  BY <1>2, <1>3, <1>4, <1>5, <1>6, <1>7, <1>8

LEMMA WroteLateNext == TypeOK /\ WroteLate /\ [NextAny]_vars => WroteLate'
<1> SUFFICES ASSUME TypeOK, WroteLate, [NextAny]_vars PROVE WroteLate'
  OBVIOUS
<1>1. wk \in [Workers -> Run]
  BY DEF TypeOK
<1>2. ASSUME NEW pc, NEW j, NEW n PROVE ~FreshRun(pc, j, n).wrote
  BY DEF FreshRun
<1>3. CASE Crash
  BY <1>2, <1>3 DEF Crash, WroteLate, IdleRun
<1>4. CASE QueueStep \/ ApplyWrite \/ UNCHANGED vars
  BY <1>4 DEF QueueStep, ApplyWrite, vars, agentVars, WroteLate
<1>5. ASSUME NEW w \in Workers, DeadlineExpires(w) PROVE WroteLate'
  BY <1>1, <1>5 DEF DeadlineExpires, WroteLate, Run
<1>6. ASSUME NEW w \in Workers, WorkerStepAny(w) PROVE WroteLate'
  <2>1. CASE Begin(w) \/ Settle(w)
    BY <1>1, <1>2, <2>1 DEF Begin, Settle, IdleRun, WroteLate
  <2>2. CASE Expand(w) \/ Search(w) \/ ReadCore(w) \/ GenerateAny(w)
    <3>1. ~wk[w].wrote
      BY <2>2 DEF Expand, ExpandSkips, ExpandContinues, Search, ReadCore, GenerateAny, At, WroteLate
    <3> QED
      BY <2>2, <3>1, RunEffects DEF WroteLate
  <2>3. CASE WriteCore(w) \/ Embed(w) \/ CheckDelete(w) \/ Delete(w) \/ Insert(w)
    BY <2>3, RunEffects DEF WroteLate
  <2> QED
    BY <1>6, <2>1, <2>2, <2>3 DEF WorkerStepAny
<1> QED
  BY <1>3, <1>4, <1>5, <1>6 DEF NextAny

\* A run that ends with an error, or with a panic, has written nothing to Redis
\* and nothing to Qdrant.
THEOREM FailuresAreClean == Spec => []FailedRunLeftNoTrace
<1>1. Init => WroteLate
  BY DEF Init, WroteLate, IdleRun, FreshRun
<1>2. WroteLate => FailedRunLeftNoTrace
  BY DEF WroteLate, FailedRunLeftNoTrace
<1> QED
  BY <1>1, <1>2, TypeCorrect, WroteLateNext, NextIsAny, PTL DEF Spec
=============================================================================
