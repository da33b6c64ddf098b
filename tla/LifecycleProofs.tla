--------------------------- MODULE LifecycleProofs ---------------------------
(***************************************************************************)
(* MemoryAgent implements JobLifecycle: every step of the queue, of a      *)
(* worker and of the process is a step of the life of one job, or none.    *)
(***************************************************************************)
EXTENDS MemoryAgentProofs

\* Only stored messages are due, buffered or worked on, and a run that is about
\* to settle its message has put its verdict on record.
OnlyStored ==
  /\ \A j \in Jobs : due[j] => stream[j] # "absent"
  /\ \A w \in Workers : \A i \in 1..Len(inbox[w]) : stream[inbox[w][i]] # "absent"
  /\ \A w \in Workers : wk[w].job # NoJob => stream[wk[w].job] # "absent"

VerdictRecorded ==
  \A w \in Workers : wk[w].pc \in {"ack", "term"} => wk[w].pc \in finished[wk[w].job]

\* A stored message stays in the stream's books.
LEMMA StaysStored ==
  ASSUME TypeOK, [Next]_vars, NEW j \in Jobs, stream[j] # "absent"
  PROVE  stream'[j] # "absent"
<1>1. CASE QueueStep
  BY <1>1 DEF QueueStep, Restart, Submit, ReplyOk, ReplyError, StreamStores, AckWaitExpires,
              Deliver, Subscribe, SubscribeFails, TypeOK, QueueTypeOK
<1>2. CASE Crash
  BY <1>2 DEF Crash, QueueCrash
<1>3. ASSUME NEW w \in Workers, WorkerStep(w) PROVE stream'[j] # "absent"
  <2>1. CASE Settle(w)
    BY <2>1 DEF Settle, Settled, SettlementLost, TypeOK, QueueTypeOK
  <2>2. CASE Begin(w)
    BY <2>2 DEF Begin
  <2>3. CASE RunStep
    BY <2>3 DEF RunStep, queueVars
  <2> QED
    BY <1>3, <2>1, <2>2, <2>3
       DEF WorkerStep, Expand, ExpandSkips, ExpandContinues, Search, SearchFinds, SearchFails,
           ReadCore, Generate, GenerateReturns, GenerateFails, WriteCore, Embed, CheckDelete,
           Delete, Insert
<1>4. CASE \E w \in Workers : DeadlineExpires(w)
  BY <1>4 DEF DeadlineExpires, queueVars
<1>5. CASE ApplyWrite \/ UNCHANGED vars
  BY <1>5 DEF ApplyWrite, vars, queueVars
<1> QED
  BY <1>1, <1>2, <1>3, <1>4, <1>5 DEF Next

\* What every step between Begin and Settle has in common.
LEMMA RunStepCommon ==
  ASSUME TypeOK, NEW w \in Workers, WorkerStep(w), ~Begin(w), ~Settle(w)
  PROVE  /\ RunStep
         /\ \A x \in Workers : wk'[x].job = wk[x].job
         /\ \A x \in Workers \ {w} : wk'[x].pc = wk[x].pc
         /\ \/ wk'[w].pc \notin {"ack", "term"} /\ UNCHANGED finished
            \/ /\ wk'[w].pc \in {"ack", "term"}
               /\ finished' = [finished EXCEPT ![wk[w].job] = @ \union {wk'[w].pc}]
         /\ wk[w].job \in Jobs
<1>1. \/ Expand(w) \/ Search(w) \/ ReadCore(w) \/ Generate(w) \/ WriteCore(w)
      \/ Embed(w) \/ CheckDelete(w) \/ Delete(w) \/ Insert(w)
  BY DEF WorkerStep
<1>2. RunStep /\ wk[w].pc # "idle"
  BY <1>1 DEF Expand, ExpandSkips, ExpandContinues, Search, SearchFinds, SearchFails, At,
              ReadCore, Generate, GenerateReturns, GenerateFails, WriteCore, Embed,
              CheckDelete, Delete, Insert
<1> QED
  BY <1>1, <1>2, GenerateIsAny, RunEffects, BusyHasJob

LEMMA OnlyStoredNext == TypeOK /\ OnlyStored /\ [Next]_vars => OnlyStored'
<1> SUFFICES ASSUME TypeOK, OnlyStored, [Next]_vars PROVE OnlyStored'
  OBVIOUS
<1> DEFINE Kept == /\ \A j \in Jobs : due'[j] => due[j] \/ stream'[j] # "absent"
                   /\ \A w \in Workers : \A i \in 1..Len(inbox'[w]) :
                        inbox'[w][i] \in Jobs /\ stream[inbox'[w][i]] # "absent"
                   /\ \A w \in Workers : wk'[w].job # NoJob =>
                        wk'[w].job \in Jobs /\ stream[wk'[w].job] # "absent"
<1>1. SUFFICES Kept
  BY <1>1, StaysStored DEF OnlyStored
<1>2. /\ \A w \in Workers : inbox[w] \in Seq(Jobs)
      /\ \A w \in Workers : wk[w].job # NoJob => wk[w].job \in Jobs
  BY DEF TypeOK, QueueTypeOK, Run
<1>3. (UNCHANGED <<due, inbox>> /\ \A w \in Workers : wk'[w].job = wk[w].job) => Kept
  BY <1>2 DEF OnlyStored
<1>4. CASE QueueStep
  <2>1. UNCHANGED wk
    BY <1>4 DEF QueueStep, agentVars
  <2>2. CASE UNCHANGED <<due, inbox>>
    BY <1>3, <2>1, <2>2
  <2>3. ASSUME NEW j \in Jobs, StreamStores(j) PROVE Kept
    BY <1>2, <2>1, <2>3 DEF StreamStores, OnlyStored, TypeOK, QueueTypeOK
  <2>4. ASSUME NEW j \in Jobs, AckWaitExpires(j) PROVE Kept
    BY <1>2, <2>1, <2>4 DEF AckWaitExpires, OnlyStored, TypeOK, QueueTypeOK
  <2>5. ASSUME NEW j \in Jobs, NEW w \in Workers, Deliver(j, w) PROVE Kept
    <3>1. \A i \in 1..Len(inbox'[w]) : inbox'[w][i] = j \/ \E k \in 1..Len(inbox[w]) : inbox'[w][i] = inbox[w][k]
      BY <1>2, <2>5 DEF Deliver, TypeOK, QueueTypeOK
    <3>2. \A x \in Workers \ {w} : inbox'[x] = inbox[x]
      BY <2>5 DEF Deliver, TypeOK, QueueTypeOK
    <3>3. stream[j] # "absent"
      BY <2>5 DEF Deliver, OnlyStored
    <3>4. \A k \in Jobs : due'[k] => due[k]
      BY <2>5 DEF Deliver, TypeOK, QueueTypeOK
    <3> QED
      BY <1>2, <2>1, <3>1, <3>2, <3>3, <3>4 DEF OnlyStored
  <2> QED
    BY <1>4, <2>2, <2>3, <2>4, <2>5
       DEF QueueStep, Restart, Submit, ReplyOk, ReplyError, Subscribe, SubscribeFails
<1>5. CASE Crash
  <2>1. /\ \A j \in Jobs : due'[j] => stream'[j] # "absent"
        /\ \A w \in Workers : inbox'[w] = <<>> /\ wk'[w].job = NoJob
    BY <1>5 DEF Crash, QueueCrash, IdleRun, FreshRun
  <2> QED
    BY <2>1
<1>6. ASSUME NEW w \in Workers, WorkerStep(w) PROVE Kept
  <2>1. CASE Begin(w)
    <3>1. /\ Head(inbox[w]) = inbox[w][1] /\ 1 \in 1..Len(inbox[w])
          /\ \A i \in 1..Len(inbox'[w]) : i + 1 \in 1..Len(inbox[w]) /\ inbox'[w][i] = inbox[w][i + 1]
      BY <1>2, <2>1 DEF Begin, TypeOK, QueueTypeOK
    <3>2. \A x \in Workers \ {w} : inbox'[x] = inbox[x] /\ wk'[x] = wk[x]
      BY <2>1 DEF Begin, TypeOK, QueueTypeOK
    <3>3. wk'[w].job = Head(inbox[w]) /\ UNCHANGED due
      BY <2>1 DEF Begin, TypeOK, FreshRun
    <3>4. \A i \in 1..Len(inbox[w]) : inbox[w][i] \in Jobs /\ stream[inbox[w][i]] # "absent"
      BY <1>2 DEF OnlyStored
    <3>5. \A i \in 1..Len(inbox'[w]) : inbox'[w][i] \in Jobs /\ stream[inbox'[w][i]] # "absent"
      BY <3>1, <3>4
    <3>6. wk'[w].job \in Jobs /\ stream[wk'[w].job] # "absent"
      BY <3>1, <3>3, <3>4
    <3> QED
      BY <1>2, <3>2, <3>3, <3>5, <3>6 DEF OnlyStored
  <2>2. CASE Settle(w)
    <3>1. wk[w].job \in Jobs /\ UNCHANGED inbox
      BY <2>2, BusyHasJob DEF Settle
    <3>2. \A x \in Workers : wk'[x].job = NoJob \/ wk'[x] = wk[x]
      BY <2>2 DEF Settle, TypeOK, IdleRun, FreshRun
    <3>3. stream[wk[w].job] # "absent"
      BY <3>1, AgentAssumption DEF OnlyStored
    <3>4. \A j \in Jobs : due'[j] => due[j] \/ j = wk[w].job
      BY <2>2, <3>1 DEF Settle, Settled, SettlementLost, TypeOK, QueueTypeOK
    <3> QED
      BY <1>2, <3>1, <3>2, <3>3, <3>4, StaysStored DEF OnlyStored
  <2>3. CASE ~Begin(w) /\ ~Settle(w)
    BY <1>3, <1>6, <2>3, RunStepCommon DEF RunStep, queueVars
  <2> QED
    BY <2>1, <2>2, <2>3
<1>7. ASSUME NEW w \in Workers, DeadlineExpires(w) PROVE Kept
  <2>1. \A x \in Workers : wk'[x].job = wk[x].job
    BY <1>7 DEF DeadlineExpires, TypeOK, Run
  <2> QED
    BY <1>3, <1>7, <2>1 DEF DeadlineExpires, queueVars
<1>8. CASE ApplyWrite \/ UNCHANGED vars
  BY <1>3, <1>8 DEF ApplyWrite, vars, queueVars, agentVars
<1> QED
  BY <1>4, <1>5, <1>6, <1>7, <1>8 DEF Next

LEMMA VerdictNext == TypeOK /\ VerdictRecorded /\ [Next]_vars => VerdictRecorded'
<1> SUFFICES ASSUME TypeOK, VerdictRecorded, [Next]_vars PROVE VerdictRecorded'
  OBVIOUS
<1>1. CASE QueueStep \/ ApplyWrite \/ UNCHANGED vars
  BY <1>1 DEF QueueStep, ApplyWrite, vars, agentVars, VerdictRecorded
<1>2. CASE Crash
  BY <1>2 DEF Crash, IdleRun, FreshRun, VerdictRecorded
<1>3. ASSUME NEW w \in Workers, DeadlineExpires(w) PROVE VerdictRecorded'
  <2>1. \A x \in Workers : wk'[x].pc = wk[x].pc /\ wk'[x].job = wk[x].job
    BY <1>3 DEF DeadlineExpires, TypeOK, Run
  <2> QED
    BY <1>3, <2>1 DEF DeadlineExpires, VerdictRecorded
<1>4. ASSUME NEW w \in Workers, WorkerStep(w) PROVE VerdictRecorded'
  <2>1. CASE Begin(w) \/ Settle(w)
    BY <2>1, SMTT(30) DEF Begin, Settle, IdleRun, FreshRun, TypeOK, VerdictRecorded
  <2>2. CASE ~Begin(w) /\ ~Settle(w)
    <3>1. \A j \in Jobs : finished[j] \subseteq finished'[j]
      BY <1>4, <2>2, RunStepCommon DEF TypeOK
    <3>2. wk'[w].pc \in {"ack", "term"} => wk'[w].pc \in finished'[wk'[w].job]
      BY <1>4, <2>2, RunStepCommon DEF TypeOK
    <3>3. \A x \in Workers : wk[x].pc \in {"ack", "term"} => wk[x].job \in Jobs
      BY BusyHasJob
    <3> QED
      BY <1>4, <2>2, <3>1, <3>2, <3>3, RunStepCommon DEF VerdictRecorded
  <2> QED
    BY <2>1, <2>2
<1> QED
  BY <1>1, <1>2, <1>3, <1>4 DEF Next
-----------------------------------------------------------------------------
(* The refinement.                                                         *)

\* Each step of MemoryAgent is a step of JobLifecycle or leaves it alone.
LEMMA StepImplements ==
  TypeOK /\ OnlyStored /\ VerdictRecorded /\ [Next]_vars
    => [Lifecycle!Next]_(Lifecycle!vars)
<1> SUFFICES ASSUME TypeOK, OnlyStored, VerdictRecorded, [Next]_vars
             PROVE  Lifecycle!Next \/ UNCHANGED <<http, stream, finished>>
  BY DEF Lifecycle!vars
<1>1. CASE QueueStep
  <2>1. UNCHANGED finished
    BY <1>1 DEF QueueStep, agentVars
  <2>2. ASSUME NEW j \in Jobs, Submit(j) PROVE Lifecycle!Request(j)
    BY <2>1, <2>2 DEF Submit, Lifecycle!Request
  <2>3. ASSUME NEW j \in Jobs, ReplyOk(j) PROVE Lifecycle!AnswerOk(j)
    BY <2>1, <2>3 DEF ReplyOk, Lifecycle!AnswerOk
  <2>4. ASSUME NEW j \in Jobs, ReplyError(j) PROVE Lifecycle!AnswerError(j)
    BY <2>1, <2>4 DEF ReplyError, Lifecycle!AnswerError
  <2>5. ASSUME NEW j \in Jobs, StreamStores(j) PROVE Lifecycle!Store(j)
    BY <2>1, <2>5 DEF StreamStores, Lifecycle!Store
  <2>6. CASE UNCHANGED <<http, stream>>
    BY <2>1, <2>6
  <2> QED
    BY <1>1, <2>2, <2>3, <2>4, <2>5, <2>6
       DEF QueueStep, Restart, AckWaitExpires, Deliver, Subscribe, SubscribeFails, Lifecycle!Next
<1>2. CASE Crash
  BY <1>2 DEF Crash, QueueCrash, Lifecycle!Next, Lifecycle!Cut
<1>3. ASSUME NEW w \in Workers, WorkerStep(w)
      PROVE  Lifecycle!Next \/ UNCHANGED <<http, stream, finished>>
  <2>1. CASE Begin(w)
    BY <2>1 DEF Begin
  <2>2. CASE Settle(w)
    <3>1. wk[w].job \in Jobs /\ wk[w].pc \in {"ack", "term"} /\ wk[w].pc \in finished[wk[w].job]
      BY <2>2, BusyHasJob DEF Settle, VerdictRecorded
    <3>2. UNCHANGED <<http, finished>>
      BY <2>2 DEF Settle
    <3>3. CASE UNCHANGED stream
      BY <3>2, <3>3
    <3>4. CASE stream' # stream
      <4>1. /\ stream[wk[w].job] = "pending"
            /\ stream' = [stream EXCEPT ![wk[w].job] =
                            IF wk[w].pc = "ack" THEN "acked" ELSE "termed"]
        BY <2>2, <3>4 DEF Settle, Settled, SettlementLost
      <4>2. Lifecycle!Settle(wk[w].job, wk[w].pc)
        BY <3>1, <3>2, <4>1 DEF Lifecycle!Settle, Lifecycle!SettledAs
      <4> QED
        BY <3>1, <4>2 DEF Lifecycle!Next, Lifecycle!Verdicts
    <3> QED
      BY <3>3, <3>4
  <2>3. CASE ~Begin(w) /\ ~Settle(w)
    <3>1. UNCHANGED <<http, stream>> /\ wk[w].job \in Jobs
      BY <1>3, <2>3, RunStepCommon DEF RunStep, queueVars
    <3>2. CASE UNCHANGED finished
      BY <3>1, <3>2
    <3>3. ASSUME NEW v \in {"ack", "term"},
                 finished' = [finished EXCEPT ![wk[w].job] = @ \union {v}]
          PROVE  Lifecycle!Next
      <4>1. stream[wk[w].job] # "absent"
        BY <3>1, AgentAssumption DEF OnlyStored
      <4>2. Lifecycle!RunEnds(wk[w].job, v)
        BY <3>1, <3>3, <4>1 DEF Lifecycle!RunEnds
      <4> QED
        BY <3>1, <4>2 DEF Lifecycle!Next, Lifecycle!Verdicts
    <3> QED
      BY <1>3, <2>3, <3>2, <3>3, RunStepCommon
  <2> QED
    BY <2>1, <2>2, <2>3
<1>4. CASE \E w \in Workers : DeadlineExpires(w)
  BY <1>4 DEF DeadlineExpires, queueVars
<1>5. CASE ApplyWrite \/ UNCHANGED vars
  BY <1>5 DEF ApplyWrite, vars, queueVars, agentVars
<1> QED
  BY <1>1, <1>2, <1>3, <1>4, <1>5 DEF Next

\* However jobs are delivered, run, cut by crashes and delivered again, "queued"
\* is answered only for a stored job, a stored job stays until a run of it has
\* ended, and it is settled once, by the verdict of such a run.
THEOREM Implements == Spec => LifecycleSpec
<1>1. Init => OnlyStored /\ VerdictRecorded
  BY DEF Init, QueueInit, OnlyStored, VerdictRecorded, IdleRun, FreshRun
<1>2. Init => Lifecycle!Init
  BY DEF Init, QueueInit, Lifecycle!Init
<1> QED
  BY <1>1, <1>2, TypeCorrect, OnlyStoredNext, VerdictNext, StepImplements, PTL
     DEF Spec, LifecycleSpec, Lifecycle!Spec

\* The promises of JobLifecycle hold of any behaviour of it.
LEMMA LifecycleSafe == LifecycleSpec => [](Lifecycle!TypeOK /\ Lifecycle!JobIsSafe)
<1> USE DEF Lifecycle!Verdicts, Lifecycle!HttpStates, Lifecycle!StreamStates, Lifecycle!SettledAs
<1> DEFINE Safe == Lifecycle!TypeOK /\ Lifecycle!JobIsSafe
<1>1. Lifecycle!Init => Safe
  BY DEF Lifecycle!Init, Lifecycle!TypeOK, Lifecycle!JobIsSafe
<1>2. Safe /\ [Lifecycle!Next]_(Lifecycle!vars) => Safe'
  <2> SUFFICES ASSUME Safe, [Lifecycle!Next]_(Lifecycle!vars) PROVE Safe'
    OBVIOUS
  <2>1. CASE UNCHANGED Lifecycle!vars
    BY <2>1 DEF Lifecycle!vars, Lifecycle!TypeOK, Lifecycle!JobIsSafe
  <2>2. CASE Lifecycle!Cut
    BY <2>2 DEF Lifecycle!Cut, Lifecycle!TypeOK, Lifecycle!JobIsSafe
  <2>3. ASSUME NEW j \in Jobs, Lifecycle!Request(j) \/ Lifecycle!Store(j)
        PROVE  Safe'
    BY <2>3 DEF Lifecycle!Request, Lifecycle!Store, Lifecycle!TypeOK, Lifecycle!JobIsSafe
  <2>4. ASSUME NEW j \in Jobs, Lifecycle!AnswerOk(j) \/ Lifecycle!AnswerError(j)
        PROVE  Safe'
    BY <2>4 DEF Lifecycle!AnswerOk, Lifecycle!AnswerError, Lifecycle!TypeOK, Lifecycle!JobIsSafe
  <2>5. ASSUME NEW j \in Jobs, NEW v \in Lifecycle!Verdicts,
               Lifecycle!RunEnds(j, v) \/ Lifecycle!Settle(j, v)
        PROVE  Safe'
    BY <2>5 DEF Lifecycle!RunEnds, Lifecycle!Settle, Lifecycle!TypeOK, Lifecycle!JobIsSafe
  <2> QED
    BY <2>1, <2>2, <2>3, <2>4, <2>5 DEF Lifecycle!Next
<1> QED
  BY <1>1, <1>2, PTL DEF LifecycleSpec, Lifecycle!Spec

\* An accepted job is never lost before a run of it has ended, and the way its
\* message left the stream is the verdict of such a run.
THEOREM AcceptedJobsAreSafe == Spec => []AcceptedJobIsSafe
BY Implements, LifecycleSafe, PTL DEF AcceptedJobIsSafe
=============================================================================
