--------------------------- MODULE CurationProofs ---------------------------
(***************************************************************************)
(* Theorems about IdealCuration: what the code makes of a search and an    *)
(* LLM that do what they are asked to, for any jobs, workers, users, facts *)
(* and topics and any values of the bounds.                                *)
(***************************************************************************)
EXTENDS IdealCuration, StoreProofs

-----------------------------------------------------------------------------
(* An ideal run is a run.                                                  *)

Fact(w) == Says[wk[w].job]

LEMMA FactType == ASSUME NEW w, wk[w].job \in Jobs PROVE Fact(w) \in Texts
BY CurationAssumption DEF Fact

\* What a curation names: shown memories to delete, and the fact if it is new.
LEMMA CuratedActions ==
  ASSUME NEW S, NEW t \in Texts
  PROVE  Curated(S, t) \subseteq Inserts \union Deletes(S)
BY DEF Curated, Inserts, Deletes

LEMMA PlanIsAnswer ==
  ASSUME TypeOK, NEW w \in Workers, wk[w].pc = "generate"
  PROVE  IdealPlan(w) \in AnswersAny(w)
<1>1. wk[w].job \in Jobs /\ Says[wk[w].job] \in Texts
  BY BusyHasJob, CurationAssumption
<1> DEFINE t == Says[wk[w].job]
           acts == Inserts \union Deletes(wk[w].snap \union wk[w].shown)
<1>2. Curated(wk[w].snap, t) \subseteq acts /\ Curated(wk[w].shown, t) \subseteq acts
  BY <1>1, CuratedActions DEF Deletes
<1> HIDE DEF t
<1>3. IdealPlan(w) \in [core : SUBSET acts, general : SUBSET acts]
  BY <1>2 DEF IdealPlan, t
<1> QED
  BY <1>3 DEF AnswersAny

LEMMA IdealWorkerIsAny ==
  ASSUME TypeOK, NEW w \in Workers, IdealWorkerStep(w)
  PROVE  WorkerStepAny(w)
<1>1. CASE At(w, "generate") /\ (GenerateReturns(w, IdealPlan(w)) \/ GenerateFails(w))
  BY <1>1, PlanIsAnswer DEF At, GenerateAny, WorkerStepAny
<1>2. CASE At(w, "search") /\ (SearchFinds(w, PointsOf(User(w))) \/ SearchFails(w))
  <2>1. PointsOf(User(w)) \in SUBSET {p \in points : p.user = User(w)}
    BY DEF PointsOf
  <2>2. Search(w)
    BY <1>2, <2>1 DEF Search
  <2> QED
    BY <2>2 DEF WorkerStepAny
<1> QED
  BY <1>1, <1>2 DEF IdealWorkerStep, WorkerStepAny, Expand

LEMMA IdealIsAny == TypeOK /\ [IdealNext]_idealVars => [NextAny]_vars
BY IdealWorkerIsAny DEF IdealNext, IdealCrash, NextAny, idealVars

LEMMA IdealTypes == IdealSpec => [](TypeOK /\ UserIsolation)
<1>1. IdealInit => TypeOK /\ UserIsolation
  BY InitType DEF IdealInit, Init, UserIsolation, IdleRun, FreshRun
<1>2. TypeOK /\ UserIsolation /\ [IdealNext]_idealVars => (TypeOK /\ UserIsolation)'
  BY IdealIsAny, NextTypeAny, IsolationNextAny
<1> QED
  BY <1>1, <1>2, PTL DEF IdealSpec
-----------------------------------------------------------------------------
(* What a step does to the local variables of the runs.                    *)

\* The local variables that the invariants of this module are about.
SameView(x) ==
  /\ wk'[x].pc = wk[x].pc /\ wk'[x].job = wk[x].job /\ wk'[x].n = wk[x].n
  /\ wk'[x].shown = wk[x].shown /\ wk'[x].snap = wk[x].snap
  /\ wk'[x].answer = wk[x].answer /\ wk'[x].embedded = wk[x].embedded

LEMMA GotoView ==
  ASSUME wk \in [Workers -> Run], NEW w \in Workers, NEW r \in Run, NEW pc, Goto(w, r, pc)
  PROVE  /\ \A x \in Workers \ {w} : wk'[x] = wk[x]
         /\ wk'[w].pc = pc /\ wk'[w].job = r.job /\ wk'[w].n = r.n
         /\ wk'[w].shown = r.shown /\ wk'[w].snap = r.snap
         /\ wk'[w].answer = r.answer /\ wk'[w].embedded = r.embedded
BY DEF Goto, Run

LEMMA FinishView ==
  ASSUME wk \in [Workers -> Run], NEW w \in Workers, NEW r \in Run, NEW v, Finish(w, r, v)
  PROVE  /\ \A x \in Workers \ {w} : wk'[x] = wk[x]
         /\ wk'[w].pc = v /\ wk'[w].job = r.job /\ wk'[w].n = r.n
<1> DEFINE s == [r EXCEPT !.pc = v, !.shown = {}, !.snap = {}, !.answer = NoAnswer]
<1>1. s.pc = v /\ s.job = r.job /\ s.n = r.n
  BY DEF Run
<1>2. wk' = [wk EXCEPT ![w] = s]
  BY DEF Finish
<1> HIDE DEF s
<1> QED
  BY <1>1, <1>2

\* The job and the number of a run stay from Begin to Settle.
SameJob(w) == wk'[w].job = wk[w].job /\ wk'[w].n = wk[w].n

LEMMA BeginView ==
  ASSUME TypeOK, NEW w \in Workers, Begin(w)
  PROVE  LET j == Head(inbox[w]) IN
         /\ wk[w].pc = "idle" /\ wk'[w].pc = "expand"
         /\ j \in Jobs /\ wk'[w].job = j /\ wk'[w].n = runs[j] + 1
         /\ runs' = [runs EXCEPT ![j] = @ + 1]
         /\ UNCHANGED <<core, qdrant, stream>>
<1>1. Head(inbox[w]) \in Jobs
  BY DEF Begin, TypeOK, QueueTypeOK
<1>2. \A j, n : FreshRun("expand", j, n).pc = "expand" /\ FreshRun("expand", j, n).job = j
                /\ FreshRun("expand", j, n).n = n
  BY DEF FreshRun
<1> QED
  BY <1>1, <1>2 DEF Begin, At, stores, TypeOK

LEMMA ExpandView ==
  ASSUME TypeOK, NEW w \in Workers, ExpandContinues(w)
  PROVE  /\ wk[w].pc = "expand" /\ wk'[w].pc \in {"search", "term"} /\ SameJob(w)
         /\ UNCHANGED <<core, qdrant, stream, runs>>
<1>1. wk[w] \in Run /\ wk \in [Workers -> Run]
  BY DEF TypeOK
<1>2. Goto(w, wk[w], "search") \/ Finish(w, wk[w], "term")
  BY DEF ExpandContinues
<1> QED
  BY <1>1, <1>2, GotoView, FinishView DEF ExpandContinues, At, SameJob, RunStep, queueVars, stores

LEMMA SearchView ==
  ASSUME TypeOK, NEW w \in Workers, At(w, "search"),
         SearchFinds(w, PointsOf(User(w))) \/ SearchFails(w)
  PROVE  /\ wk'[w].pc = "readCore" /\ SameJob(w)
         /\ SearchFails(w) \/ wk'[w].shown = PointsOf(User(w))
         /\ UNCHANGED <<core, qdrant, stream, runs>>
<1>1. wk \in [Workers -> Run]
  BY DEF TypeOK
<1>2. PICK S \in SUBSET Point : /\ Goto(w, [wk[w] EXCEPT !.shown = S], "readCore")
                                /\ SearchFails(w) \/ S = PointsOf(User(w))
  <2>1. PointsOf(User(w)) \in SUBSET Point /\ {} \in SUBSET Point
    BY DEF TypeOK, QdrantTypeOK, PointsOf
  <2>2. CASE SearchFinds(w, PointsOf(User(w)))
    BY <2>1, <2>2 DEF SearchFinds
  <2>3. CASE SearchFails(w)
    BY <2>1, <2>3 DEF SearchFails
  <2> QED
    BY <2>2, <2>3
<1> DEFINE r == [wk[w] EXCEPT !.shown = S]
<1>3. r \in Run /\ r.job = wk[w].job /\ r.n = wk[w].n /\ r.shown = S
  BY <1>1 DEF Run
<1>4. Goto(w, r, "readCore")
  BY <1>2
<1> HIDE DEF r
<1>5. UNCHANGED <<core, qdrant, stream, runs>>
  BY DEF SearchFinds, SearchFails, RunStep, queueVars, stores
<1> QED
  BY <1>1, <1>2, <1>3, <1>4, <1>5, GotoView DEF SameJob

LEMMA ReadCoreView ==
  ASSUME TypeOK, NEW w \in Workers, ReadCore(w)
  PROVE  /\ wk[w].pc = "readCore" /\ wk'[w].pc = "generate" /\ SameJob(w)
         /\ wk'[w].shown = wk[w].shown
         /\ wk'[w].snap \in {core[User(w)], {}}
         /\ Fails(w) \/ wk'[w].snap = core[User(w)]
         /\ UNCHANGED <<core, qdrant, stream, runs>>
<1>1. wk \in [Workers -> Run]
  BY DEF TypeOK
<1>2. CASE Goto(w, [wk[w] EXCEPT !.snap = core[User(w)]], "generate")
  BY <1>1, <1>2 DEF ReadCore, At, Goto, Run, SameJob, RunStep, queueVars, stores
<1>3. CASE Goto(w, [wk[w] EXCEPT !.snap = {}, !.readFailed = TRUE], "generate") /\ Fails(w)
  BY <1>1, <1>3 DEF ReadCore, At, Goto, Run, SameJob, RunStep, queueVars, stores
<1> QED
  BY <1>2, <1>3 DEF ReadCore, RedisValue

LEMMA GenerateView ==
  ASSUME TypeOK, NEW w \in Workers, At(w, "generate"),
         GenerateReturns(w, IdealPlan(w)) \/ GenerateFails(w)
  PROVE  /\ SameJob(w)
         /\ \/ wk'[w].pc \in {"panic", "term"}
            \/ /\ wk'[w].pc = "writeCore" /\ wk'[w].answer = IdealPlan(w)
               /\ wk'[w].snap = wk[w].snap
         /\ UNCHANGED <<core, qdrant, stream, runs>>
<1>1. wk \in [Workers -> Run]
  BY DEF TypeOK
<1>2. CASE GenerateReturns(w, IdealPlan(w))
  BY <1>1, <1>2 DEF GenerateReturns, Goto, Run, SameJob, RunStep, queueVars, stores
<1>3. CASE GenerateFails(w)
  BY <1>1, <1>3, FinishView DEF GenerateFails, SameJob, RunStep, queueVars, stores
<1> QED
  BY <1>2, <1>3
LEMMA WriteCoreView ==
  ASSUME TypeOK, NEW w \in Workers, WriteCore(w)
  PROVE  LET u == User(w)
             new == NewCore(wk[w].snap, wk[w].answer, wk[w].job, wk[w].n)
         IN
         /\ wk[w].pc = "writeCore" /\ wk'[w].pc = "embed" /\ SameJob(w)
         /\ wk'[w].answer = wk[w].answer
         /\ \A x \in Workers \ {w} : SameView(x)
         /\ \/ wk[w].answer.core = {} /\ UNCHANGED core
            \/ wk[w].answer.core # {} /\ core' = [core EXCEPT ![u] = new]
            \/ Fails(w) /\ UNCHANGED core
         /\ UNCHANGED <<qdrant, stream, runs>>
<1> DEFINE u == User(w)
           new == NewCore(wk[w].snap, wk[w].answer, wk[w].job, wk[w].n)
<1>1. wk \in [Workers -> Run] /\ wk[w] \in Run
  BY DEF TypeOK
<1>2. wk[w].pc = "writeCore" /\ UNCHANGED <<qdrant, stream, runs>>
  BY DEF WriteCore, At, RunStep, queueVars
<1>3. CASE Goto(w, [wk[w] EXCEPT !.snap = {}], "embed")
  <2>1. /\ wk'[w].pc = "embed" /\ SameJob(w) /\ wk'[w].answer = wk[w].answer
        /\ \A x \in Workers \ {w} : wk'[x] = wk[x]
    BY <1>1, <1>3 DEF Goto, Run, SameJob
  <2> QED
    BY <1>2, <2>1 DEF WriteCore, SameView
<1>4. CASE /\ core' = [core EXCEPT ![u] = new] /\ wk[w].answer.core # {}
           /\ wk' = [x \in Workers |->
                       IF x = w THEN [wk[w] EXCEPT !.pc = "embed", !.snap = {}, !.wrote = TRUE]
                       ELSE IF HoldsSnapshot(x, u) /\ new # core[u]
                            THEN [wk[x] EXCEPT !.stale = TRUE] ELSE wk[x]]
  <2> HIDE DEF u, new
  <2>1. wk'[w].pc = "embed" /\ SameJob(w) /\ wk'[w].answer = wk[w].answer
    BY <1>1, <1>4 DEF Run, SameJob
  <2>2. ASSUME NEW x \in Workers \ {w} PROVE SameView(x)
    <3>1. wk[x] \in Run
      BY <1>1
    <3>2. wk'[x] \in {[wk[x] EXCEPT !.stale = TRUE], wk[x]}
      BY <1>4, <2>2
    <3> QED
      BY <3>1, <3>2 DEF Run, SameView
  <2> QED
    BY <1>2, <1>4, <2>1, <2>2 DEF u, new
<1> QED
  BY <1>3, <1>4 DEF WriteCore

LEMMA EmbedView ==
  ASSUME TypeOK, NEW w \in Workers, Embed(w)
  PROVE  /\ wk[w].pc = "embed" /\ wk'[w].pc = "check" /\ SameJob(w)
         /\ wk'[w].answer = wk[w].answer
         /\ Fault \/ wk'[w].embedded
         /\ UNCHANGED <<core, qdrant, stream, runs>>
<1>1. wk \in [Workers -> Run] /\ wk[w].pc = "embed"
  BY DEF TypeOK, Embed, At
<1> DEFINE r == [wk[w] EXCEPT !.embedded = TRUE]
<1>2. UNCHANGED <<core, qdrant, stream, runs>>
  BY DEF Embed, RunStep, queueVars, stores
<1>3. /\ r.job = wk[w].job /\ r.n = wk[w].n /\ r.answer = wk[w].answer /\ r.embedded
      /\ r \in Run
  BY <1>1 DEF Run
<1> HIDE DEF r
<1>4. Goto(w, r, "check") \/ (Goto(w, wk[w], "check") /\ Fault)
  BY DEF Embed, r
<1>5. CASE Goto(w, r, "check")
  BY <1>1, <1>2, <1>3, <1>5 DEF Goto, Run, SameJob
<1>6. CASE Goto(w, wk[w], "check") /\ Fault
  BY <1>1, <1>2, <1>6 DEF Goto, Run, SameJob
<1> QED
  BY <1>4, <1>5, <1>6

LEMMA CheckView ==
  ASSUME TypeOK, NEW w \in Workers, CheckDelete(w)
  PROVE  LET ids == Targets(wk[w].answer.general) IN
         /\ wk[w].pc = "check" /\ SameJob(w)
         /\ wk'[w].answer = wk[w].answer /\ wk'[w].embedded = wk[w].embedded
         /\ \/ ids # {} /\ wk'[w].pc = IF Found(ids) THEN "delete" ELSE "insert"
            \/ ids = {} /\ wk'[w].pc = "insert"
            \/ Fails(w) /\ wk'[w].pc = "insert"
         /\ UNCHANGED <<core, qdrant, stream, runs>>
<1>1. wk \in [Workers -> Run]
  BY DEF TypeOK
<1> QED
  BY <1>1 DEF CheckDelete, At, Goto, Run, SameJob, RunStep, queueVars, stores

LEMMA DeleteView ==
  ASSUME TypeOK, NEW w \in Workers, Delete(w)
  PROVE  LET ids == Targets(wk[w].answer.general) \intersect Point IN
         /\ wk[w].pc = "delete" /\ wk'[w].pc = "insert" /\ SameJob(w)
         /\ wk'[w].answer = wk[w].answer /\ wk'[w].embedded = wk[w].embedded
         /\ \/ Accept([op |-> "delete", points |-> ids])
            \/ Fails(w) /\ UNCHANGED qdrant
         /\ UNCHANGED <<core, stream, runs>>
<1>1. wk \in [Workers -> Run]
  BY DEF TypeOK
<1> DEFINE r == [wk[w] EXCEPT !.wrote = TRUE]
<1>2. r \in Run /\ wk[w] \in Run /\ r.job = wk[w].job /\ r.n = wk[w].n
      /\ r.answer = wk[w].answer /\ r.embedded = wk[w].embedded
  BY <1>1 DEF Run
<1>3. /\ wk[w].pc = "delete" /\ UNCHANGED <<core, stream, runs>>
      /\ \/ /\ Accept([op |-> "delete", points |-> Targets(wk[w].answer.general) \intersect Point])
            /\ Goto(w, r, "insert")
         \/ Fails(w) /\ Goto(w, wk[w], "insert") /\ UNCHANGED qdrant
  BY DEF Delete, At, RunStep, queueVars
<1> HIDE DEF r
<1>4. wk'[w].pc = "insert" /\ SameJob(w)
      /\ wk'[w].answer = wk[w].answer /\ wk'[w].embedded = wk[w].embedded
  <2>1. CASE Goto(w, r, "insert")
    BY <1>1, <1>2, <2>1, GotoView DEF SameJob
  <2>2. CASE Goto(w, wk[w], "insert")
    BY <1>1, <1>2, <2>2, GotoView DEF SameJob
  <2> QED
    BY <1>3, <2>1, <2>2
<1> QED
  BY <1>3, <1>4

LEMMA InsertView ==
  ASSUME TypeOK, NEW w \in Workers, Insert(w)
  PROVE  /\ wk[w].pc = "insert" /\ wk'[w].pc = "ack" /\ SameJob(w)
         /\ \/ NewPoints(w) = {} /\ UNCHANGED qdrant
            \/ NewPoints(w) # {} /\ Accept([op |-> "upsert", points |-> NewPoints(w)])
            \/ Fails(w) /\ UNCHANGED qdrant
         /\ UNCHANGED <<core, stream, runs>>
<1>1. wk \in [Workers -> Run] /\ wk[w] \in Run
  BY DEF TypeOK
<1> DEFINE r == [wk[w] EXCEPT !.wrote = TRUE]
<1>2. r \in Run /\ r.job = wk[w].job /\ r.n = wk[w].n
  BY <1>1 DEF Run
<1>3. /\ wk[w].pc = "insert" /\ UNCHANGED <<core, stream, runs>>
      /\ Finish(w, r, "ack") \/ Finish(w, wk[w], "ack")
      /\ \/ NewPoints(w) = {} /\ UNCHANGED qdrant
         \/ NewPoints(w) # {} /\ Accept([op |-> "upsert", points |-> NewPoints(w)])
         \/ Fails(w) /\ UNCHANGED qdrant
  BY DEF Insert, At, RunStep, queueVars
<1> HIDE DEF r
<1>4. wk'[w].pc = "ack" /\ SameJob(w)
  <2>1. CASE Finish(w, r, "ack")
    BY <1>1, <1>2, <2>1, FinishView DEF SameJob
  <2>2. CASE Finish(w, wk[w], "ack")
    BY <1>1, <1>2, <2>2, FinishView DEF SameJob
  <2> QED
    BY <1>3, <2>1, <2>2
<1> QED
  BY <1>3, <1>4

LEMMA SettleView ==
  ASSUME TypeOK, NEW w \in Workers, Settle(w)
  PROVE  /\ wk[w].pc \in {"ack", "term"} /\ wk'[w].pc = "idle" /\ wk'[w].job = NoJob
         /\ wk[w].job \in Jobs
         /\ \A j \in Jobs : stream[j] = "pending" /\ j # wk[w].job => stream'[j] = "pending"
         /\ UNCHANGED <<core, qdrant, runs>>
<1>1. wk[w].job \in Jobs
  BY BusyHasJob DEF Settle
<1> QED
  BY <1>1 DEF Settle, Settled, SettlementLost, IdleRun, FreshRun, stores, TypeOK, QueueTypeOK

\* The other runs are left as they are.
LEMMA OthersView ==
  ASSUME TypeOK, NEW w \in Workers, IdealWorkerStep(w), NEW x \in Workers \ {w}
  PROVE  SameView(x)
<1>1. CASE WriteCore(w)
  BY <1>1, WriteCoreView
<1>2. CASE ~WriteCore(w)
  <2>1. wk'[x] = wk[x]
    BY <1>2, IdealWorkerIsAny, OtherEffects
  <2> QED
    BY <2>1 DEF SameView
<1> QED
  BY <1>1, <1>2

\* Steps of the queue, of Qdrant and of the clock leave the runs as they are.
LEMMA StillView ==
  ASSUME TypeOK,
         \/ QueueStep \/ ApplyWrite \/ UNCHANGED vars
         \/ \E w \in Workers : DeadlineExpires(w)
  PROVE  /\ \A x \in Workers : SameView(x)
         /\ UNCHANGED <<core, runs>>
         /\ \A j \in Jobs : stream[j] = "pending" => stream'[j] = "pending"
         /\ ApplyWrite \/ UNCHANGED qdrant
<1>1. CASE QueueStep
  <2>1. UNCHANGED agentVars
    BY <1>1 DEF QueueStep
  <2>2. \A j \in Jobs : stream[j] = "pending" => stream'[j] = "pending"
    BY <1>1 DEF QueueStep, Restart, Submit, ReplyOk, ReplyError, StreamStores, AckWaitExpires,
                Deliver, Subscribe, SubscribeFails, TypeOK, QueueTypeOK
  <2> QED
    BY <2>1, <2>2 DEF agentVars, SameView, qdrant
<1>2. CASE ApplyWrite
  BY <1>2 DEF ApplyWrite, SameView, queueVars
<1>3. CASE UNCHANGED vars
  BY <1>3 DEF vars, agentVars, queueVars, SameView, qdrant
<1>4. ASSUME NEW w \in Workers, DeadlineExpires(w)
      PROVE  (\A x \in Workers : SameView(x)) /\ UNCHANGED <<core, runs, stream, qdrant>>
  <2>1. wk \in [Workers -> Run]
    BY DEF TypeOK
  <2>2. wk' = [wk EXCEPT ![w] = [wk[w] EXCEPT !.expired = TRUE]]
    BY <1>4 DEF DeadlineExpires
  <2> DEFINE r == [wk[w] EXCEPT !.expired = TRUE]
  <2>3. /\ r.pc = wk[w].pc /\ r.job = wk[w].job /\ r.n = wk[w].n /\ r.shown = wk[w].shown
        /\ r.snap = wk[w].snap /\ r.answer = wk[w].answer /\ r.embedded = wk[w].embedded
    BY <2>1 DEF Run
  <2>4. wk' = [wk EXCEPT ![w] = r]
    BY <2>2
  <2> HIDE DEF r
  <2>5. \A x \in Workers : SameView(x)
    BY <2>1, <2>3, <2>4 DEF SameView
  <2> QED
    BY <1>4, <2>5 DEF DeadlineExpires, stores, queueVars
<1> QED
  BY <1>1, <1>2, <1>3, <1>4
-----------------------------------------------------------------------------
(* The core profile never contradicts itself.                              *)

Consistent(S) == \A a, b \in S : ~Contradict(a.text, b.text)

LEMMA CuratedTargets ==
  ASSUME NEW S, S \subseteq CoreMem \/ S \subseteq Point, NEW t \in Texts
  PROVE  Targets(Curated(S, t)) = {m \in S : Contradict(m.text, t)}
<1> DEFINE acts == Curated(S, t)
           old == {m \in S : Contradict(m.text, t)}
<1>1. ASSUME NEW x \in Targets(acts) PROVE x \in old
  <2>1. PICK a \in acts : a.type = "DELETE" /\ x = a.target
    BY DEF Targets
  <2>2. PICK m \in old : a = [type |-> "DELETE", target |-> m]
    BY <2>1 DEF Curated
  <2> QED
    BY <2>1, <2>2
<1>2. ASSUME NEW m \in old PROVE m \in Targets(acts)
  <2>1. m # Null
    BY UuidAssumption
  <2>2. [type |-> "DELETE", target |-> m] \in acts
    BY DEF Curated
  <2> HIDE DEF acts
  <2> QED
    BY <2>1, <2>2 DEF Targets
<1> QED
  BY <1>1, <1>2

LEMMA CuratedPayloads ==
  ASSUME NEW S, NEW t \in Texts
  PROVE  Payloads(Curated(S, t)) = {t} \ {m.text : m \in S}
<1> DEFINE acts == Curated(S, t)
           new == {t} \ {m.text : m \in S}
<1>1. t # Null
  BY AgentAssumption
<1>2. ASSUME NEW x \in Payloads(acts) PROVE x \in new
  <2>1. PICK a \in acts : a.type = "INSERT" /\ x = a.payload
    BY DEF Payloads
  <2>2. PICK s \in new : a = [type |-> "INSERT", payload |-> s]
    BY <2>1 DEF Curated
  <2> QED
    BY <2>1, <2>2
<1>3. ASSUME NEW s \in new PROVE s \in Payloads(acts)
  <2>1. [type |-> "INSERT", payload |-> s] \in acts
    BY DEF Curated
  <2> HIDE DEF acts
  <2> QED
    BY <1>1, <2>1 DEF Payloads
<1> QED
  BY <1>2, <1>3

\* A curated list holds the fact, and it does not contradict itself if the list
\* it was made from does not.
LEMMA CuratedNew ==
  ASSUME NEW S \in SUBSET CoreMem, NEW t \in Texts,
         NEW a, a.core = Curated(S, t), NEW j, NEW n
  PROVE  NewCore(S, a, j, n) =
           {m \in S : ~Contradict(m.text, t)}
             \union {[job |-> j, n |-> n, text |-> s] : s \in {t} \ {m.text : m \in S}}
BY CuratedTargets, CuratedPayloads DEF NewCore

LEMMA CuratedHasFact ==
  ASSUME NEW S \in SUBSET CoreMem, NEW t \in Texts,
         NEW a, a.core = Curated(S, t), NEW j, NEW n
  PROVE  \E m \in NewCore(S, a, j, n) : m.text = t
<1> DEFINE add == [job |-> j, n |-> n, text |-> t]
<1>1. CASE \E m \in S : m.text = t
  BY <1>1, CuratedNew DEF Contradict
<1>2. CASE ~\E m \in S : m.text = t
  <2>1. add \in NewCore(S, a, j, n)
    BY <1>2, CuratedNew
  <2> QED
    BY <2>1
<1> QED
  BY <1>1, <1>2

LEMMA CuratedList ==
  ASSUME NEW S \in SUBSET CoreMem, Consistent(S), NEW t \in Texts,
         NEW a, a.core = Curated(S, t), NEW j, NEW n
  PROVE  Consistent(NewCore(S, a, j, n))
<1> DEFINE new == NewCore(S, a, j, n)
<1>1. ASSUME NEW m \in new PROVE m.text = t \/ (m \in S /\ ~Contradict(m.text, t))
  <2>1. CASE \E s \in {t} : m = [job |-> j, n |-> n, text |-> s]
    BY <2>1
  <2> QED
    BY <2>1, CuratedNew
<1> HIDE DEF new
<1>2. Consistent(new)
  BY <1>1 DEF Consistent, Contradict
<1> QED
  BY <1>2 DEF new

\* What a run reads is one consistent list, and what it writes back is that list
\* curated, or nothing: the read may be out of date, it is never a mixture.
OneView(w) ==
  /\ wk[w].pc \in {"generate", "writeCore"} => Consistent(wk[w].snap)
  /\ wk[w].pc = "writeCore" => wk[w].answer.core \in {{}, Curated(wk[w].snap, Fact(w))}

ProfileInv ==
  /\ CoreProfileConsistent
  /\ \A w \in Workers : OneView(w)

LEMMA SameOneView ==
  ASSUME NEW w, SameView(w), OneView(w) PROVE OneView(w)'
BY DEF SameView, OneView, Fact

LEMMA WorkerOneView ==
  ASSUME TypeOK, ProfileInv, NEW w \in Workers, IdealWorkerStep(w)
  PROVE  OneView(w)' /\ CoreProfileConsistent'
<1> DEFINE Safe(pc) == pc \notin {"generate", "writeCore"}
<1>1. Safe(wk'[w].pc) => OneView(w)'
  BY DEF OneView
<1>2. core' = core => CoreProfileConsistent'
  BY DEF ProfileInv, CoreProfileConsistent
<1>3. CASE Begin(w) \/ ExpandContinues(w) \/ Embed(w) \/ CheckDelete(w) \/ Delete(w)
           \/ Insert(w) \/ Settle(w)
  <2>1. Safe(wk'[w].pc) /\ core' = core
    BY <1>3, BeginView, ExpandView, EmbedView, CheckView, DeleteView, InsertView, SettleView
  <2> QED
    BY <1>1, <1>2, <2>1
<1>4. CASE At(w, "search") /\ (SearchFinds(w, PointsOf(User(w))) \/ SearchFails(w))
  BY <1>1, <1>2, <1>4, SearchView
<1>5. CASE ReadCore(w)
  <2>1. Consistent(wk'[w].snap)
    <3>1. User(w) \in Users
      BY <1>5, ReadCoreView, BusyHasJob
    <3> QED
      BY <1>5, <3>1, ReadCoreView DEF ProfileInv, CoreProfileConsistent, Consistent
  <2> QED
    BY <1>2, <1>5, <2>1, ReadCoreView DEF OneView
<1>6. CASE At(w, "generate") /\ (GenerateReturns(w, IdealPlan(w)) \/ GenerateFails(w))
  <2>1. Consistent(wk[w].snap)
    BY <1>6 DEF At, ProfileInv, OneView
  <2>2. IdealPlan(w).core \in {{}, Curated(wk[w].snap, Fact(w))}
    BY DEF IdealPlan, Fact
  <2>3. Fact(w)' = Fact(w)
    BY <1>6, GenerateView DEF SameJob, Fact
  <2> QED
    BY <1>1, <1>2, <1>6, <2>1, <2>2, <2>3, GenerateView DEF OneView
<1>7. CASE WriteCore(w)
  <2>1. wk[w].job \in Jobs /\ User(w) \in Users /\ Fact(w) \in Texts /\ wk[w].pc = "writeCore"
    BY <1>7, WriteCoreView, BusyHasJob, FactType
  <2>2. wk[w].snap \in SUBSET CoreMem /\ Consistent(wk[w].snap)
    BY <2>1 DEF TypeOK, Run, ProfileInv, OneView
  <2> DEFINE new == NewCore(wk[w].snap, wk[w].answer, wk[w].job, wk[w].n)
  <2>3. wk[w].answer.core # {} => Consistent(new)
    BY <2>1, <2>2, CuratedList DEF ProfileInv, OneView
  <2>4. core' = core \/ (Consistent(new) /\ core' = [core EXCEPT ![User(w)] = new])
    <3>1. \/ wk[w].answer.core = {} /\ UNCHANGED core
          \/ wk[w].answer.core # {} /\ core' = [core EXCEPT ![User(w)] = new]
          \/ UNCHANGED core
      BY <1>7, WriteCoreView
    <3> HIDE DEF new
    <3> QED
      BY <2>3, <3>1
  <2> HIDE DEF new
  <2>5. CoreProfileConsistent'
    <3>1. CASE Consistent(new) /\ core' = [core EXCEPT ![User(w)] = new]
      <4>1. \A u \in Users : core'[u] = core[u] \/ core'[u] = new
        BY <3>1 DEF TypeOK
      <4> QED
        BY <3>1, <4>1 DEF ProfileInv, CoreProfileConsistent, Consistent
    <3> QED
      BY <1>2, <2>4, <3>1
  <2> QED
    BY <1>1, <1>7, <2>5, WriteCoreView
<1> QED
  BY <1>3, <1>4, <1>5, <1>6, <1>7 DEF IdealWorkerStep

LEMMA ProfileNext == TypeOK /\ ProfileInv /\ [IdealNext]_idealVars => ProfileInv'
<1> SUFFICES ASSUME TypeOK, ProfileInv, [IdealNext]_idealVars PROVE ProfileInv'
  OBVIOUS
<1>1. CASE \/ QueueStep \/ ApplyWrite \/ UNCHANGED vars
           \/ \E w \in Workers : DeadlineExpires(w)
  <2>1. \A w \in Workers : OneView(w)'
    BY <1>1, StillView, SameOneView DEF ProfileInv
  <2> QED
    BY <1>1, <2>1, StillView DEF ProfileInv, CoreProfileConsistent
<1>2. CASE Crash
  BY <1>2 DEF Crash, stores, ProfileInv, CoreProfileConsistent, OneView, IdleRun, FreshRun
<1>3. ASSUME NEW w \in Workers, IdealWorkerStep(w) PROVE ProfileInv'
  <2>1. \A x \in Workers \ {w} : OneView(x)'
    BY <1>3, OthersView, SameOneView DEF ProfileInv
  <2> QED
    BY <1>3, <2>1, WorkerOneView DEF ProfileInv
<1> QED
  BY <1>1, <1>2, <1>3 DEF IdealNext, IdealCrash, idealVars

\* The core profile never contradicts itself, however the runs of a user overlap,
\* fail, crash and are repeated.
THEOREM ProfileIsConsistent == IdealSpec => []CoreProfileConsistent
<1>1. IdealInit => ProfileInv
  BY DEF IdealInit, Init, ProfileInv, CoreProfileConsistent, OneView, IdleRun, FreshRun
<1>2. ProfileInv => CoreProfileConsistent
  BY DEF ProfileInv
<1> QED
  BY <1>1, <1>2, IdealTypes, ProfileNext, PTL DEF IdealSpec
-----------------------------------------------------------------------------
(* What is on its way to Qdrant.                                           *)

\* The i-th write on its way deletes, or upserts, the point p.
IsWrite(i, op, p) == backlog[i].op = op /\ p \in backlog[i].points

\* No write on its way is about a point of u.
Quiet(u) ==
  \A i \in DOMAIN backlog : \A p \in Point :
    p.user = u => ~IsWrite(i, "delete", p) /\ ~IsWrite(i, "upsert", p)

\* p will be there when all writes on their way are applied.
WillShow(p) ==
  \/ p \in points /\ \A i \in DOMAIN backlog : ~IsWrite(i, "delete", p)
  \/ \E i \in DOMAIN backlog :
       /\ IsWrite(i, "upsert", p)
       /\ \A k \in DOMAIN backlog : k > i => ~IsWrite(k, "delete", p)

\* What a run about to insert t needs: a point that contradicts t is about to be
\* deleted, and nothing of u is about to appear.
Cleared(u, t) ==
  /\ \A q \in PointsOf(u) :
       Contradict(q.text, t) => \E k \in DOMAIN backlog : IsWrite(k, "delete", q)
  /\ \A i \in DOMAIN backlog : \A p \in Point : p.user = u => ~IsWrite(i, "upsert", p)

\* The points of u are consistent, and stay so while the writes are applied: an
\* upsert comes after the deletion of what it contradicts.
PointsInv(u) ==
  /\ Consistent(PointsOf(u))
  /\ \A i \in DOMAIN backlog : \A p \in Point : IsWrite(i, "upsert", p) /\ p.user = u =>
       /\ \A q \in PointsOf(u) :
            Contradict(p.text, q.text) => \E k \in DOMAIN backlog : k < i /\ IsWrite(k, "delete", q)
       /\ \A k \in DOMAIN backlog : \A q \in Point :
            IsWrite(k, "upsert", q) /\ q.user = u => ~Contradict(p.text, q.text)

HeadApplied ==
  /\ backlog # <<>>
  /\ points' = Applied(points, Head(backlog))
  /\ backlog' = Tail(backlog)

LEMMA HeadEffects ==
  ASSUME QdrantTypeOK, HeadApplied
  PROVE  /\ DOMAIN backlog \subseteq Nat /\ 1 \in DOMAIN backlog
         /\ \A i \in DOMAIN backlog' :
              i \in Nat /\ i > 0 /\ i + 1 \in DOMAIN backlog
              /\ \A op, p : IsWrite(i, op, p)' <=> IsWrite(i + 1, op, p)
         /\ \A i \in DOMAIN backlog :
              i = 1 \/ (i - 1 \in DOMAIN backlog' /\ i > 1
                        /\ \A op, p : IsWrite(i - 1, op, p)' <=> IsWrite(i, op, p))
         /\ \A p : p \in points' <=> \/ p \in points /\ ~IsWrite(1, "delete", p)
                                     \/ IsWrite(1, "upsert", p)
<1>1. backlog \in Seq(Write) /\ backlog # <<>> /\ backlog' = Tail(backlog)
  BY DEF QdrantTypeOK, HeadApplied
<1>2. /\ Len(backlog) \in Nat \ {0} /\ DOMAIN backlog = 1..Len(backlog)
      /\ DOMAIN backlog' = 1..(Len(backlog) - 1)
      /\ \A i \in 1..(Len(backlog) - 1) : backlog'[i] = backlog[i + 1]
  BY <1>1
<1>3. Head(backlog) = backlog[1] /\ backlog[1] \in Write
  BY <1>1, <1>2
<1>4. \A p : p \in points' <=> \/ p \in points /\ ~IsWrite(1, "delete", p)
                               \/ IsWrite(1, "upsert", p)
  BY <1>3 DEF HeadApplied, Applied, IsWrite, Write
<1>5. \A i \in DOMAIN backlog' : \A op, p : IsWrite(i, op, p)' <=> IsWrite(i + 1, op, p)
  BY <1>2 DEF IsWrite
<1>6. ASSUME NEW i \in DOMAIN backlog, i # 1
      PROVE  i - 1 \in DOMAIN backlog' /\ i > 1 /\ backlog'[i - 1] = backlog[i]
  <2>1. i - 1 \in 1..(Len(backlog) - 1) /\ i > 1 /\ (i - 1) + 1 = i
    BY <1>2, <1>6
  <2> QED
    BY <1>2, <2>1
<1> QED
  BY <1>2, <1>4, <1>5, <1>6 DEF IsWrite

LEMMA AppendEffects ==
  ASSUME QdrantTypeOK, NEW o \in Write, backlog' = Append(backlog, o)
  PROVE  \E n \in Nat :
         /\ DOMAIN backlog' = DOMAIN backlog \union {n}
         /\ \A i \in DOMAIN backlog :
              i \in Nat /\ i < n /\ \A op, p : IsWrite(i, op, p)' <=> IsWrite(i, op, p)
         /\ \A op, p : IsWrite(n, op, p)' <=> (o.op = op /\ p \in o.points)
<1>1. backlog \in Seq(Write)
  BY DEF QdrantTypeOK
<1>2. /\ Len(backlog) \in Nat /\ DOMAIN backlog = 1..Len(backlog)
      /\ DOMAIN backlog' = 1..(Len(backlog) + 1)
      /\ backlog'[Len(backlog) + 1] = o
      /\ \A i \in 1..Len(backlog) : backlog'[i] = backlog[i]
  BY <1>1
<1>3. PICK n \in Nat : n = Len(backlog) + 1
  BY <1>2
<1>4. \A op, p : IsWrite(n, op, p)' <=> (o.op = op /\ p \in o.points)
  BY <1>2, <1>3 DEF IsWrite
<1>5. \A i \in DOMAIN backlog : \A op, p : IsWrite(i, op, p)' <=> IsWrite(i, op, p)
  BY <1>2 DEF IsWrite
<1>6. DOMAIN backlog' = DOMAIN backlog \union {n}
  BY <1>2, <1>3
<1>7. \A i \in DOMAIN backlog : i \in Nat /\ i < n
  BY <1>2, <1>3
<1> QED
  BY <1>4, <1>5, <1>6, <1>7

\* A write that is accepted is applied at once, or goes to the end of the queue.
LEMMA AcceptEffects ==
  ASSUME NEW o \in Write, Accept(o)
  PROVE  \/ /\ backlog = <<>> /\ DOMAIN backlog = {} /\ UNCHANGED backlog
            /\ \A p : p \in points' <=> \/ p \in points /\ ~(o.op = "delete" /\ p \in o.points)
                                        \/ o.op = "upsert" /\ p \in o.points
         \/ backlog' = Append(backlog, o) /\ UNCHANGED points
BY DEF Accept, Applied, Write

\* A step of Qdrant, or one that sends it a write about other users.
QdrantStep(u) ==
  \/ UNCHANGED qdrant
  \/ HeadApplied
  \/ \E o \in Write : (\A p \in o.points : p.user # u) /\ Accept(o)

LEMMA QuietStays ==
  ASSUME QdrantTypeOK, NEW u, QdrantStep(u), Quiet(u)
  PROVE  Quiet(u)' /\ PointsOf(u)' = PointsOf(u)
<1>1. CASE UNCHANGED qdrant
  BY <1>1 DEF qdrant, Quiet, PointsOf, IsWrite
<1>2. CASE HeadApplied
  <2>1. \A p \in Point : p.user = u => (p \in points' <=> p \in points)
    BY <1>2, HeadEffects DEF Quiet
  <2>2. points' \subseteq Point /\ points \subseteq Point
    <3>1. Head(backlog) \in Write
      BY <1>2 DEF HeadApplied, QdrantTypeOK
    <3> QED
      BY <1>2, <3>1, AppliedType DEF HeadApplied, QdrantTypeOK
  <2>3. PointsOf(u)' = PointsOf(u)
    BY <2>1, <2>2 DEF PointsOf
  <2>4. Quiet(u)'
    BY <1>2, HeadEffects DEF Quiet
  <2> QED
    BY <2>3, <2>4
<1>3. ASSUME NEW o \in Write, \A p \in o.points : p.user # u, Accept(o)
      PROVE  Quiet(u)' /\ PointsOf(u)' = PointsOf(u)
  <2>1. CASE UNCHANGED points /\ backlog' = Append(backlog, o)
    <3>1. PICK n \in Nat :
          /\ DOMAIN backlog' = DOMAIN backlog \union {n}
          /\ \A i \in DOMAIN backlog : \A op, p : IsWrite(i, op, p)' <=> IsWrite(i, op, p)
          /\ \A op, p : IsWrite(n, op, p)' <=> (o.op = op /\ p \in o.points)
      BY <2>1, AppendEffects
    <3>2. Quiet(u)'
      BY <1>3, <3>1 DEF Quiet
    <3> QED
      BY <2>1, <3>2 DEF PointsOf
  <2>2. CASE /\ DOMAIN backlog = {} /\ UNCHANGED backlog
             /\ \A p : p \in points' <=> \/ p \in points /\ ~(o.op = "delete" /\ p \in o.points)
                                         \/ o.op = "upsert" /\ p \in o.points
    BY <1>3, <2>2 DEF Quiet, PointsOf
  <2> QED
    BY <1>3, <2>1, <2>2, AcceptEffects
<1> QED
  BY <1>1, <1>2, <1>3 DEF QdrantStep

LEMMA WillShowStays ==
  ASSUME QdrantTypeOK, NEW p \in Point, QdrantStep(p.user), WillShow(p)
  PROVE  WillShow(p)'
<1>1. CASE UNCHANGED qdrant
  BY <1>1 DEF qdrant, WillShow, IsWrite
<1>2. CASE HeadApplied
  <2>1. CASE p \in points /\ \A i \in DOMAIN backlog : ~IsWrite(i, "delete", p)
    BY <1>2, <2>1, HeadEffects DEF WillShow
  <2>2. CASE \E i \in DOMAIN backlog :
               /\ IsWrite(i, "upsert", p)
               /\ \A k \in DOMAIN backlog : k > i => ~IsWrite(k, "delete", p)
    <3>1. PICK i \in DOMAIN backlog :
               /\ IsWrite(i, "upsert", p)
               /\ \A k \in DOMAIN backlog : k > i => ~IsWrite(k, "delete", p)
      BY <2>2
    <3>2. CASE i = 1
      BY <1>2, <3>1, <3>2, HeadEffects DEF WillShow
    <3>3. CASE i # 1
      <4>1. i \in Nat /\ i - 1 \in DOMAIN backlog' /\ IsWrite(i - 1, "upsert", p)'
        BY <1>2, <3>1, <3>3, HeadEffects
      <4>2. ASSUME NEW k \in DOMAIN backlog', k > i - 1 PROVE ~IsWrite(k, "delete", p)'
        <5>1. k \in Nat /\ k + 1 \in DOMAIN backlog
              /\ (IsWrite(k, "delete", p)' <=> IsWrite(k + 1, "delete", p))
          BY <1>2, HeadEffects
        <5> QED
          BY <3>1, <4>1, <4>2, <5>1
      <4> QED
        BY <4>1, <4>2 DEF WillShow
    <3> QED
      BY <3>2, <3>3
  <2> QED
    BY <2>1, <2>2 DEF WillShow
<1>3. ASSUME NEW o \in Write, \A q \in o.points : q.user # p.user, Accept(o)
      PROVE  WillShow(p)'
  <2>1. CASE UNCHANGED points /\ backlog' = Append(backlog, o)
    <3>1. PICK n \in Nat :
          /\ DOMAIN backlog' = DOMAIN backlog \union {n}
          /\ \A i \in DOMAIN backlog : \A op, q : IsWrite(i, op, q)' <=> IsWrite(i, op, q)
          /\ \A op, q : IsWrite(n, op, q)' <=> (o.op = op /\ q \in o.points)
      BY <2>1, AppendEffects
    <3>2. \A k \in DOMAIN backlog' : IsWrite(k, "delete", p)'
                                       => k \in DOMAIN backlog /\ IsWrite(k, "delete", p)
      BY <1>3, <3>1
    <3>3. CASE p \in points /\ \A i \in DOMAIN backlog : ~IsWrite(i, "delete", p)
      BY <2>1, <3>2, <3>3 DEF WillShow
    <3>4. ASSUME NEW i \in DOMAIN backlog, IsWrite(i, "upsert", p),
                 \A k \in DOMAIN backlog : k > i => ~IsWrite(k, "delete", p)
          PROVE  WillShow(p)'
      BY <3>1, <3>2, <3>4 DEF WillShow
    <3> QED
      BY <3>3, <3>4 DEF WillShow
  <2>2. CASE /\ DOMAIN backlog = {} /\ UNCHANGED backlog
             /\ \A q : q \in points' <=> \/ q \in points /\ ~(o.op = "delete" /\ q \in o.points)
                                         \/ o.op = "upsert" /\ q \in o.points
    BY <1>3, <2>2 DEF WillShow
  <2> QED
    BY <1>3, <2>1, <2>2, AcceptEffects
<1> QED
  BY <1>1, <1>2, <1>3 DEF QdrantStep

LEMMA PointsTyped ==
  ASSUME QdrantTypeOK, NEW u, QdrantStep(u)
  PROVE  points \subseteq Point /\ points' \subseteq Point
<1>1. CASE UNCHANGED qdrant
  BY <1>1 DEF QdrantTypeOK, qdrant
<1>2. CASE HeadApplied
  <2>1. Head(backlog) \in Write
    BY <1>2 DEF HeadApplied, QdrantTypeOK
  <2> QED
    BY <1>2, <2>1, AppliedType DEF HeadApplied, QdrantTypeOK
<1>3. ASSUME NEW o \in Write, Accept(o) PROVE points \subseteq Point /\ points' \subseteq Point
  BY <1>3, AcceptType DEF QdrantTypeOK
<1> QED
  BY <1>1, <1>2, <1>3 DEF QdrantStep

\* What a step about other users, that goes to the end of the queue or is applied
\* at once, does to the writes and the points of u.
LEMMA ForeignEffects ==
  ASSUME QdrantTypeOK, NEW u, NEW o \in Write, \A p \in o.points : p.user # u, Accept(o)
  PROVE  /\ PointsOf(u)' = PointsOf(u)
         /\ DOMAIN backlog \subseteq DOMAIN backlog'
         /\ \A i \in DOMAIN backlog : \A op, p : IsWrite(i, op, p)' <=> IsWrite(i, op, p)
         /\ \A i \in DOMAIN backlog' : \A op, p :
              IsWrite(i, op, p)' /\ p.user = u => i \in DOMAIN backlog
<1>1. CASE UNCHANGED points /\ backlog' = Append(backlog, o)
  <2>1. PICK n \in Nat :
        /\ DOMAIN backlog' = DOMAIN backlog \union {n}
        /\ \A i \in DOMAIN backlog : \A op, p : IsWrite(i, op, p)' <=> IsWrite(i, op, p)
        /\ \A op, p : IsWrite(n, op, p)' <=> (o.op = op /\ p \in o.points)
    BY <1>1, AppendEffects
  <2> QED
    BY <1>1, <2>1 DEF PointsOf
<1>2. CASE /\ DOMAIN backlog = {} /\ UNCHANGED backlog
           /\ \A q : q \in points' <=> \/ q \in points /\ ~(o.op = "delete" /\ q \in o.points)
                                       \/ o.op = "upsert" /\ q \in o.points
  BY <1>2 DEF PointsOf
<1> QED
  BY <1>1, <1>2, AcceptEffects

LEMMA ClearedStays ==
  ASSUME QdrantTypeOK, NEW u, NEW t, QdrantStep(u), Cleared(u, t)
  PROVE  Cleared(u, t)'
<1>0. points \subseteq Point /\ points' \subseteq Point
  BY PointsTyped
<1>1. CASE UNCHANGED qdrant
  BY <1>1 DEF qdrant, Cleared, PointsOf, IsWrite
<1>2. CASE HeadApplied
  <2>1. ASSUME NEW q \in PointsOf(u)', Contradict(q.text, t)
        PROVE  \E k \in DOMAIN backlog' : IsWrite(k, "delete", q)'
    <3>1. q \in points' /\ q.user = u /\ q \in Point
      BY <1>0 DEF PointsOf
    <3>2. q \in PointsOf(u) /\ ~IsWrite(1, "delete", q)
      BY <1>2, <3>1, HeadEffects DEF Cleared, PointsOf
    <3>3. PICK k \in DOMAIN backlog : IsWrite(k, "delete", q)
      BY <2>1, <3>2 DEF Cleared
    <3>4. k - 1 \in DOMAIN backlog' /\ IsWrite(k - 1, "delete", q)'
      BY <1>2, <3>2, <3>3, HeadEffects
    <3> QED
      BY <3>4
  <2>2. \A i \in DOMAIN backlog' : \A p \in Point : p.user = u => ~IsWrite(i, "upsert", p)'
    BY <1>2, HeadEffects DEF Cleared
  <2> QED
    BY <2>1, <2>2 DEF Cleared
<1>3. ASSUME NEW o \in Write, \A p \in o.points : p.user # u, Accept(o)
      PROVE  Cleared(u, t)'
  BY <1>3, ForeignEffects DEF Cleared
<1> QED
  BY <1>1, <1>2, <1>3 DEF QdrantStep

LEMMA PointsInvStays ==
  ASSUME QdrantTypeOK, NEW u, QdrantStep(u), PointsInv(u)
  PROVE  PointsInv(u)'
<1>0. points \subseteq Point /\ points' \subseteq Point
  BY PointsTyped
<1>1. CASE UNCHANGED qdrant
  BY <1>1 DEF qdrant, PointsInv, PointsOf, IsWrite, Consistent
<1>2. CASE HeadApplied
  <2>1. ASSUME NEW q \in PointsOf(u)'
        PROVE  /\ q \in Point /\ q.user = u
               /\ \/ q \in PointsOf(u) /\ ~IsWrite(1, "delete", q)
                  \/ IsWrite(1, "upsert", q)
    BY <1>0, <1>2, HeadEffects DEF PointsOf
  <2>2. 1 \in DOMAIN backlog /\ DOMAIN backlog \subseteq Nat
        /\ \A k \in DOMAIN backlog : k # 1 => k > 1
    BY <1>2, HeadEffects
  <2>3. ASSUME NEW p \in Point, IsWrite(1, "upsert", p), p.user = u,
               NEW q \in PointsOf(u)'
        PROVE  ~Contradict(p.text, q.text)
    <3>1. ~\E k \in DOMAIN backlog : k < 1
      BY <2>2
    <3> QED
      BY <2>1, <2>2, <2>3, <3>1 DEF PointsInv
  <2>4. Consistent(PointsOf(u))'
    <3>1. ASSUME NEW p \in PointsOf(u)', NEW q \in PointsOf(u)'
          PROVE  ~Contradict(p.text, q.text)
      <4>1. CASE IsWrite(1, "upsert", p)
        BY <2>1, <2>3, <4>1
      <4>2. CASE IsWrite(1, "upsert", q)
        BY <2>1, <2>3, <4>2 DEF Contradict
      <4>3. CASE ~IsWrite(1, "upsert", p) /\ ~IsWrite(1, "upsert", q)
        BY <2>1, <4>3 DEF PointsInv, Consistent
      <4> QED
        BY <4>1, <4>2, <4>3
    <3> QED
      BY <3>1 DEF Consistent
  <2>5. ASSUME NEW i \in DOMAIN backlog', NEW p \in Point, IsWrite(i, "upsert", p)', p.user = u
        PROVE  /\ \A q \in PointsOf(u)' : Contradict(p.text, q.text)
                    => \E k \in DOMAIN backlog' : k < i /\ IsWrite(k, "delete", q)'
               /\ \A k \in DOMAIN backlog' : \A q \in Point :
                    IsWrite(k, "upsert", q)' /\ q.user = u => ~Contradict(p.text, q.text)
    <3>1. i \in Nat /\ i + 1 \in DOMAIN backlog /\ IsWrite(i + 1, "upsert", p)
      BY <1>2, <2>5, HeadEffects
    <3>2. ASSUME NEW q \in PointsOf(u)', Contradict(p.text, q.text)
          PROVE  \E k \in DOMAIN backlog' : k < i /\ IsWrite(k, "delete", q)'
      <4>1. CASE IsWrite(1, "upsert", q)
        BY <2>1, <2>2, <2>5, <3>1, <3>2, <4>1 DEF PointsInv
      <4>2. CASE q \in PointsOf(u) /\ ~IsWrite(1, "delete", q)
        <5>1. PICK k \in DOMAIN backlog : k < i + 1 /\ IsWrite(k, "delete", q)
          BY <2>5, <3>1, <3>2, <4>2 DEF PointsInv
        <5>2. k \in Nat /\ k - 1 \in DOMAIN backlog' /\ IsWrite(k - 1, "delete", q)'
          BY <1>2, <4>2, <5>1, HeadEffects
        <5>3. k - 1 < i
          BY <3>1, <5>1, <5>2
        <5> QED
          BY <5>2, <5>3
      <4> QED
        BY <2>1, <4>1, <4>2
    <3>3. ASSUME NEW k \in DOMAIN backlog', NEW q \in Point, IsWrite(k, "upsert", q)', q.user = u
          PROVE  ~Contradict(p.text, q.text)
      <4>1. k + 1 \in DOMAIN backlog /\ IsWrite(k + 1, "upsert", q)
        BY <1>2, <3>3, HeadEffects
      <4> QED
        BY <2>5, <3>1, <3>3, <4>1 DEF PointsInv
    <3> QED
      BY <3>2, <3>3
  <2> QED
    BY <2>4, <2>5 DEF PointsInv
<1>3. ASSUME NEW o \in Write, \A p \in o.points : p.user # u, Accept(o)
      PROVE  PointsInv(u)'
  <2>1. Consistent(PointsOf(u))'
    BY <1>3, ForeignEffects DEF PointsInv, Consistent
  <2>2. ASSUME NEW i \in DOMAIN backlog', NEW p \in Point, IsWrite(i, "upsert", p)', p.user = u
        PROVE  /\ \A q \in PointsOf(u)' : Contradict(p.text, q.text)
                    => \E k \in DOMAIN backlog' : k < i /\ IsWrite(k, "delete", q)'
               /\ \A k \in DOMAIN backlog' : \A q \in Point :
                    IsWrite(k, "upsert", q)' /\ q.user = u => ~Contradict(p.text, q.text)
    BY <1>3, <2>2, ForeignEffects DEF PointsInv
  <2> QED
    BY <2>1, <2>2 DEF PointsInv
<1> QED
  BY <1>1, <1>2, <1>3 DEF QdrantStep

\* The delete of a plan, sent when no other write about u is on its way.
LEMMA DeleteOwn ==
  ASSUME QdrantTypeOK, NEW u, NEW t, Quiet(u), PointsInv(u), NEW ids \in SUBSET Point,
         ids = {q \in PointsOf(u) : Contradict(q.text, t)},
         Accept([op |-> "delete", points |-> ids])
  PROVE  /\ Cleared(u, t)' /\ PointsInv(u)'
         /\ \A p \in PointsOf(u) : p.text = t => WillShow(p)'
<1> DEFINE o == [op |-> "delete", points |-> ids]
<1>0. o \in Write /\ o.op = "delete" /\ o.points = ids
  BY DEF Write
<1>1. points \subseteq Point
  BY DEF QdrantTypeOK
<1>2. Accept(o)
  OBVIOUS
<1> HIDE DEF o
<1>3. CASE UNCHANGED points /\ backlog' = Append(backlog, o)
  <2>1. PICK n \in Nat :
        /\ DOMAIN backlog' = DOMAIN backlog \union {n}
        /\ \A i \in DOMAIN backlog : \A op, p : IsWrite(i, op, p)' <=> IsWrite(i, op, p)
        /\ \A op, p : IsWrite(n, op, p)' <=> (o.op = op /\ p \in o.points)
    BY <1>0, <1>3, AppendEffects
  <2>2. PointsOf(u)' = PointsOf(u)
    BY <1>3 DEF PointsOf
  <2>3. \A i \in DOMAIN backlog' : \A p \in Point : p.user = u => ~IsWrite(i, "upsert", p)'
    BY <1>0, <2>1 DEF Quiet
  <2>4. Cleared(u, t)'
    BY <1>0, <2>1, <2>2, <2>3 DEF Cleared
  <2>5. PointsInv(u)'
    BY <2>2, <2>3 DEF PointsInv, Consistent
  <2>6. ASSUME NEW p \in PointsOf(u), p.text = t PROVE WillShow(p)'
    <3>1. p \in Point /\ p.user = u /\ p \notin ids
      BY <1>1, <2>6 DEF PointsOf, Contradict
    <3> QED
      BY <1>0, <1>3, <2>1, <3>1 DEF WillShow, Quiet, PointsOf
  <2> QED
    BY <2>4, <2>5, <2>6
<1>4. CASE /\ DOMAIN backlog = {} /\ UNCHANGED backlog
           /\ \A q : q \in points' <=> \/ q \in points /\ ~(o.op = "delete" /\ q \in o.points)
                                       \/ o.op = "upsert" /\ q \in o.points
  <2>1. \A q : q \in PointsOf(u)' <=> q \in PointsOf(u) /\ q \notin ids
    BY <1>0, <1>4 DEF PointsOf
  <2>2. DOMAIN backlog' = {}
    BY <1>4
  <2>3. Cleared(u, t)'
    BY <2>1, <2>2 DEF Cleared
  <2>4. PointsInv(u)'
    BY <2>1, <2>2 DEF PointsInv, Consistent
  <2>5. ASSUME NEW p \in PointsOf(u), p.text = t PROVE WillShow(p)'
    BY <2>1, <2>2, <2>5 DEF WillShow, PointsOf, Contradict
  <2> QED
    BY <2>3, <2>4, <2>5
<1> QED
  BY <1>0, <1>2, <1>3, <1>4, AcceptEffects

\* The upsert of a plan, sent when what it contradicts is gone or about to go.
LEMMA InsertOwn ==
  ASSUME QdrantTypeOK, NEW u, NEW t, NEW p \in Point, p.user = u, p.text = t,
         PointsInv(u), Cleared(u, t), Accept([op |-> "upsert", points |-> {p}])
  PROVE  PointsInv(u)' /\ WillShow(p)'
<1> DEFINE o == [op |-> "upsert", points |-> {p}]
<1>0. o \in Write /\ o.op = "upsert" /\ o.points = {p} /\ ~Contradict(t, t)
  BY DEF Write, Contradict
<1>2. Accept(o)
  OBVIOUS
<1> HIDE DEF o
<1>3. CASE UNCHANGED points /\ backlog' = Append(backlog, o)
  <2>1. PICK n \in Nat :
        /\ DOMAIN backlog' = DOMAIN backlog \union {n}
        /\ \A i \in DOMAIN backlog : i \in Nat /\ i < n
                                     /\ \A op, q : IsWrite(i, op, q)' <=> IsWrite(i, op, q)
        /\ \A op, q : IsWrite(n, op, q)' <=> (o.op = op /\ q \in o.points)
    BY <1>0, <1>3, AppendEffects
  <2>2. PointsOf(u)' = PointsOf(u)
    BY <1>3 DEF PointsOf
  <2>3. ASSUME NEW i \in DOMAIN backlog', NEW q \in Point, IsWrite(i, "upsert", q)', q.user = u
        PROVE  i = n /\ q = p
    BY <1>0, <2>1, <2>3 DEF Cleared
  <2>4. ASSUME NEW q \in PointsOf(u), Contradict(t, q.text)
        PROVE  \E k \in DOMAIN backlog' : k < n /\ IsWrite(k, "delete", q)'
    <3>1. Contradict(q.text, t)
      BY <2>4 DEF Contradict
    <3> QED
      BY <2>1, <3>1 DEF Cleared
  <2>5. PointsInv(u)'
    <3>1. Consistent(PointsOf(u))'
      BY <2>2 DEF PointsInv, Consistent
    <3> QED
      BY <1>0, <2>2, <2>3, <2>4, <3>1 DEF PointsInv
  <2>6. IsWrite(n, "upsert", p)' /\ \A k \in DOMAIN backlog' : ~(k > n)
    BY <1>0, <2>1
  <2>7. WillShow(p)'
    BY <2>1, <2>6 DEF WillShow
  <2> QED
    BY <2>5, <2>7
<1>4. CASE /\ DOMAIN backlog = {} /\ UNCHANGED backlog
           /\ \A q : q \in points' <=> \/ q \in points /\ ~(o.op = "delete" /\ q \in o.points)
                                       \/ o.op = "upsert" /\ q \in o.points
  <2>1. \A q : q \in PointsOf(u)' <=> q \in PointsOf(u) \/ q = p
    BY <1>0, <1>4 DEF PointsOf
  <2>2. DOMAIN backlog' = {} /\ p \in points'
    BY <1>0, <1>4
  <2>3. \A q \in PointsOf(u) : ~Contradict(q.text, t) /\ ~Contradict(t, q.text)
    BY <1>4 DEF Cleared, Contradict
  <2>4. PointsInv(u)'
    BY <1>0, <2>1, <2>2, <2>3 DEF PointsInv, Consistent
  <2> QED
    BY <2>2, <2>4 DEF WillShow
<1> QED
  BY <1>0, <1>2, <1>3, <1>4, AcceptEffects
-----------------------------------------------------------------------------
(* A run of an undisturbed user knows what the stores hold.                *)

\* u remembers t, or will when the writes on their way are applied.
Known(u, t) ==
  (\E m \in core[u] : m.text = t) \/ WillShow([user |-> u, text |-> t])

\* The fact of the run is a core one.
IsCore(w) == Topic[Fact(w)] \in coreTopics

SawPoints(w) == wk[w].shown = PointsOf(User(w)) /\ Quiet(User(w))
SawCore(w) == wk[w].snap = core[User(w)]
PlannedGeneral(w) ==
  /\ Quiet(User(w))
  /\ wk[w].answer.general = IF IsCore(w) THEN {} ELSE Curated(PointsOf(User(w)), Fact(w))
PlannedCore(w) ==
  wk[w].answer.core = IF IsCore(w) THEN Curated(core[User(w)], Fact(w)) ELSE {}
CoreDone(w) == IsCore(w) => \E m \in core[User(w)] : m.text = Fact(w)
Ready(w) ==
  LET new == Payloads(wk[w].answer.general) IN
  /\ new \subseteq {Fact(w)}
  /\ Fact(w) \in new => Cleared(User(w), Fact(w))
  /\ Fact(w) \in new \/ Known(User(w), Fact(w))

PlanInv(w) ==
  /\ wk[w].pc \in {"readCore", "generate"} => SawPoints(w)
  /\ wk[w].pc \in {"generate", "writeCore"} => SawCore(w)
  /\ wk[w].pc \in {"writeCore", "embed", "check", "delete"} => PlannedGeneral(w)
  /\ wk[w].pc = "writeCore" => PlannedCore(w)
  /\ wk[w].pc \in {"embed", "check", "delete", "insert"} => CoreDone(w)
  /\ wk[w].pc \in {"check", "delete", "insert"} => wk[w].embedded
  /\ wk[w].pc = "insert" => Ready(w)

LEMMA KnownStays ==
  ASSUME QdrantTypeOK, NEW u \in Users, NEW t \in Texts, QdrantStep(u), core'[u] = core[u],
         Known(u, t)
  PROVE  Known(u, t)'
<1> DEFINE p == [user |-> u, text |-> t]
<1>1. p \in Point /\ p.user = u
  BY DEF Point
<1>2. WillShow(p) => WillShow(p)'
  BY <1>1, WillShowStays
<1> QED
  BY <1>2 DEF Known

\* A step that leaves the stores of the run's user alone keeps what the run knows.
LEMMA PlanStays ==
  ASSUME TypeOK, NEW x \in Workers, wk[x].job \in Jobs, SameView(x),
         QdrantStep(User(x)), core'[User(x)] = core[User(x)], UNCHANGED coreTopics, PlanInv(x)
  PROVE  PlanInv(x)'
<1>1. PICK u \in Users : u = User(x)
  BY AgentAssumption DEF User
<1>2. PICK t \in Texts : t = Fact(x)
  BY FactType
<1>3. User(x)' = u /\ Fact(x)' = t /\ (IsCore(x)' <=> IsCore(x))
  BY <1>1, <1>2 DEF SameView, User, Fact, IsCore
<1>4. QdrantTypeOK /\ QdrantStep(u)
  BY <1>1 DEF TypeOK
<1>5. Quiet(u) => Quiet(u)' /\ PointsOf(u)' = PointsOf(u)
  BY <1>4, QuietStays
<1>6. Cleared(u, t) => Cleared(u, t)'
  BY <1>4, ClearedStays
<1>7. Known(u, t) => Known(u, t)'
  BY <1>1, <1>4, KnownStays
<1>8. core'[u] = core[u]
  BY <1>1
<1>9. SawPoints(x) => SawPoints(x)'
  BY <1>1, <1>3, <1>5 DEF SawPoints, SameView
<1>10. SawCore(x) => SawCore(x)'
  BY <1>1, <1>3, <1>8 DEF SawCore, SameView
<1>11. PlannedGeneral(x) => PlannedGeneral(x)'
  BY <1>1, <1>2, <1>3, <1>5 DEF PlannedGeneral, SameView
<1>12. PlannedCore(x) => PlannedCore(x)'
  BY <1>1, <1>2, <1>3, <1>8 DEF PlannedCore, SameView
<1>13. CoreDone(x) => CoreDone(x)'
  BY <1>1, <1>2, <1>3, <1>8 DEF CoreDone
<1>14. Ready(x) => Ready(x)'
  BY <1>1, <1>2, <1>3, <1>6, <1>7 DEF Ready, SameView
<1> QED
  BY <1>9, <1>10, <1>11, <1>12, <1>13, <1>14 DEF PlanInv, SameView

\* A call that was not swallowed has not failed.
LEMMA NotSwallowed ==
  ASSUME TypeOK, NEW w \in Workers, ~Swallows(w),
         wk[w].pc \in {"search", "readCore", "writeCore", "embed", "check", "delete", "insert"}
  PROVE  ~Fails(w) /\ ~Fault
<1>1. faults \in Nat
  BY BoundsAssumption DEF TypeOK, QueueTypeOK
<1> QED
  BY <1>1 DEF Swallows, Fails, Fault

\* The run's own steps, as long as nothing disturbs them.
LEMMA OwnReads ==
  ASSUME TypeOK, NEW w \in Workers, PlanInv(w), ~Swallows(w), ~ReadsBehind(w),
         UNCHANGED coreTopics,
         \/ ExpandContinues(w) \/ ReadCore(w)
         \/ At(w, "search") /\ (SearchFinds(w, PointsOf(User(w))) \/ SearchFails(w))
         \/ At(w, "generate") /\ (GenerateReturns(w, IdealPlan(w)) \/ GenerateFails(w))
  PROVE  Running(w)' => PlanInv(w)'
<1>1. CASE ExpandContinues(w)
  BY <1>1, ExpandView DEF PlanInv, Running
<1>2. CASE At(w, "search") /\ (SearchFinds(w, PointsOf(User(w))) \/ SearchFails(w))
  <2>1. ~SearchFails(w)
    BY <1>2, NotSwallowed DEF At, SearchFails
  <2>2. wk'[w].pc = "readCore" /\ SameJob(w) /\ wk'[w].shown = PointsOf(User(w))
        /\ UNCHANGED qdrant
    BY <1>2, <2>1, SearchView
  <2>3. DOMAIN backlog' = {}
    BY <1>2, <2>2 DEF At, ReadsBehind, qdrant
  <2>4. SawPoints(w)'
    BY <2>2, <2>3 DEF SawPoints, Quiet, PointsOf, qdrant, SameJob, User
  <2> QED
    BY <2>2, <2>4 DEF PlanInv
<1>3. CASE ReadCore(w)
  <2>1. wk[w].pc = "readCore"
    BY <1>3, ReadCoreView
  <2>2. ~Fails(w)
    BY <2>1, NotSwallowed
  <2>3. /\ wk'[w].pc = "generate" /\ SameJob(w) /\ wk'[w].shown = wk[w].shown
        /\ wk'[w].snap = core[User(w)] /\ UNCHANGED <<core, qdrant>>
    BY <1>3, <2>2, ReadCoreView
  <2>4. SawPoints(w)'
    BY <2>1, <2>3 DEF PlanInv, SawPoints, Quiet, PointsOf, IsWrite, qdrant, SameJob, User
  <2>5. SawCore(w)'
    BY <2>3 DEF SawCore, SameJob, User
  <2> QED
    BY <2>3, <2>4, <2>5 DEF PlanInv
<1>4. CASE At(w, "generate") /\ (GenerateReturns(w, IdealPlan(w)) \/ GenerateFails(w))
  <2>1. CASE wk'[w].pc \in {"panic", "term"}
    BY <2>1 DEF Running
  <2>2. CASE /\ wk'[w].pc = "writeCore" /\ wk'[w].answer = IdealPlan(w)
             /\ wk'[w].snap = wk[w].snap
    <3>1. SameJob(w) /\ UNCHANGED <<core, qdrant>>
      BY <1>4, GenerateView
    <3>2. SawPoints(w) /\ SawCore(w)
      BY <1>4 DEF At, PlanInv
    <3>3. SawCore(w)'
      BY <2>2, <3>1, <3>2 DEF SawCore, SameJob, User
    <3>4. Quiet(User(w))' /\ PointsOf(User(w))' = PointsOf(User(w)) /\ Fact(w)' = Fact(w)
          /\ (IsCore(w)' <=> IsCore(w))
      BY <3>1, <3>2 DEF SawPoints, Quiet, PointsOf, IsWrite, qdrant, SameJob, User, Fact, IsCore
    <3>5. PlannedGeneral(w)'
      BY <2>2, <3>2, <3>4 DEF PlannedGeneral, IdealPlan, SawPoints, IsCore, Fact
    <3>6. PlannedCore(w)'
      BY <2>2, <3>1, <3>2, <3>4 DEF PlannedCore, IdealPlan, SawCore, IsCore, Fact, SameJob, User
    <3> QED
      BY <2>2, <3>3, <3>5, <3>6 DEF PlanInv
  <2> QED
    BY <1>4, <2>1, <2>2, GenerateView
<1> QED
  BY <1>1, <1>2, <1>3, <1>4

LEMMA CoreWritten ==
  ASSUME TypeOK, NEW w \in Workers, PlanInv(w), ~Swallows(w), UNCHANGED coreTopics, WriteCore(w)
  PROVE  PlanInv(w)'
<1>1. wk[w].pc = "writeCore"
  BY WriteCoreView
<1>2. ~Fails(w)
  BY <1>1, NotSwallowed
<1>3. wk[w].job \in Jobs /\ User(w) \in Users /\ Fact(w) \in Texts
  BY <1>1, BusyHasJob, FactType
<1>4. SawCore(w) /\ PlannedCore(w) /\ PlannedGeneral(w)
  BY <1>1 DEF PlanInv
<1> DEFINE u == User(w)
           new == NewCore(wk[w].snap, wk[w].answer, wk[w].job, wk[w].n)
<1>5. /\ wk'[w].pc = "embed" /\ SameJob(w) /\ wk'[w].answer = wk[w].answer
      /\ UNCHANGED qdrant
      /\ \/ wk[w].answer.core = {} /\ UNCHANGED core
         \/ wk[w].answer.core # {} /\ core' = [core EXCEPT ![u] = new]
  BY <1>2, WriteCoreView
<1>6. core \in [Users -> SUBSET CoreMem] /\ core[u] \in SUBSET CoreMem
  BY <1>3 DEF TypeOK
<1>7. IsCore(w) => \E m \in core'[u] : m.text = Fact(w)
  <2> SUFFICES ASSUME IsCore(w) PROVE \E m \in core'[u] : m.text = Fact(w)
    OBVIOUS
  <2>1. wk[w].answer.core = Curated(core[u], Fact(w)) /\ wk[w].snap = core[u]
    BY <1>4 DEF PlannedCore, SawCore
  <2>2. CASE wk[w].answer.core = {} /\ UNCHANGED core
    <3>1. Fact(w) \in {m.text : m \in core[u]}
      <4>1. SUFFICES ASSUME Fact(w) \notin {m.text : m \in core[u]} PROVE FALSE
        OBVIOUS
      <4>2. [type |-> "INSERT", payload |-> Fact(w)] \in Curated(core[u], Fact(w))
        BY <4>1 DEF Curated
      <4> QED
        BY <2>1, <2>2, <4>2
    <3> QED
      BY <2>2, <3>1
  <2>3. CASE core' = [core EXCEPT ![u] = new]
    <3>1. \E m \in new : m.text = Fact(w)
      BY <1>3, <1>6, <2>1, CuratedHasFact
    <3>2. core'[u] = new
      BY <1>3, <1>6, <2>3
    <3> QED
      BY <3>1, <3>2
  <2> QED
    BY <1>5, <2>2, <2>3
<1>8. User(w)' = User(w) /\ Fact(w)' = Fact(w) /\ (IsCore(w)' <=> IsCore(w))
  BY <1>5 DEF SameJob, User, Fact, IsCore
<1>9. CoreDone(w)'
  BY <1>7, <1>8 DEF CoreDone
<1>10. PlannedGeneral(w)'
  BY <1>4, <1>5, <1>8 DEF PlannedGeneral, Quiet, PointsOf, IsWrite, qdrant
<1> QED
  BY <1>5, <1>9, <1>10 DEF PlanInv

LEMMA Embedded ==
  ASSUME TypeOK, NEW w \in Workers, PlanInv(w), ~Swallows(w), UNCHANGED coreTopics, Embed(w)
  PROVE  PlanInv(w)'
<1>1. wk[w].pc = "embed"
  BY EmbedView
<1>2. ~Fault
  BY <1>1, NotSwallowed
<1>3. /\ wk'[w].pc = "check" /\ SameJob(w) /\ wk'[w].answer = wk[w].answer /\ wk'[w].embedded
      /\ UNCHANGED <<core, qdrant>>
  BY <1>2, EmbedView
<1>4. PlannedGeneral(w)' /\ CoreDone(w)'
  BY <1>1, <1>3 DEF PlanInv, PlannedGeneral, CoreDone, Quiet, PointsOf, IsWrite, qdrant,
                    SameJob, User, Fact, IsCore
<1> QED
  BY <1>3, <1>4 DEF PlanInv

\* What the plan names, in the terms of the stores.
LEMMA PlanNames ==
  ASSUME TypeOK, NEW w \in Workers, wk[w].job \in Jobs, PlannedGeneral(w)
  PROVE  LET t == Fact(w)
             u == User(w)
             general == wk[w].answer.general
         IN
         /\ Targets(general) = IF IsCore(w) THEN {}
                               ELSE {q \in PointsOf(u) : Contradict(q.text, t)}
         /\ Payloads(general) = IF IsCore(w) THEN {}
                                ELSE {t} \ {q.text : q \in PointsOf(u)}
         /\ PointsOf(u) \subseteq Point /\ Targets(general) \subseteq Point
<1>1. Fact(w) \in Texts
  BY FactType
<1>2. PointsOf(User(w)) \subseteq Point
  BY DEF TypeOK, QdrantTypeOK, PointsOf
<1>3. CASE IsCore(w)
  BY <1>2, <1>3 DEF PlannedGeneral, Targets, Payloads
<1>4. CASE ~IsCore(w)
  BY <1>1, <1>2, <1>4, CuratedTargets, CuratedPayloads DEF PlannedGeneral
<1> QED
  BY <1>3, <1>4

\* A point with the fact's text that is there, and is not being deleted, is known.
LEMMA TextIsKnown ==
  ASSUME points \subseteq Point, NEW u, NEW q \in PointsOf(u), WillShow(q)
  PROVE  Known(u, q.text)
<1>1. q = [user |-> u, text |-> q.text]
  BY DEF PointsOf, Point
<1> QED
  BY <1>1 DEF Known

\* Nothing to delete: the run can insert at once.
LEMMA Checked ==
  ASSUME TypeOK, NEW w \in Workers, PlanInv(w), ~Swallows(w), ~ReadsBehind(w),
         UNCHANGED coreTopics, CheckDelete(w)
  PROVE  PlanInv(w)'
<1>1. wk[w].pc = "check"
  BY CheckView
<1>2. ~Fails(w) /\ wk[w].job \in Jobs
  BY <1>1, NotSwallowed, BusyHasJob
<1> DEFINE ids == Targets(wk[w].answer.general)
<1>3. PlannedGeneral(w) /\ CoreDone(w) /\ wk[w].embedded
  BY <1>1 DEF PlanInv
<1>4. ids # {} => Found(ids)
  <2>1. ids \subseteq points /\ ids \subseteq Point
    BY <1>2, <1>3, PlanNames DEF PointsOf
  <2>2. NoUuid \notin ids
    BY <2>1, UuidAssumption
  <2> QED
    BY <2>1, <2>2 DEF Found
<1>5. /\ SameJob(w) /\ wk'[w].answer = wk[w].answer /\ wk'[w].embedded = wk[w].embedded
      /\ \/ ids # {} /\ wk'[w].pc = "delete"
         \/ ids = {} /\ wk'[w].pc = "insert"
      /\ UNCHANGED <<core, qdrant>>
  BY <1>2, <1>4, CheckView
<1>6. PlannedGeneral(w)' /\ CoreDone(w)'
  BY <1>3, <1>5 DEF PlannedGeneral, CoreDone, Quiet, PointsOf, IsWrite, qdrant,
                    SameJob, User, Fact, IsCore
<1>7. CASE wk'[w].pc = "delete"
  BY <1>3, <1>5, <1>6, <1>7 DEF PlanInv
<1>8. CASE ids = {} /\ wk'[w].pc = "insert"
  <2> DEFINE t == Fact(w)
             u == User(w)
             new == Payloads(wk[w].answer.general)
  <2>1. DOMAIN backlog = {}
    BY <1>1 DEF ReadsBehind
  <2>2. Quiet(u) /\ new \subseteq {t}
    BY <1>2, <1>3, PlanNames DEF PlannedGeneral
  <2>3. t \in new => Cleared(u, t)
    BY <1>2, <1>3, <1>8, <2>1, PlanNames DEF Cleared
  <2>4. t \in new \/ Known(u, t)
    <3>1. CASE IsCore(w)
      BY <1>3, <3>1 DEF CoreDone, Known
    <3>2. CASE ~IsCore(w) /\ t \notin new
      <4>1. PICK q \in PointsOf(u) : q.text = t
        <5>1. new = {t} \ {q.text : q \in PointsOf(u)}
          BY <1>2, <1>3, <3>2, PlanNames
        <5>2. t \in {q.text : q \in PointsOf(u)}
          BY <3>2, <5>1
        <5> QED
          BY <5>2
      <4>2. WillShow(q)
        BY <2>1, <4>1 DEF WillShow, PointsOf
      <4> QED
        BY <4>1, <4>2, TextIsKnown DEF TypeOK, QdrantTypeOK
    <3> QED
      BY <3>1, <3>2
  <2>5. Ready(w)
    BY <2>2, <2>3, <2>4 DEF Ready
  <2>6. Ready(w)'
    BY <1>5, <2>5, SMTT(30) DEF Ready, Known, WillShow, Cleared, PointsOf, IsWrite, qdrant, SameJob,
                      User, Fact
  <2> QED
    BY <1>3, <1>5, <1>6, <1>8, <2>6 DEF PlanInv
<1> QED
  BY <1>5, <1>7, <1>8

LEMMA Deleted ==
  ASSUME TypeOK, NEW w \in Workers, PlanInv(w), PointsInv(User(w)), ~Swallows(w),
         UNCHANGED coreTopics, Delete(w)
  PROVE  PlanInv(w)' /\ PointsInv(User(w))'
<1>1. wk[w].pc = "delete"
  BY DeleteView
<1>2. ~Fails(w) /\ wk[w].job \in Jobs
  BY <1>1, NotSwallowed, BusyHasJob
<1> DEFINE ids == Targets(wk[w].answer.general) \intersect Point
           new == Payloads(wk[w].answer.general)
<1>3. PlannedGeneral(w) /\ CoreDone(w) /\ wk[w].embedded
  BY <1>1 DEF PlanInv
<1>4. /\ wk'[w].pc = "insert" /\ SameJob(w)
      /\ wk'[w].answer = wk[w].answer /\ wk'[w].embedded = wk[w].embedded
      /\ Accept([op |-> "delete", points |-> ids]) /\ UNCHANGED core
  BY <1>2, DeleteView
<1>5. PICK u \in Users : u = User(w)
  BY <1>2, AgentAssumption DEF User
<1>6. PICK t \in Texts : t = Fact(w)
  BY <1>2, FactType
<1>7. User(w)' = u /\ Fact(w)' = t /\ (IsCore(w)' <=> IsCore(w))
  BY <1>4, <1>5, <1>6 DEF SameJob, User, Fact, IsCore
<1>8. QdrantTypeOK /\ Quiet(u) /\ PointsInv(u)
  BY <1>3, <1>5 DEF TypeOK, PlannedGeneral
<1>9. CoreDone(w)'
  BY <1>3, <1>4, <1>5, <1>6, <1>7 DEF CoreDone
<1>10. CASE IsCore(w)
  <2>1. ids = {} /\ new = {}
    BY <1>2, <1>3, <1>10, PlanNames
  <2>2. QdrantStep(u)
    <3>1. [op |-> "delete", points |-> ids] \in Write
      BY DEF Write
    <3> QED
      BY <1>4, <2>1, <3>1 DEF QdrantStep
  <2>3. PointsInv(u)'
    BY <1>8, <2>2, PointsInvStays
  <2>4. Ready(w)'
    BY <1>4, <1>7, <1>9, <1>10, <2>1 DEF Ready, Known, CoreDone
  <2> QED
    BY <1>3, <1>4, <1>5, <1>7, <1>9, <2>3, <2>4 DEF PlanInv
<1>11. CASE ~IsCore(w)
  <2>1. /\ ids = {q \in PointsOf(u) : Contradict(q.text, t)}
        /\ new = {t} \ {q.text : q \in PointsOf(u)}
    BY <1>2, <1>3, <1>5, <1>6, <1>11, PlanNames
  <2>2. /\ Cleared(u, t)' /\ PointsInv(u)'
        /\ \A p \in PointsOf(u) : p.text = t => WillShow(p)'
    BY <1>4, <1>8, <2>1, DeleteOwn
  <2>3. t \in new \/ Known(u, t)'
    <3>1. CASE t \notin new
      <4>1. t \in {q.text : q \in PointsOf(u)}
        BY <2>1, <3>1
      <4>2. PICK q \in PointsOf(u) : q.text = t
        BY <4>1
      <4>3. q = [user |-> u, text |-> t]
        BY <4>2 DEF TypeOK, QdrantTypeOK, PointsOf, Point
      <4> QED
        BY <2>2, <4>2, <4>3 DEF Known
    <3> QED
      BY <3>1
  <2>4. new \subseteq {t}
    BY <2>1
  <2>5. wk'[w].answer.general = wk[w].answer.general
    BY <1>4
  <2> HIDE DEF new, ids
  <2>6. Payloads(wk[w].answer.general)' = new
    BY <2>5 DEF new, Payloads
  <2>7. Ready(w)'
    BY <1>7, <2>2, <2>3, <2>4, <2>6 DEF Ready
  <2> QED
    BY <1>3, <1>4, <1>5, <1>7, <1>9, <2>2, <2>7 DEF PlanInv
<1> QED
  BY <1>10, <1>11

LEMMA Inserted ==
  ASSUME TypeOK, NEW w \in Workers, PlanInv(w), PointsInv(User(w)), ~Swallows(w), Insert(w),
         NEW u \in Users, u = User(w), NEW t \in Texts, t = Fact(w)
  PROVE  PointsInv(u)' /\ Known(u, t)'
<1>1. wk[w].pc = "insert"
  BY InsertView
<1>2. ~Fails(w)
  BY <1>1, NotSwallowed
<1>3. /\ UNCHANGED core
      /\ \/ NewPoints(w) = {} /\ UNCHANGED qdrant
         \/ NewPoints(w) # {} /\ Accept([op |-> "upsert", points |-> NewPoints(w)])
  BY <1>2, InsertView
<1>4. QdrantTypeOK
  BY DEF TypeOK
<1> DEFINE new == Payloads(wk[w].answer.general)
           p == [user |-> u, text |-> t]
<1>5. p \in Point /\ p.user = u /\ p.text = t
  BY DEF Point
<1>6. /\ new \subseteq {t}
      /\ t \in new => Cleared(u, t)
      /\ t \in new \/ Known(u, t)
      /\ wk[w].embedded
  BY <1>1 DEF PlanInv, Ready
<1>7. CASE t \in new
  <2>1. NewPoints(w) = {p}
    <3>1. new = {t}
      BY <1>6, <1>7
    <3> HIDE DEF new
    <3>2. NewPoints(w) = {[user |-> u, text |-> s] : s \in new}
      BY <1>6 DEF NewPoints, new
    <3> QED
      BY <3>1, <3>2
  <2>2. Accept([op |-> "upsert", points |-> {p}])
    BY <1>3, <2>1
  <2> HIDE DEF p
  <2>3. PointsInv(u)' /\ WillShow(p)'
    BY <1>4, <1>5, <1>6, <1>7, <2>2, InsertOwn
  <2> QED
    BY <2>3 DEF Known, p
<1>8. CASE t \notin new
  <2>1. new = {}
    BY <1>6, <1>8
  <2>2. UNCHANGED qdrant
    BY <1>3, <2>1 DEF NewPoints
  <2>3. QdrantStep(u)
    BY <2>2 DEF QdrantStep
  <2>4. core'[u] = core[u]
    BY <1>3
  <2> QED
    BY <1>4, <1>6, <1>8, <2>3, <2>4, PointsInvStays, KnownStays
<1> QED
  BY <1>7, <1>8

\* A run of another user changes nothing of u.
LEMMA OtherUser ==
  ASSUME TypeOK, UserIsolation, NEW w \in Workers, IdealWorkerStep(w),
         NEW u \in Users, User(w) # u \/ Begin(w) \/ Settle(w)
  PROVE  QdrantStep(u) /\ core'[u] = core[u]
<1>1. CASE Begin(w) \/ ExpandContinues(w) \/ ReadCore(w) \/ Embed(w) \/ CheckDelete(w) \/ Settle(w)
  BY <1>1, BeginView, ExpandView, ReadCoreView, EmbedView, CheckView, SettleView DEF QdrantStep
<1>2. CASE \/ At(w, "search") /\ (SearchFinds(w, PointsOf(User(w))) \/ SearchFails(w))
           \/ At(w, "generate") /\ (GenerateReturns(w, IdealPlan(w)) \/ GenerateFails(w))
  BY <1>2, SearchView, GenerateView DEF QdrantStep
<1>3. CASE WriteCore(w)
  <2>1. User(w) # u
    BY <1>3, BeginView, SettleView, WriteCoreView
  <2>2. core'[u] = core[u]
    BY <1>3, <2>1, WriteCoreView DEF TypeOK
  <2> QED
    BY <1>3, <2>2, WriteCoreView DEF QdrantStep
<1>4. CASE Delete(w)
  <2> DEFINE ids == Targets(wk[w].answer.general) \intersect Point
  <2>1. User(w) # u /\ wk[w].job # NoJob
    BY <1>4, BeginView, SettleView, DeleteView DEF TypeOK
  <2>2. \A p \in ids : p.user # u
    BY <2>1 DEF UserIsolation
  <2>3. [op |-> "delete", points |-> ids] \in Write
    BY DEF Write
  <2>4. /\ UNCHANGED core
        /\ UNCHANGED qdrant \/ Accept([op |-> "delete", points |-> ids])
    BY <1>4, DeleteView
  <2> HIDE DEF ids
  <2> QED
    BY <2>2, <2>3, <2>4 DEF QdrantStep
<1>5. CASE Insert(w)
  <2>1. User(w) # u /\ wk[w].pc = "insert"
    BY <1>5, BeginView, SettleView, InsertView
  <2>2. \A p \in NewPoints(w) : p.user # u
    BY <2>1 DEF NewPoints
  <2>3. [op |-> "upsert", points |-> NewPoints(w)] \in Write
    BY <2>1, NewPointsType DEF Write
  <2>4. /\ UNCHANGED core
        /\ UNCHANGED qdrant \/ Accept([op |-> "upsert", points |-> NewPoints(w)])
    BY <1>5, InsertView
  <2> QED
    BY <2>2, <2>3, <2>4 DEF QdrantStep
<1> QED
  BY <1>1, <1>2, <1>3, <1>4, <1>5 DEF IdealWorkerStep
-----------------------------------------------------------------------------
(* The invariant of the undisturbed users.                                 *)

OneRun(u) ==
  \A w, x \in Workers : Running(w) /\ Running(x) /\ User(w) = u /\ User(x) = u => w = x

\* A run that has written the core memories and is not done yet.
Mid(w) == wk[w].pc \in {"embed", "check", "delete", "insert"}

\* The job is pending and every run of it that has ended was cut short by a crash,
\* so that a run to come is not its first one.
CutShort(j) ==
  /\ stream[j] = "pending" /\ runs[j] >= 1
  /\ \A w \in Workers : wk[w].job = j => wk[w].n >= 2 /\ wk[w].pc \notin {"ack", "term"}

\* The last fact of u is known, or there is a run that is about to replace it, or a
\* job that will be run again.
LastInv(u) ==
  \/ lastDone[u] = NoJob
  \/ Known(u, Says[lastDone[u]])
  \/ \E w \in Workers : Mid(w) /\ User(w) = u
  \/ \E j \in Jobs : UserOf[j] = u /\ CutShort(j)

CalmUser(u) ==
  /\ OneRun(u) /\ PointsInv(u) /\ LastInv(u)
  /\ \A w \in Workers : Running(w) /\ User(w) = u => PlanInv(w)

RunCounted ==
  \A w \in Workers : wk[w].job \in Jobs => wk[w].n >= 1 /\ runs[wk[w].job] >= 1

Calm ==
  /\ lastDone \in [Users -> Jobs \union {NoJob}]
  /\ RunCounted
  /\ \A u \in Users \ disturbed : CalmUser(u)

LEMMA SameRun ==
  ASSUME NEW x, SameView(x)
  PROVE  /\ Running(x)' <=> Running(x)
         /\ Mid(x)' <=> Mid(x)
         /\ User(x)' = User(x)
BY DEF SameView, Running, Mid, User

LEMMA LastStays ==
  ASSUME TypeOK, Calm, NEW u \in Users, lastDone'[u] = lastDone[u], QdrantStep(u),
         core'[u] = core[u],
         \A x \in Workers : Mid(x) /\ User(x) = u => Mid(x)' /\ User(x)' = u,
         \A j \in Jobs : UserOf[j] = u /\ CutShort(j) => CutShort(j)',
         LastInv(u)
  PROVE  LastInv(u)'
<1>1. CASE lastDone[u] \in Jobs /\ Known(u, Says[lastDone[u]])
  <2>1. PICK t \in Texts : t = Says[lastDone[u]]
    BY <1>1, CurationAssumption
  <2>2. Known(u, t)'
    BY <1>1, <2>1, KnownStays DEF TypeOK
  <2> QED
    BY <2>1, <2>2 DEF LastInv
<1>2. CASE \E w \in Workers : Mid(w) /\ User(w) = u
  BY <1>2 DEF LastInv
<1>3. CASE \E j \in Jobs : UserOf[j] = u /\ CutShort(j)
  BY <1>3 DEF LastInv
<1> QED
  BY <1>1, <1>2, <1>3 DEF LastInv, Calm

\* Steps of the queue, of Qdrant and of the clock.
LEMMA StillCalm ==
  ASSUME TypeOK, Calm, UNCHANGED <<coreTopics, history>>,
         \/ QueueStep \/ ApplyWrite \/ UNCHANGED vars
         \/ \E w \in Workers : DeadlineExpires(w)
  PROVE  Calm'
<1>1. /\ \A x \in Workers : SameView(x)
      /\ UNCHANGED <<core, runs>>
      /\ \A j \in Jobs : stream[j] = "pending" => stream'[j] = "pending"
      /\ ApplyWrite \/ UNCHANGED qdrant
  BY StillView
<1>2. RunCounted'
  BY <1>1 DEF SameView, RunCounted, Calm
<1>3. ASSUME NEW u \in Users \ disturbed PROVE CalmUser(u)'
  <2>1. QdrantStep(u) /\ core'[u] = core[u] /\ CalmUser(u) /\ QdrantTypeOK
    BY <1>1 DEF QdrantStep, HeadApplied, ApplyWrite, Calm, TypeOK
  <2>2. OneRun(u)'
    BY <1>1, <2>1, SameRun DEF CalmUser, OneRun
  <2>3. PointsInv(u)'
    BY <2>1, PointsInvStays DEF CalmUser
  <2>4. LastInv(u)'
    <3>1. \A x \in Workers : Mid(x) /\ User(x) = u => Mid(x)' /\ User(x)' = u
      BY <1>1, SameRun
    <3>2. \A j \in Jobs : CutShort(j) => CutShort(j)'
      BY <1>1 DEF CutShort, SameView
    <3> QED
      BY <2>1, <3>1, <3>2, LastStays DEF CalmUser, history
  <2>5. ASSUME NEW x \in Workers, Running(x)', User(x)' = u PROVE PlanInv(x)'
    <3>1. Running(x) /\ User(x) = u /\ SameView(x)
      BY <1>1, <2>5, SameRun
    <3>2. wk[x].job \in Jobs /\ PlanInv(x)
      BY <2>1, <3>1, BusyHasJob DEF CalmUser, Running
    <3> QED
      BY <2>1, <3>1, <3>2, PlanStays
  <2> QED
    BY <2>2, <2>3, <2>4, <2>5 DEF CalmUser
<1> QED
  BY <1>2, <1>3 DEF Calm, history

\* A crash ends all runs. What a run had half done is made up for if its message
\* is still pending.
LEMMA CrashCalm ==
  ASSUME TypeOK, Calm, IdealCrash
  PROVE  Calm'
<1>1. /\ \A x \in Workers : wk'[x].pc = "idle" /\ wk'[x].job = NoJob
      /\ UNCHANGED <<core, qdrant, runs, stream, lastDone>>
  BY DEF IdealCrash, Crash, QueueCrash, IdleRun, FreshRun, stores
<1>2. RunCounted'
  BY <1>1, AgentAssumption DEF RunCounted
<1>3. ASSUME NEW u \in Users \ disturbed' PROVE CalmUser(u)'
  <2>1. u \in Users \ disturbed /\ CalmUser(u)
    BY <1>3 DEF IdealCrash, Calm
  <2>2. OneRun(u)' /\ \A x \in Workers : ~Running(x)'
    BY <1>1 DEF OneRun, Running
  <2>3. QdrantStep(u) /\ QdrantTypeOK /\ core'[u] = core[u]
    BY <1>1 DEF QdrantStep, TypeOK
  <2>4. PointsInv(u)'
    BY <2>1, <2>3, PointsInvStays DEF CalmUser
  <2>5. LastInv(u)'
    <3>1. \A j \in Jobs : stream[j] = "pending" /\ runs[j] >= 1 => CutShort(j)'
      BY <1>1, AgentAssumption DEF CutShort
    <3>2. CASE \E x \in Workers : Mid(x) /\ User(x) = u
      <4>1. PICK x \in Workers : Mid(x) /\ User(x) = u
        BY <3>2
      <4>2. wk[x].job \in Jobs /\ Running(x)
        BY <4>1, BusyHasJob DEF Mid, Running
      <4>3. stream[wk[x].job] = "pending"
        BY <1>3, <4>1, <4>2 DEF IdealCrash
      <4>4. runs[wk[x].job] >= 1 /\ UserOf[wk[x].job] = u
        BY <4>1, <4>2 DEF Calm, RunCounted, User
      <4> QED
        BY <3>1, <4>2, <4>3, <4>4 DEF LastInv
    <3>3. CASE ~\E x \in Workers : Mid(x) /\ User(x) = u
      <4>1. \A j \in Jobs : CutShort(j) => CutShort(j)'
        BY <3>1 DEF CutShort
      <4> QED
        BY <1>1, <2>1, <2>3, <3>3, <4>1, LastStays DEF CalmUser
    <3> QED
      BY <3>2, <3>3
  <2> QED
    BY <2>2, <2>4, <2>5 DEF CalmUser
<1> QED
  BY <1>1, <1>2, <1>3 DEF Calm

\* What Observe tells of a step that does not disturb its user.
LEMMA NotDisturbed ==
  ASSUME NEW w \in Workers, Observe(w), UserOf[wk'[w].job] \notin disturbed'
  PROVE  ~Overlaps(w) /\ ~Swallows(w) /\ ~ReadsBehind(w) /\ ~GivesUpRerun(w)
BY DEF Observe

LEMMA DisturbedGrows == ASSUME NEW w, Observe(w) PROVE disturbed \subseteq disturbed'
BY DEF Observe

\* A step of a run that goes on is none of its first and none of its last.
LEMMA InnerView ==
  ASSUME TypeOK, NEW w \in Workers, IdealWorkerStep(w), ~Begin(w), ~Settle(w)
  PROVE  /\ Running(w) /\ SameJob(w) /\ wk[w].job \in Jobs /\ User(w)' = User(w)
         /\ UNCHANGED <<stream, runs>>
         /\ wk'[w].pc \in {"ack", "term"} => Insert(w) \/ wk'[w].pc = "term"
         /\ wk[w].pc = "insert" <=> Insert(w)
         /\ Mid(w) => Mid(w)' \/ Insert(w)
         /\ wk'[w].pc = "embed" => WriteCore(w)
<1>1. CASE ExpandContinues(w) \/ ReadCore(w) \/ WriteCore(w) \/ Embed(w) \/ CheckDelete(w) \/ Delete(w)
  <2>1. /\ SameJob(w) /\ UNCHANGED <<stream, runs>>
        /\ wk[w].pc \in {"expand", "readCore", "writeCore", "embed", "check", "delete"}
        /\ wk'[w].pc \in {"search", "term", "generate", "embed", "check", "delete", "insert"}
        /\ Mid(w) => Mid(w)'
        /\ wk'[w].pc = "embed" => WriteCore(w)
    BY <1>1, ExpandView, ReadCoreView, WriteCoreView, EmbedView, CheckView, DeleteView,
       ZenonT(30) DEF Mid
  <2>2. ~Insert(w)
    BY <2>1, InsertView
  <2> QED
    BY <2>1, <2>2, BusyHasJob DEF Running, SameJob, User
<1>2. CASE \/ At(w, "search") /\ (SearchFinds(w, PointsOf(User(w))) \/ SearchFails(w))
           \/ At(w, "generate") /\ (GenerateReturns(w, IdealPlan(w)) \/ GenerateFails(w))
  <2>1. /\ SameJob(w) /\ UNCHANGED <<stream, runs>>
        /\ wk[w].pc \in {"search", "generate"}
        /\ wk'[w].pc \in {"readCore", "panic", "term", "writeCore"}
    BY <1>2, SearchView, GenerateView DEF At
  <2>2. ~Insert(w)
    BY <2>1, InsertView
  <2> QED
    BY <2>1, <2>2, BusyHasJob DEF Running, SameJob, User, Mid
<1>3. CASE Insert(w)
  <2>1. SameJob(w) /\ UNCHANGED <<stream, runs>> /\ wk[w].pc = "insert" /\ wk'[w].pc = "ack"
    BY <1>3, InsertView
  <2> QED
    BY <1>3, <2>1, BusyHasJob DEF Running, SameJob, User
<1> QED
  BY <1>1, <1>2, <1>3 DEF IdealWorkerStep

LEMMA CountedNext ==
  ASSUME TypeOK, RunCounted, NEW w \in Workers, IdealWorkerStep(w)
  PROVE  RunCounted'
<1>1. ASSUME NEW x \in Workers \ {w}, wk'[x].job \in Jobs
      PROVE  wk[x].job = wk'[x].job /\ wk'[x].n >= 1 /\ runs[wk[x].job] >= 1
  BY <1>1, OthersView DEF SameView, RunCounted
<1>2. runs \in [Jobs -> Nat]
  BY DEF TypeOK
<1>3. CASE Begin(w)
  <2>1. PICK j \in Jobs : wk'[w].job = j /\ wk'[w].n = runs[j] + 1 /\ runs' = [runs EXCEPT ![j] = @ + 1]
    BY <1>3, BeginView
  <2>2. runs[j] \in Nat /\ runs'[j] = runs[j] + 1 /\ \A i \in Jobs : i # j => runs'[i] = runs[i]
    BY <1>2, <2>1
  <2>3. \A i \in Jobs : runs[i] >= 1 => runs'[i] >= 1
    BY <1>2, <2>2
  <2>4. wk'[w].n >= 1 /\ runs'[wk'[w].job] >= 1
    BY <2>1, <2>2
  <2> QED
    BY <1>1, <2>3, <2>4 DEF RunCounted
<1>4. CASE Settle(w)
  <2>1. wk'[w].job \notin Jobs /\ UNCHANGED runs
    BY <1>4, SettleView, AgentAssumption
  <2> QED
    BY <1>1, <2>1 DEF RunCounted
<1>5. CASE ~Begin(w) /\ ~Settle(w)
  <2>1. SameJob(w) /\ UNCHANGED runs
    BY <1>5, InnerView
  <2> QED
    BY <1>1, <2>1 DEF RunCounted, SameJob
<1> QED
  BY <1>3, <1>4, <1>5

\* A job whose runs were cut short stays one until a run of it ends.
LEMMA CutShortStays ==
  ASSUME TypeOK, NEW w \in Workers, IdealWorkerStep(w), NEW j \in Jobs, CutShort(j),
         wk[w].job = j => wk'[w].pc \notin {"ack", "term"}
  PROVE  CutShort(j)'
<1>1. \A x \in Workers \ {w} : wk'[x].job = j => wk'[x].n >= 2 /\ wk'[x].pc \notin {"ack", "term"}
  BY OthersView DEF SameView, CutShort
<1>2. runs \in [Jobs -> Nat] /\ stream[j] = "pending" /\ runs[j] >= 1
  BY DEF TypeOK, CutShort
<1>3. CASE Begin(w)
  <2>1. PICK i \in Jobs : /\ wk'[w].job = i /\ wk'[w].n = runs[i] + 1 /\ wk'[w].pc = "expand"
                          /\ runs' = [runs EXCEPT ![i] = @ + 1] /\ UNCHANGED stream
    BY <1>3, BeginView
  <2>2. runs'[j] >= 1
    BY <1>2, <2>1
  <2>3. i = j => wk'[w].n >= 2
    BY <1>2, <2>1
  <2> QED
    BY <1>1, <1>2, <2>1, <2>2, <2>3 DEF CutShort
<1>4. CASE Settle(w)
  <2>1. wk[w].job # j
    BY <1>4, SettleView DEF CutShort
  <2>2. stream'[j] = "pending" /\ wk'[w].job # j /\ UNCHANGED runs
    BY <1>2, <1>4, <2>1, SettleView, AgentAssumption
  <2> QED
    BY <1>1, <1>2, <2>2 DEF CutShort
<1>5. CASE ~Begin(w) /\ ~Settle(w)
  <2>1. SameJob(w) /\ UNCHANGED <<stream, runs>>
    BY <1>5, InnerView
  <2>2. wk'[w].job = j => wk'[w].n >= 2 /\ wk'[w].pc \notin {"ack", "term"}
    BY <2>1 DEF SameJob, CutShort
  <2> QED
    BY <1>1, <1>2, <2>1, <2>2 DEF CutShort
<1> QED
  BY <1>3, <1>4, <1>5

\* The step is none inside a run of u: it starts or settles a run, or belongs to
\* another user.
LEMMA OtherCalm ==
  ASSUME TypeOK, UserIsolation, Calm, UNCHANGED coreTopics,
         NEW w \in Workers, IdealWorkerStep(w), Observe(w),
         NEW u \in Users \ disturbed', User(w) # u \/ Begin(w) \/ Settle(w)
  PROVE  CalmUser(u)'
<1>1. u \in Users \ disturbed /\ CalmUser(u)
  BY DisturbedGrows DEF Calm
<1>2. QdrantStep(u) /\ core'[u] = core[u] /\ QdrantTypeOK
  BY OtherUser DEF TypeOK
<1>3. \A x \in Workers \ {w} : SameView(x) /\ (Running(x)' <=> Running(x))
                                /\ (Mid(x)' <=> Mid(x)) /\ User(x)' = User(x)
  BY OthersView, SameRun
<1>4. PointsInv(u)'
  BY <1>1, <1>2, PointsInvStays DEF CalmUser
<1>5. ASSUME NEW x \in Workers, Running(x)', User(x)' = u, x # w \/ ~Begin(w)
      PROVE  x # w /\ Running(x) /\ User(x) = u
  <2>1. Settle(w) => ~Running(w)'
    BY SettleView DEF Running
  <2>2. User(w) # u /\ ~Begin(w) /\ ~Settle(w) => User(w)' # u
    BY InnerView
  <2> QED
    BY <1>3, <1>5, <2>1, <2>2
<1>6. OneRun(u)'
  <2>1. CASE Begin(w) /\ User(w)' = u
    <3>1. wk[w].pc = "idle" /\ wk'[w].job = Head(inbox[w])
      BY <2>1, BeginView
    <3>2. UserOf[wk'[w].job] = u
      BY <2>1 DEF User
    <3>3. ~Overlaps(w)
      BY <3>2, NotDisturbed
    <3>4. \A x \in Workers \ {w} : ~(Running(x) /\ User(x) = u)
      BY <3>1, <3>2, <3>3 DEF Overlaps, At
    <3> QED
      BY <1>3, <3>4 DEF OneRun
  <2>2. CASE ~(Begin(w) /\ User(w)' = u)
    <3>1. ASSUME NEW x \in Workers, Running(x)', User(x)' = u
          PROVE  Running(x) /\ User(x) = u
      BY <1>5, <2>2, <3>1
    <3> QED
      BY <1>1, <3>1 DEF OneRun, CalmUser
  <2> QED
    BY <2>1, <2>2
<1>7. ASSUME NEW x \in Workers, Running(x)', User(x)' = u PROVE PlanInv(x)'
  <2>1. CASE x = w /\ Begin(w)
    BY <2>1, BeginView DEF PlanInv
  <2>2. CASE x # w \/ ~Begin(w)
    <3>1. x # w /\ Running(x) /\ User(x) = u
      BY <1>5, <1>7, <2>2
    <3>2. SameView(x) /\ PlanInv(x) /\ wk[x].job \in Jobs
      BY <1>1, <1>3, <3>1, BusyHasJob DEF CalmUser, Running
    <3> QED
      BY <1>2, <3>1, <3>2, PlanStays
  <2> QED
    BY <2>1, <2>2
<1>8. LastInv(u)'
  <2>1. lastDone'[u] = lastDone[u]
    BY BeginView, SettleView DEF Observe, Calm
  <2>2. ASSUME NEW x \in Workers, Mid(x), User(x) = u PROVE Mid(x)' /\ User(x)' = u
    <3>1. x # w
      BY <2>2, BeginView, SettleView DEF Mid
    <3> QED
      BY <1>3, <2>2, <3>1
  <2>3. ASSUME NEW j \in Jobs, UserOf[j] = u, CutShort(j) PROVE CutShort(j)'
    <3>1. wk[w].job = j => wk'[w].pc \notin {"ack", "term"}
      BY <2>3, BeginView, SettleView DEF User
    <3> QED
      BY <2>3, <3>1, CutShortStays
  <2> QED
    BY <1>1, <1>2, <2>1, <2>2, <2>3, LastStays DEF CalmUser
<1> QED
  BY <1>4, <1>6, <1>7, <1>8 DEF CalmUser

\* What an undisturbed step inside a run of u does to the points of u.
LEMMA OwnPoints ==
  ASSUME TypeOK, NEW w \in Workers, IdealWorkerStep(w), ~Begin(w), ~Settle(w),
         ~Swallows(w), UNCHANGED coreTopics, PlanInv(w), NEW u \in Users, u = User(w), PointsInv(u)
  PROVE  PointsInv(u)' /\ (Insert(w) \/ WriteCore(w) \/ Delete(w) \/ UNCHANGED <<core, qdrant>>)
<1>1. wk[w].job \in Jobs /\ User(w)' = User(w)
  BY InnerView
<1>2. CASE Delete(w)
  <2>1. PointsInv(User(w))'
    BY <1>2, Deleted
  <2> QED
    BY <1>1, <1>2, <2>1
<1>3. CASE Insert(w)
  <2>1. PICK t \in Texts : t = Fact(w)
    BY <1>1, FactType
  <2> QED
    BY <1>3, <2>1, Inserted
<1>4. CASE ~Delete(w) /\ ~Insert(w)
  <2>1. UNCHANGED qdrant /\ (WriteCore(w) \/ UNCHANGED core)
    BY <1>4, ExpandView, SearchView, ReadCoreView, GenerateView, WriteCoreView, EmbedView,
       CheckView DEF IdealWorkerStep
  <2>2. QdrantStep(u) /\ QdrantTypeOK
    BY <2>1 DEF QdrantStep, TypeOK
  <2> QED
    BY <2>1, <2>2, PointsInvStays
<1> QED
  BY <1>2, <1>3, <1>4

\* After an undisturbed step inside a run of u, the last fact of u is accounted for.
LEMMA OwnLast ==
  ASSUME TypeOK, Calm, UNCHANGED coreTopics, NEW w \in Workers, IdealWorkerStep(w), Observe(w),
         ~Begin(w), ~Settle(w), NEW u \in Users \ disturbed', u = User(w), PlanInv(w)
  PROVE  LastInv(u)'
<1>1. /\ Running(w) /\ SameJob(w) /\ wk[w].job \in Jobs /\ User(w)' = u
      /\ wk'[w].pc \in {"ack", "term"} => Insert(w) \/ wk'[w].pc = "term"
      /\ wk[w].pc = "insert" <=> Insert(w)
      /\ Mid(w) => Mid(w)' \/ Insert(w)
      /\ wk'[w].pc = "embed" => WriteCore(w)
  BY InnerView
<1>2. CalmUser(u) /\ lastDone \in [Users -> Jobs \union {NoJob}]
  BY DisturbedGrows DEF Calm
<1>3. ~Swallows(w) /\ ~GivesUpRerun(w)
  <2>1. UserOf[wk'[w].job] = u
    BY <1>1 DEF SameJob, User
  <2> QED
    BY <2>1, NotDisturbed
<1>4. CASE Insert(w)
  <2>1. lastDone'[u] = wk[w].job
    BY <1>1, <1>2, <1>4 DEF Observe
  <2>2. PICK t \in Texts : t = Fact(w)
    BY <1>1, FactType
  <2>3. Known(u, t)'
    BY <1>2, <1>3, <1>4, <2>2, Inserted DEF CalmUser
  <2> QED
    BY <2>1, <2>2, <2>3 DEF LastInv, Fact
<1>5. CASE WriteCore(w)
  BY <1>1, <1>5, WriteCoreView DEF LastInv, Mid
<1>6. CASE ~Insert(w) /\ Mid(w)
  BY <1>1, <1>6 DEF LastInv
<1>7. CASE ~Insert(w) /\ ~WriteCore(w) /\ ~Mid(w)
  <2>1. UNCHANGED <<core, qdrant>>
    BY <1>2, <1>3, <1>7, OwnPoints, DeleteView DEF CalmUser, Mid
  <2>2. lastDone'[u] = lastDone[u]
    BY <1>1, <1>7 DEF Observe
  <2>3. ASSUME NEW x \in Workers, Mid(x), User(x) = u PROVE Mid(x)' /\ User(x)' = u
    <3>1. x # w
      BY <1>7, <2>3
    <3>2. SameView(x)
      BY <3>1, OthersView
    <3> QED
      BY <2>3, <3>2, SameRun
  <2>4. ASSUME NEW j \in Jobs, CutShort(j) PROVE CutShort(j)'
    <3>1. ASSUME wk[w].job = j, wk'[w].pc \in {"ack", "term"} PROVE FALSE
      <4>1. wk'[w].pc = "term"
        BY <1>1, <1>7, <3>1
      <4>2. wk[w].n \in Nat /\ wk[w].n >= 2 /\ wk[w].pc \notin {"ack", "term"}
        BY <2>4, <3>1 DEF CutShort, TypeOK, Run
      <4> QED
        BY <1>3, <4>1, <4>2 DEF GivesUpRerun
    <3> QED
      BY <2>4, <3>1, CutShortStays
  <2>5. QdrantStep(u) /\ core'[u] = core[u]
    BY <2>1 DEF QdrantStep
  <2> QED
    BY <1>2, <2>2, <2>3, <2>4, <2>5, LastStays DEF CalmUser
<1> QED
  BY <1>4, <1>5, <1>6, <1>7

\* The run of an undisturbed user still knows what the stores hold.
LEMMA OwnPlan ==
  ASSUME TypeOK, UNCHANGED coreTopics, NEW w \in Workers, IdealWorkerStep(w),
         ~Begin(w), ~Settle(w), ~Swallows(w), ~ReadsBehind(w), PlanInv(w), PointsInv(User(w)),
         Running(w)'
  PROVE  PlanInv(w)'
<1>1. ~Insert(w)
  BY InsertView DEF Running
<1> QED
  BY <1>1, OwnReads, CoreWritten, Embedded, Checked, Deleted DEF IdealWorkerStep

LEMMA OwnCalm ==
  ASSUME TypeOK, Calm, UNCHANGED coreTopics, NEW w \in Workers, IdealWorkerStep(w), Observe(w),
         ~Begin(w), ~Settle(w), NEW u \in Users \ disturbed', u = User(w)
  PROVE  CalmUser(u)'
<1>1. Running(w) /\ SameJob(w) /\ User(w)' = u
  BY InnerView
<1>2. u \in Users \ disturbed /\ CalmUser(u)
  BY DisturbedGrows DEF Calm
<1>3. PlanInv(w) /\ PointsInv(User(w))
  BY <1>1, <1>2 DEF CalmUser
<1>4. ~Swallows(w) /\ ~ReadsBehind(w)
  <2>1. UserOf[wk'[w].job] = u
    BY <1>1 DEF SameJob, User
  <2> QED
    BY <2>1, NotDisturbed
<1>5. \A x \in Workers \ {w} : SameView(x) /\ (Running(x)' <=> Running(x)) /\ User(x)' = User(x)
  BY OthersView, SameRun
<1>6. ASSUME NEW x \in Workers, Running(x)', User(x)' = u PROVE x = w
  BY <1>1, <1>2, <1>5, <1>6 DEF CalmUser, OneRun
<1>7. OneRun(u)'
  BY <1>6 DEF OneRun
<1>8. PointsInv(u)'
  BY <1>2, <1>3, <1>4, OwnPoints DEF CalmUser
<1>9. LastInv(u)'
  BY <1>3, OwnLast
<1>10. ASSUME NEW x \in Workers, Running(x)', User(x)' = u PROVE PlanInv(x)'
  BY <1>3, <1>4, <1>6, <1>10, OwnPlan
<1> QED
  BY <1>7, <1>8, <1>9, <1>10 DEF CalmUser

LEMMA WorkerCalm ==
  ASSUME TypeOK, UserIsolation, Calm, UNCHANGED coreTopics,
         NEW w \in Workers, IdealWorkerStep(w), Observe(w)
  PROVE  Calm'
<1>1. RunCounted'
  BY CountedNext DEF Calm
<1>2. lastDone' \in [Users -> Jobs \union {NoJob}]
  <2>1. wk[w].pc = "insert" => wk[w].job \in Jobs
    BY BusyHasJob
  <2> QED
    BY <2>1 DEF Observe, Calm
<1>3. ASSUME NEW u \in Users \ disturbed' PROVE CalmUser(u)'
  BY OtherCalm, OwnCalm
<1> QED
  BY <1>1, <1>2, <1>3 DEF Calm

LEMMA CalmNext == TypeOK /\ UserIsolation /\ Calm /\ [IdealNext]_idealVars => Calm'
<1> SUFFICES ASSUME TypeOK, UserIsolation, Calm, [IdealNext]_idealVars PROVE Calm'
  OBVIOUS
<1>1. CASE UNCHANGED idealVars
  BY <1>1, StillCalm DEF idealVars
<1>2. CASE IdealNext
  BY <1>2, StillCalm, CrashCalm, WorkerCalm DEF IdealNext
<1> QED
  BY <1>1, <1>2

LEMMA CalmInit == IdealInit => Calm
<1> SUFFICES ASSUME IdealInit PROVE Calm
  OBVIOUS
<1>1. /\ \A w \in Workers : wk[w].pc = "idle" /\ wk[w].job = NoJob
      /\ points = {} /\ DOMAIN backlog = {} /\ lastDone = [u \in Users |-> NoJob]
  BY DEF IdealInit, Init, IdleRun, FreshRun
<1>2. RunCounted
  BY <1>1, AgentAssumption DEF RunCounted
<1>3. ASSUME NEW u \in Users PROVE CalmUser(u)
  BY <1>1 DEF CalmUser, OneRun, Running, PointsInv, PointsOf, Consistent, LastInv
<1> QED
  BY <1>1, <1>2, <1>3 DEF Calm

LEMMA IdealCalm == IdealSpec => []Calm
BY CalmInit, CalmNext, IdealTypes, PTL DEF IdealSpec

\* The general memories of a user whom no hazard has hit never contradict each
\* other, not even between two calls of a run or while writes are on their way.
THEOREM UndisturbedStayConsistent == IdealSpec => []UndisturbedConsistent
<1>1. Calm => UndisturbedConsistent
  BY DEF Calm, CalmUser, PointsInv, Consistent, UndisturbedConsistent
<1> QED
  BY <1>1, IdealCalm, PTL

\* Once the jobs of an undisturbed user are settled and applied, the fact of the
\* last one is remembered, through crashes in the middle of runs and second runs.
THEOREM LastFactStays == IdealSpec => []LastFactRemembered
<1>1. TypeOK /\ Calm => LastFactRemembered
  <2> SUFFICES ASSUME TypeOK, Calm, NEW u \in Users \ disturbed, AtRest(u), lastDone[u] # NoJob
               PROVE  \E m \in core[u] \union PointsOf(u) : m.text = Says[lastDone[u]]
    BY DEF LastFactRemembered
  <2>1. ~\E w \in Workers : Mid(w) /\ User(w) = u
    BY DEF Mid, AtRest, TypeOK
  <2>2. ~\E j \in Jobs : UserOf[j] = u /\ CutShort(j)
    BY DEF CutShort, AtRest
  <2>3. Known(u, Says[lastDone[u]])
    BY <2>1, <2>2 DEF Calm, CalmUser, LastInv
  <2>4. DOMAIN backlog = {}
    BY DEF AtRest
  <2> DEFINE p == [user |-> u, text |-> Says[lastDone[u]]]
  <2>5. WillShow(p) => p \in PointsOf(u) /\ p.text = Says[lastDone[u]]
    BY <2>4 DEF WillShow, PointsOf
  <2> QED
    BY <2>3, <2>5 DEF Known
<1> QED
  BY <1>1, IdealTypes, IdealCalm, PTL
=============================================================================
