----------------------------- MODULE StoreProofs -----------------------------
(***************************************************************************)
(* What the runs of MemoryAgent do to the two stores: why a core memory    *)
(* can disappear, and that users never mix.                                *)
(***************************************************************************)
EXTENDS MemoryAgentProofs

-----------------------------------------------------------------------------
(* Snapshots of the core list.                                             *)

\* The inductive strengthening behind CoreLossExplained: a run about to write,
\* whose read succeeded and behind whose back no other run has written, still
\* holds what the store holds.
SnapshotIsCurrent ==
  \A w \in Workers :
    wk[w].pc \in {"generate", "writeCore"} /\ ~wk[w].readFailed /\ ~wk[w].stale
      => wk[w].snap = core[User(w)]

\* Between its read and its write a run's view of the core list is only
\* touched by the flag that says another run has written.
LEMMA WriteCoreEffects ==
  ASSUME TypeOK, NEW w \in Workers, WriteCore(w)
  PROVE  LET u == User(w)
             new == NewCore(wk[w].snap, wk[w].answer, wk[w].job, wk[w].n)
         IN
         /\ wk'[w].pc = "embed" /\ wk'[w].job = wk[w].job /\ wk[w].pc = "writeCore"
         /\ wk'[w].shown = wk[w].shown /\ wk'[w].answer = wk[w].answer /\ wk'[w].snap = {}
         /\ \A x \in Workers \ {w} :
              /\ wk'[x].pc = wk[x].pc /\ wk'[x].job = wk[x].job
              /\ wk'[x].snap = wk[x].snap /\ wk'[x].shown = wk[x].shown
              /\ wk'[x].answer = wk[x].answer /\ wk'[x].readFailed = wk[x].readFailed
              /\ wk[x].stale => wk'[x].stale
         /\ UNCHANGED qdrant
         /\ \/ UNCHANGED core
            \/ /\ core' = [core EXCEPT ![u] = new]
               /\ \A x \in Workers \ {w} :
                    HoldsSnapshot(x, u) /\ new # core[u] => wk'[x].stale
<1> DEFINE u == User(w)
           new == NewCore(wk[w].snap, wk[w].answer, wk[w].job, wk[w].n)
<1>1. wk \in [Workers -> Run] /\ wk[w] \in Run
  BY DEF TypeOK
<1>2. CASE Goto(w, [wk[w] EXCEPT !.snap = {}], "embed") /\ UNCHANGED core
  BY <1>1, <1>2 DEF WriteCore, At, Goto, Run
<1>3. CASE /\ core' = [core EXCEPT ![u] = new]
           /\ wk' = [x \in Workers |->
                       IF x = w THEN [wk[w] EXCEPT !.pc = "embed", !.snap = {}, !.wrote = TRUE]
                       ELSE IF HoldsSnapshot(x, u) /\ new # core[u]
                            THEN [wk[x] EXCEPT !.stale = TRUE] ELSE wk[x]]
  <2> HIDE DEF u, new
  <2>1. /\ wk'[w].pc = "embed" /\ wk'[w].job = wk[w].job /\ wk'[w].snap = {}
        /\ wk'[w].shown = wk[w].shown /\ wk'[w].answer = wk[w].answer
    BY <1>1, <1>3 DEF Run
  <2>2. ASSUME NEW x \in Workers \ {w}
        PROVE  /\ wk'[x].pc = wk[x].pc /\ wk'[x].job = wk[x].job
               /\ wk'[x].snap = wk[x].snap /\ wk'[x].shown = wk[x].shown
               /\ wk'[x].answer = wk[x].answer /\ wk'[x].readFailed = wk[x].readFailed
               /\ wk[x].stale => wk'[x].stale
               /\ HoldsSnapshot(x, u) /\ new # core[u] => wk'[x].stale
    <3>1. wk[x] \in Run
      BY <1>1
    <3>2. wk'[x] = IF HoldsSnapshot(x, u) /\ new # core[u]
                   THEN [wk[x] EXCEPT !.stale = TRUE] ELSE wk[x]
      BY <1>3, <2>2
    <3> QED
      BY <3>1, <3>2 DEF Run
  <2>3. wk[w].pc = "writeCore" /\ UNCHANGED qdrant
    BY DEF WriteCore, At
  <2> QED
    BY <1>3, <2>1, <2>2, <2>3 DEF u, new
<1> QED
  BY <1>2, <1>3 DEF WriteCore

\* The other steps of a run, on the variables this module is about.
LEMMA OtherEffects ==
  ASSUME TypeOK, NEW w \in Workers, WorkerStepAny(w), ~WriteCore(w)
  PROVE  /\ UNCHANGED core
         /\ \A x \in Workers \ {w} : wk'[x] = wk[x]
BY DEF WorkerStepAny, Begin, Settle, Expand, ExpandSkips, ExpandContinues, Search, SearchFinds,
       SearchFails, ReadCore, GenerateAny, GenerateReturns, GenerateFails, Embed, CheckDelete,
       Delete, Insert, Goto, Finish, stores, TypeOK

LEMMA SnapshotNext == TypeOK /\ SnapshotIsCurrent /\ [NextAny]_vars => SnapshotIsCurrent'
<1> SUFFICES ASSUME TypeOK, SnapshotIsCurrent, [NextAny]_vars PROVE SnapshotIsCurrent'
  OBVIOUS
<1> DEFINE Fresh(x) == wk[x].pc \in {"generate", "writeCore"} /\ ~wk[x].readFailed /\ ~wk[x].stale
                         => wk[x].snap = core[User(x)]
<1>1. wk \in [Workers -> Run]
  BY DEF TypeOK
<1>2. CASE QueueStep \/ ApplyWrite \/ UNCHANGED vars
  BY <1>2 DEF QueueStep, ApplyWrite, vars, agentVars, SnapshotIsCurrent, User
<1>3. CASE Crash
  BY <1>3 DEF Crash, IdleRun, FreshRun, SnapshotIsCurrent
<1>4. ASSUME NEW w \in Workers, DeadlineExpires(w) PROVE SnapshotIsCurrent'
  <2>1. \A x \in Workers : /\ wk'[x].pc = wk[x].pc /\ wk'[x].job = wk[x].job
                           /\ wk'[x].snap = wk[x].snap /\ wk'[x].stale = wk[x].stale
                           /\ wk'[x].readFailed = wk[x].readFailed
    BY <1>1, <1>4 DEF DeadlineExpires, Run
  <2> QED
    BY <1>4, <2>1 DEF DeadlineExpires, stores, SnapshotIsCurrent, User
<1>5. ASSUME NEW w \in Workers, WriteCore(w) PROVE SnapshotIsCurrent'
  <2> DEFINE u == User(w)
             new == NewCore(wk[w].snap, wk[w].answer, wk[w].job, wk[w].n)
  <2>1. CASE UNCHANGED core
    BY <1>5, <2>1, WriteCoreEffects DEF SnapshotIsCurrent, User
  <2>2. CASE /\ core' = [core EXCEPT ![u] = new]
             /\ \A x \in Workers \ {w} : HoldsSnapshot(x, u) /\ new # core[u] => wk'[x].stale
    <3>0. u \in Users /\ core \in [Users -> SUBSET CoreMem]
      BY <1>5, BusyHasJob DEF WriteCore, At, TypeOK
    <3> HIDE DEF u, new
    <3>1. ASSUME NEW x \in Workers \ {w} PROVE Fresh(x)'
      <4>1. CASE User(x) # u \/ new = core[u]
        <5>1. wk[x].pc # "idle" => User(x) \in Users
          BY BusyHasJob
        <5>2. wk[x].pc # "idle" => core'[User(x)] = core[User(x)]
          BY <2>2, <3>0, <4>1, <5>1
        <5> QED
          BY <1>5, <5>2, WriteCoreEffects DEF SnapshotIsCurrent, User
      <4>2. CASE User(x) = u /\ new # core[u]
        BY <1>5, <2>2, <4>2, WriteCoreEffects DEF HoldsSnapshot
      <4> QED
        BY <4>1, <4>2
    <3>2. Fresh(w)'
      BY <1>5, WriteCoreEffects
    <3> QED
      BY <3>1, <3>2 DEF SnapshotIsCurrent
  <2> QED
    BY <1>5, <2>1, <2>2, WriteCoreEffects
<1>6. ASSUME NEW w \in Workers, WorkerStepAny(w), ~WriteCore(w) PROVE SnapshotIsCurrent'
  <2>1. UNCHANGED core /\ \A x \in Workers \ {w} : wk'[x] = wk[x]
    BY <1>6, OtherEffects
  <2>2. CASE wk'[w].pc \notin {"generate", "writeCore"}
    BY <2>1, <2>2 DEF SnapshotIsCurrent, User
  <2>3. CASE ReadCore(w)
    <3>1. \/ wk'[w].readFailed
          \/ wk'[w].snap = core[User(w)] /\ wk'[w].job = wk[w].job
      BY <1>1, <2>3 DEF ReadCore, Goto, Run, RedisValue
    <3> QED
      BY <2>1, <3>1 DEF SnapshotIsCurrent, User
  <2>4. CASE GenerateAny(w)
    <3>1. CASE GenerateFails(w)
      BY <1>1, <2>2, <3>1, FinishRun DEF GenerateFails
    <3>2. ASSUME NEW a, GenerateReturns(w, a) PROVE SnapshotIsCurrent'
      <4>1. /\ wk'[w].snap = wk[w].snap /\ wk'[w].job = wk[w].job /\ wk'[w].stale = wk[w].stale
            /\ wk'[w].readFailed = wk[w].readFailed /\ wk[w].pc = "generate"
        BY <1>1, <3>2 DEF GenerateReturns, Goto, Run, At
      <4> QED
        BY <2>1, <4>1 DEF SnapshotIsCurrent, User
    <3> QED
      BY <2>4, <3>1, <3>2 DEF GenerateAny
  <2>5. CASE Begin(w) \/ Settle(w)
    BY <1>1, <2>2, <2>5 DEF Begin, Settle, IdleRun, FreshRun
  <2> QED
    BY <1>6, <2>2, <2>3, <2>4, <2>5, RunEffects DEF WorkerStepAny
<1> QED
  BY <1>2, <1>3, <1>4, <1>5, <1>6 DEF NextAny

\* A run whose read succeeded and behind whose back nobody wrote is about to
\* write over exactly the list it has read.
THEOREM SnapshotsAreCurrent == Spec => []SnapshotIsCurrent
<1>1. Init => SnapshotIsCurrent
  BY DEF Init, SnapshotIsCurrent, IdleRun, FreshRun
<1> QED
  BY <1>1, TypeCorrect, SnapshotNext, NextIsAny, PTL DEF Spec

\* A core memory that a step removes is named by the plan of the run that writes,
\* or that run's snapshot was not what the store held.
LEMMA CoreLossStep ==
  ASSUME TypeOK, SnapshotIsCurrent, [NextAny]_vars,
         NEW u \in Users, NEW m \in core[u] \ core'[u]
  PROVE  \E w \in Workers :
           /\ At(w, "writeCore") /\ User(w) = u
           /\ m \in Targets(wk[w].answer.core) \/ wk[w].readFailed \/ wk[w].stale
<1>1. core' # core
  OBVIOUS
<1>2. PICK w \in Workers : WriteCore(w)
  BY <1>1, OtherEffects
     DEF NextAny, QueueStep, ApplyWrite, Crash, DeadlineExpires, vars, agentVars, stores
<1>3. At(w, "writeCore") /\ User(w) \in Users
  BY <1>2, BusyHasJob DEF WriteCore, At
<1> DEFINE new == NewCore(wk[w].snap, wk[w].answer, wk[w].job, wk[w].n)
<1>4. core' = [core EXCEPT ![User(w)] = new]
  BY <1>1, <1>2, WriteCoreEffects
<1>5. User(w) = u /\ m \notin new
  <2> HIDE DEF new
  <2> QED
    BY <1>3, <1>4 DEF TypeOK
<1>6. CASE wk[w].snap = core[u]
  BY <1>3, <1>5, <1>6 DEF NewCore
<1>7. CASE wk[w].readFailed \/ wk[w].stale
  BY <1>3, <1>5, <1>7
<1> QED
  BY <1>3, <1>5, <1>6, <1>7 DEF SnapshotIsCurrent, At

\* There is no way to lose a core memory but a plan that deletes it, a failed
\* read taken for an empty profile, and a write between a run's read and write.
THEOREM CoreLossHasCause == Spec => CoreLossExplained
<1>1. TypeOK /\ SnapshotIsCurrent /\ [Next]_vars
        => [\A u \in Users : \A m \in core[u] \ core'[u] :
              \E w \in Workers :
                /\ At(w, "writeCore") /\ User(w) = u
                /\ \/ m \in Targets(wk[w].answer.core)
                   \/ wk[w].readFailed \/ wk[w].stale]_vars
  BY CoreLossStep, NextIsAny
<1> QED
  BY <1>1, TypeCorrect, SnapshotsAreCurrent, PTL DEF Spec, CoreLossExplained
-----------------------------------------------------------------------------
(* Users never mix.                                                        *)

\* What a run holds belongs to its user.
OwnsRun(w) ==
  wk[w].job # NoJob =>
    /\ \A m \in wk[w].snap : UserOf[m.job] = User(w)
    /\ \A p \in wk[w].shown : p.user = User(w)
    /\ \A p \in Targets(wk[w].answer.general) \intersect Point : p.user = User(w)

\* A core memory is not a general memory, whatever the constants are.
LEMMA TiersDisjoint == CoreMem \intersect Point = {}
<1> SUFFICES ASSUME NEW m \in CoreMem, m \in Point PROVE FALSE
  OBVIOUS
<1>1. DOMAIN m = {"job", "n", "text"} /\ DOMAIN m = {"user", "text"}
  BY DEF CoreMem, Point
<1> QED
  BY <1>1

\* The list a run writes back holds its snapshot's memories and its own job's.
LEMMA NewCoreOwner ==
  ASSUME NEW old, NEW a, NEW j, NEW n, NEW m \in NewCore(old, a, j, n)
  PROVE  m \in old \/ m.job = j
BY DEF NewCore

\* A plan's general targets are memories the run was shown.
LEMMA AnswerTargets ==
  ASSUME TypeOK, NEW w \in Workers, NEW a \in AnswersAny(w),
         NEW p \in Targets(a.general) \intersect Point
  PROVE  p \in wk[w].shown
<1>1. a.general \subseteq Inserts \union Deletes(wk[w].snap \union wk[w].shown)
  BY DEF AnswersAny
<1>2. p \in (wk[w].snap \union wk[w].shown) \union {NoUuid, Null}
  BY <1>1 DEF Targets, Inserts, Deletes
<1>3. wk[w].snap \subseteq CoreMem
  BY DEF TypeOK, Run
<1> QED
  BY <1>2, <1>3, TiersDisjoint, UuidAssumption

LEMMA IsolationNextAny == TypeOK /\ UserIsolation /\ [NextAny]_vars => UserIsolation'
<1> SUFFICES ASSUME TypeOK, UserIsolation, [NextAny]_vars PROVE UserIsolation'
  OBVIOUS
<1> DEFINE Pure(u) == \A m \in core[u] : UserOf[m.job] = u
<1>0. /\ wk \in [Workers -> Run]
      /\ \A u \in Users : Pure(u)
      /\ \A w \in Workers : OwnsRun(w)
  BY DEF TypeOK, UserIsolation, OwnsRun
<1>1. SUFFICES (\A u \in Users : Pure(u)') /\ \A w \in Workers : OwnsRun(w)'
  BY DEF UserIsolation, OwnsRun
<1>2. CASE QueueStep \/ ApplyWrite \/ UNCHANGED vars
  BY <1>0, <1>2 DEF QueueStep, ApplyWrite, vars, agentVars, OwnsRun, User
<1>3. CASE Crash
  BY <1>0, <1>3 DEF Crash, stores, IdleRun, FreshRun, OwnsRun
<1>4. ASSUME NEW w \in Workers, DeadlineExpires(w)
      PROVE  (\A u \in Users : Pure(u)') /\ \A x \in Workers : OwnsRun(x)'
  <2>1. \A x \in Workers : /\ wk'[x].job = wk[x].job /\ wk'[x].snap = wk[x].snap
                           /\ wk'[x].shown = wk[x].shown /\ wk'[x].answer = wk[x].answer
    BY <1>0, <1>4 DEF DeadlineExpires, Run
  <2> QED
    BY <1>0, <1>4, <2>1 DEF DeadlineExpires, stores, OwnsRun, User
<1>5. ASSUME NEW w \in Workers, WriteCore(w)
      PROVE  (\A u \in Users : Pure(u)') /\ \A x \in Workers : OwnsRun(x)'
  <2> DEFINE new == NewCore(wk[w].snap, wk[w].answer, wk[w].job, wk[w].n)
  <2>1. \A x \in Workers : OwnsRun(x)'
    BY <1>0, <1>5, WriteCoreEffects DEF OwnsRun, User
  <2>2. wk[w].job \in Jobs /\ wk[w].job # NoJob /\ User(w) \in Users
    BY <1>5, BusyHasJob, AgentAssumption DEF WriteCore, At
  <2>3. \A m \in new : UserOf[m.job] = User(w)
    BY <1>0, <2>2, NewCoreOwner DEF OwnsRun, User
  <2>4. UNCHANGED core \/ core' = [core EXCEPT ![User(w)] = new]
    BY <1>5, WriteCoreEffects
  <2> HIDE DEF new
  <2> QED
    BY <1>0, <2>1, <2>2, <2>3, <2>4 DEF TypeOK
<1>6. ASSUME NEW w \in Workers, WorkerStepAny(w), ~WriteCore(w)
      PROVE  (\A u \in Users : Pure(u)') /\ \A x \in Workers : OwnsRun(x)'
  <2>1. UNCHANGED core /\ \A x \in Workers \ {w} : wk'[x] = wk[x]
    BY <1>6, OtherEffects
  <2>2. SUFFICES OwnsRun(w)'
    BY <1>0, <2>1 DEF OwnsRun, User
  <2>3. ASSUME /\ wk'[w].job = wk[w].job
               /\ wk'[w].snap \subseteq wk[w].snap /\ wk'[w].shown \subseteq wk[w].shown
               /\ wk'[w].answer \in {wk[w].answer, NoAnswer}
        PROVE  OwnsRun(w)'
    BY <1>0, <2>3 DEF OwnsRun, User, NoAnswer, Targets
  <2>4. CASE Begin(w) \/ Settle(w)
    BY <1>0, <2>4 DEF Begin, Settle, IdleRun, FreshRun, OwnsRun, NoAnswer, Targets
  <2>5. CASE Expand(w)
    <3>1. Goto(w, wk[w], "search") \/ \E v \in {"ack", "term"} : Finish(w, wk[w], v)
      BY <2>5 DEF Expand, ExpandSkips, ExpandContinues
    <3> QED
      BY <1>0, <2>3, <3>1, GotoRun, FinishRun
  <2>6. CASE Search(w)
    <3>1. PICK S \in SUBSET {p \in points : p.user = User(w)} :
            Goto(w, [wk[w] EXCEPT !.shown = S], "readCore")
      BY <2>6 DEF Search, SearchFinds, SearchFails
    <3>2. /\ wk'[w].job = wk[w].job /\ wk'[w].shown = S
          /\ wk'[w].snap = wk[w].snap /\ wk'[w].answer = wk[w].answer
      BY <1>0, <3>1 DEF Goto, Run
    <3> QED
      BY <1>0, <3>2 DEF OwnsRun, User
  <2>7. CASE ReadCore(w)
    <3>1. /\ wk'[w].job = wk[w].job /\ wk'[w].shown = wk[w].shown
          /\ wk'[w].answer = wk[w].answer
          /\ wk'[w].snap = {} \/ wk'[w].snap = core[User(w)]
      <4>1. CASE Goto(w, [wk[w] EXCEPT !.snap = core[User(w)]], "generate")
        BY <1>0, <4>1 DEF Goto, Run
      <4>2. CASE Goto(w, [wk[w] EXCEPT !.snap = {}, !.readFailed = TRUE], "generate")
        BY <1>0, <4>2 DEF Goto, Run
      <4> QED
        BY <2>7, <4>1, <4>2 DEF ReadCore, RedisValue
    <3>2. User(w) \in Users
      BY <2>7, BusyHasJob DEF ReadCore, At
    <3> QED
      BY <1>0, <3>1, <3>2 DEF OwnsRun, User
  <2>8. CASE GenerateAny(w)
    <3>1. CASE GenerateFails(w)
      BY <1>0, <2>3, <3>1, FinishRun DEF GenerateFails
    <3>2. ASSUME NEW a \in AnswersAny(w), GenerateReturns(w, a) PROVE OwnsRun(w)'
      <4>1. /\ wk'[w].job = wk[w].job /\ wk'[w].snap = wk[w].snap
            /\ wk'[w].shown = {} /\ wk'[w].answer = a
        BY <1>0, <3>2 DEF GenerateReturns, Goto, Run
      <4> QED
        BY <1>0, <4>1, AnswerTargets DEF OwnsRun, User
    <3> QED
      BY <2>8, <3>1, <3>2 DEF GenerateAny
  <2>9. CASE Embed(w) \/ CheckDelete(w) \/ Delete(w)
    <3>1. PICK r \in {wk[w], [wk[w] EXCEPT !.embedded = TRUE], [wk[w] EXCEPT !.wrote = TRUE]} :
            \E pc \in PC : Goto(w, r, pc)
      BY <2>9 DEF Embed, CheckDelete, Delete, PC
    <3>2. /\ r \in Run /\ r.job = wk[w].job /\ r.snap = wk[w].snap
          /\ r.shown = wk[w].shown /\ r.answer = wk[w].answer
      <4>1. wk[w] \in Run
        BY <1>0
      <4>2. CASE r = wk[w]
        BY <4>1, <4>2
      <4>3. CASE r = [wk[w] EXCEPT !.embedded = TRUE]
        BY <4>1, <4>3 DEF Run
      <4>4. CASE r = [wk[w] EXCEPT !.wrote = TRUE]
        BY <4>1, <4>4 DEF Run
      <4> QED
        BY <3>1, <4>2, <4>3, <4>4
    <3> QED
      BY <1>0, <2>3, <3>1, <3>2, GotoRun
  <2>10. CASE Insert(w)
    <3>1. PICK b \in BOOLEAN : Finish(w, [wk[w] EXCEPT !.wrote = b], "ack") \/ Finish(w, wk[w], "ack")
      BY <2>10 DEF Insert
    <3>2. [wk[w] EXCEPT !.wrote = b] \in Run /\ [wk[w] EXCEPT !.wrote = b].job = wk[w].job
      BY <1>0 DEF Run
    <3> QED
      BY <1>0, <2>3, <3>1, <3>2, FinishRun
  <2> QED
    BY <1>6, <2>4, <2>5, <2>6, <2>7, <2>8, <2>9, <2>10 DEF WorkerStepAny
<1> QED
  BY <1>2, <1>3, <1>4, <1>5, <1>6 DEF NextAny

LEMMA IsolationNext == TypeOK /\ UserIsolation /\ [Next]_vars => UserIsolation'
BY IsolationNextAny, NextIsAny

\* A core profile only ever holds memories from its own user's conversations, and
\* a run only reads, deletes and writes back what belongs to its user.
THEOREM UsersNeverMix == Spec => []UserIsolation
<1>1. Init => UserIsolation
  BY DEF Init, UserIsolation, IdleRun, FreshRun
<1> QED
  BY <1>1, TypeCorrect, IsolationNext, PTL DEF Spec
=============================================================================
