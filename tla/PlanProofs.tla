----------------------------- MODULE PlanProofs -----------------------------
(***************************************************************************)
(* Theorems about PromptPlan, for any users, texts, UUIDs and lengths of   *)
(* the lists and replies, up to the refinement of SetPlan.                 *)
(***************************************************************************)
EXTENDS PromptPlan, SequenceTheorems, FiniteSetTheorems, TLAPS

-----------------------------------------------------------------------------
(* Numbers.                                                                *)

\* A number shown with a general memory translates to the id of that memory,
\* whatever the core list is (llm.go:106).
THEOREM GeneralNumberTranslates ==
  ASSUME NEW r, r.core \in Seq(CoreMemory), NEW k \in DOMAIN r.old,
         NEW S, r.old \in Seq(S)
  PROVE  IntToUuid(r, DisplacedId(r.core, k)) = r.old[k].id
<1> DEFINE same == {i \in DOMAIN r.old : DisplacedId(r.core, i) = DisplacedId(r.core, k)}
<1>1. Len(r.core) \in Nat /\ DOMAIN r.old \subseteq Nat
  OBVIOUS
<1>2. same = {k}
  BY <1>1, SMTT(30) DEF DisplacedId
<1>3. (CHOOSE i \in same : TRUE) = k
  BY <1>2
<1> QED
  BY <1>2, <1>3 DEF IntToUuid

\* One shown with a core memory translates to the id of that one: the numbers of
\* the two lists do not meet (llm.go:94).
THEOREM CoreNumberTranslates ==
  ASSUME NEW r, r.core \in Seq(CoreMemory), NEW k \in DOMAIN r.core,
         NEW S, r.old \in Seq(S)
  PROVE  IntToUuid(r, CoreNumber(k)) = r.core[k].id
<1> DEFINE inCore == {i \in DOMAIN r.core : CoreNumber(i) = CoreNumber(k)}
           inOld == {i \in DOMAIN r.old : DisplacedId(r.core, i) = CoreNumber(k)}
<1>1. /\ Len(r.core) \in Nat /\ DOMAIN r.core = 1..Len(r.core)
      /\ \A i \in DOMAIN r.old : i \in Nat /\ i >= 1
  OBVIOUS
<1>2. inOld = {}
  BY <1>1 DEF DisplacedId, CoreNumber
<1>3. inCore = {k}
  BY <1>1 DEF CoreNumber
<1>4. (CHOOSE i \in inCore : TRUE) = k
  BY <1>3
<1> QED
  BY <1>2, <1>3, <1>4 DEF IntToUuid

-----------------------------------------------------------------------------
(* Lists.                                                                  *)

Rank(I, i) == Cardinality({m \in I : m <= i})

\* Every number up to that of the positions is the rank of one of them.
LEMMA Ranks ==
  ASSUME NEW n \in Nat, NEW I \in SUBSET (1..n)
  PROVE  /\ Cardinality(I) \in Nat
         /\ \A i \in I : Rank(I, i) \in 1..Cardinality(I)
         /\ \A i, k \in I : i < k => Rank(I, i) < Rank(I, k)
         /\ \A k \in 1..Cardinality(I) : \E i \in I : Rank(I, i) = k
<1> DEFINE upTo(i) == {m \in I : m <= i}
           c == Cardinality(I)
           rank == [i \in I |-> Rank(I, i)]
<1>1. \A i \in I : i \in Int
  OBVIOUS
<1>2. IsFiniteSet(I) /\ c \in Nat
  <2>1. IsFiniteSet(1..n)
    BY FS_Interval
  <2> QED
    BY <2>1, FS_Subset, FS_CardinalityType
<1>3. ASSUME NEW i \in I
      PROVE  IsFiniteSet(upTo(i)) /\ Rank(I, i) \in 1..c
  <2>1. upTo(i) \in SUBSET I /\ i \in upTo(i)
    BY DEF upTo
  <2>2. IsFiniteSet(upTo(i)) /\ Cardinality(upTo(i)) <= c
    BY <1>2, <2>1, FS_Subset
  <2>3. Cardinality(upTo(i)) \in Nat /\ Cardinality(upTo(i)) # 0
    BY <2>1, <2>2, FS_CardinalityType, FS_EmptySet
  <2> QED
    BY <1>2, <2>2, <2>3 DEF Rank
<1>4. ASSUME NEW i \in I, NEW k \in I, i < k PROVE Rank(I, i) < Rank(I, k)
  <2>1. upTo(i) \in SUBSET upTo(k) /\ k \in upTo(k) /\ k \notin upTo(i)
    <3>1. i \in Int /\ k \in Int
      BY <1>1
    <3>2. \A m \in Int : m <= i => m <= k
      BY <1>4, <3>1
    <3>3. upTo(i) \in SUBSET upTo(k)
      BY <1>1, <3>2
    <3>4. k <= k /\ ~(k <= i)
      BY <1>4, <3>1
    <3> QED
      BY <3>3, <3>4
  <2>2. Cardinality(upTo(i)) <= Cardinality(upTo(k))
        /\ Cardinality(upTo(k)) # Cardinality(upTo(i))
    <3> HIDE DEF upTo
    <3> QED
      BY <1>3, <2>1, FS_Subset
  <2>3. Cardinality(upTo(i)) \in Nat /\ Cardinality(upTo(k)) \in Nat
    BY <1>3, FS_CardinalityType
  <2> QED
    BY <2>2, <2>3 DEF Rank
<1>5. rank \in Injection(I, 1..c)
  <2>1. rank \in [I -> 1..c]
    BY <1>3
  <2>2. ASSUME NEW i \in I, NEW k \in I, Rank(I, i) = Rank(I, k) PROVE i = k
    <3>1. i \in Int /\ k \in Int
      BY <1>1
    <3>2. Rank(I, i) \in 1..c
      BY <1>3
    <3>3. ~(Rank(I, i) < Rank(I, i))
      BY <1>2, <3>2
    <3>4. ~(i < k)
      BY <1>4, <2>2, <3>3
    <3>5. ~(k < i)
      BY <1>4, <2>2, <3>3
    <3> QED
      BY <3>1, <3>4, <3>5
  <2> QED
    BY <2>1, <2>2 DEF Injection, IsInjective
<1>6. IsFiniteSet(1..c) /\ Cardinality(1..c) = c
  BY <1>2, FS_Interval
<1>7. rank \in Surjection(I, 1..c)
  <2> HIDE DEF rank
  <2> QED
    BY <1>2, <1>5, <1>6, FS_Injection
<1>8. \A k \in 1..c : \E i \in I : Rank(I, i) = k
  BY <1>7 DEF Surjection
<1> QED
  BY <1>2, <1>3, <1>4, <1>8

\* The list t is the elements of s at the positions I, in their order: its k-th
\* element is the one at f[k].
PicksBy(f, t, s, I) ==
  /\ f \in [DOMAIN t -> I]
  /\ \A k \in DOMAIN t : t[k] = s[f[k]]
  /\ \A k, l \in DOMAIN t : k < l => f[k] < f[l]
  /\ \A i \in I : \E k \in DOMAIN t : f[k] = i

\* Picked lists the elements at the positions I, each of them once and in their
\* order.
LEMMA PickedList ==
  ASSUME NEW S, NEW s \in Seq(S), NEW I \in SUBSET DOMAIN s
  PROVE  /\ Picked(s, I) \in Seq(S)
         /\ \E f : PicksBy(f, Picked(s, I), s, I)
<1>1. Len(s) \in Nat /\ I \in SUBSET (1..Len(s)) /\ \A i \in I : s[i] \in S
  OBVIOUS
<1> DEFINE c == Cardinality(I)
           f == [k \in 1..c |-> CHOOSE i \in I : Rank(I, i) = k]
<1>2. /\ c \in Nat
      /\ \A i \in I : Rank(I, i) \in 1..c
      /\ \A i, k \in I : i < k => Rank(I, i) < Rank(I, k)
      /\ \A k \in 1..c : \E i \in I : Rank(I, i) = k
  BY <1>1, Ranks
<1>3. \A k \in 1..c : f[k] \in I /\ Rank(I, f[k]) = k
  BY <1>2
<1>4. Picked(s, I) = [k \in 1..c |-> s[f[k]]]
  BY DEF Picked, Rank
<1> HIDE DEF f
<1>5. Picked(s, I) \in Seq(S) /\ DOMAIN Picked(s, I) = 1..c
  BY <1>1, <1>2, <1>3, <1>4, SMTT(30)
<1>6. f \in [1..c -> I]
  BY <1>3 DEF f
<1>7. ASSUME NEW k \in 1..c, NEW l \in 1..c, k < l PROVE f[k] < f[l]
  <2>1. f[k] \in Nat /\ f[l] \in Nat /\ f[k] # f[l]
    BY <1>1, <1>3, <1>7
  <2>2. ~(f[l] < f[k])
    BY <1>2, <1>3, <1>7
  <2> QED
    BY <2>1, <2>2
<1>8. ASSUME NEW i \in I PROVE \E k \in 1..c : f[k] = i
  <2>1. PICK k \in 1..c : k = Rank(I, i)
    BY <1>2
  <2>2. ~(f[k] < i) /\ ~(i < f[k])
    BY <1>2, <1>3, <2>1
  <2> QED
    BY <1>1, <1>3, <2>2
<1>9. PicksBy(f, Picked(s, I), s, I)
  BY <1>4, <1>5, <1>6, <1>7, <1>8 DEF PicksBy
<1> QED
  BY <1>5, <1>9

-----------------------------------------------------------------------------
(* Points.                                                                 *)

\* Users' ids of one length make the hash of text and user an identity.
LEMMA PointIdInjective ==
  ASSUME NEW t \in Texts, NEW s \in Texts, NEW u \in Users, NEW v \in Users,
         PointId(t, u) = PointId(s, v)
  PROVE  t = s /\ u = v
<1>1. t \in Seq(STRING) /\ s \in Seq(STRING) /\ u \in Seq(STRING) /\ v \in Seq(STRING)
  BY IdAssumption
<1>2. Len(u) = Len(v)
  BY IdAssumption
<1>3. t \o u = s \o v
  BY DEF PointId
<1>4. Len(t) = Len(s)
  BY <1>1, <1>2, <1>3
<1>5. \A i \in 1..Len(t) : t[i] = s[i]
  <2> TAKE i \in 1..Len(t)
  <2>1. (t \o u)[i] = t[i] /\ (s \o v)[i] = s[i]
    BY <1>1, <1>4
  <2> QED
    BY <2>1, <1>3
<1>6. \A i \in 1..Len(u) : u[i] = v[i]
  <2> TAKE i \in 1..Len(u)
  <2>1. (t \o u)[Len(t) + i] = u[i] /\ (s \o v)[Len(s) + i] = v[i]
    BY <1>1, <1>2
  <2> QED
    BY <2>1, <1>3, <1>4
<1> QED
  BY <1>1, <1>2, <1>4, <1>5, <1>6, SeqEqual

\* The invariant: a point holds the fact that its id is the hash of.
PointsKeyed ==
  \A id \in DOMAIN points :
    /\ points[id] \in Payload
    /\ id = PointId(points[id].text, points[id].user)

\* A reply is one to a user, and what it wants learnt are texts.
ReplyOK ==
  /\ run.stage \in {"asking", "core", "delete", "insert"} => run.user \in Users
  /\ run.stage \in {"core", "delete", "insert"} => InsertedTexts(run.acts) \subseteq Texts

PointInv == PointsKeyed /\ ReplyOK

LEMMA PointInvInit == PromptInit => PointInv
BY DEF PromptInit, PointInv, PointsKeyed, ReplyOK, Idle

LEMMA AskInv == ASSUME PointInv, NEW u \in Users, Ask(u) PROVE PointInv'
<1>1. run'.stage = "asking" /\ run'.user = u
  BY DEF Ask
<1> QED
  BY <1>1 DEF Ask, PointInv, PointsKeyed, ReplyOK

LEMMA AnswerInv == ASSUME PointInv, Answer PROVE PointInv'
<1>1. PICK n \in 0..MaxActions : \E i \in 0..n :
        \E coreActs \in [1..i -> MemoryAction(run) \union {VoidAction}],
           acts \in [1..(n - i) -> MemoryAction(run)] :
          run' = [stage |-> "core", user |-> run.user, core |-> run.core,
                  old |-> run.old, coreActs |-> coreActs, acts |-> acts]
  BY Zenon DEF Answer
<1>2. PICK i \in 0..n :
        \E coreActs \in [1..i -> MemoryAction(run) \union {VoidAction}],
           acts \in [1..(n - i) -> MemoryAction(run)] :
          run' = [stage |-> "core", user |-> run.user, core |-> run.core,
                  old |-> run.old, coreActs |-> coreActs, acts |-> acts]
  BY <1>1
<1>3. PICK coreActs \in [1..i -> MemoryAction(run) \union {VoidAction}],
           acts \in [1..(n - i) -> MemoryAction(run)] :
        run' = [stage |-> "core", user |-> run.user, core |-> run.core,
                old |-> run.old, coreActs |-> coreActs, acts |-> acts]
  BY <1>2
<1>4. InsertedTexts(acts) \subseteq Texts
  <2> SUFFICES ASSUME NEW k \in DOMAIN acts, acts[k].type = "INSERT"
               PROVE  acts[k].text \in Texts
    BY DEF InsertedTexts, Range
  <2>1. acts[k] \in MemoryAction(run)
    BY <1>3
  <2>2. \A a \in [type : {"DELETE"}, number : 0..(Len(run.core) + Len(run.old))] :
          a.type = "DELETE"
    OBVIOUS
  <2>3. acts[k] \in [type : {"INSERT"}, text : Texts]
    BY <2>1, <2>2 DEF MemoryAction
  <2> QED
    BY <2>3
<1>5. run'.acts = acts /\ run'.stage = "core" /\ run'.user = run.user
  BY <1>3
<1>6. run.user \in Users
  BY DEF Answer, PointInv, ReplyOK
<1> QED
  BY <1>4, <1>5, <1>6 DEF Answer, PointInv, PointsKeyed, ReplyOK

LEMMA WriteCoreInv == ASSUME PointInv, WriteCore PROVE PointInv'
<1>1. run'.stage = "delete" /\ run'.user = run.user /\ run'.acts = run.acts
  BY DEF WriteCore, Proceed
<1> QED
  BY <1>1 DEF WriteCore, PointInv, PointsKeyed, ReplyOK

LEMMA DeletePointsInv == ASSUME PointInv, DeletePoints PROVE PointInv'
<1>1. run'.stage = "insert" /\ run'.user = run.user /\ run'.acts = run.acts
  BY DEF DeletePoints, Proceed
<1>2. DOMAIN points' \subseteq DOMAIN points /\ \A id \in DOMAIN points' : points'[id] = points[id]
  BY DEF DeletePoints, Restrict
<1> QED
  BY <1>1, <1>2 DEF DeletePoints, PointInv, PointsKeyed, ReplyOK

LEMMA InsertPointsInv == ASSUME PointInv, InsertPoints PROVE PointInv'
<1> DEFINE memories == InsertedTexts(run.acts)
           ids == {PointId(t, run.user) : t \in memories}
           text(id) == CHOOSE t \in memories : PointId(t, run.user) = id
<1>1. run' = Idle /\ run'.stage = "idle"
  BY DEF InsertPoints, Idle
<1>2. run.user \in Users /\ memories \subseteq Texts
  BY DEF InsertPoints, PointInv, ReplyOK
<1>3. points' = [id \in DOMAIN points \union ids |->
                   IF id \in ids THEN [user |-> run.user, text |-> text(id)] ELSE points[id]]
  BY DEF InsertPoints
<1>4. ASSUME NEW id \in ids PROVE text(id) \in memories /\ PointId(text(id), run.user) = id
  OBVIOUS
<1> HIDE DEF memories, text
<1>5. ASSUME NEW id \in DOMAIN points'
      PROVE  points'[id] \in Payload /\ id = PointId(points'[id].text, points'[id].user)
  <2>1. CASE id \in ids
    <3>1. points'[id] = [user |-> run.user, text |-> text(id)]
      BY <1>3, <2>1
    <3> QED
      BY <3>1, <1>2, <1>4, <2>1 DEF Payload
  <2>2. CASE id \notin ids
    BY <1>3, <2>2 DEF PointInv, PointsKeyed
  <2> QED
    BY <2>1, <2>2
<1> QED
  BY <1>1, <1>5 DEF PointInv, PointsKeyed, ReplyOK

LEMMA PointInvNext == PointInv /\ [PromptNext]_promptVars => PointInv'
<1> SUFFICES ASSUME PointInv, [PromptNext]_promptVars PROVE PointInv'
  OBVIOUS
<1>1. CASE UNCHANGED promptVars
  BY <1>1 DEF promptVars, PointInv, PointsKeyed, ReplyOK
<1>2. CASE PromptNext
  BY <1>2, AskInv, AnswerInv, WriteCoreInv, DeletePointsInv, InsertPointsInv DEF PromptNext
<1> QED
  BY <1>1, <1>2

\* A fact that any number of replies learn is one point (vectordb.go:134): the id
\* of a point is a function of its payload.
THEOREM FactsAreDistinct == PromptSpec => []FactsDistinct
<1>1. PointInv => FactsDistinct
  BY DEF PointInv, PointsKeyed, FactsDistinct
<1> QED
  BY <1>1, PointInvInit, PointInvNext, PTL DEF PromptSpec

\* And two facts are two points: an upsert overwrites the fact it writes, never
\* one of another user (vectordb.go:134).
LearningKeeps ==
  \A id \in DOMAIN points :
    points[id].user # run.user => id \in DOMAIN points' /\ points'[id] = points[id]

\* Every upsert leaves the points of other users as they are.
THEOREM UpsertsKeepOthersFacts == PromptSpec => [][InsertPoints => LearningKeeps]_promptVars
<1>1. PointInv /\ InsertPoints => LearningKeeps
  <2> SUFFICES ASSUME PointInv, InsertPoints,
                      NEW id \in DOMAIN points, points[id].user # run.user
               PROVE  id \in DOMAIN points' /\ points'[id] = points[id]
    BY DEF LearningKeeps
  <2> DEFINE ids == {PointId(t, run.user) : t \in InsertedTexts(run.acts)}
  <2>1. run.user \in Users /\ InsertedTexts(run.acts) \subseteq Texts
    BY DEF InsertPoints, PointInv, ReplyOK
  <2>2. /\ points[id].user \in Users /\ points[id].text \in Texts
        /\ id = PointId(points[id].text, points[id].user)
    BY DEF PointInv, PointsKeyed, Payload
  <2>3. id \notin ids
    BY <2>1, <2>2, PointIdInjective
  <2> QED
    BY <2>3 DEF InsertPoints
<1> QED
  BY <1>1, PointInvInit, PointInvNext, PTL DEF PromptSpec
-----------------------------------------------------------------------------
(* Core memories.                                                          *)

IsList(s) == s \in Seq(Range(s))

\* A UUID is none of the ids of the points, and not empty.
LEMMA UuidsApart ==
  ASSUME NEW m \in CoreMemory
  PROVE  /\ m.id # NoUuid
         /\ \A t \in Texts, u \in Users : m.id # PointId(t, u)
<1>1. PICK i \in DOMAIN Uuids : m.id = Uuids[i]
  BY DEF CoreMemory, Range
<1> QED
  BY <1>1, IdAssumption

\* The texts of the actions that insert are the texts inserted.
LEMMA InsertsList ==
  ASSUME NEW acts, IsList(acts)
  PROVE  /\ Len(Inserts(acts)) \in Nat
         /\ DOMAIN Inserts(acts) = 1..Len(Inserts(acts))
         /\ {Inserts(acts)[k].text : k \in DOMAIN Inserts(acts)} = InsertedTexts(acts)
         /\ IsFiniteSet(InsertedTexts(acts))
<1> DEFINE I == {i \in DOMAIN acts : acts[i].type = "INSERT"}
           new == Picked(acts, I)
<1>1. new = Inserts(acts)
  BY DEF Inserts
<1>2. new \in Seq(Range(acts))
  BY PickedList DEF IsList
<1>3. PICK f : PicksBy(f, new, acts, I)
  BY PickedList DEF IsList
<1> HIDE DEF new
<1>4. InsertedTexts(acts) = {acts[i].text : i \in I}
  BY DEF InsertedTexts, Range
<1>5. {new[k].text : k \in DOMAIN new} = {acts[i].text : i \in I}
  BY <1>3 DEF PicksBy
<1>6. Len(new) \in Nat /\ DOMAIN new = 1..Len(new)
  BY <1>2
<1>7. IsFiniteSet({new[k].text : k \in DOMAIN new})
  <2> DEFINE texts == {new[k].text : k \in 1..Len(new)}
             text == [k \in 1..Len(new) |-> new[k].text]
  <2>1. IsFiniteSet(1..Len(new))
    BY <1>6, FS_Interval
  <2>2. text \in Surjection(1..Len(new), texts)
    BY DEF Surjection
  <2> HIDE DEF text, texts
  <2>3. IsFiniteSet(texts)
    BY <2>1, <2>2, FS_Surjection
  <2> QED
    BY <1>6, <2>3 DEF texts
<1> QED
  BY <1>1, <1>4, <1>5, <1>6, <1>7

\* The core lists, and the UUIDs that are used up.
CoreInv ==
  /\ cores \in [Users -> Seq(CoreMemory)]
  /\ made \in 0..Len(Uuids)
  /\ \A u \in Users : \A i \in DOMAIN cores[u] : \E n \in 1..made : cores[u][i].id = Uuids[n]
  /\ CoreIdsDistinct

\* What the run in progress shows and has been answered. Nobody else writes the
\* stores while it is going on.
RunInv ==
  \/ run = Idle
  \/ /\ run # Idle
     /\ run.stage \in {"asking", "core", "delete", "insert"}
     /\ run.user \in Users
     /\ run.core \in Seq(CoreMemory) /\ IsList(run.old)
     /\ run.stage \in {"asking", "core"} => run.core = cores[run.user]
     /\ run.stage \in {"asking", "core", "delete"} =>
          \A k \in DOMAIN run.old :
            /\ run.old[k].id \in DOMAIN points
            /\ points[run.old[k].id] = [user |-> run.user, text |-> run.old[k].text]
     /\ run.stage \in {"core", "delete", "insert"} =>
          /\ IsList(run.coreActs) /\ IsList(run.acts)
          /\ InsertedTexts(run.coreActs) \subseteq Texts
          /\ InsertedTexts(run.acts) \subseteq Texts
     /\ run.stage = "core" => made + Len(Inserts(run.coreActs)) <= Len(Uuids)

PlanInv == PointInv /\ IsFiniteSet(DOMAIN points) /\ CoreInv /\ RunInv

LEMMA AskPlanInv == ASSUME PlanInv, NEW u \in Users, Ask(u) PROVE PlanInv'
<1>1. PointInv' /\ IsFiniteSet(DOMAIN points)' /\ CoreInv'
  <2>1. PointInv'
    BY AskInv DEF PlanInv
  <2>2. cores' = cores /\ points' = points /\ made' = made
    BY DEF Ask
  <2> QED
    BY <2>1, <2>2 DEF PlanInv, CoreInv, CoreIdsDistinct
<1>2. PICK found \in SUBSET {id \in DOMAIN points : points[id].user = u} :
        \E order \in Bijection(1..Cardinality(found), found) :
          run' = [stage |-> "asking", user |-> u, core |-> cores[u],
                  old |-> [k \in DOMAIN order |->
                             [id |-> order[k], text |-> points[order[k]].text]]]
  BY Zenon DEF Ask
<1>3. PICK order \in Bijection(1..Cardinality(found), found) :
        run' = [stage |-> "asking", user |-> u, core |-> cores[u],
                old |-> [k \in DOMAIN order |->
                           [id |-> order[k], text |-> points[order[k]].text]]]
  BY <1>2
<1>4. order \in [1..Cardinality(found) -> found]
  BY DEF Bijection, Injection
<1> DEFINE old == [k \in DOMAIN order |-> [id |-> order[k], text |-> points[order[k]].text]]
<1>5. IsList(old)
  <2>1. Cardinality(found) \in Nat
    BY FS_Subset, FS_CardinalityType DEF PlanInv
  <2>2. DOMAIN old = 1..Cardinality(found)
    BY <1>4
  <2>3. \A k \in DOMAIN old : old[k] \in Range(old)
    BY DEF Range
  <2>4. old = [k \in 1..Cardinality(found) |-> old[k]]
    BY <2>2
  <2> HIDE DEF old
  <2> QED
    BY <2>1, <2>2, <2>3, <2>4 DEF IsList
<1>6. /\ run' # Idle /\ run'.stage = "asking" /\ run'.user = u
      /\ run'.core = cores[u] /\ run'.old = old
  BY <1>3 DEF Idle
<1>7. cores[u] \in Seq(CoreMemory)
  BY DEF PlanInv, CoreInv
<1>8. \A k \in DOMAIN old : /\ old[k].id \in DOMAIN points
                             /\ points[old[k].id] = [user |-> u, text |-> old[k].text]
  <2> SUFFICES ASSUME NEW k \in DOMAIN order
               PROVE  /\ order[k] \in DOMAIN points
                      /\ points[order[k]] = [user |-> u, text |-> points[order[k]].text]
    OBVIOUS
  <2>1. order[k] \in DOMAIN points /\ points[order[k]].user = u
    BY <1>4
  <2>2. points[order[k]] \in Payload
    BY <2>1 DEF PlanInv, PointInv, PointsKeyed
  <2> QED
    BY <2>1, <2>2 DEF Payload
<1>9. cores' = cores /\ points' = points /\ made' = made
  BY DEF Ask
<1> HIDE DEF old
<1>10. RunInv'
  BY <1>5, <1>6, <1>7, <1>8, <1>9 DEF RunInv, IsList
<1> QED
  BY <1>1, <1>10 DEF PlanInv

LEMMA AnswerPlanInv == ASSUME PlanInv, Answer PROVE PlanInv'
<1>1. PointInv' /\ IsFiniteSet(DOMAIN points)' /\ CoreInv'
  <2>1. PointInv'
    BY AnswerInv DEF PlanInv
  <2>2. cores' = cores /\ points' = points /\ made' = made
    BY DEF Answer
  <2> QED
    BY <2>1, <2>2 DEF PlanInv, CoreInv, CoreIdsDistinct
<1>2. PICK n \in 0..MaxActions : \E i \in 0..n :
        \E coreActs \in [1..i -> MemoryAction(run) \union {VoidAction}],
           acts \in [1..(n - i) -> MemoryAction(run)] :
          /\ made + Len(Inserts(coreActs)) <= Len(Uuids)
          /\ run' = [stage |-> "core", user |-> run.user, core |-> run.core,
                     old |-> run.old, coreActs |-> coreActs, acts |-> acts]
  BY Zenon DEF Answer
<1>3. PICK i \in 0..n :
        \E coreActs \in [1..i -> MemoryAction(run) \union {VoidAction}],
           acts \in [1..(n - i) -> MemoryAction(run)] :
          /\ made + Len(Inserts(coreActs)) <= Len(Uuids)
          /\ run' = [stage |-> "core", user |-> run.user, core |-> run.core,
                     old |-> run.old, coreActs |-> coreActs, acts |-> acts]
  BY <1>2
<1>4. PICK coreActs \in [1..i -> MemoryAction(run) \union {VoidAction}],
           acts \in [1..(n - i) -> MemoryAction(run)] :
        /\ made + Len(Inserts(coreActs)) <= Len(Uuids)
        /\ run' = [stage |-> "core", user |-> run.user, core |-> run.core,
                   old |-> run.old, coreActs |-> coreActs, acts |-> acts]
  BY <1>3
<1>5. IsList(coreActs) /\ IsList(acts)
  <2>1. n \in Nat /\ i \in Nat /\ n - i \in Nat
    BY IdAssumption
  <2> QED
    BY <2>1 DEF IsList, Range
<1>6. InsertedTexts(coreActs) \subseteq Texts
  <2> SUFFICES ASSUME NEW k \in DOMAIN coreActs, coreActs[k].type = "INSERT"
               PROVE  coreActs[k].text \in Texts
    BY DEF InsertedTexts, Range
  <2>1. coreActs[k] \in MemoryAction(run) \union {VoidAction}
    BY <1>4
  <2>2. \A a \in [type : {"DELETE"}, number : 0..(Len(run.core) + Len(run.old))] :
          a.type = "DELETE"
    OBVIOUS
  <2>3. coreActs[k] # VoidAction
    BY DEF VoidAction
  <2>4. coreActs[k] \in [type : {"INSERT"}, text : Texts]
    BY <2>1, <2>2, <2>3 DEF MemoryAction
  <2> QED
    BY <2>4
<1>7. /\ run' # Idle /\ run'.stage = "core" /\ run'.user = run.user
      /\ run'.core = run.core /\ run'.old = run.old
      /\ run'.coreActs = coreActs /\ run'.acts = acts
  BY <1>4 DEF Idle
<1>8. InsertedTexts(acts) \subseteq Texts
  BY <1>1, <1>7 DEF PointInv, ReplyOK
<1>9. /\ cores' = cores /\ points' = points /\ made' = made
      /\ run # Idle /\ run.stage = "asking"
  BY DEF Answer
<1>10. /\ run.user \in Users /\ run.core \in Seq(CoreMemory) /\ IsList(run.old)
      /\ run.core = cores[run.user]
      /\ \A k \in DOMAIN run.old :
           /\ run.old[k].id \in DOMAIN points
           /\ points[run.old[k].id] = [user |-> run.user, text |-> run.old[k].text]
  BY <1>9 DEF PlanInv, RunInv
<1>11. RunInv'
  BY <1>4, <1>5, <1>6, <1>7, <1>8, <1>9, <1>10 DEF RunInv, IsList
<1> QED
  BY <1>1, <1>11 DEF PlanInv

\* Both lists of a user: the memories that stay, and the new ones, whose UUIDs have
\* not been used.
LEMMA NewCore ==
  ASSUME PlanInv, run # Idle, run.stage = "core",
         NEW I \in SUBSET DOMAIN run.core
  PROVE  LET new == Inserts(run.coreActs)
             kept == Picked(run.core, I)
             added == [k \in DOMAIN new |-> [id |-> Uuids[made + k], text |-> new[k].text]] IN
         /\ kept \o added \in Seq(CoreMemory)
         /\ Range(kept \o added) = {run.core[i] : i \in I} \union Range(added)
         /\ \A i, k \in DOMAIN (kept \o added) :
              (kept \o added)[i].id = (kept \o added)[k].id => i = k
         /\ made + Len(new) \in 0..Len(Uuids)
         /\ Range(added) \subseteq [id : {Uuids[n] : n \in (made+1)..(made + Len(new))}, text : Texts]
         /\ {m.text : m \in Range(added)} = InsertedTexts(run.coreActs)
<1> DEFINE new == Inserts(run.coreActs)
           kept == Picked(run.core, I)
           added == [k \in DOMAIN new |-> [id |-> Uuids[made + k], text |-> new[k].text]]
<1>1. /\ run.user \in Users /\ run.core \in Seq(CoreMemory) /\ run.core = cores[run.user]
      /\ IsList(run.coreActs) /\ InsertedTexts(run.coreActs) \subseteq Texts
      /\ made + Len(new) <= Len(Uuids)
  BY DEF PlanInv, RunInv
<1>2. /\ Len(new) \in Nat /\ DOMAIN new = 1..Len(new)
      /\ {new[k].text : k \in DOMAIN new} = InsertedTexts(run.coreActs)
  BY <1>1, InsertsList
<1>3. made \in Nat /\ Len(Uuids) \in Nat /\ DOMAIN Uuids = 1..Len(Uuids)
  BY IdAssumption DEF PlanInv, CoreInv
<1> HIDE DEF new
<1>4. \A k \in DOMAIN new : made + k \in DOMAIN Uuids /\ new[k].text \in Texts
  BY <1>1, <1>2, <1>3
<1>5. added \in Seq(CoreMemory) /\ Len(added) = Len(new) /\ DOMAIN added = DOMAIN new
  <2>1. \A k \in DOMAIN new : added[k] \in CoreMemory
    BY <1>4 DEF CoreMemory, Range
  <2> QED
    BY <1>2, <2>1
<1>6. \A k \in DOMAIN new : added[k].id = Uuids[made + k] /\ added[k].text = new[k].text
  OBVIOUS
<1>7. kept \in Seq(CoreMemory) /\ \E f : PicksBy(f, kept, run.core, I)
  BY <1>1, PickedList
<1>8. PICK f : PicksBy(f, kept, run.core, I)
  BY <1>7
<1>9. /\ f \in [DOMAIN kept -> I]
      /\ \A k \in DOMAIN kept : kept[k] = run.core[f[k]]
      /\ \A k, l \in DOMAIN kept : k < l => f[k] < f[l]
      /\ \A i \in I : \E k \in DOMAIN kept : f[k] = i
  BY <1>8 DEF PicksBy
<1>10. \A i \in I : \E n \in 1..made : run.core[i].id = Uuids[n]
  BY <1>1 DEF PlanInv, CoreInv
<1>11. \A i, k \in I : run.core[i].id = run.core[k].id => i = k
  BY <1>1 DEF PlanInv, CoreInv, CoreIdsDistinct
<1> HIDE DEF kept, added
<1>12. /\ kept \o added \in Seq(CoreMemory)
       /\ Len(kept) \in Nat /\ DOMAIN kept = 1..Len(kept)
       /\ DOMAIN (kept \o added) = 1..(Len(kept) + Len(new))
       /\ \A k \in 1..Len(kept) : (kept \o added)[k] = kept[k]
       /\ \A k \in DOMAIN new : /\ Len(kept) + k \in DOMAIN (kept \o added)
                               /\ (kept \o added)[Len(kept) + k] = added[k]
  <2>1. /\ Len(kept) \in Nat /\ DOMAIN kept = 1..Len(kept)
        /\ kept \o added \in Seq(CoreMemory)
        /\ DOMAIN (kept \o added) = 1..(Len(kept) + Len(new))
    BY <1>2, <1>5, <1>7
  <2>2. \A k \in 1..Len(kept) : (kept \o added)[k] = kept[k]
    BY <1>5, <1>7
  <2>3. ASSUME NEW k \in DOMAIN new
        PROVE  /\ Len(kept) + k \in DOMAIN (kept \o added)
               /\ (kept \o added)[Len(kept) + k] = added[k]
    <3>1. k \in 1..Len(added) /\ added \in Seq(CoreMemory) /\ kept \in Seq(CoreMemory)
      BY <1>2, <1>5, <1>7
    <3>2. Len(kept) + k \in 1..(Len(kept) + Len(added))
      BY <2>1, <3>1
    <3>3. Len(kept) + k > Len(kept) /\ (Len(kept) + k) - Len(kept) = k
      BY <2>1, <3>1
    <3> QED
      BY <1>5, <2>1, <3>1, <3>2, <3>3
  <2> QED
    BY <2>1, <2>2, <2>3
<1>13. \A k \in DOMAIN (kept \o added) :
         k \in DOMAIN kept \/ \E l \in DOMAIN new : k = Len(kept) + l
  <2> TAKE k \in DOMAIN (kept \o added)
  <2>1. CASE k <= Len(kept)
    BY <1>12, <2>1
  <2>2. CASE ~(k <= Len(kept))
    <3>1. k - Len(kept) \in DOMAIN new /\ k = Len(kept) + (k - Len(kept))
      BY <1>2, <1>12, <2>2
    <3> QED
      BY <3>1
  <2> QED
    BY <2>1, <2>2
<1>14. Range(kept \o added) = {run.core[i] : i \in I} \union Range(added)
  <2>1. \A k \in DOMAIN (kept \o added) :
          (kept \o added)[k] \in {run.core[i] : i \in I} \union Range(added)
    BY <1>5, <1>9, <1>12, <1>13 DEF Range
  <2>2. \A i \in I : \E k \in DOMAIN (kept \o added) : (kept \o added)[k] = run.core[i]
    <3> TAKE i \in I
    <3>1. PICK k \in DOMAIN kept : f[k] = i
      BY <1>9
    <3>2. k \in DOMAIN (kept \o added) /\ (kept \o added)[k] = run.core[i]
      BY <1>2, <1>9, <1>12, <3>1
    <3> QED
      BY <3>2
  <2>3. \A l \in DOMAIN added : \E k \in DOMAIN (kept \o added) : (kept \o added)[k] = added[l]
    BY <1>5, <1>12
  <2> QED
    BY <2>1, <2>2, <2>3 DEF Range
<1>15. ASSUME NEW i \in DOMAIN (kept \o added), NEW k \in DOMAIN (kept \o added),
              (kept \o added)[i].id = (kept \o added)[k].id
       PROVE  i = k
  <2>0. \A n, m \in DOMAIN Uuids : Uuids[n] = Uuids[m] => n = m
    BY IdAssumption
  <2>1. \A n \in 1..made : n \in DOMAIN Uuids
    BY <1>1, <1>2, <1>3
  <2>2. ASSUME NEW a \in DOMAIN kept, NEW b \in DOMAIN kept, kept[a].id = kept[b].id
        PROVE  a = b
    <3>1. f[a] = f[b] /\ f[a] \in Int /\ a \in Int /\ b \in Int
      BY <1>1, <1>9, <1>11, <1>12, <2>2, SMTT(30)
    <3>2. ~(f[a] < f[b]) /\ ~(f[b] < f[a])
      BY <3>1
    <3>3. ~(a < b) /\ ~(b < a)
      BY <1>9, <3>2
    <3> QED
      BY <3>1, <3>3
  <2>3. ASSUME NEW a \in DOMAIN kept, NEW b \in DOMAIN new, kept[a].id = added[b].id
        PROVE  FALSE
    <3>1. PICK n \in 1..made : kept[a].id = Uuids[n]
      BY <1>9, <1>10
    <3>2. n = made + b
      BY <1>4, <1>6, <2>0, <2>1, <2>3, <3>1
    <3> QED
      BY <1>2, <1>3, <3>2
  <2>4. ASSUME NEW a \in DOMAIN new, NEW b \in DOMAIN new, added[a].id = added[b].id
        PROVE  a = b
    <3>1. made + a = made + b
      BY <1>4, <1>6, <2>0, <2>4
    <3> QED
      BY <1>2, <1>3, <3>1
  <2>5. CASE i \in DOMAIN kept /\ k \in DOMAIN kept
    BY <1>12, <1>15, <2>2, <2>5
  <2>6. CASE i \in DOMAIN kept /\ \E l \in DOMAIN new : k = Len(kept) + l
    BY <1>12, <1>15, <2>3, <2>6
  <2>7. CASE k \in DOMAIN kept /\ \E l \in DOMAIN new : i = Len(kept) + l
    BY <1>12, <1>15, <2>3, <2>7
  <2>8. CASE (\E l \in DOMAIN new : i = Len(kept) + l) /\ \E l \in DOMAIN new : k = Len(kept) + l
    BY <1>12, <1>15, <2>4, <2>8
  <2> QED
    BY <1>13, <2>5, <2>6, <2>7, <2>8
<1>16. Range(added) \subseteq [id : {Uuids[n] : n \in (made+1)..(made + Len(new))}, text : Texts]
  <2> SUFFICES ASSUME NEW k \in DOMAIN new
               PROVE  added[k] \in [id : {Uuids[n] : n \in (made+1)..(made + Len(new))}, text : Texts]
    BY <1>5 DEF Range
  <2>1. made + k \in (made+1)..(made + Len(new))
    BY <1>2, <1>3
  <2> QED
    BY <1>4, <2>1 DEF added
<1>17. {m.text : m \in Range(added)} = InsertedTexts(run.coreActs)
  <2>1. {m.text : m \in Range(added)} = {new[k].text : k \in DOMAIN new}
    BY <1>5, <1>6 DEF Range
  <2> QED
    BY <1>2, <2>1
<1>18. made + Len(new) \in 0..Len(Uuids)
  BY <1>1, <1>2, <1>3
<1> QED
  BY <1>12, <1>14, <1>15, <1>16, <1>17, <1>18 DEF kept, added, new

\* The core list that the writing run leaves.
LEMMA WriteCorePlanInv == ASSUME PlanInv, WriteCore PROVE PlanInv'
<1> DEFINE u == run.user
           I == {i \in DOMAIN run.core :
                   run.core[i].id \notin {IntToUuid(run, n) : n \in Deletes(run.coreActs)}}
           new == Inserts(run.coreActs)
           added == [k \in DOMAIN new |-> [id |-> Uuids[made + k], text |-> new[k].text]]
           list == Picked(run.core, I) \o added
<1>1. /\ run # Idle /\ run.stage = "core" /\ u \in Users
      /\ run.core \in Seq(CoreMemory) /\ run.core = cores[u]
  BY DEF WriteCore, PlanInv, RunInv
<1>2. /\ cores' = IF run.coreActs = <<>> THEN cores ELSE [cores EXCEPT ![u] = list]
      /\ made' = made + Len(new) /\ points' = points
  BY DEF WriteCore
<1>3. I \in SUBSET DOMAIN run.core
  OBVIOUS
<1> HIDE DEF I
<1>4. /\ list \in Seq(CoreMemory)
      /\ Range(list) = {run.core[i] : i \in I} \union Range(added)
      /\ \A i, k \in DOMAIN list : list[i].id = list[k].id => i = k
      /\ made + Len(new) \in 0..Len(Uuids)
      /\ Range(added) \subseteq [id : {Uuids[n] : n \in (made+1)..(made + Len(new))}, text : Texts]
  BY <1>1, <1>3, NewCore
<1>5. made \in Nat /\ Len(new) \in Nat
  <2>1. IsList(run.coreActs)
    BY <1>1 DEF PlanInv, RunInv
  <2> QED
    BY <2>1, InsertsList DEF PlanInv, CoreInv
<1> HIDE DEF list, added, new, u
<1>6. \A n \in 1..made : n \in 1..made'
  BY <1>2, <1>5
<1>7. ASSUME NEW i \in DOMAIN list
      PROVE  \/ \E k \in DOMAIN cores[u] : list[i].id = cores[u][k].id
             \/ \E n \in (made+1)..made' : list[i].id = Uuids[n]
  <2>1. list[i] \in {run.core[k] : k \in I} \union Range(added)
    BY <1>4 DEF Range
  <2>2. CASE list[i] \in {run.core[k] : k \in I}
    BY <1>1, <1>3, <2>2
  <2>3. CASE list[i] \in Range(added)
    <3>1. list[i] \in [id : {Uuids[n] : n \in (made+1)..made'}, text : Texts]
      BY <1>2, <1>4, <2>3
    <3> QED
      BY <3>1
  <2> QED
    BY <2>1, <2>2, <2>3
<1>8. \A v \in Users : \A k \in DOMAIN cores[v] : \E n \in 1..made : cores[v][k].id = Uuids[n]
  BY DEF PlanInv, CoreInv
<1>9. cores \in [Users -> Seq(CoreMemory)]
  BY DEF PlanInv, CoreInv
<1>10. ASSUME run.coreActs # <<>> PROVE CoreInv'
  <2>1. cores' = [cores EXCEPT ![u] = list]
    BY <1>2, <1>10
  <2>2. cores' \in [Users -> Seq(CoreMemory)] /\ cores'[u] = list
        /\ \A v \in Users : v # u => cores'[v] = cores[v]
    BY <1>1, <1>4, <1>9, <2>1
  <2>3. \A i \in DOMAIN list : \E n \in 1..made' : list[i].id = Uuids[n]
    <3> TAKE i \in DOMAIN list
    <3>1. CASE \E k \in DOMAIN cores[u] : list[i].id = cores[u][k].id
      BY <1>1, <1>6, <1>8, <3>1
    <3>2. CASE \E n \in (made+1)..made' : list[i].id = Uuids[n]
      <4>1. \A n \in (made+1)..made' : n \in 1..made'
        BY <1>2, <1>5
      <4> QED
        BY <3>2, <4>1
    <3> QED
      BY <1>7, <3>1, <3>2
  <2>4. \A v \in Users : \A k \in DOMAIN cores'[v] : \E n \in 1..made' : cores'[v][k].id = Uuids[n]
    <3> TAKE v \in Users
    <3>1. CASE v = u
      BY <2>2, <2>3, <3>1
    <3>2. CASE v # u
      BY <1>6, <1>8, <2>2, <3>2
    <3> QED
      BY <3>1, <3>2
  <2>5. ASSUME NEW v \in Users \ {u}, NEW i \in DOMAIN list, NEW k \in DOMAIN cores[v]
        PROVE  list[i].id # cores[v][k].id
    <3>1. CASE \E l \in DOMAIN cores[u] : list[i].id = cores[u][l].id
      BY <1>1, <3>1, <2>5 DEF PlanInv, CoreInv, CoreIdsDistinct
    <3>2. CASE \E n \in (made+1)..made' : list[i].id = Uuids[n]
      <4>1. PICK n \in (made+1)..made' : list[i].id = Uuids[n]
        BY <3>2
      <4>2. PICK m \in 1..made : cores[v][k].id = Uuids[m]
        BY <1>8, <2>5
      <4>3. n \in 1..Len(Uuids) /\ m \in 1..Len(Uuids) /\ n # m
        BY <1>2, <1>4, <1>5
      <4> QED
        BY <4>1, <4>2, <4>3, IdAssumption
    <3> QED
      BY <1>7, <3>1, <3>2
  <2>6. CoreIdsDistinct'
    <3> SUFFICES ASSUME NEW v \in Users, NEW w \in Users,
                        NEW i \in DOMAIN cores'[v], NEW k \in DOMAIN cores'[w],
                        cores'[v][i].id = cores'[w][k].id
                 PROVE  v = w /\ i = k
      BY DEF CoreIdsDistinct
    <3>1. CASE v = u /\ w = u
      BY <1>4, <2>2, <3>1
    <3>2. CASE v = u /\ w # u
      BY <2>2, <2>5, <3>2
    <3>3. CASE v # u /\ w = u
      BY <2>2, <2>5, <3>3
    <3>4. CASE v # u /\ w # u
      BY <2>2, <3>4 DEF PlanInv, CoreInv, CoreIdsDistinct
    <3> QED
      BY <3>1, <3>2, <3>3, <3>4
  <2> QED
    BY <1>2, <1>4, <2>2, <2>4, <2>6 DEF CoreInv
<1>11. ASSUME run.coreActs = <<>> PROVE CoreInv'
  <2>1. cores' = cores
    BY <1>2, <1>11
  <2>2. \A v \in Users : \A k \in DOMAIN cores[v] : \E n \in 1..made' : cores[v][k].id = Uuids[n]
    BY <1>6, <1>8
  <2>3. CoreIdsDistinct'
    BY <2>1 DEF PlanInv, CoreInv, CoreIdsDistinct
  <2>4. \A v \in Users : \A k \in DOMAIN cores'[v] : \E n \in 1..made' : cores'[v][k].id = Uuids[n]
    BY <2>1, <2>2
  <2>5. cores' \in [Users -> Seq(CoreMemory)] /\ made' \in 0..Len(Uuids)
    BY <1>2, <1>4, <1>9, <2>1
  <2> QED
    BY <2>3, <2>4, <2>5 DEF CoreInv
<1>12. RunInv'
  <2>1. /\ run'.stage = "delete" /\ run'.user = run.user /\ run'.core = run.core
        /\ run'.old = run.old /\ run'.coreActs = run.coreActs /\ run'.acts = run.acts
    BY <1>1 DEF WriteCore, Proceed
  <2>2. run' # Idle
    BY <2>1 DEF Idle
  <2>3. /\ run.user \in Users /\ IsList(run.old)
        /\ \A k \in DOMAIN run.old :
             /\ run.old[k].id \in DOMAIN points
             /\ points[run.old[k].id] = [user |-> run.user, text |-> run.old[k].text]
        /\ IsList(run.coreActs) /\ IsList(run.acts)
        /\ InsertedTexts(run.coreActs) \subseteq Texts /\ InsertedTexts(run.acts) \subseteq Texts
    BY <1>1 DEF PlanInv, RunInv
  <2> QED
    BY <1>1, <1>2, <2>1, <2>2, <2>3 DEF RunInv, IsList
<1> QED
  BY <1>2, <1>10, <1>11, <1>12, WriteCoreInv DEF PlanInv

LEMMA DeletePointsPlanInv == ASSUME PlanInv, DeletePoints PROVE PlanInv'
<1>1. cores' = cores /\ made' = made
  BY DEF DeletePoints
<1>2. CoreInv'
  BY <1>1 DEF PlanInv, CoreInv, CoreIdsDistinct
<1>3. RunInv'
  BY DEF DeletePoints, Proceed, PlanInv, RunInv, IsList, Idle
<1>4. IsFiniteSet(DOMAIN points')
  <2>1. DOMAIN points' \subseteq DOMAIN points
    BY DEF DeletePoints, Restrict
  <2> QED
    BY <2>1, FS_Subset DEF PlanInv
<1> QED
  BY <1>2, <1>3, <1>4, DeletePointsInv DEF PlanInv

LEMMA InsertPointsPlanInv == ASSUME PlanInv, InsertPoints PROVE PlanInv'
<1>1. cores' = cores /\ made' = made /\ run' = Idle
  BY DEF InsertPoints
<1>2. CoreInv'
  BY <1>1 DEF PlanInv, CoreInv, CoreIdsDistinct
<1>3. RunInv'
  BY <1>1 DEF RunInv, Idle
<1>4. IsFiniteSet(DOMAIN points')
  <2> DEFINE memories == InsertedTexts(run.acts)
             ids == {PointId(t, run.user) : t \in memories}
             id == [t \in memories |-> PointId(t, run.user)]
  <2>1. DOMAIN points' = DOMAIN points \union ids
    BY DEF InsertPoints
  <2>2. IsList(run.acts)
    BY DEF InsertPoints, PlanInv, RunInv
  <2>3. IsFiniteSet(memories)
    BY <2>2, InsertsList
  <2>4. id \in Surjection(memories, ids)
    BY DEF Surjection
  <2> HIDE DEF memories, ids, id
  <2>5. IsFiniteSet(ids)
    BY <2>3, <2>4, FS_Surjection
  <2> QED
    BY <2>1, <2>5, FS_Union DEF PlanInv
<1> QED
  BY <1>2, <1>3, <1>4, InsertPointsInv DEF PlanInv

LEMMA PlanInvInit == PromptInit => PlanInv
<1> SUFFICES ASSUME PromptInit PROVE PlanInv
  OBVIOUS
<1>1. CoreInv
  BY IdAssumption DEF PromptInit, CoreInv, CoreIdsDistinct
<1>2. IsFiniteSet(DOMAIN points)
  BY FS_EmptySet DEF PromptInit
<1> QED
  BY <1>1, <1>2, PointInvInit DEF PromptInit, PlanInv, RunInv

LEMMA PlanInvNext == PlanInv /\ [PromptNext]_promptVars => PlanInv'
<1> SUFFICES ASSUME PlanInv, [PromptNext]_promptVars PROVE PlanInv'
  OBVIOUS
<1>1. CASE UNCHANGED promptVars
  BY <1>1, PointInvNext
     DEF promptVars, PlanInv, CoreInv, CoreIdsDistinct, RunInv, IsList
<1>2. CASE PromptNext
  BY <1>2, AskPlanInv, AnswerPlanInv, WriteCorePlanInv, DeletePointsPlanInv,
     InsertPointsPlanInv DEF PromptNext
<1> QED
  BY <1>1, <1>2

\* Lists, points and runs are of their types (memory.go:204, vectordb.go:144): what
\* a reply inserts has a payload, and no more UUIDs are used than there are.
THEOREM PromptTyped == PromptSpec => []PromptTypeOK
<1>1. PlanInv => PromptTypeOK
  BY DEF PlanInv, PointInv, PointsKeyed, CoreInv, RunInv, PromptTypeOK, Range
<1> QED
  BY <1>1, PlanInvInit, PlanInvNext, PTL DEF PromptSpec

\* A run that deletes a core memory by its id deletes that one and no other, of no
\* user (memory.go:226): the UUIDs of new memories (line 204) are none that any list
\* holds.
THEOREM CoreIdsAreDistinct == PromptSpec => []CoreIdsDistinct
<1>1. PlanInv => CoreIdsDistinct
  BY DEF PlanInv, CoreInv
<1> QED
  BY <1>1, PlanInvInit, PlanInvNext, PTL DEF PromptSpec

-----------------------------------------------------------------------------
(* The plan over sets of memories. Each step of the run is the step of     *)
(* SetPlan that Pending says is due, or none.                              *)

Shown(r) ==
  {CoreNumber(k) : k \in DOMAIN r.core} \union {DisplacedId(r.core, k) : k \in DOMAIN r.old}

\* A number is that of a core memory, that of a general one, or unknown.
LEMMA NumberCases ==
  ASSUME NEW r, r.core \in Seq(CoreMemory), IsList(r.old), NEW n
  PROVE  \/ \E k \in DOMAIN r.core : n = CoreNumber(k) /\ IntToUuid(r, n) = r.core[k].id
         \/ \E k \in DOMAIN r.old : n = DisplacedId(r.core, k) /\ IntToUuid(r, n) = r.old[k].id
         \/ n \notin Shown(r) /\ IntToUuid(r, n) = NoUuid
<1>1. ASSUME NEW k \in DOMAIN r.core PROVE IntToUuid(r, CoreNumber(k)) = r.core[k].id
  BY CoreNumberTranslates DEF IsList
<1>2. ASSUME NEW k \in DOMAIN r.old PROVE IntToUuid(r, DisplacedId(r.core, k)) = r.old[k].id
  BY GeneralNumberTranslates DEF IsList
<1>3. CASE n \notin Shown(r)
  BY <1>3 DEF Shown, IntToUuid
<1> QED
  BY <1>1, <1>2, <1>3 DEF Shown

\* Ids of the two lists of a run.
LEMMA ShownIds ==
  ASSUME PlanInv, run # Idle, run.stage \in {"asking", "core", "delete"}
  PROVE  /\ run.user \in Users /\ run.core \in Seq(CoreMemory) /\ IsList(run.old)
         /\ \A k \in DOMAIN run.core :
              run.core[k].id # NoUuid /\ run.core[k].id \notin DOMAIN points
         /\ \A k \in DOMAIN run.old :
              /\ run.old[k].id # NoUuid /\ run.old[k].id \in DOMAIN points
              /\ points[run.old[k].id] = [user |-> run.user, text |-> run.old[k].text]
<1>1. /\ run.user \in Users /\ run.core \in Seq(CoreMemory) /\ IsList(run.old)
      /\ \A k \in DOMAIN run.old :
           /\ run.old[k].id \in DOMAIN points
           /\ points[run.old[k].id] = [user |-> run.user, text |-> run.old[k].text]
  BY DEF PlanInv, RunInv
<1>2. ASSUME NEW id \in DOMAIN points
      PROVE  \E t \in Texts, u \in Users : id = PointId(t, u)
  BY DEF PlanInv, PointInv, PointsKeyed, Payload
<1>3. ASSUME NEW t \in Texts, NEW u \in Users PROVE PointId(t, u) # NoUuid
  <2>1. t \in Seq(STRING) /\ u \in Seq(STRING) /\ u # <<>>
    BY IdAssumption DEF NoUuid
  <2>2. Len(u) \in Nat /\ Len(t) \in Nat /\ Len(u) # 0 /\ Len(t \o u) = Len(t) + Len(u)
    BY <2>1
  <2>3. Len(t \o u) # 0
    BY <2>2
  <2> QED
    BY <2>3 DEF PointId, NoUuid
<1>4. ASSUME NEW k \in DOMAIN run.core
      PROVE  run.core[k].id # NoUuid /\ run.core[k].id \notin DOMAIN points
  <2>1. run.core[k] \in CoreMemory
    BY <1>1
  <2> QED
    BY <1>2, <2>1, UuidsApart
<1> QED
  BY <1>1, <1>2, <1>3, <1>4, SMTT(30)

\* A run asks nothing of the stores before it has a reply, and what it has been
\* asked for stays the same until it is done.
LEMMA PendingStages ==
  ASSUME NEW r
  PROVE  /\ r = Idle => Pending(r) = Ideal!NoPlan
         /\ r # Idle /\ r.stage = "asking" => Pending(r) = Ideal!NoPlan
         /\ r # Idle /\ r.stage = "core" => Pending(r) = [stage |-> "decided", plan |-> Meant(r)]
         /\ r # Idle /\ r.stage = "delete" => Pending(r) = [stage |-> "profileSet", plan |-> Meant(r)]
         /\ r # Idle /\ r.stage = "insert" => Pending(r) = [stage |-> "forgotten", plan |-> Meant(r)]
<1>1. Idle.stage = "idle"
  BY DEF Idle
<1>2. r = Idle => Pending(r) = Ideal!NoPlan
  BY <1>1 DEF Pending, Ideal!NoPlan
<1>3. r # Idle /\ r.stage = "asking" => Pending(r) = Ideal!NoPlan
  BY DEF Pending, Ideal!NoPlan
<1>4. r # Idle /\ r.stage = "core" => Pending(r) = [stage |-> "decided", plan |-> Meant(r)]
  BY DEF Pending
<1>5. r # Idle /\ r.stage = "delete" => Pending(r) = [stage |-> "profileSet", plan |-> Meant(r)]
  BY DEF Pending
<1>6. r # Idle /\ r.stage = "insert" => Pending(r) = [stage |-> "forgotten", plan |-> Meant(r)]
  BY DEF Pending
<1> QED
  BY <1>2, <1>3, <1>4, <1>5, <1>6

LEMMA ProceedKeepsPlan ==
  ASSUME NEW stage, run # Idle, Proceed(stage), PlanInv, run.stage \in {"core", "delete"},
         stage \in {"delete", "insert"}
  PROVE  run' # Idle /\ run'.stage = stage /\ Meant(run') = Meant(run)
<1>1. /\ run'.stage = stage /\ run'.user = run.user /\ run'.core = run.core
      /\ run'.old = run.old /\ run'.coreActs = run.coreActs /\ run'.acts = run.acts
  BY DEF Proceed
<1>2. run' # Idle
  BY <1>1 DEF Idle
<1>3. Meant(run') = Meant(run)
  BY <1>1 DEF Meant
<1> QED
  BY <1>1, <1>2, <1>3

LEMMA AskImplements ==
  ASSUME PlanInv, NEW u \in Users, Ask(u) PROVE UNCHANGED Ideal!planVars
<1>1. run = Idle /\ run' # Idle /\ run'.stage = "asking"
  BY DEF Ask, Idle
<1>2. Pending(run) = Ideal!NoPlan /\ Pending(run') = Ideal!NoPlan
  BY <1>1, PendingStages
<1>3. Profile' = Profile /\ points' = points
  BY DEF Ask, Profile
<1> QED
  BY <1>2, <1>3 DEF Ideal!planVars

LEMMA AnswerImplements == ASSUME PlanInv, Answer PROVE Ideal!Decide
<1>1. /\ run # Idle /\ run.stage = "asking"
      /\ cores' = cores /\ points' = points /\ made' = made
  BY DEF Answer
<1>2. /\ run' # Idle /\ run'.stage = "core" /\ run'.user = run.user
      /\ run'.core = run.core /\ run'.old = run.old
  BY DEF Answer, Idle
<1>3. Pending(run) = Ideal!NoPlan /\ Pending(run') = [stage |-> "decided", plan |-> Meant(run')]
  BY <1>1, <1>2, PendingStages
<1>4. /\ run.user \in Users /\ run.core = cores[run.user]
      /\ \A k \in DOMAIN run.old :
           /\ run.old[k].id \in DOMAIN points
           /\ points[run.old[k].id] = [user |-> run.user, text |-> run.old[k].text]
  BY <1>1 DEF PlanInv, RunInv
<1>5. Meant(run').user = run.user
  BY <1>2 DEF Meant
<1>6. Meant(run').drop \subseteq Profile /\ \A m \in Meant(run').drop : m.user = run.user
  <2>1. \A k \in DOMAIN run.core :
          [id |-> run.core[k].id, user |-> run.user, text |-> run.core[k].text] \in Profile
    BY <1>4 DEF Profile, Range
  <2> QED
    BY <1>2, <2>1 DEF Meant
<1>7. Meant(run').forget \subseteq Range(points) /\ \A m \in Meant(run').forget : m.user = run.user
  <2>1. \A k \in DOMAIN run.old : [user |-> run.user, text |-> run.old[k].text] \in Range(points)
    BY <1>4 DEF Range
  <2> QED
    BY <1>2, <2>1 DEF Meant
<1>8. \A m \in Meant(run').learn : m.user = run.user
  BY <1>2 DEF Meant
<1>9. Profile' = Profile /\ Range(points)' = Range(points)
  BY <1>1 DEF Profile
<1> QED
  BY <1>3, <1>5, <1>6, <1>7, <1>8, <1>9 DEF Ideal!Decide

\* The core memories whose ids the reply translates to are those it means: no
\* number of another memory translates to the id of a core memory.
LEMMA DroppedAreMeant ==
  ASSUME PlanInv, run # Idle, run.stage = "core", NEW k \in DOMAIN run.core
  PROVE  run.core[k].id \in {IntToUuid(run, n) : n \in Deletes(run.coreActs)}
           <=> CoreNumber(k) \in Deletes(run.coreActs)
<1>1. /\ run.core \in Seq(CoreMemory) /\ IsList(run.old)
      /\ \A i \in DOMAIN run.core : run.core[i].id # NoUuid /\ run.core[i].id \notin DOMAIN points
      /\ \A i \in DOMAIN run.old : run.old[i].id \in DOMAIN points
  BY ShownIds
<1>2. \A i \in DOMAIN run.core : run.core[i].id = run.core[k].id => i = k
  BY DEF PlanInv, RunInv, CoreInv, CoreIdsDistinct
<1>3. IntToUuid(run, CoreNumber(k)) = run.core[k].id
  BY <1>1, CoreNumberTranslates DEF IsList
<1>4. ASSUME NEW n, IntToUuid(run, n) = run.core[k].id PROVE n = CoreNumber(k)
  <2>1. \E i \in DOMAIN run.core : n = CoreNumber(i) /\ IntToUuid(run, n) = run.core[i].id
    BY <1>1, <1>4, NumberCases
  <2> QED
    BY <1>2, <1>4, <2>1
<1> QED
  BY <1>3, <1>4

LEMMA WriteCoreImplements == ASSUME PlanInv, WriteCore PROVE Ideal!SetProfile
<1> DEFINE u == run.user
           ids == {IntToUuid(run, n) : n \in Deletes(run.coreActs)}
           I == {i \in DOMAIN run.core : run.core[i].id \notin ids}
           new == Inserts(run.coreActs)
           added == [k \in DOMAIN new |-> [id |-> Uuids[made + k], text |-> new[k].text]]
           list == Picked(run.core, I) \o added
           entry(m) == [id |-> m.id, user |-> u, text |-> m.text]
           drop == {entry(run.core[k]) : k \in DOMAIN run.core \ I}
           fresh == {entry(m) : m \in Range(added)}
<1>1. /\ run # Idle /\ run.stage = "core" /\ u \in Users
      /\ run.core \in Seq(CoreMemory) /\ run.core = cores[u]
  BY DEF WriteCore, PlanInv, RunInv
<1>2. /\ cores' = IF run.coreActs = <<>> THEN cores ELSE [cores EXCEPT ![u] = list]
      /\ points' = points /\ Proceed("delete")
  BY DEF WriteCore
<1>3. /\ Pending(run) = [stage |-> "decided", plan |-> Meant(run)]
      /\ Pending(run') = [stage |-> "profileSet", plan |-> Meant(run)]
  BY <1>1, <1>2, ProceedKeepsPlan, PendingStages
<1>4. Meant(run).user = u /\ Meant(run).add = InsertedTexts(run.coreActs)
  BY DEF Meant
<1>5. Meant(run).drop = drop
  <2>1. \A k \in DOMAIN run.core : k \notin I <=> CoreNumber(k) \in Deletes(run.coreActs)
    BY <1>1, DroppedAreMeant
  <2> HIDE DEF I
  <2> QED
    BY <2>1 DEF Meant
<1>6. I \in SUBSET DOMAIN run.core
  OBVIOUS
<1>7. /\ Range(list) = {run.core[i] : i \in I} \union Range(added)
      /\ Range(added) \subseteq [id : {Uuids[n] : n \in (made+1)..(made + Len(new))}, text : Texts]
      /\ {m.text : m \in Range(added)} = InsertedTexts(run.coreActs)
      /\ made + Len(new) \in 0..Len(Uuids)
  <2> HIDE DEF I
  <2> QED
    BY <1>1, <1>6, NewCore
<1>8. ASSUME NEW m \in Range(added), NEW v \in Users, NEW k \in DOMAIN cores[v]
      PROVE  m.id # cores[v][k].id
  <2>1. PICK n \in (made+1)..(made + Len(new)) : m.id = Uuids[n]
    BY <1>7
  <2>2. made \in 0..Len(Uuids) /\ \E i \in 1..made : cores[v][k].id = Uuids[i]
    BY DEF PlanInv, CoreInv
  <2>3. PICK i \in 1..made : cores[v][k].id = Uuids[i]
    BY <2>2
  <2>4. IsList(run.coreActs)
    BY <1>1 DEF PlanInv, RunInv
  <2>5. Len(new) \in Nat /\ Len(Uuids) \in Nat /\ DOMAIN Uuids = 1..Len(Uuids)
    BY <2>4, InsertsList, IdAssumption
  <2>6. n \in DOMAIN Uuids /\ i \in DOMAIN Uuids /\ n # i
    <3> HIDE DEF new
    <3> QED
      BY <1>7, <2>2, <2>5
  <2> QED
    BY <2>1, <2>3, <2>6, IdAssumption
<1>9. \A v \in Users : \A i \in DOMAIN cores[u], k \in DOMAIN cores[v] :
        cores[u][i].id = cores[v][k].id => u = v /\ i = k
  BY <1>1 DEF PlanInv, CoreInv, CoreIdsDistinct
<1> HIDE DEF I, added, list, new
<1>10. ASSUME run.coreActs # <<>>
       PROVE  Profile \ Profile' = drop /\ Profile' \ Profile = fresh
  <2> DEFINE others == UNION {{[id |-> m.id, user |-> v, text |-> m.text] : m \in Range(cores[v])} :
                               v \in Users \ {u}}
             kept == {entry(run.core[i]) : i \in I}
  <2>1. Profile = others \union {entry(m) : m \in Range(cores[u])}
    BY <1>1 DEF Profile
  <2>2. {entry(m) : m \in Range(cores[u])} = kept \union drop
    BY <1>1, <1>6 DEF Range
  <2>3. cores' = [cores EXCEPT ![u] = list] /\ DOMAIN cores = Users
    BY <1>2, <1>10 DEF PlanInv, CoreInv
  <2>4. cores'[u] = list /\ \A v \in Users \ {u} : cores'[v] = cores[v]
    BY <1>1, <2>3
  <2>5. Profile' = others \union {entry(m) : m \in Range(list)}
    BY <1>1, <2>4 DEF Profile
  <2>6. {entry(m) : m \in Range(list)} = kept \union fresh
    BY <1>7
  <2>7. \A x \in others : x.user # u
    OBVIOUS
  <2>8. \A x \in kept \union drop \union fresh : x.user = u
    OBVIOUS
  <2>9. ASSUME NEW x \in kept, NEW y \in drop PROVE x # y
    BY <1>1, <1>6, <1>9
  <2>10. ASSUME NEW x \in kept \union drop, NEW y \in fresh PROVE x # y
    <3>1. PICK k \in DOMAIN run.core : x = entry(run.core[k])
      BY <1>6
    <3>2. PICK m \in Range(added) : y = entry(m)
      OBVIOUS
    <3>3. m.id # run.core[k].id
      BY <1>1, <1>8
    <3> QED
      BY <3>1, <3>2, <3>3
  <2> HIDE DEF others, kept, drop, fresh
  <2>11. Profile = others \union kept \union drop /\ Profile' = others \union kept \union fresh
    BY <2>1, <2>2, <2>5, <2>6
  <2>12. \A x \in drop : x \notin others \union kept \union fresh
    BY <2>7, <2>8, <2>9, <2>10
  <2>13. \A x \in fresh : x \notin others \union kept \union drop
    BY <2>7, <2>8, <2>10
  <2> QED
    BY <2>11, <2>12, <2>13
<1>11. ASSUME run.coreActs = <<>>
       PROVE  Profile' = Profile /\ drop = {} /\ InsertedTexts(run.coreActs) = {}
  <2>1. Range(run.coreActs) = {}
    BY <1>11 DEF Range
  <2>2. Deletes(run.coreActs) = {} /\ InsertedTexts(run.coreActs) = {}
    BY <2>1 DEF Deletes, InsertedTexts
  <2>3. drop = {}
    BY <2>2 DEF I
  <2>4. Profile' = Profile
    BY <1>2, <1>11 DEF Profile
  <2> QED
    BY <2>2, <2>3, <2>4
<1>12. {m.text : m \in fresh} = InsertedTexts(run.coreActs) /\ \A m \in fresh : m.user = u
  <2>1. \A m \in Range(added) : entry(m).text = m.text /\ entry(m).user = u
    OBVIOUS
  <2>2. {m.text : m \in fresh} = {m.text : m \in Range(added)}
    <3> HIDE DEF entry
    <3> QED
      BY <2>1
  <2> QED
    BY <1>7, <2>1, <2>2
<1> HIDE DEF drop, fresh, u
<1>13. /\ Profile \ Profile' = drop
       /\ {m.text : m \in Profile' \ Profile} = InsertedTexts(run.coreActs)
       /\ \A m \in Profile' \ Profile : m.user = u
  BY <1>10, <1>11, <1>12
<1> QED
  BY <1>2, <1>3, <1>4, <1>5, <1>13 DEF Ideal!SetProfile, Ideal!Staged

LEMMA DeletePointsImplements == ASSUME PlanInv, DeletePoints PROVE Ideal!Forget
<1> DEFINE D == Deletes(run.acts)
           memoryIds == {IntToUuid(run, n) : n \in D}
           F == {run.old[k].id : k \in {i \in DOMAIN run.old : DisplacedId(run.core, i) \in D}}
           fact(m) == [user |-> run.user, text |-> m.text]
           forget == {fact(run.old[k]) : k \in {i \in DOMAIN run.old : DisplacedId(run.core, i) \in D}}
           found == IF NoUuid \in memoryIds THEN {} ELSE memoryIds \intersect DOMAIN points
<1>1. run # Idle /\ run.stage = "delete" /\ cores' = cores /\ Proceed("insert")
  BY DEF DeletePoints
<1>2. points' = IF found = {} THEN points ELSE Restrict(points, DOMAIN points \ memoryIds)
  BY DEF DeletePoints
<1>3. /\ Pending(run) = [stage |-> "profileSet", plan |-> Meant(run)]
      /\ Pending(run') = [stage |-> "forgotten", plan |-> Meant(run)]
  BY <1>1, ProceedKeepsPlan, PendingStages
<1>4. Meant(run).forget = forget /\ Meant(run).garbled = ~(D \subseteq Shown(run))
  BY DEF Meant, Shown
<1>5. /\ run.core \in Seq(CoreMemory) /\ IsList(run.old)
      /\ \A k \in DOMAIN run.core :
           run.core[k].id # NoUuid /\ run.core[k].id \notin DOMAIN points
      /\ \A k \in DOMAIN run.old :
           /\ run.old[k].id # NoUuid /\ run.old[k].id \in DOMAIN points
           /\ points[run.old[k].id] = [user |-> run.user, text |-> run.old[k].text]
  BY <1>1, ShownIds
<1>6. \A k \in DOMAIN run.core : IntToUuid(run, CoreNumber(k)) = run.core[k].id
  BY <1>5, CoreNumberTranslates DEF IsList
<1>7. \A k \in DOMAIN run.old : IntToUuid(run, DisplacedId(run.core, k)) = run.old[k].id
  BY <1>5, GeneralNumberTranslates DEF IsList
<1>8. ASSUME NEW n
      PROVE  \/ \E k \in DOMAIN run.core : n = CoreNumber(k)
             \/ \E k \in DOMAIN run.old : n = DisplacedId(run.core, k)
             \/ n \notin Shown(run) /\ IntToUuid(run, n) = NoUuid
  <2>1. \/ \E k \in DOMAIN run.core : n = CoreNumber(k) /\ IntToUuid(run, n) = run.core[k].id
        \/ \E k \in DOMAIN run.old :
             n = DisplacedId(run.core, k) /\ IntToUuid(run, n) = run.old[k].id
        \/ n \notin Shown(run) /\ IntToUuid(run, n) = NoUuid
    BY <1>5, NumberCases
  <2> QED
    BY <2>1
<1> HIDE DEF D
<1>9. NoUuid \in memoryIds <=> ~(D \subseteq Shown(run))
  <2>1. ASSUME NEW n \in Shown(run) PROVE IntToUuid(run, n) # NoUuid
    <3>1. \/ \E k \in DOMAIN run.core : n = CoreNumber(k)
          \/ \E k \in DOMAIN run.old : n = DisplacedId(run.core, k)
      BY DEF Shown
    <3>2. CASE \E k \in DOMAIN run.core : n = CoreNumber(k)
      BY <1>5, <1>6, <3>2
    <3>3. CASE \E k \in DOMAIN run.old : n = DisplacedId(run.core, k)
      <4>1. PICK k \in DOMAIN run.old : n = DisplacedId(run.core, k)
        BY <3>3
      <4>2. IntToUuid(run, n) = run.old[k].id /\ run.old[k].id # NoUuid
        BY <1>5, <1>7, <4>1
      <4> QED
        BY <4>2
    <3> QED
      BY <3>1, <3>2, <3>3
  <2>2. ASSUME NEW n \in D, n \notin Shown(run) PROVE IntToUuid(run, n) = NoUuid
    BY <1>8, <2>2 DEF Shown
  <2>3. NoUuid \in memoryIds <=> \E n \in D : IntToUuid(run, n) = NoUuid
    OBVIOUS
  <2> QED
    BY <2>1, <2>2, <2>3
<1>10. ASSUME NoUuid \notin memoryIds PROVE memoryIds \intersect DOMAIN points = F
  <2>1. F \subseteq memoryIds \intersect DOMAIN points
    BY <1>5, <1>7, ZenonT(30)
  <2>2. ASSUME NEW n \in D, IntToUuid(run, n) \in DOMAIN points PROVE IntToUuid(run, n) \in F
    BY <1>5, <1>6, <1>7, <1>8, <1>10, <2>2
  <2> QED
    BY <2>1, <2>2
<1>11. forget = {points[id] : id \in F} /\ F \subseteq DOMAIN points
  <2> DEFINE K == {i \in DOMAIN run.old : DisplacedId(run.core, i) \in D}
  <2>1. \A k \in K : run.old[k].id \in DOMAIN points /\ points[run.old[k].id] = fact(run.old[k])
    BY <1>5
  <2>2. F = {run.old[k].id : k \in K} /\ forget = {fact(run.old[k]) : k \in K}
    OBVIOUS
  <2> HIDE DEF K, F, forget, fact
  <2> QED
    BY <2>1, <2>2
<1>12. \A id1, id2 \in DOMAIN points : points[id1] = points[id2] => id1 = id2
  BY DEF PlanInv, PointInv, PointsKeyed
<1> HIDE DEF memoryIds, F, forget
<1>13. CASE NoUuid \in memoryIds
  <2>1. points' = points /\ Profile' = Profile /\ Meant(run).garbled
    <3>1. points' = points
      BY <1>2, <1>13
    <3>2. Profile' = Profile
      BY <1>1 DEF Profile
    <3>3. ~(D \subseteq Shown(run))
      BY <1>9, <1>13
    <3> QED
      BY <1>4, <3>1, <3>2, <3>3
  <2> QED
    BY <1>3, <2>1 DEF Ideal!Forget, Ideal!Staged
<1>14. CASE NoUuid \notin memoryIds
  <2>1. Range(points') = Range(points) \ forget
    <3>1. CASE F = {}
      <4>1. forget = {} /\ points' = points
        BY <1>2, <1>10, <1>11, <1>14, <3>1
      <4> QED
        BY <4>1
    <3>2. CASE F # {}
      <4>1. points' = Restrict(points, DOMAIN points \ memoryIds)
        BY <1>2, <1>10, <1>14, <3>2
      <4>2. DOMAIN points' = DOMAIN points \ F /\ \A id \in DOMAIN points' : points'[id] = points[id]
        BY <1>10, <1>14, <4>1 DEF Restrict
      <4> QED
        BY <1>11, <1>12, <4>2 DEF Range
    <3> QED
      BY <3>1, <3>2
  <2>2. Profile' = Profile /\ ~Meant(run).garbled /\ Meant(run).forget = forget
    <3>1. Profile' = Profile
      BY <1>1 DEF Profile
    <3>2. D \subseteq Shown(run)
      BY <1>9, <1>14
    <3> QED
      BY <1>4, <3>1, <3>2
  <2> QED
    BY <1>3, <2>1, <2>2 DEF Ideal!Forget, Ideal!Staged
<1> QED
  BY <1>13, <1>14

LEMMA InsertPointsImplements == ASSUME PlanInv, InsertPoints PROVE Ideal!Learn
<1> DEFINE u == run.user
           memories == InsertedTexts(run.acts)
           ids == {PointId(t, u) : t \in memories}
           text(id) == CHOOSE t \in memories : PointId(t, u) = id
           learn == {[user |-> u, text |-> t] : t \in memories}
<1>1. /\ run # Idle /\ run.stage = "insert" /\ run' = Idle /\ cores' = cores
      /\ u \in Users /\ memories \subseteq Texts
  BY DEF InsertPoints, PlanInv, RunInv
<1>2. points' = [id \in DOMAIN points \union ids |->
                   IF id \in ids THEN [user |-> u, text |-> text(id)] ELSE points[id]]
  BY DEF InsertPoints
<1>3. Pending(run) = [stage |-> "forgotten", plan |-> Meant(run)] /\ Pending(run') = Ideal!NoPlan
  BY <1>1, PendingStages
<1>4. Meant(run).learn = learn
  BY DEF Meant
<1>5. \A t \in memories : text(PointId(t, u)) = t
  <2> TAKE t \in memories
  <2>1. text(PointId(t, u)) \in memories /\ PointId(text(PointId(t, u)), u) = PointId(t, u)
    OBVIOUS
  <2> HIDE DEF text, memories, u
  <2> QED
    BY <1>1, <2>1, PointIdInjective
<1>6. \A id \in DOMAIN points :
        /\ points[id].user \in Users /\ points[id].text \in Texts
        /\ points[id] = [user |-> points[id].user, text |-> points[id].text]
        /\ id = PointId(points[id].text, points[id].user)
  BY DEF PlanInv, PointInv, PointsKeyed, Payload
<1> HIDE DEF text, memories, u
<1>7. \A t \in memories : points'[PointId(t, u)] = [user |-> u, text |-> t]
                        /\ PointId(t, u) \in DOMAIN points'
  BY <1>2, <1>5
<1>8. ASSUME NEW id \in DOMAIN points PROVE id \in DOMAIN points' /\ points'[id] = points[id]
  <2>1. CASE id \notin ids
    BY <1>2, <2>1
  <2>2. CASE id \in ids
    <3>1. PICK t \in memories : id = PointId(t, u)
      BY <2>2
    <3>2. points[id].user = u /\ points[id].text = t
      BY <1>1, <1>6, <3>1, PointIdInjective
    <3> QED
      BY <1>2, <1>6, <1>7, <3>1, <3>2
  <2> QED
    BY <2>1, <2>2
<1>9. Range(points') = Range(points) \union learn
  <2>1. \A id \in DOMAIN points' : id \in DOMAIN points \/ \E t \in memories : id = PointId(t, u)
    BY <1>2
  <2>2. ASSUME NEW id \in DOMAIN points' PROVE points'[id] \in Range(points) \union learn
    <3>1. CASE id \in DOMAIN points
      BY <1>8, <3>1 DEF Range
    <3>2. CASE id \notin DOMAIN points
      <4>1. PICK t \in memories : id = PointId(t, u)
        BY <2>1, <3>2
      <4>2. points'[id] = [user |-> u, text |-> t]
        BY <1>7, <4>1
      <4> QED
        BY <4>2
    <3> QED
      BY <3>1, <3>2
  <2>3. \A id \in DOMAIN points : points[id] \in Range(points')
    BY <1>8 DEF Range
  <2>4. learn \subseteq Range(points')
    BY <1>7 DEF Range
  <2>5. \A x \in Range(points') : \E id \in DOMAIN points' : x = points'[id]
    BY DEF Range
  <2>6. \A x \in Range(points) : \E id \in DOMAIN points : x = points[id]
    BY DEF Range
  <2> HIDE DEF learn
  <2> QED
    BY <2>2, <2>3, <2>4, <2>5, <2>6
<1> QED
  BY <1>1, <1>3, <1>4, <1>9 DEF Ideal!Learn, Profile

LEMMA StepImplements ==
  PlanInv /\ [PromptNext]_promptVars => [Ideal!SetPlanNext]_(Ideal!planVars)
<1> SUFFICES ASSUME PlanInv, [PromptNext]_promptVars
             PROVE  Ideal!SetPlanNext \/ UNCHANGED Ideal!planVars
  OBVIOUS
<1>1. CASE UNCHANGED promptVars
  BY <1>1 DEF promptVars, Ideal!planVars, Profile, Pending
<1>2. CASE PromptNext
  BY <1>2, AskImplements, AnswerImplements, WriteCoreImplements, DeletePointsImplements,
     InsertPointsImplements DEF PromptNext, Ideal!SetPlanNext
<1> QED
  BY <1>1, <1>2

\* The numbers, the lists and the hashed ids do to the memories what the LLM means
\* (llm.go:90, memory.go:145, vectordb.go:134), whatever it replies.
THEOREM PlanMeansWhatItDoes == PromptSpec => PlanMeansWhatItSays
<1>1. PromptInit => Ideal!SetPlanInit
  <2> SUFFICES ASSUME PromptInit PROVE Ideal!SetPlanInit
    OBVIOUS
  <2>1. Profile = {}
    BY DEF PromptInit, Profile, Range
  <2>2. Range(points) = {}
    BY DEF PromptInit, Range
  <2>3. Pending(run) = Ideal!NoPlan
    BY PendingStages DEF PromptInit
  <2> QED
    BY <2>1, <2>2, <2>3 DEF Ideal!SetPlanInit
<1> QED
  BY <1>1, PlanInvInit, PlanInvNext, StepImplements, PTL
     DEF PromptSpec, PlanMeansWhatItSays, Ideal!SetPlanSpec
=============================================================================
