----------------------------- MODULE PromptPlan -----------------------------
(***************************************************************************)
(* A plan of the LLM in detail. GenerateMemoryText numbers the memories it *)
(* shows, core ones first, and translates the numbers of the reply back to *)
(* ids; InsertMemory rebuilds the core list and hands the other ids to the *)
(* vector database, whose points are keyed by a hash. One run at a time,   *)
(* and no fault: both are the subject of MemoryAgent.                      *)
(*                                                                         *)
(* Strings are sequences of characters here.                               *)
(***************************************************************************)
EXTENDS Integers, Sequences, FiniteSets, Functions

CONSTANTS
  Users, Texts,
  Uuids,       \* the sequence of the UUIDs that uuid.NewUUID will return
  MaxActions   \* bound: actions in one reply

\* The empty string, which an unknown number is translated to.
NoUuid == <<>>

\* Sensitivity variant: the user is left out of the hash.
PointIdOfText(text, user) == text

\* SHA-1 of text and user, one after the other: no two strings have one hash.
PointId(text, user) == text \o user

\* User ids have one length. The code does not ask for it, and it is what makes
\* the concatenation an identity: "ab" of user "c" is not "a" of user "bc".
ASSUME IdAssumption ==
  /\ Uuids \in Seq(Seq(STRING)) /\ MaxActions \in Nat
  /\ \A t \in Texts, u \in Users : t \in Seq(STRING) /\ u \in Seq(STRING)
  /\ \A u, v \in Users : Len(u) = Len(v) /\ u # NoUuid
  /\ \A i \in DOMAIN Uuids :
       /\ Uuids[i] # NoUuid
       /\ \A k \in DOMAIN Uuids : Uuids[i] = Uuids[k] => i = k
       /\ \A t \in Texts, u \in Users : Uuids[i] # PointId(t, u)

VARIABLES
  cores,    \* cores[u]: the list of core memories under the user's key
  points,   \* points[id]: the payload of a point
  made,     \* the number of UUIDs used up
  run       \* the run in progress

promptVars == <<cores, points, made, run>>

CoreMemory == [id : Range(Uuids), text : Texts]
Payload == [user : Users, text : Texts]

Idle == [stage |-> "idle"]

PromptTypeOK ==
  /\ \A u \in Users : Range(cores[u]) \subseteq CoreMemory
  /\ \A id \in DOMAIN points : points[id] \in Payload
  /\ made \in 0..Len(Uuids)
  /\ run = Idle \/ run.stage \in {"asking", "core", "delete", "insert"}

PromptInit ==
  cores = [u \in Users |-> <<>>] /\ points = <<>> /\ made = 0 /\ run = Idle

-----------------------------------------------------------------------------
(* The prompt: run.core and run.old are the two lists it shows.            *)

\* The number shown with the k-th core memory.
CoreNumber(k) == k - 1

\* Sensitivity variant: the two lists are numbered apart.
DisplacedFromZero(core, k) == k - 1

\* The number shown with the k-th general memory.
DisplacedId(core, k) == k - 1 + Len(core)

\* The id a number of the reply stands for. An entry made for a general memory
\* replaces one made for a core memory, and an unknown number has no entry.
IntToUuid(r, n) ==
  LET inCore == {k \in DOMAIN r.core : CoreNumber(k) = n}
      inOld == {k \in DOMAIN r.old : DisplacedId(r.core, k) = n} IN
  IF inOld # {} THEN r.old[CHOOSE k \in inOld : TRUE].id
  ELSE IF inCore # {} THEN r.core[CHOOSE k \in inCore : TRUE].id
  ELSE NoUuid

\* The core memories of a user, and what the search finds of the others: some
\* of them, in some order.
Ask(u) ==
  /\ run = Idle
  /\ \E found \in SUBSET {id \in DOMAIN points : points[id].user = u} :
     \E order \in Bijection(1..Cardinality(found), found) :
       run' = [stage |-> "asking", user |-> u, core |-> cores[u],
               old |-> [k \in DOMAIN order |->
                          [id |-> order[k], text |-> points[order[k]].text]]]
  /\ UNCHANGED <<cores, points, made>>

\* The elements of s at the positions I, in their order. (SelectSeq, which is
\* recursive and beyond the proofs.)
Picked(s, I) ==
  [k \in 1..Cardinality(I) |-> s[CHOOSE i \in I : Cardinality({m \in I : m <= i}) = k]]

\* Sensitivity variant: a payload is taken for granted.
InsertsOfAnyPayload(acts) == Picked(acts, {i \in DOMAIN acts : acts[i].type # "DELETE"})

Inserts(acts) == Picked(acts, {i \in DOMAIN acts : acts[i].type = "INSERT"})
InsertedTexts(acts) == {a.text : a \in {b \in Range(acts) : b.type = "INSERT"}}
Deletes(acts) == {a.number : a \in {b \in Range(acts) : b.type = "DELETE"}}

\* An action names a number of either list, or one that was not shown.
MemoryAction(r) ==
  [type : {"INSERT"}, text : Texts]
    \union [type : {"DELETE"}, number : 0..(Len(r.core) + Len(r.old))]

\* An action without the payload or the target it needs.
VoidAction == [type |-> "void", text |-> <<>>]

\* The reply. Among the core actions a void one is skipped.
Answer ==
  /\ run # Idle /\ run.stage = "asking"
  /\ \E n \in 0..MaxActions : \E i \in 0..n :
     \E coreActs \in [1..i -> MemoryAction(run) \union {VoidAction}],
        acts \in [1..(n - i) -> MemoryAction(run)] :
       /\ made + Len(Inserts(coreActs)) <= Len(Uuids)
       /\ run' = [stage |-> "core", user |-> run.user, core |-> run.core,
                  old |-> run.old, coreActs |-> coreActs, acts |-> acts]
  /\ UNCHANGED <<cores, points, made>>

-----------------------------------------------------------------------------
(* Carrying the reply out.                                                 *)

Proceed(stage) == run' = [run EXCEPT !.stage = stage]

\* Sensitivity variant: the UUIDs are not used up.
WriteCoreUnderOldIds ==
  /\ run # Idle /\ run.stage = "core"
  /\ LET idsToDelete == {IntToUuid(run, n) : n \in Deletes(run.coreActs)}
         new == Inserts(run.coreActs)
         kept == Picked(run.core, {i \in DOMAIN run.core : run.core[i].id \notin idsToDelete})
         added == [k \in DOMAIN new |->
                     [id |-> Uuids[made + k], text |-> new[k].text]] IN
       /\ cores' = IF run.coreActs = <<>> THEN cores
                   ELSE [cores EXCEPT ![run.user] = kept \o added]
       /\ made' = made
  /\ Proceed("delete")
  /\ UNCHANGED points

\* Kept memories keep their order; new ones follow, each under a fresh UUID.
WriteCore ==
  /\ run # Idle /\ run.stage = "core"
  /\ LET idsToDelete == {IntToUuid(run, n) : n \in Deletes(run.coreActs)}
         new == Inserts(run.coreActs)
         kept == Picked(run.core, {i \in DOMAIN run.core : run.core[i].id \notin idsToDelete})
         added == [k \in DOMAIN new |->
                     [id |-> Uuids[made + k], text |-> new[k].text]] IN
       /\ cores' = IF run.coreActs = <<>> THEN cores
                   ELSE [cores EXCEPT ![run.user] = kept \o added]
       /\ made' = made + Len(new)
  /\ Proceed("delete")
  /\ UNCHANGED points

\* An id that is not a UUID makes the lookup of the whole batch fail; nothing
\* found, like a failed lookup, ends it before anything is deleted.
DeletePoints ==
  /\ run # Idle /\ run.stage = "delete"
  /\ LET memoryIds == {IntToUuid(run, n) : n \in Deletes(run.acts)}
         found == IF NoUuid \in memoryIds THEN {} ELSE memoryIds \intersect DOMAIN points
     IN points' = IF found = {} THEN points
                  ELSE Restrict(points, DOMAIN points \ memoryIds)
  /\ Proceed("insert")
  /\ UNCHANGED <<cores, made>>

\* Sensitivity variant: every fact becomes a point of its own.
InsertFreshPoints ==
  /\ run # Idle /\ run.stage = "insert"
  /\ LET new == Inserts(run.acts) IN
       points' = [id \in DOMAIN points
                       \union {<<Cardinality(DOMAIN points), k>> : k \in DOMAIN new} |->
                    IF id \in DOMAIN points THEN points[id]
                    ELSE [user |-> run.user, text |-> new[id[2]].text]]
  /\ run' = Idle
  /\ UNCHANGED <<cores, made>>

\* One upsert: a point whose id exists is overwritten.
InsertPoints ==
  /\ run # Idle /\ run.stage = "insert"
  /\ LET memories == InsertedTexts(run.acts)
         ids == {PointId(t, run.user) : t \in memories} IN
       points' = [id \in DOMAIN points \union ids |->
                    IF id \in ids
                      THEN [user |-> run.user,
                            text |-> CHOOSE t \in memories : PointId(t, run.user) = id]
                      ELSE points[id]]
  /\ run' = Idle
  /\ UNCHANGED <<cores, made>>

PromptNext ==
  \/ \E u \in Users : Ask(u)
  \/ Answer
  \/ WriteCore
  \/ DeletePoints
  \/ InsertPoints

PromptSpec == PromptInit /\ [][PromptNext]_promptVars

-----------------------------------------------------------------------------
(* What it comes to.                                                       *)

Profile ==
  UNION {{[id |-> m.id, user |-> u, text |-> m.text] : m \in Range(cores[u])} : u \in Users}

\* The plan as the LLM means it: a number is the memory it was shown with.
Meant(r) ==
  LET entry(m) == [id |-> m.id, user |-> r.user, text |-> m.text]
      fact(m) == [user |-> r.user, text |-> m.text]
      coreShown == {CoreNumber(k) : k \in DOMAIN r.core}
      oldShown == {DisplacedId(r.core, k) : k \in DOMAIN r.old} IN
  [user |-> r.user,
   drop |-> {entry(r.core[k]) : k \in {i \in DOMAIN r.core :
                                  CoreNumber(i) \in Deletes(r.coreActs)}},
   add |-> InsertedTexts(r.coreActs),
   forget |-> {fact(r.old[k]) : k \in {i \in DOMAIN r.old :
                                  DisplacedId(r.core, i) \in Deletes(r.acts)}},
   learn |-> {[user |-> r.user, text |-> t] : t \in InsertedTexts(r.acts)},
   garbled |-> ~(Deletes(r.acts) \subseteq coreShown \union oldShown)]

\* What is left of it to carry out.
Pending(r) ==
  CASE r = Idle \/ r.stage = "asking" -> [stage |-> "none"]
    [] r.stage = "core" -> [stage |-> "decided", plan |-> Meant(r)]
    [] r.stage = "delete" -> [stage |-> "profileSet", plan |-> Meant(r)]
    [] r.stage = "insert" -> [stage |-> "forgotten", plan |-> Meant(r)]

Ideal == INSTANCE SetPlan WITH
  profile <- Profile, general <- Range(points), plan <- Pending(run)

\* A core memory is told from every other by its id: a run that deletes one, in
\* whichever user's list, deletes that one.
CoreIdsDistinct ==
  \A u, v \in Users : \A i \in DOMAIN cores[u], k \in DOMAIN cores[v] :
    cores[u][i].id = cores[v][k].id => u = v /\ i = k

\* A fact that is learnt again, from another conversation or a redelivered job, is
\* still one point: forgetting it once forgets it.
FactsDistinct ==
  \A id1, id2 \in DOMAIN points : points[id1] = points[id2] => id1 = id2

\* Numbers, lists and hashed ids do what the LLM means, to the memories it was
\* shown and to no others: a core memory is never taken for a general one, an
\* unknown number costs the general deletions of its reply and nothing else, and
\* a fact of one user never overwrites one of another.
PlanMeansWhatItSays == Ideal!SetPlanSpec
=============================================================================
