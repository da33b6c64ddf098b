--------------------------- MODULE IdealCuration ---------------------------
(***************************************************************************)
(* MemoryAgent with a search and an LLM that do what they are asked to do: *)
(* the search returns all general memories of the user, ExpandQuery never  *)
(* skips a fact, and the plan deletes exactly the shown memories the new   *)
(* fact contradicts and inserts the fact unless it is already known (steps *)
(* 1 to 4 of the schema's description). What is left to go wrong is the    *)
(* code's own: overlapping runs, swallowed errors, crashes, redelivery.    *)
(***************************************************************************)
EXTENDS MemoryAgent, Functions

CONSTANTS
  Says,   \* Says[j]: the one fact the messages of job j state
  Topic   \* Topic[t]: facts on one topic contradict each other

ASSUME CurationAssumption ==
  /\ Says \in [Jobs -> Texts]
  /\ DOMAIN Topic = Texts

VARIABLES
  coreTopics,  \* the topics the LLM takes for core ones, always the same
  disturbed,   \* history: users hit by one of the hazards of Observe, IdealCrash
  lastDone     \* history: lastDone[u] is the last job of u whose run succeeded

history == <<disturbed, lastDone>>
idealVars == <<vars, coreTopics, history>>

IdealInit ==
  /\ Init
  /\ coreTopics \in SUBSET Range(Topic)
  /\ disturbed = {}
  /\ lastDone = [u \in Users |-> NoJob]

PointsOf(u) == {p \in points : p.user = u}

Contradict(s, t) == s # t /\ Topic[s] = Topic[t]

\* The actions on one tier for fact t, given the memories shown of that tier.
Curated(shown, t) ==
  {[type |-> "DELETE", target |-> m] : m \in {x \in shown : Contradict(x.text, t)}}
    \union {[type |-> "INSERT", payload |-> s] :
              s \in {t} \ {m.text : m \in shown}}

IdealPlan(w) ==
  LET t == Says[wk[w].job] IN
  IF Topic[t] \in coreTopics
  THEN [core |-> Curated(wk[w].snap, t), general |-> {}]
  ELSE [core |-> {}, general |-> Curated(wk[w].shown, t)]

\* A run that is past Begin and has not returned.
Running(w) == wk[w].pc \notin {"idle", "ack", "term", "panic"}

IdealWorkerStep(w) ==
  \/ Begin(w) \/ ExpandContinues(w)
  \/ At(w, "search") /\ (SearchFinds(w, PointsOf(User(w))) \/ SearchFails(w))
  \/ ReadCore(w)
  \/ At(w, "generate") /\ (GenerateReturns(w, IdealPlan(w)) \/ GenerateFails(w))
  \/ WriteCore(w) \/ Embed(w) \/ CheckDelete(w) \/ Delete(w) \/ Insert(w) \/ Settle(w)

\* The step starts a run while another run of the same user is going on.
Overlaps(w) ==
  /\ At(w, "idle")
  /\ \E x \in Workers \ {w} : Running(x) /\ User(x) = UserOf[Head(inbox[w])]

\* The step is a call whose failure InsertMemory swallows, and it may fail.
Swallows(w) ==
  /\ wk[w].pc \in {"search", "readCore", "writeCore", "embed", "check", "delete", "insert"}
  /\ wk[w].expired \/ faults' # faults

\* The step reads the general memories while writes are on their way.
ReadsBehind(w) == wk[w].pc \in {"search", "check"} /\ backlog # <<>>

\* The step ends, with an error, a job of which an earlier run was cut short.
GivesUpRerun(w) == wk'[w].pc = "term" /\ wk[w].pc # "term" /\ wk[w].n > 1

Observe(w) ==
  /\ disturbed' = IF Overlaps(w) \/ Swallows(w) \/ ReadsBehind(w) \/ GivesUpRerun(w)
                  THEN disturbed \union {UserOf[wk'[w].job]} ELSE disturbed
  /\ lastDone' = IF wk[w].pc = "insert"
                 THEN [lastDone EXCEPT ![User(w)] = wk[w].job] ELSE lastDone

\* A crash ends runs; one whose message is settled already, because another
\* delivery of the job was faster, is never made up for.
IdealCrash ==
  /\ Crash
  /\ disturbed' = disturbed \union
       {User(w) : w \in {x \in Workers : Running(x) /\ stream[wk[x].job] # "pending"}}
  /\ UNCHANGED lastDone

IdealNext ==
  /\ \/ (QueueStep \/ ApplyWrite \/ \E w \in Workers : DeadlineExpires(w)) /\ UNCHANGED history
     \/ IdealCrash
     \/ \E w \in Workers : IdealWorkerStep(w) /\ Observe(w)
  /\ UNCHANGED coreTopics

IdealSpec == IdealInit /\ [][IdealNext]_idealVars
-----------------------------------------------------------------------------
(* Properties that hold.                                                   *)

\* The core profile never contradicts itself, under any interleaving of runs,
\* failures, crashes and redeliveries: the list in Redis is always the view of
\* one run, written in one call, even when it is a stale view.
CoreProfileConsistent ==
  \A u \in Users : \A m1, m2 \in core[u] : ~Contradict(m1.text, m2.text)

\* As long as the runs of a user do not overlap, and none has swallowed a failure
\* or searched while writes were on their way, the user's general memories never
\* contradict each other, not even between two calls of a run: DeleteMemories
\* comes before InsertNewMemories.
UndisturbedConsistent ==
  \A u \in Users \ disturbed :
    \A p1, p2 \in PointsOf(u) : ~Contradict(p1.text, p2.text)

\* No job of u is in the stream or in a worker, no write is on its way.
AtRest(u) ==
  /\ backlog = <<>>
  /\ \A j \in Jobs : UserOf[j] = u => stream[j] # "pending"
  /\ \A w \in Workers : wk[w].job # NoJob => User(w) # u

\* A crash between the delete and the insert of a replacement loses nothing in
\* the end: once the user's jobs are settled, the fact of the last one that
\* succeeded is remembered, because the message is settled after the last write.
LastFactRemembered ==
  \A u \in Users \ disturbed :
    AtRest(u) /\ lastDone[u] # NoJob
      => \E m \in core[u] \union PointsOf(u) : m.text = Says[lastDone[u]]
-----------------------------------------------------------------------------
(* Properties a document of the repository states and the code breaks.     *)

\* README.md:42: "Contradictory memories are automatically detected and
\* replaced." No two general memories of a user contradict each other when no
\* run is going on and no write is on its way.
ContradictionsReplaced ==
  backlog = <<>> /\ (\A w \in Workers : ~Running(w))
    => \A u \in Users : \A p1, p2 \in PointsOf(u) : ~Contradict(p1.text, p2.text)

\* README.md:31: "a persistent *core memory profile*". A core memory disappears
\* only in a run whose plan deletes it.
CoreProfilePersistent ==
  [][\A u \in Users : \A m \in core[u] \ core'[u] :
       \E w \in Workers : At(w, "writeCore") /\ m \in Targets(wk[w].answer.core)]_idealVars

\* README.md:42: a contradictory memory is "replaced". When a run that set out
\* to delete general memories reports success and they are gone, the topic is
\* still remembered.
ReplacedNotForgotten ==
  [][\A w \in Workers :
       LET old == Targets(wk[w].answer.general) IN
       At(w, "insert") /\ wk'[w].pc = "ack" /\ old # {} /\ old \intersect points' = {}
         /\ backlog' = <<>>
         => \E p \in points' : /\ p.user = User(w)
                               /\ Topic[p.text] = Topic[Says[wk[w].job]]]_idealVars
=============================================================================
